--------------------------- MODULE ProcessProofs ---------------------------
(***************************************************************************)
(* Theorems about main, for every number of cycles and every size_t.       *)
(***************************************************************************)
EXTENDS Process, TLAPS

(* How far start-up has come.                                              *)
StartedInv ==
    /\ pc \in {"construct", "load", "init", "establish_timer", "start_timer"} \cup Loop
          => Termination \subseteq handled
    /\ pc \in {"start_timer"} \cup Loop => "ALRM" \in handled
    /\ armed => Termination \cup {"ALRM"} \subseteq handled
    /\ pc \in StartUp => ~armed /\ runs = 0
    /\ pc \in Loop => armed
    /\ ~armed => runs = 0
    /\ pc # "ended" => end = "none"

(* The loop counter and the number of runs, wherever main is in the loop.  *)
CountInv ==
    /\ ~inf => cycles < RunCap /\ runs <= cycles
    /\ ~inf /\ pc = "check" => i = cycles - runs
    /\ ~inf /\ pc = "call" => i = cycles - runs /\ i > 0
    /\ ~inf /\ pc \in Loop \ {"check", "call"} => i = cycles - runs + 1
    /\ armed /\ end = "EX_OK" /\ ~terminate => ~inf /\ runs = cycles

(* A wait that ended was ended by an alarm, or the flag is set.            *)
PaceInv ==
    /\ pc \in {"wait_returned", "next", "check"} /\ runs > 0 => ticked \/ terminate
    /\ pc = "call" /\ runs > 0 => ticked

WaitInv ==
    waiting => pc \in {"call_wait", "blocked", "wait_returned", "wait_threw", "ended"}

ProcessInv ==
    /\ ProcessTypeOK
    /\ SignalsAreHandled
    /\ StartedInv
    /\ CountInv
    /\ PaceInv
    /\ WaitInv

LEMMA ProcessInvInit == Init => ProcessInv
<1> SUFFICES ASSUME Init PROVE ProcessInv
  OBVIOUS
<1> USE DEF Init
<1>1. ProcessTypeOK
  <2>1. cycles \in 0..SizeMax /\ i \in 0..SizeMax /\ runs \in 0..RunCap
    BY SizeAssumption, RunCapAssumption
  <2> QED
    BY <2>1, Zenon DEF ProcessTypeOK, StartUp, Loop, Termination
<1>2. SignalsAreHandled /\ StartedInv
  BY DEF SignalsAreHandled, StartedInv, StartUp, Loop, Termination
<1>3. CountInv /\ PaceInv /\ WaitInv
  BY DEF CountInv, PaceInv, WaitInv, Loop, inf
<1> QED
  BY <1>1, <1>2, <1>3 DEF ProcessInv

(* One step of start-up keeps the invariant.                               *)
LEMMA StartUpStep ==
    ASSUME ProcessInv,
           \/ Options \/ Establish \/ Construct \/ LoadFile \/ InitMachine
           \/ EstablishTimer \/ StartTimer
    PROVE  ProcessInv'
<1> USE DEF ProcessInv, ProcessTypeOK, SignalsAreHandled, StartedInv, CountInv,
            PaceInv, WaitInv, StartUp, Loop, inf, Termination, Goto, End
<1>1. CASE Options
  BY <1>1 DEF Options
<1>2. CASE Establish
  BY <1>2 DEF Establish, NextHandler
<1>3. CASE Construct
  BY <1>3 DEF Construct
<1>4. CASE LoadFile
  <2>1. ProcessTypeOK'
    BY <1>4, CyclesAssumption, RunCapAssumption DEF LoadFile
  <2>2. SignalsAreHandled'
    BY <1>4, CyclesAssumption, RunCapAssumption DEF LoadFile
  <2>3. StartedInv'
    BY <1>4, CyclesAssumption, RunCapAssumption DEF LoadFile
  <2>4. CountInv'
    <3>1. runs' = 0 /\ ~armed'
      BY <1>4 DEF LoadFile
    <3>2. pc' \notin Loop
      BY <1>4 DEF LoadFile
    <3>3. CASE cycles' \in CycleSettings
      BY <3>1, <3>2, <3>3, SizeAssumption, CyclesAssumption, RunCapAssumption
    <3>4. CASE cycles' = cycles
      BY <3>1, <3>2, <3>4
    <3> QED
      BY <1>4, <3>3, <3>4 DEF LoadFile
  <2>5. PaceInv'
    BY <1>4, CyclesAssumption, RunCapAssumption DEF LoadFile
  <2>6. WaitInv'
    BY <1>4, CyclesAssumption, RunCapAssumption DEF LoadFile
  <2> QED
    BY <2>1, <2>2, <2>3, <2>4, <2>5, <2>6
<1>5. CASE InitMachine
  BY <1>5 DEF InitMachine
<1>6. CASE EstablishTimer
  BY <1>6 DEF EstablishTimer
<1>7. CASE StartTimer
  <2>1. ProcessTypeOK'
    BY <1>7 DEF StartTimer
  <2>2. SignalsAreHandled'
    BY <1>7 DEF StartTimer
  <2>3. StartedInv'
    BY <1>7 DEF StartTimer
  <2>4. CountInv'
    BY <1>7 DEF StartTimer
  <2>5. PaceInv'
    BY <1>7 DEF StartTimer
  <2>6. WaitInv'
    BY <1>7 DEF StartTimer
  <2> QED
    BY <2>1, <2>2, <2>3, <2>4, <2>5, <2>6
<1> QED
  BY <1>1, <1>2, <1>3, <1>4, <1>5, <1>6, <1>7

(* One step of the loop keeps the invariant.                               *)
LEMMA LoopStep ==
    ASSUME ProcessInv,
           \/ Check \/ StartRun \/ EndRun \/ EnterWait \/ BlockInWait
           \/ LeaveWait \/ WaitThrew \/ Decrement \/ WaitFails
    PROVE  ProcessInv'
<1> USE DEF ProcessInv, ProcessTypeOK, SignalsAreHandled, StartedInv, CountInv,
            PaceInv, WaitInv, StartUp, Loop, inf, Termination, Goto, End
<1>1. CASE Check
  BY <1>1 DEF Check
<1>2. CASE StartRun
  <2>1. ProcessTypeOK'
    <3>1. runs' \in 0..RunCap
      BY <1>2, RunCapAssumption DEF StartRun
    <3>2. ticked' = FALSE /\ pc' \in Loop
      BY <1>2 DEF StartRun
    <3> QED
      BY <1>2, <3>1, <3>2, Zenon DEF StartRun
  <2>2. SignalsAreHandled'
    BY <1>2, RunCapAssumption DEF StartRun
  <2>3. StartedInv'
    BY <1>2, RunCapAssumption DEF StartRun
  <2>4. CountInv'
    BY <1>2, RunCapAssumption DEF StartRun
  <2>5. PaceInv'
    BY <1>2, RunCapAssumption DEF StartRun
  <2>6. WaitInv'
    BY <1>2, RunCapAssumption DEF StartRun
  <2> QED
    BY <2>1, <2>2, <2>3, <2>4, <2>5, <2>6
<1>3. CASE EndRun
  BY <1>3 DEF EndRun
<1>4. CASE EnterWait
  BY <1>4 DEF EnterWait
<1>5. CASE BlockInWait
  BY <1>5 DEF BlockInWait
<1>6. CASE LeaveWait
  BY <1>6 DEF LeaveWait
<1>7. CASE WaitThrew
  BY <1>7 DEF WaitThrew
<1>8. CASE Decrement
  BY <1>8, SizeAssumption DEF Decrement
<1>9. CASE WaitFails
  BY <1>9 DEF WaitFails
<1> QED
  BY <1>1, <1>2, <1>3, <1>4, <1>5, <1>6, <1>7, <1>8, <1>9

(* A signal, whenever it arrives, keeps the invariant.                     *)
LEMMA SignalStep ==
    ASSUME ProcessInv,
           Alarm \/ Killed \/ \E s \in Termination : Terminated(s)
    PROVE  ProcessInv'
<1> USE DEF ProcessInv, ProcessTypeOK, SignalsAreHandled, StartedInv, CountInv,
            PaceInv, WaitInv, StartUp, Loop, inf, Termination, Goto, End, Running
<1>1. CASE Alarm
  BY <1>1 DEF Alarm
<1>2. CASE \E s \in Termination : Terminated(s)
  <2> PICK s \in Termination : Terminated(s)
    BY <1>2
  <2>1. ProcessTypeOK'
    BY <1>2 DEF Terminated
  <2>2. SignalsAreHandled'
    BY <1>2 DEF Terminated
  <2>3. StartedInv'
    BY <1>2 DEF Terminated
  <2>4. CountInv'
    BY <1>2 DEF Terminated
  <2>5. PaceInv'
    BY <1>2 DEF Terminated
  <2>6. WaitInv'
    BY <1>2 DEF Terminated
  <2> QED
    BY <2>1, <2>2, <2>3, <2>4, <2>5, <2>6
<1>3. CASE Killed
  BY <1>3 DEF Killed
<1> QED
  BY <1>1, <1>2, <1>3

LEMMA ProcessInvariant == Spec => []ProcessInv
<1>1. ProcessInv /\ [Next]_vars => ProcessInv'
  <2> SUFFICES ASSUME ProcessInv, [Next]_vars PROVE ProcessInv'
    OBVIOUS
  <2>1. CASE Main
    BY <2>1, StartUpStep, LoopStep DEF Main
  <2>2. CASE WaitFails \/ Alarm \/ Killed \/ \E s \in Termination : Terminated(s)
    BY <2>2, LoopStep, SignalStep
  <2>3. CASE UNCHANGED vars
    BY <2>3 DEF vars, ProcessInv, ProcessTypeOK, SignalsAreHandled, StartedInv, CountInv,
                PaceInv, WaitInv, inf
  <2> QED
    BY <2>1, <2>2, <2>3 DEF Next, Ended
<1> QED
  BY <1>1, ProcessInvInit, PTL DEF Spec

-----------------------------------------------------------------------------
(* Every variable of main keeps its type, the counter that wraps included. *)
THEOREM ProcessTypeCorrect == Spec => []ProcessTypeOK
<1>1. ProcessInv => ProcessTypeOK
  BY DEF ProcessInv
<1> QED
  BY <1>1, ProcessInvariant, PTL

(* The process is never killed by its own timer, nor, once the loop is     *)
(* entered, by SIGINT, SIGTERM or SIGQUIT.                                 *)
THEOREM SignalsAreHandledTheorem == Spec => []SignalsAreHandled
<1>1. ProcessInv => SignalsAreHandled
  BY DEF ProcessInv
<1> QED
  BY <1>1, ProcessInvariant, PTL

(* CYCLES is exact for every number of cycles and every width of the       *)
(* counter: the wrap of i below zero never shows.                          *)
THEOREM ExactCyclesTheorem == Spec => []ExactCycles
<1>1. ProcessInv => ExactCycles
  BY DEF ProcessInv, CountInv, ExactCycles
<1> QED
  BY <1>1, ProcessInvariant, PTL

(* No two runs are started within one period of the timer.                 *)
THEOREM RunsArePacedTheorem == Spec => []RunsArePaced
<1>1. ProcessInv => RunsArePaced
  BY DEF ProcessInv, PaceInv, RunsArePaced
<1> QED
  BY <1>1, ProcessInvariant, PTL

(* While a run is going on the handler of the alarm sees that nobody waits.*)
THEOREM OverrunIsReportedTheorem == Spec => []OverrunIsReported
<1>1. ProcessInv => OverrunIsReported
  BY DEF ProcessInv, WaitInv, OverrunIsReported
<1> QED
  BY <1>1, ProcessInvariant, PTL

(* After the flag is set no run is started but the one already decided on. *)
THEOREM TerminateIsFinalTheorem == Spec => TerminateIsFinal
<1> DEFINE Final == terminate /\ pc # "call"
<1>1. Final /\ [Next]_vars => Final'
  <2> SUFFICES ASSUME terminate, pc # "call", [Next]_vars
               PROVE  terminate' /\ pc' # "call"
    OBVIOUS
  <2> USE DEF Goto, End
  <2>1. CASE Options \/ Establish \/ Construct \/ LoadFile \/ InitMachine
    BY <2>1 DEF Options, Establish, Construct, LoadFile, InitMachine
  <2>2. CASE EstablishTimer \/ StartTimer \/ Check \/ StartRun \/ EndRun
    BY <2>2 DEF EstablishTimer, StartTimer, Check, StartRun, EndRun
  <2>3. CASE EnterWait \/ BlockInWait \/ LeaveWait \/ WaitThrew \/ Decrement \/ WaitFails
    BY <2>3 DEF EnterWait, BlockInWait, LeaveWait, WaitThrew, Decrement, WaitFails
  <2>4. CASE Alarm \/ Killed
    BY <2>4 DEF Alarm, Killed
  <2>5. CASE \E s \in Termination : Terminated(s)
    BY <2>5 DEF Terminated
  <2>6. CASE UNCHANGED vars
    BY <2>6 DEF vars
  <2> QED
    BY <2>1, <2>2, <2>3, <2>4, <2>5, <2>6 DEF Next, Main, Ended
<1>2. Final => pc # "call"
  OBVIOUS
<1> QED
  BY <1>1, <1>2, PTL DEF Spec, TerminateIsFinal

=============================================================================
