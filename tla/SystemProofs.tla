---------------------------- MODULE SystemProofs ----------------------------
(***************************************************************************)
(* Theorems about main and the machine together, for every set of          *)
(* programs, every memory and every number of cycles.                      *)
(***************************************************************************)
EXTENDS System, MachineProofs

-----------------------------------------------------------------------------
(* A step of the system is one of Process, of Machine, or of both.         *)

(* What main does in any step is what Process lets it do.                  *)
LEMMA StepOfProcess == SystemNext => P!Next \/ UNCHANGED main
<1> SUFFICES ASSUME SystemNext PROVE P!Next \/ UNCHANGED main
  OBVIOUS
<1>1. CASE Elsewhere
  BY <1>1 DEF Elsewhere, MainOnly, P!Next, P!Main
<1>2. CASE CallInit
  BY <1>2 DEF CallInit, P!Next, P!Main
<1>3. CASE CallRun
  BY <1>3 DEF CallRun, P!Next, P!Main
<1>4. CASE Instruction
  <2>1. AfterInstruction
    BY <1>4 DEF Instruction
  <2>2. P!EndRun \/ UNCHANGED main
    BY <2>1 DEF AfterInstruction
  <2> QED
    BY <2>2 DEF P!Next, P!Main
<1>5. CASE Signal
  BY <1>5 DEF Signal, MainOnly, P!Next
<1>6. CASE WaitFails
  BY <1>6 DEF WaitFails, MainOnly, P!Next
<1>7. CASE OthersWrite
  BY <1>7 DEF OthersWrite, MachineOnly
<1>8. CASE Ended
  BY <1>8 DEF Ended, systemVars
<1> QED
  BY <1>1, <1>2, <1>3, <1>4, <1>5, <1>6, <1>7, <1>8 DEF SystemNext, Main

(* What the machine does in any step is what Machine lets it do.           *)
LEMMA StepOfMachine == SystemNext => Next \/ UNCHANGED vars
<1> SUFFICES ASSUME SystemNext PROVE Next \/ UNCHANGED vars
  OBVIOUS
<1>1. CASE Elsewhere \/ Signal \/ WaitFails
  BY <1>1 DEF Elsewhere, Signal, WaitFails, MainOnly
<1>2. CASE CallInit
  BY <1>2 DEF CallInit, Next
<1>3. CASE CallRun
  BY <1>3 DEF CallRun, Next
<1>4. CASE Instruction
  BY <1>4 DEF Instruction, Next
<1>5. CASE OthersWrite
  BY <1>5 DEF OthersWrite, MachineOnly, Next
<1>6. CASE Ended
  BY <1>6 DEF Ended, systemVars
<1> QED
  BY <1>1, <1>2, <1>3, <1>4, <1>5, <1>6 DEF SystemNext, Main

(* main with the real machine in it behaves as module Process describes,   *)
(* so what is proved of Process holds of it: init() and run() end in no    *)
(* other way, wherever signals interrupt them.                             *)
THEOREM SystemImplementsProcess == SystemSpec => ImplementsProcess
<1>1. SystemInit => P!Init
  BY DEF SystemInit
<1>2. [SystemNext]_systemVars => [P!Next]_(P!vars)
  BY StepOfProcess DEF systemVars, main, P!vars
<1> QED
  BY <1>1, <1>2, PTL DEF SystemSpec, ImplementsProcess, P!Spec

(* The machine under main is the machine of module Machine: main calls     *)
(* init() and run() in an order it allows.                                 *)
THEOREM SystemImplementsMachine == SystemSpec => Spec
<1>1. SystemInit => Init
  BY DEF SystemInit
<1>2. [SystemNext]_systemVars => [Next]_vars
  BY StepOfMachine DEF systemVars
<1> QED
  BY <1>1, <1>2, PTL DEF SystemSpec, Spec

-----------------------------------------------------------------------------
(* Where main and the machine stand.                                       *)

Prepared == {"establish_timer", "start_timer"} \cup (P!Loop \ {"running"})
Handling == {"construct", "load", "init", "establish_timer", "start_timer"} \cup P!Loop

(* The handlers are there in time, so of these signals none ends the       *)
(* process while the machine runs; the machine runs when main is in run(), *)
(* or was killed there, and stands between two cycles elsewhere in the     *)
(* loop.                                                                   *)
HandledInv ==
    /\ pc \in Handling => P!Termination \subseteq handled
    /\ pc = "start_timer" => "ALRM" \in handled
    /\ armed => "ALRM" \in handled

StandInv ==
    /\ pc \in P!StartUp \cup P!Loop \cup {"ended"}
    /\ pc \in P!StartUp => runs = 0
    /\ pc # "ended" => end = "none"
    /\ pc \in Prepared => phase = "ready"
    /\ pc = "running" => phase = "running"
    /\ phase = "running" => pc = "running" \/ (pc = "ended" /\ end = "KILL")

StopInv ==
    /\ phase = "failed" => pc = "ended" /\ end = "EX_DATAERR"
    /\ phase = "dead" => pc = "ended" /\ end = "FPE"
    /\ pc = "ended" /\ runs > 0 /\ end # "KILL" => phase \in {"ready", "failed", "dead"}

SystemInv == HandledInv /\ StandInv /\ StopInv

LEMMA SystemInvInit == SystemInit => SystemInv
BY DEF SystemInit, Init, P!Init, SystemInv, HandledInv, StandInv, StopInv, Handling, Prepared,
       P!StartUp, P!Loop, P!Termination

(* A step of main keeps the handlers it has.                               *)
LEMMA HandledStep ==
    ASSUME HandledInv, pc \in P!StartUp \cup P!Loop \cup {"ended"}, P!Next \/ UNCHANGED main
    PROVE  HandledInv'
<1> USE DEF HandledInv, Handling, P!StartUp, P!Loop, P!Termination, P!Goto, P!End
<1>1. CASE P!Options \/ P!Establish
  BY <1>1 DEF P!Options, P!Establish, P!NextHandler
<1>2. CASE P!Construct \/ P!LoadFile \/ P!InitMachine \/ P!EstablishTimer \/ P!StartTimer
  BY <1>2 DEF P!Construct, P!LoadFile, P!InitMachine, P!EstablishTimer, P!StartTimer
<1>3. CASE P!Check \/ P!StartRun \/ P!EndRun \/ P!EnterWait \/ P!BlockInWait
  BY <1>3 DEF P!Check, P!StartRun, P!EndRun, P!EnterWait, P!BlockInWait
<1>4. CASE P!LeaveWait \/ P!WaitThrew \/ P!Decrement \/ P!WaitFails
  BY <1>4 DEF P!LeaveWait, P!WaitThrew, P!Decrement, P!WaitFails
<1>5. CASE P!Alarm \/ P!Killed \/ \E s \in P!Termination : P!Terminated(s)
  BY <1>5 DEF P!Alarm, P!Killed, P!Terminated, P!Running
<1>6. CASE P!Ended \/ UNCHANGED main
  BY <1>6 DEF P!Ended, P!vars, main
<1> QED
  BY <1>1, <1>2, <1>3, <1>4, <1>5, <1>6 DEF P!Next, P!Main

(* A step of main that does not call the machine.                          *)
LEMMA ElsewhereStep ==
    ASSUME SystemInv, Elsewhere \/ WaitFails
    PROVE  StandInv' /\ StopInv'
<1> USE DEF SystemInv, StandInv, StopInv, Prepared, P!StartUp, P!Loop, P!Goto, P!End
<1>0. UNCHANGED phase
  BY DEF Elsewhere, WaitFails, MainOnly, vars, machineVars
<1>1. CASE P!Options \/ P!Establish \/ P!Construct \/ P!LoadFile
  BY <1>0, <1>1 DEF P!Options, P!Establish, P!NextHandler, P!Construct, P!LoadFile
<1>2. CASE P!EstablishTimer \/ P!StartTimer
  BY <1>0, <1>2 DEF P!EstablishTimer, P!StartTimer
<1>3. CASE P!Check \/ P!EnterWait \/ P!BlockInWait \/ P!LeaveWait
  BY <1>0, <1>3 DEF P!Check, P!EnterWait, P!BlockInWait, P!LeaveWait
<1>4. CASE P!WaitThrew \/ P!Decrement \/ P!WaitFails
  BY <1>0, <1>4 DEF P!WaitThrew, P!Decrement, P!WaitFails
<1> QED
  BY <1>1, <1>2, <1>3, <1>4 DEF Elsewhere, WaitFails, MainOnly

(* A signal that is handled does not end the process in the middle of a    *)
(* run.                                                                    *)
LEMMA SignalStandStep ==
    ASSUME SystemInv, Signal
    PROVE  StandInv' /\ StopInv'
<1> USE DEF SystemInv, HandledInv, StandInv, StopInv, Prepared, Handling,
            P!StartUp, P!Loop, P!Goto, P!End
<1>0. UNCHANGED phase
  BY DEF Signal, MainOnly, vars, machineVars
<1>1. CASE P!Alarm
  BY <1>0, <1>1 DEF P!Alarm, P!Running
<1>2. CASE \E s \in P!Termination : P!Terminated(s)
  BY <1>0, <1>2 DEF P!Terminated, P!Running
<1>3. CASE P!Killed
  BY <1>0, <1>3 DEF P!Killed, P!Running
<1> QED
  BY <1>1, <1>2, <1>3 DEF Signal, MainOnly

(* The calls of init() and run().                                          *)
LEMMA CallStep ==
    ASSUME SystemInv, CallInit \/ CallRun
    PROVE  StandInv' /\ StopInv'
<1> USE DEF SystemInv, StandInv, StopInv, Prepared, P!StartUp, P!Loop, P!Goto, P!End
<1>1. CASE CallInit /\ phase' = "init" /\ UNCHANGED main
  BY <1>1 DEF CallInit, main
<1>2. CASE CallInit /\ phase' = "failed" /\ P!InitMachine /\ end' = "EX_DATAERR"
  BY <1>2 DEF P!InitMachine
<1>3. CASE InitDone /\ P!InitMachine /\ pc' = "establish_timer"
  BY <1>3 DEF InitDone, P!InitMachine
<1>4. CASE CallRun
  BY <1>4 DEF CallRun, Start, P!StartRun
<1> QED
  BY <1>1, <1>2, <1>3, <1>4 DEF CallInit

(* An instruction.                                                         *)
LEMMA InstructionStep ==
    ASSUME SystemInv, Instruction
    PROVE  StandInv' /\ StopInv'
<1> USE DEF SystemInv, StandInv, StopInv, Prepared, P!StartUp, P!Loop, P!Goto, P!End
<1>0. pc = "running" /\ AfterInstruction
  BY DEF Instruction
<1>1. CASE phase' = "running" /\ UNCHANGED main
  BY <1>0, <1>1 DEF main
<1>2. CASE phase' = "ready" /\ P!EndRun /\ pc' = "enter_wait"
  BY <1>0, <1>2 DEF P!EndRun
<1>3. CASE phase' = "failed" /\ P!EndRun /\ end' = "EX_DATAERR"
  BY <1>0, <1>3 DEF P!EndRun
<1>4. CASE phase' = "dead" /\ P!EndRun /\ end' = "FPE"
  BY <1>0, <1>4 DEF P!EndRun
<1> QED
  BY <1>0, <1>1, <1>2, <1>3, <1>4 DEF AfterInstruction

LEMMA SystemInvariant == SystemSpec => []SystemInv
<1>1. SystemInv /\ [SystemNext]_systemVars => SystemInv'
  <2> SUFFICES ASSUME SystemInv, [SystemNext]_systemVars PROVE SystemInv'
    OBVIOUS
  <2>1. HandledInv'
    BY StepOfProcess, HandledStep DEF SystemInv, StandInv, systemVars
  <2>2. StandInv' /\ StopInv'
    <3>1. CASE Main
      BY <3>1, ElsewhereStep, CallStep, InstructionStep DEF Main
    <3>2. CASE Signal \/ WaitFails
      BY <3>2, SignalStandStep, ElsewhereStep
    <3>3. CASE OthersWrite \/ Ended \/ UNCHANGED systemVars
      <4>1. UNCHANGED main /\ UNCHANGED phase
        BY <3>3 DEF OthersWrite, MachineOnly, OutsideWrite, Ended, systemVars, vars, machineVars
      <4> QED
        BY <4>1 DEF SystemInv, StandInv, StopInv, Prepared, main
    <3> QED
      BY <3>1, <3>2, <3>3 DEF SystemNext
  <2> QED
    BY <2>1, <2>2 DEF SystemInv
<1> QED
  BY <1>1, SystemInvInit, PTL DEF SystemSpec

(* No signal main handles cuts a cycle short, whatever the program, the    *)
(* memories and the moment: a process that ends in the middle of one was   *)
(* ended by an exception or a trap of the program itself, and says so, or  *)
(* by a signal without a handler.                                          *)
THEOREM CyclesAreWholeTheorem == SystemSpec => []CyclesAreWhole
<1>1. SystemInv => CyclesAreWhole
  BY DEF SystemInv, StandInv, StopInv, CyclesAreWhole
<1> QED
  BY <1>1, SystemInvariant, PTL

(* A cycle of the running process never leaves the instruction list or the *)
(* bound of the stack.                                                     *)
THEOREM SystemMachineTypeCorrect == SystemSpec => []MachineTypeOK
BY SystemImplementsMachine, MachineTypeCorrect, PTL

=============================================================================
