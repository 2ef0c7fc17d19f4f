------------------------------ MODULE Process ------------------------------
(***************************************************************************)
(* main(): start-up, the cyclic execution of the machine paced by an       *)
(* interval timer, and the signals that interrupt it at any point.         *)
(*                                                                         *)
(* main is one thread; between two of its steps a signal may arrive.  The  *)
(* loaded program, cxxsignal, cxxitimer and the operating system are       *)
(* outside: a run of the machine ends, throws or traps; a call that may    *)
(* fail does or does not.                                                  *)
(***************************************************************************)
EXTENDS Integers

CONSTANTS
    CycleSettings,  \* what get_cycles() may return; 0 is: until terminated
    SizeMax,        \* the largest std::size_t
    RunCap          \* where the history counter of runs stops counting

ASSUME SizeAssumption == SizeMax \in Nat \ {0}
ASSUME CyclesAssumption == CycleSettings \subseteq 0..SizeMax
ASSUME RunCapAssumption == RunCap \in Nat /\ \A c \in CycleSettings : c < RunCap

Termination == {"INT", "TERM", "QUIT"}

VARIABLES
    pc,
    handled,    \* signals with a handler; the default action of the others ends the process
    terminate,  \* the flag the handler sets
    cycles, i,  \* get_cycles() and the loop counter
    waiting,    \* CycleTimeWarning::waiting
    armed,      \* the interval timer runs
    end,        \* how the process ended: an exit code or the signal that killed it
    runs,       \* history: runs started, up to RunCap
    ticked      \* history: an alarm has come since the last run was started

vars == <<pc, handled, terminate, cycles, i, waiting, armed, end, runs, ticked>>

Running == pc # "ended"
inf == cycles = 0

Init ==
    /\ pc = "options"
    /\ handled = {} /\ terminate = FALSE
    /\ cycles = 0 /\ i = 0
    /\ waiting = FALSE /\ armed = FALSE
    /\ end = "none" /\ runs = 0 /\ ticked = FALSE

End(how) == pc' = "ended" /\ end' = how
Goto(next) == pc' = next /\ UNCHANGED end

-----------------------------------------------------------------------------
(* Start-up.                                                               *)

(* Help, version and licences end the program; so does a missing file; an  *)
(* option cxxopts rejects is an exception nobody catches.                  *)
Options ==
    /\ pc = "options"
    /\ Goto("establish") \/ (\E how \in {"EX_OK", "EX_USAGE", "ABRT"} : End(how))
    /\ UNCHANGED <<handled, terminate, cycles, i, waiting, armed, runs, ticked>>

(* sigint_handler, sigterm_handler, sigquit_handler.                       *)
NextHandler ==
    IF "INT" \notin handled THEN "INT" ELSE IF "TERM" \notin handled THEN "TERM" ELSE "QUIT"

Establish ==
    /\ pc = "establish"
    /\ \/ /\ handled' = handled \cup {NextHandler}
          /\ Goto(IF NextHandler = "QUIT" THEN "construct" ELSE "establish")
       \/ End("EX_OSERR") /\ UNCHANGED handled
    /\ UNCHANGED <<terminate, cycles, i, waiting, armed, runs, ticked>>

(* The constructor rejects a stack size below the minimum.                 *)
Construct ==
    /\ pc = "construct"
    /\ Goto("load") \/ End("EX_USAGE")
    /\ UNCHANGED <<handled, terminate, cycles, i, waiting, armed, runs, ticked>>

(* A line that leaves the defined behaviour (module Loader) may crash.     *)
LoadFile ==
    /\ pc = "load"
    /\ \/ Goto("init") /\ cycles' \in CycleSettings
       \/ (\E how \in {"EX_DATAERR", "SEGV"} : End(how)) /\ UNCHANGED cycles
    /\ UNCHANGED <<handled, terminate, i, waiting, armed, runs, ticked>>

(* Mutation: the timer is started in the step before its handler is        *)
(* established.                                                            *)
InitMachineStartsTimer ==
    /\ pc = "init"
    /\ Goto("establish_timer") /\ armed' = TRUE
    /\ UNCHANGED <<handled, terminate, cycles, i, waiting, runs, ticked>>

InitMachine ==
    /\ pc = "init"
    /\ Goto("establish_timer") \/ End("EX_DATAERR")
    /\ UNCHANGED <<handled, terminate, cycles, i, waiting, armed, runs, ticked>>

(* The handler and the timer are constructed before the try block: if one  *)
(* of their constructors throws, nobody catches it.                        *)
EstablishTimer ==
    /\ pc = "establish_timer"
    /\ \/ Goto("start_timer") /\ handled' = handled \cup {"ALRM"}
       \/ (\E how \in {"EX_OSERR", "ABRT"} : End(how)) /\ UNCHANGED handled
    /\ UNCHANGED <<terminate, cycles, i, waiting, armed, runs, ticked>>

StartTimer ==
    /\ pc = "start_timer"
    /\ \/ Goto("check") /\ armed' = TRUE /\ i' = cycles
       \/ End("EX_OSERR") /\ UNCHANGED <<armed, i>>
    /\ UNCHANGED <<handled, terminate, cycles, waiting, runs, ticked>>

-----------------------------------------------------------------------------
(* The loop.                                                               *)

(* Mutation: the loop does not look at the flag.                           *)
CheckCounterOnly ==
    /\ pc = "check"
    /\ IF i > 0 \/ inf THEN Goto("call") ELSE End("EX_OK")
    /\ UNCHANGED <<handled, terminate, cycles, i, waiting, armed, runs, ticked>>

(* Mutation: the counter reaches zero one run late.                        *)
CheckOneMore ==
    /\ pc = "check"
    /\ IF (runs <= cycles \/ inf) /\ ~terminate THEN Goto("call") ELSE End("EX_OK")
    /\ UNCHANGED <<handled, terminate, cycles, i, waiting, armed, runs, ticked>>

(* The condition of the for statement.                                     *)
Check ==
    /\ pc = "check"
    /\ IF (i > 0 \/ inf) /\ ~terminate THEN Goto("call") ELSE End("EX_OK")
    /\ UNCHANGED <<handled, terminate, cycles, i, waiting, armed, runs, ticked>>

(* The call of run().                                                      *)
StartRun ==
    /\ pc = "call" /\ Goto("running")
    /\ runs' = IF runs < RunCap THEN runs + 1 ELSE runs
    /\ ticked' = FALSE
    /\ UNCHANGED <<handled, terminate, cycles, i, waiting, armed>>

(* run() returns, throws, or executes a division that traps.               *)
EndRun ==
    /\ pc = "running"
    /\ Goto("enter_wait") \/ End("EX_DATAERR") \/ End("FPE")
    /\ UNCHANGED <<handled, terminate, cycles, i, waiting, armed, runs, ticked>>

(* _wait(): the flag is set before wait() is called.                       *)
EnterWait ==
    /\ pc = "enter_wait" /\ Goto("call_wait")
    /\ waiting' = TRUE
    /\ UNCHANGED <<handled, terminate, cycles, i, armed, runs, ticked>>

BlockInWait ==
    /\ pc = "call_wait" /\ Goto("blocked")
    /\ UNCHANGED <<handled, terminate, cycles, i, waiting, armed, runs, ticked>>

(* wait() fails by itself.                                                 *)
WaitFails ==
    /\ pc = "blocked" /\ Goto("wait_threw")
    /\ UNCHANGED <<handled, terminate, cycles, i, waiting, armed, runs, ticked>>

(* Mutation: the flag is not reset.                                        *)
LeaveWaitStillWaiting ==
    /\ pc = "wait_returned" /\ Goto("next")
    /\ UNCHANGED <<handled, terminate, cycles, i, waiting, armed, runs, ticked>>

LeaveWait ==
    /\ pc = "wait_returned" /\ Goto("next")
    /\ waiting' = FALSE
    /\ UNCHANGED <<handled, terminate, cycles, i, armed, runs, ticked>>

(* The catch clause around _wait(): an interruption that set the flag      *)
(* breaks the loop.                                                        *)
WaitThrew ==
    /\ pc = "wait_threw"
    /\ End(IF terminate THEN "EX_OK" ELSE "EX_OSERR")
    /\ UNCHANGED <<handled, terminate, cycles, i, waiting, armed, runs, ticked>>

(* Mutation: the counter is never decremented.                             *)
DecrementNot ==
    /\ pc = "next" /\ Goto("check")
    /\ UNCHANGED <<handled, terminate, cycles, i, waiting, armed, runs, ticked>>

(* Mutation: the counter is a signed number.                               *)
DecrementSigned ==
    /\ pc = "next" /\ Goto("check")
    /\ i' = i - 1
    /\ UNCHANGED <<handled, terminate, cycles, waiting, armed, runs, ticked>>

(* --i wraps below zero when the loop is unlimited.                        *)
Decrement ==
    /\ pc = "next" /\ Goto("check")
    /\ i' = IF i = 0 THEN SizeMax ELSE i - 1
    /\ UNCHANGED <<handled, terminate, cycles, waiting, armed, runs, ticked>>

Main ==
    \/ Options \/ Establish \/ Construct \/ LoadFile \/ InitMachine
    \/ EstablishTimer \/ StartTimer
    \/ Check \/ StartRun \/ EndRun \/ EnterWait \/ BlockInWait
    \/ LeaveWait \/ WaitThrew \/ Decrement

-----------------------------------------------------------------------------
(* Signals.                                                                *)

(* Somebody sends SIGINT, SIGTERM or SIGQUIT.  It may end a wait() in      *)
(* progress, with or without an exception, or leave it blocked.            *)
Terminated(s) ==
    /\ Running
    /\ \/ /\ s \in handled
          /\ terminate' = TRUE
          /\ \/ Goto(pc)
             \/ pc = "blocked" /\ \E next \in {"wait_returned", "wait_threw"} : Goto(next)
       \/ s \notin handled /\ End(s) /\ UNCHANGED terminate
    /\ UNCHANGED <<handled, cycles, i, waiting, armed, runs, ticked>>

(* Mutation: the timer fires once.                                         *)
AlarmOnce ==
    /\ Running /\ armed
    /\ armed' = FALSE
    /\ \/ /\ "ALRM" \in handled /\ ticked' = TRUE
          /\ Goto(IF pc = "blocked" THEN "wait_returned" ELSE pc)
       \/ "ALRM" \notin handled /\ End("ALRM") /\ UNCHANGED ticked
    /\ UNCHANGED <<handled, terminate, cycles, i, waiting, runs>>

(* The timer fires.  An alarm that finds main elsewhere is lost: its       *)
(* handler only warns (when waiting is not set).                           *)
Alarm ==
    /\ Running /\ armed
    /\ \/ /\ "ALRM" \in handled /\ ticked' = TRUE
          /\ Goto(IF pc = "blocked" THEN "wait_returned" ELSE pc)
       \/ "ALRM" \notin handled /\ End("ALRM") /\ UNCHANGED ticked
    /\ UNCHANGED <<handled, terminate, cycles, i, waiting, armed, runs>>

(* A signal main has no handler for: SIGKILL, SIGHUP, SIGPIPE when the     *)
(* reader of the output is gone.  Its default action ends the process.     *)
Killed ==
    /\ Running /\ End("KILL")
    /\ UNCHANGED <<handled, terminate, cycles, i, waiting, armed, runs, ticked>>

Ended == pc = "ended" /\ UNCHANGED vars

Next ==
    \/ Main \/ WaitFails \/ Alarm \/ Killed
    \/ \E s \in Termination : Terminated(s)
    \/ Ended

(* main is scheduled, a run ends (module System says for which programs)   *)
(* and a timer that was started goes on firing.                            *)
Fairness == WF_vars(Main) /\ WF_vars(Alarm)

Spec == Init /\ [][Next]_vars
FairSpec == Spec /\ Fairness

-----------------------------------------------------------------------------
StartUp == {"options", "establish", "construct", "load", "init",
            "establish_timer", "start_timer"}
Loop == {"check", "call", "running", "enter_wait", "call_wait", "blocked",
         "wait_returned", "wait_threw", "next"}

ProcessTypeOK ==
    /\ pc \in StartUp \cup Loop \cup {"ended"}
    /\ handled \subseteq Termination \cup {"ALRM"}
    /\ terminate \in BOOLEAN /\ waiting \in BOOLEAN
    /\ armed \in BOOLEAN /\ ticked \in BOOLEAN
    /\ cycles \in 0..SizeMax /\ i \in 0..SizeMax /\ runs \in 0..RunCap
    /\ end \in {"none", "EX_OK", "EX_USAGE", "EX_DATAERR", "EX_OSERR",
                "ABRT", "FPE", "SEGV", "KILL", "ALRM"} \cup Termination

(* The program that paces itself with SIGALRM is never killed by one,      *)
(* however early the timer fires: its handler is there before the timer    *)
(* starts.  And once the loop is entered, no termination signal kills it.  *)
SignalsAreHandled ==
    /\ end # "ALRM"
    /\ armed => end \notin Termination

(* CYCLES: a process that ends normally and was not asked to has run the   *)
(* machine exactly as often as its file says; it never runs it more often. *)
(* An unlimited one does not end by itself, whatever its counter does.     *)
ExactCycles ==
    /\ ~inf => runs <= cycles
    /\ armed /\ end = "EX_OK" /\ ~terminate => ~inf /\ runs = cycles

(* Two runs are never started within one period: after the first, each     *)
(* start has an alarm between itself and the start before, also when a     *)
(* termination signal ends a wait early.                                   *)
RunsArePaced == pc = "call" /\ runs > 0 => ticked

(* An alarm that comes while a run is going on is reported ("cycle time    *)
(* exceeded"): the flag the handler reads is never left over from an       *)
(* earlier wait.                                                           *)
OverrunIsReported == pc \in {"check", "call", "running"} => ~waiting

(* Once the flag is set no run is started, except the one whose loop       *)
(* condition had been evaluated: at most one.                              *)
TerminateIsFinal == [](terminate /\ pc # "call" => [](pc # "call"))

(* A process asked to terminate ends: a signal that misses the wait is     *)
(* seen at the next alarm at the latest.                                   *)
TerminationEnds == terminate ~> pc = "ended"

(* A run is followed by the next one or by the end: an alarm that comes    *)
(* between the setting of the flag and wait() is lost, but it is only that *)
(* period that is lost.                                                    *)
WaitsEnd == pc = "enter_wait" ~> pc \in {"check", "ended"}

(* A process with a number of cycles ends.                                 *)
FiniteRunsEnd == (pc = "check" /\ ~inf) ~> pc = "ended"

=============================================================================
