------------------------------- MODULE System -------------------------------
(***************************************************************************)
(* The running program: main() of module Process drives the machine of     *)
(* module Machine.                                                         *)
(*                                                                         *)
(* Process leaves open how init() and run() end; here they are the steps   *)
(* of the machine, one instruction at a time, with signals and the writes  *)
(* of other processes between any two of them.                             *)
(***************************************************************************)
EXTENDS Machine

CONSTANTS CycleSettings, CounterMax, RunCap     \* of Process

VARIABLES pc, handled, terminate, cycles, i, waiting, armed, end, runs, ticked

main == <<pc, handled, terminate, cycles, i, waiting, armed, end, runs, ticked>>
systemVars == <<vars, main>>

P == INSTANCE Process WITH SizeMax <- CounterMax

(* The machine stands still; so does main.                                 *)
MainOnly(action) == action /\ UNCHANGED vars
MachineOnly(action) == action /\ UNCHANGED main

-----------------------------------------------------------------------------
(* The program in the file, and with it the instructions, is fixed from    *)
(* the start, although it is read later.                                   *)
SystemInit == Init /\ P!Init

(* The steps of main that do not call the machine, or call what is not     *)
(* modelled here: the constructor and load_file.                           *)
Elsewhere ==
    MainOnly(\/ P!Options \/ P!Establish \/ P!Construct \/ P!LoadFile
             \/ P!EstablishTimer \/ P!StartTimer
             \/ P!Check \/ P!EnterWait \/ P!BlockInWait
             \/ P!LeaveWait \/ P!WaitThrew \/ P!Decrement)

(* machine->init(): variable by variable, an exception ends main.          *)
CallInit ==
    /\ pc = "init"
    /\ \/ /\ \E v \in pending : InitVariable(v)
          /\ \/ phase' = "init" /\ UNCHANGED main
             \/ phase' = "failed" /\ P!InitMachine /\ end' = "EX_DATAERR"
       \/ InitDone /\ P!InitMachine /\ pc' = "establish_timer"

(* machine->run(), its first statements.                                   *)
CallRun == P!StartRun /\ Start

(* Mutation: the next cycle follows without a wait.                        *)
AfterInstructionNoWait ==
    \/ phase' = "running" /\ UNCHANGED main
    \/ /\ phase' = "ready" /\ pc' = "next"
       /\ UNCHANGED <<handled, terminate, cycles, i, waiting, armed, end, runs, ticked>>
    \/ phase' = "failed" /\ P!EndRun /\ end' = "EX_DATAERR"
    \/ phase' = "dead" /\ P!EndRun /\ end' = "FPE"

(* How main goes on after an instruction: in the run, behind it, into the  *)
(* catch clause, or not at all when the processor trapped.                 *)
AfterInstruction ==
    \/ phase' = "running" /\ UNCHANGED main
    \/ phase' = "ready" /\ P!EndRun /\ pc' = "enter_wait"
    \/ phase' = "failed" /\ P!EndRun /\ end' = "EX_DATAERR"
    \/ phase' = "dead" /\ P!EndRun /\ end' = "FPE"

(* One instruction.  What follows undefined behaviour is not modelled: no  *)
(* program of a run may reach it, or TLC reports a deadlock.               *)
Instruction ==
    pc = "running" /\ Execute /\ outcome' # "undefined" /\ AfterInstruction

(* Mutation: the handler ends the process.                                 *)
SignalExits ==
    \/ MainOnly(P!Alarm)
    \/ /\ pc = "running" /\ terminate' = TRUE /\ pc' = "ended" /\ end' = "EX_OK"
       /\ UNCHANGED <<vars, handled, cycles, i, waiting, armed, runs, ticked>>

(* Signals arrive in the middle of a run, too: their handlers touch main's *)
(* variables only.                                                         *)
Signal == MainOnly(P!Alarm \/ P!Killed \/ \E s \in P!Termination : P!Terminated(s))

WaitFails == MainOnly(P!WaitFails)

(* Other processes write at any time, and after the end of this one.       *)
OthersWrite == MachineOnly(OutsideWrite)

Ended == pc = "ended" /\ UNCHANGED systemVars

Main == Elsewhere \/ CallInit \/ CallRun \/ Instruction

SystemNext == Main \/ Signal \/ WaitFails \/ OthersWrite \/ Ended

(* main is scheduled and the timer goes on firing; that a run ends is not  *)
(* assumed.                                                                *)
SystemFairness == WF_systemVars(Main) /\ WF_systemVars(MainOnly(P!Alarm))

SystemSpec == SystemInit /\ [][SystemNext]_systemVars
FairSystemSpec == SystemSpec /\ SystemFairness

-----------------------------------------------------------------------------
(* Process describes main as it runs with a real machine: init() and run() *)
(* end in no other way than it says, and signals in between do no more.    *)
ImplementsProcess == P!Spec

(* What Process assumes of a run is true of a program that cannot loop: it *)
(* comes to its end however signals and other processes interrupt it.  So  *)
(* what follows from the assumption - a process asked to terminate does -  *)
(* holds for these programs.                                               *)
ForwardProgramsAreFair == ForwardOnly(instructions) => P!Fairness

(* Where the machine stands when the process has ended: no signal that     *)
(* main handles cuts a cycle short, only one it has no handler for does.   *)
(* Otherwise the end is one between two cycles, all outputs of the last    *)
(* one written, or an exception or a trap has left a cycle half done, and  *)
(* the exit status says so.                                                *)
CyclesAreWhole ==
    /\ phase = "running" => pc = "running" \/ end = "KILL"
    /\ phase = "failed" => end = "EX_DATAERR"
    /\ phase = "dead" => end = "FPE"
    /\ pc = "ended" /\ runs > 0 /\ end # "KILL" => phase \in {"ready", "failed", "dead"}

=============================================================================
