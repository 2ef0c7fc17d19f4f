------------------------------ MODULE Machine ------------------------------
(***************************************************************************)
(* class Machine after load_file: init() gives the variables their initial *)
(* values, then main calls run() once per cycle; run() executes the        *)
(* instruction list on the stack machine until END or an exception.        *)
(*                                                                         *)
(* The instruction lists are those parse_program can build (WellFormed);   *)
(* module Loader says how.                                                 *)
(*                                                                         *)
(* The memories the variables live in are a parameter: Load and Store give *)
(* the values a load may return and the memories a store may leave, none   *)
(* where the access throws; Outside gives the memories another process may *)
(* make of a shared one.  Module Memory defines them.                      *)
(***************************************************************************)
EXTENDS StackMachine, Program

CONSTANTS
    Programs,           \* the instruction lists that may be loaded
    Var,                \* the declared variables
    InitValue,          \* variable -> init_value, for those __INIT names
    Memories,           \* the states of all memories together
    InitialMemories,
    Load(_, _),         \* (memory, variable)
    Store(_, _, _),     \* (memory, variable, value)
    Outside(_)          \* (memory)

WellFormed(p) == WellFormedOver(p, Word, BinaryOps, UnaryOps, Var)

ASSUME ProgramsAssumption == \A p \in Programs : WellFormed(p)

ASSUME InitValueAssumption ==
    DOMAIN InitValue \subseteq Var /\ \A v \in DOMAIN InitValue : InitValue[v] \in Word

ASSUME MemoryAssumption ==
    /\ InitialMemories \subseteq Memories
    /\ \A m \in Memories :
          /\ Outside(m) \subseteq Memories
          /\ \A v \in Var :
                /\ Load(m, v) \subseteq Word
                /\ \A x \in Word : Store(m, v, x) \subseteq Memories

VARIABLES
    instructions,   \* fixed once loaded
    ip,             \* index of the instruction run() executes, from 0
    mem,
    pending,        \* the variables init() has not reached yet
    phase           \* "init", "ready" (between two runs), "running",
                    \* "failed" (an exception left init or run), "dead"

machineVars == <<instructions, ip, mem, pending, phase>>
vars == <<stackVars, machineVars>>

Fetch == instructions[ip + 1]

-----------------------------------------------------------------------------
Init ==
    /\ StackInit
    /\ instructions \in Programs
    /\ ip = 0
    /\ mem \in InitialMemories
    /\ pending = DOMAIN InitValue
    /\ phase = "init"

(* One round of init(): push(init_value), then POP_var, so the stack is as *)
(* before, or the value is gone when the store throws.  var_map is an      *)
(* unordered_map: any order of the variables.                              *)
InitVariable(v) ==
    /\ phase = "init" /\ v \in pending
    /\ \/ /\ mem' \in Store(mem, v, InitValue[v])
          /\ Return(stack)
          /\ pending' = pending \ {v} /\ phase' = "init"
       \/ /\ Store(mem, v, InitValue[v]) = {}
          /\ Throw
          /\ phase' = "failed" /\ UNCHANGED <<mem, pending>>
    /\ UNCHANGED <<instructions, ip>>

InitDone ==
    /\ phase = "init" /\ pending = {}
    /\ phase' = "ready"
    /\ UNCHANGED <<stackVars, instructions, ip, mem, pending>>

(* Mutation: run() does not clear what the last cycle left.                *)
StartKeepingStack ==
    /\ phase = "ready" /\ phase' = "running"
    /\ Return(stack) /\ ip' = 0
    /\ UNCHANGED <<instructions, mem, pending>>

(* The head of run().                                                      *)
Start ==
    /\ phase = "ready" /\ phase' = "running"
    /\ clr /\ ip' = 0
    /\ UNCHANGED <<instructions, mem, pending>>

-----------------------------------------------------------------------------
(* The loop of run(): an instruction that returns true is followed by the  *)
(* one after ip; an exception leaves run() and then main, a trap kills the *)
(* process where it stands.                                                *)
Advance(next) ==
    /\ ip' = IF outcome' = "ok" THEN next ELSE ip
    /\ phase' = CASE outcome' = "ok" -> "running"
                  [] outcome' = "throw" -> "failed"
                  [] OTHER -> "dead"

Fetched(op) == phase = "running" /\ Fetch.op = op

PUSH_const == /\ Fetched("PUSH_const") /\ push(Fetch.value)
              /\ Advance(ip + 1) /\ UNCHANGED mem

(* The argument of push is evaluated first: load may throw.                *)
PUSH_var == /\ Fetched("PUSH_var")
            /\ \/ \E x \in Load(mem, Fetch.var) : push(x)
               \/ Load(mem, Fetch.var) = {} /\ Throw
            /\ Advance(ip + 1) /\ UNCHANGED mem

(* The special variables: clocks, ids and random numbers from outside.     *)
PUSH_special == /\ Fetched("PUSH_special") /\ \E x \in Word : push(x)
                /\ Advance(ip + 1) /\ UNCHANGED mem

(* The argument of store is evaluated first: the value is off the stack    *)
(* when store throws.                                                      *)
POP_var == /\ Fetched("POP_var")
           /\ \/ stack = <<>> /\ Throw /\ UNCHANGED mem
              \/ /\ stack # <<>>
                 /\ mem' \in Store(mem, Fetch.var, Top)
                 /\ Return(Below(1))
              \/ /\ stack # <<>> /\ Store(mem, Fetch.var, Top) = {}
                 /\ stack' = Below(1) /\ outcome' = "throw"
                 /\ UNCHANGED <<verbose, mem>>
           /\ Advance(ip + 1)

(* STDOUT, STDOUTS, STDOUTF, STDOUTD and NULL.                             *)
POP_discard == Fetched("POP_discard") /\ pop /\ Advance(ip + 1) /\ UNCHANGED mem

BINARY == Fetched("BINARY") /\ binary(Fetch.alu) /\ Advance(ip + 1) /\ UNCHANGED mem
UNARY == Fetched("UNARY") /\ unary(Fetch.alu) /\ Advance(ip + 1) /\ UNCHANGED mem
ATANXY == Fetched("ATANXY") /\ atanxy /\ Advance(ip + 1) /\ UNCHANGED mem
DUP == Fetched("DUP") /\ dup /\ Advance(ip + 1) /\ UNCHANGED mem

LABEL == Fetched("LABEL") /\ Return(stack) /\ Advance(ip + 1) /\ UNCHANGED mem

(* J is bound to its own static `dummy' in place of Machine::ip, so the    *)
(* jump it takes moves nothing that run() reads.                           *)
J == Fetched("J") /\ Return(stack) /\ Advance(ip + 1) /\ UNCHANGED mem

(* Mutation: a jump skips the instruction behind the label.                *)
JumpPast(taken) == pop /\ Advance(IF taken THEN Fetch.target + 2 ELSE ip + 1)

(* Mutation: the condition is read from the top but not popped.            *)
JumpKeepsTop(taken) == get /\ Advance(IF taken THEN Fetch.target + 1 ELSE ip + 1)

(* cond() pops; exec() sets ip to the LABEL, run() steps past it.          *)
Jump(taken) == pop /\ Advance(IF taken THEN Fetch.target + 1 ELSE ip + 1)

JZ == Fetched("JZ") /\ Jump(Top = 0) /\ UNCHANGED mem
JNZ == Fetched("JNZ") /\ Jump(Top # 0) /\ UNCHANGED mem

(* Mutation: END goes back to the first instruction and never leaves run().*)
EndRestarts == /\ Fetched("END")
               /\ Return(stack) /\ ip' = 0 /\ UNCHANGED <<phase, mem>>

(* exec() returns false and run() returns to main.                         *)
END == /\ Fetched("END")
       /\ Return(stack) /\ phase' = "ready" /\ UNCHANGED <<ip, mem>>

Execute ==
    /\ \/ PUSH_const \/ PUSH_var \/ PUSH_special \/ POP_var \/ POP_discard
       \/ BINARY \/ UNARY \/ ATANXY \/ DUP
       \/ LABEL \/ J \/ JZ \/ JNZ \/ END
    /\ UNCHANGED <<instructions, pending>>

-----------------------------------------------------------------------------
(* Another process writes to a shared memory, at any time.                 *)
OutsideWrite ==
    /\ mem' \in Outside(mem)
    /\ UNCHANGED <<stackVars, instructions, ip, pending, phase>>

(* The process has ended.                                                  *)
Stopped == phase \in {"failed", "dead"} /\ UNCHANGED vars

Next ==
    \/ \E v \in pending : InitVariable(v)
    \/ InitDone \/ Start \/ Execute
    \/ OutsideWrite \/ Stopped

(* One thread runs the machine: it does not stop between two instructions. *)
Fairness == WF_vars(Execute)

Spec == Init /\ [][Next]_vars
FairSpec == Spec /\ Fairness

-----------------------------------------------------------------------------
(* instructions.at(ip) never throws: ip is the index of an instruction at  *)
(* every moment of every run, because END is last and a jump lands on a    *)
(* label, which is never last.                                             *)
IpInRange == ip \in 0..Len(instructions) - 1

MachineTypeOK ==
    /\ StackTypeOK
    /\ WellFormed(instructions)
    /\ IpInRange
    /\ mem \in Memories
    /\ pending \subseteq DOMAIN InitValue
    /\ phase \in {"init", "ready", "running", "failed", "dead"}

(* How many elements an instruction asks for, and by how much it changes   *)
(* their number.                                                           *)
Need(op) ==
    CASE op \in {"BINARY", "ATANXY"} -> 2
      [] op \in {"POP_var", "POP_discard", "UNARY", "DUP", "JZ", "JNZ"} -> 1
      [] OTHER -> 0
Effect(op) ==
    CASE op \in {"PUSH_const", "PUSH_var", "PUSH_special", "DUP"} -> 1
      [] op \in {"POP_var", "POP_discard", "BINARY", "ATANXY", "JZ", "JNZ"} -> -1
      [] OTHER -> 0

(* The indices run() may execute after index i.                            *)
Successors(p, i) ==
    {i + 1} \cup (IF p[i + 1].op \in ConditionalJumps THEN {p[i + 1].target + 1} ELSE {})

(* depth[i] elements at index i are consistent along every edge of the     *)
(* program's control flow: enough for the instruction, never too many.     *)
Balanced(p, depth) ==
    /\ depth[0] = 0
    /\ \A i \in 0..Len(p) - 2 :
          /\ Need(p[i + 1].op) <= depth[i]
          /\ depth[i] + Effect(p[i + 1].op) <= MAX_STACK
          /\ \A j \in Successors(p, i) : depth[j] = depth[i] + Effect(p[i + 1].op)

Depths(p) == [0..Len(p) - 1 -> 0..MAX_STACK]

(* A load or a store through the variable throws in some memory.           *)
Refused(v) ==
    \E m \in Memories : Load(m, v) = {} \/ \E x \in Word : Store(m, v, x) = {}

(* Where init() or run() stands, an access may be refused.                 *)
AtRefusedVariable ==
    \/ \E v \in pending : Refused(v)
    \/ Fetch.op \in {"PUSH_var", "POP_var"} /\ Refused(Fetch.var)

(* A static count of the elements is right in every cycle, whatever the    *)
(* data, the jumps taken and what earlier cycles left.                     *)
BalancedKeepsDepth ==
    phase = "running" =>
        \A depth \in Depths(instructions) :
            Balanced(instructions, depth) => Len(stack) = depth[ip]

(* So a program that a static count accepts never ends a run with an       *)
(* exception, and never reaches undefined behaviour, unless the variable   *)
(* it is loading or storing lies outside its memory: the only errors left  *)
(* to run time are addresses.                                              *)
BalancedNeverFails ==
    (\E depth \in Depths(instructions) : Balanced(instructions, depth)) =>
        /\ phase = "failed" => AtRefusedVariable
        /\ outcome # "undefined"

(* dup switches logging off and an exception in it leaves it off.  In the  *)
(* program that is never seen: the same exception ends the process, so the *)
(* debug option holds as long as instructions are executed.                *)
DebugKept == phase # "failed" => verbose = VERBOSE

(* Two variables in the same place: what one holds the other does.         *)
Aliases(v, w) == \A m \in Memories : Load(m, v) = Load(m, w)

(* What init() has stored reads back, whatever the order of the variables  *)
(* and however they share cells and bytes: a variable no other process can *)
(* change holds its own initial value or that of an initialised variable   *)
(* in the same place.  (The values fit their variables.)                   *)
InitialisedReadBack ==
    phase = "init" =>
        \A v \in DOMAIN InitValue \ pending :
            (\A m \in Outside(mem) : Load(m, v) = Load(mem, v)) =>
                \E w \in DOMAIN InitValue \ pending :
                    Load(mem, v) = {InitValue[w]} /\ Aliases(v, w)

(* Every conditional jump points to a label further down.                  *)
ForwardOnly(p) ==
    \A i \in 1..Len(p) : p[i].op \in ConditionalJumps => p[i].target >= i

(* A run of a program whose conditional jumps all point forward ends,      *)
(* whatever the other processes write.  (J does not jump, so a J back is   *)
(* no loop.)                                                               *)
ForwardRunsEnd == (phase = "running" /\ ForwardOnly(instructions)) ~> (phase # "running")

(* instrucitons.md: J is an "Unconditional jump to label".  The next       *)
(* instruction is then the label or the one behind it.                     *)
JumpsUnconditionally ==
    [][phase = "running" /\ Fetch.op = "J" /\ ip' # ip =>
          ip' \in {Fetch.target, Fetch.target + 1}]_vars

=============================================================================
