--------------------------- MODULE MachineProofs ---------------------------
(***************************************************************************)
(* Theorems about StackMachine and Machine, for every set of well-formed   *)
(* programs, every stack size, every arithmetic and every memory.          *)
(***************************************************************************)
EXTENDS Machine, TLAPS

-----------------------------------------------------------------------------
(* The operand stack by itself.                                            *)

(* Popping n elements that are there leaves a shorter stack of words.      *)
LEMMA BelowType ==
    ASSUME stack \in Seq(Word), NEW n \in Nat, n <= Len(stack)
    PROVE  /\ Below(n) \in Seq(Word)
           /\ Len(Below(n)) = Len(stack) - n
           /\ \A i \in 1..Len(stack) - n : Below(n)[i] = stack[i]
<1>1. Len(stack) \in Nat /\ Len(stack) - n \in 0..Len(stack)
  OBVIOUS
<1> QED
  BY <1>1 DEF Below

(* An element that is there is a word.                                     *)
LEMMA TopType ==
    ASSUME stack \in Seq(Word)
    PROVE  /\ stack # <<>> => Top \in Word
           /\ Len(stack) >= 2 => Second \in Word
  BY DEF Top, Second

(* An operation that pops n >= 1 elements that are there and pushes a word *)
(* leaves a stack within its bound.                                        *)
LEMMA ReplaceType ==
    ASSUME StackTypeOK, NEW n \in 1..2, n <= Len(stack), NEW x \in Word
    PROVE  /\ Append(Below(n), x) \in Seq(Word)
           /\ Len(Append(Below(n), x)) = Len(stack) - n + 1
           /\ Len(Append(Below(n), x)) <= MAX_STACK
<1>1. Below(n) \in Seq(Word) /\ Len(Below(n)) = Len(stack) - n
  BY BelowType DEF StackTypeOK
<1> QED
  BY <1>1, StackAssumption DEF StackTypeOK

(* Each operation keeps the type invariant: one lemma per operation.       *)
LEMMA PushType ==
    ASSUME StackTypeOK, NEW data \in Word, push(data)
    PROVE  StackTypeOK'
  BY StackAssumption DEF push, StackTypeOK, Return, Throw

LEMMA PopType ==
    ASSUME StackTypeOK, pop
    PROVE  StackTypeOK'
<1>1. stack # <<>> => Below(1) \in Seq(Word) /\ Len(Below(1)) = Len(stack) - 1
  BY BelowType DEF StackTypeOK
<1> QED
  BY <1>1, StackAssumption DEF pop, StackTypeOK, Return, Throw

LEMMA DupType ==
    ASSUME StackTypeOK, dup
    PROVE  StackTypeOK'
<1>1. stack # <<>> => Top \in Word
  BY TopType DEF StackTypeOK
<1>2. stack' \in Seq(Word) /\ Len(stack') <= MAX_STACK
  BY <1>1, StackAssumption DEF dup, StackTypeOK, Return
<1>3. verbose' \in BOOLEAN /\ outcome' \in {"ok", "throw"}
  BY Zenon DEF dup, StackTypeOK, Return
<1> QED
  BY <1>2, <1>3 DEF StackTypeOK

LEMMA BinaryType ==
    ASSUME StackTypeOK, NEW op \in BinaryOps, binary(op)
    PROVE  StackTypeOK'
<1>1. CASE Len(stack) < MIN_ARITH /\ Throw
  BY <1>1 DEF StackTypeOK, Throw
<1>2. ASSUME Len(stack) >= MIN_ARITH,
             NEW x \in BinaryResults(op, Second, Top), Return(Append(Below(2), x))
      PROVE  StackTypeOK'
  <2>0. stack # <<>> /\ Top \in Word /\ Second \in Word
    BY <1>2, TopType DEF StackTypeOK, MIN_ARITH
  <2>1. x \in Word
    BY <1>2, <2>0, ArithmeticAssumption
  <2> QED
    BY <1>2, <2>1, ReplaceType DEF StackTypeOK, Return, MIN_ARITH
<1>3. CASE Killed
  BY <1>3 DEF StackTypeOK, Killed
<1> QED
  BY <1>1, <1>2, <1>3 DEF binary

LEMMA UnaryType ==
    ASSUME StackTypeOK, NEW op \in UnaryOps, unary(op)
    PROVE  StackTypeOK'
<1>1. CASE Len(stack) < MIN_CONV /\ Throw
  BY <1>1 DEF StackTypeOK, Throw
<1>2. ASSUME Len(stack) >= MIN_CONV,
             NEW x \in UnaryResults(op, Top), Return(Append(Below(1), x))
      PROVE  StackTypeOK'
  <2>0. stack # <<>> /\ Top \in Word
    BY <1>2, TopType DEF StackTypeOK, MIN_CONV
  <2>1. x \in Word
    BY <1>2, <2>0, ArithmeticAssumption
  <2> QED
    BY <1>2, <2>1, ReplaceType DEF StackTypeOK, Return, MIN_CONV
<1> QED
  BY <1>1, <1>2 DEF unary

LEMMA AtanxyType ==
    ASSUME StackTypeOK, atanxy
    PROVE  StackTypeOK'
<1>1. CASE Len(stack) < MIN_CONV /\ Throw
  BY <1>1 DEF StackTypeOK, Throw
<1>2. ASSUME Len(stack) >= 2,
             NEW x \in BinaryResults("ATANXY", Second, Top), Return(Append(Below(2), x))
      PROVE  StackTypeOK'
  <2>0. stack # <<>> /\ Top \in Word /\ Second \in Word
    BY <1>2, TopType DEF StackTypeOK
  <2>1. x \in Word
    BY <1>2, <2>0, ArithmeticAssumption
  <2> QED
    BY <1>2, <2>1, ReplaceType DEF StackTypeOK, Return
<1>3. CASE Len(stack) = 1 /\ outcome' \in {"killed", "undefined"} /\ UNCHANGED <<stack, verbose>>
  BY <1>3 DEF StackTypeOK
<1> QED
  BY <1>1, <1>2, <1>3 DEF atanxy

-----------------------------------------------------------------------------
(* In every history of calls the stack holds words, at most MAX_STACK of   *)
(* them, although the instructions push without the check of push: they    *)
(* have popped at least one element before.                                *)
THEOREM StackTypeCorrect == StackSpec => []StackTypeOK
<1>1. StackInit => StackTypeOK
  BY StackAssumption, VerboseAssumption DEF StackInit, StackTypeOK
<1>2. StackTypeOK /\ [StackNext]_stackVars => StackTypeOK'
  <2> SUFFICES ASSUME StackTypeOK, [StackNext]_stackVars
               PROVE  StackTypeOK'
    OBVIOUS
  <2>1. CASE Push
    BY <2>1, PushType DEF Push
  <2>2. CASE Pop
    BY <2>2, PopType DEF Pop
  <2>3. CASE Get
    BY <2>3 DEF Get, get, Return, Throw, StackTypeOK
  <2>4. CASE Clr
    BY <2>4, StackAssumption DEF Clr, clr, Return, StackTypeOK
  <2>5. CASE Dup
    BY <2>5, DupType DEF Dup
  <2>6. CASE Arithmetic
    BY <2>6, BinaryType DEF Arithmetic
  <2>7. CASE Conversion
    BY <2>7, UnaryType DEF Conversion
  <2>8. CASE Atanxy
    BY <2>8, AtanxyType DEF Atanxy
  <2>9. CASE UNCHANGED stackVars
    BY <2>9 DEF stackVars, StackTypeOK
  <2> QED
    BY <2>1, <2>2, <2>3, <2>4, <2>5, <2>6, <2>7, <2>8, <2>9 DEF StackNext
<1> QED
  BY <1>1, <1>2, PTL DEF StackSpec

(* A call that throws leaves the stack as it was, whatever the call.       *)
THEOREM ThrowKeepsStackHolds == StackSpec => ThrowKeepsStack
<1>1. [StackNext]_stackVars => [outcome' = "throw" => stack' = stack]_stackVars
  <2> SUFFICES ASSUME StackNext, outcome' = "throw"
               PROVE  stack' = stack
    BY Zenon DEF stackVars
  <2>1. CASE Push
    BY <2>1 DEF Push, push, Return, Throw
  <2>2. CASE Pop
    BY <2>2 DEF Pop, pop, Return, Throw
  <2>3. CASE Get
    BY <2>3 DEF Get, get, Return, Throw
  <2>4. CASE Clr
    BY <2>4 DEF Clr, clr, Return
  <2>5. CASE Dup
    BY <2>5 DEF Dup, dup, Return
  <2>6. CASE Arithmetic
    BY <2>6 DEF Arithmetic, binary, Return, Throw, Killed
  <2>7. CASE Conversion
    BY <2>7 DEF Conversion, unary, Return, Throw
  <2>8. CASE Atanxy
    BY <2>8 DEF Atanxy, atanxy, Return, Throw
  <2> QED
    BY <2>1, <2>2, <2>3, <2>4, <2>5, <2>6, <2>7, <2>8 DEF StackNext
<1> QED
  BY <1>1, PTL DEF StackSpec, ThrowKeepsStack

(* Replacing n operands by a word is a step of the bounded stack.          *)
LEMMA ReplaceStep ==
    ASSUME NEW n \in 1..2, Len(stack) >= n, NEW x \in Word,
           Return(Append(Below(n), x))
    PROVE  Bounded!Next
  BY DEF Return, Below, Bounded!Next, Bounded!Replace, Bounded!Rest

(* The stack machine implements the bounded stack: whatever the arithmetic *)
(* and whatever the order of the calls, a call is a put, a take, a clear,  *)
(* the replacement of one or two operands by a word, or has no effect.     *)
THEOREM StackImplementsBoundedStack == StackSpec => ImplementsBoundedStack
<1>1. StackInit => Bounded!Init
  BY DEF StackInit, Bounded!Init
<1>2. StackTypeOK /\ [StackNext]_stackVars => [Bounded!Next]_stack
  <2> SUFFICES ASSUME StackTypeOK, StackNext, stack' # stack
               PROVE  Bounded!Next
    BY DEF stackVars
  <2>0. stack # <<>> => Top \in Word
    BY TopType DEF StackTypeOK
  <2>1. CASE Push
    BY <2>1 DEF Push, push, Return, Throw, Bounded!Next, Bounded!Put
  <2>2. CASE Pop
    BY <2>2 DEF Pop, pop, Return, Throw, Below, Bounded!Next, Bounded!Take, Bounded!Rest
  <2>3. CASE Get
    BY <2>3 DEF Get, get, Return, Throw
  <2>4. CASE Clr
    BY <2>4 DEF Clr, clr, Return, Bounded!Next, Bounded!Clear
  <2>5. CASE Dup
    BY <2>0, <2>5 DEF Dup, dup, Return, Bounded!Next, Bounded!Put
  <2>6. CASE Arithmetic
    <3>1. PICK op \in BinaryOps : binary(op)
      BY <2>6 DEF Arithmetic
    <3>2. /\ Len(stack) >= 2
          /\ \E x \in BinaryResults(op, Second, Top) : Return(Append(Below(2), x))
      BY <3>1 DEF binary, Throw, Killed, MIN_ARITH
    <3>3. stack # <<>> /\ Top \in Word /\ Second \in Word
      BY <3>2, TopType DEF StackTypeOK
    <3>4. BinaryResults(op, Second, Top) \subseteq Word
      BY <3>3, ArithmeticAssumption
    <3> QED
      BY <3>2, <3>4, ReplaceStep
  <2>7. CASE Conversion
    <3>1. PICK op \in UnaryOps : unary(op)
      BY <2>7 DEF Conversion
    <3>2. /\ Len(stack) >= 1
          /\ \E x \in UnaryResults(op, Top) : Return(Append(Below(1), x))
      BY <3>1 DEF unary, Throw, MIN_CONV
    <3>3. stack # <<>> /\ Top \in Word
      BY <3>2, TopType DEF StackTypeOK
    <3>4. UnaryResults(op, Top) \subseteq Word
      BY <3>3, ArithmeticAssumption
    <3> QED
      BY <3>2, <3>4, ReplaceStep
  <2>8. CASE Atanxy
    <3>1. /\ Len(stack) >= 2
          /\ \E x \in BinaryResults("ATANXY", Second, Top) : Return(Append(Below(2), x))
      BY <2>8 DEF Atanxy, atanxy, Throw
    <3>2. stack # <<>> /\ Top \in Word /\ Second \in Word
      BY <3>1, TopType DEF StackTypeOK
    <3>3. BinaryResults("ATANXY", Second, Top) \subseteq Word
      BY <3>2, ArithmeticAssumption
    <3> QED
      BY <3>1, <3>3, ReplaceStep
  <2> QED
    BY <2>1, <2>2, <2>3, <2>4, <2>5, <2>6, <2>7, <2>8 DEF StackNext
<1> QED
  BY <1>1, <1>2, StackTypeCorrect, PTL DEF StackSpec, ImplementsBoundedStack, Bounded!Spec

-----------------------------------------------------------------------------
(* Type correctness and the range of ip.                                   *)

(* The instruction run() fetches: its operand is declared, it is END only  *)
(* at the last index, and the index behind a jump target is in the list.   *)
LEMMA FetchType ==
    ASSUME MachineTypeOK
    PROVE  /\ ip \in 0..Len(instructions) - 1
           /\ Len(instructions) \in Nat \ {0}
           /\ Fetch.op # "END" =>
                 /\ ip + 1 \in 0..Len(instructions) - 1
                 /\ Fetch.op \in PlainOps \cup ConditionalJumps
           /\ Fetch.op = "PUSH_const" => Fetch.value \in Word
           /\ Fetch.op \in {"PUSH_var", "POP_var"} => Fetch.var \in Var
           /\ Fetch.op = "BINARY" => Fetch.alu \in BinaryOps
           /\ Fetch.op = "UNARY" => Fetch.alu \in UnaryOps
           /\ Fetch.op \in ConditionalJumps => Fetch.target + 1 \in 0..Len(instructions) - 1
<1>1. Len(instructions) \in Nat \ {0} /\ ip \in 0..Len(instructions) - 1
  BY DEF MachineTypeOK, WellFormed, WellFormedOver, IpInRange
<1>2. CASE ip = Len(instructions) - 1
  <2>1. Fetch.op = "END"
    BY <1>1, <1>2 DEF MachineTypeOK, WellFormed, WellFormedOver, Fetch
  <2> QED
    BY <1>1, <2>1 DEF ConditionalJumps
<1>3. CASE ip # Len(instructions) - 1
  <2>1. ip + 1 \in 1..Len(instructions) - 1
    BY <1>1, <1>3
  <2> QED
    BY <1>1, <2>1 DEF MachineTypeOK, WellFormed, WellFormedOver, Fetch, ConditionalJumps, PlainOps
<1> QED
  BY <1>2, <1>3

(* Every instruction leaves a well-typed stack.                            *)
LEMMA ExecuteStackType ==
    ASSUME MachineTypeOK, Execute
    PROVE  StackTypeOK' /\ mem' \in Memories
<1>0. StackTypeOK /\ mem \in Memories
  BY DEF MachineTypeOK
<1>1. CASE PUSH_const
  BY <1>0, <1>1, FetchType, PushType DEF PUSH_const, Fetched
<1>2. CASE PUSH_var
  <2>1. CASE \E x \in Load(mem, Fetch.var) : push(x)
    BY <1>0, <1>2, <2>1, FetchType, MemoryAssumption, PushType DEF PUSH_var, Fetched
  <2>2. CASE Throw
    BY <1>0, <1>2, <2>2 DEF PUSH_var, Throw, StackTypeOK
  <2> QED
    BY <1>2, <2>1, <2>2 DEF PUSH_var
<1>3. CASE PUSH_special
  BY <1>0, <1>3, PushType DEF PUSH_special
<1>4. CASE POP_var
  <2>1. CASE stack = <<>> /\ Throw /\ UNCHANGED mem
    BY <1>0, <2>1 DEF Throw, StackTypeOK
  <2>2. CASE stack # <<>>
    <3>1. Top \in Word /\ Fetch.var \in Var
      BY <1>0, <1>4, <2>2, TopType, FetchType DEF StackTypeOK, POP_var, Fetched
    <3>2. Below(1) \in Seq(Word) /\ Len(Below(1)) = Len(stack) - 1
      BY <1>0, <2>2, BelowType DEF StackTypeOK
    <3>3. Store(mem, Fetch.var, Top) \subseteq Memories
      BY <1>0, <3>1, MemoryAssumption
    <3>4. /\ stack' = Below(1) /\ verbose' = verbose
          /\ outcome' \in {"ok", "throw"} /\ mem' \in Memories
      BY <1>0, <1>4, <2>2, <3>3 DEF POP_var, Return
    <3> QED
      BY <1>0, <3>2, <3>4, StackAssumption DEF StackTypeOK
  <2> QED
    BY <1>4, <2>1, <2>2 DEF POP_var
<1>5. CASE POP_discard
  BY <1>0, <1>5, PopType DEF POP_discard
<1>6. CASE BINARY
  BY <1>0, <1>6, FetchType, BinaryType DEF BINARY, Fetched
<1>7. CASE UNARY
  BY <1>0, <1>7, FetchType, UnaryType DEF UNARY, Fetched
<1>8. CASE ATANXY
  BY <1>0, <1>8, AtanxyType DEF ATANXY
<1>9. CASE DUP
  BY <1>0, <1>9, DupType DEF DUP
<1>10. CASE LABEL \/ J \/ END
  BY <1>0, <1>10 DEF LABEL, J, END, Return, StackTypeOK
<1>11. CASE JZ
  BY <1>0, <1>11, PopType DEF JZ, Jump
<1>12. CASE JNZ
  BY <1>0, <1>12, PopType DEF JNZ, Jump
<1> QED
  BY <1>1, <1>2, <1>3, <1>4, <1>5, <1>6, <1>7, <1>8, <1>9, <1>10, <1>11, <1>12
  DEF Execute

(* Every instruction leaves ip inside the instruction list, and phase is   *)
(* one of the five.                                                        *)
LEMMA ExecuteIpInRange ==
    ASSUME MachineTypeOK, Execute
    PROVE  /\ ip' \in 0..Len(instructions) - 1
           /\ phase' \in {"ready", "running", "failed", "dead"}
<1>0. ip \in 0..Len(instructions) - 1
  BY FetchType
<1>1. ASSUME NEW next \in 0..Len(instructions) - 1, Advance(next)
      PROVE  /\ ip' \in 0..Len(instructions) - 1
             /\ phase' \in {"ready", "running", "failed", "dead"}
  BY <1>0, <1>1 DEF Advance
<1>2. CASE PUSH_const \/ PUSH_var \/ PUSH_special \/ POP_var \/ POP_discard
  BY <1>1, <1>2, FetchType
  DEF PUSH_const, PUSH_var, PUSH_special, POP_var, POP_discard, Fetched
<1>3. CASE BINARY \/ UNARY \/ ATANXY \/ DUP \/ LABEL \/ J
  BY <1>1, <1>3, FetchType DEF BINARY, UNARY, ATANXY, DUP, LABEL, J, Fetched
<1>4. CASE JZ \/ JNZ
  <2>1. /\ Fetch.target + 1 \in 0..Len(instructions) - 1
        /\ ip + 1 \in 0..Len(instructions) - 1
    BY <1>4, FetchType DEF JZ, JNZ, Fetched, ConditionalJumps
  <2>2. \/ Advance(Fetch.target + 1)
        \/ Advance(ip + 1)
    BY <1>4 DEF JZ, JNZ, Jump, Advance
  <2> QED
    BY <1>1, <2>1, <2>2
<1>5. CASE END
  BY <1>0, <1>5 DEF END
<1> QED
  BY <1>2, <1>3, <1>4, <1>5 DEF Execute

(* The type invariant, and with it the range of ip: instructions.at(ip)    *)
(* never throws and the stack never exceeds its bound, in any program.     *)
THEOREM MachineTypeCorrect == Spec => []MachineTypeOK
<1>1. Init => MachineTypeOK
  <2> SUFFICES ASSUME Init PROVE MachineTypeOK
    OBVIOUS
  <2>1. StackTypeOK
    BY StackAssumption, VerboseAssumption DEF Init, StackInit, StackTypeOK
  <2>2. WellFormed(instructions)
    BY ProgramsAssumption DEF Init
  <2>3. mem \in Memories
    BY MemoryAssumption DEF Init
  <2> QED
    BY <2>1, <2>2, <2>3 DEF Init, MachineTypeOK, IpInRange, WellFormed, WellFormedOver
<1>2. MachineTypeOK /\ [Next]_vars => MachineTypeOK'
  <2> SUFFICES ASSUME MachineTypeOK, [Next]_vars
               PROVE  MachineTypeOK'
    OBVIOUS
  <2>0. StackTypeOK /\ mem \in Memories
    BY DEF MachineTypeOK
  <2>1. ASSUME NEW v \in pending, InitVariable(v)
        PROVE  MachineTypeOK'
    <3>1. v \in Var /\ InitValue[v] \in Word
      BY InitValueAssumption DEF MachineTypeOK
    <3>2. Store(mem, v, InitValue[v]) \subseteq Memories
      BY <2>0, <3>1, MemoryAssumption
    <3>3. /\ stack' = stack /\ verbose' = verbose /\ outcome' \in {"ok", "throw"}
          /\ mem' \in Memories /\ pending' \subseteq pending
          /\ phase' \in {"init", "failed"}
          /\ UNCHANGED <<instructions, ip>>
      BY <2>0, <2>1, <3>2 DEF InitVariable, Return, Throw
    <3> QED
      BY <3>3 DEF MachineTypeOK, StackTypeOK, IpInRange
  <2>2. CASE InitDone
    BY <2>2 DEF InitDone, MachineTypeOK, StackTypeOK, IpInRange, stackVars
  <2>3. CASE Start
    BY <2>3, StackAssumption
    DEF Start, clr, Return, MachineTypeOK, StackTypeOK, IpInRange, WellFormed, WellFormedOver
  <2>4. CASE Execute
    BY <2>4, ExecuteStackType, ExecuteIpInRange DEF Execute, MachineTypeOK, IpInRange
  <2>5. CASE OutsideWrite
    BY <2>0, <2>5, MemoryAssumption
    DEF OutsideWrite, MachineTypeOK, StackTypeOK, IpInRange, stackVars
  <2>6. CASE UNCHANGED vars
    BY <2>6 DEF vars, stackVars, machineVars, MachineTypeOK, StackTypeOK, IpInRange
  <2> QED
    BY <2>1, <2>2, <2>3, <2>4, <2>5, <2>6 DEF Next, Stopped
<1> QED
  BY <1>1, <1>2, PTL DEF Spec

-----------------------------------------------------------------------------
(* Balanced programs.                                                      *)

(* What the static count relies on: an instruction that finds the elements *)
(* it needs and the room for its effect has that effect, and throws only   *)
(* where a variable is refused by its memory.                              *)
Sound(op) ==
    (Len(stack) >= Need(op) /\ Len(stack) + Effect(op) <= MAX_STACK) =>
        /\ outcome' # "undefined"
        /\ outcome' = "ok" => Len(stack') = Len(stack) + Effect(op)
        /\ outcome' = "throw" =>
              Fetch.op \in {"PUSH_var", "POP_var"} /\ Refused(Fetch.var)

LEMMA ExecuteSound ==
    ASSUME MachineTypeOK, Execute
    PROVE  Sound(Fetch.op)
<1>0. /\ stack \in Seq(Word) /\ Len(stack) \in Nat /\ mem \in Memories
      /\ StackTypeOK
  BY DEF MachineTypeOK, StackTypeOK
<1>1. ASSUME NEW x \in Word, push(x), Len(stack) + 1 <= MAX_STACK
      PROVE  outcome' = "ok" /\ Len(stack') = Len(stack) + 1
  BY <1>0, <1>1, StackAssumption DEF push, Return, Throw
<1>2. ASSUME pop, Len(stack) >= 1
      PROVE  outcome' = "ok" /\ Len(stack') = Len(stack) - 1
  <2>1. Len(Below(1)) = Len(stack) - 1
    BY <1>0, <1>2, BelowType
  <2> QED
    BY <1>0, <1>2, <2>1 DEF pop, Return, Throw
<1>3. ASSUME NEW n \in 1..2, NEW x \in Word, Len(stack) >= n,
             Return(Append(Below(n), x))
      PROVE  outcome' = "ok" /\ Len(stack') = Len(stack) - n + 1
  BY <1>0, <1>3, ReplaceType DEF Return
<1>4. CASE PUSH_const
  <2>1. Fetch.op = "PUSH_const" /\ Fetch.value \in Word /\ push(Fetch.value)
    BY <1>4, FetchType DEF PUSH_const, Fetched
  <2> QED
    BY <1>1, <2>1 DEF Sound, Need, Effect
<1>5. CASE PUSH_var
  <2>1. Fetch.op = "PUSH_var" /\ Fetch.var \in Var
    BY <1>5, FetchType DEF PUSH_var, Fetched
  <2>2. CASE \E x \in Load(mem, Fetch.var) : push(x)
    <3>1. PICK x \in Word : push(x)
      BY <1>0, <2>1, <2>2, MemoryAssumption
    <3> QED
      BY <1>1, <2>1, <3>1 DEF Sound, Need, Effect
  <2>3. CASE Load(mem, Fetch.var) = {} /\ Throw
    <3>1. Refused(Fetch.var)
      BY <1>0, <2>3 DEF Refused
    <3> QED
      BY <2>1, <2>3, <3>1 DEF Sound, Throw
  <2> QED
    BY <1>5, <2>2, <2>3 DEF PUSH_var
<1>6. CASE PUSH_special
  <2>1. Fetch.op = "PUSH_special" /\ \E x \in Word : push(x)
    BY <1>6 DEF PUSH_special, Fetched
  <2> QED
    BY <1>1, <2>1 DEF Sound, Need, Effect
<1>7. CASE POP_var
  <2>1. Fetch.op = "POP_var" /\ Fetch.var \in Var
    BY <1>7, FetchType DEF POP_var, Fetched
  <2>2. CASE stack = <<>>
    BY <2>1, <2>2 DEF Sound, Need
  <2>3. CASE stack # <<>> /\ Return(Below(1))
    <3>1. Len(Below(1)) = Len(stack) - 1
      BY <1>0, <2>3, BelowType
    <3> QED
      BY <1>0, <2>1, <2>3, <3>1 DEF Sound, Need, Effect, Return
  <2>4. CASE stack # <<>> /\ Store(mem, Fetch.var, Top) = {} /\ outcome' = "throw"
    <3>1. Top \in Word
      BY <1>0, <2>4, TopType
    <3>2. Refused(Fetch.var)
      BY <1>0, <2>4, <3>1 DEF Refused
    <3> QED
      BY <2>1, <2>4, <3>2 DEF Sound
  <2> QED
    BY <1>7, <2>2, <2>3, <2>4 DEF POP_var
<1>8. CASE POP_discard
  BY <1>0, <1>2, <1>8 DEF POP_discard, Fetched, Sound, Need, Effect
<1>9. CASE BINARY
  <2>1. PICK op \in BinaryOps : Fetch.op = "BINARY" /\ binary(op)
    BY <1>9, FetchType DEF BINARY, Fetched
  <2>2. CASE Len(stack) < 2
    BY <2>1, <2>2, <1>0 DEF Sound, Need
  <2>3. CASE Len(stack) >= 2
    <3>1. Top \in Word /\ Second \in Word
      BY <1>0, <2>3, TopType
    <3>2. BinaryResults(op, Second, Top) \subseteq Word
      BY <3>1, ArithmeticAssumption
    <3>3. \/ \E x \in Word : Return(Append(Below(2), x))
          \/ outcome' = "killed"
      BY <1>0, <2>1, <2>3, <3>2 DEF binary, MIN_ARITH, Killed
    <3> QED
      BY <1>0, <1>3, <2>1, <2>3, <3>3 DEF Sound, Need, Effect
  <2> QED
    BY <1>0, <2>2, <2>3
<1>10. CASE UNARY
  <2>1. PICK op \in UnaryOps : Fetch.op = "UNARY" /\ unary(op)
    BY <1>10, FetchType DEF UNARY, Fetched
  <2>2. CASE Len(stack) < 1
    BY <2>1, <2>2, <1>0 DEF Sound, Need
  <2>3. CASE Len(stack) >= 1
    <3>1. Top \in Word
      BY <1>0, <2>3, TopType
    <3>2. UnaryResults(op, Top) \subseteq Word
      BY <3>1, ArithmeticAssumption
    <3>3. \E x \in Word : Return(Append(Below(1), x))
      BY <1>0, <2>1, <2>3, <3>2 DEF unary, MIN_CONV
    <3> QED
      BY <1>0, <1>3, <2>1, <2>3, <3>3 DEF Sound, Need, Effect
  <2> QED
    BY <1>0, <2>2, <2>3
<1>11. CASE ATANXY
  <2>1. Fetch.op = "ATANXY" /\ atanxy
    BY <1>11 DEF ATANXY, Fetched
  <2>2. CASE Len(stack) < 2
    BY <2>1, <2>2, <1>0 DEF Sound, Need
  <2>3. CASE Len(stack) >= 2
    <3>1. Top \in Word /\ Second \in Word
      BY <1>0, <2>3, TopType
    <3>2. BinaryResults("ATANXY", Second, Top) \subseteq Word
      BY <3>1, ArithmeticAssumption
    <3>3. \E x \in BinaryResults("ATANXY", Second, Top) : Return(Append(Below(2), x))
      <4>1. \A n \in Nat : n >= 2 => ~ (n < MIN_CONV) /\ n # 1
        BY DEF MIN_CONV
      <4>2. ~ (Len(stack) < MIN_CONV) /\ Len(stack) # 1
        BY <1>0, <2>3, <4>1
      <4> QED
        BY <2>1, <4>2 DEF atanxy
    <3>4. \E x \in Word : Return(Append(Below(2), x))
      BY <3>2, <3>3
    <3> QED
      BY <1>0, <1>3, <2>1, <2>3, <3>4 DEF Sound, Need, Effect
  <2> QED
    BY <1>0, <2>2, <2>3
<1>12. CASE DUP
  <2>1. Fetch.op = "DUP"
    BY <1>12 DEF DUP, Fetched
  <2>2. CASE Len(stack) >= 1 /\ Len(stack) + 1 <= MAX_STACK
    BY <1>0, <1>12, <2>1, <2>2, StackAssumption DEF DUP, dup, Return, Sound, Effect
  <2> QED
    BY <1>0, <2>1, <2>2 DEF Sound, Need, Effect
<1>13. CASE LABEL \/ J \/ END
  BY <1>0, <1>13 DEF LABEL, J, END, Fetched, Return, Sound, Effect
<1>14. CASE JZ \/ JNZ
  <2>1. Fetch.op \in {"JZ", "JNZ"} /\ pop
    BY <1>14 DEF JZ, JNZ, Jump, Fetched
  <2> QED
    BY <1>0, <1>2, <2>1 DEF Sound, Need, Effect
<1> QED
  BY <1>4, <1>5, <1>6, <1>7, <1>8, <1>9, <1>10, <1>11, <1>12, <1>13, <1>14
  DEF Execute

(* Where run() goes after an instruction.                                  *)
LEMMA ExecuteFlow ==
    ASSUME MachineTypeOK, Execute
    PROVE  /\ phase' = "running" =>
                 /\ Fetch.op # "END" /\ outcome' = "ok"
                 /\ ip' \in Successors(instructions, ip)
           /\ phase' = "failed" => outcome' = "throw" /\ ip' = ip
           /\ instructions' = instructions /\ phase = "running"
<1>1. ASSUME NEW next, Advance(next)
      PROVE  /\ phase' = "running" => outcome' = "ok" /\ ip' = next
             /\ phase' = "failed" => outcome' = "throw" /\ ip' = ip
  BY <1>1 DEF Advance
<1>2. ip + 1 \in Successors(instructions, ip)
  BY DEF Successors
<1>3. CASE PUSH_const \/ PUSH_var \/ PUSH_special \/ POP_var \/ POP_discard
  BY <1>1, <1>2, <1>3
  DEF PUSH_const, PUSH_var, PUSH_special, POP_var, POP_discard, Fetched, Execute
<1>4. CASE BINARY \/ UNARY \/ ATANXY \/ DUP \/ LABEL \/ J
  BY <1>1, <1>2, <1>4 DEF BINARY, UNARY, ATANXY, DUP, LABEL, J, Fetched, Execute
<1>5. CASE JZ \/ JNZ
  <2>1. Fetch.op \in ConditionalJumps /\ phase = "running"
    BY <1>5 DEF JZ, JNZ, Fetched, ConditionalJumps
  <2>2. Fetch.target + 1 \in Successors(instructions, ip)
    BY <2>1 DEF Successors, Fetch
  <2>3. \/ Advance(Fetch.target + 1)
        \/ Advance(ip + 1)
    BY <1>5 DEF JZ, JNZ, Jump, Advance
  <2> QED
    BY <1>1, <1>2, <2>1, <2>2, <2>3 DEF Execute, ConditionalJumps
<1>6. CASE END
  BY <1>6 DEF END, Fetched, Execute
<1> QED
  BY <1>3, <1>4, <1>5, <1>6 DEF Execute

(* The strengthening of the two properties that is inductive: of one       *)
(* static count.                                                           *)
CountInv(depth) ==
    Balanced(instructions, depth) =>
        /\ phase = "running" => Len(stack) = depth[ip]
        /\ phase = "failed" => AtRefusedVariable
        /\ outcome # "undefined"

LEMMA CountStep ==
    ASSUME MachineTypeOK, [Next]_vars,
           NEW depth \in Depths(instructions), CountInv(depth)
    PROVE  CountInv(depth)'
<1> SUFFICES ASSUME Balanced(instructions, depth)'
             PROVE  /\ phase' = "running" => Len(stack') = depth[ip']
                    /\ phase' = "failed" => AtRefusedVariable'
                    /\ outcome' # "undefined"
  BY DEF CountInv
<1>0. instructions' = instructions
  BY DEF Next, InitVariable, InitDone, Start, Execute, OutsideWrite, Stopped,
         vars, machineVars
<1>1. /\ Balanced(instructions, depth)
      /\ phase = "running" => Len(stack) = depth[ip]
      /\ phase = "failed" => AtRefusedVariable
      /\ outcome # "undefined"
  BY <1>0 DEF CountInv, Balanced, Successors
<1>2. ASSUME NEW v \in pending, InitVariable(v)
      PROVE  /\ phase' \in {"init", "failed"} /\ outcome' # "undefined"
             /\ phase' = "failed" => AtRefusedVariable'
  <2>1. v \in Var /\ InitValue[v] \in Word /\ mem \in Memories
    BY InitValueAssumption DEF MachineTypeOK
  <2> QED
    BY <1>2, <2>1 DEF InitVariable, Return, Throw, Refused, AtRefusedVariable
<1>3. CASE InitDone
  BY <1>1, <1>3 DEF InitDone, stackVars
<1>4. CASE Start
  <2>1. depth[0] = 0
    BY <1>1 DEF Balanced
  <2> QED
    BY <1>4, <2>1 DEF Start, clr, Return
<1>5. CASE Execute
  <2>1. /\ ip \in 0..Len(instructions) - 1 /\ Len(instructions) \in Nat \ {0}
        /\ Fetch.op # "END" => ip \in 0..Len(instructions) - 2
    BY FetchType
  <2>2. phase = "running" /\ Len(stack) = depth[ip] /\ depth[ip] \in 0..MAX_STACK
    BY <1>1, <1>5, <2>1, ExecuteFlow DEF Depths
  <2>3. Sound(Fetch.op)
    BY <1>5, ExecuteSound
  <2>4. Fetch.op \in {"PUSH_var", "POP_var"} /\ Refused(Fetch.var) /\ ip' = ip
          => AtRefusedVariable'
    BY <1>0 DEF AtRefusedVariable, Fetch, Refused
  <2>5. CASE Fetch.op = "END"
    <3>1. Need(Fetch.op) = 0 /\ Effect(Fetch.op) = 0
      BY <2>5 DEF Need, Effect
    <3>2. Len(stack) >= Need(Fetch.op) /\ Len(stack) + Effect(Fetch.op) <= MAX_STACK
      BY <2>2, <3>1, StackAssumption
    <3> QED
      BY <1>5, <2>3, <2>4, <2>5, <3>2, ExecuteFlow DEF Sound
  <2>6. CASE Fetch.op # "END"
    <3>1. /\ Need(Fetch.op) <= depth[ip]
          /\ depth[ip] + Effect(Fetch.op) <= MAX_STACK
          /\ \A j \in Successors(instructions, ip) : depth[j] = depth[ip] + Effect(Fetch.op)
      BY <1>1, <2>1, <2>6 DEF Balanced, Fetch
    <3>2. Need(Fetch.op) \in 0..2
      BY DEF Need
    <3>3. Len(stack) >= Need(Fetch.op) /\ Len(stack) + Effect(Fetch.op) <= MAX_STACK
      BY <2>2, <3>1, <3>2
    <3> QED
      BY <1>5, <2>2, <2>3, <2>4, <3>1, <3>3, ExecuteFlow DEF Sound
  <2> QED
    BY <2>5, <2>6
<1>6. CASE OutsideWrite
  BY <1>1, <1>6 DEF OutsideWrite, stackVars, AtRefusedVariable, Fetch, Refused
<1>7. CASE UNCHANGED vars
  BY <1>1, <1>7 DEF vars, stackVars, machineVars, AtRefusedVariable, Fetch, Refused
<1> QED
  BY <1>2, <1>3, <1>4, <1>5, <1>6, <1>7 DEF Next, Stopped

(* Every static count of the program at once.                              *)
AllCounts == \A depth \in Depths(instructions) : CountInv(depth)

LEMMA AllCountsInvariant == Spec => []AllCounts
<1>1. Init => AllCounts
  BY DEF Init, StackInit, CountInv, AllCounts
<1>2. MachineTypeOK /\ AllCounts /\ [Next]_vars => AllCounts'
  <2> SUFFICES ASSUME MachineTypeOK, AllCounts, [Next]_vars,
                      NEW depth \in Depths(instructions)'
               PROVE  CountInv(depth)'
    BY DEF AllCounts
  <2>1. instructions' = instructions
    BY DEF Next, InitVariable, InitDone, Start, Execute, OutsideWrite, Stopped,
           vars, machineVars
  <2>2. depth \in Depths(instructions)
    BY <2>1 DEF Depths
  <2> QED
    BY <2>2, CountStep DEF AllCounts
<1> QED
  BY <1>1, <1>2, MachineTypeCorrect, PTL DEF Spec

(* A static count that balances is the number of elements on the stack, at *)
(* every index in every cycle.                                             *)
THEOREM BalancedDepthTheorem == Spec => []BalancedKeepsDepth
<1>1. AllCounts => BalancedKeepsDepth
  BY DEF AllCounts, CountInv, BalancedKeepsDepth
<1> QED
  BY <1>1, AllCountsInvariant, PTL

(* A program with a static count that balances, and whose variables lie in *)
(* their memories, never ends a run with an exception and never reaches    *)
(* undefined behaviour.                                                    *)
THEOREM BalancedNeverFailsTheorem == Spec => []BalancedNeverFails
<1>1. AllCounts => BalancedNeverFails
  BY DEF AllCounts, CountInv, BalancedNeverFails
<1> QED
  BY <1>1, AllCountsInvariant, PTL

-----------------------------------------------------------------------------
(* Logging.                                                                *)

(* Logging is as the constructor set it until a run has failed.            *)
THEOREM DebugKeptTheorem == Spec => []DebugKept
<1>1. Init => DebugKept
  BY DEF Init, StackInit, DebugKept
<1>2. DebugKept /\ [Next]_vars => DebugKept'
  <2> SUFFICES ASSUME DebugKept, [Next]_vars, phase' # "failed"
               PROVE  verbose' = VERBOSE
    BY DEF DebugKept
  <2>1. ASSUME NEW v \in pending, InitVariable(v)
        PROVE  verbose' = VERBOSE
    BY <2>1 DEF InitVariable, Return, Throw, DebugKept
  <2>2. CASE InitDone \/ OutsideWrite
    BY <2>2 DEF InitDone, OutsideWrite, stackVars, DebugKept
  <2>3. CASE Start
    BY <2>3 DEF Start, clr, Return, DebugKept
  <2>4. CASE Execute
    <3>1. phase = "running"
      BY <2>4 DEF Execute, PUSH_const, PUSH_var, PUSH_special, POP_var, POP_discard,
         BINARY, UNARY, ATANXY, DUP, LABEL, J, JZ, JNZ, END, Fetched
    <3>2. verbose = VERBOSE
      BY <3>1 DEF DebugKept
    <3>3. CASE DUP
      <4>1. outcome' # "throw"
        BY <3>3 DEF DUP, Advance
      <4> QED
        BY <3>2, <3>3, <4>1 DEF DUP, dup, Return
    <3>4. CASE PUSH_const \/ PUSH_var \/ PUSH_special
      BY <3>2, <3>4 DEF PUSH_const, PUSH_var, PUSH_special, push, Return, Throw
    <3>5. CASE POP_var \/ POP_discard \/ JZ \/ JNZ
      BY <3>2, <3>5 DEF POP_var, POP_discard, JZ, JNZ, Jump, pop, Return, Throw
    <3>6. CASE BINARY \/ UNARY \/ ATANXY
      BY <3>2, <3>6 DEF BINARY, UNARY, ATANXY, binary, unary, atanxy, Return, Throw, Killed
    <3>7. CASE LABEL \/ J \/ END
      BY <3>2, <3>7 DEF LABEL, J, END, Return
    <3> QED
      BY <2>4, <3>3, <3>4, <3>5, <3>6, <3>7 DEF Execute
  <2>5. CASE UNCHANGED vars
    BY <2>5 DEF vars, stackVars, machineVars, DebugKept
  <2> QED
    BY <2>1, <2>2, <2>3, <2>4, <2>5 DEF Next, Stopped
<1> QED
  BY <1>1, <1>2, PTL DEF Spec

=============================================================================
