---------------------------- MODULE StackMachine ----------------------------
(***************************************************************************)
(* class StackMachine: the operand stack and the calls that work on it.    *)
(*                                                                         *)
(* What the arithmetic yields is a parameter: BinaryResults and            *)
(* UnaryResults are the words an instruction may push for its operands     *)
(* (module Words defines them), none where the processor traps.  So what   *)
(* is proved here holds for every arithmetic.                              *)
(*                                                                         *)
(* A call is one step: the object is used by one thread.  `outcome' is how *)
(* the last call ended: it returned, threw std::runtime_error, killed the  *)
(* process with a signal, or had undefined behaviour that went unnoticed.  *)
(* After the last two the object is gone and no call follows.              *)
(***************************************************************************)
EXTENDS Naturals, Sequences

CONSTANTS
    Word,                   \* stack_t
    MAX_STACK,
    VERBOSE,                \* the constructor's argument
    BinaryOps, UnaryOps,
    BinaryResults(_, _, _), \* (op, left operand, right operand)
    UnaryResults(_, _)      \* (op, operand)

(* Elements an instruction with two operands, and one with one, asks for.  *)
MIN_ARITH == 2
MIN_CONV == 1
MIN_STACK == 2

(* The constructor throws std::invalid_argument for a smaller stack.       *)
ASSUME StackAssumption == MAX_STACK \in Nat /\ MAX_STACK >= MIN_STACK

ASSUME VerboseAssumption == VERBOSE \in BOOLEAN

ASSUME ArithmeticAssumption ==
    /\ \A op \in BinaryOps \cup {"ATANXY"}, l, r \in Word : BinaryResults(op, l, r) \subseteq Word
    /\ \A op \in UnaryOps, x \in Word : UnaryResults(op, x) \subseteq Word

VARIABLES
    stack,      \* std::stack<stack_t>, the top last
    verbose,    \* whether a call is logged
    outcome     \* "ok", "throw", "killed" or "undefined"

stackVars == <<stack, verbose, outcome>>

Top == stack[Len(stack)]
Second == stack[Len(stack) - 1]

(* What is left when n elements are popped.                                *)
Below(n) == SubSeq(stack, 1, Len(stack) - n)

Return(s) == stack' = s /\ outcome' = "ok" /\ UNCHANGED verbose
Throw == outcome' = "throw" /\ UNCHANGED <<stack, verbose>>
Killed == outcome' = "killed" /\ UNCHANGED <<stack, verbose>>

-----------------------------------------------------------------------------
(* Mutation: the bound is checked one element late.                        *)
pushLate(data) ==
    \/ Len(stack) > MAX_STACK /\ Throw
    \/ Len(stack) <= MAX_STACK /\ Return(Append(stack, data))

push(data) ==
    \/ Len(stack) >= MAX_STACK /\ Throw
    \/ Len(stack) < MAX_STACK /\ Return(Append(stack, data))

(* Mutation: the element at the other end of the container is removed.     *)
popFront ==
    \/ stack = <<>> /\ Throw
    \/ stack # <<>> /\ Return(Tail(stack))

pop ==
    \/ stack = <<>> /\ Throw
    \/ stack # <<>> /\ Return(Below(1))

get ==
    \/ stack = <<>> /\ Throw
    \/ stack # <<>> /\ Return(stack)

clr == Return(<<>>)

(* Mutation: logging is switched off and never restored.                   *)
dupUnrestored ==
    \/ /\ stack = <<>> \/ Len(stack) >= MAX_STACK
       /\ Throw
    \/ /\ stack # <<>> /\ Len(stack) < MAX_STACK
       /\ stack' = Append(stack, Top) /\ outcome' = "ok" /\ verbose' = FALSE

(* dup switches logging off around push(get()) and restores it after; an   *)
(* exception skips the restoring assignment.                               *)
dup ==
    \/ /\ stack = <<>> \/ Len(stack) >= MAX_STACK
       /\ outcome' = "throw" /\ verbose' = FALSE /\ UNCHANGED stack
    \/ /\ stack # <<>> /\ Len(stack) < MAX_STACK
       /\ Return(Append(stack, Top))

(* Mutation: the right operand is gone when the check for the left throws. *)
binaryPopFirst(op) ==
    \/ /\ Len(stack) < MIN_ARITH
       /\ outcome' = "throw" /\ stack' = Below(Len(stack)) /\ UNCHANGED verbose
    \/ /\ Len(stack) >= MIN_ARITH
       /\ \E x \in BinaryResults(op, Second, Top) : Return(Append(Below(2), x))

(* An instruction with two operands: check_arith, two unchecked pops, an   *)
(* unchecked push.  No result is a trap.                                   *)
binary(op) ==
    \/ Len(stack) < MIN_ARITH /\ Throw
    \/ /\ Len(stack) >= MIN_ARITH
       /\ \E x \in BinaryResults(op, Second, Top) : Return(Append(Below(2), x))
    \/ /\ Len(stack) >= MIN_ARITH
       /\ BinaryResults(op, Second, Top) = {} /\ Killed

(* An instruction with one operand: check_conv, one unchecked pop and an   *)
(* unchecked push.                                                         *)
unary(op) ==
    \/ Len(stack) < MIN_CONV /\ Throw
    \/ /\ Len(stack) >= MIN_CONV
       /\ \E x \in UnaryResults(op, Top) : Return(Append(Below(1), x))

(* atanxy asks for one element and pops two: with exactly one, _pop works  *)
(* on an empty std::stack.  The process may die at once or run on with a   *)
(* corrupt stack; what `stack' holds means nothing after that.             *)
atanxy ==
    \/ Len(stack) < MIN_CONV /\ Throw
    \/ /\ Len(stack) >= 2
       /\ \E x \in BinaryResults("ATANXY", Second, Top) :
             Return(Append(Below(2), x))
    \/ /\ Len(stack) = 1
       /\ outcome' \in {"killed", "undefined"} /\ UNCHANGED <<stack, verbose>>

-----------------------------------------------------------------------------
(* The object by itself, called in any order, as test_stack_machine.cpp    *)
(* does: an exception is caught and the object used again.                 *)

StackInit == stack = <<>> /\ verbose = VERBOSE /\ outcome = "ok"

Usable == outcome \in {"ok", "throw"}

Push == Usable /\ \E data \in Word : push(data)
Pop == Usable /\ pop
Get == Usable /\ get
Clr == Usable /\ clr
Dup == Usable /\ dup
Arithmetic == Usable /\ \E op \in BinaryOps : binary(op)
Conversion == Usable /\ \E op \in UnaryOps : unary(op)
Atanxy == Usable /\ atanxy

StackNext == \/ Push \/ Pop \/ Get \/ Clr \/ Dup
             \/ Arithmetic \/ Conversion \/ Atanxy

StackSpec == StackInit /\ [][StackNext]_stackVars

-----------------------------------------------------------------------------
(* The stack holds words and never more than MAX_STACK of them, although   *)
(* the instructions push their result without the check push makes.        *)
StackTypeOK ==
    /\ stack \in Seq(Word)
    /\ Len(stack) <= MAX_STACK
    /\ verbose \in BOOLEAN
    /\ outcome \in {"ok", "throw", "killed", "undefined"}

(* A call that throws leaves every element in place, so the caller may     *)
(* catch the exception and go on; the unit test relies on it when add()    *)
(* meets a single element.                                                 *)
ThrowKeepsStack == [][outcome' = "throw" => stack' = stack]_stackVars

(* The object implements the bounded stack: in every history of calls a    *)
(* call changes the top only, by at most two operands for one result.      *)
Bounded == INSTANCE BoundedStack
               WITH items <- stack, Value <- Word, Capacity <- MAX_STACK
ImplementsBoundedStack == Bounded!Spec

(* StackMachine.hpp promises std::runtime_error when there are too few     *)
(* elements; then no call has undefined behaviour.                         *)
TooFewElementsThrows == outcome # "undefined"

=============================================================================
