------------------------------ MODULE Registers ------------------------------
(***************************************************************************)
(* What variables in a shared memory promise to the processes that use     *)
(* them: each is a register of its own.  A load gives what was stored      *)
(* last, a store takes effect at once and leaves the others alone.         *)
(***************************************************************************)
CONSTANT Value

VARIABLES
    val,    \* register -> value
    done    \* the operation completed last, by whichever process

NoEvent == [op |-> "none"]

Init == val \in [DOMAIN val -> Value] /\ done = NoEvent

Load ==
    /\ done' \in [op : {"load"}, var : DOMAIN val, data : Value]
    /\ done'.data = val[done'.var]
    /\ UNCHANGED val

Store ==
    /\ done' \in [op : {"store"}, var : DOMAIN val, data : Value]
    /\ val' = [val EXCEPT ![done'.var] = done'.data]

(* Something that is no operation on a register.                           *)
Other == done' = NoEvent /\ UNCHANGED val

Next == Load \/ Store \/ Other

Spec == Init /\ [][Next]_<<val, done>>

=============================================================================
