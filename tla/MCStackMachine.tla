--------------------------- MODULE MCStackMachine ---------------------------
(* The stack with the arithmetic of Words, for TLC.                        *)
EXTENDS StackMachine, Words

=============================================================================
