------------------------------ MODULE Program ------------------------------
(***************************************************************************)
(* Instruction lists, what parse_program hands to run().                   *)
(*                                                                         *)
(* An instruction is a record: `op' is its class in instruction.hpp, the   *)
(* other field what the class binds: a value, a variable, an arithmetic    *)
(* instruction or a jump target.                                           *)
(***************************************************************************)
EXTENDS Integers, Sequences

ConditionalJumps == {"JZ", "JNZ"}
PlainOps == {"PUSH_const", "PUSH_var", "PUSH_special", "POP_var", "POP_discard",
             "BINARY", "UNARY", "ATANXY", "DUP", "LABEL", "J"}

(* END is last and only there, an operand is a word or a declared variable,*)
(* a jump target is the position of a LABEL.                               *)
WellFormedOver(p, words, binary_ops, unary_ops, variables) ==
    /\ Len(p) \in Nat \ {0}
    /\ p[Len(p)].op = "END"
    /\ \A i \in 1..Len(p) - 1 :
          /\ p[i].op \in PlainOps \cup ConditionalJumps
          /\ p[i].op = "PUSH_const" => p[i].value \in words
          /\ p[i].op \in {"PUSH_var", "POP_var"} => p[i].var \in variables
          /\ p[i].op = "BINARY" => p[i].alu \in binary_ops
          /\ p[i].op = "UNARY" => p[i].alu \in unary_ops
          /\ p[i].op \in ConditionalJumps \cup {"J"} =>
                p[i].target \in 0..Len(p) - 2 /\ p[p[i].target + 1].op = "LABEL"

=============================================================================
