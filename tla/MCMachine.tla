----------------------------- MODULE MCMachine -----------------------------
(***************************************************************************)
(* Machine with the arithmetic of Words and the memories of Memory, for    *)
(* TLC: every program of up to three instructions, and every program of up *)
(* to four that control flow consists of.                                  *)
(***************************************************************************)
EXTENDS Machine, Words, Memory, SequencesExt

-----------------------------------------------------------------------------
(* Variables: a and b share a local cell, s and t are bits of one byte, of *)
(* which another process writes the first, far is declared beyond the end  *)
(* of its memory.                                                          *)
Place == [a |-> LocalCell(0), b |-> LocalCell(0), s |-> SharedBit(1, 0),
          t |-> SharedBit(1, 1), far |-> LocalCell(7)]
MCVar == DOMAIN Place
MCInitValue == [a |-> 1, b |-> 2, s |-> 0, t |-> 1]

Bytes(second) == [k \in {0, 1} |-> IF k = 1 THEN second ELSE {}]
MCShm == [cell_size : {1}, size : {2}, bytes : {Bytes(b) : b \in Byte}]
MCMemories == [local : [{0} -> Words], shm : MCShm]
MCInitialMemories == {m \in MCMemories : m.local[0] = 0 /\ m.shm.bytes = Bytes({})}
MCLoad(m, v) == load(m, Place[v])
MCStore(m, v, x) == store(m, Place[v], x)
MCOutside(m) ==
    {[m EXCEPT !.shm.bytes[1] = bits] : bits \in {m.shm.bytes[1] \ {0}, m.shm.bytes[1] \cup {0}}}

-----------------------------------------------------------------------------
(* Instructions.                                                           *)
Constant(x) == [op |-> "PUSH_const", value |-> x]
Push_(v) == [op |-> "PUSH_var", var |-> v]
Pop_(v) == [op |-> "POP_var", var |-> v]
Plain(op) == [op |-> op]
Alu2(op) == [op |-> "BINARY", alu |-> op]
Alu1(op) == [op |-> "UNARY", alu |-> op]
JumpTo(op, t) == [op |-> op, target |-> t]

(* One instruction of each class, the operands that matter.                *)
AllInstructions ==
    {Constant(0), Push_("a"), Push_("far"), Pop_("s"), Pop_("far"),
     Alu2("SUB"), Alu2("DIV"), Alu1("NOT")}
    \cup {Plain(op) : op \in {"PUSH_special", "POP_discard", "ATANXY", "DUP", "LABEL"}}
    \cup {JumpTo("JNZ", t) : t \in 0..2}

(* Control flow, and what it depends on: constants and the bit another     *)
(* process writes.                                                         *)
ControlFlow ==
    {Constant(0), Constant(1), Push_("s")}
    \cup {Plain(op) : op \in {"DUP", "LABEL"}}
    \cup {JumpTo(op, t) : op \in ConditionalJumps \cup {"J"}, t \in 0..3}

MCPrograms ==
    {p \in {Append(body, Plain("END")) :
               body \in BoundedSeq(AllInstructions, 3) \cup BoundedSeq(ControlFlow, 4)} :
        WellFormed(p)}

=============================================================================
