--------------------------- MODULE MCSharedMemory ---------------------------
(***************************************************************************)
(* SharedMemory for TLC: two processes, bytes of two bits and a size_t of  *)
(* six, so that an int has 8 bits and a cell number can make cell *        *)
(* cell_size wrap.                                                         *)
(***************************************************************************)
EXTENDS SharedMemory

CONSTANT WithWide   \* whether a 64 bit variable is declared

Processes == {"p", "q"}

(* Words whose bytes differ, so that a change of byte order or a byte too  *)
(* many shows; for a bit, the only 1 is above the low byte.                *)
MCData(type) ==
    IF type \in BitTypes THEN {Zero, [Zero EXCEPT ![7] = {1}]}
    ELSE {Zero, [k \in 0..WordBytes - 1 |->
                    CASE k \in {0, 7} -> {0} [] k = 1 -> {1} [] k = 2 -> {0, 1} [] OTHER -> {}]}

Variable(users, type, cell, index) ==
    [users |-> users, type |-> type, cell |-> cell, index |-> index]
Config(cell_size, size, var) ==
    [cell_size |-> cell_size, size |-> size, var |-> var,
     contents |-> {[a \in 0..size - 1 |-> IF a % 2 = 0 THEN {} ELSE {1}]}]

P == {"p"}
Q == {"q"}
Both == {"p", "q"}

(* 1 byte cells: two bits of one process; bits of two processes in a byte  *)
(* both also use as a whole; a value both use beside one that is refused   *)
(* and one whose address wraps.                                            *)
OneByte ==
    {Config(1, 4, [a |-> Variable(P, "le1", 1, 0), b |-> Variable(P, "be1", 1, 1),
                   c |-> Variable(Both, "be16", 2, 0)]),
     Config(1, 4, [a |-> Variable(P, "le1", 1, 0), b |-> Variable(Q, "le1", 1, 1),
                   c |-> Variable(Both, "byte", 1, 0)]),
     Config(1, 8, [c |-> Variable(Both, "be32r", 4, 0), far |-> Variable(Q, "le16", 7, 0),
                   wraps |-> Variable(P, "le16", 63, 0)])}

(* 2 byte cells: a bit both processes store beside a value; bits on either *)
(* side of the byte load_bit looks at, in one cell and in two.             *)
TwoBytes ==
    {Config(2, 8, [a |-> Variable(Both, "le1", 1, 1), c |-> Variable(Both, "be32", 2, 0),
                   narrow |-> Variable(P, "byte", 0, 0)]),
     Config(2, 6, [a |-> Variable(P, "le1", 2, 0), b |-> Variable(Q, "be1", 2, 3),
                   c |-> Variable(Both, "le16", 0, 0)]),
     Config(2, 8, [hidden |-> Variable(Q, "le1", 3, 2), b |-> Variable(Both, "be1", 2, 2),
                   none |-> Variable(P, "le1", 0, 0)])}

(* 4 byte cells: bits in both byte orders, the top bit of an int among     *)
(* them, and an index beyond an int; values of two cells that overlap.     *)
FourBytes ==
    {Config(4, 20, [a |-> Variable(P, "le1", 4, 7), b |-> Variable(P, "be1", 4, 0),
                    c |-> Variable(Both, "le32", 3, 0)]),
     Config(4, 24, [a |-> Variable(P, "be1", 5, 2), b |-> Variable(Both, "be1", 5, 7),
                    wraps |-> Variable(Q, "be32", 15, 0)]),
     Config(4, 24, [b |-> Variable(P, "be1", 5, 7), beyond |-> Variable(Q, "le1", 5, 9)]),
     Config(4, 16, [wide |-> Variable(P, "le64r4", 0, 0), reversed |-> Variable(Q, "be64r", 1, 0),
                    c |-> Variable(Both, "le32", 3, 0)])}

(* 8 byte cells: the mask of the bit at the top of an int also covers the  *)
(* upper half.                                                             *)
EightBytes ==
    {Config(8, 40, [a |-> Variable(P, "le1", 4, 5), b |-> Variable(Both, "be1", 4, 0),
                    large |-> Variable(Q, "be64", 0, 0)]),
     Config(8, 48, [a |-> Variable(P, "le1", 5, 6), top |-> Variable(P, "le1", 5, 7)]),
     Config(8, 48, [a |-> Variable(P, "be1", 5, 3), above |-> Variable(Q, "le1", 5, 9)])}

Wide == {Config(4, 8, [c |-> Variable(Both, "le64", 0, 0)])}

MCConfigs == IF WithWide THEN Wide ELSE OneByte \cup TwoBytes \cup FourBytes \cup EightBytes

=============================================================================
