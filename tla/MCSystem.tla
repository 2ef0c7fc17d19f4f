------------------------------ MODULE MCSystem ------------------------------
(***************************************************************************)
(* System for TLC: a few programs, one for each way a run ends.            *)
(***************************************************************************)
EXTENDS System, Words, Memory

(* x and y are outputs, s is an input that another process writes.         *)
Place == [x |-> LocalCell(0), y |-> LocalCell(1), s |-> SharedBit(1, 0), far |-> LocalCell(7)]
MCVar == DOMAIN Place
MCInitValue == [x |-> 0, y |-> 1, s |-> 1]

(* The shared memory has the byte s lies in, or was created too small, and *)
(* then init() fails.                                                      *)
Bytes(second) == [k \in {0, 1} |-> IF k = 1 THEN second ELSE {}]
TooSmall == [cell_size |-> 1, size |-> 1, bytes |-> [k \in {0} |-> {}]]
MCShm == [cell_size : {1}, size : {2}, bytes : {Bytes(b) : b \in Byte}] \cup {TooSmall}
MCMemories == [local : [{0, 1} -> Words], shm : MCShm]
MCInitialMemories ==
    {m \in MCMemories : m.local = [k \in {0, 1} |-> 0] /\ m.shm.bytes \in {Bytes({}), TooSmall.bytes}}
MCLoad(m, v) == load(m, Place[v])
MCStore(m, v, d) == store(m, Place[v], d)
MCOutside(m) ==
    IF m.shm = TooSmall THEN {}
    ELSE {[m EXCEPT !.shm.bytes = Bytes(bits)] : bits \in {{}, {0}}}

-----------------------------------------------------------------------------
Constant(d) == [op |-> "PUSH_const", value |-> d]
Push_(v) == [op |-> "PUSH_var", var |-> v]
Pop_(v) == [op |-> "POP_var", var |-> v]
Plain(op) == [op |-> op]

(* Two outputs from one sample; a branch; a loop that ends when the input  *)
(* changes; a second output that is missing; an address that is, of an     *)
(* input and of an output; a division that traps.                          *)
Copy == <<Push_("s"), Plain("DUP"), Pop_("x"), Pop_("y"), Plain("END")>>
Branch == <<Push_("s"), [op |-> "JZ", target |-> 4], Constant(1), Pop_("x"),
            Plain("LABEL"), Plain("END")>>
Loop == <<Plain("LABEL"), Push_("s"), [op |-> "JNZ", target |-> 0], Plain("END")>>
HalfDone == <<Push_("s"), Pop_("x"), Pop_("y"), Plain("END")>>
FarAway == <<Constant(1), Pop_("x"), Push_("far"), Plain("END")>>
StoreFar == <<Constant(1), Pop_("x"), Constant(1), Pop_("far"), Plain("END")>>
Divide == <<Constant(1), Push_("s"), [op |-> "BINARY", alu |-> "DIV"], Pop_("y"), Plain("END")>>
MCPrograms == {Copy, Branch, Loop, HalfDone, FarAway, StoreFar, Divide}

=============================================================================
