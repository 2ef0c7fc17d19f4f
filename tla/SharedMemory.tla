---------------------------- MODULE SharedMemory ----------------------------
(***************************************************************************)
(* Several processes that use one shared memory, each through its own      *)
(* MemorySHM, as machines do whose programs name the same shared memory.   *)
(*                                                                         *)
(* An access is one step where the code makes one read or one write of     *)
(* memory; store_bit makes two, and other processes work in between.  An   *)
(* access that leaves the memory is undefined, and nothing is said of the  *)
(* process after it.                                                       *)
(***************************************************************************)
EXTENDS Memory, FiniteSets

CONSTANTS
    Proc,
    Configs,    \* what may be declared: records of cell_size, size, contents
                \* and var, which maps a name to the processes that use it
                \* and its type, cell and index
    Data(_)     \* the words stored in a variable of a type

BitTypes == {"le1", "be1"}
Types == BitTypes \cup DOMAIN WholeTypes

ASSUME ConfigsAssumption ==
    \A c \in Configs :
        /\ c.cell_size \in CellSizes
        /\ c.size \in Nat /\ c.size <= SizeMax + 1
        /\ c.contents \subseteq [0..c.size - 1 -> Byte]
        /\ \A x \in DOMAIN c.var :
              /\ c.var[x].users \subseteq Proc /\ c.var[x].type \in Types
              /\ c.var[x].cell \in Nat /\ c.var[x].index \in Nat

ASSUME DataAssumption == \A t \in Types : Data(t) \subseteq Datum

VARIABLES
    decl,       \* the declarations; they never change
    shm,
    access,     \* process -> the store_bit it is in the middle of
    done,       \* history: the operation completed last
    last,       \* history: what was last stored in each variable
    endangered  \* history: the variables stored while another process was
                \* about to write back the same cell

memoryVars == <<decl, shm, access>>
vars == <<memoryVars, done, last, endangered>>

Var == DOMAIN decl
IsBit(v) == v.type \in BitTypes
Layout_(v) == WholeTypes[v.type]

Idle == [step |-> "idle"]
Gone == [step |-> "gone"]
NoEvent == [op |-> "none"]

-----------------------------------------------------------------------------
(* MemoryReal::load and store dispatch on the type.                        *)
Accepted(s, v) ==
    IF IsBit(v) THEN BitInRange(s, v.cell, v.index)
    ELSE WholeInRange(s, v.cell, Layout_(v).width)

(* The addresses an accepted store writes.                                 *)
Addresses(s, v) ==
    IF IsBit(v) THEN v.cell * s.cell_size..v.cell * s.cell_size + s.cell_size - 1
    ELSE {Address(Base(s, v.cell), k) : k \in 0..Layout_(v).width - 1}
Leaves(s, v) == ~(Addresses(s, v) \subseteq 0..s.size - 1)

Load(s, v) ==
    IF IsBit(v)
    THEN {IF b = 1 THEN One ELSE Zero : b \in load_bit(s, v.cell, v.index, v.type = "le1")}
    ELSE load_whole(s, v.cell, Layout_(v))

(* What of a word a variable of the type holds: the low bytes, or whether  *)
(* the word is 0.                                                          *)
Fit(v, data) ==
    IF IsBit(v) THEN IF data # Zero THEN One ELSE Zero
    ELSE ZeroExtended(data, Layout_(v).width)

-----------------------------------------------------------------------------
Init ==
    /\ \E c \in Configs :
          /\ decl = c.var
          /\ shm \in [cell_size : {c.cell_size}, size : {c.size}, bytes : c.contents]
    /\ access = [p \in Proc |-> Idle]
    /\ done = NoEvent
    /\ endangered = {}
    /\ last = [x \in Var |-> IF Accepted(shm, decl[x]) /\ ~Leaves(shm, decl[x])
                             THEN CHOOSE d \in Load(shm, decl[x]) : TRUE
                             ELSE Zero]

(* p calls for an access to x.                                             *)
Calls(p, x) == access[p] = Idle /\ p \in decl[x].users
Completed(op, x, d) == done' = [op |-> op, var |-> x, data |-> d]

(* std::runtime_error or std::out_of_range.                                *)
Throws(p, x) ==
    /\ Calls(p, x) /\ ~Accepted(shm, decl[x])
    /\ done' = NoEvent
    /\ UNCHANGED <<memoryVars, last, endangered>>

Loads(p, x) ==
    /\ Calls(p, x) /\ Accepted(shm, decl[x]) /\ ~Leaves(shm, decl[x])
    /\ \E d \in Load(shm, decl[x]) : Completed("load", x, d)
    /\ UNCHANGED <<memoryVars, last, endangered>>

(* Another process is about to write back a cell that x lies in, for the   *)
(* sake of another variable.                                               *)
Overlapped(p, x) ==
    \E q \in Proc \ {p} :
        /\ access[q].step = "write back" /\ access[q].var # x
        /\ Addresses(shm, decl[access[q].var]) \cap Addresses(shm, decl[x]) # {}

Stored(p, x, d) ==
    /\ Completed("store", x, Fit(decl[x], d))
    /\ last' = [last EXCEPT ![x] = Fit(decl[x], d)]
    /\ endangered' = IF Overlapped(p, x) THEN endangered \cup {x} ELSE endangered \ {x}

StoresWhole(p, x) ==
    /\ Calls(p, x) /\ ~IsBit(decl[x])
    /\ Accepted(shm, decl[x]) /\ ~Leaves(shm, decl[x])
    /\ \E d \in Data(decl[x].type) :
          /\ shm' \in store_whole(shm, decl[x].cell, Layout_(decl[x]), d)
          /\ Stored(p, x, d)
    /\ UNCHANGED <<decl, access>>

(* store_bit reads the cell.                                               *)
ReadsCell(p, x) ==
    /\ Calls(p, x) /\ IsBit(decl[x])
    /\ Accepted(shm, decl[x]) /\ ~Leaves(shm, decl[x])
    /\ \E d \in Data(decl[x].type) :
          access' = [access EXCEPT ![p] =
              [step |-> "write back", var |-> x, word |-> d,
               cell |-> ReadCell(shm, decl[x].cell)]]
    /\ UNCHANGED <<decl, shm, done, last, endangered>>

(* Mutation: what is written back goes to the byte with the number of the  *)
(* cell.                                                                   *)
WritesBackByNumber(p) ==
    /\ access[p].step = "write back"
    /\ LET v == decl[access[p].var]
       IN  /\ \E c \in BitStored(access[p].cell, shm.cell_size, v.index, v.type = "le1",
                                 access[p].word # Zero) :
                 shm' = Written(shm, v.cell, c, shm.cell_size)
           /\ Stored(p, access[p].var, access[p].word)
    /\ access' = [access EXCEPT ![p] = Idle]
    /\ UNCHANGED decl

(* It changes the bit in what it has read and writes the whole cell back.  *)
WritesBack(p) ==
    /\ access[p].step = "write back"
    /\ LET v == decl[access[p].var]
       IN  /\ \E c \in BitStored(access[p].cell, shm.cell_size, v.index, v.type = "le1",
                                 access[p].word # Zero) :
                 shm' = WriteCell(shm, v.cell, c)
           /\ Stored(p, access[p].var, access[p].word)
    /\ access' = [access EXCEPT ![p] = Idle]
    /\ UNCHANGED decl

(* An access passes the check and leaves the memory: what a store puts     *)
(* inside may be there or not.                                             *)
LeavesMemory(p, x) ==
    /\ Calls(p, x) /\ Accepted(shm, decl[x]) /\ Leaves(shm, decl[x])
    /\ \/ UNCHANGED shm
       \/ ~IsBit(decl[x]) /\ \E d \in Data(decl[x].type) :
             shm' \in store_whole(shm, decl[x].cell, Layout_(decl[x]), d)
    /\ access' = [access EXCEPT ![p] = [step |-> "gone", var |-> x]]
    /\ done' = NoEvent
    /\ UNCHANGED <<decl, last, endangered>>

Next ==
    \/ \E p \in Proc, x \in Var : Throws(p, x)
    \/ \E p \in Proc, x \in Var : Loads(p, x)
    \/ \E p \in Proc, x \in Var : StoresWhole(p, x)
    \/ \E p \in Proc, x \in Var : ReadsCell(p, x)
    \/ \E p \in Proc, x \in Var : LeavesMemory(p, x)
    \/ \E p \in Proc : WritesBack(p)

Spec == Init /\ [][Next]_vars

-----------------------------------------------------------------------------
(* Declarations that can be relied on.                                     *)

(* The bits a store is meant for, as pairs of address and position, and    *)
(* those it may change besides when an index is at or past the width of an *)
(* int.                                                                    *)
Footprint(s, v) ==
    IF IsBit(v)
    THEN {<<v.cell * s.cell_size
               + (IF v.type = "le1" THEN i \div ByteBits ELSE s.cell_size - 1 - (i \div ByteBits)),
            i % ByteBits>> :
             i \in (UNION StoreReach(v.index)) \cap 0..s.cell_size * ByteBits - 1}
    ELSE Addresses(s, v) \X (0..ByteBits - 1)

(* The types the code reads back: a bit inside its cell and the int the    *)
(* mask is built in, in a 2 byte cell inside the byte load_bit looks at;   *)
(* every whole type but the 64 bit ones.                                   *)
ReadsBack(s, v) ==
    IF IsBit(v)
    THEN /\ v.index < s.cell_size * ByteBits /\ v.index < IntBits
         /\ s.cell_size = 2 => (v.index < ByteBits <=> v.type = "le1")
    ELSE Layout_(v).width < 8

(* x reads back, lies inside the memory and shares no bit with another.    *)
Separate(x) ==
    /\ Accepted(shm, decl[x]) /\ ~Leaves(shm, decl[x]) /\ ReadsBack(shm, decl[x])
    /\ \A y \in Var \ {x} : Footprint(shm, decl[x]) \cap Footprint(shm, decl[y]) = {}

(* Moreover, while a process uses x no other one stores another bit in a   *)
(* cell x lies in.                                                         *)
Private(x) ==
    /\ Separate(x)
    /\ \A y \in Var \ {x} :
          IsBit(decl[y]) /\ (\E p \in decl[x].users, q \in decl[y].users : p # q) =>
              Addresses(shm, decl[x]) \cap Addresses(shm, decl[y]) = {}

-----------------------------------------------------------------------------
SharedTypeOK ==
    /\ shm.cell_size \in CellSizes /\ shm.size \in 0..SizeMax + 1
    /\ shm.bytes \in [0..shm.size - 1 -> Byte]
    /\ \A p \in Proc :
          \/ access[p] = Idle
          \/ access[p].step = "gone" /\ access[p].var \in Var
          \/ /\ access[p].step = "write back"
             /\ access[p].var \in Var /\ IsBit(decl[access[p].var])
             /\ access[p].cell \in [0..shm.cell_size - 1 -> Byte]
             /\ access[p].word \in Datum

(* The size check stands: an access it lets pass stays inside the memory,  *)
(* unless cell * cell_size and what is added to it exceed a std::size_t.   *)
(* The checks compare an address with a size, or a cell with a number of   *)
(* cells, each type in its own way.                                        *)
WrappedOnlyLeaves ==
    \A p \in Proc : access[p].step = "gone" =>
        LET v == decl[access[p].var]
        IN  ~IsBit(v) /\ v.cell * shm.cell_size + Layout_(v).width - 1 > SizeMax

(* A variable holds what was last stored in it, whatever byte order and    *)
(* register order its type has, unless that store fell between the two     *)
(* halves of another process's store_bit on the same cell: only such an    *)
(* update can be lost.                                                     *)
LostOnlyInOverlap ==
    \A x \in Var : Separate(x) /\ x \notin endangered =>
        Load(shm, decl[x]) = {last[x]}

(* A variable that several processes use is a register of its own as long  *)
(* as no other bit of its cells is stored by another process: every load   *)
(* gives the value last stored by any of them, although a bit is stored in *)
(* two steps and with it all of its cell, and each process computes the    *)
(* place and the byte order by itself.                                     *)
R == INSTANCE Registers WITH
        Value <- Datum,
        val <- [x \in {x \in Var : Private(x)} |->
                   CHOOSE d \in Load(shm, decl[x]) : TRUE],
        done <- IF done # NoEvent /\ Private(done.var) THEN done ELSE NoEvent
ImplementsRegisters == R!Spec

(* Memory.hpp promises types of up to "64 bit little endian" and that a    *)
(* load returns the "loaded data": what is stored reads back at once.      *)
StoredReadsBack ==
    [][done' # done /\ done'.op = "store" => Load(shm', decl[done'.var]) = {done'.data}]_vars

=============================================================================
