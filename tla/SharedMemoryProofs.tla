------------------------- MODULE SharedMemoryProofs -------------------------
(***************************************************************************)
(* Theorems about SharedMemory, for every set of processes, every set of   *)
(* declarations, every width of a byte and of a size_t.                    *)
(***************************************************************************)
EXTENDS SharedMemory, TLAPS

LayoutOK(l) ==
    /\ l.width \in {1, 2, 4, 8} /\ l.reg_swap \in {0, 2, 4}
    /\ l.reg_swap = 2 => l.width \in {4, 8}
    /\ l.reg_swap = 4 => l.width = 8

DeclOK(v) == v.users \subseteq Proc /\ v.type \in Types /\ v.cell \in Nat /\ v.index \in Nat

MemoryOK(s) ==
    /\ s \in [cell_size : CellSizes, size : 0..SizeMax + 1, bytes : {s.bytes}]
    /\ s.bytes \in [0..s.size - 1 -> Byte]

Bytes(n) == [0..n - 1 -> Byte]

(* What a process is in the middle of, on memory s and declarations d; one *)
(* that is gone keeps the reason.                                          *)
AccessOK(a, s, d) ==
    \/ a = Idle
    \/ /\ a.step = "gone" /\ a.var \in DOMAIN d
       /\ Accepted(s, d[a.var]) /\ Leaves(s, d[a.var])
    \/ /\ a.step = "write back"
       /\ a.var \in DOMAIN d /\ IsBit(d[a.var]) /\ Accepted(s, d[a.var])
       /\ a.cell \in Bytes(s.cell_size)
       /\ a.word \in Datum

(* The inductive invariant.                                                *)
IInv ==
    /\ MemoryOK(shm)
    /\ \A x \in Var : DeclOK(decl[x])
    /\ \A p \in Proc : AccessOK(access[p], shm, decl)
    /\ access = [p \in Proc |-> access[p]]

(* Where a cell starts.                                                    *)
LEMMA CellStart ==
    ASSUME NEW c \in Nat, NEW s, MemoryOK(s)
    PROVE  c * s.cell_size \in Nat /\ s.cell_size \in Nat \ {0}
<1>1. s.cell_size \in {1, 2, 4, 8}
  BY DEF MemoryOK, CellSizes
<1>2. \A w \in {1, 2, 4, 8} : c * w \in Nat /\ w \in Nat \ {0}
  OBVIOUS
<1> QED
  BY <1>1, <1>2

-----------------------------------------------------------------------------
(* Every whole type has one of the layouts load and store know.            *)
LEMMA WholeLayouts ==
    \A t \in Types : t \notin BitTypes => LayoutOK(WholeTypes[t])
<1>1. \A t \in Types : t \notin BitTypes =>
          t \in {"byte", "le16", "be16", "le32", "be32", "le32r", "be32r",
                "le64", "be64", "le64r", "be64r", "le64r4", "be64r4"}
  BY DEF Types, WholeTypes
<1>2. /\ LayoutOK(WholeTypes["byte"])
      /\ LayoutOK(WholeTypes["le16"]) /\ LayoutOK(WholeTypes["be16"])
      /\ LayoutOK(WholeTypes["le32"]) /\ LayoutOK(WholeTypes["be32"])
      /\ LayoutOK(WholeTypes["le32r"]) /\ LayoutOK(WholeTypes["be32r"])
      /\ LayoutOK(WholeTypes["le64"]) /\ LayoutOK(WholeTypes["be64"])
      /\ LayoutOK(WholeTypes["le64r"]) /\ LayoutOK(WholeTypes["be64r"])
      /\ LayoutOK(WholeTypes["le64r4"]) /\ LayoutOK(WholeTypes["be64r4"])
  <2>1. \A little :
           /\ LayoutOK(Layout(1, little, 0)) /\ LayoutOK(Layout(2, little, 0))
           /\ LayoutOK(Layout(4, little, 0)) /\ LayoutOK(Layout(4, little, 2))
           /\ LayoutOK(Layout(8, little, 0)) /\ LayoutOK(Layout(8, little, 2))
           /\ LayoutOK(Layout(8, little, 4))
    BY DEF Layout, LayoutOK
  <2>2. /\ WholeTypes["byte"] = Layout(1, TRUE, 0)
        /\ WholeTypes["le16"] = Layout(2, TRUE, 0) /\ WholeTypes["be16"] = Layout(2, FALSE, 0)
        /\ WholeTypes["le32"] = Layout(4, TRUE, 0) /\ WholeTypes["be32"] = Layout(4, FALSE, 0)
        /\ WholeTypes["le32r"] = Layout(4, TRUE, 2) /\ WholeTypes["be32r"] = Layout(4, FALSE, 2)
        /\ WholeTypes["le64"] = Layout(8, TRUE, 0) /\ WholeTypes["be64"] = Layout(8, FALSE, 0)
        /\ WholeTypes["le64r"] = Layout(8, TRUE, 2) /\ WholeTypes["be64r"] = Layout(8, FALSE, 2)
        /\ WholeTypes["le64r4"] = Layout(8, TRUE, 4) /\ WholeTypes["be64r4"] = Layout(8, FALSE, 4)
    BY DEF WholeTypes
  <2> QED
    BY <2>1, <2>2
<1> QED
  BY <1>1, <1>2

(* A change of byte order or of register order yields as many bytes.       *)
LEMMA StoredBytesType ==
    ASSUME NEW l, LayoutOK(l), NEW d \in Datum
    PROVE  StoredBytes(d, l) \in Bytes(l.width)
<1> DEFINE low == [k \in 0..l.width - 1 |-> d[k]]
<1> DEFINE o == Ordered(low, l.width, l.little)
<1>1. low \in Bytes(l.width)
  BY DEF LayoutOK, Datum, Bytes, WordBytes
<1>2. o \in Bytes(l.width)
  BY <1>1 DEF Ordered, swap, Bytes, LayoutOK
<1>3. StoreRegisters(o, l) \in Bytes(l.width)
  <2> HIDE DEF o
  <2>1. CASE l.reg_swap = 0
    BY <1>2, <2>1 DEF StoreRegisters, LoadRegisters
  <2>2. CASE l.reg_swap = 2 /\ l.width = 4
    <3>1. StoreRegisters(o, l) = SwapHalves(o)
      BY <2>2 DEF StoreRegisters, LoadRegisters
    <3> QED
      BY <1>2, <2>2, <3>1 DEF SwapHalves, Bytes
  <2>3. CASE l.reg_swap = 2 /\ l.width = 8
    <3>1. StoreRegisters(o, l) = Reverse16(o)
      BY <2>3 DEF StoreRegisters, LoadRegisters
    <3>2. \A k \in 0..7 : 2 * (3 - (k \div 2)) + (k % 2) \in 0..7
      OBVIOUS
    <3> QED
      BY <1>2, <2>3, <3>1, <3>2 DEF Reverse16, Bytes
  <2>4. CASE l.reg_swap = 4 /\ l.width = 8
    <3>1. StoreRegisters(o, l) = Swap32Store(o)
      BY <2>4 DEF StoreRegisters
    <3> QED
      BY <1>2, <2>4, <3>1 DEF Swap32Store, Bytes
  <2> QED
    BY <2>1, <2>2, <2>3, <2>4 DEF LayoutOK
<1> QED
  BY <1>3 DEF StoredBytes

(* A write keeps the size of a memory, of its cells and of its bytes.      *)
LEMMA WrittenType ==
    ASSUME NEW s, MemoryOK(s), NEW base \in 0..SizeMax, NEW n \in Nat, NEW d \in Bytes(n)
    PROVE  /\ MemoryOK(Written(s, base, d, n))
           /\ Written(s, base, d, n).cell_size = s.cell_size
           /\ Written(s, base, d, n).size = s.size
<1> DEFINE w == Written(s, base, d, n)
<1> DEFINE b == [a \in 0..s.size - 1 |->
                    IF Offset(base, a) < n THEN d[Offset(base, a)] ELSE s.bytes[a]]
<1>1. w = [cell_size |-> s.cell_size, size |-> s.size, bytes |-> b]
  BY DEF Written, MemoryOK
<1>2. b \in [0..s.size - 1 -> Byte]
  <2> SUFFICES ASSUME NEW a \in 0..s.size - 1, Offset(base, a) < n
               PROVE  d[Offset(base, a)] \in Byte
    BY DEF MemoryOK
  <2>1. Offset(base, a) \in 0..n - 1
    <3>1. SizeMax \in Nat /\ s.size \in 0..SizeMax + 1
      BY ByteAssumption DEF MemoryOK
    <3> QED
      BY <3>1 DEF Offset
  <2> QED
    BY <2>1 DEF Bytes
<1> HIDE DEF b
<1> QED
  BY <1>1, <1>2 DEF MemoryOK

(* What store_bit writes back is a cell.                                   *)
LEMMA BitStoredType ==
    ASSUME NEW n \in CellSizes, NEW c \in Bytes(n), NEW index \in Nat,
           NEW little \in BOOLEAN, NEW set \in BOOLEAN
    PROVE  BitStored(c, n, index, little, set) \subseteq Bytes(n)
<1> SUFFICES ASSUME NEW r
             PROVE  Ordered(PutBits(Ordered(c, n, little), n, r, set), n, little) \in Bytes(n)
  BY DEF BitStored
<1>1. n \in Nat /\ n > 0
  BY DEF CellSizes
<1>2. \A d \in Bytes(n) : Ordered(d, n, little) \in Bytes(n)
  BY <1>1 DEF Ordered, swap, Bytes
<1>3. \A d \in Bytes(n) : PutBits(d, n, r, set) \in Bytes(n)
  <2> SUFFICES ASSUME NEW d \in Bytes(n), NEW k \in 0..n - 1
               PROVE  (IF set THEN d[k] \cup InByte(r, k) ELSE d[k] \ InByte(r, k)) \in Byte
    BY DEF PutBits, Bytes
  <2>1. d[k] \in Byte
    BY DEF Bytes
  <2> QED
    BY <2>1 DEF Byte, InByte
<1> QED
  BY <1>2, <1>3

(* Whether an access is accepted and whether it leaves the memory depend   *)
(* on the sizes only.                                                      *)
LEMMA SameSizes ==
    ASSUME NEW s, NEW t, s.cell_size = t.cell_size, s.size = t.size, NEW v
    PROVE  Accepted(s, v) = Accepted(t, v) /\ Leaves(s, v) = Leaves(t, v)
BY DEF Accepted, Leaves, BitInRange, WholeInRange, LastAddress, Addresses, Base

-----------------------------------------------------------------------------
(* The checks of load and store, type by type.                             *)

(* The cell number and cell size keep an accepted bit inside.              *)
LEMMA BitStaysInside ==
    ASSUME NEW s, MemoryOK(s), NEW v, DeclOK(v), IsBit(v), Accepted(s, v)
    PROVE  ~Leaves(s, v)
<1>1. v.cell < s.size \div s.cell_size /\ v.cell \in Nat
  BY DEF Accepted, BitInRange, DeclOK
<1>2. v.cell * s.cell_size + s.cell_size - 1 < s.size /\ v.cell * s.cell_size \in Nat
  <2> s.size \in Nat
    BY ByteAssumption DEF MemoryOK
  <2>1. CASE s.cell_size = 1
    BY <1>1, <2>1
  <2>2. CASE s.cell_size = 2
    BY <1>1, <2>2
  <2>3. CASE s.cell_size = 4
    BY <1>1, <2>3
  <2>4. CASE s.cell_size = 8
    BY <1>1, <2>4
  <2> QED
    BY <2>1, <2>2, <2>3, <2>4 DEF MemoryOK, CellSizes
<1>3. s.cell_size \in Nat /\ s.size \in Nat
  BY ByteAssumption DEF MemoryOK, CellSizes
<1> DEFINE b == v.cell * s.cell_size
<1>4. Addresses(s, v) = b..b + s.cell_size - 1
  BY DEF Addresses
<1> HIDE DEF b
<1> QED
  BY <1>2, <1>3, <1>4 DEF Leaves, b

(* A whole value whose address does not wrap stays inside.                 *)
LEMMA WholeStaysInside ==
    ASSUME NEW s, MemoryOK(s), NEW v, DeclOK(v), ~IsBit(v), Accepted(s, v),
           v.cell * s.cell_size + Layout_(v).width - 1 <= SizeMax
    PROVE  ~Leaves(s, v)
<1> DEFINE b == v.cell * s.cell_size
<1> DEFINE w == Layout_(v).width
<1>1. w \in {1, 2, 4, 8}
  BY WholeLayouts DEF DeclOK, IsBit, Layout_, LayoutOK
<1>2. b \in Nat
  BY DEF DeclOK, MemoryOK, CellSizes
<1>3. b + w - 1 <= SizeMax
  OBVIOUS
<1>4. LastAddress(s, v.cell, w) = (b + w - 1) % (SizeMax + 1) /\ Base(s, v.cell) = b % (SizeMax + 1)
  BY DEF LastAddress, Base
<1>5. LastAddress(s, v.cell, w) < s.size
  BY DEF Accepted, WholeInRange
<1>6. Addresses(s, v) = {Address(Base(s, v.cell), k) : k \in 0..w - 1}
  BY DEF Addresses
<1> HIDE DEF b, w
<1> SizeMax \in Nat /\ s.size \in Nat
  BY ByteAssumption DEF MemoryOK
<1>7. Base(s, v.cell) = b /\ b + w - 1 < s.size
  BY <1>1, <1>2, <1>3, <1>4, <1>5
<1>8. \A k \in 0..w - 1 : Address(b, k) \in 0..s.size - 1
  BY <1>1, <1>2, <1>3, <1>7 DEF Address
<1> QED
  BY <1>6, <1>7, <1>8 DEF Leaves

-----------------------------------------------------------------------------
(* The invariant and what it implies.                                      *)

LEMMA IInvInit == Init => IInv
<1> SUFFICES ASSUME Init
             PROVE  IInv
  OBVIOUS
<1>1. PICK c \in Configs :
         decl = c.var /\ shm \in [cell_size : {c.cell_size}, size : {c.size}, bytes : c.contents]
  BY DEF Init
<1>2. MemoryOK(shm)
  BY <1>1, ConfigsAssumption, ByteAssumption DEF MemoryOK
<1>3. \A x \in Var : DeclOK(decl[x])
  BY <1>1, ConfigsAssumption DEF Var, DeclOK
<1>4. access = [p \in Proc |-> Idle]
  BY DEF Init
<1> QED
  BY <1>2, <1>3, <1>4 DEF IInv, AccessOK

(* Steps that leave memory and accesses alone.                             *)
LEMMA IInvFrame ==
    ASSUME IInv, UNCHANGED memoryVars
    PROVE  IInv'
BY DEF IInv, memoryVars, Var

(* Steps that change the memory but not its sizes, and what one process is *)
(* in the middle of.                                                       *)
LEMMA IInvStep ==
    ASSUME IInv, NEW p \in Proc, NEW a, access' = [access EXCEPT ![p] = a],
           UNCHANGED decl,
           MemoryOK(shm'), shm'.cell_size = shm.cell_size, shm'.size = shm.size,
           AccessOK(a, shm', decl)
    PROVE  IInv'
<1>1. \A q \in Proc : AccessOK(access'[q], shm', decl')
  <2> SUFFICES ASSUME NEW q \in Proc \ {p}
               PROVE  AccessOK(access[q], shm', decl)
    BY DEF IInv
  <2>1. AccessOK(access[q], shm, decl)
    BY DEF IInv
  <2>2. \A v : Accepted(shm, v) = Accepted(shm', v) /\ Leaves(shm, v) = Leaves(shm', v)
    BY SameSizes
  <2> QED
    BY <2>1, <2>2 DEF AccessOK
<1> QED
  BY <1>1 DEF IInv, Var

(* What a whole store makes of the memory.                                 *)
LEMMA StoreWholeType ==
    ASSUME NEW s, MemoryOK(s), NEW v, DeclOK(v), ~IsBit(v), NEW d \in Datum,
           NEW t \in store_whole(s, v.cell, Layout_(v), d)
    PROVE  MemoryOK(t) /\ t.cell_size = s.cell_size /\ t.size = s.size
<1> DEFINE l == Layout_(v)
<1>1. LayoutOK(l)
  BY WholeLayouts DEF DeclOK, IsBit, Layout_
<1>2. t = Written(s, Base(s, v.cell), StoredBytes(d, l), l.width)
  BY DEF store_whole
<1>3. Base(s, v.cell) \in 0..SizeMax
  <2> v.cell * s.cell_size \in Nat /\ SizeMax \in Nat
    BY ByteAssumption DEF DeclOK, MemoryOK, CellSizes
  <2> QED
    BY DEF Base
<1>4. StoredBytes(d, l) \in Bytes(l.width) /\ l.width \in Nat
  BY <1>1, StoredBytesType DEF LayoutOK
<1> QED
  BY <1>2, <1>3, <1>4, WrittenType

LEMMA IInvNext == IInv /\ [Next]_vars => IInv'
<1> SUFFICES ASSUME IInv, [Next]_vars
             PROVE  IInv'
  OBVIOUS
<1> MemoryOK(shm)
  BY DEF IInv
<1>1. ASSUME NEW p \in Proc, NEW x \in Var, Throws(p, x)
      PROVE  IInv'
  BY <1>1, IInvFrame DEF Throws
<1>2. ASSUME NEW p \in Proc, NEW x \in Var, Loads(p, x)
      PROVE  IInv'
  BY <1>2, IInvFrame DEF Loads
<1>3. ASSUME NEW p \in Proc, NEW x \in Var, StoresWhole(p, x)
      PROVE  IInv'
  <2>1. PICK d \in Data(decl[x].type) : shm' \in store_whole(shm, decl[x].cell, Layout_(decl[x]), d)
    BY <1>3 DEF StoresWhole
  <2>2. DeclOK(decl[x]) /\ d \in Datum
    BY <2>1, DataAssumption DEF IInv, DeclOK
  <2>3. MemoryOK(shm') /\ shm'.cell_size = shm.cell_size /\ shm'.size = shm.size
    BY <1>3, <2>1, <2>2, StoreWholeType DEF StoresWhole
  <2>4. access' = [access EXCEPT ![p] = access[p]] /\ decl' = decl
    BY <1>3 DEF StoresWhole, IInv
  <2>5. access[p] = Idle
    BY <1>3 DEF StoresWhole, Calls
  <2> QED
    BY <2>3, <2>4, <2>5, IInvStep DEF AccessOK
<1>4. ASSUME NEW p \in Proc, NEW x \in Var, ReadsCell(p, x)
      PROVE  IInv'
  <2>1. PICK d \in Data(decl[x].type) :
           access' = [access EXCEPT ![p] =
              [step |-> "write back", var |-> x, word |-> d, cell |-> ReadCell(shm, decl[x].cell)]]
    BY <1>4 DEF ReadsCell
  <2> DEFINE a == [step |-> "write back", var |-> x, word |-> d,
                   cell |-> ReadCell(shm, decl[x].cell)]
  <2>2. /\ DeclOK(decl[x]) /\ d \in Datum /\ IsBit(decl[x])
        /\ Accepted(shm, decl[x]) /\ ~Leaves(shm, decl[x])
    BY <1>4, DataAssumption DEF IInv, DeclOK, ReadsCell
  <2>3. ReadCell(shm, decl[x].cell) \in Bytes(shm.cell_size)
    <3> DEFINE b == decl[x].cell * shm.cell_size
    <3>1. b..b + shm.cell_size - 1 \subseteq 0..shm.size - 1
      BY <2>2 DEF Leaves, Addresses
    <3>2. b \in Nat /\ shm.cell_size \in Nat /\ shm.size \in 0..SizeMax + 1 /\ SizeMax \in Nat
      <4>1. b \in Nat /\ shm.cell_size \in Nat
        BY <2>2, CellStart DEF DeclOK
      <4>2. shm.size \in 0..SizeMax + 1 /\ SizeMax \in Nat
        BY ByteAssumption DEF MemoryOK
      <4> QED
        BY <4>1, <4>2
    <3>3. ReadCell(shm, decl[x].cell) = [k \in 0..shm.cell_size - 1 |-> shm.bytes[Address(b, k)]]
      BY DEF ReadCell, BytesAt
    <3>4. shm.bytes \in [0..shm.size - 1 -> Byte]
      BY DEF MemoryOK
    <3> HIDE DEF b
    <3>5. \A k \in 0..shm.cell_size - 1 : Address(b, k) \in 0..shm.size - 1
      BY <3>1, <3>2 DEF Address
    <3> QED
      BY <3>3, <3>4, <3>5 DEF Bytes
  <2>4. AccessOK(a, shm, decl)
    BY <2>2, <2>3 DEF AccessOK, Var
  <2>5. decl' = decl /\ shm' = shm
    BY <1>4 DEF ReadsCell
  <2> HIDE DEF a
  <2> QED
    BY <2>1, <2>4, <2>5, IInvStep DEF a
<1>5. ASSUME NEW p \in Proc, NEW x \in Var, LeavesMemory(p, x)
      PROVE  IInv'
  <2>1. DeclOK(decl[x])
    BY DEF IInv
  <2>2. MemoryOK(shm') /\ shm'.cell_size = shm.cell_size /\ shm'.size = shm.size
    <3>1. CASE UNCHANGED shm
      BY <3>1
    <3>2. CASE ~IsBit(decl[x]) /\ \E d \in Data(decl[x].type) :
                 shm' \in store_whole(shm, decl[x].cell, Layout_(decl[x]), d)
      BY <2>1, <3>2, StoreWholeType, DataAssumption DEF DeclOK
    <3> QED
      BY <1>5, <3>1, <3>2 DEF LeavesMemory
  <2>3. Accepted(shm', decl[x]) /\ Leaves(shm', decl[x])
    BY <1>5, <2>2, SameSizes DEF LeavesMemory
  <2> DEFINE a == [step |-> "gone", var |-> x]
  <2>4. AccessOK(a, shm', decl)
    BY <2>3 DEF AccessOK, Var
  <2>5. access' = [access EXCEPT ![p] = a] /\ decl' = decl
    BY <1>5 DEF LeavesMemory
  <2> HIDE DEF a
  <2> QED
    BY <2>2, <2>4, <2>5, IInvStep
<1>6. ASSUME NEW p \in Proc, WritesBack(p)
      PROVE  IInv'
  <2> DEFINE v == decl[access[p].var]
  <2>1. /\ access[p].var \in Var /\ IsBit(v) /\ access[p].cell \in Bytes(shm.cell_size)
        /\ access[p].step = "write back" /\ Accepted(shm, v)
    <3>1. AccessOK(access[p], shm, decl)
      BY DEF IInv
    <3>2. access[p].step = "write back"
      BY <1>6 DEF WritesBack
    <3>3. access[p] # Idle
      <4>1. Idle.step = "idle"
        BY DEF Idle
      <4> QED
        BY <3>2, <4>1
    <3>4. access[p].step # "gone"
      BY <3>2
    <3> QED
      BY <3>1, <3>2, <3>3, <3>4 DEF AccessOK, Var
  <2>2. DeclOK(v)
    BY <2>1 DEF IInv
  <2>3. PICK c \in BitStored(access[p].cell, shm.cell_size, v.index, v.type = "le1",
                             access[p].word # Zero) :
           shm' = WriteCell(shm, v.cell, c)
    BY <1>6 DEF WritesBack
  <2>4. c \in Bytes(shm.cell_size)
    BY <2>1, <2>2, <2>3, BitStoredType DEF DeclOK, MemoryOK
  <2>5. shm' = Written(shm, v.cell * shm.cell_size, c, shm.cell_size)
    BY <2>3 DEF WriteCell
  <2>6. v.cell * shm.cell_size \in 0..SizeMax /\ shm.cell_size \in Nat
    <3> DEFINE b == v.cell * shm.cell_size
    <3>1. b..b + shm.cell_size - 1 \subseteq 0..shm.size - 1
      BY <2>1, <2>2, BitStaysInside DEF Leaves, Addresses
    <3>2. b \in Nat /\ shm.cell_size \in Nat \ {0} /\ shm.size \in 0..SizeMax + 1 /\ SizeMax \in Nat
      <4>1. b \in Nat /\ shm.cell_size \in Nat \ {0}
        BY <2>2, CellStart DEF DeclOK
      <4>2. shm.size \in 0..SizeMax + 1 /\ SizeMax \in Nat
        BY <2>2, ByteAssumption DEF MemoryOK
      <4> QED
        BY <4>1, <4>2
    <3> HIDE DEF b
    <3>3. b \in 0..shm.size - 1
      BY <3>1, <3>2
    <3> QED
      BY <3>2, <3>3 DEF b
  <2>7. MemoryOK(shm') /\ shm'.cell_size = shm.cell_size /\ shm'.size = shm.size
    BY <2>4, <2>5, <2>6, WrittenType
  <2>8. access' = [access EXCEPT ![p] = Idle] /\ decl' = decl
    BY <1>6 DEF WritesBack
  <2> QED
    BY <2>7, <2>8, IInvStep DEF AccessOK
<1> QED
  BY <1>1, <1>2, <1>3, <1>4, <1>5, <1>6, IInvFrame DEF Next, vars

(* Memory, sizes and what each process is in the middle of keep their      *)
(* types, whatever is declared and however the processes interleave.       *)
THEOREM SharedTypeCorrect == Spec => []SharedTypeOK
<1>1. IInv => SharedTypeOK
  BY DEF IInv, SharedTypeOK, AccessOK, MemoryOK, Bytes, Var
<1> QED
  BY <1>1, IInvInit, IInvNext, PTL DEF Spec

(* No access of any type leaves the memory unless cell * cell_size and     *)
(* what is added to it exceed a std::size_t.                               *)
THEOREM WrappedOnlyLeavesTheorem == Spec => []WrappedOnlyLeaves
<1>1. IInv => WrappedOnlyLeaves
  <2> SUFFICES ASSUME IInv, NEW p \in Proc, access[p].step = "gone"
               PROVE  LET v == decl[access[p].var]
                      IN  ~IsBit(v) /\ v.cell * shm.cell_size + Layout_(v).width - 1 > SizeMax
    BY DEF WrappedOnlyLeaves
  <2> DEFINE v == decl[access[p].var]
  <2>1. access[p].var \in Var /\ Accepted(shm, v) /\ Leaves(shm, v)
    <3>1. AccessOK(access[p], shm, decl)
      BY DEF IInv
    <3>2. access[p] # Idle /\ access[p].step # "write back"
      BY DEF Idle
    <3> QED
      BY <3>1, <3>2 DEF AccessOK, Var
  <2>2. DeclOK(v) /\ MemoryOK(shm)
    BY <2>1 DEF IInv
  <2>3. ~IsBit(v)
    BY <2>1, <2>2, BitStaysInside
  <2>4. ~(v.cell * shm.cell_size + Layout_(v).width - 1 <= SizeMax)
    BY <2>1, <2>2, <2>3, WholeStaysInside
  <2>5. Layout_(v).width \in Nat
    BY <2>2, <2>3, WholeLayouts DEF DeclOK, IsBit, Layout_, LayoutOK
  <2>6. v.cell * shm.cell_size \in Nat /\ SizeMax \in Nat
    BY <2>2, ByteAssumption, CellStart DEF DeclOK
  <2> QED
    BY <2>3, <2>4, <2>5, <2>6
<1> QED
  BY <1>1, IInvInit, IInvNext, PTL DEF Spec

-----------------------------------------------------------------------------
(* Positions in a value: byte k, bit b of it.                              *)

LEMMA DivMod ==
    ASSUME NEW n \in Nat, NEW B \in Nat \ {0}
    PROVE  /\ n = (n \div B) * B + (n % B)
           /\ n % B \in 0..B - 1 /\ n \div B \in Nat
OBVIOUS

Position(k, b) == k * ByteBits + b

LEMMA PositionOfBit ==
    \A k \in 0..7, b \in 0..ByteBits - 1 :
        Position(k, b) \div ByteBits = k /\ Position(k, b) % ByteBits = b
<1>1. \A B \in Nat \ {0}, k \in 0..7 : \A b \in 0..B - 1 :
         (k * B + b) \div B = k /\ (k * B + b) % B = b
  OBVIOUS
<1> QED
  BY <1>1, ByteAssumption, Zenon DEF Position

LEMMA ByteOfPosition ==
    ASSUME NEW B \in Nat \ {0}, NEW m \in {1, 2, 4, 8}, NEW n \in Nat, n < m * B
    PROVE  n \div B \in 0..m - 1
OBVIOUS

LEMMA PositionInside ==
    ASSUME NEW B \in Nat \ {0}, NEW m \in {1, 2, 4, 8}, NEW k \in 0..m - 1, NEW b \in 0..B - 1
    PROVE  k * B + b \in 0..m * B - 1
OBVIOUS

(* The bytes of a value lie at different addresses, and Offset finds which *)
(* byte an address holds.                                                  *)
LEMMA OffsetOfAddress ==
    ASSUME NEW base \in 0..SizeMax, NEW k \in 0..7
    PROVE  Address(base, k) \in 0..SizeMax /\ Offset(base, Address(base, k)) = k
BY ByteAssumption DEF Address, Offset

LEMMA AddressOfOffset ==
    ASSUME NEW base \in 0..SizeMax, NEW a \in 0..SizeMax
    PROVE  Offset(base, a) \in 0..SizeMax /\ Address(base, Offset(base, a)) = a
BY ByteAssumption DEF Address, Offset

(* Where a variable lies depends on the sizes of a memory only.            *)
LEMMA SameLayout ==
    ASSUME NEW s, NEW t, s.cell_size = t.cell_size, s.size = t.size, NEW v
    PROVE  /\ Addresses(s, v) = Addresses(t, v)
           /\ Footprint(s, v) = Footprint(t, v)
           /\ ReadsBack(s, v) = ReadsBack(t, v)
<1>1. Addresses(s, v) = Addresses(t, v)
  BY DEF Addresses, Base
<1> QED
  BY <1>1 DEF Footprint, ReadsBack

-----------------------------------------------------------------------------
(* Variables that are read back.                                           *)

Reliable(s, v) == Accepted(s, v) /\ ~Leaves(s, v) /\ ReadsBack(s, v)

(* Two memories agree on the bits of a variable.                           *)
AgreeOn(s, t, v) ==
    \A a \in 0..s.size - 1, b \in 0..ByteBits - 1 :
        <<a, b>> \in Footprint(s, v) => (b \in s.bytes[a] <=> b \in t.bytes[a])

(* The address of byte i of the cell of a bit, in its byte order.          *)
InCell(s, v, i) == IF v.type = "le1" THEN i ELSE s.cell_size - 1 - i
BitAddress(s, v) == v.cell * s.cell_size + InCell(s, v, v.index \div ByteBits)

LEMMA BitPlace ==
    ASSUME NEW s, MemoryOK(s), NEW v, DeclOK(v), IsBit(v), Reliable(s, v)
    PROVE  /\ v.index \div ByteBits \in 0..s.cell_size - 1
           /\ v.index % ByteBits \in 0..ByteBits - 1
           /\ v.index \in 0..s.cell_size * ByteBits - 1
           /\ v.index = (v.index \div ByteBits) * ByteBits + (v.index % ByteBits)
           /\ InCell(s, v, v.index \div ByteBits) \in 0..s.cell_size - 1
           /\ BitAddress(s, v) \in Addresses(s, v)
           /\ BitAddress(s, v) \in 0..s.size - 1
           /\ v.index \in IntMask(v.index) /\ StoreReach(v.index) = {IntMask(v.index)}
           /\ <<BitAddress(s, v), v.index % ByteBits>> \in Footprint(s, v)
<1> DEFINE i == v.index \div ByteBits
<1> DEFINE base == v.cell * s.cell_size
<1>1. /\ v.index \in Nat /\ v.cell \in Nat /\ s.cell_size \in {1, 2, 4, 8}
      /\ v.index < s.cell_size * ByteBits /\ v.index < IntBits /\ ByteBits \in Nat \ {0}
  BY ByteAssumption DEF DeclOK, MemoryOK, CellSizes, Reliable, ReadsBack
<1>2. i \in 0..s.cell_size - 1
  BY <1>1, ByteOfPosition
<1>3. v.index % ByteBits \in 0..ByteBits - 1 /\ v.index = i * ByteBits + (v.index % ByteBits)
  BY <1>1, DivMod
<1>4. v.index \in 0..s.cell_size * ByteBits - 1
  <2> \A w \in {1, 2, 4, 8} : w * ByteBits \in Nat
    BY <1>1
  <2> QED
    BY <1>1
<1>5. base \in Nat /\ s.cell_size \in Nat \ {0}
  BY <1>1, CellStart
<1> HIDE DEF i, base
<1>6. InCell(s, v, i) \in 0..s.cell_size - 1
  BY <1>2, <1>5 DEF InCell
<1>7. Addresses(s, v) = base..base + s.cell_size - 1
  BY DEF Addresses, base
<1>8. BitAddress(s, v) \in Addresses(s, v)
  BY <1>5, <1>6, <1>7 DEF BitAddress, i, base
<1>9. BitAddress(s, v) \in 0..s.size - 1
  BY <1>8 DEF Reliable, Leaves
<1>10. v.index \in IntMask(v.index) /\ StoreReach(v.index) = {IntMask(v.index)}
  BY <1>1, ByteAssumption DEF IntMask, StoreReach, IntBits
<1>11. <<BitAddress(s, v), v.index % ByteBits>> \in Footprint(s, v)
  <2>1. v.index \in (UNION StoreReach(v.index)) \cap 0..s.cell_size * ByteBits - 1
    BY <1>4, <1>10
  <2> QED
    BY <2>1 DEF Footprint, BitAddress, InCell
<1> QED
  BY <1>2, <1>3, <1>4, <1>6, <1>8, <1>9, <1>10, <1>11 DEF i

(* A bit loads as what is at its place.                                    *)
LEMMA LoadBit ==
    ASSUME NEW s, MemoryOK(s), NEW v, DeclOK(v), IsBit(v), Reliable(s, v)
    PROVE  Load(s, v) = {IF v.index % ByteBits \in s.bytes[BitAddress(s, v)] THEN One ELSE Zero}
<1> DEFINE n == s.cell_size
<1> DEFINE i == v.index \div ByteBits
<1> DEFINE j == InCell(s, v, i)
<1> DEFINE little == v.type = "le1"
<1> DEFINE data == BitData(s, v.cell)
<1> DEFINE base == v.cell * n
<1> DEFINE ones == Ones(Ordered(data, n, little), n)
<1>1. i \in 0..n - 1 /\ j \in 0..n - 1 /\ v.index \in 0..n * ByteBits - 1 /\ n \in {1, 2, 4, 8}
  BY BitPlace DEF MemoryOK, CellSizes
<1>2. base \in Nat /\ s.size \in Nat /\ s.size <= SizeMax + 1 /\ SizeMax \in Nat
  <2>1. base \in Nat
    BY CellStart DEF DeclOK
  <2> HIDE DEF base
  <2> QED
    BY <2>1, ByteAssumption DEF MemoryOK
<1>3. base + j \in 0..s.size - 1
  <2>1. BitAddress(s, v) \in 0..s.size - 1
    BY BitPlace
  <2> QED
    BY <2>1 DEF BitAddress
<1>4. data[j] = s.bytes[base + j]
  <2>1. CASE n = 2
    <3>1. j = 0
      <4>1. v.index < ByteBits <=> little
        BY <2>1 DEF Reliable, ReadsBack
      <4>2. v.index < ByteBits <=> i = 0
        <5>1. v.index = i * ByteBits + (v.index % ByteBits) /\ v.index % ByteBits \in 0..ByteBits - 1
          BY BitPlace
        <5> HIDE DEF i
        <5>2. i \in {0, 1}
          BY <1>1, <2>1
        <5> QED
          BY <5>1, <5>2, ByteAssumption
      <4> QED
        BY <1>1, <2>1, <4>1, <4>2 DEF InCell
    <3>2. data[0] = s.bytes[2 * v.cell]
      BY <2>1 DEF BitData
    <3>3. 2 * v.cell = base + 0
      BY <2>1 DEF DeclOK
    <3> QED
      BY <3>1, <3>2, <3>3
  <2>2. CASE n # 2
    <3>1. data = [k \in 0..n - 1 |-> s.bytes[Address(base, k)]]
      BY <2>2 DEF BitData, BytesAt
    <3> HIDE DEF base, j, n, data
    <3>2. Address(base, j) = base + j
      BY <1>1, <1>2, <1>3 DEF Address
    <3> QED
      BY <1>1, <3>1, <3>2
  <2> QED
    BY <2>1, <2>2
<1>5. Ordered(data, n, little)[i] = data[j]
  BY <1>1 DEF Ordered, swap, InCell
<1>6. v.index \in ones <=> v.index % ByteBits \in s.bytes[base + j]
  BY <1>1, <1>4, <1>5 DEF Ones
<1>7. LoadReach(n, v.index) = {{v.index}}
  BY <1>1, ByteAssumption DEF LoadReach, Reliable, ReadsBack, IntBits
<1>8. load_bit(s, v.cell, v.index, little) = {IF v.index \in ones THEN 1 ELSE 0}
  <2>1. BitInRange(s, v.cell, v.index)
    BY DEF Reliable, Accepted
  <2>2. load_bit(s, v.cell, v.index, little) =
            {IF r \cap ones # {} THEN 1 ELSE 0 : r \in {{v.index}}}
    BY <1>7, <2>1 DEF load_bit
  <2>3. {v.index} \cap ones # {} <=> v.index \in ones
    OBVIOUS
  <2> HIDE DEF ones, little
  <2> QED
    BY <2>2, <2>3
<1> HIDE DEF ones, little, base, j
<1>9. Load(s, v) = {IF b = 1 THEN One ELSE Zero : b \in {IF v.index \in ones THEN 1 ELSE 0}}
  BY <1>8 DEF Load, little
<1>10. Load(s, v) = {IF v.index \in ones THEN One ELSE Zero}
  BY <1>9
<1> QED
  BY <1>6, <1>10 DEF BitAddress, j, i, base, n

(* A whole value other than a 64 bit one loads as the bytes at its         *)
(* addresses, in the order of its type.                                    *)
FromBytes(d, l) == ZeroExtended(LoadRegisters(Ordered(d, l.width, l.little), l), l.width)

LEMMA LoadWhole ==
    ASSUME NEW s, MemoryOK(s), NEW v, DeclOK(v), ~IsBit(v), Reliable(s, v)
    PROVE  Load(s, v) = {FromBytes(BytesAt(s, Base(s, v.cell), Layout_(v).width), Layout_(v))}
<1> DEFINE l == Layout_(v)
<1> DEFINE raw == BytesAt(s, Base(s, v.cell), l.width)
<1>1. l.width \in {1, 2, 4}
  BY WholeLayouts DEF DeclOK, IsBit, Layout_, LayoutOK, Reliable, ReadsBack
<1>2. ReadWidth(l.width) = l.width
  BY <1>1 DEF ReadWidth
<1>3. raw = [k \in 0..l.width - 1 |-> raw[k]]
  BY DEF BytesAt
<1>4. [k \in 0..l.width - 1 |-> IF k < l.width THEN raw[k] ELSE {}] = [k \in 0..l.width - 1 |-> raw[k]]
  BY <1>1
<1>5. WholeInRange(s, v.cell, l.width)
  BY DEF Reliable, Accepted
<1> HIDE DEF raw
<1>6. load_whole(s, v.cell, l) = {FromBytes(raw, l)}
  BY <1>2, <1>3, <1>4, <1>5 DEF load_whole, FromBytes, raw
<1> QED
  BY <1>6 DEF Load, raw

(* A reliable load depends on the bits of the variable and on no other.    *)
LEMMA WholeFootprint ==
    ASSUME NEW s, MemoryOK(s), NEW v, DeclOK(v), ~IsBit(v), Accepted(s, v), ~Leaves(s, v)
    PROVE  \A k \in 0..Layout_(v).width - 1 :
              /\ Address(Base(s, v.cell), k) \in 0..s.size - 1
              /\ \A b \in 0..ByteBits - 1 : <<Address(Base(s, v.cell), k), b>> \in Footprint(s, v)
<1> SUFFICES ASSUME NEW k \in 0..Layout_(v).width - 1
             PROVE  /\ Address(Base(s, v.cell), k) \in 0..s.size - 1
                    /\ \A b \in 0..ByteBits - 1 :
                          <<Address(Base(s, v.cell), k), b>> \in Footprint(s, v)
  OBVIOUS
<1>1. Address(Base(s, v.cell), k) \in Addresses(s, v)
  BY DEF Addresses
<1> QED
  BY <1>1 DEF Leaves, Footprint

LEMMA LoadDepends ==
    ASSUME NEW s, MemoryOK(s), NEW t, MemoryOK(t), s.cell_size = t.cell_size, s.size = t.size,
           NEW v, DeclOK(v), Reliable(s, v), AgreeOn(s, t, v)
    PROVE  Load(t, v) = Load(s, v)
<1>1. Reliable(t, v)
  BY SameLayout, SameSizes DEF Reliable
<1>2. CASE IsBit(v)
  <2>1. BitAddress(s, v) = BitAddress(t, v)
    BY DEF BitAddress, InCell
  <2>2. /\ BitAddress(s, v) \in 0..s.size - 1 /\ v.index % ByteBits \in 0..ByteBits - 1
        /\ <<BitAddress(s, v), v.index % ByteBits>> \in Footprint(s, v)
    BY <1>2, BitPlace
  <2>3. v.index % ByteBits \in s.bytes[BitAddress(s, v)]
            <=> v.index % ByteBits \in t.bytes[BitAddress(t, v)]
    BY <2>1, <2>2 DEF AgreeOn
  <2> QED
    BY <1>1, <1>2, <2>3, LoadBit
<1>3. CASE ~IsBit(v)
  <2> DEFINE w == Layout_(v).width
  <2>1. Base(s, v.cell) = Base(t, v.cell)
    BY DEF Base
  <2> DEFINE base == Base(s, v.cell)
  <2>2. ASSUME NEW k \in 0..w - 1
        PROVE  s.bytes[Address(base, k)] = t.bytes[Address(base, k)]
    <3>1. /\ Address(base, k) \in 0..s.size - 1
          /\ \A b \in 0..ByteBits - 1 : <<Address(base, k), b>> \in Footprint(s, v)
      BY <1>3, WholeFootprint DEF Reliable
    <3>2. s.bytes[Address(base, k)] \in Byte /\ t.bytes[Address(base, k)] \in Byte
      BY <3>1 DEF MemoryOK
    <3>3. \A b \in 0..ByteBits - 1 : b \in s.bytes[Address(base, k)] <=> b \in t.bytes[Address(base, k)]
      BY <3>1 DEF AgreeOn
    <3> HIDE DEF base
    <3> QED
      BY <3>2, <3>3 DEF Byte
  <2>3. BytesAt(s, base, w) = BytesAt(t, base, w)
    <3> HIDE DEF base, w
    <3> QED
      BY <2>2 DEF BytesAt
  <2> QED
    BY <1>1, <1>3, <2>1, <2>3, LoadWhole
<1> QED
  BY <1>2, <1>3

(* A reliable load gives one word.                                         *)
LEMMA FromBytesType ==
    ASSUME NEW l, LayoutOK(l), l.width < 8, NEW d \in Bytes(l.width)
    PROVE  FromBytes(d, l) \in Datum
<1>1. l.width \in {1, 2, 4} /\ (l.reg_swap = 0 \/ (l.reg_swap = 2 /\ l.width = 4))
  BY DEF LayoutOK
<1> DEFINE o == Ordered(d, l.width, l.little)
<1>2. o \in Bytes(l.width)
  BY <1>1 DEF Ordered, swap, Bytes
<1> HIDE DEF o
<1>3. LoadRegisters(o, l) = o \/ (l.width = 4 /\ LoadRegisters(o, l) = SwapHalves(o))
  BY <1>1 DEF LoadRegisters
<1>4. LoadRegisters(o, l) \in Bytes(l.width)
  <2>1. \A e \in Bytes(4) : SwapHalves(e) \in Bytes(4)
    BY DEF SwapHalves, Bytes
  <2> QED
    BY <1>2, <1>3, <2>1
<1>5. \A e \in Bytes(l.width) : ZeroExtended(e, l.width) \in Datum
  BY <1>1 DEF Bytes, ZeroExtended, Datum, Byte, WordBytes
<1> QED
  BY <1>4, <1>5 DEF FromBytes, o

LEMMA LoadOneWord ==
    ASSUME NEW s, MemoryOK(s), NEW v, DeclOK(v), Reliable(s, v)
    PROVE  \E d \in Datum : Load(s, v) = {d}
<1>1. CASE IsBit(v)
  <2>1. Zero \in Datum /\ One \in Datum
    BY ByteAssumption DEF Zero, One, Datum, Byte, WordBytes
  <2> QED
    BY <1>1, <2>1, LoadBit
<1>2. CASE ~IsBit(v)
  <2> DEFINE raw == BytesAt(s, Base(s, v.cell), Layout_(v).width)
  <2>1. LayoutOK(Layout_(v)) /\ Layout_(v).width < 8
    BY <1>2, WholeLayouts DEF DeclOK, IsBit, Layout_, Reliable, ReadsBack
  <2>2. \A k \in 0..Layout_(v).width - 1 : Address(Base(s, v.cell), k) \in 0..s.size - 1
    BY <1>2, WholeFootprint DEF Reliable
  <2>3. raw \in Bytes(Layout_(v).width)
    BY <2>2 DEF BytesAt, Bytes, MemoryOK
  <2> QED
    BY <1>2, <2>1, <2>3, LoadWhole, FromBytesType
<1> QED
  BY <1>1, <1>2

-----------------------------------------------------------------------------
(* What a store reads back as.                                             *)

(* The byte order and the register order of a store are undone by a load.  *)
LEMMA OrdersCancel ==
    ASSUME NEW l, LayoutOK(l), l.width < 8, NEW d \in Datum
    PROVE  FromBytes(StoredBytes(d, l), l) = ZeroExtended(d, l.width)
<1> DEFINE n == l.width
<1> DEFINE low == [k \in 0..n - 1 |-> d[k]]
<1>1. n \in {1, 2, 4} /\ (l.reg_swap = 0 \/ (l.reg_swap = 2 /\ n = 4))
  BY DEF LayoutOK
<1>2. low \in Bytes(n) /\ ZeroExtended(low, n) = ZeroExtended(d, n)
  BY <1>1 DEF Datum, Bytes, WordBytes, ZeroExtended
<1> HIDE DEF low
<1>3. StoredBytes(d, l) = StoreRegisters(Ordered(low, n, l.little), l)
  BY DEF StoredBytes, low
<1>4. \A e : StoreRegisters(e, l) = LoadRegisters(e, l)
  BY <1>1 DEF StoreRegisters
<1>5. \A e \in Bytes(n) : swap(swap(e, n), n) = e /\ swap(e, n) \in Bytes(n)
  <2> SUFFICES ASSUME NEW e \in Bytes(n)
               PROVE  swap(swap(e, n), n) = e /\ swap(e, n) \in Bytes(n)
    OBVIOUS
  <2>1. n \in Nat
    BY <1>1
  <2> HIDE DEF n
  <2>2. swap(e, n) \in Bytes(n)
    BY <2>1 DEF swap, Bytes
  <2>3. \A k \in 0..n - 1 : swap(swap(e, n), n)[k] = e[k]
    BY <2>1 DEF swap, Bytes
  <2>4. swap(swap(e, n), n) = [k \in 0..n - 1 |-> swap(swap(e, n), n)[k]]
    BY DEF swap
  <2>5. e = [k \in 0..n - 1 |-> e[k]]
    BY DEF Bytes
  <2> QED
    BY <2>2, <2>3, <2>4, <2>5
<1>6. CASE l.reg_swap = 0
  <2>1. \A e : LoadRegisters(e, l) = e
    BY <1>6 DEF LoadRegisters
  <2> QED
    BY <1>2, <1>3, <1>4, <1>5, <2>1 DEF FromBytes, Ordered
<1>7. CASE l.reg_swap = 2 /\ n = 4
  <2>1. \A e : LoadRegisters(e, l) = SwapHalves(e)
    BY <1>7 DEF LoadRegisters
  <2>2. \A e \in Bytes(4) : SwapHalves(SwapHalves(e)) = e /\ SwapHalves(e) \in Bytes(4)
    BY DEF SwapHalves, Bytes
  <2>3. \A e \in Bytes(4) : SwapHalves(swap(SwapHalves(swap(e, 4)), 4)) = e
    BY DEF SwapHalves, Bytes, swap
  <2> QED
    BY <1>2, <1>3, <1>4, <1>5, <1>7, <2>1, <2>2, <2>3 DEF FromBytes, Ordered
<1> QED
  BY <1>1, <1>6, <1>7

LEMMA WholeReadsBack ==
    ASSUME NEW s, MemoryOK(s), NEW v, DeclOK(v), ~IsBit(v), Reliable(s, v), NEW d \in Datum,
           NEW t \in store_whole(s, v.cell, Layout_(v), d)
    PROVE  Load(t, v) = {Fit(v, d)}
<1> DEFINE l == Layout_(v)
<1> DEFINE base == Base(s, v.cell)
<1> DEFINE e == StoredBytes(d, l)
<1>1. LayoutOK(l) /\ l.width < 8 /\ l.width \in {1, 2, 4}
  BY WholeLayouts DEF DeclOK, IsBit, Layout_, LayoutOK, Reliable, ReadsBack
<1>2. t = Written(s, base, e, l.width)
  BY DEF store_whole
<1>3. MemoryOK(t) /\ t.cell_size = s.cell_size /\ t.size = s.size
  BY StoreWholeType
<1>4. Reliable(t, v)
  BY <1>3, SameLayout, SameSizes DEF Reliable
<1>5. Base(t, v.cell) = base
  BY <1>3 DEF Base
<1>6. base \in 0..SizeMax
  <2> v.cell * s.cell_size \in Nat /\ SizeMax \in Nat
    BY CellStart, ByteAssumption DEF DeclOK
  <2> QED
    BY DEF Base
<1>7. e \in Bytes(l.width)
  BY <1>1, StoredBytesType
<1>8. \A k \in 0..l.width - 1 : Address(base, k) \in 0..s.size - 1
  BY WholeFootprint DEF Reliable
<1>9. \A k \in 0..l.width - 1 : Offset(base, Address(base, k)) = k
  <2> HIDE DEF base
  <2>1. \A k \in 0..7 : Offset(base, Address(base, k)) = k
    BY <1>6, OffsetOfAddress
  <2> QED
    BY <1>1, <2>1
<1>10. t.bytes = [a \in 0..s.size - 1 |->
                     IF Offset(base, a) < l.width THEN e[Offset(base, a)] ELSE s.bytes[a]]
  BY <1>2 DEF Written
<1> HIDE DEF base, e
<1>11. \A k \in 0..l.width - 1 : t.bytes[Address(base, k)] = e[k]
  BY <1>1, <1>8, <1>9, <1>10
<1>12. BytesAt(t, base, l.width) = e
  BY <1>7, <1>11 DEF BytesAt, Bytes
<1>13. Load(t, v) = {FromBytes(e, l)}
  BY <1>3, <1>4, <1>5, <1>12, LoadWhole
<1> QED
  BY <1>1, <1>13, OrdersCancel DEF e, Fit

(* A byte of a memory that was written to.                                 *)
LEMMA WrittenByte ==
    ASSUME NEW s, NEW base, NEW d, NEW n, NEW a \in 0..s.size - 1
    PROVE  Written(s, base, d, n).bytes[a] =
               IF Offset(base, a) < n THEN d[Offset(base, a)] ELSE s.bytes[a]
BY DEF Written

(* A whole store, whether it leaves the memory or not, changes nothing     *)
(* beside its own bytes.                                                   *)
LEMMA WholeLeavesOthers ==
    ASSUME NEW s, MemoryOK(s), NEW v, DeclOK(v), ~IsBit(v), NEW d \in Datum,
           NEW t \in store_whole(s, v.cell, Layout_(v), d),
           NEW a \in 0..s.size - 1, NEW b \in 0..ByteBits - 1, <<a, b>> \notin Footprint(s, v)
    PROVE  b \in t.bytes[a] <=> b \in s.bytes[a]
<1> DEFINE base == Base(s, v.cell)
<1> DEFINE w == Layout_(v).width
<1> DEFINE e == StoredBytes(d, Layout_(v))
<1>1. t.bytes[a] = IF Offset(base, a) < w THEN e[Offset(base, a)] ELSE s.bytes[a]
  <2>1. t = Written(s, base, e, w)
    BY DEF store_whole
  <2> HIDE DEF base, e, w
  <2> QED
    BY <2>1, WrittenByte
<1>2. a \notin Addresses(s, v)
  BY DEF Footprint
<1>3. base \in 0..SizeMax
  <2> v.cell * s.cell_size \in Nat /\ SizeMax \in Nat
    BY CellStart, ByteAssumption DEF DeclOK
  <2> QED
    BY DEF Base
<1>4. a \in 0..SizeMax
  BY ByteAssumption DEF MemoryOK
<1>5. Offset(base, a) \in Nat /\ Address(base, Offset(base, a)) = a
  <2> HIDE DEF base
  <2>1. Offset(base, a) \in 0..SizeMax /\ Address(base, Offset(base, a)) = a
    BY <1>3, <1>4, AddressOfOffset
  <2> QED
    BY <2>1
<1>6. w \in Nat
  BY WholeLayouts DEF DeclOK, IsBit, Layout_, LayoutOK
<1>7. Addresses(s, v) = {Address(base, k) : k \in 0..w - 1}
  BY DEF Addresses
<1>8. ~(Offset(base, a) < w)
  <2> HIDE DEF base, w
  <2> SUFFICES ASSUME Offset(base, a) < w
               PROVE  FALSE
    OBVIOUS
  <2>1. Offset(base, a) \in 0..w - 1
    BY <1>5, <1>6
  <2> QED
    BY <1>2, <1>5, <1>7, <2>1
<1> QED
  BY <1>1, <1>8

(* The cell a bit lies in.                                                 *)
Cell(s, v) == v.cell * s.cell_size

LEMMA CellOfBit ==
    ASSUME NEW s, MemoryOK(s), NEW v, DeclOK(v), IsBit(v), Accepted(s, v)
    PROVE  /\ Cell(s, v) \in 0..SizeMax /\ Cell(s, v) \in Nat /\ s.cell_size \in 1..8
           /\ s.cell_size \in Nat /\ s.size \in Nat /\ SizeMax \in Nat
           /\ Addresses(s, v) = Cell(s, v)..Cell(s, v) + s.cell_size - 1
           /\ Cell(s, v) + s.cell_size - 1 < s.size /\ s.size <= SizeMax + 1
<1>1. Addresses(s, v) = Cell(s, v)..Cell(s, v) + s.cell_size - 1
  BY DEF Addresses, Cell
<1>2. Cell(s, v) \in Nat
  BY CellStart DEF DeclOK, Cell
<1>3. s.cell_size \in 1..8
  BY DEF MemoryOK, CellSizes
<1>4. s.size \in Nat /\ SizeMax \in Nat /\ s.size <= SizeMax + 1
  BY ByteAssumption DEF MemoryOK
<1>5. Addresses(s, v) \subseteq 0..s.size - 1
  BY BitStaysInside DEF Leaves
<1>6. Cell(s, v) + s.cell_size - 1 \in 0..s.size - 1
  BY <1>1, <1>2, <1>3, <1>5
<1>7. Cell(s, v) \in 0..SizeMax /\ Cell(s, v) + s.cell_size - 1 < s.size
  BY <1>2, <1>3, <1>4, <1>6
<1>8. s.cell_size \in Nat
  BY <1>3
<1> QED
  BY <1>1, <1>2, <1>3, <1>4, <1>7, <1>8

(* The cell as store_bit reads it.                                         *)
LEMMA CellCopied ==
    ASSUME NEW s, MemoryOK(s), NEW v, DeclOK(v), IsBit(v), Accepted(s, v),
           NEW a \in Addresses(s, v)
    PROVE  ReadCell(s, v.cell)[a - Cell(s, v)] = s.bytes[a]
<1>1. ReadCell(s, v.cell) = [k \in 0..s.cell_size - 1 |-> s.bytes[Address(Cell(s, v), k)]]
  BY DEF ReadCell, BytesAt, Cell
<1> DEFINE k == a - Cell(s, v)
<1>2. k \in 0..s.cell_size - 1 /\ Address(Cell(s, v), k) = a
  <2>1. /\ a \in Cell(s, v)..Cell(s, v) + s.cell_size - 1 /\ Cell(s, v) \in Nat
        /\ s.cell_size \in Nat /\ s.size \in Nat /\ SizeMax \in Nat
        /\ Cell(s, v) + s.cell_size - 1 < s.size /\ s.size <= SizeMax + 1
    BY CellOfBit
  <2> QED
    BY <2>1 DEF Address
<1> QED
  BY <1>1, <1>2

(* The byte order of a bit is an involution on the bytes of the cell.      *)
LEMMA InCellTwice ==
    ASSUME NEW s, MemoryOK(s), NEW v, NEW i \in 0..s.cell_size - 1
    PROVE  InCell(s, v, i) \in 0..s.cell_size - 1 /\ InCell(s, v, InCell(s, v, i)) = i
<1>1. s.cell_size \in Nat
  BY DEF MemoryOK, CellSizes
<1>2. CASE v.type = "le1"
  BY <1>2 DEF InCell
<1>3. CASE v.type # "le1"
  <2>1. \A k : InCell(s, v, k) = s.cell_size - 1 - k
    BY <1>3 DEF InCell
  <2> QED
    BY <1>1, <2>1
<1> QED
  BY <1>2, <1>3

LEMMA OrderedInCell ==
    ASSUME NEW s, MemoryOK(s), NEW v, NEW i \in 0..s.cell_size - 1, NEW d
    PROVE  /\ Ordered(d, s.cell_size, v.type = "le1")[i] = d[InCell(s, v, i)]
           /\ Ordered(d, s.cell_size, v.type = "le1")[InCell(s, v, i)] = d[i]
<1>1. s.cell_size \in Nat
  BY DEF MemoryOK, CellSizes
<1>2. CASE v.type = "le1"
  BY <1>2 DEF InCell, Ordered
<1>3. CASE v.type # "le1"
  <2>1. /\ \A k : InCell(s, v, k) = s.cell_size - 1 - k
        /\ \A e : Ordered(e, s.cell_size, v.type = "le1") = swap(e, s.cell_size)
    BY <1>3 DEF InCell, Ordered
  <2>2. \A k \in 0..s.cell_size - 1 : swap(d, s.cell_size)[k] = d[s.cell_size - 1 - k]
    BY DEF swap
  <2>3. s.cell_size - 1 - i \in 0..s.cell_size - 1 /\ s.cell_size - 1 - (s.cell_size - 1 - i) = i
    BY <1>1
  <2> QED
    BY <2>1, <2>2, <2>3
<1> QED
  BY <1>2, <1>3

(* What is written back, bit by bit: the bits meant are set or cleared,    *)
(* those of the rest of the cell are those of the copy.                    *)
LEMMA CellWritten ==
    ASSUME NEW s, MemoryOK(s), NEW v, DeclOK(v), IsBit(v), Accepted(s, v),
           NEW c \in Bytes(s.cell_size), NEW set \in BOOLEAN, NEW r \in StoreReach(v.index),
           NEW d, NEW t, t = WriteCell(s, v.cell, d),
           d = Ordered(PutBits(Ordered(c, s.cell_size, v.type = "le1"), s.cell_size, r, set),
                       s.cell_size, v.type = "le1")
    PROVE  /\ MemoryOK(t) /\ t.cell_size = s.cell_size /\ t.size = s.size
           /\ \A a \in 0..s.size - 1 : a \notin Addresses(s, v) => t.bytes[a] = s.bytes[a]
           /\ \A i \in 0..s.cell_size - 1, b \in 0..ByteBits - 1 :
                 /\ i * ByteBits + b \in r =>
                       (b \in t.bytes[Cell(s, v) + InCell(s, v, i)] <=> set)
                 /\ i * ByteBits + b \notin r =>
                       (b \in t.bytes[Cell(s, v) + InCell(s, v, i)] <=> b \in c[InCell(s, v, i)])
<1> DEFINE n == s.cell_size
<1> DEFINE little == v.type = "le1"
<1> DEFINE base == Cell(s, v)
<1> DEFINE o == Ordered(c, n, little)
<1> DEFINE e == PutBits(o, n, r, set)
<1>1. n \in Nat /\ n \in 1..8
  BY CellOfBit
<1>2. d \in BitStored(c, n, v.index, little, set)
  BY DEF BitStored
<1>3. d \in Bytes(n)
  <2>1. n \in CellSizes /\ v.index \in Nat
    BY DEF MemoryOK, DeclOK
  <2> QED
    BY <1>2, <2>1, BitStoredType
<1>4. t = Written(s, base, d, n)
  BY DEF WriteCell, Cell
<1>5. MemoryOK(t) /\ t.cell_size = n /\ t.size = s.size
  BY <1>1, <1>3, <1>4, CellOfBit, WrittenType
<1>6. \A a \in 0..s.size - 1 :
         t.bytes[a] = IF Offset(base, a) < n THEN d[Offset(base, a)] ELSE s.bytes[a]
  BY <1>4, WrittenByte
<1> /\ base \in 0..SizeMax /\ base \in Nat /\ n \in Nat /\ s.size \in Nat /\ SizeMax \in Nat
    /\ base + n - 1 < s.size /\ s.size <= SizeMax + 1 /\ Addresses(s, v) = base..base + n - 1
  BY CellOfBit
<1>7. ASSUME NEW a \in 0..s.size - 1, a \notin Addresses(s, v)
      PROVE  t.bytes[a] = s.bytes[a]
  <2>1. ~(Offset(base, a) < n)
    BY <1>7 DEF Offset
  <2> QED
    BY <1>6, <2>1
<1>8. ASSUME NEW j \in 0..n - 1
      PROVE  t.bytes[base + j] = d[j]
  <2>1. base + j \in 0..s.size - 1 /\ Offset(base, base + j) = j /\ j < n
    BY DEF Offset
  <2> HIDE DEF base
  <2> QED
    BY <1>6, <2>1
<1>9. ASSUME NEW i \in 0..n - 1
      PROVE  /\ InCell(s, v, i) \in 0..n - 1
             /\ d[InCell(s, v, i)] = e[i] /\ o[i] = c[InCell(s, v, i)]
  <2>1. InCell(s, v, i) \in 0..n - 1
    BY InCellTwice
  <2>2. o[i] = c[InCell(s, v, i)]
    BY OrderedInCell
  <2> HIDE DEF e
  <2>3. d = Ordered(e, n, little)
    BY DEF e
  <2>4. d[InCell(s, v, i)] = e[i]
    BY <2>3, OrderedInCell
  <2> QED
    BY <2>1, <2>2, <2>4
<1>10. ASSUME NEW i \in 0..n - 1, NEW b \in 0..ByteBits - 1
       PROVE  /\ i * ByteBits + b \in r => (b \in e[i] <=> set)
              /\ i * ByteBits + b \notin r => (b \in e[i] <=> b \in o[i])
  <2>1. e[i] = IF set THEN o[i] \cup InByte(r, i) ELSE o[i] \ InByte(r, i)
    BY DEF PutBits
  <2>2. b \in InByte(r, i) <=> i * ByteBits + b \in r
    BY DEF InByte
  <2> QED
    BY <2>1, <2>2
<1>11. ASSUME NEW i \in 0..n - 1
       PROVE  t.bytes[base + InCell(s, v, i)] = e[i] /\ o[i] = c[InCell(s, v, i)]
  <2> DEFINE j == InCell(s, v, i)
  <2>1. j \in 0..n - 1 /\ d[j] = e[i] /\ o[i] = c[j]
    BY <1>9
  <2> HIDE DEF j
  <2>2. t.bytes[base + j] = d[j]
    BY <1>8, <2>1
  <2> QED
    BY <2>1, <2>2 DEF j
<1> HIDE DEF e, o
<1> QED
  BY <1>5, <1>7, <1>10, <1>11

(* A write-back puts the copy back on all bits that are not meant.         *)
LEMMA WriteBackLeavesOthers ==
    ASSUME NEW s, MemoryOK(s), NEW v, DeclOK(v), IsBit(v), Accepted(s, v),
           NEW c \in Bytes(s.cell_size), NEW set \in BOOLEAN,
           NEW d \in BitStored(c, s.cell_size, v.index, v.type = "le1", set),
           NEW a \in 0..s.size - 1, NEW b \in 0..ByteBits - 1, <<a, b>> \notin Footprint(s, v)
    PROVE  /\ a \in Addresses(s, v) =>
                 (b \in WriteCell(s, v.cell, d).bytes[a] <=> b \in c[a - Cell(s, v)])
           /\ a \notin Addresses(s, v) =>
                 (b \in WriteCell(s, v.cell, d).bytes[a] <=> b \in s.bytes[a])
<1> DEFINE n == s.cell_size
<1> DEFINE t == WriteCell(s, v.cell, d)
<1>1. PICK r \in StoreReach(v.index) :
         d = Ordered(PutBits(Ordered(c, n, v.type = "le1"), n, r, set), n, v.type = "le1")
  BY DEF BitStored
<1>2. CASE a \notin Addresses(s, v)
  BY <1>1, <1>2, CellWritten
<1>3. CASE a \in Addresses(s, v)
  <2> DEFINE j == a - Cell(s, v)
  <2> DEFINE i == InCell(s, v, j)
  <2>1. n \in 1..8 /\ n \in {1, 2, 4, 8}
    BY CellOfBit DEF MemoryOK, CellSizes
  <2>2. j \in 0..n - 1 /\ Cell(s, v) + j = a
    <3>1. a \in Cell(s, v)..Cell(s, v) + n - 1 /\ Cell(s, v) \in Nat /\ n \in Nat
      BY <1>3, CellOfBit
    <3> QED
      BY <3>1
  <2> HIDE DEF j
  <2>3. i \in 0..n - 1 /\ InCell(s, v, i) = j
    BY <2>2, InCellTwice
  <2> HIDE DEF i
  <2>4. i * ByteBits + b \notin r
    <3> SUFFICES ASSUME i * ByteBits + b \in r
                 PROVE  <<a, b>> \in Footprint(s, v)
      OBVIOUS
    <3> DEFINE p == i * ByteBits + b
    <3>1. p \in 0..n * ByteBits - 1
      BY <2>1, <2>3, PositionInside, ByteAssumption
    <3>2. p \div ByteBits = i /\ p % ByteBits = b
      <4>1. i \in 0..7
        BY <2>1, <2>3
      <4>2. p = Position(i, b)
        BY DEF Position
      <4> HIDE DEF p
      <4> QED
        BY <4>1, <4>2, PositionOfBit
    <3> HIDE DEF p
    <3>3. p \in (UNION StoreReach(v.index)) \cap 0..n * ByteBits - 1
      BY <3>1 DEF p
    <3>4. <<Cell(s, v) + InCell(s, v, p \div ByteBits), p % ByteBits>> \in Footprint(s, v)
      BY <3>3 DEF Footprint, Cell, InCell
    <3> QED
      BY <2>2, <2>3, <3>2, <3>4
  <2>5. b \in t.bytes[Cell(s, v) + InCell(s, v, i)] <=> b \in c[InCell(s, v, i)]
    <3> HIDE DEF t
    <3> QED
      BY <1>1, <2>3, <2>4, CellWritten DEF t
  <2> QED
    BY <1>3, <2>2, <2>3, <2>5 DEF j
<1> QED
  BY <1>2, <1>3

(* A bit reads back, whatever the copy was.                                *)
LEMMA BitReadsBack ==
    ASSUME NEW s, MemoryOK(s), NEW v, DeclOK(v), IsBit(v), Reliable(s, v),
           NEW c \in Bytes(s.cell_size), NEW w \in Datum,
           NEW d \in BitStored(c, s.cell_size, v.index, v.type = "le1", w # Zero)
    PROVE  Load(WriteCell(s, v.cell, d), v) = {Fit(v, w)}
<1> DEFINE n == s.cell_size
<1> DEFINE t == WriteCell(s, v.cell, d)
<1> DEFINE i == v.index \div ByteBits
<1> DEFINE b == v.index % ByteBits
<1>1. PICK r \in StoreReach(v.index) :
         d = Ordered(PutBits(Ordered(c, n, v.type = "le1"), n, r, w # Zero), n, v.type = "le1")
  BY DEF BitStored
<1>2. i * ByteBits + b \in r /\ i \in 0..n - 1 /\ b \in 0..ByteBits - 1
  BY BitPlace
<1> DEFINE set == w # Zero
<1>3. /\ MemoryOK(t) /\ t.cell_size = n /\ t.size = s.size
      /\ b \in t.bytes[Cell(s, v) + InCell(s, v, i)] <=> set
  <2> HIDE DEF t, i, b
  <2>1. Accepted(s, v) /\ set \in BOOLEAN
    BY DEF Reliable
  <2> HIDE DEF set
  <2>2. d = Ordered(PutBits(Ordered(c, n, v.type = "le1"), n, r, set), n, v.type = "le1")
    BY <1>1 DEF set
  <2>3. t = WriteCell(s, v.cell, d)
    BY DEF t
  <2> QED
    BY <1>2, <2>1, <2>2, <2>3, CellWritten
<1> HIDE DEF t
<1>4. Reliable(t, v)
  BY <1>3, SameLayout, SameSizes DEF Reliable
<1>5. BitAddress(t, v) = Cell(s, v) + InCell(s, v, i)
  BY <1>3 DEF BitAddress, InCell, Cell
<1>6. Load(t, v) = {IF b \in t.bytes[BitAddress(t, v)] THEN One ELSE Zero}
  BY <1>3, <1>4, LoadBit
<1>7. Load(t, v) = {IF set THEN One ELSE Zero}
  BY <1>3, <1>5, <1>6
<1> QED
  BY <1>7 DEF Fit, t

-----------------------------------------------------------------------------
(* Nothing but an overlap loses an update.                                 *)

SeparateIn(s, d, x) ==
    /\ Reliable(s, d[x])
    /\ \A y \in DOMAIN d \ {x} : Footprint(s, d[x]) \cap Footprint(s, d[y]) = {}

PrivateIn(s, d, x) ==
    /\ SeparateIn(s, d, x)
    /\ \A y \in DOMAIN d \ {x} :
          IsBit(d[y]) /\ (\E p \in d[x].users, q \in d[y].users : p # q) =>
              Addresses(s, d[x]) \cap Addresses(s, d[y]) = {}

Pending(a) == a.step = "write back"

(* A copy of a cell, taken for the sake of another variable, still has     *)
(* what x has.                                                             *)
CopyAgrees(a, s, d, x) ==
    \A n \in Addresses(s, d[a.var]), b \in 0..ByteBits - 1 :
        <<n, b>> \in Footprint(s, d[x]) =>
            (b \in a.cell[n - Cell(s, d[a.var])] <=> b \in s.bytes[n])

(* x holds value, and no pending write-back takes that away.               *)
Kept(s, d, acc, x, value) ==
    /\ Load(s, d[x]) = {value}
    /\ \A q \in Proc : Pending(acc[q]) /\ acc[q].var # x => CopyAgrees(acc[q], s, d, x)

(* The inductive invariant.                                                *)
LInv ==
    /\ IInv
    /\ last = [x \in Var |-> last[x]]
    /\ \A q \in Proc : Pending(access[q]) => q \in decl[access[q].var].users
    /\ \A x \in Var : SeparateIn(shm, decl, x) /\ x \notin endangered =>
          Kept(shm, decl, access, x, last[x])
    /\ \A x \in Var : PrivateIn(shm, decl, x) => x \notin endangered

LEMMA FootprintInAddresses ==
    ASSUME NEW s, MemoryOK(s), NEW v, DeclOK(v), Accepted(s, v),
           NEW n, NEW b, <<n, b>> \in Footprint(s, v)
    PROVE  n \in Addresses(s, v)
<1>1. CASE ~IsBit(v)
  BY <1>1 DEF Footprint
<1>2. CASE IsBit(v)
  <2>1. PICK i \in (UNION StoreReach(v.index)) \cap 0..s.cell_size * ByteBits - 1 :
           n = Cell(s, v) + InCell(s, v, i \div ByteBits)
    BY <1>2 DEF Footprint, Cell, InCell
  <2>2. s.cell_size \in {1, 2, 4, 8} /\ ByteBits \in Nat \ {0}
    BY ByteAssumption DEF MemoryOK, CellSizes
  <2>3. i \in Nat /\ i < s.cell_size * ByteBits
    <3> \A w \in {1, 2, 4, 8} : w * ByteBits \in Nat
      BY <2>2
    <3>1. i \in 0..s.cell_size * ByteBits - 1
      BY <2>1
    <3> QED
      BY <2>2, <3>1
  <2> DEFINE k == InCell(s, v, i \div ByteBits)
  <2>4. k \in 0..s.cell_size - 1
    BY <2>2, <2>3, ByteOfPosition, InCellTwice
  <2> HIDE DEF k
  <2>5. /\ Cell(s, v) \in Nat /\ s.cell_size \in Nat
        /\ Addresses(s, v) = Cell(s, v)..Cell(s, v) + s.cell_size - 1
    BY <1>2, CellOfBit
  <2> QED
    BY <2>1, <2>4, <2>5 DEF k
<1> QED
  BY <1>1, <1>2

(* A step that leaves the bits of x alone, and takes no copy but a true    *)
(* one, keeps x.                                                           *)
LEMMA KeptStep ==
    ASSUME NEW s, MemoryOK(s), NEW t, MemoryOK(t), t.cell_size = s.cell_size, t.size = s.size,
           NEW d, \A y \in DOMAIN d : DeclOK(d[y]),
           NEW acc, \A q \in Proc : AccessOK(acc[q], s, d),
           NEW x \in DOMAIN d, Reliable(s, d[x]), AgreeOn(s, t, d[x]),
           NEW value, Kept(s, d, acc, x, value),
           NEW acc2,
           \A q \in Proc : acc2[q] = acc[q] \/ ~Pending(acc2[q]) \/ CopyAgrees(acc2[q], t, d, x)
    PROVE  Kept(t, d, acc2, x, value)
<1>1. Load(t, d[x]) = {value}
  BY LoadDepends DEF Kept
<1>2. ASSUME NEW q \in Proc, Pending(acc2[q]), acc2[q].var # x, acc2[q] = acc[q]
      PROVE  CopyAgrees(acc2[q], t, d, x)
  <2>1. CopyAgrees(acc[q], s, d, x)
    BY <1>2 DEF Kept
  <2> DEFINE y == acc[q].var
  <2>2. y \in DOMAIN d /\ IsBit(d[y]) /\ Accepted(s, d[y])
    <3>1. acc[q].step = "write back" /\ AccessOK(acc[q], s, d)
      BY <1>2 DEF Pending
    <3>2. acc[q] # Idle
      <4>1. Idle.step = "idle"
        BY DEF Idle
      <4> QED
        BY <3>1, <4>1
    <3> QED
      BY <3>1, <3>2 DEF AccessOK
  <2>3. Addresses(s, d[y]) \subseteq 0..s.size - 1
    BY <2>2, BitStaysInside DEF Leaves
  <2>4. /\ Addresses(t, d[y]) = Addresses(s, d[y]) /\ Footprint(t, d[x]) = Footprint(s, d[x])
        /\ Cell(t, d[y]) = Cell(s, d[y])
    BY SameLayout DEF Cell
  <2> QED
    BY <1>2, <2>1, <2>3, <2>4 DEF CopyAgrees, AgreeOn
<1> QED
  BY <1>1, <1>2 DEF Kept

(* A process that is about to write back.                                  *)
LEMMA PendingAccess ==
    ASSUME IInv, NEW p \in Proc, access[p].step = "write back"
    PROVE  /\ access[p].var \in Var /\ DeclOK(decl[access[p].var])
           /\ IsBit(decl[access[p].var]) /\ Accepted(shm, decl[access[p].var])
           /\ ~Leaves(shm, decl[access[p].var])
           /\ access[p].cell \in Bytes(shm.cell_size) /\ access[p].word \in Datum
<1>1. AccessOK(access[p], shm, decl)
  BY DEF IInv
<1>2. access[p] # Idle
  <2>1. Idle.step = "idle"
    BY DEF Idle
  <2> QED
    BY <2>1
<1>3. /\ access[p].var \in Var
      /\ IsBit(decl[access[p].var]) /\ Accepted(shm, decl[access[p].var])
      /\ access[p].cell \in Bytes(shm.cell_size) /\ access[p].word \in Datum
  BY <1>1, <1>2 DEF AccessOK, Var
<1>4. DeclOK(decl[access[p].var]) /\ MemoryOK(shm)
  BY <1>3 DEF IInv
<1> QED
  BY <1>3, <1>4, BitStaysInside

(* What a completed store of y does to the others and to y.                *)
LEMMA StoreKeeps ==
    ASSUME LInv, IInv', NEW p \in Proc, NEW y \in Var, p \in decl[y].users,
           NEW word, Stored(p, y, word),
           UNCHANGED decl, shm'.cell_size = shm.cell_size, shm'.size = shm.size,
           access' = [access EXCEPT ![p] = Idle],
           SeparateIn(shm, decl, y) => Load(shm', decl[y]) = {Fit(decl[y], word)},
           \A x \in Var \ {y} : SeparateIn(shm, decl, x) /\ x \notin endangered =>
               AgreeOn(shm, shm', decl[x])
    PROVE  LInv'
<1> USE DEF LInv
<1>1. \A x \in Var : SeparateIn(shm', decl, x) = SeparateIn(shm, decl, x)
                     /\ PrivateIn(shm', decl, x) = PrivateIn(shm, decl, x)
  BY SameLayout, SameSizes DEF SeparateIn, PrivateIn, Reliable
<1>2. last' = [x \in Var' |-> last'[x]] /\ Var' = Var
  BY DEF Stored, Var
<1>3. \A q \in Proc : access'[q] = access[q] \/ ~Pending(access'[q])
  <2>1. ~Pending(Idle)
    BY DEF Idle, Pending
  <2> QED
    BY <2>1 DEF IInv
<1>4. ASSUME NEW q \in Proc, Pending(access'[q])
      PROVE  q \in decl'[access'[q].var].users
  BY <1>3, <1>4
<1>5. ASSUME NEW x \in Var, SeparateIn(shm, decl, x), x \notin endangered', x # y
      PROVE  Kept(shm', decl, access', x, last'[x])
  <2>1. x \notin endangered /\ last'[x] = last[x]
    BY <1>5 DEF Stored
  <2>2. AgreeOn(shm, shm', decl[x]) /\ Kept(shm, decl, access, x, last[x]) /\ Reliable(shm, decl[x])
    BY <1>5, <2>1 DEF SeparateIn
  <2>3. /\ MemoryOK(shm) /\ MemoryOK(shm') /\ \A z \in DOMAIN decl : DeclOK(decl[z])
        /\ \A q \in Proc : AccessOK(access[q], shm, decl)
    BY DEF IInv, Var
  <2>4. /\ x \in DOMAIN decl
        /\ \A q \in Proc : \/ access'[q] = access[q] \/ ~Pending(access'[q])
                           \/ CopyAgrees(access'[q], shm', decl, x)
    BY <1>3 DEF Var
  <2>5. Kept(shm', decl, access', x, last[x])
    BY <2>2, <2>3, <2>4, KeptStep
  <2> QED
    BY <2>1, <2>5
<1>6. ASSUME SeparateIn(shm, decl, y), y \notin endangered'
      PROVE  Kept(shm', decl, access', y, last'[y])
  <2>1. last'[y] = Fit(decl[y], word)
    BY DEF Stored
  <2>2. ~Overlapped(p, y)
    BY <1>6 DEF Stored
  <2>3. ASSUME NEW q \in Proc, Pending(access'[q]), access'[q].var # y
        PROVE  CopyAgrees(access'[q], shm', decl, y)
    <3>1. access'[q] = access[q] /\ q # p
      <4>1. access'[p] = Idle /\ Idle.step = "idle"
        BY DEF IInv, Idle
      <4> QED
        BY <1>3, <2>3, <4>1 DEF Pending
    <3> DEFINE z == access[q].var
    <3>2. Addresses(shm, decl[z]) \cap Addresses(shm, decl[y]) = {}
      BY <2>2, <2>3, <3>1 DEF Overlapped, Pending
    <3>3. /\ Addresses(shm', decl[z]) = Addresses(shm, decl[z])
          /\ Footprint(shm', decl[y]) = Footprint(shm, decl[y])
      BY SameLayout
    <3>4. \A n, b : <<n, b>> \in Footprint(shm, decl[y]) => n \in Addresses(shm, decl[y])
      <4> MemoryOK(shm) /\ DeclOK(decl[y]) /\ Accepted(shm, decl[y])
        BY <1>6 DEF IInv, SeparateIn, Reliable
      <4> QED
        BY FootprintInAddresses
    <3> QED
      BY <3>1, <3>2, <3>3, <3>4 DEF CopyAgrees
  <2> QED
    BY <1>6, <2>1, <2>3 DEF Kept
<1>7. ASSUME NEW x \in Var, PrivateIn(shm, decl, x)
      PROVE  x \notin endangered'
  <2>1. x \notin endangered
    BY <1>7
  <2>2. CASE x # y
    BY <2>1, <2>2 DEF Stored
  <2>3. CASE x = y
    <3> SUFFICES ASSUME Overlapped(p, y)
                 PROVE  FALSE
      BY <2>1, <2>3 DEF Stored
    <3>1. PICK q \in Proc \ {p} :
             /\ access[q].step = "write back" /\ access[q].var # y
             /\ Addresses(shm, decl[access[q].var]) \cap Addresses(shm, decl[y]) # {}
      BY DEF Overlapped
    <3>2. access[q].var \in Var /\ IsBit(decl[access[q].var])
      BY <3>1, PendingAccess
    <3>3. q \in decl[access[q].var].users /\ q # p
      BY <3>1 DEF Pending
    <3>4. /\ access[q].var \in DOMAIN decl \ {y}
          /\ \E p1 \in decl[y].users, q1 \in decl[access[q].var].users : p1 # q1
      BY <3>1, <3>2, <3>3 DEF Var
    <3> QED
      BY <1>7, <2>3, <3>1, <3>2, <3>4 DEF PrivateIn
  <2> QED
    BY <2>2, <2>3
<1>8. \A x \in Var : SeparateIn(shm, decl, x) /\ x \notin endangered' =>
         Kept(shm', decl, access', x, last'[x])
  BY <1>5, <1>6
<1> QED
  BY <1>1, <1>2, <1>4, <1>7, <1>8

LEMMA LInvInit == Init => LInv
<1> SUFFICES ASSUME Init
             PROVE  LInv
  OBVIOUS
<1>1. IInv
  BY IInvInit
<1>2. \A q \in Proc : ~Pending(access[q])
  BY DEF Init, Idle, Pending
<1>3. ASSUME NEW x \in Var, SeparateIn(shm, decl, x)
      PROVE  Load(shm, decl[x]) = {last[x]}
  <2>1. Reliable(shm, decl[x]) /\ MemoryOK(shm) /\ DeclOK(decl[x])
    BY <1>1, <1>3 DEF IInv, SeparateIn
  <2>2. PICK d \in Datum : Load(shm, decl[x]) = {d}
    BY <2>1, LoadOneWord
  <2>3. last[x] = CHOOSE e \in Load(shm, decl[x]) : TRUE
    BY <2>1 DEF Init, Reliable
  <2> QED
    BY <2>2, <2>3
<1>4. last = [x \in Var |-> last[x]] /\ endangered = {}
  BY DEF Init
<1> QED
  BY <1>1, <1>2, <1>3, <1>4 DEF LInv, Kept

(* Two variables of which one is separate share no bit.                    *)
LEMMA NothingShared ==
    ASSUME NEW s, NEW d, NEW x \in DOMAIN d, NEW y \in DOMAIN d, x # y, SeparateIn(s, d, x),
           NEW n, NEW b, <<n, b>> \in Footprint(s, d[x])
    PROVE  <<n, b>> \notin Footprint(s, d[y])
BY DEF SeparateIn

(* A step that stores nothing reliable keeps everything.                   *)
LEMMA NoStoreKeeps ==
    ASSUME LInv, IInv', UNCHANGED <<decl, last, endangered>>,
           shm'.cell_size = shm.cell_size, shm'.size = shm.size,
           \A q \in Proc : Pending(access'[q]) => q \in decl[access'[q].var].users,
           \A x \in Var : SeparateIn(shm, decl, x) =>
              /\ AgreeOn(shm, shm', decl[x])
              /\ \A q \in Proc : \/ access'[q] = access[q] \/ ~Pending(access'[q])
                                 \/ CopyAgrees(access'[q], shm', decl, x)
    PROVE  LInv'
<1> USE DEF LInv
<1>1. \A x \in Var : SeparateIn(shm', decl, x) = SeparateIn(shm, decl, x)
                     /\ PrivateIn(shm', decl, x) = PrivateIn(shm, decl, x)
  BY SameLayout, SameSizes DEF SeparateIn, PrivateIn, Reliable
<1>2. last' = [x \in Var' |-> last'[x]] /\ Var' = Var
  BY DEF Var
<1>3. ASSUME NEW x \in Var, SeparateIn(shm, decl, x), x \notin endangered
      PROVE  Kept(shm', decl, access', x, last[x])
  <2>1. Kept(shm, decl, access, x, last[x]) /\ Reliable(shm, decl[x])
    BY <1>3 DEF SeparateIn
  <2>2. /\ MemoryOK(shm) /\ MemoryOK(shm') /\ \A z \in DOMAIN decl : DeclOK(decl[z])
        /\ \A q \in Proc : AccessOK(access[q], shm, decl)
    BY DEF IInv, Var
  <2>3. /\ x \in DOMAIN decl /\ AgreeOn(shm, shm', decl[x])
        /\ \A q \in Proc : \/ access'[q] = access[q] \/ ~Pending(access'[q])
                           \/ CopyAgrees(access'[q], shm', decl, x)
    BY <1>3 DEF Var
  <2> QED
    BY <2>1, <2>2, <2>3, KeptStep
<1> QED
  BY <1>1, <1>2, <1>3

LEMMA WholeKeepsOthers ==
    ASSUME IInv, NEW y \in Var, ~IsBit(decl[y]), NEW d \in Datum,
           NEW t \in store_whole(shm, decl[y].cell, Layout_(decl[y]), d),
           NEW x \in Var, x # y, SeparateIn(shm, decl, x)
    PROVE  AgreeOn(shm, t, decl[x])
<1>1. MemoryOK(shm) /\ DeclOK(decl[y])
  BY DEF IInv
<1>2. ASSUME NEW a \in 0..shm.size - 1, NEW b \in 0..ByteBits - 1,
             <<a, b>> \in Footprint(shm, decl[x])
      PROVE  b \in shm.bytes[a] <=> b \in t.bytes[a]
  <2>1. <<a, b>> \notin Footprint(shm, decl[y])
    BY <1>2, NothingShared DEF Var
  <2> QED
    BY <1>1, <2>1, WholeLeavesOthers
<1> QED
  BY <1>2 DEF AgreeOn

LEMMA BitKeepsOthers ==
    ASSUME LInv, NEW p \in Proc, access[p].step = "write back",
           NEW y, y = access[p].var,
           NEW c \in BitStored(access[p].cell, shm.cell_size, decl[y].index,
                               decl[y].type = "le1", access[p].word # Zero),
           NEW x \in Var, x # y, SeparateIn(shm, decl, x), x \notin endangered
    PROVE  AgreeOn(shm, WriteCell(shm, decl[y].cell, c), decl[x])
<1>1. /\ y \in Var /\ DeclOK(decl[y]) /\ IsBit(decl[y]) /\ Accepted(shm, decl[y])
      /\ access[p].cell \in Bytes(shm.cell_size) /\ MemoryOK(shm)
  BY PendingAccess DEF LInv, IInv
<1>2. CopyAgrees(access[p], shm, decl, x)
  BY DEF LInv, Kept, Pending
<1> DEFINE t == WriteCell(shm, decl[y].cell, c)
<1>3. ASSUME NEW a \in 0..shm.size - 1, NEW b \in 0..ByteBits - 1,
             <<a, b>> \in Footprint(shm, decl[x])
      PROVE  b \in shm.bytes[a] <=> b \in t.bytes[a]
  <2>1. <<a, b>> \notin Footprint(shm, decl[y])
    BY <1>1, <1>3, NothingShared DEF Var
  <2> DEFINE set == access[p].word # Zero
  <2>2. set \in BOOLEAN /\ c \in BitStored(access[p].cell, shm.cell_size, decl[y].index,
                                           decl[y].type = "le1", set)
    OBVIOUS
  <2> DEFINE v == decl[y]
  <2> DEFINE copy == access[p].cell
  <2> HIDE DEF set, v, copy
  <2>3. /\ MemoryOK(shm) /\ set \in BOOLEAN
        /\ DeclOK(v) /\ IsBit(v) /\ Accepted(shm, v) /\ copy \in Bytes(shm.cell_size)
        /\ c \in BitStored(copy, shm.cell_size, v.index, v.type = "le1", set)
        /\ <<a, b>> \notin Footprint(shm, v)
    BY <1>1, <2>1, <2>2 DEF v, copy
  <2>4. /\ a \in Addresses(shm, v) =>
              (b \in WriteCell(shm, v.cell, c).bytes[a] <=> b \in copy[a - Cell(shm, v)])
        /\ a \notin Addresses(shm, v) =>
              (b \in WriteCell(shm, v.cell, c).bytes[a] <=> b \in shm.bytes[a])
    BY <2>3, WriteBackLeavesOthers
  <2>5. /\ a \in Addresses(shm, decl[y]) =>
              (b \in t.bytes[a] <=> b \in access[p].cell[a - Cell(shm, decl[y])])
        /\ a \notin Addresses(shm, decl[y]) => (b \in t.bytes[a] <=> b \in shm.bytes[a])
    BY <2>4 DEF v, copy
  <2>6. a \in Addresses(shm, decl[y]) =>
            (b \in access[p].cell[a - Cell(shm, decl[y])] <=> b \in shm.bytes[a])
    BY <1>2, <1>3 DEF CopyAgrees
  <2> QED
    BY <2>5, <2>6
<1> QED
  BY <1>3 DEF AgreeOn

LEMMA LInvNext == LInv /\ [Next]_vars => LInv'
<1> SUFFICES ASSUME LInv, [Next]_vars
             PROVE  LInv'
  OBVIOUS
<1> IInv /\ MemoryOK(shm) /\ \A x \in Var : DeclOK(decl[x])
  BY DEF LInv, IInv
<1>0. IInv'
  BY IInvNext
<1>1. ASSUME UNCHANGED <<memoryVars, last, endangered>>
      PROVE  LInv'
  BY <1>0, <1>1 DEF LInv, memoryVars, Var
<1>2. ASSUME NEW p \in Proc, NEW x \in Var, Throws(p, x)
      PROVE  LInv'
  BY <1>1, <1>2 DEF Throws
<1>3. ASSUME NEW p \in Proc, NEW x \in Var, Loads(p, x)
      PROVE  LInv'
  BY <1>1, <1>3 DEF Loads
<1>4. ASSUME NEW p \in Proc, NEW y \in Var, StoresWhole(p, y)
      PROVE  LInv'
  <2>1. PICK d \in Data(decl[y].type) :
           /\ shm' \in store_whole(shm, decl[y].cell, Layout_(decl[y]), d)
           /\ Stored(p, y, d)
    BY <1>4 DEF StoresWhole
  <2>2. d \in Datum /\ ~IsBit(decl[y]) /\ p \in decl[y].users
    BY <1>4, <2>1, DataAssumption DEF DeclOK, StoresWhole, Calls
  <2>3. shm'.cell_size = shm.cell_size /\ shm'.size = shm.size
    BY <2>1, <2>2, StoreWholeType
  <2>4. access' = [access EXCEPT ![p] = Idle] /\ decl' = decl
    BY <1>4 DEF StoresWhole, Calls, IInv
  <2>5. SeparateIn(shm, decl, y) => Load(shm', decl[y]) = {Fit(decl[y], d)}
    BY <2>1, <2>2, WholeReadsBack DEF SeparateIn
  <2>6. \A x \in Var \ {y} : SeparateIn(shm, decl, x) /\ x \notin endangered =>
           AgreeOn(shm, shm', decl[x])
    BY <2>1, <2>2, WholeKeepsOthers
  <2> QED
    BY <1>0, <2>1, <2>2, <2>3, <2>4, <2>5, <2>6, StoreKeeps
<1>5. ASSUME NEW p \in Proc, NEW y \in Var, ReadsCell(p, y)
      PROVE  LInv'
  <2>1. PICK d \in Data(decl[y].type) :
           access' = [access EXCEPT ![p] =
              [step |-> "write back", var |-> y, word |-> d,
               cell |-> ReadCell(shm, decl[y].cell)]]
    BY <1>5 DEF ReadsCell
  <2>2. /\ IsBit(decl[y]) /\ Accepted(shm, decl[y]) /\ p \in decl[y].users
        /\ UNCHANGED <<decl, shm, last, endangered>>
    BY <1>5 DEF ReadsCell, Calls
  <2> DEFINE a == [step |-> "write back", var |-> y, word |-> d,
                   cell |-> ReadCell(shm, decl[y].cell)]
  <2>3. /\ a.var = y /\ a.cell = ReadCell(shm, decl[y].cell)
        /\ access' = [access EXCEPT ![p] = a] /\ access = [q \in Proc |-> access[q]]
    BY <2>1 DEF IInv
  <2> HIDE DEF a
  <2>4. \A x \in Var : CopyAgrees(a, shm, decl, x)
    BY <2>2, <2>3, CellCopied DEF CopyAgrees
  <2>5. \A q \in Proc : access'[q] = IF q = p THEN a ELSE access[q]
    BY <2>3
  <2>6. \A q \in Proc : Pending(access'[q]) => q \in decl[access'[q].var].users
    BY <2>2, <2>3, <2>5 DEF LInv
  <2>7. \A x \in Var : AgreeOn(shm, shm', decl[x])
    BY <2>2 DEF AgreeOn
  <2>8. \A x \in Var, q \in Proc : access'[q] = access[q] \/ CopyAgrees(access'[q], shm', decl, x)
    BY <2>2, <2>4, <2>5
  <2> QED
    BY <1>0, <2>2, <2>6, <2>7, <2>8, NoStoreKeeps
<1>6. ASSUME NEW p \in Proc, NEW y \in Var, LeavesMemory(p, y)
      PROVE  LInv'
  <2>1. /\ Leaves(shm, decl[y]) /\ UNCHANGED <<decl, last, endangered>>
        /\ access' = [access EXCEPT ![p] = [step |-> "gone", var |-> y]]
    BY <1>6 DEF LeavesMemory
  <2>2. \/ shm' = shm
        \/ ~IsBit(decl[y]) /\ \E d \in Datum :
              shm' \in store_whole(shm, decl[y].cell, Layout_(decl[y]), d)
    BY <1>6, DataAssumption DEF LeavesMemory, DeclOK
  <2>3. shm'.cell_size = shm.cell_size /\ shm'.size = shm.size
    BY <2>2, StoreWholeType
  <2>4. ASSUME NEW x \in Var, SeparateIn(shm, decl, x)
        PROVE  AgreeOn(shm, shm', decl[x])
    <3>1. x # y
      BY <2>1, <2>4 DEF SeparateIn, Reliable
    <3>2. CASE shm' = shm
      BY <3>2 DEF AgreeOn
    <3> QED
      BY <2>2, <2>4, <3>1, <3>2, WholeKeepsOthers
  <2>5. \A q \in Proc : access'[q] = access[q] \/ ~Pending(access'[q])
    BY <2>1 DEF IInv, Pending
  <2>6. \A q \in Proc : Pending(access'[q]) => q \in decl[access'[q].var].users
    BY <2>5 DEF LInv
  <2> QED
    BY <1>0, <2>1, <2>3, <2>4, <2>5, <2>6, NoStoreKeeps
<1>7. ASSUME NEW p \in Proc, WritesBack(p)
      PROVE  LInv'
  <2> DEFINE y == access[p].var
  <2> DEFINE w == access[p].word
  <2>1. access[p].step = "write back"
    BY <1>7 DEF WritesBack
  <2>2. /\ y \in Var /\ IsBit(decl[y]) /\ Accepted(shm, decl[y]) /\ w \in Datum
        /\ access[p].cell \in Bytes(shm.cell_size) /\ ~Leaves(shm, decl[y])
    BY <2>1, PendingAccess
  <2>3. PICK c \in BitStored(access[p].cell, shm.cell_size, decl[y].index,
                             decl[y].type = "le1", w # Zero) :
           shm' = WriteCell(shm, decl[y].cell, c)
    BY <1>7 DEF WritesBack
  <2>4. Stored(p, y, w) /\ access' = [access EXCEPT ![p] = Idle] /\ decl' = decl
    BY <1>7 DEF WritesBack
  <2>5. shm'.cell_size = shm.cell_size /\ shm'.size = shm.size
    BY <2>3 DEF WriteCell, Written
  <2>6. p \in decl[y].users
    BY <2>1 DEF LInv, Pending
  <2>7. SeparateIn(shm, decl, y) => Load(shm', decl[y]) = {Fit(decl[y], w)}
    <3> SUFFICES ASSUME SeparateIn(shm, decl, y)
                 PROVE  Load(shm', decl[y]) = {Fit(decl[y], w)}
      OBVIOUS
    <3> DEFINE v == decl[y]
    <3> DEFINE copy == access[p].cell
    <3>1. /\ DeclOK(v) /\ IsBit(v) /\ Reliable(shm, v) /\ w \in Datum
          /\ copy \in Bytes(shm.cell_size)
          /\ c \in BitStored(copy, shm.cell_size, v.index, v.type = "le1", w # Zero)
      BY <2>2, <2>3 DEF SeparateIn
    <3> HIDE DEF v, copy, w
    <3>2. Load(WriteCell(shm, v.cell, c), v) = {Fit(v, w)}
      BY <3>1, BitReadsBack
    <3> QED
      BY <2>3, <3>2 DEF v
  <2>8. ASSUME NEW x \in Var \ {y}, SeparateIn(shm, decl, x), x \notin endangered
        PROVE  AgreeOn(shm, shm', decl[x])
    BY <2>1, <2>3, <2>8, BitKeepsOthers
  <2> HIDE DEF y, w
  <2> QED
    BY <1>0, <2>2, <2>4, <2>5, <2>6, <2>7, <2>8, StoreKeeps
<1> QED
  BY <1>1, <1>2, <1>3, <1>4, <1>5, <1>6, <1>7 DEF Next, vars

(* Whatever is declared and however the processes interleave, a variable   *)
(* holds what was last stored in it, unless that store fell between the    *)
(* two halves of another process's store_bit on its cell.                  *)
THEOREM LostOnlyInOverlapTheorem == Spec => []LostOnlyInOverlap
<1>1. LInv => LostOnlyInOverlap
  <2> SUFFICES ASSUME LInv, NEW x \in Var, Separate(x), x \notin endangered
               PROVE  Load(shm, decl[x]) = {last[x]}
    BY DEF LostOnlyInOverlap
  <2>1. SeparateIn(shm, decl, x)
    BY DEF Separate, SeparateIn, Reliable, Var
  <2> QED
    BY <2>1 DEF LInv, Kept
<1> QED
  BY <1>1, LInvInit, LInvNext, PTL DEF Spec

(* What the registers of a memory hold and the operation on them completed *)
(* last.                                                                   *)
Held == [x \in {x \in Var : Private(x)} |-> CHOOSE d \in Load(shm, decl[x]) : TRUE]
DoneOnRegister == IF done # NoEvent /\ Private(done.var) THEN done ELSE NoEvent

PrivateVars(s, d) == {x \in DOMAIN d : PrivateIn(s, d, x)}

HeldOK ==
    /\ Held = [x \in PrivateVars(shm, decl) |-> last[x]]
    /\ \A x \in PrivateVars(shm, decl) : Load(shm, decl[x]) = {last[x]} /\ last[x] \in Datum

LEMMA HeldIsLast == LInv => HeldOK
<1> SUFFICES ASSUME LInv
             PROVE  HeldOK
  OBVIOUS
<1>1. \A x \in Var : Private(x) <=> PrivateIn(shm, decl, x)
  BY DEF Private, Separate, PrivateIn, SeparateIn, Reliable, Var
<1>2. ASSUME NEW x \in PrivateVars(shm, decl)
      PROVE  Load(shm, decl[x]) = {last[x]} /\ last[x] \in Datum
  <2>1. SeparateIn(shm, decl, x) /\ x \in Var /\ x \notin endangered
    BY DEF PrivateVars, PrivateIn, LInv, Var
  <2>2. Load(shm, decl[x]) = {last[x]}
    BY <2>1 DEF LInv, Kept
  <2>3. Reliable(shm, decl[x]) /\ MemoryOK(shm) /\ DeclOK(decl[x])
    BY <2>1 DEF LInv, IInv, SeparateIn
  <2>4. PICK d \in Datum : Load(shm, decl[x]) = {d}
    BY <2>3, LoadOneWord
  <2> QED
    BY <2>2, <2>4
<1>3. {x \in Var : Private(x)} = PrivateVars(shm, decl)
  BY <1>1 DEF PrivateVars, Var
<1>4. \A x \in PrivateVars(shm, decl) : (CHOOSE d \in Load(shm, decl[x]) : TRUE) = last[x]
  BY <1>2
<1> QED
  BY <1>2, <1>3, <1>4 DEF Held, HeldOK

(* The sizes of the memory and the declarations never change.              *)
LEMMA SizesKept ==
    ASSUME IInv, [Next]_vars
    PROVE  shm'.cell_size = shm.cell_size /\ shm'.size = shm.size /\ decl' = decl
<1>1. \A s, c, l, d : \A t \in store_whole(s, c, l, d) :
         t.cell_size = s.cell_size /\ t.size = s.size
  BY DEF store_whole, Written
<1>2. \A s, c, d : WriteCell(s, c, d).cell_size = s.cell_size /\ WriteCell(s, c, d).size = s.size
  BY DEF WriteCell, Written
<1> QED
  <2>1. \A p \in Proc, x \in Var : Throws(p, x) \/ Loads(p, x) \/ ReadsCell(p, x) =>
           shm' = shm /\ decl' = decl
    BY DEF Throws, Loads, ReadsCell, memoryVars
  <2>2. \A p \in Proc, x \in Var : StoresWhole(p, x) \/ LeavesMemory(p, x) =>
           shm'.cell_size = shm.cell_size /\ shm'.size = shm.size /\ decl' = decl
    BY <1>1 DEF StoresWhole, LeavesMemory
  <2>3. \A p \in Proc : WritesBack(p) =>
           shm'.cell_size = shm.cell_size /\ shm'.size = shm.size /\ decl' = decl
    <3> SUFFICES ASSUME NEW p \in Proc, WritesBack(p)
                 PROVE  shm'.cell_size = shm.cell_size /\ shm'.size = shm.size /\ decl' = decl
      OBVIOUS
    <3>1. decl' = decl /\ \E k, c : shm' = WriteCell(shm, k, c)
      BY DEF WritesBack
    <3> QED
      BY <1>2, <3>1
  <2> QED
    BY <2>1, <2>2, <2>3 DEF Next, vars, memoryVars

LEMMA PrivateKept ==
    ASSUME IInv, [Next]_vars
    PROVE  /\ \A x : Private(x) <=> PrivateIn(shm, decl, x)
           /\ \A x : Private(x)' <=> PrivateIn(shm, decl, x)
           /\ PrivateVars(shm', decl') = PrivateVars(shm, decl)
<1>1. shm'.cell_size = shm.cell_size /\ shm'.size = shm.size /\ decl' = decl
  BY SizesKept
<1>2. \A x : PrivateIn(shm', decl', x) <=> PrivateIn(shm, decl, x)
  BY <1>1, SameLayout, SameSizes DEF PrivateIn, SeparateIn, Reliable
<1>3. \A x : Private(x) <=> PrivateIn(shm, decl, x)
  BY DEF Private, Separate, PrivateIn, SeparateIn, Reliable, Var
<1>4. \A x : Private(x)' <=> PrivateIn(shm', decl', x)
  BY DEF Private, Separate, PrivateIn, SeparateIn, Reliable, Var
<1> QED
  BY <1>1, <1>2, <1>3, <1>4 DEF PrivateVars

THEOREM ImplementsRegistersTheorem == Spec => ImplementsRegisters
<1>1. Init => R!Init
  <2> SUFFICES ASSUME Init
               PROVE  R!Init
    OBVIOUS
  <2>1. LInv /\ done = NoEvent
    BY LInvInit DEF Init
  <2>2. Held \in [DOMAIN Held -> Datum]
    BY <2>1, HeldIsLast DEF HeldOK
  <2> QED
    BY <2>1, <2>2 DEF R!Init, Held, NoEvent, R!NoEvent
<1>2. LInv' => HeldOK'
  BY HeldIsLast, PTL
<1>3. LInv /\ LInv' /\ [Next]_vars => [R!Next]_<<Held, DoneOnRegister>>
  <2> SUFFICES ASSUME LInv, LInv', [Next]_vars
               PROVE  [R!Next]_<<Held, DoneOnRegister>>
    OBVIOUS
  <2> DEFINE D == PrivateVars(shm, decl)
  <2>1. /\ Held = [x \in D |-> last[x]] /\ Held' = [x \in D |-> last'[x]]
        /\ \A x \in D : Load(shm, decl[x]) = {last[x]} /\ last[x] \in Datum
        /\ \A x \in D : last'[x] \in Datum
        /\ D \subseteq Var /\ last = [x \in Var |-> last[x]]
    <3>1. PrivateVars(shm', decl') = D
      BY PrivateKept DEF LInv
    <3>2. /\ Held' = [x \in PrivateVars(shm', decl') |-> last'[x]]
          /\ \A x \in PrivateVars(shm', decl') : last'[x] \in Datum
      BY <1>2 DEF HeldOK
    <3> QED
      BY <3>1, <3>2, HeldIsLast DEF PrivateVars, Var, LInv, HeldOK
  <2>2. /\ \A x \in Var : Private(x) <=> x \in D
        /\ \A x \in Var : Private(x)' <=> x \in D
        /\ \A x : Private(x)' <=> Private(x)
    BY PrivateKept DEF LInv, PrivateVars, Var
  <2> HIDE DEF D
  <2>3. ASSUME done' = NoEvent, UNCHANGED last
        PROVE  R!Next
    <3>1. Held' = Held /\ DoneOnRegister' = NoEvent
      BY <2>1, <2>3 DEF DoneOnRegister
    <3> QED
      BY <3>1 DEF R!Next, R!Other, R!NoEvent, NoEvent, Held, DoneOnRegister
  <2>4. ASSUME UNCHANGED <<done, last>>
        PROVE  UNCHANGED <<Held, DoneOnRegister>>
    <3>1. Held' = Held
      BY <2>1, <2>4
    <3>2. DoneOnRegister' = DoneOnRegister
      BY <2>2, <2>4 DEF DoneOnRegister
    <3> QED
      BY <3>1, <3>2
  <2>5. ASSUME NEW p \in Proc, NEW x \in Var, Loads(p, x)
        PROVE  R!Next
    <3>1. PICK d \in Load(shm, decl[x]) : done' = [op |-> "load", var |-> x, data |-> d]
      BY <2>5 DEF Loads, Completed
    <3>2. done' # NoEvent /\ done'.var = x /\ done'.data = d
      BY <3>1 DEF NoEvent
    <3>3. Held' = Held
      BY <2>1, <2>5 DEF Loads
    <3>4. CASE x \in D
      <4>1. DoneOnRegister' = done' /\ Held[x] = d /\ d \in Datum /\ DOMAIN Held = D
        BY <2>1, <2>2, <3>2, <3>4 DEF DoneOnRegister
      <4>2. R!Load
        BY <3>1, <3>2, <3>3, <3>4, <4>1 DEF R!Load, Held, DoneOnRegister
      <4> QED
        BY <4>2 DEF R!Next
    <3>5. CASE x \notin D
      <4>1. DoneOnRegister' = NoEvent
        BY <2>2, <3>2, <3>5 DEF DoneOnRegister
      <4> QED
        BY <3>3, <4>1 DEF R!Next, R!Other, R!NoEvent, NoEvent, Held, DoneOnRegister
    <3> QED
      BY <3>4, <3>5
  <2>6. ASSUME NEW p \in Proc, NEW x \in Var, NEW w, Stored(p, x, w)
        PROVE  R!Next
    <3> DEFINE d == Fit(decl[x], w)
    <3>1. done' = [op |-> "store", var |-> x, data |-> d] /\ last' = [last EXCEPT ![x] = d]
      BY <2>6 DEF Stored, Completed
    <3> HIDE DEF d
    <3>2. done' # NoEvent /\ done'.var = x /\ done'.data = d
      BY <3>1 DEF NoEvent
    <3>3. last'[x] = d
      BY <2>1, <3>1
    <3>4. CASE x \in D
      <4>1. /\ DoneOnRegister' = done' /\ d \in Datum /\ DOMAIN Held = D
            /\ Held' = [Held EXCEPT ![x] = d]
        BY <2>1, <2>2, <3>1, <3>2, <3>3, <3>4 DEF DoneOnRegister
      <4>2. R!Store
        BY <3>1, <3>2, <3>4, <4>1 DEF R!Store, Held, DoneOnRegister
      <4> QED
        BY <4>2 DEF R!Next
    <3>5. CASE x \notin D
      <4>1. DoneOnRegister' = NoEvent /\ Held' = Held
        BY <2>1, <2>2, <3>1, <3>2, <3>5 DEF DoneOnRegister
      <4> QED
        BY <4>1 DEF R!Next, R!Other, R!NoEvent, NoEvent, Held, DoneOnRegister
    <3> QED
      BY <3>4, <3>5
  <2>7. ASSUME NEW p \in Proc, WritesBack(p)
        PROVE  access[p].var \in Var /\ Stored(p, access[p].var, access[p].word)
    BY <2>7, PendingAccess DEF WritesBack, LInv
  <2>8. CASE UNCHANGED vars
    BY <2>4, <2>8 DEF vars
  <2>9. ASSUME NEW p \in Proc, NEW x \in Var, Throws(p, x) \/ LeavesMemory(p, x)
        PROVE  R!Next
    BY <2>3, <2>9 DEF Throws, LeavesMemory
  <2>10. ASSUME NEW p \in Proc, NEW x \in Var, ReadsCell(p, x)
         PROVE  UNCHANGED <<Held, DoneOnRegister>>
    BY <2>4, <2>10 DEF ReadsCell
  <2>11. ASSUME NEW p \in Proc, NEW x \in Var, StoresWhole(p, x)
         PROVE  R!Next
    BY <2>6, <2>11 DEF StoresWhole
  <2>12. ASSUME NEW p \in Proc, WritesBack(p)
         PROVE  R!Next
    BY <2>6, <2>7, <2>12
  <2> QED
    BY <2>5, <2>8, <2>9, <2>10, <2>11, <2>12 DEF Next
<1> QED
  BY <1>1, <1>3, LInvInit, LInvNext, PTL DEF Spec, ImplementsRegisters, R!Spec, Held, DoneOnRegister

(* A store of any type but those of 64 bits, of a bit beyond the int the   *)
(* mask is built in and of one in the half of a 2 byte cell load_bit does  *)
(* not look at reads back at once, as Memory.hpp promises of every type.   *)
ReliableReadsBack ==
    done' # done /\ done'.op = "store" /\ Reliable(shm, decl[done'.var]) =>
        Load(shm', decl[done'.var]) = {done'.data}

THEOREM ReliableReadsBackTheorem == Spec => [][ReliableReadsBack]_vars
<1>1. IInv /\ [Next]_vars => [ReliableReadsBack]_vars
  <2> SUFFICES ASSUME IInv, Next, done' # done, done'.op = "store",
                      Reliable(shm, decl[done'.var])
               PROVE  Load(shm', decl[done'.var]) = {done'.data}
    BY DEF ReliableReadsBack
  <2> MemoryOK(shm) /\ \A x \in Var : DeclOK(decl[x])
    BY DEF IInv
  <2>1. NoEvent.op = "none"
    BY DEF NoEvent
  <2>2. ASSUME NEW p \in Proc, NEW x \in Var, StoresWhole(p, x)
        PROVE  Load(shm', decl[done'.var]) = {done'.data}
    <3>1. PICK d \in Data(decl[x].type) :
             /\ shm' \in store_whole(shm, decl[x].cell, Layout_(decl[x]), d)
             /\ Stored(p, x, d)
      BY <2>2 DEF StoresWhole
    <3>2. d \in Datum /\ ~IsBit(decl[x])
      BY <2>2, <3>1, DataAssumption DEF DeclOK, StoresWhole
    <3>3. done'.var = x /\ done'.data = Fit(decl[x], d)
      BY <3>1 DEF Stored, Completed
    <3> QED
      BY <3>1, <3>2, <3>3, WholeReadsBack
  <2>3. ASSUME NEW p \in Proc, WritesBack(p)
        PROVE  Load(shm', decl[done'.var]) = {done'.data}
    <3> DEFINE v == decl[access[p].var]
    <3> DEFINE copy == access[p].cell
    <3> DEFINE w == access[p].word
    <3>1. access[p].step = "write back" /\ Stored(p, access[p].var, w)
      BY <2>3 DEF WritesBack
    <3>2. done'.var = access[p].var /\ done'.data = Fit(v, w)
      BY <3>1 DEF Stored, Completed
    <3>3. PICK c \in BitStored(copy, shm.cell_size, v.index, v.type = "le1", w # Zero) :
             shm' = WriteCell(shm, v.cell, c)
      BY <2>3 DEF WritesBack
    <3>4. /\ DeclOK(v) /\ IsBit(v) /\ Reliable(shm, v) /\ w \in Datum
          /\ copy \in Bytes(shm.cell_size) /\ decl[done'.var] = v
      BY <3>1, <3>2, PendingAccess
    <3> HIDE DEF v, copy, w
    <3> QED
      BY <3>2, <3>3, <3>4, BitReadsBack
  <2>4. ASSUME NEW p \in Proc, NEW x \in Var,
               Throws(p, x) \/ Loads(p, x) \/ ReadsCell(p, x) \/ LeavesMemory(p, x)
        PROVE  FALSE
    <3>1. done' = NoEvent \/ done' = done \/ done'.op = "load"
      <4>1. Throws(p, x) \/ LeavesMemory(p, x) => done' = NoEvent
        BY DEF Throws, LeavesMemory
      <4>2. ReadsCell(p, x) => done' = done
        BY DEF ReadsCell
      <4>3. Loads(p, x) => done'.op = "load"
        <5>1. \A d : Completed("load", x, d) => done'.op = "load"
          BY DEF Completed
        <5> QED
          BY <5>1 DEF Loads
      <4> QED
        BY <2>4, <4>1, <4>2, <4>3
    <3> QED
      BY <2>1, <3>1
  <2> QED
    BY <2>2, <2>3, <2>4 DEF Next
<1> QED
  BY <1>1, IInvInit, IInvNext, PTL DEF Spec

=============================================================================
