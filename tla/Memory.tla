------------------------------- MODULE Memory -------------------------------
(***************************************************************************)
(* The memories of Memory.cpp.                                             *)
(*                                                                         *)
(* A MemoryReal is a record: cell_size, the size in bytes that get_size()  *)
(* gives, and `bytes', which maps an address to the set of its bits that   *)
(* are 1.  A value of n bytes is a function on 0..n-1, least significant   *)
(* byte first, which is also how the little endian host keeps it in        *)
(* memory; a word of the stack machine is a value of 8 bytes.              *)
(*                                                                         *)
(* Each load or store gives the SET of the values it may return, or of the *)
(* memories it may leave: empty where it throws, several where the code    *)
(* has undefined behaviour.                                                *)
(***************************************************************************)
EXTENDS Integers

CONSTANTS
    ByteBits,   \* bits in a byte: 8, or fewer to keep the states few
    SizeMax     \* the largest std::size_t

(* A std::size_t tells the bytes of a word apart.                          *)
ASSUME ByteAssumption == ByteBits \in Nat \ {0} /\ SizeMax \in Nat /\ SizeMax >= 7

Byte == SUBSET (0..ByteBits - 1)
WordBytes == 8
Datum == [0..WordBytes - 1 -> Byte]

(* An int and a 32 bit value; the type a shift is computed in.             *)
IntBits == 4 * ByteBits

CellSizes == {1, 2, 4, 8}

Zero == [k \in 0..WordBytes - 1 |-> {}]
One == [Zero EXCEPT ![0] = {0}]
ZeroExtended(d, n) == [k \in 0..WordBytes - 1 |-> IF k < n THEN d[k] ELSE {}]

(* endian::swap on n bytes, and the test in front of it on a host that is  *)
(* little endian.                                                          *)
swap(d, n) == [k \in 0..n - 1 |-> d[n - 1 - k]]
Ordered(d, n, little) == IF little THEN d ELSE swap(d, n)

(* The n bytes at an address, and memory s with d written there.  An       *)
(* address is a pointer: base + k wraps, and what lies beyond the memory   *)
(* is not ours.                                                            *)
Address(base, k) == IF base + k <= SizeMax THEN base + k ELSE base + k - (SizeMax + 1)
BytesAt(s, base, n) == [k \in 0..n - 1 |-> s.bytes[Address(base, k)]]
Offset(base, a) == IF a >= base THEN a - base ELSE a + SizeMax + 1 - base
Written(s, base, d, n) ==
    [cell_size |-> s.cell_size, size |-> s.size,
     bytes |-> [a \in 0..s.size - 1 |->
        IF Offset(base, a) < n THEN d[Offset(base, a)] ELSE s.bytes[a]]]

-----------------------------------------------------------------------------
(* Bits.                                                                   *)

(* The check of load_bit and store_bit.  The bound on the index is that of *)
(* the source: cell * 8, not the width of the cell.                        *)
BitInRange(s, cell, index) ==
    cell < s.size \div s.cell_size /\ index < cell * ByteBits

(* The positions of the n byte value d that are 1; the positions of byte k *)
(* among the positions r.                                                  *)
Ones(d, n) == {p \in 0..n * ByteBits - 1 : p % ByteBits \in d[p \div ByteBits]}
InByte(r, k) == {b \in 0..ByteBits - 1 : k * ByteBits + b \in r}

(* What data >> index brings down to bit 0.  The data is an int or a 32    *)
(* bit value, 64 bits for an 8 byte cell; a shift by its width or more is  *)
(* undefined: the processor takes the count modulo the width, or the build *)
(* shifts in a wider register and finds nothing.                           *)
LoadReach(cell_size, index) ==
    LET width == IF cell_size = 8 THEN 2 * IntBits ELSE IntBits
    IN  IF index < width THEN {{index}} ELSE {{index % width}, {}}

(* A 2 byte cell is read through a pointer to uint8_t: its second byte is  *)
(* not there.                                                              *)
BitData(s, cell) ==
    IF s.cell_size = 2
    THEN [k \in 0..1 |-> IF k = 0 THEN s.bytes[2 * cell] ELSE {}]
    ELSE BytesAt(s, cell * s.cell_size, s.cell_size)

load_bit(s, cell, index, little) ==
    IF BitInRange(s, cell, index)
    THEN LET ones == Ones(Ordered(BitData(s, cell), s.cell_size, little), s.cell_size)
         IN  {IF r \cap ones # {} THEN 1 ELSE 0 : r \in LoadReach(s.cell_size, index)}
    ELSE {}

(* What 0x1 << index covers: 0x1 is an int, so its top bit is extended to  *)
(* all higher positions of a wider cell, and a shift by the width of an    *)
(* int or more is undefined: taken modulo the width, done in a wider       *)
(* register, or nothing.                                                   *)
IntMask(i) == IF i = IntBits - 1 THEN i..2 * IntBits - 1 ELSE {i}
StoreReach(index) ==
    IF index < IntBits THEN {IntMask(index)} ELSE {IntMask(index % IntBits), {index}, {}}

(* Mutation: the bit is set where it is 1 but not masked where it is 0.    *)
PutBitsUnmasked(d, n, r, set) ==
    [k \in 0..n - 1 |-> IF set THEN d[k] \cup InByte(r, k) ELSE d[k]]

(* Mutation: the other bits of the cell are not kept.                      *)
PutBitsAlone(d, n, r, set) == [k \in 0..n - 1 |-> IF set THEN InByte(r, k) ELSE {}]

(* Mask the positions r, and set them when the bit is 1.                   *)
PutBits(d, n, r, set) ==
    [k \in 0..n - 1 |-> IF set THEN d[k] \cup InByte(r, k) ELSE d[k] \ InByte(r, k)]

(* Mutation: one byte is read, as load_bit does of a 2 byte cell.          *)
ReadCellByte(s, cell) == BytesAt(s, cell * s.cell_size, 1)

(* store_bit in two halves: the cell as read, and the cells it may write   *)
(* back.                                                                   *)
ReadCell(s, cell) == BytesAt(s, cell * s.cell_size, s.cell_size)
BitStored(data, cell_size, index, little, set) ==
    {Ordered(PutBits(Ordered(data, cell_size, little), cell_size, r, set), cell_size, little) :
        r \in StoreReach(index)}
WriteCell(s, cell, data) == Written(s, cell * s.cell_size, data, s.cell_size)

(* Both halves at once, as where no other process writes in between.       *)
store_bit(s, cell, index, little, set) ==
    IF BitInRange(s, cell, index)
    THEN {WriteCell(s, cell, d) :
            d \in BitStored(ReadCell(s, cell), s.cell_size, index, little, set)}
    ELSE {}

-----------------------------------------------------------------------------
(* Whole values.                                                           *)

(* How load and store dispatch a type: its width in bytes, its byte order  *)
(* and the reg_swap argument.                                              *)
Layout(width, little, reg_swap) == [width |-> width, little |-> little, reg_swap |-> reg_swap]
WholeTypes ==
    [byte |-> Layout(1, TRUE, 0),
     le16 |-> Layout(2, TRUE, 0), be16 |-> Layout(2, FALSE, 0),
     le32 |-> Layout(4, TRUE, 0), be32 |-> Layout(4, FALSE, 0),
     le32r |-> Layout(4, TRUE, 2), be32r |-> Layout(4, FALSE, 2),
     le64 |-> Layout(8, TRUE, 0), be64 |-> Layout(8, FALSE, 0),
     le64r |-> Layout(8, TRUE, 2), be64r |-> Layout(8, FALSE, 2),
     le64r4 |-> Layout(8, TRUE, 4), be64r4 |-> Layout(8, FALSE, 4)]

(* 8 byte cells are too large for every whole type, 64 bit ones included.  *)
LargestCell(width) == IF width = 8 THEN 4 ELSE width

(* cell * cell_size and the last address of the value are computed in      *)
(* size_t, where they wrap.                                                *)
Base(s, cell) == (cell * s.cell_size) % (SizeMax + 1)
LastAddress(s, cell, width) == (cell * s.cell_size + width - 1) % (SizeMax + 1)

(* Mutation: the check looks at the first byte of the value only.          *)
WholeInRangeFirstByte(s, cell, width) ==
    s.cell_size <= LargestCell(width) /\ LastAddress(s, cell, 1) < s.size

WholeInRange(s, cell, width) ==
    s.cell_size <= LargestCell(width) /\ LastAddress(s, cell, width) < s.size

(* std::swap on the 16 bit registers of a 32 bit and of a 64 bit value,    *)
(* and on the 32 bit registers of the latter.                              *)
SwapHalves(d) == [k \in 0..3 |-> d[(k + 2) % 4]]
Reverse16(d) == [k \in 0..7 |-> d[2 * (3 - (k \div 2)) + (k % 2)]]
Swap32(d) == [k \in 0..7 |-> d[(k + 4) % 8]]

(* reg32 of store_64 is declared as two 16 bit registers: the swap moves   *)
(* the lower half only.                                                    *)
Swap32Store(d) == [k \in 0..7 |-> IF k < 4 THEN d[(k + 2) % 4] ELSE d[k]]

LoadRegisters(d, l) ==
    CASE l.reg_swap = 0 -> d
      [] l.reg_swap = 2 /\ l.width = 4 -> SwapHalves(d)
      [] l.reg_swap = 2 /\ l.width = 8 -> Reverse16(d)
      [] l.reg_swap = 4 -> Swap32(d)
StoreRegisters(d, l) == IF l.reg_swap = 4 THEN Swap32Store(d) ELSE LoadRegisters(d, l)

(* load_64 reads 32 bits, which are extended before they are swapped.      *)
ReadWidth(width) == IF width = 8 THEN 4 ELSE width

(* load_byte, load_16, load_32, load_64.                                   *)
load_whole(s, cell, l) ==
    IF WholeInRange(s, cell, l.width)
    THEN LET raw == BytesAt(s, Base(s, cell), ReadWidth(l.width))
             data == [k \in 0..l.width - 1 |-> IF k < ReadWidth(l.width) THEN raw[k] ELSE {}]
         IN  {ZeroExtended(LoadRegisters(Ordered(data, l.width, l.little), l), l.width)}
    ELSE {}

(* Mutation: the byte order of the type is ignored.                        *)
StoredBytesUnordered(data, l) == StoreRegisters([k \in 0..l.width - 1 |-> data[k]], l)

(* store_byte, store_16, store_32, store_64.                               *)
StoredBytes(data, l) ==
    StoreRegisters(Ordered([k \in 0..l.width - 1 |-> data[k]], l.width, l.little), l)
store_whole(s, cell, l, data) ==
    IF WholeInRange(s, cell, l.width)
    THEN {Written(s, Base(s, cell), StoredBytes(data, l), l.width)}
    ELSE {}

-----------------------------------------------------------------------------
(* MemoryLocal: cells of one word.  parse_var declares all of them le64,   *)
(* whose mask keeps every bit.                                             *)
LoadLocal(cells, cell) == {cells[c] : c \in {cell} \cap DOMAIN cells}
StoreLocal(cells, cell, data) ==
    {[cells EXCEPT ![c] = data] : c \in {cell} \cap DOMAIN cells}

-----------------------------------------------------------------------------
(* All memories of a small machine together, for programs whose variables  *)
(* are local cells and little endian bits; a word is then a number.        *)
LocalCell(c) == [mem |-> "local", cell |-> c]
SharedBit(c, i) == [mem |-> "shm", cell |-> c, index |-> i]

load(m, a) ==
    IF a.mem = "local" THEN LoadLocal(m.local, a.cell)
    ELSE load_bit(m.shm, a.cell, a.index, TRUE)
store(m, a, data) ==
    IF a.mem = "local"
    THEN {[m EXCEPT !.local = cells] : cells \in StoreLocal(m.local, a.cell, data)}
    ELSE {[m EXCEPT !.shm = s] : s \in store_bit(m.shm, a.cell, a.index, TRUE, data # 0)}

=============================================================================
