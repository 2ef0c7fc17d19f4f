---------------------------- MODULE ToggleProofs ----------------------------
(***************************************************************************)
(* Theorems about programs whose variables are local cells and bits of     *)
(* shared cells of one byte, with the memories of Memory: what init()      *)
(* stores reads back, and examples/toggle_ff.stackm does what it says.     *)
(***************************************************************************)
EXTENDS MCToggle, MachineProofs

-----------------------------------------------------------------------------
(* Memories that consist of local cells and a shared memory of one byte    *)
(* cells, and the places in them.                                          *)
ByteMemory(m) ==
    /\ m = [local |-> m.local, shm |-> m.shm]
    /\ m.local = [c \in DOMAIN m.local |-> m.local[c]]
    /\ m.shm = [cell_size |-> 1, size |-> m.shm.size, bytes |-> m.shm.bytes]
    /\ m.shm.size \in Nat /\ m.shm.size <= SizeMax + 1
    /\ m.shm.bytes \in [0..m.shm.size - 1 -> Byte]

(* A local cell, or a bit of the byte it is declared in.                   *)
Places == {LocalCell(c) : c \in Nat}
          \cup {SharedBit(c, i) : c \in Nat, i \in 0..ByteBits - 1}

InMemory(m, a) ==
    IF a.mem = "local" THEN a.cell \in DOMAIN m.local
    ELSE a.cell < m.shm.size /\ a.index < a.cell * ByteBits

(* What is at a place, and what a store of x makes of it.                  *)
Content(m, a) ==
    IF a.mem = "local" THEN m.local[a.cell]
    ELSE IF a.index \in m.shm.bytes[a.cell] THEN 1 ELSE 0
Kept(a, x) == IF a.mem = "local" THEN x ELSE IF x # 0 THEN 1 ELSE 0

(* Bit i of a byte by itself: the masks of load_bit and store_bit.         *)
LEMMA OneBit ==
    ASSUME NEW i \in 0..ByteBits - 1, NEW d \in [{0} -> Byte]
    PROVE  /\ LoadReach(1, i) = {{i}}
           /\ Ones(Ordered(d, 1, TRUE), 1) \cap {i} = d[0] \cap {i}
           /\ StoreReach(i) = {IntMask(i)}
           /\ InByte(IntMask(i), 0) = {i}
<1>1. ByteBits \in Nat \ {0} /\ i \in Nat /\ i < ByteBits
  BY ByteAssumption
<1>2. LoadReach(1, i) = {{i}} /\ StoreReach(i) = {IntMask(i)}
  BY <1>1 DEF LoadReach, StoreReach, IntBits
<1>3. i \div ByteBits = 0 /\ i % ByteBits = i
  BY <1>1
<1>4. Ones(Ordered(d, 1, TRUE), 1) = {p \in 0..1 * ByteBits - 1 : p % ByteBits \in d[p \div ByteBits]}
  BY DEF Ones, Ordered
<1>5. 1 * ByteBits - 1 = ByteBits - 1
  BY <1>1
<1>6. Ones(Ordered(d, 1, TRUE), 1) \cap {i} = d[0] \cap {i}
  <2>1. i \in Ones(Ordered(d, 1, TRUE), 1) <=> i \in d[0]
    BY <1>1, <1>3, <1>4, <1>5
  <2> QED
    BY <2>1
<1>7. InByte(IntMask(i), 0) = {i}
  BY <1>1 DEF InByte, IntMask, IntBits
<1> QED
  BY <1>2, <1>6, <1>7

(* A load gives what is at the place, or throws.                           *)
LEMMA LoadIs ==
    ASSUME NEW m, ByteMemory(m), NEW a \in Places
    PROVE  load(m, a) = IF InMemory(m, a) THEN {Content(m, a)} ELSE {}
<1>1. CASE a.mem = "local"
  BY <1>1 DEF load, LoadLocal, InMemory, Content
<1>2. CASE a.mem # "local"
  <2>1. PICK c \in Nat, i \in 0..ByteBits - 1 : a = SharedBit(c, i)
    BY <1>2 DEF Places, LocalCell
  <2> DEFINE s == m.shm
  <2>2. /\ s.cell_size = 1 /\ s.size \in Nat /\ s.bytes \in [0..s.size - 1 -> Byte]
        /\ s.size <= SizeMax + 1 /\ SizeMax \in Nat /\ ByteBits \in Nat
    BY ByteAssumption DEF ByteMemory
  <2>3. load(m, a) = load_bit(s, c, i, TRUE) /\ a.cell = c /\ a.index = i
    BY <2>1, <1>2 DEF load, SharedBit
  <2>4. s.size \div 1 = s.size /\ c * 1 = c
    BY <2>2
  <2>5. BitInRange(s, c, i) <=> InMemory(m, a)
    BY <2>2, <2>3, <2>4, <1>2 DEF BitInRange, InMemory
  <2>6. CASE ~InMemory(m, a)
    BY <2>3, <2>5, <2>6 DEF load_bit
  <2>7. CASE InMemory(m, a)
    <3>1. c \in 0..s.size - 1
      <4>1. c < s.size
        BY <2>3, <2>7, <1>2 DEF InMemory
      <4> QED
        BY <4>1, <2>2
    <3>2. BitData(s, c) = [k \in 0..0 |-> s.bytes[Address(c, k)]]
      BY <2>2, <2>4 DEF BitData, BytesAt
    <3>3. BitData(s, c) = [k \in {0} |-> s.bytes[c]]
      BY <3>1, <3>2, <2>2 DEF Address
    <3>4. BitData(s, c) \in [{0} -> Byte] /\ BitData(s, c)[0] = s.bytes[c]
      BY <3>1, <3>3, <2>2
    <3> HIDE DEF s
    <3>9. LoadReach(1, i) = {{i}}
      BY OneBit, <3>4
    <3>5. load_bit(s, c, i, TRUE)
            = {IF r \cap Ones(Ordered(BitData(s, c), 1, TRUE), 1) # {} THEN 1 ELSE 0 : r \in {{i}}}
      BY <2>2, <2>5, <2>7, <3>9 DEF load_bit
    <3>6. load_bit(s, c, i, TRUE)
            = {IF {i} \cap Ones(Ordered(BitData(s, c), 1, TRUE), 1) # {} THEN 1 ELSE 0}
      BY <3>5
    <3>7. (i \in s.bytes[c]) <=> {i} \cap Ones(Ordered(BitData(s, c), 1, TRUE), 1) # {}
      <4>1. Ones(Ordered(BitData(s, c), 1, TRUE), 1) \cap {i} = s.bytes[c] \cap {i}
        BY OneBit, <3>4
      <4> QED
        BY <4>1
    <3>8. Content(m, a) = IF i \in s.bytes[c] THEN 1 ELSE 0
      BY <1>2, <2>3 DEF Content, s
    <3> QED
      BY <2>3, <2>7, <3>6, <3>7, <3>8
  <2> QED
    BY <2>6, <2>7
<1> QED
  BY <1>1, <1>2

(* A store changes the place and no other, or throws.                      *)
LEMMA StoreIs ==
    ASSUME NEW m, ByteMemory(m), NEW a \in Places, NEW x
    PROVE  /\ ~InMemory(m, a) => store(m, a, x) = {}
           /\ InMemory(m, a) => store(m, a, x) # {}
           /\ \A n \in store(m, a, x) :
                 /\ ByteMemory(n)
                 /\ \A b \in Places : InMemory(n, b) = InMemory(m, b)
                 /\ Content(n, a) = Kept(a, x)
                 /\ \A b \in Places : b # a /\ InMemory(m, b) => Content(n, b) = Content(m, b)
                 /\ n.shm.size = m.shm.size
                 /\ DOMAIN n.local = DOMAIN m.local
                 /\ \A c \in DOMAIN m.local : n.local[c] \in {m.local[c], x}
<1>1. CASE a.mem = "local"
  <2>1. \A b \in Places : b.mem = "local" => b = LocalCell(b.cell)
    BY DEF Places, LocalCell, SharedBit
  <2>2. store(m, a, x) = {[m EXCEPT !.local = cells] : cells \in StoreLocal(m.local, a.cell, x)}
    BY <1>1 DEF store
  <2>3. ~InMemory(m, a) => store(m, a, x) = {}
    BY <1>1, <2>2 DEF StoreLocal, InMemory
  <2>4. ASSUME InMemory(m, a)
        PROVE  store(m, a, x) = {[m EXCEPT !.local = [m.local EXCEPT ![a.cell] = x]]}
    BY <1>1, <2>2, <2>4 DEF StoreLocal, InMemory
  <2>5. ASSUME InMemory(m, a), NEW n, n = [m EXCEPT !.local = [m.local EXCEPT ![a.cell] = x]]
        PROVE  /\ ByteMemory(n)
               /\ \A b \in Places : InMemory(n, b) = InMemory(m, b)
               /\ Content(n, a) = Kept(a, x)
               /\ \A b \in Places : b # a /\ InMemory(m, b) => Content(n, b) = Content(m, b)
               /\ n.shm.size = m.shm.size
               /\ DOMAIN n.local = DOMAIN m.local
               /\ \A c \in DOMAIN m.local : n.local[c] \in {m.local[c], x}
    <3> DEFINE cells == [m.local EXCEPT ![a.cell] = x]
    <3>1. n.local = cells /\ n.shm = m.shm /\ n = [local |-> n.local, shm |-> n.shm]
      BY <2>5 DEF ByteMemory
    <3>2. /\ DOMAIN cells = DOMAIN m.local /\ cells = [c \in DOMAIN cells |-> cells[c]]
          /\ cells[a.cell] = x
          /\ \A c \in DOMAIN m.local : c # a.cell => cells[c] = m.local[c]
      BY <1>1, <2>5 DEF ByteMemory, InMemory
    <3> HIDE DEF cells
    <3>3. ByteMemory(n)
      BY <3>1, <3>2 DEF ByteMemory
    <3>4. \A b \in Places : InMemory(n, b) = InMemory(m, b)
      BY <3>1, <3>2 DEF InMemory
    <3>5. Content(n, a) = Kept(a, x)
      BY <1>1, <3>1, <3>2 DEF Content, Kept
    <3>6. \A b \in Places : b # a /\ InMemory(m, b) => Content(n, b) = Content(m, b)
      <4> SUFFICES ASSUME NEW b \in Places, b # a, InMemory(m, b) PROVE Content(n, b) = Content(m, b)
        OBVIOUS
      <4>1. CASE b.mem = "local"
        <5>1. b.cell # a.cell
          BY <1>1, <2>1, <4>1
        <5>2. cells[b.cell] = m.local[b.cell]
          BY <5>1, <3>2, <4>1 DEF InMemory
        <5> QED
          BY <4>1, <5>2, <3>1 DEF Content
      <4>2. CASE b.mem # "local"
        BY <4>2, <3>1 DEF Content
      <4> QED
        BY <4>1, <4>2
    <3> QED
      BY <3>1, <3>2, <3>3, <3>4, <3>5, <3>6
  <2> QED
    BY <2>3, <2>4, <2>5
<1>2. CASE a.mem # "local"
  <2>1. PICK c \in Nat, i \in 0..ByteBits - 1 : a = SharedBit(c, i)
    BY <1>2 DEF Places, LocalCell
  <2> DEFINE s == m.shm
             bit == IF x # 0 THEN s.bytes[c] \cup {i} ELSE s.bytes[c] \ {i}
             after == [cell_size |-> 1, size |-> s.size, bytes |-> [s.bytes EXCEPT ![c] = bit]]
  <2>2. /\ s.cell_size = 1 /\ s.size \in Nat /\ s.bytes \in [0..s.size - 1 -> Byte]
        /\ s.size <= SizeMax + 1 /\ SizeMax \in Nat /\ ByteBits \in Nat
        /\ s = [cell_size |-> 1, size |-> s.size, bytes |-> s.bytes]
    BY ByteAssumption DEF ByteMemory
  <2>3. /\ store(m, a, x) = {[m EXCEPT !.shm = t] : t \in store_bit(s, c, i, TRUE, x # 0)}
        /\ a.cell = c /\ a.index = i
    BY <2>1, <1>2 DEF store, SharedBit
  <2>4. s.size \div 1 = s.size /\ c * 1 = c
    BY <2>2
  <2>5. BitInRange(s, c, i) <=> InMemory(m, a)
    BY <2>2, <2>3, <2>4, <1>2 DEF BitInRange, InMemory
  <2>6. CASE ~InMemory(m, a)
    BY <2>3, <2>5, <2>6 DEF store_bit
  <2>7. CASE InMemory(m, a)
    <3>1. c \in 0..s.size - 1
      BY <2>2, <2>3, <2>7, <1>2 DEF InMemory
    <3> DEFINE d == ReadCell(s, c)
    <3>2. d = [k \in 0..0 |-> s.bytes[Address(c, k)]]
      BY <2>2, <2>4 DEF ReadCell, BytesAt
    <3>3. d = [k \in {0} |-> s.bytes[c]]
      BY <3>1, <3>2, <2>2 DEF Address
    <3>4. d \in [{0} -> Byte] /\ d[0] = s.bytes[c]
      BY <3>1, <3>3, <2>2
    <3> HIDE DEF d, s
    <3>5. BitStored(d, 1, i, TRUE, x # 0) = {PutBits(d, 1, IntMask(i), x # 0)}
      BY OneBit, <3>4 DEF BitStored, Ordered
    <3>6. PutBits(d, 1, IntMask(i), x # 0) = [k \in 0..0 |-> bit]
      <4>1. \A k \in 0..0 : k = 0
        OBVIOUS
      <4>2. InByte(IntMask(i), 0) = {i}
        BY OneBit, <3>4
      <4>3. 1 - 1 = 0
        OBVIOUS
      <4> QED
        BY <4>1, <4>2, <4>3, <3>4 DEF PutBits
    <3>7. store_bit(s, c, i, TRUE, x # 0) = {WriteCell(s, c, [k \in 0..0 |-> bit])}
      BY <2>2, <2>5, <2>7, <3>5, <3>6 DEF store_bit, d
    <3>8. WriteCell(s, c, [k \in 0..0 |-> bit]) = after
      <4>1. /\ WriteCell(s, c, [k \in 0..0 |-> bit]).bytes
                 = [at \in 0..s.size - 1 |-> IF Offset(c, at) < 1 THEN [k \in 0..0 |-> bit][Offset(c, at)]
                                             ELSE s.bytes[at]]
            /\ WriteCell(s, c, [k \in 0..0 |-> bit])
                 = [cell_size |-> 1, size |-> s.size, bytes |-> WriteCell(s, c, [k \in 0..0 |-> bit]).bytes]
        BY <2>2, <2>4 DEF WriteCell, Written
      <4>2. \A at \in 0..s.size - 1 : /\ Offset(c, at) \in Nat
                                      /\ Offset(c, at) < 1 <=> at = c
                                      /\ at = c => Offset(c, at) = 0
        <5> SUFFICES ASSUME NEW at \in 0..s.size - 1
                     PROVE  /\ Offset(c, at) \in Nat
                            /\ Offset(c, at) < 1 <=> at = c
                            /\ at = c => Offset(c, at) = 0
          OBVIOUS
        <5>1. at \in Nat /\ c \in Nat /\ SizeMax \in Nat /\ c <= SizeMax /\ at <= SizeMax
          BY <2>2, <3>1
        <5>2. CASE at >= c
          BY <5>1, <5>2 DEF Offset
        <5>3. CASE at < c
          BY <5>1, <5>3 DEF Offset
        <5> QED
          BY <5>1, <5>2, <5>3
      <4>3. [k \in 0..0 |-> bit][0] = bit
        OBVIOUS
      <4>4. WriteCell(s, c, [k \in 0..0 |-> bit]).bytes = [s.bytes EXCEPT ![c] = bit]
        BY <4>1, <4>2, <4>3, <2>2
      <4> QED
        BY <4>1, <4>4
    <3>9. store(m, a, x) = {[m EXCEPT !.shm = after]}
      <4>1. store_bit(s, c, i, TRUE, x # 0) = {after}
        BY <3>7, <3>8
      <4> HIDE DEF after
      <4> QED
        BY <2>3, <4>1
    <3> SUFFICES ASSUME NEW n, n = [m EXCEPT !.shm = after]
                 PROVE  /\ ByteMemory(n)
                        /\ \A b \in Places : InMemory(n, b) = InMemory(m, b)
                        /\ Content(n, a) = Kept(a, x)
                        /\ \A b \in Places : b # a /\ InMemory(m, b) => Content(n, b) = Content(m, b)
                        /\ n.shm.size = m.shm.size
                        /\ n.local = m.local
      BY <2>7, <3>9
    <3>10. n.local = m.local /\ n.shm = after /\ n = [local |-> n.local, shm |-> n.shm]
      BY DEF ByteMemory
    <3>11. s = m.shm
      BY DEF s
    <3>12. /\ after.bytes = [s.bytes EXCEPT ![c] = bit] /\ after.size = s.size
           /\ after = [cell_size |-> 1, size |-> after.size, bytes |-> after.bytes]
      OBVIOUS
    <3>13. bit \in Byte
      BY <2>2, <3>1 DEF Byte
    <3> HIDE DEF after, bit
    <3>14. ByteMemory(n)
      <4>1. after.bytes \in [0..s.size - 1 -> Byte]
        BY <2>2, <3>12, <3>13
      <4>2. m.local = [e \in DOMAIN m.local |-> m.local[e]]
        BY DEF ByteMemory
      <4> QED
        BY <2>2, <3>10, <3>12, <4>1, <4>2 DEF ByteMemory
    <3>15. \A b \in Places : InMemory(n, b) = InMemory(m, b)
      BY <3>10, <3>11, <3>12 DEF InMemory
    <3>16. Content(n, a) = Kept(a, x)
      BY <1>2, <2>2, <2>3, <3>1, <3>10, <3>12 DEF Content, Kept, bit
    <3>17. \A b \in Places : b # a /\ InMemory(m, b) => Content(n, b) = Content(m, b)
      <4> SUFFICES ASSUME NEW b \in Places, b # a, InMemory(m, b) PROVE Content(n, b) = Content(m, b)
        OBVIOUS
      <4>1. CASE b.mem = "local"
        BY <4>1, <3>10 DEF Content
      <4>2. CASE b.mem # "local"
        <5>1. PICK e \in Nat, j \in 0..ByteBits - 1 : b = SharedBit(e, j)
          BY <4>2 DEF Places, LocalCell
        <5>2. b.cell = e /\ b.index = j /\ (e # c \/ j # i)
          BY <5>1, <2>1 DEF SharedBit
        <5>3. j \in n.shm.bytes[e] <=> j \in m.shm.bytes[e]
          <6>1. CASE e = c
            BY <6>1, <5>2, <2>2, <3>1, <3>10, <3>11, <3>12 DEF bit
          <6>2. CASE e # c
            <7>1. e \in 0..s.size - 1
              BY <4>2, <5>2, <2>2, <3>11 DEF InMemory
            <7> QED
              BY <6>2, <7>1, <2>2, <3>1, <3>10, <3>11, <3>12
          <6> QED
            BY <6>1, <6>2
        <5> QED
          BY <4>2, <5>2, <5>3 DEF Content
      <4> QED
        BY <4>1, <4>2
    <3> QED
      BY <3>10, <3>11, <3>12, <3>14, <3>15, <3>16, <3>17
  <2> QED
    BY <2>6, <2>7
<1> QED
  BY <1>1, <1>2

-----------------------------------------------------------------------------
(* The machine with its variables at the places At, where another process  *)
(* writes the places Others, and with initial values that fit (0 or 1 for  *)
(* a bit): what MCMachine and MCToggle are instances of.                   *)
PlacedAt(At, Others) ==
    /\ At \in [Var -> Places]
    /\ \A m \in Memories :
          /\ ByteMemory(m)
          /\ \A v \in Var :
                /\ Load(m, v) = load(m, At[v])
                /\ \A x \in Word : Store(m, v, x) = store(m, At[v], x)
    /\ \A m, n \in Memories, v \in Var : InMemory(m, At[v]) = InMemory(n, At[v])
    /\ \A m \in Memories, v \in Var :
          IF At[v] \in Others
          THEN \E n \in Outside(m) : Load(n, v) # Load(m, v)
          ELSE \A n \in Outside(m) : Load(n, v) = Load(m, v)
    /\ \A v \in DOMAIN InitValue : Kept(At[v], InitValue[v]) = InitValue[v]

(* What loads and stores do there.                                         *)
LEMMA LoadAt ==
    ASSUME NEW At, NEW Others, PlacedAt(At, Others), NEW m \in Memories, NEW v \in Var
    PROVE  Load(m, v) = IF InMemory(m, At[v]) THEN {Content(m, At[v])} ELSE {}
BY LoadIs DEF PlacedAt

LEMMA StoreAt ==
    ASSUME NEW At, NEW Others, PlacedAt(At, Others), NEW m \in Memories,
           NEW v \in Var, NEW x \in Word
    PROVE  /\ InMemory(m, At[v]) => Store(m, v, x) # {}
           /\ \A n \in Store(m, v, x) :
                 /\ n \in Memories /\ InMemory(m, At[v])
                 /\ Load(n, v) = {Kept(At[v], x)}
                 /\ \A w \in Var : At[w] # At[v] => Load(n, w) = Load(m, w)
<1>1. At[v] \in Places /\ ByteMemory(m) /\ Store(m, v, x) = store(m, At[v], x)
  BY DEF PlacedAt
<1>2. InMemory(m, At[v]) => Store(m, v, x) # {}
  BY <1>1, StoreIs
<1> SUFFICES ASSUME NEW n \in Store(m, v, x)
             PROVE  /\ n \in Memories /\ InMemory(m, At[v])
                    /\ Load(n, v) = {Kept(At[v], x)}
                    /\ \A w \in Var : At[w] # At[v] => Load(n, w) = Load(m, w)
  BY <1>2
<1>3. n \in Memories
  BY MemoryAssumption
<1>4. InMemory(m, At[v])
  BY <1>1, StoreIs
<1>5. /\ \A b \in Places : InMemory(n, b) = InMemory(m, b)
      /\ Content(n, At[v]) = Kept(At[v], x)
      /\ \A b \in Places : b # At[v] /\ InMemory(m, b) => Content(n, b) = Content(m, b)
  BY <1>1, StoreIs
<1>6. Load(n, v) = {Kept(At[v], x)}
  BY <1>1, <1>3, <1>4, <1>5, LoadAt
<1>7. ASSUME NEW w \in Var, At[w] # At[v]
      PROVE  Load(n, w) = Load(m, w)
  <2>1. At[w] \in Places
    BY DEF PlacedAt
  <2> QED
    BY <2>1, <1>3, <1>5, <1>7, LoadAt
<1> QED
  BY <1>3, <1>4, <1>6, <1>7

(* What init() has stored by now in the variables that belong to this      *)
(* process is there, under the variable's own name or an alias.            *)
StoredSoFar(At, Others) ==
    phase = "init" =>
        \A v \in DOMAIN InitValue \ pending :
            At[v] \notin Others =>
                \E w \in DOMAIN InitValue \ pending :
                    Load(mem, v) = {InitValue[w]} /\ At[v] = At[w]

LEMMA StoredStep ==
    ASSUME NEW At, NEW Others, PlacedAt(At, Others),
           MachineTypeOK, StoredSoFar(At, Others), [Next]_vars
    PROVE  StoredSoFar(At, Others)'
<1> SUFFICES ASSUME phase' = "init", NEW v \in DOMAIN InitValue \ pending', At[v] \notin Others
             PROVE  \E w \in DOMAIN InitValue \ pending' :
                       Load(mem', v) = {InitValue[w]} /\ At[v] = At[w]
  BY DEF StoredSoFar
<1>1. mem \in Memories /\ pending \subseteq DOMAIN InitValue /\ v \in Var
  BY InitValueAssumption DEF MachineTypeOK
<1>2. ASSUME NEW u \in pending, InitVariable(u)
      PROVE  \E w \in DOMAIN InitValue \ pending' :
                Load(mem', v) = {InitValue[w]} /\ At[v] = At[w]
  <2>1. /\ u \in Var /\ InitValue[u] \in Word /\ phase = "init"
        /\ mem' \in Store(mem, u, InitValue[u]) /\ pending' = pending \ {u}
    BY <1>1, <1>2, InitValueAssumption DEF InitVariable
  <2>2. Load(mem', u) = {InitValue[u]}
    <3>1. Load(mem', u) = {Kept(At[u], InitValue[u])}
      BY <1>1, <2>1, StoreAt
    <3>2. Kept(At[u], InitValue[u]) = InitValue[u]
      BY <1>1 DEF PlacedAt
    <3> QED
      BY <3>1, <3>2
  <2>3. CASE At[v] = At[u]
    <3>1. mem' \in Memories
      BY <1>1, <2>1, MemoryAssumption
    <3>2. Load(mem', v) = Load(mem', u)
      BY <1>1, <2>1, <2>3, <3>1, LoadAt
    <3> QED
      BY <1>1, <2>1, <2>2, <2>3, <3>2
  <2>4. CASE At[v] # At[u]
    <3>1. Load(mem', v) = Load(mem, v) /\ v \in DOMAIN InitValue \ pending
      BY <1>1, <2>1, <2>4, StoreAt
    <3> QED
      BY <2>1, <3>1 DEF StoredSoFar
  <2> QED
    BY <2>3, <2>4
<1>3. CASE OutsideWrite
  <2>1. Load(mem', v) = Load(mem, v)
    BY <1>1, <1>3 DEF OutsideWrite, PlacedAt
  <2> QED
    BY <1>3, <2>1 DEF OutsideWrite, StoredSoFar
<1>4. CASE InitDone \/ Start \/ Execute
  <2>1. ~Execute
    <3> SUFFICES ASSUME Execute PROVE FALSE
      OBVIOUS
    <3>1. phase = "running" /\ (phase' \in {"running", "failed", "dead", "ready"})
      BY DEF Execute, Advance, Fetched, PUSH_const, PUSH_var, PUSH_special, POP_var, POP_discard,
             BINARY, UNARY, ATANXY, DUP, LABEL, J, JZ, JNZ, Jump, END
    <3> QED
      BY <3>1
  <2> QED
    BY <1>4, <2>1 DEF InitDone, Start
<1>5. CASE Stopped \/ UNCHANGED vars
  BY <1>5 DEF Stopped, vars, machineVars, StoredSoFar
<1> QED
  BY <1>2, <1>3, <1>4, <1>5 DEF Next

(* What init() has stored reads back: for any number of variables in local *)
(* cells and in bits of shared cells of one byte, however they share the   *)
(* cells and in whatever order the unordered map yields them.              *)
THEOREM InitialisedReadBackTheorem ==
    ASSUME NEW CONSTANT At, NEW CONSTANT Others, PlacedAt(At, Others)
    PROVE  Spec => []InitialisedReadBack
<1> DEFINE Stored == StoredSoFar(At, Others)
<1>1. Init => Stored
  BY DEF Init, StoredSoFar
<1>2. MachineTypeOK /\ Stored /\ [Next]_vars => Stored'
  BY StoredStep
<1>3. MachineTypeOK /\ Stored => InitialisedReadBack
  <2> SUFFICES ASSUME MachineTypeOK, Stored, phase = "init", NEW v \in DOMAIN InitValue \ pending,
                      \A m \in Outside(mem) : Load(m, v) = Load(mem, v)
               PROVE  \E w \in DOMAIN InitValue \ pending :
                         Load(mem, v) = {InitValue[w]} /\ Aliases(v, w)
    BY DEF InitialisedReadBack
  <2>1. mem \in Memories /\ v \in Var /\ At[v] \notin Others
    BY InitValueAssumption DEF MachineTypeOK, PlacedAt
  <2>2. PICK w \in DOMAIN InitValue \ pending :
            Load(mem, v) = {InitValue[w]} /\ At[v] = At[w]
    BY <2>1 DEF StoredSoFar
  <2>3. w \in Var
    BY InitValueAssumption
  <2>4. Aliases(v, w)
    BY <2>1, <2>2, <2>3, LoadAt DEF Aliases
  <2> QED
    BY <2>2, <2>4
<1> HIDE DEF Stored
<1> QED
  BY <1>1, <1>2, <1>3, MachineTypeCorrect, PTL DEF Spec

-----------------------------------------------------------------------------
(* The flip-flop: MCToggle with its constants at any width of words and    *)
(* bytes and any stack of three elements or more.                          *)
ToggleSetting ==
    /\ Word = Words /\ MAX_STACK >= 3
    /\ \A l, r \in Words : BinaryResults("NE", l, r) = Binary("NE", l, r)
    /\ \A x \in Words : UnaryResults("NOT", x) = Unary("NOT", x)
    /\ Var = ToggleVar /\ InitValue = ToggleInitValue /\ Programs = TogglePrograms
    /\ Memories = ToggleMemories /\ InitialMemories = ToggleInitialMemories
    /\ \A m \in ToggleMemories :
          /\ Outside(m) = ToggleOutside(m)
          /\ \A v \in ToggleVar :
                /\ Load(m, v) = ToggleLoad(m, v)
                /\ \A x \in Words : Store(m, v, x) = ToggleStore(m, v, x)

(* Its places, and its memories.                                           *)
LEMMA TogglePlaces ==
    /\ ToggleVar = {"trigger", "q", "nq", "old_trigger"}
    /\ Place["trigger"] = SharedBit(1, 0) /\ Place["q"] = SharedBit(2, 0)
    /\ Place["nq"] = SharedBit(3, 0) /\ Place["old_trigger"] = LocalCell(0)
    /\ Place \in [ToggleVar -> Places]
    /\ \A v, w \in ToggleVar : v # w => Place[v] # Place[w]
<1>1. /\ ToggleVar = {"trigger", "q", "nq", "old_trigger"}
      /\ Place["trigger"] = SharedBit(1, 0) /\ Place["q"] = SharedBit(2, 0)
      /\ Place["nq"] = SharedBit(3, 0) /\ Place["old_trigger"] = LocalCell(0)
      /\ Place = [v \in ToggleVar |-> Place[v]]
  BY DEF ToggleVar, Place
<1>2. 0 \in 0..ByteBits - 1
  BY ByteAssumption
<1>3. \A c \in Nat : SharedBit(c, 0) \in Places /\ LocalCell(c) \in Places
  BY <1>2 DEF Places
<1>4. \A v \in ToggleVar : Place[v] \in Places
  BY <1>1, <1>3
<1>5. \A v, w \in ToggleVar : v # w => Place[v] # Place[w]
  BY <1>1 DEF SharedBit, LocalCell
<1> QED
  BY <1>1, <1>4, <1>5

LEMMA ToggleMemory ==
    ASSUME NEW m \in ToggleMemories
    PROVE  /\ ByteMemory(m)
           /\ \A v \in ToggleVar : InMemory(m, Place[v])
           /\ \A v \in ToggleVar : v # "old_trigger" => Content(m, Place[v]) \in {0, 1}
<1>1. /\ m = [local |-> m.local, shm |-> m.shm]
      /\ m.local \in [{0} -> Words]
      /\ m.shm = [cell_size |-> 1, size |-> 4, bytes |-> m.shm.bytes]
      /\ m.shm.bytes \in [0..3 -> Byte]
  <2>1. m \in [local : [{0} -> Words], shm : ToggleShm]
    BY DEF ToggleMemories
  <2>2. m.shm \in ToggleShm
    BY <2>1
  <2> QED
    BY <2>1, <2>2 DEF ToggleShm
<1>2. ByteMemory(m)
  <2>1. m.shm.size = 4 /\ 4 - 1 = 3 /\ 4 <= SizeMax + 1
    BY <1>1, ByteAssumption
  <2> QED
    BY <1>1, <2>1 DEF ByteMemory
<1>3. /\ \A v \in ToggleVar : InMemory(m, Place[v])
      /\ \A v \in ToggleVar : v # "old_trigger" => Content(m, Place[v]) \in {0, 1}
  BY <1>1, TogglePlaces, ByteAssumption DEF InMemory, Content, SharedBit, LocalCell
<1> QED
  BY <1>2, <1>3

(* It is an instance of PlacedAt: the other process writes the trigger.    *)
LEMMA ToggleIsPlaced == ToggleSetting => PlacedAt(Place, {SharedBit(1, 0)})
<1> SUFFICES ASSUME ToggleSetting PROVE PlacedAt(Place, {SharedBit(1, 0)})
  OBVIOUS
<1>1. Var = ToggleVar /\ Memories = ToggleMemories /\ Word = Words
  BY DEF ToggleSetting
<1>2. /\ Place \in [Var -> Places]
      /\ \A m \in Memories :
            /\ ByteMemory(m)
            /\ \A v \in Var :
                  /\ Load(m, v) = load(m, Place[v])
                  /\ \A x \in Word : Store(m, v, x) = store(m, Place[v], x)
      /\ \A m, n \in Memories, v \in Var : InMemory(m, Place[v]) = InMemory(n, Place[v])
  BY <1>1, TogglePlaces, ToggleMemory DEF ToggleSetting, ToggleLoad, ToggleStore
<1>3. \A v \in DOMAIN InitValue : Kept(Place[v], InitValue[v]) = InitValue[v]
  BY TogglePlaces DEF ToggleSetting, ToggleInitValue, Kept, SharedBit, LocalCell
<1>4. ASSUME NEW m \in Memories, NEW v \in Var
      PROVE  IF Place[v] \in {SharedBit(1, 0)}
             THEN \E n \in Outside(m) : Load(n, v) # Load(m, v)
             ELSE \A n \in Outside(m) : Load(n, v) = Load(m, v)
  <2> DEFINE With(bits) == [m EXCEPT !.shm.bytes[1] = bits]
  <2>1. Outside(m) = {With(bits) : bits \in {{}, {0}}}
    BY <1>1 DEF ToggleSetting, ToggleOutside
  <2>2. \A n \in Outside(m) : n \in Memories
    BY MemoryAssumption
  <2>3. \A n \in Memories : Load(n, v) = {Content(n, Place[v])}
    BY <1>1, <1>2, ToggleMemory, LoadIs
  <2>4. ByteMemory(m) /\ m.shm.bytes \in [0..3 -> Byte]
    <3>1. m.shm \in ToggleShm
      BY <1>1 DEF ToggleMemories
    <3> QED
      BY <1>1, <3>1, ToggleMemory DEF ToggleShm
  <2>5. \A bits : /\ With(bits).local = m.local
                  /\ With(bits).shm.bytes[1] = bits
                  /\ \A k \in {2, 3} : With(bits).shm.bytes[k] = m.shm.bytes[k]
    BY <2>4 DEF ByteMemory
  <2> HIDE DEF With
  <2>6. CASE v = "trigger"
    <3>1. \A n \in Memories : Content(n, Place[v]) = IF 0 \in n.shm.bytes[1] THEN 1 ELSE 0
      BY <2>6, TogglePlaces DEF Content, SharedBit
    <3>2. PICK bits \in {{}, {0}} : (0 \in bits) # (0 \in m.shm.bytes[1])
      OBVIOUS
    <3>3. With(bits) \in Outside(m) /\ With(bits) \in Memories
      BY <2>1, <2>2
    <3>4. Content(With(bits), Place[v]) # Content(m, Place[v])
      BY <2>5, <3>1, <3>2, <3>3
    <3> QED
      BY <2>3, <2>6, <3>3, <3>4, TogglePlaces
  <2>7. CASE v # "trigger"
    <3>1. Place[v] # SharedBit(1, 0) /\ v \in {"q", "nq", "old_trigger"}
      BY <1>1, <2>7, TogglePlaces
    <3>2. ASSUME NEW bits \in {{}, {0}}
          PROVE  Content(With(bits), Place[v]) = Content(m, Place[v])
      BY <2>5, <3>1, TogglePlaces DEF Content, SharedBit, LocalCell
    <3> QED
      BY <2>1, <2>2, <2>3, <3>1, <3>2
  <2> QED
    BY <2>6, <2>7
<1> QED
  BY <1>2, <1>3, <1>4 DEF PlacedAt

-----------------------------------------------------------------------------
(* Two sequences with the same elements are the same.                      *)
LEMMA SameElements ==
    ASSUME NEW S, NEW s \in Seq(S), NEW t \in Seq(S), Len(s) = Len(t),
           \A i \in 1..Len(s) : s[i] = t[i]
    PROVE  s = t
OBVIOUS

(* Pushing on a short stack, and popping from one.                        *)
LEMMA Tuples ==
    ASSUME NEW a, NEW b, NEW c
    PROVE  /\ Append(<<>>, a) = <<a>> /\ Append(<<a>>, b) = <<a, b>>
           /\ Append(<<a, b>>, c) = <<a, b, c>>
           /\ SubSeq(<<a>>, 1, 0) = <<>> /\ SubSeq(<<a, b>>, 1, 1) = <<a>>
           /\ SubSeq(<<a, b, c>>, 1, 2) = <<a, b>> /\ SubSeq(<<a, b, c>>, 1, 1) = <<a>>
<1> DEFINE S == {a, b, c}
<1>1. <<a>> \in Seq(S) /\ <<a, b>> \in Seq(S) /\ <<a, b, c>> \in Seq(S) /\ <<>> \in Seq(S)
  OBVIOUS
<1>2. a \in S /\ b \in S /\ c \in S
  OBVIOUS
<1>3. (\A i \in 1..1 : i = 1) /\ (\A i \in 1..2 : i = 1 \/ i = 2)
      /\ (\A i \in 1..3 : i = 1 \/ i = 2 \/ i = 3)
  OBVIOUS
<1> HIDE DEF S
<1>4. Append(<<a>>, b) = <<a, b>>
  <2>1. Append(<<a>>, b) \in Seq(S) /\ Len(Append(<<a>>, b)) = 2
        /\ Append(<<a>>, b)[1] = a /\ Append(<<a>>, b)[2] = b
    BY <1>1, <1>2
  <2>2. \A i \in 1..2 : Append(<<a>>, b)[i] = <<a, b>>[i]
    BY <1>3, <2>1
  <2> QED
    BY <1>1, <2>1, <2>2, SameElements
<1>5. Append(<<a, b>>, c) = <<a, b, c>>
  <2>1. Append(<<a, b>>, c) \in Seq(S) /\ Len(Append(<<a, b>>, c)) = 3
        /\ Append(<<a, b>>, c)[1] = a /\ Append(<<a, b>>, c)[2] = b
        /\ Append(<<a, b>>, c)[3] = c
    BY <1>1, <1>2
  <2>2. \A i \in 1..3 : Append(<<a, b>>, c)[i] = <<a, b, c>>[i]
    BY <1>3, <2>1
  <2> QED
    BY <1>1, <2>1, <2>2, SameElements
<1>6. SubSeq(<<a, b>>, 1, 1) = <<a>>
  <2>1. SubSeq(<<a, b>>, 1, 1) \in Seq(S) /\ Len(SubSeq(<<a, b>>, 1, 1)) = 1
        /\ SubSeq(<<a, b>>, 1, 1)[1] = a
    BY <1>1
  <2>2. \A i \in 1..1 : SubSeq(<<a, b>>, 1, 1)[i] = <<a>>[i]
    BY <1>3, <2>1
  <2> QED
    BY <1>1, <2>1, <2>2, SameElements
<1>7. SubSeq(<<a, b, c>>, 1, 1) = <<a>>
  <2>1. SubSeq(<<a, b, c>>, 1, 1) \in Seq(S) /\ Len(SubSeq(<<a, b, c>>, 1, 1)) = 1
        /\ SubSeq(<<a, b, c>>, 1, 1)[1] = a
    BY <1>1
  <2>2. \A i \in 1..1 : SubSeq(<<a, b, c>>, 1, 1)[i] = <<a>>[i]
    BY <1>3, <2>1
  <2> QED
    BY <1>1, <2>1, <2>2, SameElements
<1>8. SubSeq(<<a, b, c>>, 1, 2) = <<a, b>>
  <2>1. SubSeq(<<a, b, c>>, 1, 2) \in Seq(S) /\ Len(SubSeq(<<a, b, c>>, 1, 2)) = 2
        /\ SubSeq(<<a, b, c>>, 1, 2)[1] = a /\ SubSeq(<<a, b, c>>, 1, 2)[2] = b
    BY <1>1
  <2>2. \A i \in 1..2 : SubSeq(<<a, b, c>>, 1, 2)[i] = <<a, b>>[i]
    BY <1>3, <2>1
  <2> QED
    BY <1>1, <2>1, <2>2, SameElements
<1> QED
  BY <1>4, <1>5, <1>6, <1>7, <1>8
-----------------------------------------------------------------------------
(* One instruction, with the elements it finds on the stack.               *)

LEMMA Elements ==
    ASSUME NEW a, NEW b, NEW c
    PROVE  /\ stack = <<a>> => Top = a /\ Below(1) = <<>>
           /\ stack = <<a, b>> => Top = b /\ Second = a /\ Below(1) = <<a>>
           /\ stack = <<a, b, c>> =>
                 Top = c /\ Second = b /\ Below(1) = <<a, b>> /\ Below(2) = <<a>>
<1>1. /\ Len(<<a>>) = 1 /\ Len(<<a, b>>) = 2 /\ Len(<<a, b, c>>) = 3
      /\ 1 - 1 = 0 /\ 2 - 1 = 1 /\ 3 - 1 = 2 /\ 3 - 2 = 1
  OBVIOUS
<1>2. ASSUME stack = <<a>> PROVE Top = a /\ Below(1) = <<>>
  <2>1. Below(1) = SubSeq(<<a>>, 1, 0)
    BY <1>1, <1>2 DEF Below
  <2> QED
    BY <1>1, <1>2, <2>1, Tuples DEF Top
<1>3. ASSUME stack = <<a, b>> PROVE Top = b /\ Second = a /\ Below(1) = <<a>>
  <2>1. Below(1) = SubSeq(<<a, b>>, 1, 1)
    BY <1>1, <1>3 DEF Below
  <2> QED
    BY <1>1, <1>3, <2>1, Tuples DEF Top, Second
<1>4. ASSUME stack = <<a, b, c>>
      PROVE  Top = c /\ Second = b /\ Below(1) = <<a, b>> /\ Below(2) = <<a>>
  <2>1. Below(1) = SubSeq(<<a, b, c>>, 1, 2) /\ Below(2) = SubSeq(<<a, b, c>>, 1, 1)
    BY <1>1, <1>4 DEF Below
  <2> QED
    BY <1>1, <1>4, <2>1, Tuples DEF Top, Second
<1> QED
  BY <1>2, <1>3, <1>4

(* An instruction that returned, and what it left.                         *)
Returned(s, next) ==
    /\ stack' = s /\ outcome' = "ok" /\ ip' = next /\ phase' = "running"
    /\ UNCHANGED <<instructions, pending>>

(* What the variable v holds.                                              *)
V(v) == Content(mem, Place[v])

(* Only the action of the fetched instruction's class is taken.            *)
LEMMA ExecuteFetched ==
    ASSUME Execute
    PROVE  /\ Fetch.op = "PUSH_var" => PUSH_var
           /\ Fetch.op = "POP_var" => POP_var
           /\ Fetch.op = "BINARY" => BINARY
           /\ Fetch.op = "UNARY" => UNARY
           /\ Fetch.op = "DUP" => DUP
           /\ Fetch.op = "LABEL" => LABEL
           /\ Fetch.op = "JZ" => JZ
           /\ Fetch.op = "END" => END
           /\ UNCHANGED <<instructions, pending>>
<1>1. /\ PUSH_const => Fetch.op = "PUSH_const"
      /\ PUSH_var => Fetch.op = "PUSH_var"
      /\ PUSH_special => Fetch.op = "PUSH_special"
      /\ POP_var => Fetch.op = "POP_var"
      /\ POP_discard => Fetch.op = "POP_discard"
  BY DEF Fetched, PUSH_const, PUSH_var, PUSH_special, POP_var, POP_discard
<1>2. /\ BINARY => Fetch.op = "BINARY"
      /\ UNARY => Fetch.op = "UNARY"
      /\ ATANXY => Fetch.op = "ATANXY"
      /\ DUP => Fetch.op = "DUP"
  BY DEF Fetched, BINARY, UNARY, ATANXY, DUP
<1>3. /\ LABEL => Fetch.op = "LABEL"
      /\ J => Fetch.op = "J"
      /\ JZ => Fetch.op = "JZ"
      /\ JNZ => Fetch.op = "JNZ"
      /\ END => Fetch.op = "END"
  BY DEF Fetched, LABEL, J, JZ, JNZ, END
<1> QED
  BY <1>1, <1>2, <1>3 DEF Execute

LEMMA PushVar ==
    ASSUME ToggleSetting, MachineTypeOK, Execute, NEW v \in ToggleVar,
           Fetch = [op |-> "PUSH_var", var |-> v], Len(stack) < 3
    PROVE  Returned(Append(stack, V(v)), ip + 1) /\ mem' = mem
<1>1. PUSH_var /\ UNCHANGED <<instructions, pending>> /\ Fetch.var = v
  BY ExecuteFetched
<1>2. Load(mem, v) = {V(v)}
  BY LoadAt, ToggleIsPlaced, ToggleMemory DEF ToggleSetting, MachineTypeOK, V
<1>3. Len(stack) < MAX_STACK
  BY StackAssumption DEF ToggleSetting, MachineTypeOK, StackTypeOK
<1>4. push(V(v)) /\ Advance(ip + 1) /\ mem' = mem
  BY <1>1, <1>2 DEF PUSH_var
<1>5. Len(stack) \in Nat /\ MAX_STACK \in Nat
  BY StackAssumption DEF MachineTypeOK, StackTypeOK
<1>6. Return(Append(stack, V(v)))
  BY <1>3, <1>4, <1>5 DEF push
<1> QED
  BY <1>1, <1>4, <1>6 DEF Return, Advance, Returned

LEMMA Duplicate ==
    ASSUME ToggleSetting, MachineTypeOK, Execute, Fetch = [op |-> "DUP"],
           stack # <<>>, Len(stack) < 3
    PROVE  Returned(Append(stack, Top), ip + 1) /\ mem' = mem
<1>1. DUP /\ UNCHANGED <<instructions, pending>>
  BY ExecuteFetched
<1>2. ~(Len(stack) >= MAX_STACK)
  BY StackAssumption DEF ToggleSetting, MachineTypeOK, StackTypeOK
<1> QED
  BY <1>1, <1>2 DEF DUP, dup, Return, Advance, Returned

LEMMA JumpZero ==
    ASSUME Execute, NEW t, Fetch = [op |-> "JZ", target |-> t], stack # <<>>
    PROVE  Returned(Below(1), IF Top = 0 THEN t + 1 ELSE ip + 1) /\ mem' = mem
<1>1. JZ /\ UNCHANGED <<instructions, pending>> /\ Fetch.target = t
  BY ExecuteFetched
<1> QED
  BY <1>1 DEF JZ, Jump, pop, Return, Advance, Returned

LEMMA NotEqual ==
    ASSUME ToggleSetting, Execute, Fetch = [op |-> "BINARY", alu |-> "NE"],
           NEW a, NEW l \in Words, NEW r \in Words, stack = <<a, l, r>>
    PROVE  Returned(<<a, IF l = r THEN 0 ELSE 1>>, ip + 1) /\ mem' = mem
<1>1. BINARY /\ UNCHANGED <<instructions, pending>> /\ Fetch.alu = "NE"
  BY ExecuteFetched
<1>2. BinaryResults("NE", l, r) = {IF l = r THEN 0 ELSE 1}
  <2>1. BinaryResults("NE", l, r) = Binary("NE", l, r)
    BY DEF ToggleSetting
  <2>2. Binary("NE", l, r) = ne(l, r)
    BY SMTT(60) DEF Binary, FloatOps, DoubleOps, DoubleRelations
  <2> QED
    BY <2>1, <2>2 DEF ne, Flag
<1>3. Len(stack) = 3 /\ Top = r /\ Second = l /\ Below(2) = <<a>>
  BY Elements
<1>4. \E x \in BinaryResults("NE", l, r) : Return(Append(<<a>>, x))
  BY <1>1, <1>2, <1>3 DEF BINARY, binary, MIN_ARITH
<1>5. Return(<<a, IF l = r THEN 0 ELSE 1>>)
  <2>1. Return(Append(<<a>>, IF l = r THEN 0 ELSE 1))
    BY <1>2, <1>4
  <2>2. Append(<<a>>, IF l = r THEN 0 ELSE 1) = <<a, IF l = r THEN 0 ELSE 1>>
    BY Tuples
  <2> QED
    BY <2>1, <2>2
<1> QED
  BY <1>1, <1>5 DEF BINARY, Return, Advance, Returned

LEMMA Not ==
    ASSUME ToggleSetting, Execute, Fetch = [op |-> "UNARY", alu |-> "NOT"],
           NEW a, NEW b, NEW x \in Words, stack = <<a, b, x>>
    PROVE  Returned(<<a, b, IF x = 0 THEN 1 ELSE 0>>, ip + 1) /\ mem' = mem
<1>1. UNARY /\ UNCHANGED <<instructions, pending>> /\ Fetch.alu = "NOT"
  BY ExecuteFetched
<1>2. UnaryResults("NOT", x) = {IF x = 0 THEN 1 ELSE 0}
  <2>1. UnaryResults("NOT", x) = Unary("NOT", x)
    BY DEF ToggleSetting
  <2>2. Unary("NOT", x) = linv(x)
    BY DEF Unary, ToFloatConversions
  <2> QED
    BY <2>1, <2>2 DEF linv, Flag
<1>3. Len(stack) = 3 /\ Top = x /\ Below(1) = <<a, b>>
  BY Elements
<1>4. \E y \in UnaryResults("NOT", x) : Return(Append(<<a, b>>, y))
  BY <1>1, <1>3 DEF UNARY, unary, MIN_CONV
<1>5. Return(<<a, b, IF x = 0 THEN 1 ELSE 0>>)
  <2>1. Return(Append(<<a, b>>, IF x = 0 THEN 1 ELSE 0))
    BY <1>2, <1>4
  <2>2. Append(<<a, b>>, IF x = 0 THEN 1 ELSE 0) = <<a, b, IF x = 0 THEN 1 ELSE 0>>
    BY Tuples
  <2> QED
    BY <2>1, <2>2
<1> QED
  BY <1>1, <1>5 DEF UNARY, Return, Advance, Returned

LEMMA PopVar ==
    ASSUME ToggleSetting, MachineTypeOK, Execute, NEW v \in ToggleVar,
           Fetch = [op |-> "POP_var", var |-> v], stack # <<>>, Top \in Words
    PROVE  /\ Returned(Below(1), ip + 1)
           /\ V(v)' = Kept(Place[v], Top)
           /\ \A w \in ToggleVar \ {v} : V(w)' = V(w)
<1>1. POP_var /\ UNCHANGED <<instructions, pending>> /\ Fetch.var = v
  BY ExecuteFetched
<1>2. mem \in Memories /\ Memories = ToggleMemories /\ Var = ToggleVar /\ Word = Words
  BY DEF ToggleSetting, MachineTypeOK
<1>3. Store(mem, v, Top) # {}
  BY <1>2, StoreAt, ToggleIsPlaced, ToggleMemory
<1>4. mem' \in Store(mem, v, Top) /\ Return(Below(1)) /\ Advance(ip + 1)
  BY <1>1, <1>3 DEF POP_var
<1>5. Returned(Below(1), ip + 1)
  BY <1>1, <1>4 DEF Return, Advance, Returned
<1>6. /\ mem' \in Memories /\ Load(mem', v) = {Kept(Place[v], Top)}
      /\ \A w \in ToggleVar : Place[w] # Place[v] => Load(mem', w) = Load(mem, w)
  BY <1>2, <1>4, StoreAt, ToggleIsPlaced
<1>7. \A w \in ToggleVar : Load(mem, w) = {V(w)} /\ Load(mem', w) = {V(w)'}
  BY <1>2, <1>6, LoadAt, ToggleIsPlaced, ToggleMemory DEF V
<1>8. V(v)' = Kept(Place[v], Top)
  BY <1>6, <1>7
<1>9. \A w \in ToggleVar \ {v} : V(w)' = V(w)
  BY <1>6, <1>7, TogglePlaces
<1> QED
  BY <1>5, <1>8, <1>9

LEMMA AtLabel ==
    ASSUME Execute, Fetch = [op |-> "LABEL"]
    PROVE  Returned(stack, ip + 1) /\ mem' = mem
<1>1. LABEL /\ UNCHANGED <<instructions, pending>>
  BY ExecuteFetched
<1> QED
  BY <1>1 DEF LABEL, Return, Advance, Returned

LEMMA AtEnd ==
    ASSUME Execute, Fetch = [op |-> "END"]
    PROVE  /\ outcome' = "ok" /\ phase' = "ready" /\ mem' = mem /\ ip' = ip
           /\ UNCHANGED <<instructions, pending>>
<1>1. END /\ UNCHANGED <<instructions, pending>>
  BY ExecuteFetched
<1> QED
  BY <1>1 DEF END, Return

(* The program's instructions by their indices.                            *)
LEMMA ToggleInstructions ==
    ASSUME instructions = Toggle
    PROVE  /\ ip = 0 => Fetch = [op |-> "PUSH_var", var |-> "trigger"]
           /\ ip \in {1, 3, 8} => Fetch = [op |-> "DUP"]
           /\ ip \in {2, 6} => Fetch = [op |-> "JZ", target |-> 12]
           /\ ip = 4 => Fetch = [op |-> "PUSH_var", var |-> "old_trigger"]
           /\ ip = 5 => Fetch = [op |-> "BINARY", alu |-> "NE"]
           /\ ip = 7 => Fetch = [op |-> "PUSH_var", var |-> "q"]
           /\ ip = 9 => Fetch = [op |-> "UNARY", alu |-> "NOT"]
           /\ ip = 10 => Fetch = [op |-> "POP_var", var |-> "q"]
           /\ ip = 11 => Fetch = [op |-> "POP_var", var |-> "nq"]
           /\ ip = 12 => Fetch = [op |-> "LABEL"]
           /\ ip = 13 => Fetch = [op |-> "POP_var", var |-> "old_trigger"]
           /\ ip = 14 => Fetch = [op |-> "END"]
           /\ Len(instructions) = 15
BY DEF Toggle, Fetch

-----------------------------------------------------------------------------
(* The state of the flip-flop along the program.                           *)

(* As between two cycles: q is the parity of the edges.                    *)
Settled == V("q") = edges /\ V("nq") = 1 - edges /\ V("old_trigger") = sampled

(* The trigger has been sampled and q does not know yet: an edge is the    *)
(* difference between old_trigger and the sample.                          *)
Unsettled ==
    /\ V("nq") = 1 - V("q") /\ V("old_trigger") \in {0, 1}
    /\ edges = IF V("old_trigger") = 0 /\ sampled = 1 THEN 1 - V("q") ELSE V("q")

(* What is on the stack at each instruction, and what the test in front of *)
(* it has shown.                                                           *)
Along ==
    CASE ip = 0 -> stack = <<>> /\ Settled
      [] ip = 1 -> stack = <<sampled>> /\ Unsettled
      [] ip = 2 -> stack = <<sampled, sampled>> /\ Unsettled
      [] ip = 3 -> stack = <<sampled>> /\ sampled = 1 /\ Unsettled
      [] ip = 4 -> stack = <<sampled, sampled>> /\ sampled = 1 /\ Unsettled
      [] ip = 5 -> stack = <<sampled, sampled, V("old_trigger")>> /\ sampled = 1 /\ Unsettled
      [] ip = 6 -> /\ stack = <<sampled, IF sampled = V("old_trigger") THEN 0 ELSE 1>>
                   /\ sampled = 1 /\ Unsettled
      [] ip = 7 -> stack = <<sampled>> /\ edges = 1 - V("q")
      [] ip = 8 -> stack = <<sampled, V("q")>> /\ edges = 1 - V("q")
      [] ip = 9 -> stack = <<sampled, V("q"), V("q")>> /\ edges = 1 - V("q")
      [] ip = 10 -> stack = <<sampled, V("q"), 1 - V("q")>> /\ edges = 1 - V("q")
      [] ip = 11 -> stack = <<sampled, 1 - V("q")>> /\ edges = V("q")
      [] ip \in {12, 13} -> stack = <<sampled>> /\ edges = V("q") /\ V("nq") = 1 - V("q")
      [] OTHER -> Settled

ToggleInv ==
    /\ instructions = Toggle
    /\ phase \in {"init", "ready", "running"} /\ outcome = "ok"
    /\ sampled \in {0, 1} /\ edges \in {0, 1}
    /\ phase = "init" =>
          /\ sampled = 0 /\ edges = 0
          /\ \A v \in DOMAIN InitValue \ pending : V(v) = InitValue[v]
    /\ phase = "ready" => Settled
    /\ phase = "running" => Along

(* The bits are 0 or 1.                                                    *)
LEMMA Bits01 ==
    ASSUME ToggleSetting, MachineTypeOK
    PROVE  V("trigger") \in {0, 1} /\ V("q") \in {0, 1} /\ V("nq") \in {0, 1}
BY TogglePlaces, ToggleMemory DEF V, ToggleSetting, MachineTypeOK

(* 0 and 1 are words, so are the bits and the sample.                      *)
LEMMA BitIsWord == ToggleSetting => 0 \in Words /\ 1 \in Words
BY InitValueAssumption DEF ToggleSetting, ToggleInitValue

(* Value reads what a variable holds.                                      *)
LEMMA ValueIs ==
    ASSUME ToggleSetting, MachineTypeOK, NEW v \in ToggleVar
    PROVE  Value(v) = V(v)
<1>1. mem \in ToggleMemories
  BY DEF ToggleSetting, MachineTypeOK
<1>2. load(mem, Place[v]) = {V(v)}
  BY <1>1, TogglePlaces, ToggleMemory, LoadIs DEF V
<1> QED
  BY <1>2 DEF Value

(* The history that goes with a step.                                      *)
Observed ==
    IF Sample
    THEN /\ sampled' = Value("trigger")
         /\ edges' = IF sampled = 0 /\ Value("trigger") = 1 THEN 1 - edges ELSE edges
    ELSE UNCHANGED <<sampled, edges>>

(* Instruction by instruction.                                             *)
LEMMA ToggleExecutes ==
    ASSUME ToggleSetting, MachineTypeOK, ToggleInv, Execute, Observed
    PROVE  ToggleInv'
<1> DEFINE Fine == /\ phase' = "running" /\ outcome' = "ok" /\ instructions' = instructions
                   /\ sampled' \in {0, 1} /\ edges' \in {0, 1} /\ Along'
<1>1. phase = "running"
  BY DEF Execute, Fetched, PUSH_const, PUSH_var, PUSH_special, POP_var, POP_discard,
         BINARY, UNARY, ATANXY, DUP, LABEL, J, JZ, JNZ, END
<1>2. instructions = Toggle /\ Along /\ sampled \in {0, 1} /\ edges \in {0, 1}
  BY <1>1 DEF ToggleInv
<1>3. ip \in 0..14
  <2>1. Len(instructions) = 15 /\ 15 - 1 = 14
    BY <1>2, ToggleInstructions
  <2> QED
    BY <2>1 DEF MachineTypeOK, IpInRange
<1>4. V("trigger") \in {0, 1} /\ V("q") \in {0, 1} /\ V("nq") \in {0, 1}
  BY Bits01
<1>5. 0 \in Words /\ 1 \in Words
  BY BitIsWord
<1>6. {"trigger", "q", "nq", "old_trigger"} = ToggleVar
  BY TogglePlaces
<1>7. ip # 0 => sampled' = sampled /\ edges' = edges
  BY DEF Observed, Sample
<1>8. mem' = mem => \A v \in ToggleVar : V(v)' = V(v)
  BY DEF V
<1>9. Fine => ToggleInv'
  BY <1>2 DEF ToggleInv
<1>10. CASE ip = 0
  <2>1. stack = <<>> /\ Settled
    BY <1>2, <1>10 DEF Along
  <2>2. Returned(Append(<<>>, V("trigger")), 1) /\ mem' = mem
    BY <1>2, <1>6, <1>10, <2>1, ToggleInstructions, PushVar
  <2>3. Returned(<<V("trigger")>>, 1)
    BY <2>2, Tuples
  <2>4. /\ sampled' = V("trigger")
        /\ edges' = IF sampled = 0 /\ V("trigger") = 1 THEN 1 - edges ELSE edges
    BY <1>1, <1>6, <1>10, <2>3, ValueIs DEF Observed, Sample, Returned
  <2> QED
    BY <1>2, <1>4, <1>6, <1>8, <1>9, <2>1, <2>2, <2>3, <2>4 DEF Along, Settled, Unsettled, Returned
<1>11. CASE ip = 1
  <2>1. stack = <<sampled>> /\ Unsettled
    BY <1>2, <1>11 DEF Along
  <2>2. Returned(Append(stack, Top), 2) /\ mem' = mem
    BY <1>2, <1>6, <1>11, <2>1, ToggleInstructions, Duplicate
  <2>3. Returned(<<sampled, sampled>>, 2)
    <3>1. Top = sampled
      BY <2>1, Elements
    <3>2. Append(stack, sampled) = <<sampled, sampled>>
      BY <2>1, Tuples
    <3> QED
      BY <2>2, <3>1, <3>2
  <2>4. /\ V("q")' = V("q") /\ V("nq")' = V("nq") /\ V("old_trigger")' = V("old_trigger")
        /\ sampled' = sampled /\ edges' = edges
    BY <1>6, <1>7, <1>8, <1>11, <2>2
  <2>5. Along'
    BY <1>2, <1>4, <1>11, <2>1, <2>3, <2>4 DEF Along, Unsettled, Returned
  <2> QED
    BY <1>2, <1>9, <2>3, <2>4, <2>5 DEF Returned
<1>12. CASE ip = 2
  <2>1. stack = <<sampled, sampled>> /\ Unsettled
    BY <1>2, <1>12 DEF Along
  <2>2. Returned(Below(1), IF Top = 0 THEN 13 ELSE 3) /\ mem' = mem
    BY <1>2, <1>6, <1>12, <2>1, ToggleInstructions, JumpZero
  <2>3. Returned(<<sampled>>, IF sampled = 0 THEN 13 ELSE 3)
    BY <2>1, <2>2, Tuples, Elements
  <2>4. /\ V("q")' = V("q") /\ V("nq")' = V("nq") /\ V("old_trigger")' = V("old_trigger")
        /\ sampled' = sampled /\ edges' = edges
    BY <1>6, <1>7, <1>8, <1>12, <2>2
  <2>5. Along'
    BY <1>2, <1>4, <1>12, <2>1, <2>3, <2>4 DEF Along, Unsettled, Returned
  <2> QED
    BY <1>2, <1>9, <2>3, <2>4, <2>5 DEF Returned
<1>13. CASE ip = 3
  <2>1. stack = <<sampled>> /\ sampled = 1 /\ Unsettled
    BY <1>2, <1>13 DEF Along
  <2>2. Returned(Append(stack, Top), 4) /\ mem' = mem
    BY <1>2, <1>6, <1>13, <2>1, ToggleInstructions, Duplicate
  <2>3. Returned(<<sampled, sampled>>, 4)
    <3>1. Top = sampled
      BY <2>1, Elements
    <3>2. Append(stack, sampled) = <<sampled, sampled>>
      BY <2>1, Tuples
    <3> QED
      BY <2>2, <3>1, <3>2
  <2>4. /\ V("q")' = V("q") /\ V("nq")' = V("nq") /\ V("old_trigger")' = V("old_trigger")
        /\ sampled' = sampled /\ edges' = edges
    BY <1>6, <1>7, <1>8, <1>13, <2>2
  <2>5. Along'
    BY <1>2, <1>4, <1>13, <2>1, <2>3, <2>4 DEF Along, Unsettled, Returned
  <2> QED
    BY <1>2, <1>9, <2>3, <2>4, <2>5 DEF Returned
<1>14. CASE ip = 4
  <2>1. stack = <<sampled, sampled>> /\ sampled = 1 /\ Unsettled
    BY <1>2, <1>14 DEF Along
  <2>2. Returned(Append(stack, V("old_trigger")), 5) /\ mem' = mem
    BY <1>2, <1>6, <1>14, <2>1, ToggleInstructions, PushVar
  <2>3. Returned(<<sampled, sampled, V("old_trigger")>>, 5)
    <3>1. Append(stack, V("old_trigger")) = <<sampled, sampled, V("old_trigger")>>
      BY <2>1, Tuples
    <3> QED
      BY <2>2, <3>1
  <2>4. /\ V("q")' = V("q") /\ V("nq")' = V("nq") /\ V("old_trigger")' = V("old_trigger")
        /\ sampled' = sampled /\ edges' = edges
    BY <1>6, <1>7, <1>8, <1>14, <2>2
  <2>5. Along'
    BY <1>2, <1>4, <1>14, <2>1, <2>3, <2>4 DEF Along, Unsettled, Returned
  <2> QED
    BY <1>2, <1>9, <2>3, <2>4, <2>5 DEF Returned
<1>15. CASE ip = 5
  <2>1. stack = <<sampled, sampled, V("old_trigger")>> /\ sampled = 1 /\ Unsettled
    BY <1>2, <1>15 DEF Along
  <2>2. sampled \in Words /\ V("old_trigger") \in Words
    BY <1>5, <2>1 DEF Unsettled
  <2>3. /\ Returned(<<sampled, IF sampled = V("old_trigger") THEN 0 ELSE 1>>, 6)
        /\ mem' = mem
    <3>1. Fetch = [op |-> "BINARY", alu |-> "NE"] /\ ip + 1 = 6
      BY <1>2, <1>15, ToggleInstructions
    <3> QED
      BY <2>1, <2>2, <3>1, NotEqual
  <2> QED
    BY <1>2, <1>6, <1>7, <1>8, <1>9, <1>15, <2>1, <2>3 DEF Along, Unsettled, Returned
<1>16. CASE ip = 6
  <2>1. stack = <<sampled, IF sampled = V("old_trigger") THEN 0 ELSE 1>> /\ sampled = 1 /\ Unsettled
    BY <1>2, <1>16 DEF Along
  <2>2. Returned(Below(1), IF Top = 0 THEN 13 ELSE 7) /\ mem' = mem
    BY <1>2, <1>6, <1>16, <2>1, ToggleInstructions, JumpZero
  <2>3. Returned(<<sampled>>, IF (IF sampled = V("old_trigger") THEN 0 ELSE 1) = 0 THEN 13 ELSE 7)
    BY <2>1, <2>2, Tuples, Elements
  <2>4. /\ V("q")' = V("q") /\ V("nq")' = V("nq") /\ V("old_trigger")' = V("old_trigger")
        /\ sampled' = sampled /\ edges' = edges
    BY <1>6, <1>7, <1>8, <1>16, <2>2
  <2>5. Along'
    BY <1>2, <1>4, <1>16, <2>1, <2>3, <2>4 DEF Along, Unsettled, Returned
  <2> QED
    BY <1>2, <1>9, <2>3, <2>4, <2>5 DEF Returned
<1>17. CASE ip = 7
  <2>1. stack = <<sampled>> /\ edges = 1 - V("q")
    BY <1>2, <1>17 DEF Along
  <2>2. Returned(Append(stack, V("q")), 8) /\ mem' = mem
    BY <1>2, <1>6, <1>17, <2>1, ToggleInstructions, PushVar
  <2>3. Returned(<<sampled, V("q")>>, 8)
    <3>1. Append(stack, V("q")) = <<sampled, V("q")>>
      BY <2>1, Tuples
    <3> QED
      BY <2>2, <3>1
  <2>4. /\ V("q")' = V("q") /\ V("nq")' = V("nq") /\ V("old_trigger")' = V("old_trigger")
        /\ sampled' = sampled /\ edges' = edges
    BY <1>6, <1>7, <1>8, <1>17, <2>2
  <2>5. Along'
    BY <1>2, <1>4, <1>17, <2>1, <2>3, <2>4 DEF Along, Unsettled, Returned
  <2> QED
    BY <1>2, <1>9, <2>3, <2>4, <2>5 DEF Returned
<1>18. CASE ip = 8
  <2>1. stack = <<sampled, V("q")>> /\ edges = 1 - V("q")
    BY <1>2, <1>18 DEF Along
  <2>2. Returned(Append(stack, Top), 9) /\ mem' = mem
    BY <1>2, <1>6, <1>18, <2>1, ToggleInstructions, Duplicate
  <2>3. Returned(<<sampled, V("q"), V("q")>>, 9)
    <3>1. Top = V("q")
      BY <2>1, Elements
    <3>2. Append(stack, V("q")) = <<sampled, V("q"), V("q")>>
      BY <2>1, Tuples
    <3> QED
      BY <2>2, <3>1, <3>2
  <2>4. /\ V("q")' = V("q") /\ V("nq")' = V("nq") /\ V("old_trigger")' = V("old_trigger")
        /\ sampled' = sampled /\ edges' = edges
    BY <1>6, <1>7, <1>8, <1>18, <2>2
  <2>5. Along'
    BY <1>2, <1>4, <1>18, <2>1, <2>3, <2>4 DEF Along, Unsettled, Returned
  <2> QED
    BY <1>2, <1>9, <2>3, <2>4, <2>5 DEF Returned
<1>19. CASE ip = 9
  <2>1. stack = <<sampled, V("q"), V("q")>> /\ edges = 1 - V("q")
    BY <1>2, <1>19 DEF Along
  <2>2. V("q") \in Words
    BY <1>4, <1>5
  <2>3. Returned(<<sampled, V("q"), IF V("q") = 0 THEN 1 ELSE 0>>, 10) /\ mem' = mem
    BY <1>2, <1>19, <2>1, <2>2, ToggleInstructions, Not
  <2> QED
    BY <1>2, <1>4, <1>6, <1>7, <1>8, <1>9, <1>19, <2>1, <2>3 DEF Along, Returned
<1>20. CASE ip = 10
  <2>1. stack = <<sampled, V("q"), 1 - V("q")>> /\ edges = 1 - V("q")
    BY <1>2, <1>20 DEF Along
  <2>2. Top = 1 - V("q") /\ Top \in Words /\ Below(1) = <<sampled, V("q")>>
    BY <1>4, <1>5, <2>1, Elements
  <2>3. Returned(Below(1), 11) /\ V("q")' = Kept(Place["q"], Top)
    BY <1>2, <1>6, <1>20, <2>1, <2>2, ToggleInstructions, PopVar
  <2>4. V("q")' = 1 - V("q")
    BY <1>4, <2>2, <2>3, TogglePlaces DEF Kept, SharedBit
  <2>5. stack' = <<sampled, 1 - (1 - V("q"))>>
    BY <1>4, <2>2, <2>3 DEF Returned
  <2> QED
    BY <1>2, <1>7, <1>9, <1>20, <2>1, <2>3, <2>4, <2>5 DEF Along, Returned
<1>21. CASE ip = 11
  <2>1. stack = <<sampled, 1 - V("q")>> /\ edges = V("q")
    BY <1>2, <1>21 DEF Along
  <2>2. Top = 1 - V("q") /\ Top \in Words /\ Below(1) = <<sampled>>
    BY <1>4, <1>5, <2>1, Elements
  <2>3. /\ Returned(Below(1), 12) /\ V("nq")' = Kept(Place["nq"], Top)
        /\ V("q")' = V("q")
    BY <1>2, <1>6, <1>21, <2>1, <2>2, ToggleInstructions, PopVar
  <2>4. V("nq")' = 1 - V("q")
    BY <1>4, <2>2, <2>3, TogglePlaces DEF Kept, SharedBit
  <2> QED
    BY <1>2, <1>7, <1>9, <1>21, <2>1, <2>2, <2>3, <2>4 DEF Along, Returned
<1>22. CASE ip = 12
  <2>1. stack = <<sampled>> /\ edges = V("q") /\ V("nq") = 1 - V("q")
    BY <1>2, <1>22 DEF Along
  <2>2. Returned(stack, 13) /\ mem' = mem
    BY <1>2, <1>22, ToggleInstructions, AtLabel
  <2> QED
    BY <1>2, <1>6, <1>7, <1>8, <1>9, <1>22, <2>1, <2>2 DEF Along, Returned
<1>23. CASE ip = 13
  <2>1. stack = <<sampled>> /\ edges = V("q") /\ V("nq") = 1 - V("q")
    BY <1>2, <1>23 DEF Along
  <2>2. Top = sampled /\ Top \in Words
    BY <1>2, <1>5, <2>1, Elements
  <2>3. /\ Returned(Below(1), 14) /\ V("old_trigger")' = Kept(Place["old_trigger"], Top)
        /\ V("q")' = V("q") /\ V("nq")' = V("nq")
    BY <1>2, <1>6, <1>23, <2>1, <2>2, ToggleInstructions, PopVar
  <2>4. V("old_trigger")' = sampled
    BY <2>2, <2>3, TogglePlaces DEF Kept, LocalCell
  <2> QED
    BY <1>2, <1>7, <1>9, <1>23, <2>1, <2>3, <2>4 DEF Along, Settled, Returned
<1>24. CASE ip = 14
  <2>1. Settled
    BY <1>2, <1>24 DEF Along
  <2>2. /\ outcome' = "ok" /\ phase' = "ready" /\ mem' = mem
        /\ UNCHANGED <<instructions, pending>>
    BY <1>2, <1>24, ToggleInstructions, AtEnd
  <2>3. Settled'
    BY <1>6, <1>7, <1>8, <1>24, <2>1, <2>2 DEF Settled
  <2> QED
    BY <1>2, <1>7, <1>24, <2>2, <2>3 DEF ToggleInv
<1> QED
  BY <1>3, <1>10, <1>11, <1>12, <1>13, <1>14, <1>15, <1>16, <1>17, <1>18, <1>19,
     <1>20, <1>21, <1>22, <1>23, <1>24

(* init(), the start of a cycle and the other process.                     *)
LEMMA ToggleStep ==
    ASSUME ToggleSetting, MachineTypeOK, ToggleInv, [ToggleNext]_toggleVars
    PROVE  ToggleInv'
<1> DEFINE TV == ToggleVar
<1>1. mem \in Memories /\ Memories = ToggleMemories /\ Var = TV /\ Word = Words
  BY DEF ToggleSetting, MachineTypeOK
<1>2. /\ TV = {"trigger", "q", "nq", "old_trigger"}
      /\ DOMAIN InitValue = {"old_trigger", "q", "nq"}
      /\ InitValue["old_trigger"] = 0 /\ InitValue["q"] = 0 /\ InitValue["nq"] = 1
  BY TogglePlaces DEF ToggleSetting, ToggleInitValue
<1>3. PlacedAt(Place, {SharedBit(1, 0)})
  BY ToggleIsPlaced
<1>4. mem' = mem => \A v \in TV : V(v)' = V(v)
  BY DEF V
<1>5. pending \subseteq DOMAIN InitValue
  BY DEF MachineTypeOK
<1>6. CASE UNCHANGED toggleVars
  <2>1. UNCHANGED <<stack, outcome, instructions, ip, mem, pending, phase, sampled, edges>>
    BY <1>6 DEF toggleVars, vars, stackVars, machineVars
  <2>2. (Along <=> Along') /\ (Settled <=> Settled')
    BY <1>2, <1>4, <2>1 DEF Along, Settled, Unsettled
  <2> QED
    BY <1>2, <1>4, <2>1, <2>2 DEF ToggleInv
<1> SUFFICES ASSUME ToggleNext PROVE ToggleInv'
  BY <1>6
<1>7. Next /\ Observed
  BY DEF ToggleNext, Observed
<1>8. phase # "running" => sampled' = sampled /\ edges' = edges
  BY <1>7 DEF Observed, Sample
<1>9. ASSUME NEW u \in pending, InitVariable(u) PROVE ToggleInv'
  <2>1. u \in TV /\ InitValue[u] \in Word /\ phase = "init"
    BY <1>1, <1>2, <1>5, <1>9, InitValueAssumption DEF InitVariable
  <2>2. Store(mem, u, InitValue[u]) # {}
    BY <1>1, <1>3, <2>1, StoreAt, ToggleMemory
  <2>3. /\ mem' \in Store(mem, u, InitValue[u]) /\ outcome' = "ok"
        /\ pending' = pending \ {u} /\ phase' = "init" /\ instructions' = instructions
    BY <1>9, <2>2 DEF InitVariable, Return
  <2>4. /\ mem' \in Memories /\ Load(mem', u) = {Kept(Place[u], InitValue[u])}
        /\ \A w \in TV : Place[w] # Place[u] => Load(mem', w) = Load(mem, w)
    BY <1>1, <1>3, <2>1, <2>3, StoreAt
  <2>5. \A w \in TV : Load(mem, w) = {V(w)} /\ Load(mem', w) = {V(w)'}
    BY <1>1, <1>3, <2>4, LoadAt, ToggleMemory DEF V
  <2>6. V(u)' = InitValue[u]
    <3>1. Kept(Place[u], InitValue[u]) = InitValue[u]
      BY <1>3, <1>5 DEF PlacedAt
    <3> QED
      BY <2>1, <2>4, <2>5, <3>1
  <2>7. \A w \in TV \ {u} : V(w)' = V(w)
    BY <2>1, <2>4, <2>5, TogglePlaces
  <2>8. \A v \in DOMAIN InitValue \ pending' : V(v)' = InitValue[v]
    BY <1>2, <2>1, <2>3, <2>6, <2>7 DEF ToggleInv
  <2> QED
    BY <1>8, <2>1, <2>3, <2>8 DEF ToggleInv
<1>10. CASE InitDone
  <2>1. V("q") = 0 /\ V("nq") = 1 /\ V("old_trigger") = 0 /\ sampled = 0 /\ edges = 0
    BY <1>2, <1>10 DEF InitDone, ToggleInv
  <2>2. /\ phase = "init" /\ phase' = "ready" /\ mem' = mem /\ instructions' = instructions
        /\ outcome' = outcome
    BY <1>10 DEF InitDone, stackVars
  <2> QED
    BY <1>2, <1>4, <1>8, <2>1, <2>2 DEF ToggleInv, Settled
<1>11. CASE Start
  <2>1. /\ phase = "ready" /\ phase' = "running" /\ stack' = <<>> /\ outcome' = "ok"
        /\ ip' = 0 /\ mem' = mem /\ instructions' = instructions
    BY <1>11 DEF Start, clr, Return
  <2>2. Settled'
    BY <1>2, <1>4, <1>8, <2>1 DEF ToggleInv, Settled
  <2>3. Along'
    BY <2>1, <2>2 DEF Along
  <2> QED
    BY <1>8, <2>1, <2>3 DEF ToggleInv
<1>12. CASE Execute
  BY <1>7, <1>12, ToggleExecutes
<1>13. CASE OutsideWrite
  <2>1. /\ mem' \in Outside(mem) /\ UNCHANGED <<stack, outcome, instructions, ip, pending, phase>>
    BY <1>13 DEF OutsideWrite, stackVars
  <2>2. ip \in Nat
    BY DEF MachineTypeOK, IpInRange
  <2>3. sampled' = sampled /\ edges' = edges
    BY <1>7, <2>1 DEF Observed, Sample
  <2>4. mem' \in Memories
    BY <1>1, <2>1, MemoryAssumption
  <2>5. \A w \in TV : Load(mem, w) = {V(w)} /\ Load(mem', w) = {V(w)'}
    BY <1>1, <1>3, <2>4, LoadAt, ToggleMemory DEF V
  <2>6. \A w \in {"q", "nq", "old_trigger"} : V(w)' = V(w)
    <3> SUFFICES ASSUME NEW w \in {"q", "nq", "old_trigger"} PROVE V(w)' = V(w)
      OBVIOUS
    <3>1. w \in TV /\ Place[w] \notin {SharedBit(1, 0)}
      BY <1>2, TogglePlaces
    <3>2. Load(mem', w) = Load(mem, w)
      BY <1>1, <1>3, <2>1, <3>1 DEF PlacedAt
    <3> QED
      BY <2>5, <3>1, <3>2
  <2>7. (Along <=> Along') /\ (Settled <=> Settled')
    BY <2>1, <2>3, <2>6 DEF Along, Settled, Unsettled
  <2> QED
    BY <1>2, <2>1, <2>3, <2>6, <2>7 DEF ToggleInv
<1>14. ~Stopped
  BY DEF Stopped, ToggleInv
<1> QED
  BY <1>7, <1>9, <1>10, <1>11, <1>12, <1>13, <1>14 DEF Next

(* The flip-flop of the example does what it is for: between two cycles q  *)
(* has toggled once for every rising edge among the samples, and no cycle  *)
(* fails; at every width of words and bytes, and at whatever moments the   *)
(* other process changes the trigger.                                      *)
THEOREM TogglesOnRisingEdgeTheorem ==
    ASSUME ToggleSetting
    PROVE  ToggleSpec => []TogglesOnRisingEdge
<1>1. ToggleSpec => Spec
  <2>1. ToggleInit => Init
    BY DEF ToggleInit
  <2>2. [ToggleNext]_toggleVars => [Next]_vars
    BY DEF ToggleNext, toggleVars
  <2> QED
    BY <2>1, <2>2, PTL DEF ToggleSpec, Spec
<1>2. ToggleInit => ToggleInv
  BY DEF ToggleInit, Init, StackInit, ToggleInv, ToggleSetting, TogglePrograms
<1>3. MachineTypeOK /\ ToggleInv /\ [ToggleNext]_toggleVars => ToggleInv'
  BY ToggleStep
<1>4. MachineTypeOK /\ ToggleInv => TogglesOnRisingEdge
  <2> SUFFICES ASSUME MachineTypeOK, ToggleInv PROVE TogglesOnRisingEdge
    OBVIOUS
  <2>1. Value("q") = V("q") /\ Value("nq") = V("nq") /\ Value("old_trigger") = V("old_trigger")
    BY ValueIs, TogglePlaces
  <2> QED
    BY <2>1 DEF ToggleInv, Settled, TogglesOnRisingEdge
<1> QED
  BY <1>1, <1>2, <1>3, <1>4, MachineTypeCorrect, PTL DEF ToggleSpec
=============================================================================
