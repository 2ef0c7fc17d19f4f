---------------------------- MODULE WordsProofs ----------------------------
(***************************************************************************)
(* The laws of the arithmetic for every even width of the word up to 64    *)
(* bits, the 64 of stack_t included, where TLC enumerates the operands of  *)
(* narrow ones.                                                            *)
(*                                                                         *)
(* The operands of MCWords are any two words, so each law is a fact about  *)
(* Words.  The recursive definitions (ipow, RepeatedProduct, the sum in    *)
(* FromBits) are handled alike: a function that satisfies the recursion    *)
(* exists, it is the only one, and it has the value claimed; each by       *)
(* induction over a set of numbers, SetInduction.                          *)
(***************************************************************************)
EXTENDS MCWords, FiniteSetTheorems, WellFoundedInduction, TLAPS

(* The powers of two: the prover knows nothing of an exponent that is not  *)
(* a numeral, the library counts the subsets of a set, and a set with one  *)
(* more element has twice as many.                                         *)
LEMMA PowersOfTwo ==
    /\ 2^0 = 1
    /\ \A n \in Nat : 2^n \in Nat /\ 2^n # 0 /\ 2^(n + 1) = 2 * 2^n
<1>1. 2^0 = 1
  <2>1. SUBSET {} = {{}}
    OBVIOUS
  <2>2. 2^Cardinality({}) = Cardinality(SUBSET {})
    BY FS_EmptySet, FS_SUBSET, Zenon
  <2> QED
    BY <2>1, <2>2, FS_EmptySet, FS_Singleton, Zenon
<1>2. ASSUME NEW n \in Nat
      PROVE  2^n \in Nat /\ 2^n # 0 /\ 2^(n + 1) = 2 * 2^n
  <2> DEFINE A == 1..n
             x == n + 1
             Without == SUBSET A
             With == {T \cup {x} : T \in SUBSET A}
             f == [T \in Without |-> T \cup {x}]
  <2>1. /\ IsFiniteSet(A) /\ Cardinality(A) = n
        /\ IsFiniteSet(A \cup {x}) /\ Cardinality(A \cup {x}) = n + 1
    <3>1. x \notin A
      OBVIOUS
    <3> HIDE DEF x
    <3>2. IsFiniteSet(A) /\ Cardinality(A) = n
      BY FS_Interval
    <3> HIDE DEF A
    <3> QED
      BY <3>1, <3>2, FS_AddElement
  <2>2. x \notin A
    OBVIOUS
  <2> HIDE DEF A, x
  <2>3. /\ IsFiniteSet(Without) /\ Cardinality(Without) = 2^n
        /\ Cardinality(SUBSET (A \cup {x})) = 2^(n + 1)
    BY <2>1, FS_SUBSET
  <2>4. ExistsBijection(Without, With)
    <3>1. f \in [Without -> With]
      OBVIOUS
    <3>2. f \in Injection(Without, With)
      <4>1. ASSUME NEW T \in Without, NEW U \in Without, f[T] = f[U]
            PROVE  T = U
        <5>1. T \cup {x} = U \cup {x} /\ x \notin T /\ x \notin U
          BY <2>2, <4>1
        <5> QED
          BY <5>1
      <4>2. DOMAIN f = Without
        OBVIOUS
      <4> HIDE DEF f, Without, With
      <4> QED
        BY <3>1, <4>1, <4>2 DEF Injection, IsInjective
    <3>3. f \in Surjection(Without, With)
      BY <3>1 DEF Surjection
    <3> QED
      BY <3>2, <3>3 DEF ExistsBijection, Bijection
  <2>5. SUBSET (A \cup {x}) = Without \cup With
    <3>1. ASSUME NEW U \in SUBSET (A \cup {x}), U \notin Without
          PROVE  U \in With
      <4>1. U \ {x} \in SUBSET A /\ U = (U \ {x}) \cup {x}
        BY <3>1
      <4> QED
        BY <4>1
    <3> QED
      BY <3>1
  <2>6. Without \cap With = {}
    BY <2>2
  <2> HIDE DEF Without, With
  <2>7. IsFiniteSet(With) /\ Cardinality(With) = Cardinality(Without)
    BY <2>3, <2>4, FS_Bijection
  <2>8. Cardinality(Without \cup With)
          = Cardinality(Without) + Cardinality(With) - Cardinality(Without \cap With)
    BY <2>3, <2>7, FS_Union, Zenon
  <2>9. Cardinality(Without \cap With) = 0
    BY <2>6, FS_EmptySet
  <2>10. Cardinality(Without) \in Nat
    BY <2>3, FS_CardinalityType
  <2>11. 2^n # 0
    <3>1. {} \in Without
      BY DEF Without
    <3> QED
      BY <2>3, <3>1, FS_EmptySet
  <2>12. 2^(n + 1) = 2^n + 2^n - 0 /\ 2^n \in Nat
    BY <2>3, <2>5, <2>7, <2>8, <2>9, <2>10, Zenon
  <2> QED
    BY <2>11, <2>12
<1> QED
  BY <1>1, <1>2

(* Induction over a set of numbers: what the recursive definitions of      *)
(* Words need.                                                             *)
LEMMA SetInduction ==
    \A S : 0 \in S /\ (\A n \in Nat : n \in S => n + 1 \in S) => Nat \subseteq S
<1> SUFFICES ASSUME NEW S, 0 \in S, \A n \in Nat : n \in S => n + 1 \in S, ~ (Nat \subseteq S)
             PROVE  FALSE
  OBVIOUS
<1> DEFINE Less == OpToRel(<, Nat)
           T == Nat \ S
<1>1. T \subseteq Nat /\ T # {}
  OBVIOUS
<1>2. IsWellFoundedOn(Less, Nat)
  BY NatLessThanWellFounded
<1> HIDE DEF T
<1>3. PICK x \in T : \A y \in T : ~ (<<y, x>> \in Less)
  BY <1>1, <1>2, WFMin
<1>4. \A y \in T : ~ (y < x)
  BY <1>1, <1>3 DEF OpToRel
<1>5. x \in Nat /\ x # 0 /\ x \notin S
  BY DEF T
<1>6. x - 1 \in S
  BY <1>4, <1>5 DEF T
<1> QED
  BY <1>5, <1>6

(* \div and % are quotient and remainder,                                  *)
LEMMA DivMod ==
    \A a \in Int, b \in Nat \ {0} :
        /\ a \div b \in Int /\ a % b \in Nat
        /\ a = b * (a \div b) + (a % b) /\ a % b < b
  BY SMT

(* and the only ones.                                                      *)
LEMMA DivModUnique ==
  ASSUME NEW a \in Int, NEW b \in Nat \ {0}, NEW q \in Int, NEW r \in Nat,
         a = b * q + r, r < b
  PROVE  a \div b = q /\ a % b = r
<1> DEFINE p == a \div b
           s == a % b
<1>1. p \in Int /\ s \in Nat /\ s < b /\ b * p + s = b * q + r
  BY DivMod
<1> HIDE DEF p, s
<1>2. CASE p >= q + 1
  <2>1. b * p >= b * q + b
    BY <1>1, <1>2
  <2> QED BY <1>1, <2>1
<1>3. CASE p <= q - 1
  <2>1. b * p <= b * q - b
    BY <1>1, <1>3
  <2> QED BY <1>1, <2>1
<1>4. p = q
  BY <1>1, <1>2, <1>3
<1> QED
  BY <1>1, <1>4 DEF p, s

(* A word has an even number of values, at least four.                     *)
LEMMA ModulusEven ==
    /\ Modulus \in Nat
    /\ \E h \in Nat : h >= 1 /\ Modulus = 2 * h /\ Modulus \div 2 = h
    /\ WordBits \in Nat /\ WordBits >= 2 /\ WordBits \div 2 \in 0..WordBits
<1>1. WordBits \in Nat /\ WordBits >= 2 /\ WordBits \div 2 \in 0..WordBits
  BY WordBitsAssumption
<1> DEFINE k == WordBits - 1
           h == 2^k
<1>2. k \in Nat /\ k + 1 = WordBits
  BY <1>1
<1> HIDE DEF k
<1>3. h \in Nat /\ Modulus = 2 * h
  BY <1>2, PowersOfTwo DEF Modulus
<1>4. h # 0
  BY <1>2, PowersOfTwo
<1> HIDE DEF h
<1> QED
  BY <1>1, <1>3, <1>4 DEF h

(* What ToWord does: a word stays, a multiple of the modulus vanishes.     *)
LEMMA ToWordIs ==
    /\ \A i \in Int : ToWord(i) \in Words
    /\ \A w \in Words : ToWord(w) = w
    /\ \A w \in Words, k \in Int : ToWord(w + Modulus * k) = w
    /\ \A i \in Int : \E k \in Int : i = ToWord(i) + Modulus * k
<1> DEFINE M == Modulus
<1>1. M \in Nat \ {0}
  BY ModulusEven
<1>2. Words = 0..M - 1 /\ \A i : ToWord(i) = i % M
  BY DEF Words, ToWord
<1> HIDE DEF M
<1>3. \A i \in Int : ToWord(i) \in Words
  BY <1>1, <1>2, DivMod
<1>4. ASSUME NEW w \in Words, NEW k \in Int
      PROVE  ToWord(w + M * k) = w
  <2>1. M * k \in Int /\ w \in Nat /\ w < M
    BY <1>1, <1>2
  <2>2. w + M * k \in Int /\ w + M * k = M * k + w
    BY <2>1
  <2> QED
    BY <1>1, <1>2, <2>1, <2>2, DivModUnique
<1>5. ASSUME NEW w \in Words
      PROVE  ToWord(w) = w
  <2>1. w + M * 0 = w
    BY <1>1, <1>2
  <2> QED
    BY <1>4, <2>1
<1>6. ASSUME NEW i \in Int
      PROVE  \E k \in Int : i = ToWord(i) + M * k
  <2>1. i = M * (i \div M) + (i % M) /\ i \div M \in Int /\ i % M \in Nat
    BY <1>1, DivMod
  <2>2. M * (i \div M) \in Int
    BY <1>1, <2>1
  <2>3. i = (i % M) + M * (i \div M)
    BY <2>1, <2>2
  <2> QED
    BY <1>2, <2>1, <2>3
<1> QED
  BY <1>3, <1>4, <1>5, <1>6 DEF M

(* Sums and products may be truncated at any point.                        *)
LEMMA Congruent ==
    /\ \A i, k \in Int : ToWord(i + Modulus * k) = ToWord(i)
    /\ \A i, j \in Int : ToWord(i * ToWord(j)) = ToWord(i * j)
<1> DEFINE M == Modulus
<1>1. M \in Nat
  BY ModulusEven
<1>2. Words \subseteq Int
  BY <1>1 DEF Words
<1> HIDE DEF M
<1>3. ASSUME NEW i \in Int, NEW k \in Int
      PROVE  ToWord(i + M * k) = ToWord(i)
  <2>1. PICK n \in Int : i = ToWord(i) + M * n
    BY ToWordIs DEF M
  <2>2. ToWord(i) \in Words /\ ToWord(i) \in Int
    BY <1>2, ToWordIs
  <2>3. \A w \in Int : (w + M * n) + M * k = w + M * (n + k)
    BY <1>1
  <2>4. i + M * k = ToWord(i) + M * (n + k)
    BY <2>1, <2>2, <2>3, Zenon
  <2>5. n + k \in Int
    OBVIOUS
  <2> QED
    BY <2>2, <2>4, <2>5, ToWordIs DEF M
<1>4. ASSUME NEW i \in Int, NEW j \in Int
      PROVE  ToWord(i * ToWord(j)) = ToWord(i * j)
  <2>1. PICK n \in Int : j = ToWord(j) + M * n
    BY ToWordIs DEF M
  <2>2. ToWord(j) \in Int
    BY <1>2, ToWordIs
  <2>3. \A w \in Int : i * (w + M * n) = i * w + M * (i * n)
    BY <1>1
  <2>4. i * j = i * ToWord(j) + M * (i * n) /\ i * n \in Int /\ i * ToWord(j) \in Int
    BY <2>1, <2>2, <2>3
  <2> QED
    BY <1>3, <2>4
<1> QED
  BY <1>3, <1>4 DEF M

(* The signed reading of a word: two's complement.                         *)
LEMMA SignedIs ==
  ASSUME NEW h \in Nat, Modulus = 2 * h, h >= 1
  PROVE  /\ \A w \in Words : /\ Signed(w) \in -h..h - 1
                             /\ ToWord(Signed(w)) = w
                             /\ (Signed(w) = -h) = (2 * w = Modulus)
                             /\ (Signed(w) = -1) = (w = Modulus - 1)
                             /\ (Signed(w) = 0) = (w = 0)
                             /\ \E k \in Int : Signed(w) = w + Modulus * k
                             /\ Signed(w) = IF w < h THEN w ELSE w - 2 * h
         /\ \A i \in -h..h - 1 : ToWord(i) \in Words /\ Signed(ToWord(i)) = i
         /\ SignedWords = -h..h - 1
<1>1. Words = 0..2 * h - 1
  BY DEF Words
<1>2. ASSUME NEW w \in Words
      PROVE  /\ Signed(w) \in -h..h - 1
             /\ Signed(w) = IF w < h THEN w ELSE w - 2 * h
             /\ (Signed(w) = -h) = (2 * w = Modulus)
             /\ (Signed(w) = -1) = (w = Modulus - 1)
             /\ (Signed(w) = 0) = (w = 0)
             /\ \E k \in {0, -1} : Signed(w) = w + Modulus * k
  BY <1>1 DEF Signed
<1>3. ASSUME NEW w \in Words
      PROVE  ToWord(Signed(w)) = w
  <2>1. PICK k \in {0, -1} : Signed(w) = w + Modulus * k
    BY <1>2
  <2>2. k \in Int
    BY <2>1
  <2>3. ToWord(w + Modulus * k) = w
    BY <2>2, ToWordIs
  <2> QED
    BY <2>1, <2>3, Zenon
<1>4. ASSUME NEW i \in -h..h - 1
      PROVE  ToWord(i) \in Words /\ Signed(ToWord(i)) = i
  <2>1. CASE i >= 0
    <3>1. i \in Words
      BY <1>1, <2>1
    <3> QED
      BY <2>1, <3>1, ToWordIs DEF Signed
  <2>2. CASE i < 0
    <3> DEFINE w == i + 2 * h
    <3>1. w \in Words /\ i = w + Modulus * (-1)
      BY <1>1, <2>2
    <3>2. ToWord(w + Modulus * (-1)) = w
      BY <3>1, ToWordIs
    <3> HIDE DEF w
    <3>3. ToWord(i) = w
      BY <3>1, <3>2
    <3> QED
      BY <1>1, <2>2, <3>1, <3>3 DEF Signed, w
  <2> QED
    BY <2>1, <2>2
<1>5. SignedWords = -h..h - 1
  BY <1>2, <1>4 DEF SignedWords
<1>6. \A w \in Words : \E k \in Int : Signed(w) = w + Modulus * k
  BY <1>2
<1> QED
  BY <1>2, <1>3, <1>4, <1>5, <1>6

(* C++ division: the remainder is smaller than the divisor and has the     *)
(* sign of the dividend.                                                   *)
LEMMA TruncDivIs ==
  ASSUME NEW a \in Int, NEW b \in Int \ {0}
  PROVE  /\ TruncDiv(a, b) \in Int /\ TruncMod(a, b) \in Int
         /\ a = TruncDiv(a, b) * b + TruncMod(a, b)
         /\ AbsInt(TruncMod(a, b)) < AbsInt(b)
         /\ TruncMod(a, b) = 0 \/ (TruncMod(a, b) < 0) = (a < 0)
         /\ AbsInt(TruncDiv(a, b)) <= AbsInt(a)
         /\ (b \notin {1, -1} /\ a # 0) => AbsInt(TruncDiv(a, b)) < AbsInt(a)
         /\ b = -1 => TruncDiv(a, b) = -a
<1> DEFINE m == AbsInt(a)
           n == AbsInt(b)
           q == m \div n
           r == m % n
           t == TruncDiv(a, b)
<1>1. m \in Nat /\ n \in Nat \ {0} /\ (a = m \/ a = -m) /\ (b = n \/ b = -n)
  BY DEF AbsInt
<1> HIDE DEF m, n
<1>2. q \in Int /\ r \in Nat /\ m = n * q + r /\ r < n
  BY <1>1, DivMod
<1>3. t = IF (a < 0) = (b < 0) THEN q ELSE -q
  BY DEF TruncDiv, m, n
<1> HIDE DEF q, r, t
<1>4. q >= 0
  <2>1. CASE q <= -1
    <3>1. n * q <= -n
      BY <1>1, <1>2, <2>1
    <3> QED
      BY <1>1, <1>2, <3>1
  <2> QED
    BY <1>2, <2>1
<1>5. q <= m
  <2>1. n * q >= q
    BY <1>1, <1>2, <1>4
  <2> QED
    BY <1>1, <1>2, <2>1
<1>6. n # 1 /\ m # 0 => q < m
  <2>1. CASE n >= 2 /\ q >= 1
    <3>1. n * q >= 2 * q
      BY <1>1, <1>2, <2>1
    <3> QED
      BY <1>1, <1>2, <2>1, <3>1
  <2> QED
    BY <1>1, <1>2, <1>4, <2>1
<1>7. n = 1 => q = m
  BY <1>1, <1>2
<1>8. (-q) * n = -(n * q) /\ q * n = n * q /\ q * (-n) = -(n * q) /\ (-q) * (-n) = n * q
  BY <1>1, <1>2
<1>9. TruncMod(a, b) = a - b * t
  BY DEF TruncMod, t
<1>10. a - b * t = IF a < 0 THEN -r ELSE r
  <2>1. CASE a < 0 /\ b < 0
    <3>1. t = q /\ b = -n /\ a = -m
      BY <1>1, <1>3, <2>1
    <3>2. (-n) * q = -(n * q)
      BY <1>1, <1>2
    <3> QED
      BY <1>1, <1>2, <2>1, <3>1, <3>2
  <2>2. CASE a < 0 /\ ~ (b < 0)
    <3>1. t = -q /\ b = n /\ a = -m
      BY <1>1, <1>3, <2>2 DEF AbsInt
    <3>2. n * (-q) = -(n * q)
      BY <1>1, <1>2
    <3> QED
      BY <1>1, <1>2, <2>2, <3>1, <3>2
  <2>3. CASE ~ (a < 0) /\ b < 0
    <3>1. t = -q /\ b = -n /\ a = m
      BY <1>1, <1>3, <2>3 DEF AbsInt
    <3>2. (-n) * (-q) = n * q
      BY <1>1, <1>2
    <3> QED
      BY <1>1, <1>2, <2>3, <3>1, <3>2
  <2>4. CASE ~ (a < 0) /\ ~ (b < 0)
    <3>1. t = q /\ b = n /\ a = m
      BY <1>1, <1>3, <2>4 DEF AbsInt
    <3> QED
      BY <1>1, <1>2, <2>4, <3>1
  <2> QED
    BY <2>1, <2>2, <2>3, <2>4
<1>11. t \in Int /\ AbsInt(t) = q
  BY <1>2, <1>3, <1>4 DEF AbsInt
<1>12. b * t \in Int /\ b * t = t * b
  BY <1>11
<1>13. a = t * b + TruncMod(a, b) /\ TruncMod(a, b) \in Int
  BY <1>9, <1>12
<1>14. /\ AbsInt(TruncMod(a, b)) < n
       /\ TruncMod(a, b) = 0 \/ (TruncMod(a, b) < 0) = (a < 0)
  BY <1>1, <1>2, <1>9, <1>10 DEF AbsInt
<1>15. b = -1 => t = -a
  BY <1>1, <1>3, <1>7 DEF AbsInt
<1>16. b \notin {1, -1} => n # 1
  BY <1>1
<1>17. a # 0 => m # 0
  BY <1>1
<1> QED
  BY <1>5, <1>6, <1>11, <1>13, <1>14, <1>15, <1>16, <1>17 DEF t, m, n

(* The unsigned quotient and remainder are words.                          *)
LEMMA DivUnsigned ==
  ASSUME NEW l \in Words, NEW r \in Words, r # 0
  PROVE  /\ div(l, r) = {l \div r} /\ mod(l, r) = {l % r}
         /\ l \div r \in Words /\ l % r \in Words
         /\ l = (l \div r) * r + (l % r) /\ l % r < r
<1> DEFINE M == Modulus
           q == l \div r
           s == l % r
<1>1. M \in Nat /\ l \in Nat /\ l < M /\ r \in Nat \ {0} /\ r < M
  BY ModulusEven DEF Words
<1>2. q \in Int /\ s \in Nat /\ l = r * q + s /\ s < r
  BY <1>1, DivMod
<1> HIDE DEF q, s, M
<1>3. q >= 0
  <2>1. CASE q <= -1
    <3>1. r * q <= -r
      BY <1>1, <1>2, <2>1
    <3> QED
      BY <1>1, <1>2, <3>1
  <2> QED
    BY <1>2, <2>1
<1>4. r * q >= q /\ r * q = q * r
  BY <1>1, <1>2, <1>3
<1>5. q \in 0..M - 1 /\ s \in 0..M - 1
  BY <1>1, <1>2, <1>3, <1>4
<1>6. q \in Words /\ s \in Words
  BY <1>5 DEF Words, M
<1>7. div(l, r) = {ToWord(q)} /\ mod(l, r) = {ToWord(s)}
  BY <1>1 DEF div, mod, q, s
<1> QED
  BY <1>2, <1>4, <1>6, <1>7, ToWordIs DEF q, s

(* idiv traps exactly for a zero divisor and MIN / -1; without a trap      *)
(* quotient and remainder fit.                                             *)
LEMMA DivSigned ==
  ASSUME NEW l \in Words, NEW r \in Words
  PROVE  /\ DivTraps(l, r) <=> (r = 0 \/ (2 * l = Modulus /\ r = Modulus - 1))
         /\ ~ DivTraps(l, r) =>
               /\ Signed(r) \in Int \ {0} /\ Signed(l) \in Int
               /\ TruncDiv(Signed(l), Signed(r)) \in SignedWords
               /\ TruncMod(Signed(l), Signed(r)) \in SignedWords
<1>1. PICK h \in Nat : h >= 1 /\ Modulus = 2 * h
  BY ModulusEven
<1> DEFINE a == Signed(l)
           b == Signed(r)
           q == TruncDiv(a, b)
           s == TruncMod(a, b)
<1>2. /\ a \in -h..h - 1 /\ b \in -h..h - 1
      /\ (a = -h) = (2 * l = Modulus) /\ (b = -1) = (r = Modulus - 1)
      /\ (b = 0) = (r = 0)
      /\ SignedWords = -h..h - 1
  BY <1>1, SignedIs
<1>3. DivTraps(l, r) <=> (r = 0 \/ q \notin SignedWords)
  BY DEF DivTraps
<1> HIDE DEF a, b
<1>4. CASE r = 0
  BY <1>3, <1>4
<1>5. CASE r # 0
  <2>1. a \in Int /\ b \in Int \ {0}
    BY <1>2, <1>5
  <2>2. /\ q \in Int /\ s \in Int
        /\ AbsInt(s) < AbsInt(b)
        /\ AbsInt(q) <= AbsInt(a)
        /\ (b \notin {1, -1} /\ a # 0) => AbsInt(q) < AbsInt(a)
        /\ b = -1 => q = -a
        /\ a = q * b + s
        /\ s = 0 \/ (s < 0) = (a < 0)
    BY <2>1, TruncDivIs
  <2> HIDE DEF q, s
  <2>3. s \in -h..h - 1
    BY <1>1, <1>2, <2>1, <2>2 DEF AbsInt
  <2>4. b = 1 => q = a
    BY <2>1, <2>2 DEF AbsInt
  <2>5. (q \notin -h..h - 1) = (a = -h /\ b = -1)
    BY <1>1, <1>2, <2>1, <2>2, <2>4 DEF AbsInt
  <2>6. DivTraps(l, r) <=> (r = 0 \/ (2 * l = Modulus /\ r = Modulus - 1))
    BY <1>2, <1>3, <1>5, <2>5
  <2> QED
    BY <1>2, <1>3, <2>1, <2>3, <2>6 DEF a, b, q, s
<1> QED
  BY <1>4, <1>5

(* All that the operands are known to be.                                  *)
Operands == L \in Words /\ R \in Words

(* Every step takes words for the operands.                                *)
LEMMA OperandsAreWords == Spec => []Operands
<1>1. Init => Operands
  BY ModulusEven DEF Init, Words, Operands
<1>2. Operands /\ [Next]_vars => Operands'
  BY DEF Next, vars, Operands
<1> QED
  BY <1>1, <1>2, PTL DEF Spec

(* DIV and MOD, DIVS and MODS give the dividend back, for every width of   *)
(* the word, and trap exactly where x86-64 does.                           *)
THEOREM DivisionLawsTheorem == Spec => []DivisionLaws
<1>1. Operands => DivisionLaws
  <2> SUFFICES ASSUME L \in Words, R \in Words
               PROVE  DivisionLaws
    BY DEF Operands
  <2>1. PICK h \in Nat : h >= 1 /\ Modulus = 2 * h
    BY ModulusEven
  <2>2. \A q \in div(L, R), r \in mod(L, R) : L = q * R + r /\ r < R
    BY DivUnsigned DEF div, mod
  <2>3. (div(L, R) = {}) = (R = 0) /\ (mod(L, R) = {}) = (R = 0)
    BY DivUnsigned DEF div, mod
  <2>4. /\ (divs(L, R) = {}) <=> DivTraps(L, R)
        /\ (mods(L, R) = {}) <=> DivTraps(L, R)
    BY DEF divs, mods
  <2>5. ASSUME NEW qw \in divs(L, R), NEW rw \in mods(L, R)
        PROVE  /\ Signed(L) = Signed(qw) * Signed(R) + Signed(rw)
               /\ AbsInt(Signed(rw)) < AbsInt(Signed(R))
               /\ Signed(rw) = 0 \/ (Signed(rw) < 0) = (Signed(L) < 0)
    <3>1. ~ DivTraps(L, R)
      BY <2>4, <2>5
    <3>2. /\ qw = ToWord(TruncDiv(Signed(L), Signed(R)))
          /\ rw = ToWord(TruncMod(Signed(L), Signed(R)))
      BY <2>5, <3>1 DEF divs, mods
    <3>3. /\ TruncDiv(Signed(L), Signed(R)) \in SignedWords
          /\ TruncMod(Signed(L), Signed(R)) \in SignedWords
          /\ Signed(R) \in Int \ {0} /\ Signed(L) \in Int
      BY <3>1, DivSigned
    <3>4. /\ Signed(qw) = TruncDiv(Signed(L), Signed(R))
          /\ Signed(rw) = TruncMod(Signed(L), Signed(R))
      BY <2>1, <3>2, <3>3, SignedIs
    <3>5. \A a \in Int, b \in Int \ {0} :
              /\ a = TruncDiv(a, b) * b + TruncMod(a, b)
              /\ AbsInt(TruncMod(a, b)) < AbsInt(b)
              /\ TruncMod(a, b) = 0 \/ (TruncMod(a, b) < 0) = (a < 0)
      BY TruncDivIs
    <3> QED
      BY <3>3, <3>4, <3>5, Zenon
  <2>6. DivTraps(L, R) <=> (R = 0 \/ (2 * L = Modulus /\ R = Modulus - 1))
    BY DivSigned
  <2>7. /\ (divs(L, R) = {}) = (mods(L, R) = {})
        /\ (divs(L, R) = {}) = (R = 0 \/ (2 * L = Modulus /\ R = Modulus - 1))
    BY <2>4, <2>6
  <2> QED
    BY <2>2, <2>3, <2>5, <2>7 DEF DivisionLaws
<1> QED
  BY <1>1, OperandsAreWords, PTL

(* Words are integers.                                                     *)
LEMMA WordsAreInt == Words \subseteq Int
  BY ModulusEven DEF Words

(* The relations of each order agree with each other, EQ with SUB, and the *)
(* signed order is the unsigned one with both sign bits flipped.           *)
THEOREM OrderLawsTheorem == Spec => []OrderLaws
<1>1. ASSUME L \in Words, R \in Words
      PROVE  OrderLaws
  <2> DEFINE FlipSign(w) == ToWord(w + Modulus \div 2)
             Consistent(less, greater, lessEq, greaterEq) ==
                /\ less + greater + (IF L = R THEN 1 ELSE 0) = 1
                /\ lessEq = 1 - greater /\ greaterEq = 1 - less
  <2>1. PICK h \in Nat : h >= 1 /\ Modulus = 2 * h /\ Modulus \div 2 = h
    BY ModulusEven
  <2>2. /\ L \in 0..2 * h - 1 /\ R \in 0..2 * h - 1
        /\ Signed(L) = IF L < h THEN L ELSE L - 2 * h
        /\ Signed(R) = IF R < h THEN R ELSE R - 2 * h
    <3>1. \A w \in Words : Signed(w) = IF w < h THEN w ELSE w - 2 * h
      BY <2>1, SignedIs
    <3>2. Words = 0..2 * h - 1
      BY <2>1 DEF Words
    <3> QED
      BY <1>1, <3>1, <3>2
  <2>3. ASSUME NEW i \in Int, NEW j \in Int, (i = j) <=> (L = R)
        PROVE  Consistent(Flag(i < j), Flag(i > j), Flag(i <= j), Flag(i >= j))
    BY <2>3 DEF Flag
  <2>4. \A a \in lt(L, R), b \in gt(L, R), c \in le(L, R), d \in ge(L, R) :
            Consistent(a, b, c, d)
    BY <2>2, <2>3 DEF lt, gt, le, ge
  <2>5. Signed(L) \in Int /\ Signed(R) \in Int /\ (Signed(L) = Signed(R) <=> L = R)
    BY <2>1, <2>2
  <2>6. \A a \in lts(L, R), b \in gts(L, R), c \in les(L, R), d \in ges(L, R) :
            Consistent(a, b, c, d)
    <3> HIDE DEF Consistent
    <3> QED
      BY <2>3, <2>5 DEF lts, gts, les, ges
  <2>7. ASSUME NEW w \in Words
        PROVE  FlipSign(w) = IF w < h THEN w + h ELSE w - h
    <3>1. Words = 0..2 * h - 1
      BY <2>1 DEF Words
    <3>2. CASE w < h
      <4>1. w + h \in Words
        BY <2>1, <3>1, <3>2
      <4> QED
        BY <2>1, <3>2, <4>1, ToWordIs
    <3>3. CASE ~ (w < h)
      <4>1. w - h \in Words /\ w + h = (w - h) + Modulus * 1
        BY <2>1, <3>1, <3>3
      <4>2. ToWord((w - h) + Modulus * 1) = w - h
        BY <4>1, ToWordIs
      <4>3. ToWord(w + h) = w - h
        BY <4>1, <4>2
      <4> QED
        BY <2>1, <3>3, <4>3
    <3> QED
      BY <3>2, <3>3
  <2>8. (FlipSign(L) < FlipSign(R)) <=> (Signed(L) < Signed(R))
    <3> DEFINE l == FlipSign(L)
               r == FlipSign(R)
    <3>1. /\ l = IF L < h THEN L + h ELSE L - h
          /\ r = IF R < h THEN R + h ELSE R - h
      BY <1>1, <2>7
    <3> HIDE DEF l, r
    <3>2. (l < r) <=> (Signed(L) < Signed(R))
      BY <2>1, <2>2, <3>1
    <3> QED
      BY <3>2 DEF l, r
  <2> HIDE DEF FlipSign
  <2>9. lts(L, R) = lt(FlipSign(L), FlipSign(R))
    BY <2>8 DEF lts, lt, Flag
  <2>10. ToWord(L - R) = 0 <=> L = R
    <3>1. CASE L >= R
      <4>1. L - R \in Words
        BY <2>1, <2>2, <3>1 DEF Words
      <4> QED
        BY <2>2, <4>1, ToWordIs
    <3>2. CASE L < R
      <4>1. L - R + 2 * h \in Words /\ L - R = (L - R + 2 * h) + Modulus * (-1)
        BY <2>1, <2>2, <3>2 DEF Words
      <4>2. ToWord((L - R + 2 * h) + Modulus * (-1)) = L - R + 2 * h
        BY <4>1, ToWordIs
      <4>3. ToWord(L - R) = L - R + 2 * h
        BY <4>1, <4>2, Zenon
      <4> QED
        BY <2>1, <2>2, <3>2, <4>3
    <3> QED
      BY <2>2, <3>1, <3>2
  <2>11. (sub(L, R) = {0}) <=> (L = R)
    BY <2>10 DEF sub
  <2>12. eq(L, R) = {Flag(sub(L, R) = {0})}
    BY <2>11 DEF eq, Flag
  <2>13. ne(L, R) = linv(CHOOSE e \in eq(L, R) : TRUE)
    <3>1. (CHOOSE e \in eq(L, R) : TRUE) = Flag(L = R)
      BY DEF eq
    <3>2. linv(Flag(L = R)) = {Flag(L # R)}
      BY DEF linv, Flag
    <3> QED
      BY <3>1, <3>2 DEF ne
  <2> QED
    BY <2>4, <2>6, <2>9, <2>12, <2>13, Zenon DEF OrderLaws, FlipSign
<1>2. Operands => OrderLaws
  BY <1>1 DEF Operands
<1> QED
  BY <1>2, OperandsAreWords, PTL

(* The recursion that FromBits folds with, as predicates: SumStep is its   *)
(* right-hand side, IsSum says that g satisfies it on D.                   *)
Pick(s) == CHOOSE x \in s : TRUE
SumStep(g, s) == IF s = {} THEN 0 ELSE 2^Pick(s) + g[s \ {Pick(s)}]
IsSum(g, D) == g = [s \in D |-> SumStep(g, s)]

(* FromBits picks a function that sums the powers of the bits of every     *)
(* subset; it exists (SumExists) and there is only one (SumUnique).        *)
LEMMA FromBitsIs ==
    \A S : FromBits(S) = (CHOOSE g : IsSum(g, SUBSET S))[S]
  BY Zenon DEF FromBits, MapThenSumSet, MapThenFoldSet, IsSum, SumStep, Pick

(* The element the sum takes next.                                         *)
LEMMA PickIs == \A s : s # {} => Pick(s) \in s
  BY DEF Pick

(* Without it, the set is smaller.                                         *)
LEMMA SmallerSet ==
    \A S : IsFiniteSet(S) /\ S # {} =>
        /\ IsFiniteSet(S \ {Pick(S)})
        /\ Cardinality(S) \in Nat
        /\ Cardinality(S) # 0
        /\ Cardinality(S \ {Pick(S)}) = Cardinality(S) - 1
  BY PickIs, FS_RemoveElement, FS_CardinalityType, FS_EmptySet

(* Induction on the size of the subsets.                                   *)
LEMMA SumExists ==
    \A S : IsFiniteSet(S) => \E g : IsSum(g, SUBSET S)
<1> SUFFICES ASSUME NEW S, IsFiniteSet(S)
             PROVE  \E g : IsSum(g, SUBSET S)
  OBVIOUS
<1> DEFINE Upto(n) == {s \in SUBSET S : Cardinality(s) <= n}
           N == {n \in Nat : \E g : IsSum(g, Upto(n))}
<1>1. \A s \in SUBSET S : IsFiniteSet(s) /\ Cardinality(s) \in Nat
  BY FS_Subset, FS_CardinalityType
<1>2. 0 \in N
  <2>1. \A s \in Upto(0) : s = {}
    BY <1>1, FS_EmptySet
  <2> DEFINE g == [s \in Upto(0) |-> 0]
  <2>2. IsSum(g, Upto(0))
    <3> HIDE DEF Upto
    <3> QED
      BY <2>1 DEF IsSum, SumStep
  <2> QED
    BY <2>2
<1>3. ASSUME NEW n \in Nat, n \in N
      PROVE  n + 1 \in N
  <2>1. PICK g : IsSum(g, Upto(n))
    BY <1>3
  <2> DEFINE f == [s \in Upto(n + 1) |-> SumStep(g, s)]
  <2>2. ASSUME NEW s \in Upto(n + 1), s # {}
        PROVE  s \ {Pick(s)} \in Upto(n) /\ s \ {Pick(s)} \in Upto(n + 1)
    <3>1. s \in SUBSET S /\ Cardinality(s) <= n + 1
      BY <2>2
    <3>2. /\ s \ {Pick(s)} \in SUBSET S
          /\ Cardinality(s \ {Pick(s)}) = Cardinality(s) - 1 /\ Cardinality(s) \in Nat
      BY <1>1, <2>2, <3>1, SmallerSet
    <3> QED
      BY <3>1, <3>2
  <2> HIDE DEF Upto
  <2>3. \A t \in Upto(n) : g[t] = SumStep(g, t)
    BY <2>1 DEF IsSum
  <2>4. ASSUME NEW s \in Upto(n + 1)
        PROVE  SumStep(f, s) = SumStep(g, s)
    <3>1. CASE s = {}
      BY <3>1 DEF SumStep
    <3>2. CASE s # {}
      <4>1. f[s \ {Pick(s)}] = g[s \ {Pick(s)}]
        BY <2>2, <2>3, <3>2
      <4> QED
        BY <3>2, <4>1 DEF SumStep
    <3> QED
      BY <3>1, <3>2
  <2>5. IsSum(f, Upto(n + 1))
    BY <2>4 DEF IsSum
  <2> QED
    BY <2>5
<1> HIDE DEF N
<1>4. Nat \subseteq N
  BY <1>2, <1>3, SetInduction
<1>5. Cardinality(S) \in N
  BY <1>4, FS_CardinalityType
<1>6. PICK g : IsSum(g, Upto(Cardinality(S)))
  BY <1>5 DEF N
<1>7. Upto(Cardinality(S)) = SUBSET S
  BY FS_Subset
<1> QED
  BY <1>6, <1>7

(* A sum over a smaller set is the same function.                          *)
LEMMA SumUnique ==
    \A S, T, f, g :
        IsFiniteSet(S) /\ T \subseteq S /\ IsSum(f, SUBSET S) /\ IsSum(g, SUBSET T)
          => f[T] = g[T]
<1> SUFFICES ASSUME NEW S, NEW T, NEW f, NEW g, IsFiniteSet(S), T \subseteq S,
                    IsSum(f, SUBSET S), IsSum(g, SUBSET T)
             PROVE  f[T] = g[T]
  OBVIOUS
<1> DEFINE N == {n \in Nat : \A s \in SUBSET T : Cardinality(s) <= n => f[s] = g[s]}
<1>1. \A s \in SUBSET T : IsFiniteSet(s) /\ Cardinality(s) \in Nat
  BY FS_Subset, FS_CardinalityType
<1>2. \A s \in SUBSET T : f[s] = SumStep(f, s) /\ g[s] = SumStep(g, s)
  BY DEF IsSum
<1>3. 0 \in N
  <2>1. \A s \in SUBSET T : Cardinality(s) <= 0 => s = {}
    BY <1>1, FS_EmptySet
  <2> QED
    BY <1>2, <2>1 DEF SumStep
<1>4. ASSUME NEW n \in Nat, n \in N
      PROVE  n + 1 \in N
  <2>1. ASSUME NEW s \in SUBSET T, Cardinality(s) <= n + 1
        PROVE  f[s] = g[s]
    <3>1. CASE s = {}
      BY <1>2, <3>1 DEF SumStep
    <3>2. CASE s # {}
      <4>1. /\ s \ {Pick(s)} \in SUBSET T /\ Cardinality(s) \in Nat
            /\ Cardinality(s \ {Pick(s)}) = Cardinality(s) - 1
        BY <1>1, <3>2, SmallerSet
      <4>2. Cardinality(s \ {Pick(s)}) <= n
        BY <2>1, <4>1
      <4>3. f[s \ {Pick(s)}] = g[s \ {Pick(s)}]
        BY <1>4, <4>1, <4>2
      <4> QED
        BY <1>2, <3>2, <4>3 DEF SumStep
    <3> QED
      BY <3>1, <3>2
  <2> QED
    BY <2>1
<1>5. Nat \subseteq N
  <2> HIDE DEF N
  <2> QED
    BY <1>3, <1>4, SetInduction
<1>6. Cardinality(T) \in N /\ Cardinality(T) <= Cardinality(T)
  BY <1>1, <1>5
<1> QED
  BY <1>6

(* The recursion of FromBits.                                              *)
LEMMA FromBitsStep ==
    /\ FromBits({}) = 0
    /\ \A S : IsFiniteSet(S) /\ S # {}
                => FromBits(S) = 2^Pick(S) + FromBits(S \ {Pick(S)})
<1>1. ASSUME NEW S, IsFiniteSet(S)
      PROVE  \E g : IsSum(g, SUBSET S) /\ FromBits(S) = g[S]
  <2> DEFINE g == CHOOSE g : IsSum(g, SUBSET S)
  <2>1. IsSum(g, SUBSET S)
    BY <1>1, SumExists
  <2>2. FromBits(S) = g[S]
    BY FromBitsIs
  <2> QED
    BY <2>1, <2>2
<1>2. FromBits({}) = 0
  BY <1>1, FS_EmptySet DEF IsSum, SumStep
<1>3. ASSUME NEW S, IsFiniteSet(S), S # {}
      PROVE  FromBits(S) = 2^Pick(S) + FromBits(S \ {Pick(S)})
  <2> DEFINE T == S \ {Pick(S)}
  <2>1. IsFiniteSet(T) /\ T \subseteq S
    BY <1>3, SmallerSet
  <2>2. PICK f : IsSum(f, SUBSET S) /\ FromBits(S) = f[S]
    BY <1>1, <1>3
  <2> HIDE DEF T
  <2>3. PICK g : IsSum(g, SUBSET T) /\ FromBits(T) = g[T]
    BY <1>1, <2>1
  <2>4. f[T] = g[T]
    BY <1>3, <2>1, <2>2, <2>3, SumUnique
  <2>5. f[S] = 2^Pick(S) + f[T]
    BY <1>3, <2>2 DEF IsSum, SumStep, T
  <2> QED
    BY <2>2, <2>3, <2>4, <2>5 DEF T
<1> QED
  BY <1>2, <1>3

(* The order in which bits are added does not matter.                      *)
LEMMA FromBitsAny ==
    \A S : IsFiniteSet(S) /\ S \subseteq Nat =>
        /\ FromBits(S) \in Nat
        /\ \A x \in S : FromBits(S) = 2^x + FromBits(S \ {x})
<1> DEFINE Good(S) == /\ FromBits(S) \in Nat
                      /\ \A x \in S : FromBits(S) = 2^x + FromBits(S \ {x})
           Sets(n) == {S \in SUBSET Nat : IsFiniteSet(S) /\ Cardinality(S) <= n}
           N == {n \in Nat : \A S \in Sets(n) : Good(S)}
<1>1. 0 \in N
  <2>1. \A S \in Sets(0) : S = {}
    BY FS_EmptySet, FS_CardinalityType
  <2>2. Good({})
    BY FromBitsStep
  <2> HIDE DEF Sets, Good
  <2> QED
    BY <2>1, <2>2
<1>2. ASSUME NEW n \in Nat, n \in N
      PROVE  n + 1 \in N
  <2>1. ASSUME NEW S \in Sets(n + 1), NEW x \in S
        PROVE  /\ S \ {x} \in Sets(n)
               /\ Good(S \ {x})
               /\ x \in Nat /\ 2^x \in Nat
    <3>1. S \ {x} \in Sets(n)
      <4>1. IsFiniteSet(S) /\ Cardinality(S) <= n + 1
        BY <2>1
      <4>2. /\ IsFiniteSet(S \ {x}) /\ Cardinality(S \ {x}) = Cardinality(S) - 1
            /\ Cardinality(S) \in Nat
        BY <2>1, <4>1, FS_RemoveElement, FS_CardinalityType
      <4>3. Cardinality(S \ {x}) <= n
        BY <4>1, <4>2
      <4> QED
        BY <4>2, <4>3
    <3>2. x \in Nat /\ 2^x \in Nat
      BY PowersOfTwo
    <3> QED
      BY <1>2, <3>1, <3>2
  <2>10. \A T \in Sets(n) : T \in Sets(n + 1)
    BY FS_CardinalityType
  <2> HIDE DEF Sets
  <2>2. ASSUME NEW S \in Sets(n + 1)
        PROVE  Good(S)
    <3> DEFINE y == Pick(S)
    <3>0. CASE S = {}
      BY <3>0, FromBitsStep
    <3> SUFFICES ASSUME S # {}
                 PROVE  Good(S)
      BY <3>0
    <3>1. IsFiniteSet(S) /\ S # {}
      BY DEF Sets
    <3>2. y \in S /\ FromBits(S) = 2^y + FromBits(S \ {y})
      BY <3>1, FromBitsStep, PickIs
    <3> HIDE DEF y
    <3>3. FromBits(S) \in Nat
      BY <2>1, <3>2
    <3>4. ASSUME NEW x \in S, x # y
          PROVE  FromBits(S) = 2^x + FromBits(S \ {x})
      <4>1. /\ FromBits(S \ {y}) = 2^x + FromBits((S \ {y}) \ {x})
            /\ FromBits(S \ {x}) = 2^y + FromBits((S \ {x}) \ {y})
            /\ (S \ {y}) \ {x} = (S \ {x}) \ {y}
        BY <2>1, <3>2, <3>4
      <4> DEFINE F == FromBits((S \ {x}) \ {y})
      <4>2. /\ 2^x \in Nat /\ 2^y \in Nat /\ FromBits(S \ {x}) \in Nat
            /\ FromBits(S \ {y}) \in Nat
        BY <2>1, <3>2
      <4>3. F \in Int
        <5>1. S \ {x} \in Sets(n + 1) /\ y \in S \ {x}
          BY <2>1, <2>10, <3>2, <3>4
        <5>2. Good((S \ {x}) \ {y})
          BY <2>1, <5>1
        <5> QED
          BY <5>2
      <4> HIDE DEF F
      <4>4. FromBits(S \ {y}) = 2^x + F /\ FromBits(S \ {x}) = 2^y + F
        BY <4>1 DEF F
      <4> QED
        BY <3>2, <4>2, <4>3, <4>4
    <3> QED
      BY <3>2, <3>3, <3>4
  <2> QED
    BY <2>2
<1> HIDE DEF N
<1>3. Nat \subseteq N
  BY <1>1, <1>2, SetInduction
<1>4. ASSUME NEW S, IsFiniteSet(S), S \subseteq Nat
      PROVE  Good(S)
  <2>1. Cardinality(S) \in N /\ S \in Sets(Cardinality(S))
    BY <1>3, <1>4, FS_CardinalityType
  <2> QED
    BY <2>1 DEF N
<1> QED
  BY <1>4

(* The bit positions of a word.                                            *)
BitSet == 0..WordBits - 1

(* Sets of bit positions.                                                  *)
LEMMA Positions ==
    \A n \in Int : \A S : S \subseteq 0..n =>
        IsFiniteSet(S) /\ S \subseteq Nat /\ FromBits(S) \in Nat
<1> SUFFICES ASSUME NEW n \in Int, NEW S, S \subseteq 0..n
             PROVE  IsFiniteSet(S) /\ S \subseteq Nat /\ FromBits(S) \in Nat
  OBVIOUS
<1>1. IsFiniteSet(0..n)
  BY FS_Interval
<1>2. IsFiniteSet(S)
  BY <1>1, FS_Subset
<1>3. S \subseteq Nat
  OBVIOUS
<1> QED
  BY <1>2, <1>3, FromBitsAny

(* The same for the positions of a word.                                   *)
LEMMA BitSets ==
    \A S : S \subseteq BitSet => IsFiniteSet(S) /\ S \subseteq Nat /\ FromBits(S) \in Nat
<1>1. WordBits - 1 \in Int
  BY ModulusEven
<1> QED
  BY <1>1, Positions DEF BitSet

(* Bits that are disjoint add up.                                          *)
LEMMA FromBitsUnion ==
    \A S, T : S \subseteq BitSet /\ T \subseteq BitSet /\ S \cap T = {}
        => FromBits(S \cup T) = FromBits(S) + FromBits(T)
<1> SUFFICES ASSUME NEW S, S \subseteq BitSet
             PROVE  \A T : T \subseteq BitSet /\ S \cap T = {}
                        => FromBits(S \cup T) = FromBits(S) + FromBits(T)
  OBVIOUS
<1> DEFINE Adds(T) == FromBits(S \cup T) = FromBits(S) + FromBits(T)
           Sets(n) == {T \in SUBSET (BitSet \ S) : Cardinality(T) <= n}
           N == {n \in Nat : \A T \in Sets(n) : Adds(T)}
<1>1. \A T : T \subseteq BitSet =>
          IsFiniteSet(T) /\ T \subseteq Nat /\ FromBits(T) \in Nat
  BY BitSets, FromBitsAny
<1>2. 0 \in N
  <2>1. \A T \in Sets(0) : T = {}
    BY <1>1, FS_EmptySet, FS_CardinalityType
  <2>2. Adds({})
    BY <1>1, FromBitsStep
  <2> HIDE DEF Sets, Adds
  <2> QED
    BY <2>1, <2>2
<1>3. ASSUME NEW n \in Nat, n \in N
      PROVE  n + 1 \in N
  <2>1. ASSUME NEW T \in Sets(n + 1)
        PROVE  Adds(T)
    <3>1. CASE T = {}
      BY <1>1, <3>1, FromBitsStep
    <3>2. CASE T # {}
      <4>1. T \subseteq BitSet /\ T \cap S = {} /\ IsFiniteSet(T)
        BY <1>1
      <4> DEFINE x == Pick(T)
      <4>2. x \in T
        BY <3>2, PickIs
      <4>3. T \ {x} \in Sets(n)
        <5>1. Cardinality(T \ {x}) = Cardinality(T) - 1 /\ Cardinality(T) \in Nat
          BY <3>2, <4>1, SmallerSet
        <5>2. Cardinality(T) <= n + 1
          OBVIOUS
        <5>3. Cardinality(T \ {x}) <= n
          BY <5>1, <5>2
        <5> QED
          BY <5>3
      <4>4. FromBits(S \cup (T \ {x})) = FromBits(S) + FromBits(T \ {x})
        BY <1>3, <4>3
      <4> HIDE DEF x, Sets
      <4>5. (S \cup T) \ {x} = S \cup (T \ {x}) /\ S \cup T \subseteq BitSet /\ x \in Nat
        BY <4>1, <4>2, <1>1
      <4>6. FromBits(S \cup T) = 2^x + FromBits(S \cup (T \ {x}))
        BY <1>1, <4>2, <4>5, FromBitsAny
      <4>7. FromBits(T) = 2^x + FromBits(T \ {x})
        BY <1>1, <4>1, <4>2, FromBitsAny
      <4>8. FromBits(S) \in Nat /\ FromBits(T \ {x}) \in Nat /\ 2^x \in Nat
        BY <1>1, <4>1, <4>5, PowersOfTwo
      <4> QED
        BY <4>4, <4>6, <4>7, <4>8
    <3> QED
      BY <3>1, <3>2
  <2> HIDE DEF Adds, Sets
  <2> QED
    BY <2>1
<1> HIDE DEF N
<1>4. Nat \subseteq N
  BY <1>2, <1>3, SetInduction
<1> QED
  <2> SUFFICES ASSUME NEW T, T \subseteq BitSet, S \cap T = {}
               PROVE  Adds(T)
    OBVIOUS
  <2>1. Cardinality(T) \in N /\ T \in Sets(Cardinality(T))
    BY <1>1, <1>4, FS_CardinalityType
  <2> HIDE DEF Adds, Sets
  <2> QED
    BY <2>1 DEF N

(* Bits below position n make a number below 2^n, all of them 2^n - 1.     *)
LEMMA FromBitsBound ==
    \A n \in 0..WordBits :
        /\ \A S : S \subseteq 0..n - 1 => FromBits(S) < 2^n
        /\ FromBits(0..n - 1) = 2^n - 1
<1> DEFINE Bound(n) == /\ \A S : S \subseteq 0..n - 1 => FromBits(S) < 2^n
                       /\ FromBits(0..n - 1) = 2^n - 1
           N == {n \in Nat : n <= WordBits => Bound(n)}
<1>1. WordBits \in Nat
  BY ModulusEven
<1>2. 0 \in N
  <2>1. 0..0 - 1 = {} /\ 2^0 = 1
    BY PowersOfTwo
  <2> QED
    BY <2>1, FromBitsStep
<1>3. ASSUME NEW n \in Nat, n \in N, n + 1 <= WordBits
      PROVE  Bound(n + 1)
  <2>1. Bound(n)
    BY <1>1, <1>3
  <2>2. 0..(n + 1) - 1 = (0..n - 1) \cup {n} /\ n \notin 0..n - 1
    OBVIOUS
  <2>3. 2^n \in Nat /\ 2^(n + 1) = 2^n + 2^n
    BY PowersOfTwo
  <2>4. \A S : S \subseteq 0..n => IsFiniteSet(S) /\ S \subseteq Nat /\ FromBits(S) \in Nat
    <3>1. n \in Int
      OBVIOUS
    <3> QED
      BY <3>1, Positions, Zenon
  <2>5. ASSUME NEW S, S \subseteq (0..n - 1) \cup {n}
        PROVE  FromBits(S) < 2^(n + 1)
    <3>0. S \subseteq 0..n
      BY <2>5
    <3>1. CASE n \in S
      <4>1. FromBits(S) = 2^n + FromBits(S \ {n})
        BY <2>4, <3>0, <3>1, FromBitsAny
      <4>2. FromBits(S \ {n}) < 2^n /\ FromBits(S \ {n}) \in Nat
        BY <2>1, <2>4, <2>5, <3>0
      <4> QED
        BY <2>3, <4>1, <4>2
    <3>2. CASE n \notin S
      <4>1. FromBits(S) < 2^n /\ FromBits(S) \in Nat
        BY <2>1, <2>4, <2>5, <3>0, <3>2
      <4> QED
        BY <2>3, <4>1
    <3> QED
      BY <3>1, <3>2
  <2>6. FromBits((0..n - 1) \cup {n}) = 2^(n + 1) - 1
    <3> DEFINE S == (0..n - 1) \cup {n}
    <3>1. S \ {n} = 0..n - 1 /\ S \subseteq 0..n /\ n \in S
      BY <2>2
    <3> HIDE DEF S
    <3>2. FromBits(S) = 2^n + FromBits(0..n - 1)
      BY <2>4, <3>1, FromBitsAny
    <3> QED
      BY <2>1, <2>3, <3>2 DEF S
  <2> QED
    BY <2>2, <2>5, <2>6
<1> HIDE DEF Bound
<1>4. Nat \subseteq N
  <2>1. \A n \in Nat : n \in N => n + 1 \in N
    BY <1>1, <1>3
  <2> HIDE DEF N
  <2> QED
    BY <1>2, <2>1, SetInduction
<1>5. \A n \in 0..WordBits : n \in Nat /\ n <= WordBits
  BY <1>1
<1> QED
  BY <1>4, <1>5 DEF Bound

(* Every set of positions makes a word.                                    *)
LEMMA FromBitsWords ==
    /\ \A S : S \subseteq BitSet => FromBits(S) \in Words
    /\ FromBits(BitSet) = Modulus - 1
<1>1. WordBits \in 0..WordBits
  BY ModulusEven
<1>2. /\ \A S : S \subseteq BitSet => FromBits(S) < Modulus
      /\ FromBits(BitSet) = Modulus - 1
  BY <1>1, FromBitsBound DEF BitSet, Modulus
<1> QED
  BY <1>2, BitSets, FromBitsAny, ModulusEven DEF Words

(* One more bit of a remainder.                                            *)
LEMMA NextBit ==
  ASSUME NEW w \in Nat, NEW m \in Nat \ {0}
  PROVE  /\ w % (2 * m) = (w % m) + m * ((w \div m) % 2)
         /\ (w \div m) % 2 \in {0, 1}
<1> DEFINE q == w \div m
           r == w % m
           b == q % 2
           h == q \div 2
<1>1. q \in Int /\ r \in Nat /\ r < m /\ w = m * q + r
  BY DivMod
<1> HIDE DEF q, r
<1>2. b \in {0, 1} /\ h \in Int /\ q = 2 * h + b
  BY <1>1
<1> HIDE DEF b, h
<1>3. m * q = (2 * m) * h + m * b
  BY <1>1, <1>2
<1>4. m * b = IF b = 0 THEN 0 ELSE m
  BY <1>2
<1> DEFINE c == 2 * m
           s == r + m * b
<1>5. c \in Nat \ {0} /\ s \in Nat /\ s < c
  BY <1>1, <1>2, <1>4
<1>6. w = c * h + s
  <2>1. (2 * m) * h \in Int /\ m * b \in Int
    BY <1>2
  <2> QED
    BY <1>1, <1>3, <2>1
<1> HIDE DEF c, s
<1>7. w % c = s
  BY <1>2, <1>5, <1>6, DivModUnique
<1> QED
  BY <1>2, <1>7 DEF q, r, b, c, s

(* The bits of a word are positions of it.                                 *)
LEMMA BitsAreBits ==
    \A w : Bits(w) \subseteq BitSet
  BY DEF Bits, BitSet

(* A word is the sum of its bits: its n lowest ones are its remainder by   *)
(* 2^n.                                                                    *)
LEMMA FromBitsOfBits ==
    \A w \in Words : FromBits(Bits(w)) = w
<1> SUFFICES ASSUME NEW w \in Words
             PROVE  FromBits(Bits(w)) = w
  OBVIOUS
<1> DEFINE Low(n) == {i \in Bits(w) : i < n}
           Right(n) == FromBits(Low(n)) = w % 2^n
           N == {n \in Nat : n <= WordBits => Right(n)}
<1>1. w \in Nat /\ w < Modulus /\ WordBits \in Nat
  BY ModulusEven DEF Words
<1>2. 0 \in N
  <2>1. Low(0) = {} /\ 2^0 = 1
    BY PowersOfTwo, BitsAreBits DEF BitSet
  <2>2. w % 1 = 0
    BY <1>1
  <2> QED
    BY <2>1, <2>2, FromBitsStep
<1>3. ASSUME NEW n \in Nat, n \in N, n + 1 <= WordBits
      PROVE  Right(n + 1)
  <2>1. Right(n)
    BY <1>1, <1>3
  <2> DEFINE m == 2^n
             b == (w \div m) % 2
  <2>2. m \in Nat \ {0} /\ 2^(n + 1) = 2 * m
    BY PowersOfTwo
  <2>3. n \in Bits(w) <=> b = 1
    BY <1>1, <1>3 DEF Bits
  <2>4. b \in {0, 1} /\ w % 2^(n + 1) = (w % 2^n) + m * b
    <3> HIDE DEF m
    <3>1. b \in {0, 1} /\ w % (2 * m) = (w % m) + m * b
      BY <1>1, <2>2, NextBit
    <3> QED
      BY <2>2, <3>1 DEF m
  <2>5. Low(n) \subseteq BitSet /\ Low(n + 1) \subseteq BitSet
    BY BitsAreBits
  <2>6. \A i \in Bits(w) : i \in Int
    BY BitsAreBits DEF BitSet
  <2> HIDE DEF b, m
  <2>7. CASE b = 1
    <3>1. n \in Low(n + 1) /\ Low(n + 1) \ {n} = Low(n)
      BY <2>3, <2>6, <2>7
    <3> HIDE DEF Low
    <3>2. FromBits(Low(n + 1)) = 2^n + FromBits(Low(n))
      BY <2>5, <3>1, BitSets, FromBitsAny
    <3>3. m * b = m /\ w % 2^n = FromBits(Low(n)) /\ FromBits(Low(n)) \in Nat
      BY <2>1, <2>2, <2>5, <2>7, BitSets
    <3> QED
      BY <2>2, <2>4, <3>2, <3>3 DEF m
  <2>8. CASE b = 0
    <3>1. Low(n + 1) = Low(n)
      BY <2>3, <2>6, <2>8
    <3> HIDE DEF Low
    <3>2. m * b = 0 /\ w % 2^n = FromBits(Low(n)) /\ FromBits(Low(n)) \in Nat
      BY <2>1, <2>2, <2>5, <2>8, BitSets
    <3> QED
      BY <2>4, <3>1, <3>2
  <2> QED
    BY <2>4, <2>7, <2>8
<1> HIDE DEF Right
<1>4. Nat \subseteq N
  <2>1. \A n \in Nat : n \in N => n + 1 \in N
    BY <1>1, <1>3
  <2> HIDE DEF N
  <2> QED
    BY <1>2, <2>1, SetInduction
<1>5. Right(WordBits)
  BY <1>1, <1>4
<1>6. Low(WordBits) = Bits(w)
  BY <1>1, BitsAreBits DEF BitSet
<1> QED
  BY <1>5, <1>6, ToWordIs DEF Right, ToWord, Modulus

(* Different bits make different words,                                    *)
LEMMA FromBitsInjective ==
    \A S, T : S \subseteq BitSet /\ T \subseteq BitSet /\ FromBits(S) = FromBits(T) => S = T
<1> DEFINE Same(n) ==
             \A S, T : S \subseteq 0..n - 1 /\ T \subseteq 0..n - 1 /\ FromBits(S) = FromBits(T)
                         => S = T
           N == {n \in Nat : n <= WordBits => Same(n)}
<1>1. WordBits \in Nat
  BY ModulusEven
<1>2. 0 \in N
  OBVIOUS
<1>3. ASSUME NEW n \in Nat, n \in N, n + 1 <= WordBits
      PROVE  Same(n + 1)
  <2>1. Same(n) /\ n \in 0..WordBits
    BY <1>1, <1>3
  <2>2. SUFFICES ASSUME NEW S, NEW T, S \subseteq 0..(n + 1) - 1, T \subseteq 0..(n + 1) - 1,
                        FromBits(S) = FromBits(T)
                 PROVE  S = T
    OBVIOUS
  <2> DEFINE Rest(U) == FromBits(U \ {n})
  <2>3. ASSUME NEW U, U \subseteq 0..(n + 1) - 1
        PROVE  /\ U \ {n} \subseteq 0..n - 1
               /\ Rest(U) \in Nat /\ Rest(U) < 2^n
               /\ n \in U => FromBits(U) = 2^n + Rest(U)
               /\ n \notin U => FromBits(U) = Rest(U)
    <3>1. U \ {n} \subseteq 0..n - 1 /\ U \subseteq 0..n /\ n \in Int /\ n - 1 \in Int
      BY <2>3
    <3>2. Rest(U) \in Nat /\ Rest(U) < 2^n
      BY <2>1, <3>1, Positions, FromBitsBound
    <3>3. n \in U => FromBits(U) = 2^n + Rest(U)
      BY <3>1, Positions, FromBitsAny
    <3>4. n \notin U => U \ {n} = U
      OBVIOUS
    <3> QED
      BY <3>1, <3>2, <3>3, <3>4
  <2>4. 2^n \in Nat
    BY PowersOfTwo
  <2> HIDE DEF Rest
  <2>5. (n \in S <=> n \in T) /\ Rest(S) = Rest(T)
    <3>1. /\ Rest(S) \in Nat /\ Rest(S) < 2^n
          /\ n \in S => FromBits(S) = 2^n + Rest(S)
          /\ n \notin S => FromBits(S) = Rest(S)
      BY <2>2, <2>3, Zenon
    <3>2. /\ Rest(T) \in Nat /\ Rest(T) < 2^n
          /\ n \in T => FromBits(S) = 2^n + Rest(T)
          /\ n \notin T => FromBits(S) = Rest(T)
      BY <2>2, <2>3, Zenon
    <3> QED
      BY <2>4, <3>1, <3>2
  <2>6. S \ {n} = T \ {n}
    BY <2>1, <2>2, <2>3, <2>5 DEF Rest
  <2> QED
    BY <2>5, <2>6
<1> HIDE DEF Same
<1>4. Nat \subseteq N
  <2>1. \A n \in Nat : n \in N => n + 1 \in N
    BY <1>1, <1>3
  <2> HIDE DEF N
  <2> QED
    BY <1>2, <2>1, SetInduction
<1>5. Same(WordBits)
  BY <1>1, <1>4
<1> QED
  BY <1>5 DEF Same, BitSet

(* so that FromBits and Bits are inverse.                                  *)
LEMMA BitsOfFromBits ==
    \A S : S \subseteq BitSet => FromBits(S) \in Words /\ Bits(FromBits(S)) = S
  BY FromBitsWords, FromBitsOfBits, FromBitsInjective, BitsAreBits

(* The bitwise instructions agree with ADD, SUB and the two's complement.  *)
THEOREM BitwiseLawsTheorem == Spec => []BitwiseLaws
<1>1. ASSUME Operands
      PROVE  BitwiseLaws
  <2> DEFINE A == Bits(L)
             B == Bits(R)
             a == FromBits(A \cap B)
             x == FromBits((A \cup B) \ (A \cap B))
             o == FromBits(A \cup B)
             Not(S) == FromBits(BitSet \ S)
  <2>1. L \in Words /\ R \in Words /\ A \subseteq BitSet /\ B \subseteq BitSet
    BY <1>1, BitsAreBits DEF Operands
  <2>2. FromBits(A) = L /\ FromBits(B) = R
    BY <2>1, FromBitsOfBits
  <2>3. /\ band(L, R) = {a} /\ bor(L, R) = {o} /\ bxor(L, R) = {x}
        /\ \A w : binv(w) = {Not(Bits(w))}
    BY DEF band, bor, bxor, binv, BitSet
  <2> HIDE DEF A, B
  <2>4. /\ A = (A \cap B) \cup (A \ B) /\ (A \cap B) \cap (A \ B) = {}
        /\ B = (A \cap B) \cup (B \ A) /\ (A \cap B) \cap (B \ A) = {}
        /\ (A \cup B) \ (A \cap B) = (A \ B) \cup (B \ A) /\ (A \ B) \cap (B \ A) = {}
        /\ A \cup B = ((A \cup B) \ (A \cap B)) \cup (A \cap B)
        /\ ((A \cup B) \ (A \cap B)) \cap (A \cap B) = {}
    OBVIOUS
  <2>5. /\ A \cap B \subseteq BitSet /\ A \cup B \subseteq BitSet
        /\ A \ B \subseteq BitSet /\ B \ A \subseteq BitSet
        /\ (A \cup B) \ (A \cap B) \subseteq BitSet
    BY <2>1
  <2>6. /\ a \in Nat /\ x \in Nat /\ o \in Nat
        /\ FromBits(A \ B) \in Nat /\ FromBits(B \ A) \in Nat
    BY <2>5, BitSets
  <2>7. L = a + FromBits(A \ B) /\ R = a + FromBits(B \ A)
    BY <2>2, <2>4, <2>5, FromBitsUnion
  <2>8. x = FromBits(A \ B) + FromBits(B \ A)
    BY <2>4, <2>5, FromBitsUnion
  <2>9. o = x + a
    BY <2>4, <2>5, FromBitsUnion
  <2> HIDE DEF a, x, o
  <2>10. L + R = x + 2 * a
    BY <2>6, <2>7, <2>8
  <2>11. \A i \in band(L, R), s \in bxor(L, R), u \in bor(L, R) :
            add(L, R) = {ToWord(s + 2 * i)} /\ u = s + i
    BY <2>3, <2>9, <2>10 DEF add
  <2>12. ASSUME NEW w \in Words
         PROVE  /\ Not(Bits(w)) \in Words
                /\ Not(Bits(w)) = Modulus - 1 - w
                /\ Not(Bits(w)) = ToWord(-w - 1)
                /\ Bits(Not(Bits(w))) = BitSet \ Bits(w)
    <3> DEFINE S == Bits(w)
    <3>1. S \subseteq BitSet /\ FromBits(S) = w
      BY <2>12, BitsAreBits, FromBitsOfBits
    <3> HIDE DEF S
    <3>2. BitSet = S \cup (BitSet \ S) /\ S \cap (BitSet \ S) = {} /\ BitSet \ S \subseteq BitSet
      BY <3>1
    <3>3. FromBits(BitSet) = w + Not(S)
      BY <3>1, <3>2, FromBitsUnion
    <3>4. Not(S) \in Words /\ Bits(Not(S)) = BitSet \ S
      BY <3>2, BitsOfFromBits
    <3> HIDE DEF Not
    <3>5. Not(S) = Modulus - 1 - w
      <4>1. Modulus - 1 = w + Not(S)
        BY <3>3, FromBitsWords, Zenon
      <4>2. Not(S) \in Int /\ w \in Int
        BY <2>12, <3>4, WordsAreInt, Zenon
      <4>3. Modulus \in Int
        BY ModulusEven
      <4> QED
        BY <4>1, <4>2, <4>3
    <3>6. -w - 1 = Not(S) + Modulus * (-1)
      BY <3>5, ModulusEven, WordsAreInt
    <3>7. ToWord(Not(S) + Modulus * (-1)) = Not(S)
      BY <3>4, ToWordIs
    <3>8. Not(S) = ToWord(-w - 1)
      BY <3>6, <3>7
    <3> QED
      BY <3>4, <3>5, <3>8 DEF S
  <2>13. binv(L) = {ToWord(-L - 1)}
    BY <2>1, <2>3, <2>12
  <2>14. \A i \in binv(L), j \in binv(R) :
            band(i, j) = UNION {binv(u) : u \in bor(L, R)}
    <3>1. ASSUME NEW i \in binv(L), NEW j \in binv(R)
          PROVE  band(i, j) = UNION {binv(u) : u \in bor(L, R)}
      <4>1. Bits(i) = BitSet \ A /\ Bits(j) = BitSet \ B
        BY <2>1, <2>3, <2>12 DEF A, B
      <4>2. Bits(o) = A \cup B
        BY <2>5, BitsOfFromBits DEF o
      <4>3. (BitSet \ A) \cap (BitSet \ B) = BitSet \ (A \cup B)
        OBVIOUS
      <4>4. band(i, j) = {FromBits(BitSet \ (A \cup B))}
        BY <4>1, <4>3 DEF band
      <4>5. UNION {binv(u) : u \in bor(L, R)} = binv(o)
        BY <2>3
      <4> QED
        BY <2>3, <4>2, <4>4, <4>5
    <3> QED
      BY <3>1
  <2>15. \A i \in binv(L), j \in binv(R) :
            sub(L, R) = UNION {add(s, 1) : s \in add(L, j)}
    <3>1. ASSUME NEW j \in binv(R)
          PROVE  sub(L, R) = UNION {add(s, 1) : s \in add(L, j)}
      <4>1. j = Modulus - 1 - R
        BY <2>1, <2>3, <2>12 DEF B
      <4> DEFINE M == Modulus
      <4>2. M \in Nat /\ L \in Int /\ R \in Int /\ j \in Int /\ j = M - 1 - R
        BY <2>1, <4>1, ModulusEven, WordsAreInt
      <4>3. PICK k \in Int : L + j = ToWord(L + j) + Modulus * k
        <5>1. L + j \in Int
          BY <4>2
        <5> QED
          BY <5>1, ToWordIs
      <4> DEFINE s == ToWord(L + j)
                 mk == M * k
      <4>4. s \in Int
        <5>1. L + j \in Int
          BY <4>2
        <5> QED
          BY <5>1, ToWordIs, WordsAreInt
      <4>5. mk \in Int /\ M * (-k + 1) = M - mk /\ 1 - k \in Int
        BY <4>2
      <4>6. s + 1 = (L - R) + M - mk
        BY <4>2, <4>3, <4>4, <4>5
      <4> HIDE DEF s, mk, M
      <4>7. s + 1 = (L - R) + M * (-k + 1)
        BY <4>2, <4>4, <4>5, <4>6
      <4>8. L - R \in Int /\ -k + 1 \in Int
        BY <4>2
      <4>9. ToWord((L - R) + M * (-k + 1)) = ToWord(L - R)
        BY <4>8, Congruent DEF M
      <4>10. ToWord(s + 1) = ToWord(L - R)
        BY <4>7, <4>9
      <4>11. add(L, j) = {s}
        BY DEF add, s
      <4> QED
        BY <4>10, <4>11 DEF add, sub
    <3> QED
      BY <3>1
  <2> HIDE DEF Not
  <2> QED
    BY <2>11, <2>13, <2>14, <2>15 DEF BitwiseLaws
<1>2. Operands => BitwiseLaws
  BY <1>1
<1> QED
  BY <1>2, OperandsAreWords, PTL

(* The recursion of RepeatedProduct.                                       *)
ProductStep(x, g, k) == IF k = 0 THEN 1 ELSE ToWord(x * g[k - 1])
IsProduct(x, g, D) == g = [k \in D |-> ProductStep(x, g, k)]

(* RepeatedProduct picks a function that multiplies by x again and again;  *)
LEMMA RepeatedProductIs ==
    \A x, n : RepeatedProduct(x, n) = (CHOOSE g : IsProduct(x, g, Nat))[n]
  BY Zenon DEF RepeatedProduct, IsProduct, ProductStep

(* it exists: each initial part of it does, and they agree.                *)
LEMMA ProductExists ==
    \A x : \E g : IsProduct(x, g, Nat)
<1> SUFFICES ASSUME NEW x
             PROVE  \E g : IsProduct(x, g, Nat)
  OBVIOUS
<1> DEFINE N == {n \in Nat : \E g : IsProduct(x, g, 0..n)}
<1>1. 0 \in N
  <2> DEFINE g == [k \in 0..0 |-> 1]
  <2>1. IsProduct(x, g, 0..0)
    BY DEF IsProduct, ProductStep
  <2> QED
    BY <2>1
<1>2. ASSUME NEW n \in Nat, n \in N
      PROVE  n + 1 \in N
  <2>1. PICK g : IsProduct(x, g, 0..n)
    BY <1>2
  <2> DEFINE f == [k \in 0..n + 1 |-> ProductStep(x, g, k)]
  <2>2. \A k \in 0..n : g[k] = ProductStep(x, g, k) /\ f[k] = g[k]
    BY <2>1 DEF IsProduct
  <2>3. \A k \in 0..n + 1 : ProductStep(x, f, k) = ProductStep(x, g, k)
    BY <2>2 DEF ProductStep
  <2>4. IsProduct(x, f, 0..n + 1)
    BY <2>3 DEF IsProduct
  <2> QED
    BY <2>4
<1> HIDE DEF N
<1>3. Nat \subseteq N
  BY <1>1, <1>2, SetInduction
<1>4. \A n \in Nat : \E g : IsProduct(x, g, 0..n)
  BY <1>3 DEF N
<1> DEFINE Upto(n) == CHOOSE g : IsProduct(x, g, 0..n)
           f == [n \in Nat |-> Upto(n)[n]]
<1>5. \A n \in Nat : IsProduct(x, Upto(n), 0..n)
  BY <1>4
<1> HIDE DEF Upto
<1>6. \A n \in Nat : \A k \in 0..n : Upto(n)[k] = ProductStep(x, Upto(n), k)
  BY <1>5 DEF IsProduct
<1>7. \A k \in Nat : \A m, n \in Nat : k <= m /\ k <= n => Upto(m)[k] = Upto(n)[k]
  <2> DEFINE K == {k \in Nat : \A m, n \in Nat : k <= m /\ k <= n => Upto(m)[k] = Upto(n)[k]}
  <2>1. 0 \in K
    BY <1>6 DEF ProductStep
  <2>2. ASSUME NEW k \in Nat, k \in K
        PROVE  k + 1 \in K
    <3>1. ASSUME NEW m \in Nat, NEW n \in Nat, k + 1 <= m, k + 1 <= n
          PROVE  Upto(m)[k + 1] = Upto(n)[k + 1]
      <4>1. Upto(m)[k] = Upto(n)[k]
        BY <2>2, <3>1
      <4>2. /\ Upto(m)[k + 1] = ProductStep(x, Upto(m), k + 1)
            /\ Upto(n)[k + 1] = ProductStep(x, Upto(n), k + 1)
        BY <1>6, <3>1
      <4>3. (k + 1) - 1 = k /\ k + 1 # 0
        OBVIOUS
      <4> QED
        BY <4>1, <4>2, <4>3 DEF ProductStep
    <3> QED
      BY <3>1
  <2> HIDE DEF K
  <2>3. Nat \subseteq K
    BY <2>1, <2>2, SetInduction
  <2> QED
    BY <2>3 DEF K
<1>8. ASSUME NEW n \in Nat
      PROVE  f[n] = ProductStep(x, f, n)
  <2>1. f[n] = ProductStep(x, Upto(n), n)
    BY <1>6
  <2>2. CASE n = 0
    BY <2>1, <2>2 DEF ProductStep
  <2>3. CASE n # 0
    <3>1. n - 1 \in Nat /\ n - 1 <= n /\ n - 1 <= n - 1
      BY <2>3
    <3>2. Upto(n)[n - 1] = f[n - 1]
      BY <1>7, <3>1
    <3> QED
      BY <2>1, <2>3, <3>2 DEF ProductStep
  <2> QED
    BY <2>2, <2>3
<1> QED
  <2>1. IsProduct(x, f, Nat)
    <3> DEFINE h == f
    <3>1. h = [n \in Nat |-> h[n]]
      OBVIOUS
    <3>2. \A n \in Nat : h[n] = ProductStep(x, h, n)
      BY <1>8
    <3> HIDE DEF h
    <3> QED
      BY <3>1, <3>2 DEF IsProduct, h
  <2> QED
    BY <2>1

(* The recursion of RepeatedProduct; every product is a word.              *)
LEMMA ProductSteps ==
    \A x \in Words :
        /\ RepeatedProduct(x, 0) = 1
        /\ \A n \in Nat : /\ RepeatedProduct(x, n + 1) = ToWord(x * RepeatedProduct(x, n))
                          /\ RepeatedProduct(x, n) \in Words
<1> SUFFICES ASSUME NEW x \in Words
             PROVE  /\ RepeatedProduct(x, 0) = 1
                    /\ \A n \in Nat :
                          /\ RepeatedProduct(x, n + 1) = ToWord(x * RepeatedProduct(x, n))
                          /\ RepeatedProduct(x, n) \in Words
  OBVIOUS
<1> DEFINE g == CHOOSE g : IsProduct(x, g, Nat)
<1>1. IsProduct(x, g, Nat)
  BY ProductExists
<1>2. \A n : RepeatedProduct(x, n) = g[n]
  BY RepeatedProductIs
<1> HIDE DEF g
<1>3. \A n \in Nat : g[n] = ProductStep(x, g, n)
  BY <1>1 DEF IsProduct
<1>4. RepeatedProduct(x, 0) = 1
  BY <1>2, <1>3 DEF ProductStep
<1>5. \A n \in Nat : RepeatedProduct(x, n + 1) = ToWord(x * RepeatedProduct(x, n))
  BY <1>2, <1>3 DEF ProductStep
<1> DEFINE N == {n \in Nat : RepeatedProduct(x, n) \in Words}
<1>6. 0 \in N
  BY <1>4, ModulusEven DEF Words
<1>7. \A n \in Nat : n \in N => n + 1 \in N
  <2>1. ASSUME NEW n \in Nat, RepeatedProduct(x, n) \in Words
        PROVE  RepeatedProduct(x, n + 1) \in Words
    <3> DEFINE p == RepeatedProduct(x, n)
    <3>1. x * p \in Int
      <4>1. x \in Int /\ p \in Int
        BY <2>1, WordsAreInt
      <4> HIDE DEF p
      <4> QED
        BY <4>1
    <3> QED
      BY <1>5, <3>1, ToWordIs
  <2> QED
    BY <2>1
<1> HIDE DEF N
<1>8. Nat \subseteq N
  BY <1>6, <1>7, SetInduction
<1> QED
  BY <1>4, <1>5, <1>8 DEF N

(* Products of integers commute and associate.                             *)
LEMMA Regroup ==
    \A i, j, k \in Int :
        /\ i * j \in Int /\ i * j = j * i /\ (i * j) * k = i * (j * k)
  BY SMT

(* The product of m + n factors is the one of m times the one of n.        *)
LEMMA ProductSplit ==
    \A x \in Words : \A m, n \in Nat :
        RepeatedProduct(x, m + n) = ToWord(RepeatedProduct(x, m) * RepeatedProduct(x, n))
<1> SUFFICES ASSUME NEW x \in Words, NEW n \in Nat
             PROVE  \A m \in Nat : RepeatedProduct(x, m + n)
                                     = ToWord(RepeatedProduct(x, m) * RepeatedProduct(x, n))
  OBVIOUS
<1> DEFINE b == RepeatedProduct(x, n)
           N == {m \in Nat : RepeatedProduct(x, m + n) = ToWord(RepeatedProduct(x, m) * b)}
<1>1. x \in Int /\ b \in Words /\ b \in Int
  BY ProductSteps, WordsAreInt
<1>2. 0 \in N
  <2>1. 1 * b = b /\ ToWord(b) = b /\ 0 + n = n /\ RepeatedProduct(x, 0) = 1
    BY <1>1, ProductSteps, ToWordIs
  <2> QED
    BY <2>1
<1>3. ASSUME NEW m \in Nat, m \in N
      PROVE  m + 1 \in N
  <2> DEFINE a == RepeatedProduct(x, m)
             c == RepeatedProduct(x, m + n)
  <2>1. a \in Int /\ c = ToWord(a * b) /\ m + n \in Nat /\ (m + 1) + n = (m + n) + 1
    <3>1. a \in Int
      BY ProductSteps, WordsAreInt
    <3>2. c = ToWord(a * b)
      BY <1>3
    <3> QED
      BY <3>1, <3>2
  <2>2. /\ RepeatedProduct(x, (m + 1) + n) = ToWord(x * c)
        /\ RepeatedProduct(x, m + 1) = ToWord(x * a)
    BY <2>1, ProductSteps
  <2> HIDE DEF a, b, c
  <2>3. a * b \in Int /\ x * a \in Int /\ (x * a) * b = x * (a * b)
    BY <1>1, <2>1, Regroup
  <2>4. ToWord(x * c) = ToWord(x * (a * b))
    BY <1>1, <2>1, <2>3, Congruent
  <2>5. ToWord(b * ToWord(x * a)) = ToWord(b * (x * a))
    BY <1>1, <2>3, Congruent
  <2>6. ToWord(x * a) \in Int
    BY <2>3, ToWordIs, WordsAreInt
  <2>7. b * ToWord(x * a) = ToWord(x * a) * b /\ b * (x * a) = (x * a) * b
    BY <1>1, <2>3, <2>6, Regroup
  <2>8. RepeatedProduct(x, (m + 1) + n) = ToWord(RepeatedProduct(x, m + 1) * b)
    BY <2>2, <2>3, <2>4, <2>5, <2>7
  <2> QED
    BY <2>8
<1> HIDE DEF N
<1>4. Nat \subseteq N
  BY <1>2, <1>3, SetInduction
<1> QED
  BY <1>4 DEF N

(* The recursion of ipow.                                                  *)
PowerStep(x, g, q) ==
    IF q = 0 THEN 1
    ELSE IF q = 1 THEN x
    ELSE LET tmp == g[TruncDiv(q, 2)]
             square == ToWord(tmp * tmp)
         IN  IF TruncMod(q, 2) = 0 THEN square ELSE ToWord(x * square)
IsPower(x, g) == g = [q \in Int |-> PowerStep(x, g, q)]

(* ipow picks a function that satisfies the recursion of the code.         *)
LEMMA ipowIs ==
    \A x, p : ipow(x, p) = (CHOOSE g : IsPower(x, g))[p]
  BY Zenon DEF ipow, IsPower, PowerStep

(* p / 2 is smaller than p and halves its absolute value, for negative p   *)
(* too.                                                                    *)
LEMMA Halving ==
  ASSUME NEW q \in Int \ {0, 1}
  PROVE  /\ TruncDiv(q, 2) \in Int /\ AbsInt(TruncDiv(q, 2)) \in Nat
         /\ AbsInt(q) \in Nat
         /\ AbsInt(TruncDiv(q, 2)) < AbsInt(q)
         /\ TruncMod(q, 2) = 0 =>
               AbsInt(q) = AbsInt(TruncDiv(q, 2)) + AbsInt(TruncDiv(q, 2))
         /\ TruncMod(q, 2) # 0 =>
               AbsInt(q) = (AbsInt(TruncDiv(q, 2)) + AbsInt(TruncDiv(q, 2))) + 1
<1> DEFINE t == TruncDiv(q, 2)
           m == TruncMod(q, 2)
<1>1. /\ t \in Int /\ m \in Int /\ q = t * 2 + m
      /\ AbsInt(m) < AbsInt(2) /\ AbsInt(t) < AbsInt(q)
      /\ m = 0 \/ (m < 0) = (q < 0)
  BY TruncDivIs
<1> HIDE DEF t, m
<1>2. m \in {-1, 0, 1}
  BY <1>1 DEF AbsInt
<1> QED
  BY <1>1, <1>2 DEF AbsInt, t, m

(* The recursion of ipow terminates and computes the power: repeated       *)
(* products satisfy it, and nothing else does.                             *)
LEMMA ipowComputes ==
    \A x \in Words, p \in Int : ipow(x, p) = RepeatedProduct(x, AbsInt(p))
<1> SUFFICES ASSUME NEW x \in Words
             PROVE  \A p \in Int : ipow(x, p) = RepeatedProduct(x, AbsInt(p))
  OBVIOUS
<1> DEFINE Rep(q) == RepeatedProduct(x, AbsInt(q))
<1>1. RepeatedProduct(x, 0) = 1 /\ RepeatedProduct(x, 1) = x
  <2>1. x * 1 = x /\ 0 + 1 = 1
    BY WordsAreInt
  <2>2. RepeatedProduct(x, 0 + 1) = ToWord(x * RepeatedProduct(x, 0)) /\ RepeatedProduct(x, 0) = 1
    BY ProductSteps
  <2> QED
    BY <2>1, <2>2, ToWordIs
<1>2. ASSUME NEW g, NEW q \in Int, q \notin {0, 1},
             g[TruncDiv(q, 2)] = Rep(TruncDiv(q, 2))
      PROVE  PowerStep(x, g, q) = Rep(q)
  <2> DEFINE h == AbsInt(TruncDiv(q, 2))
             r == RepeatedProduct(x, h)
  <2>1. h \in Nat /\ h + h \in Nat /\ r \in Words
    <3>1. h \in Nat
      BY <1>2, Halving
    <3> HIDE DEF h
    <3> QED
      BY <3>1, ProductSteps
  <2>2. RepeatedProduct(x, h + h) = ToWord(r * r)
    BY <2>1, ProductSplit
  <2>3. RepeatedProduct(x, (h + h) + 1) = ToWord(x * ToWord(r * r))
    BY <2>1, <2>2, ProductSteps
  <2>4. /\ TruncMod(q, 2) = 0 => AbsInt(q) = h + h
        /\ TruncMod(q, 2) # 0 => AbsInt(q) = (h + h) + 1
    BY <1>2, Halving
  <2>5. PowerStep(x, g, q) = IF TruncMod(q, 2) = 0 THEN ToWord(r * r)
                             ELSE ToWord(x * ToWord(r * r))
    BY <1>2 DEF PowerStep
  <2> HIDE DEF h, r
  <2> QED
    BY <2>2, <2>3, <2>4, <2>5
<1>3. Rep(0) = 1 /\ Rep(1) = x
  BY <1>1 DEF AbsInt
<1> DEFINE f == [q \in Int |-> Rep(q)]
<1>4. IsPower(x, f)
  <2>1. ASSUME NEW q \in Int
        PROVE  Rep(q) = PowerStep(x, f, q)
    <3>1. CASE q \in {0, 1}
      <4> HIDE DEF Rep
      <4> QED
        BY <1>3, <3>1 DEF PowerStep
    <3>2. CASE q \notin {0, 1}
      <4>1. f[TruncDiv(q, 2)] = Rep(TruncDiv(q, 2))
        BY <3>2, Halving
      <4> HIDE DEF f, Rep
      <4> QED
        BY <1>2, <3>2, <4>1
    <3> QED
      BY <3>1, <3>2
  <2> HIDE DEF Rep
  <2> QED
    BY <2>1 DEF IsPower
<1> DEFINE g == CHOOSE g : IsPower(x, g)
<1>5. IsPower(x, g)
  BY <1>4
<1> HIDE DEF g, f, Rep
<1>6. \A q \in Int : g[q] = PowerStep(x, g, q)
  BY <1>5 DEF IsPower
<1> DEFINE N == {n \in Nat : \A q \in Int : AbsInt(q) <= n => g[q] = Rep(q)}
<1>7. 0 \in N
  <2>1. \A q \in Int : AbsInt(q) <= 0 => q = 0
    BY DEF AbsInt
  <2>2. g[0] = Rep(0)
    BY <1>3, <1>6 DEF PowerStep
  <2> QED
    BY <2>1, <2>2
<1>8. ASSUME NEW n \in Nat, n \in N
      PROVE  n + 1 \in N
  <2>1. ASSUME NEW q \in Int, AbsInt(q) <= n + 1
        PROVE  g[q] = Rep(q)
    <3>1. CASE q \in {0, 1}
      BY <1>3, <1>6, <3>1 DEF PowerStep
    <3>2. CASE q \notin {0, 1}
      <4>1. TruncDiv(q, 2) \in Int /\ AbsInt(TruncDiv(q, 2)) <= n
        BY <2>1, <3>2, Halving
      <4>2. g[TruncDiv(q, 2)] = Rep(TruncDiv(q, 2))
        BY <1>8, <4>1
      <4> QED
        BY <1>2, <1>6, <3>2, <4>2
    <3> QED
      BY <3>1, <3>2
  <2> QED
    BY <2>1
<1>9. Nat \subseteq N
  <2> HIDE DEF N
  <2> QED
    BY <1>7, <1>8, SetInduction
<1>10. ASSUME NEW p \in Int
       PROVE  g[p] = Rep(p)
  <2>1. AbsInt(p) \in Nat /\ AbsInt(p) <= AbsInt(p)
    BY DEF AbsInt
  <2> QED
    BY <1>9, <2>1
<1> QED
  BY <1>10, ipowIs DEF g, Rep

(* POW is the repeated product for all words, POWS for a base that is not  *)
(* negative; MULS is MUL.                                                  *)
THEOREM PowerLawsTheorem == Spec => []PowerLaws
<1>1. ASSUME Operands
      PROVE  PowerLaws
  <2>1. L \in Words /\ R \in Words /\ L \in Int /\ R \in Nat
    BY <1>1, ModulusEven DEF Operands, Words
  <2>2. PICK h \in Nat : h >= 1 /\ Modulus = 2 * h
    BY ModulusEven
  <2>3. /\ Signed(L) \in Int /\ Signed(R) \in Int
        /\ ToWord(Signed(L)) = L /\ ToWord(Signed(R)) = R
    BY <2>1, <2>2, SignedIs
  <2>4. pow(L, R) = {RepeatedProduct(L, R)}
    <3>1. AbsInt(R) = R
      BY <2>1 DEF AbsInt
    <3> QED
      BY <2>1, <3>1, ipowComputes DEF pow
  <2>5. Signed(L) >= 0 => pows(L, R) = {RepeatedProduct(L, AbsInt(Signed(R)))}
    <3>1. Signed(L) >= 0 => ~ (Signed(L) < 0)
      BY <2>3
    <3> QED
      BY <2>1, <2>3, <3>1, ipowComputes DEF pows
  <2>6. muls(L, R) = mul(L, R)
    <3> DEFINE l == Signed(L)
               r == Signed(R)
    <3>1. ToWord(l * r) = ToWord(l * R)
      BY <2>3, Congruent
    <3>2. ToWord(R * l) = ToWord(R * L)
      BY <2>1, <2>3, Congruent
    <3>3. l * R = R * l /\ R * L = L * R
      <4> HIDE DEF l
      <4>1. l \in Int
        BY <2>3 DEF l
      <4> QED
        BY <2>1, <4>1, Regroup
    <3> QED
      BY <3>1, <3>2, <3>3 DEF muls, mul
  <2> QED
    BY <2>4, <2>5, <2>6 DEF PowerLaws
<1>2. Operands => PowerLaws
  BY <1>1
<1> QED
  BY <1>2, OperandsAreWords, PTL

(* true and false are words.                                               *)
LEMMA FlagWords == {0, 1} \subseteq Words
  BY ModulusEven DEF Words

(* A float in a word is a word.                                            *)
LEMMA FloatsAreWords == FloatWords \subseteq Words
<1> DEFINE h == WordBits \div 2
           N == {n \in Nat : 2^h <= 2^(h + n)}
<1>1. h \in Nat /\ WordBits - h \in Nat /\ h + (WordBits - h) = WordBits
  BY ModulusEven
<1> HIDE DEF h
<1>2. 0 \in N
  BY <1>1, PowersOfTwo
<1>3. ASSUME NEW n \in Nat, n \in N
      PROVE  n + 1 \in N
  <2>1. h + n \in Nat /\ h + (n + 1) = (h + n) + 1
    BY <1>1
  <2>2. 2^h \in Nat /\ 2^(h + n) \in Nat /\ 2^(h + (n + 1)) = 2 * 2^(h + n)
    BY <1>1, <2>1, PowersOfTwo
  <2>3. 2^h <= 2^(h + n)
    BY <1>3
  <2>4. 2^h <= 2^(h + (n + 1))
    BY <2>2, <2>3
  <2> QED
    BY <2>4
<1> HIDE DEF N
<1>4. Nat \subseteq N
  BY <1>2, <1>3, SetInduction
<1>5. 2^h <= Modulus
  BY <1>1, <1>4 DEF N, Modulus
<1>6. 2^h \in Nat
  BY <1>1, PowersOfTwo
<1> QED
  BY <1>5, <1>6, ModulusEven DEF FloatWords, Words, h

(* Whatever an instruction with two operands pushes is a word,             *)
LEMMA BinaryWords ==
    \A op \in AllBinaryOps : \A l, r \in Words : Binary(op, l, r) \subseteq Words
<1> SUFFICES ASSUME NEW op \in AllBinaryOps, NEW l \in Words, NEW r \in Words
             PROVE  Binary(op, l, r) \subseteq Words
  OBVIOUS
<1>1. PICK h \in Nat : h >= 1 /\ Modulus = 2 * h
  BY ModulusEven
<1>2. /\ l \in Int /\ r \in Int /\ r \in Nat /\ Signed(l) \in Int /\ Signed(r) \in Int
  BY <1>1, SignedIs, ModulusEven DEF Words
<1>3. add(l, r) \subseteq Words /\ sub(l, r) \subseteq Words
  BY <1>2, ToWordIs DEF add, sub
<1>4. l * r \in Int /\ Signed(l) * Signed(r) \in Int
  BY <1>2, Regroup
<1>5. mul(l, r) \subseteq Words /\ muls(l, r) \subseteq Words
  BY <1>4, ToWordIs DEF mul, muls
<1>6. div(l, r) \subseteq Words /\ mod(l, r) \subseteq Words
  <2>1. CASE r = 0
    BY <2>1 DEF div, mod
  <2>2. CASE r # 0
    <3>1. /\ div(l, r) = {l \div r} /\ mod(l, r) = {l % r}
          /\ l \div r \in Words /\ l % r \in Words
      BY <2>2, DivUnsigned
    <3> QED
      BY <3>1
  <2> QED
    BY <2>1, <2>2
<1>7. divs(l, r) \subseteq Words /\ mods(l, r) \subseteq Words
  <2>1. SignedWords \subseteq Int
    BY <1>1, SignedIs
  <2>2. CASE DivTraps(l, r)
    BY <2>2 DEF divs, mods
  <2>3. CASE ~ DivTraps(l, r)
    <3>1. /\ TruncDiv(Signed(l), Signed(r)) \in Int
          /\ TruncMod(Signed(l), Signed(r)) \in Int
      BY <2>1, <2>3, DivSigned
    <3> QED
      BY <2>3, <3>1, ToWordIs DEF divs, mods
  <2> QED
    BY <2>2, <2>3
<1>8. pow(l, r) \subseteq Words /\ pows(l, r) \subseteq Words
  <2>1. AbsInt(r) \in Nat /\ AbsInt(Signed(r)) \in Nat
    BY <1>2 DEF AbsInt
  <2>2. ipow(l, r) \in Words /\ ipow(l, Signed(r)) \in Words
    BY <1>2, <2>1, ipowComputes, ProductSteps
  <2> QED
    BY <2>2, FlagWords DEF pow, pows
<1>9. \A b : {Flag(b)} \subseteq Words
  BY FlagWords DEF Flag
<1>10. /\ land(l, r) \subseteq Words /\ lor(l, r) \subseteq Words /\ lxor(l, r) \subseteq Words
  BY <1>9 DEF land, lor, lxor
<1>11. /\ band(l, r) \subseteq Words /\ bor(l, r) \subseteq Words /\ bxor(l, r) \subseteq Words
  <2>1. Bits(l) \subseteq BitSet /\ Bits(r) \subseteq BitSet
    BY BitsAreBits
  <2>2. /\ Bits(l) \cap Bits(r) \subseteq BitSet /\ Bits(l) \cup Bits(r) \subseteq BitSet
        /\ (Bits(l) \cup Bits(r)) \ (Bits(l) \cap Bits(r)) \subseteq BitSet
    BY <2>1
  <2> QED
    BY <2>2, FromBitsWords DEF band, bor, bxor
<1>12. /\ eq(l, r) \subseteq Words /\ ne(l, r) \subseteq Words
       /\ lt(l, r) \subseteq Words /\ gt(l, r) \subseteq Words
       /\ le(l, r) \subseteq Words /\ ge(l, r) \subseteq Words
  BY <1>9 DEF eq, ne, lt, gt, le, ge
<1>13. /\ lts(l, r) \subseteq Words /\ gts(l, r) \subseteq Words
       /\ les(l, r) \subseteq Words /\ ges(l, r) \subseteq Words
  BY <1>9 DEF lts, gts, les, ges
<1>14. FloatWords \subseteq Words /\ {0, 1} \subseteq Words /\ Words \subseteq Words
  BY FloatsAreWords, FlagWords
<1> DEFINE Arms == {add(l, r), sub(l, r), mul(l, r), muls(l, r), div(l, r), divs(l, r),
              mod(l, r), mods(l, r), pow(l, r), pows(l, r), land(l, r), lor(l, r), lxor(l, r),
              band(l, r), bor(l, r), bxor(l, r), eq(l, r), ne(l, r), lt(l, r), gt(l, r),
              le(l, r), ge(l, r), lts(l, r), gts(l, r), les(l, r), ges(l, r),
              FloatWords, {0, 1}, Words}
<1>15. Binary(op, l, r) \in Arms
  BY Zenon DEF Binary
<1>16. \A A \in Arms : A \subseteq Words
  BY <1>3, <1>5, <1>6, <1>7, <1>8, <1>10, <1>11, <1>12, <1>13, <1>14
<1> QED
  BY <1>15, <1>16

(* and so for one operand.                                                 *)
LEMMA UnaryWords ==
    \A op \in AllUnaryOps : \A x \in Words : Unary(op, x) \subseteq Words
<1> SUFFICES ASSUME NEW op \in AllUnaryOps, NEW x \in Words
             PROVE  Unary(op, x) \subseteq Words
  OBVIOUS
<1>1. linv(x) \subseteq Words
  BY FlagWords DEF linv, Flag
<1>2. binv(x) \subseteq Words
  <2>1. (0..WordBits - 1) \ Bits(x) \subseteq BitSet
    BY DEF BitSet
  <2> QED
    BY <2>1, FromBitsWords DEF binv
<1>3. Unary(op, x) \in {linv(x), binv(x), FloatWords, Words}
  BY DEF Unary
<1> QED
  BY <1>1, <1>2, <1>3, FloatsAreWords

(* No instruction pushes anything but a word: what Machine assumes of its  *)
(* arithmetic.                                                             *)
THEOREM WordsTypeCorrect == Spec => []TypeOK
<1>1. Operands => TypeOK
  BY BinaryWords, UnaryWords DEF TypeOK, Operands
<1> QED
  BY <1>1, OperandsAreWords, PTL

=============================================================================
