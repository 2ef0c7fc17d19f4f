------------------------------ MODULE MCWords ------------------------------
(***************************************************************************)
(* The instructions of Words against independent definitions of what they  *)
(* compute, for every pair of operands.                                    *)
(***************************************************************************)
EXTENDS Words

VARIABLES L, R

vars == <<L, R>>

Init == L = 0 /\ R = 0
Next == \E l, r \in Words : L' = l /\ R' = r
Spec == Init /\ [][Next]_vars

(* No operand pair makes an instruction push something that is not a word. *)
TypeOK ==
    /\ L \in Words /\ R \in Words
    /\ \A op \in AllBinaryOps : Binary(op, L, R) \subseteq Words
    /\ \A op \in AllUnaryOps : Unary(op, L) \subseteq Words

(* DIV and MOD, DIVS and MODS belong together: quotient and remainder give *)
(* the dividend back, the remainder is smaller than the divisor and, for   *)
(* the signed pair, has the sign of the dividend.  The unsigned pair traps *)
(* on a zero divisor only, the signed pair also on MIN / -1, both at once. *)
DivisionLaws ==
    /\ \A q \in div(L, R), r \in mod(L, R) : L = q * R + r /\ r < R
    /\ (div(L, R) = {}) = (R = 0) /\ (mod(L, R) = {}) = (R = 0)
    /\ \A qw \in divs(L, R), rw \in mods(L, R) :
          LET l == Signed(L)  q == Signed(qw)  r == Signed(rw)
          IN  /\ l = q * Signed(R) + r
              /\ AbsInt(r) < AbsInt(Signed(R))
              /\ r = 0 \/ (r < 0) = (l < 0)
    /\ (divs(L, R) = {}) = (mods(L, R) = {})
    /\ (divs(L, R) = {}) = (R = 0 \/ (2 * L = Modulus /\ R = Modulus - 1))

(* x multiplied n times with itself, modulo the word.                      *)
RepeatedProduct(x, n) ==
    LET power[k \in Nat] == IF k = 0 THEN 1 ELSE ToWord(x * power[k - 1])
    IN  power[n]

(* The squaring recursion of ipow computes the power: POW for all words,   *)
(* POWS for a base that is not negative, where a negative exponent counts  *)
(* as its absolute value; and multiplication is the same word for signed   *)
(* and unsigned operands, which is why ipow may serve both.                *)
PowerLaws ==
    /\ pow(L, R) = {RepeatedProduct(L, R)}
    /\ Signed(L) >= 0 => pows(L, R) = {RepeatedProduct(L, AbsInt(Signed(R)))}
    /\ muls(L, R) = mul(L, R)

(* instrucitons.md calls POWS "Signed integer exponentiation": for every   *)
(* signed base and an exponent that is not negative, the power of the two, *)
(* wrapped to a word.                                                      *)
PowsIsSignedExponentiation ==
    Signed(R) >= 0 => pows(L, R) = {RepeatedProduct(L, Signed(R))}

(* The bitwise instructions agree with the arithmetic: a sum is the        *)
(* carry-free sum plus twice the carries, INV is the negative minus one,   *)
(* and de Morgan's law and the two's complement difference hold.           *)
BitwiseLaws ==
    /\ \A a \in band(L, R), x \in bxor(L, R), o \in bor(L, R) :
          /\ add(L, R) = {ToWord(x + 2 * a)}
          /\ o = x + a
    /\ binv(L) = {ToWord(-L - 1)}
    /\ \A i \in binv(L), j \in binv(R) :
          /\ band(i, j) = UNION {binv(o) : o \in bor(L, R)}
          /\ sub(L, R) = UNION {add(s, 1) : s \in add(L, j)}

(* Each order is total and its four relations agree; the signed order is   *)
(* the unsigned one with the sign bit of both operands flipped.            *)
OrderLaws ==
    LET FlipSign(w) == ToWord(w + Modulus \div 2)
        Consistent(less, greater, lessEq, greaterEq) ==
            /\ less + greater + (IF L = R THEN 1 ELSE 0) = 1
            /\ lessEq = 1 - greater /\ greaterEq = 1 - less
    IN  /\ \A a \in lt(L, R), b \in gt(L, R), c \in le(L, R), d \in ge(L, R) :
              Consistent(a, b, c, d)
        /\ \A a \in lts(L, R), b \in gts(L, R), c \in les(L, R), d \in ges(L, R) :
              Consistent(a, b, c, d)
        /\ lts(L, R) = lt(FlipSign(L), FlipSign(R))
        /\ eq(L, R) = {Flag(sub(L, R) = {0})} /\ ne(L, R) = linv(CHOOSE e \in eq(L, R) : TRUE)

=============================================================================
