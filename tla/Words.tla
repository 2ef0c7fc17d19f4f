------------------------------- MODULE Words -------------------------------
(***************************************************************************)
(* The arithmetic of StackMachine.cpp: what each instruction pushes for    *)
(* the operands it pops.  Words are unsigned and WordBits wide (stack_t is *)
(* uint64_t); a narrower even width keeps every wrap, sign change and trap *)
(* and lets TLC enumerate the operands.                                    *)
(*                                                                         *)
(* L is the left operand, popped second; R is the top of the stack.        *)
(*                                                                         *)
(* The result of an instruction is the SET of words it may push:           *)
(*   - one word for an integer instruction;                                *)
(*   - no word where x86-64 raises SIGFPE, which ends the process;         *)
(*   - every word of the result's format for a floating point instruction: *)
(*     rounding is abstracted, the format is not (a float leaves the upper *)
(*     half of the word zero, a comparison gives 0 or 1).                  *)
(***************************************************************************)
EXTENDS Integers, FiniteSetsExt

CONSTANT WordBits

ASSUME WordBitsAssumption == WordBits \in {2 * k : k \in 1..32}

Modulus == 2 ^ WordBits
Words == 0..Modulus - 1

(* The words whose upper half is zero: what union data_f leaves behind.    *)
FloatWords == 0..(2 ^ (WordBits \div 2)) - 1

(* static_cast<signed_stack_t> and back: two's complement.                 *)
Signed(w) == IF 2 * w < Modulus THEN w ELSE w - Modulus
ToWord(i) == i % Modulus

(* The range of signed_stack_t.                                            *)
SignedWords == {Signed(w) : w \in Words}

(* C++ division truncates towards zero.                                    *)
AbsInt(i) == IF i < 0 THEN -i ELSE i
TruncDiv(a, b) ==
    LET q == AbsInt(a) \div AbsInt(b)
    IN  IF (a < 0) = (b < 0) THEN q ELSE -q
TruncMod(a, b) == a - b * TruncDiv(a, b)

(* true and false as the machine pushes them.                              *)
Flag(b) == IF b THEN 1 ELSE 0

-----------------------------------------------------------------------------
(* Integer arithmetic.                                                     *)

(* Mutation: a sum that is not truncated to the word.                      *)
addUnwrapped(L, R) == {L + R}

add(L, R) == {ToWord(L + R)}
sub(L, R) == {ToWord(L - R)}
mul(L, R) == {ToWord(L * R)}
muls(L, R) == {ToWord(Signed(L) * Signed(R))}

div(L, R) == {ToWord(L \div d) : d \in {R} \ {0}}
mod(L, R) == {ToWord(L % d) : d \in {R} \ {0}}

(* idiv traps on a zero divisor and on a quotient that does not fit.       *)
DivTraps(L, R) == R = 0 \/ TruncDiv(Signed(L), Signed(R)) \notin SignedWords

(* Mutation: the remainder of a floored division.                          *)
modsFloored(L, R) ==
    IF DivTraps(L, R) THEN {}
    ELSE {ToWord(Signed(L) - Signed(R) * ((Signed(L) * (IF Signed(R) < 0 THEN -1 ELSE 1))
                                            \div AbsInt(Signed(R))))}

divs(L, R) ==
    IF DivTraps(L, R) THEN {} ELSE {ToWord(TruncDiv(Signed(L), Signed(R)))}
mods(L, R) ==
    IF DivTraps(L, R) THEN {} ELSE {ToWord(TruncMod(Signed(L), Signed(R)))}

(* Mutation: the odd factor is dropped.                                    *)
ipowHalved(x, p) ==
    LET power[q \in Int] ==
            IF q = 0 THEN 1
            ELSE IF q = 1 THEN x
            ELSE LET tmp == power[TruncDiv(q, 2)] IN ToWord(tmp * tmp)
    IN  power[p]

(* ipow: repeated squaring on stack_t or signed_stack_t.  A product wraps  *)
(* in both (signed overflow is undefined; the builds wrap), so one         *)
(* definition on words serves the two; p / 2 and p % 2 truncate, which     *)
(* matters for a negative exponent.                                        *)
ipow(x, p) ==
    LET power[q \in Int] ==
            IF q = 0 THEN 1
            ELSE IF q = 1 THEN x
            ELSE LET tmp == power[TruncDiv(q, 2)]
                     square == ToWord(tmp * tmp)
                 IN  IF TruncMod(q, 2) = 0 THEN square ELSE ToWord(x * square)
    IN  power[p]

pow(L, R) == {ipow(L, R)}
pows(L, R) == {IF Signed(L) < 0 THEN 0 ELSE ipow(L, Signed(R))}

-----------------------------------------------------------------------------
(* Logic and bitwise instructions.                                         *)

land(L, R) == {Flag(L # 0 /\ R # 0)}
lor(L, R) == {Flag(L # 0 \/ R # 0)}
lxor(L, R) == {Flag((L # 0) # (R # 0))}
linv(x) == {Flag(x = 0)}

(* The positions of the bits set in a word, and back.                      *)
Bits(w) == {i \in 0..WordBits - 1 : (w \div 2 ^ i) % 2 = 1}
FromBits(S) == MapThenSumSet(LAMBDA i : 2 ^ i, S)

(* Mutation: bitwise or where exclusive or is meant.                       *)
bxorInclusive(L, R) == {FromBits(Bits(L) \cup Bits(R))}

band(L, R) == {FromBits(Bits(L) \cap Bits(R))}
bor(L, R) == {FromBits(Bits(L) \cup Bits(R))}
bxor(L, R) == {FromBits((Bits(L) \cup Bits(R)) \ (Bits(L) \cap Bits(R)))}
binv(x) == {FromBits((0..WordBits - 1) \ Bits(x))}

-----------------------------------------------------------------------------
(* Relations: unsigned, then signed.                                       *)

eq(L, R) == {Flag(L = R)}
ne(L, R) == {Flag(L # R)}
lt(L, R) == {Flag(L < R)}
gt(L, R) == {Flag(L > R)}
le(L, R) == {Flag(L <= R)}
ge(L, R) == {Flag(L >= R)}

(* Mutation: the operands are compared without their sign.                 *)
ltsUnsigned(L, R) == {Flag(L < R)}

lts(L, R) == {Flag(Signed(L) < Signed(R))}
gts(L, R) == {Flag(Signed(L) > Signed(R))}
les(L, R) == {Flag(Signed(L) <= Signed(R))}
ges(L, R) == {Flag(Signed(L) >= Signed(R))}

-----------------------------------------------------------------------------
(* The instruction set, by the shape of its operands and results.          *)

IntegerOps == {"ADD", "SUB", "MUL", "MULS", "DIV", "DIVS", "MOD", "MODS",
               "POW", "POWS", "AND", "OR", "XOR", "BAND", "BOR", "BXOR",
               "EQ", "NE", "LT", "GT", "LE", "GE", "LTS", "GTS", "LES", "GES"}
FloatOps == {"ADDF", "SUBF", "MULF", "DIVF", "POWF"}
DoubleOps == {"ADDD", "SUBD", "MULD", "DIVD", "POWD"}
DoubleRelations == {"LTD", "GTD", "LED", "GED"}
AllBinaryOps == IntegerOps \cup FloatOps \cup DoubleOps \cup DoubleRelations

ToFloatConversions == {"ITOF", "DTOF"}
OtherConversions == {"ITOD", "FTOI", "DTOI", "FTOD"}
MathOps == {"ABS", "SQRT", "CBRT", "LN", "LG", "LOG", "SIN", "COS", "TAN",
            "ASIN", "ACOS", "ATAN"}
AllUnaryOps == {"NOT", "INV"} \cup ToFloatConversions \cup OtherConversions
               \cup MathOps

(* What an instruction with two operands may push.                         *)
Binary(op, L, R) ==
    CASE op = "ADD" -> add(L, R)    [] op = "SUB" -> sub(L, R)
      [] op = "MUL" -> mul(L, R)    [] op = "MULS" -> muls(L, R)
      [] op = "DIV" -> div(L, R)    [] op = "DIVS" -> divs(L, R)
      [] op = "MOD" -> mod(L, R)    [] op = "MODS" -> mods(L, R)
      [] op = "POW" -> pow(L, R)    [] op = "POWS" -> pows(L, R)
      [] op = "AND" -> land(L, R)   [] op = "OR" -> lor(L, R)
      [] op = "XOR" -> lxor(L, R)   [] op = "BAND" -> band(L, R)
      [] op = "BOR" -> bor(L, R)    [] op = "BXOR" -> bxor(L, R)
      [] op = "EQ" -> eq(L, R)      [] op = "NE" -> ne(L, R)
      [] op = "LT" -> lt(L, R)      [] op = "GT" -> gt(L, R)
      [] op = "LE" -> le(L, R)      [] op = "GE" -> ge(L, R)
      [] op = "LTS" -> lts(L, R)    [] op = "GTS" -> gts(L, R)
      [] op = "LES" -> les(L, R)    [] op = "GES" -> ges(L, R)
      [] op \in FloatOps -> FloatWords
      [] op \in DoubleRelations -> {0, 1}
      [] OTHER -> Words

(* What an instruction with one operand may push.                          *)
Unary(op, x) ==
    CASE op = "NOT" -> linv(x)
      [] op = "INV" -> binv(x)
      [] op \in ToFloatConversions -> FloatWords
      [] OTHER -> Words

=============================================================================
