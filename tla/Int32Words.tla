------------------------------ MODULE Int32Words ------------------------------
(***************************************************************************)
(* Register words of the MIPS code generator and the JavaScript numbers   *)
(* they stand for: two's complement words of WordBits bits (32 on MIPS),  *)
(* the instructions and macro-assembler sequences LCodeGen emits on them,  *)
(* exact JavaScript numbers with -0, NaN and the infinities, and when a   *)
(* register is acceptable to an instruction's uses for such a number.     *)
(***************************************************************************)
EXTENDS Integers, FiniteSets

CONSTANTS
  WordBits,          \* bits of a register (32 on MIPS)
  Unpredictable      \* words an unpredictable result or a stale register may hold

Half == 2^(WordBits - 1)
kMinInt == -Half
kMaxInt == Half - 1
Words == kMinInt .. kMaxInt

(***************************************************************************)
(* Register arithmetic: two's complement words and the MIPS instructions  *)
(* the handlers emit.                                                      *)
(***************************************************************************)
Wrap(x) == LET u == x % (2 * Half) IN IF u >= Half THEN u - 2 * Half ELSE u
Unsigned(x) == x % (2 * Half)
AbsOf(x) == IF x < 0 THEN -x ELSE x
\* Mutant: the sum without wrapping to a word.
AdduUnwrapped(a, b) == a + b

Addu(a, b) == Wrap(a + b)
Subu(a, b) == Wrap(a - b)
Mul(a, b) == Wrap(a * b)
MultHi(a, b) == (a * b) \div (2 * Half)
sra(a, s) == a \div 2^s
srl(a, s) == Wrap(Unsigned(a) \div 2^s)
sll(a, s) == Wrap(a * 2^s)
Ror(a, s) == Wrap(Unsigned(a) \div 2^s + (Unsigned(a) % 2^s) * 2^(WordBits - s))
\* And with a mask of the form 2^k - 1.
AndLowBits(a, mask) == Unsigned(a) % (mask + 1)
\* Xor(a, b) >= 0: the sign bits agree.
XorNonNegative(a, b) == (a < 0) = (b < 0)
\* AdduAndCheckForOverflow / SubuAndCheckForOverflow: the wrapped sum and
\* whether the overflow register is negative.
AdduAndCheckForOverflow(a, b) == [result |-> Addu(a, b), overflow |-> a + b \notin Words]
SubuAndCheckForOverflow(a, b) == [result |-> Subu(a, b), overflow |-> a - b \notin Words]
\* SmiTagCheckOverflow: x shifted left by the tag, overflowing out of the word.
SmiTagCheckOverflow(x) == [result |-> Wrap(2 * x), overflow |-> 2 * x \notin Words]
SmiUntag(x) == sra(x, 1)

TruncDiv(a, b) == IF (a >= 0) = (b > 0) THEN AbsOf(a) \div AbsOf(b)
                  ELSE -(AbsOf(a) \div AbsOf(b))
TruncRem(a, b) == a - b * TruncDiv(a, b)

(***************************************************************************)
(* MIPS div: LO the quotient, HI the remainder, truncated; unpredictable  *)
(* when dividing by zero.  kMinInt / -1 leaves the wrapped quotient.       *)
(***************************************************************************)
DivOutcomes(a, b) ==
  IF b = 0 THEN [lo : Unpredictable, hi : Unpredictable]
  ELSE {[lo |-> Wrap(TruncDiv(a, b)), hi |-> Wrap(TruncRem(a, b))]}

\* The power of two of a divisor's absolute value, as uint32 (abs(kMinInt)
\* read unsigned is 2^(WordBits-1)).
UnsignedAbs(d) == IF d = kMinInt THEN Half ELSE AbsOf(d)
IsPowerOf2(n) == n > 0 /\ \E k \in 0..WordBits : 2^k = n
WhichPowerOf2(n) == CHOOSE k \in 0..WordBits : 2^k = n
CountTrailingZeros(n) == CHOOSE k \in 0..WordBits : n % 2^k = 0 /\ (n \div 2^k) % 2 = 1

(***************************************************************************)
(* JavaScript numbers that integer operations can yield: exact rationals  *)
(* n/d (d > 0), minus zero, NaN and the infinities.                        *)
(***************************************************************************)
Num(n, d) == [k |-> "num", n |-> n, d |-> d]
IntNum(n) == Num(n, 1)
MinusZero == [k |-> "minus0", n |-> 0, d |-> 1]
NaN == [k |-> "nan", n |-> 0, d |-> 1]
Infinity == [k |-> "inf", n |-> 0, d |-> 1]

IsInteger(v) == v.k = "num" /\ v.n % v.d = 0
IntValue(v) == v.n \div v.d
IsInt32(v) == IsInteger(v) /\ IntValue(v) \in Words
IsSmiValue(n) == -(Half \div 2) <= n /\ n < Half \div 2
\* ToInt32: NaN, infinities and -0 to 0, others truncated modulo 2^WordBits.
ToInt32(v) == IF v.k # "num" THEN 0 ELSE Wrap(TruncDiv(v.n, v.d))

JSDivide(a, b) ==
  CASE b = 0 /\ a = 0 -> NaN
    [] b = 0 -> Infinity
    [] a = 0 /\ b < 0 -> MinusZero
    [] b > 0 -> Num(a, b)
    [] OTHER -> Num(-a, -b)
JSModulus(a, b) ==
  CASE b = 0 -> NaN
    [] a < 0 /\ TruncRem(a, b) = 0 -> MinusZero
    [] OTHER -> IntNum(TruncRem(a, b))
JSMultiply(a, b) == IF a * b = 0 /\ (a < 0 \/ b < 0) THEN MinusZero ELSE IntNum(a * b)
JSFloorOfDivide(a, b) ==
  CASE b = 0 -> JSDivide(a, b)
    [] a = 0 /\ b < 0 -> MinusZero
    [] b > 0 -> IntNum(a \div b)
    [] OTHER -> IntNum((-a) \div (-b))

(***************************************************************************)
(* What the optimizing compiler knows of an instruction and its operands: *)
(* HValue flags (kCanOverflow, kCanBeDivByZero, kBailoutOnMinusZero,      *)
(* kAllUsesTruncatingToInt32, kUint32), range facts (left->CanBeNegative, *)
(* left/right->RangeCanInclude(kMinInt/-1)), LShiftI::can_deopt, a Smi    *)
(* representation, whether the result register is the left one, and     *)
(* HBoundsCheck::skip_check and allow_equality.                          *)
(***************************************************************************)
AllFacts == {"truncating", "uint32", "canOverflow", "canBeDivByZero",
             "bailoutOnMinusZero", "canBeNegative", "minIntByMinusOne",
             "canDeopt", "isSmi", "aliased", "skipCheck", "allowEquality"}
FactsOver(S) == {[f \in AllFacts |-> IF f \in S THEN g[f] ELSE FALSE] : g \in [S -> BOOLEAN]}

(***************************************************************************)
(* The result register is acceptable to the instruction's uses for the   *)
(* JavaScript value v: truncating uses take ToInt32(v), uint32 uses the   *)
(* unsigned reading, a Smi result is the tagged value, and every other use*)
(* needs v itself as an int32, -0 being read as 0 only when the compiler  *)
(* found no use that tells them apart.                                     *)
(***************************************************************************)
Acceptable(res, v, h) ==
  CASE h.isSmi /\ h.truncating -> res = Wrap(2 * ToInt32(v))
    [] h.isSmi ->
         \/ IsInteger(v) /\ IsSmiValue(IntValue(v)) /\ res = 2 * IntValue(v)
         \/ v.k = "minus0" /\ ~h.bailoutOnMinusZero /\ res = 0
    [] h.truncating -> res = ToInt32(v)
    [] h.uint32 -> IsInteger(v) /\ IntValue(v) \in 0..(2 * Half - 1) /\ Unsigned(res) = IntValue(v)
    [] OTHER -> \/ IsInt32(v) /\ res = IntValue(v)
                \/ v.k = "minus0" /\ ~h.bailoutOnMinusZero /\ res = 0

\* The outcome of a handler: a deoptimization, or the result register (and,
\* for a division by a constant, the quotient and remainder it computed).
Deopt == [deopt |-> TRUE, result |-> 0, q |-> 0, rem |-> 0]
Result(x) == [deopt |-> FALSE, result |-> x, q |-> 0, rem |-> 0]
=============================================================================
