--------------------------- MODULE Int32Arithmetic ---------------------------
(***************************************************************************)
(* The int32 arithmetic of the MIPS code generator and the deoptimization  *)
(* checks that guard it: LCodeGen::DoModI, DoDivI, DoMathFloorOfDiv (with  *)
(* EmitSignedIntegerDivisionByConstant), DoMulI, DoAddI, DoSubI and        *)
(* DoShiftI.  Each handler is modelled as the instructions it emits, run   *)
(* on a word of WordBits bits (32 on MIPS; narrower here so that every     *)
(* dividend can be tried), and yields either a deoptimization or the word *)
(* left in the result register.  What the optimizing compiler knows about *)
(* the operands (range analysis, uses) is given as facts that must be     *)
(* true of the operands; what the JavaScript operation yields is a         *)
(* reference definition over exact numbers.                               *)
(***************************************************************************)
EXTENDS Int32Words, Bitwise

CONSTANTS
  RegisterInputs,    \* register operands tried
  ConstantFactors,   \* constant right operands of MulI
  FixedRightArgs     \* HMod::fixed_right_arg values (powers of two)

(***************************************************************************)
(* DivMagicNumberFor and LChunkBuilder::HasMagicNumberForDivisor: the     *)
(* magic multiplier M and shift s of Hacker's Delight for an odd divisor, *)
(* for the divisors V8 keeps a table of.  p is the least exponent with    *)
(* 2^p > anc * (d - 2^p mod d).                                            *)
(***************************************************************************)
MagicDivisors == {d \in {3, 5, 7, 9, 11, 25, 125, 625} : d < Half}
MagicExponentOk(d, p) == 2^p > (Half - 1 - (Half % d)) * (d - (2^p % d))
DivMagicNumberFor(d) ==
  LET p == CHOOSE p \in WordBits .. 2 * WordBits :
             MagicExponentOk(d, p) /\ \A q \in WordBits .. p - 1 : ~MagicExponentOk(d, q)
  IN [M |-> Wrap((2^p + d - (2^p % d)) \div d), s |-> p - WordBits]
HasMagicNumberForDivisor(divisor) ==
  LET abs == UnsignedAbs(divisor)
  IN abs = 0 \/ IsPowerOf2(abs)
     \/ abs \div 2^CountTrailingZeros(abs) \in MagicDivisors

(***************************************************************************)
(* LCodeGen::DoModI.  The power-of-two and fixed_right_arg paths share one*)
(* sequence: when left can be negative, the branch on left >= 0 has       *)
(* "subu result, zero, left" in its delay slot unless result is left, in  *)
(* which case the slot is protected and the subu runs on the fall-through *)
(* only.  A delay slot runs before the branch target, so an unprotected   *)
(* subu into left would be seen by the And at left_is_not_negative.       *)
(***************************************************************************)
\* Mutant: the branch always uses its delay slot.
ModBranchModeAlwaysDelaySlot(h) == "USE_DELAY_SLOT"

ModBranchMode(h) == IF h.aliased THEN "PROTECT" ELSE "USE_DELAY_SLOT"

\* divisor is Abs(constant) as an int32: Abs(kMinInt) is kMinInt and its
\* mask divisor - 1 wraps to kMaxInt.
ModByPowerOf2(l, divisor, h) ==
  LET mask == Subu(divisor, 1)
      leftInTarget == IF ModBranchMode(h) = "USE_DELAY_SLOT" /\ h.aliased
                        THEN Subu(0, l) ELSE l
      negated == AndLowBits(Subu(0, l), mask)
  IN CASE ~h.canBeNegative -> Result(AndLowBits(l, mask))
       [] l >= 0 -> Result(AndLowBits(leftInTarget, mask))
       [] h.bailoutOnMinusZero /\ negated = 0 -> Deopt
       [] OTHER -> Result(Subu(0, negated))

\* div issued first; HI read in the delay slot of the branch on left >= 0.
ModGeneral(l, r, h) ==
  {CASE h.canBeDivByZero /\ r = 0 -> Deopt
     [] h.minIntByMinusOne /\ l = kMinInt /\ r = -1 -> Deopt
     [] l >= 0 -> Result(d.hi)
     [] h.bailoutOnMinusZero /\ d.hi = 0 -> Deopt
     [] OTHER -> Result(d.hi) : d \in DivOutcomes(l, r)}

(***************************************************************************)
(* LCodeGen::DoDivI: div issued first, then the deoptimization checks for *)
(* x / 0, 0 / -x, kMinInt / -1 and, unless every use truncates, a non-zero*)
(* remainder; the result is LO.                                            *)
(***************************************************************************)
DivI(l, r, h) ==
  {CASE h.canBeDivByZero /\ r = 0 -> Deopt
     [] h.bailoutOnMinusZero /\ l = 0 /\ r < 0 -> Deopt
     [] h.canOverflow /\ l = kMinInt /\ r = -1 -> Deopt
     [] ~h.truncating /\ d.hi # 0 -> Deopt
     [] OTHER -> Result(d.lo) : d \in DivOutcomes(l, r)}


(***************************************************************************)
(* LCodeGen::EmitSignedIntegerDivisionByConstant: quotient and remainder  *)
(* of dividend / divisor, or a deoptimization.  stale is what scratch     *)
(* holds on entry: for |divisor| = 2 the code shifts scratch right by    *)
(* WordBits - 1 without having written it.                                *)
(***************************************************************************)
DivisionByConstant(l, divisor, stale) ==
  LET abs == UnsignedAbs(divisor)
      Neg(x) == IF divisor < 0 THEN Subu(0, x) ELSE x
      Quot(q, rem) == [deopt |-> FALSE, result |-> 0, q |-> q, rem |-> rem]
      power == WhichPowerOf2(abs)
      scratch == IF power > 1 THEN sra(l, power - 1) ELSE stale
      q2 == Neg(sra(Addu(l, srl(scratch, WordBits - power)), power))
      ctz == CountTrailingZeros(abs)
      magic == DivMagicNumberFor(abs \div 2^ctz)
      hi == MultHi(l, magic.M)
      hi2 == IF magic.M < 0 THEN Addu(hi, l) ELSE hi
      shifted == IF magic.s + ctz > 0 THEN sra(hi2, magic.s + ctz) ELSE hi2
      qm == Neg(Addu(shifted, srl(l, WordBits - 1)))
  IN CASE abs = 0 -> Deopt
       [] abs = 1 /\ divisor > 0 -> Quot(l, 0)
       [] abs = 1 -> IF SubuAndCheckForOverflow(0, l).overflow THEN Deopt
                     ELSE Quot(SubuAndCheckForOverflow(0, l).result, 0)
       [] IsPowerOf2(abs) ->
            Quot(q2, IF divisor > 0 THEN Subu(l, sll(q2, power))
                     ELSE Addu(l, sll(q2, power)))
       [] HasMagicNumberForDivisor(divisor) -> Quot(qm, Subu(l, Mul(qm, divisor)))
       [] OTHER -> Quot(Wrap(TruncDiv(l, divisor)), Wrap(TruncRem(l, divisor)))

(***************************************************************************)
(* LCodeGen::DoMathFloorOfDiv.  Both paths divide truncating and correct  *)
(* the quotient by one when the remainder is non-zero and its sign        *)
(* differs from the divisor's (Xor(remainder, divisor) < 0).              *)
(***************************************************************************)
FloorCorrection(q, rem, divisor) ==
  IF rem # 0 /\ ~XorNonNegative(rem, divisor) THEN Subu(q, 1) ELSE q

MathFloorOfDivConstant(l, divisor, stale) ==
  LET e == DivisionByConstant(l, divisor, stale)
  IN IF (divisor < 0 /\ l = 0) \/ e.deopt THEN Deopt
     ELSE [e EXCEPT !.result = FloorCorrection(e.q, e.rem, divisor)]

MathFloorOfDivRegister(l, r, h) ==
  {CASE r = 0 -> Deopt
     [] h.bailoutOnMinusZero /\ l = 0 /\ r < 0 -> Deopt
     [] h.canOverflow /\ l = kMinInt /\ r = -1 -> Deopt
     [] OTHER -> Result(FloorCorrection(d.lo, d.hi, r)) : d \in DivOutcomes(l, r)}

(***************************************************************************)
(* LCodeGen::DoMulI.  A constant right operand is multiplied by shifts    *)
(* and adds; only -1 checks for overflow, as the chunk builder keeps other*)
(* constants in a register when the product can overflow.  A register    *)
(* operand is multiplied with mult, and the product overflows when HI is  *)
(* not the sign extension of LO.  A Smi left operand is untagged first.   *)
(***************************************************************************)
\* Mutant: overflow whenever HI is non-zero.
MultOverflowsHiNonZero(hi, lo) == hi # 0

MultOverflows(hi, lo) == hi # sra(lo, WordBits - 1)

MulByConstant(l, c, h) ==
  LET abs == UnsignedAbs(c)
      Neg(x) == IF c < 0 THEN Subu(0, x) ELSE x
  IN CASE h.bailoutOnMinusZero /\ c < 0 /\ l = 0 -> Deopt
       [] c = -1 /\ h.canOverflow ->
            IF SubuAndCheckForOverflow(0, l).overflow THEN Deopt
            ELSE Result(SubuAndCheckForOverflow(0, l).result)
       [] c = -1 -> Result(Subu(0, l))
       [] c = 0 /\ h.bailoutOnMinusZero /\ l < 0 -> Deopt
       [] c = 0 -> Result(0)
       [] c = 1 -> Result(l)
       [] IsPowerOf2(abs) -> Result(Neg(sll(l, WhichPowerOf2(abs))))
       [] IsPowerOf2(abs - 1) -> Result(Neg(Addu(sll(l, WhichPowerOf2(abs - 1)), l)))
       [] IsPowerOf2(abs + 1) -> Result(Neg(Subu(sll(l, WhichPowerOf2(abs + 1)), l)))
       [] OTHER -> Result(Mul(l, c))

MulByRegister(l, r, h) ==
  LET x == IF h.isSmi THEN SmiUntag(l) ELSE l
  IN CASE h.canOverflow /\ MultOverflows(MultHi(x, r), Mul(x, r)) -> Deopt
       [] h.bailoutOnMinusZero /\ ~XorNonNegative(l, r) /\ Mul(x, r) = 0 -> Deopt
       [] OTHER -> Result(Mul(x, r))

(***************************************************************************)
(* LCodeGen::DoAddI and DoSubI: Addu / Subu, or the overflow-checking     *)
(* macro and a deoptimization when its overflow register is negative.    *)
(* Where the right operand lives (register, stack slot, constant) only    *)
(* changes how it is loaded.                                              *)
(***************************************************************************)
AddI(l, r, h) ==
  IF ~h.canOverflow THEN Result(Addu(l, r))
  ELSE IF AdduAndCheckForOverflow(l, r).overflow THEN Deopt
  ELSE Result(AdduAndCheckForOverflow(l, r).result)

SubI(l, r, h) ==
  IF ~h.canOverflow THEN Result(Subu(l, r))
  ELSE IF SubuAndCheckForOverflow(l, r).overflow THEN Deopt
  ELSE Result(SubuAndCheckForOverflow(l, r).result)

(***************************************************************************)
(* LCodeGen::DoShiftI.  Variable shifts use the low bits of the register  *)
(* (the hardware masks them); a constant count is masked with 0x1F.  SHR *)
(* deoptimizes, where the instruction can_deopt, when its result would    *)
(* not be an int32; a Smi SHL shifts by one less and tags with an         *)
(* overflow check.                                                        *)
(***************************************************************************)
ShiftCount(v) == Unsigned(v) % WordBits

\* Mutant: SHR by a constant 0 moves left without the sign check.
ShrByZeroWithoutDeopt(l, h) == Result(l)

ShrByZero(l, h) == IF h.canDeopt /\ l < 0 THEN Deopt ELSE Result(l)

ShiftByRegister(op, l, r, h) ==
  LET c == ShiftCount(r)
  IN CASE op = "ROR" -> Result(Ror(l, c))
       [] op = "SAR" -> Result(sra(l, c))
       [] op = "SHR" -> IF h.canDeopt /\ srl(l, c) < 0 THEN Deopt ELSE Result(srl(l, c))
       [] op = "SHL" -> Result(sll(l, c))

ShiftByConstant(op, l, value, h) ==
  LET c == ShiftCount(value)
      tagged == SmiTagCheckOverflow(IF c # 1 THEN sll(l, c - 1) ELSE l)
  IN CASE c = 0 /\ op = "SHR" -> ShrByZero(l, h)
       [] c = 0 -> Result(l)
       [] op = "ROR" -> Result(Ror(l, c))
       [] op = "SAR" -> Result(sra(l, c))
       [] op = "SHR" -> Result(srl(l, c))
       [] op = "SHL" /\ h.isSmi /\ h.canDeopt ->
            IF tagged.overflow THEN Deopt ELSE Result(tagged.result)
       [] op = "SHL" -> Result(sll(l, c))

(***************************************************************************)
(* LCodeGen::DoBitI: And, Or or Xor of the operands as held (a Smi        *)
(* operand and a Smi constant are tagged); an Xor with the immediate ~0   *)
(* is emitted as Nor(result, zero_reg, left).                             *)
(***************************************************************************)
BitOps == {"BIT_AND", "BIT_OR", "BIT_XOR"}
Nor(a, b) == Wrap((2 * Half - 1) - (Unsigned(a) | Unsigned(b)))

\* Mutant: the ~0 test made on the constant's value instead of the
\* immediate, so a Smi -1 (immediate ~1) takes the Nor path.
BitIAllOnesOnValue(op, l, imm, isConstant, h) ==
  CASE op = "BIT_AND" -> Result(Wrap(Unsigned(l) & Unsigned(imm)))
    [] op = "BIT_OR" -> Result(Wrap(Unsigned(l) | Unsigned(imm)))
    [] isConstant /\ (IF h.isSmi THEN SmiUntag(imm) ELSE imm) = -1 -> Result(Nor(0, l))
    [] OTHER -> Result(Wrap(Unsigned(l) ^^ Unsigned(imm)))

BitI(op, l, imm, isConstant, h) ==
  CASE op = "BIT_AND" -> Result(Wrap(Unsigned(l) & Unsigned(imm)))
    [] op = "BIT_OR" -> Result(Wrap(Unsigned(l) | Unsigned(imm)))
    [] isConstant /\ imm = -1 -> Result(Nor(0, l))
    [] OTHER -> Result(Wrap(Unsigned(l) ^^ Unsigned(imm)))

(***************************************************************************)
(* LCodeGen::DoBoundsCheck and ApplyCheckIf: nothing when the check was  *)
(* eliminated; otherwise DeoptimizeIf(hi or hs) -- unsigned -- on the     *)
(* index (a constant one loaded Smi-tagged when the length is a Smi) and *)
(* the length.  ApplyCheckIf's debug_code branch needs skip_check, which *)
(* DoBoundsCheck has already returned on.                                 *)
(***************************************************************************)
\* Mutant: the conditions gt / ge, comparing signed.
CheckFailsSigned(cond, a, b) == IF cond = "hi" THEN a > b ELSE a >= b

CheckFails(cond, a, b) ==
  IF cond = "hi" THEN Unsigned(a) > Unsigned(b) ELSE Unsigned(a) >= Unsigned(b)

ApplyCheckIf(cond, src1, src2) == IF CheckFails(cond, src1, src2) THEN Deopt ELSE Result(0)

BoundsCheck(index, length, isConstant, h) ==
  LET cond == IF h.allowEquality THEN "hi" ELSE "hs"
      src1 == IF isConstant /\ h.isSmi THEN Wrap(2 * index) ELSE index  \* Smi::FromInt
  IN IF h.skipCheck THEN Result(0) ELSE ApplyCheckIf(cond, src1, length)


JSShift(op, l, c) ==
  CASE op = "SHL" -> IntNum(sll(l, c))
    [] op = "SAR" -> IntNum(sra(l, c))
    [] op = "SHR" -> IntNum(Unsigned(l) \div 2^c)
    [] op = "ROR" -> IntNum(IF c = 0 THEN l ELSE Wrap(Unsigned(l) \div 2^c + l * 2^(WordBits - c)))

\* ECMAScript 11.10: the int32 whose two's-complement bits are the bits of
\* the operands combined one by one.
BitOf(x, i) == (Unsigned(x) \div 2^i) % 2
CombineBits(op, a, b) ==
  CASE op = "BIT_AND" -> a * b [] op = "BIT_OR" -> a + b - a * b [] OTHER -> (a + b) % 2
RECURSIVE BitsFrom(_, _, _, _)
BitsFrom(op, l, r, i) ==
  IF i = WordBits THEN 0
  ELSE 2^i * CombineBits(op, BitOf(l, i), BitOf(r, i)) + BitsFrom(op, l, r, i + 1)
JSBitwise(op, l, r) == Wrap(BitsFrom(op, l, r, 0))

\* The JavaScript value of an operation on the untagged operands.
Reference(op, l, r) ==
  CASE op = "ModI" -> JSModulus(l, r)
    [] op = "DivI" -> JSDivide(l, r)
    [] op = "MathFloorOfDiv" -> JSFloorOfDivide(l, r)
    [] op = "MulI" -> JSMultiply(l, r)
    [] op = "AddI" -> IntNum(l + r)
    [] op = "SubI" -> IntNum(l - r)
    [] op \in BitOps -> IntNum(JSBitwise(op, l, r))
    [] OTHER -> JSShift(op, l, ShiftCount(r))

-----------------------------------------------------------------------------
(***************************************************************************)
(* One instruction at a time: last is the most recent instruction run,    *)
(* its operands, the compiler's facts about it, and its outcome.          *)
(***************************************************************************)
CONSTANT ShiftConstants  \* constant right operands of ShiftI
VARIABLE last

ShiftOps == {"ROR", "SAR", "SHR", "SHL"}
Ops == {"ModI", "DivI", "MathFloorOfDiv", "MulI", "AddI", "SubI", "BoundsCheck"}
         \cup ShiftOps \cup BitOps
ConstantDivisors == {d \in Words : HasMagicNumberForDivisor(d)}
Shapes == {"pow2", "fixed", "general", "register", "constant"}

\* A Smi operand is held tagged.
Tag(v, h) == IF h.isSmi THEN 2 * v ELSE v
\* Range analysis cleared kCanOverflow only where the result fits, or every
\* use truncates.
FitsUnless(x, h) == h.canOverflow \/ h.truncating
                    \/ (IF h.isSmi THEN IsSmiValue(x) ELSE x \in Words)
SmiOperands(l, r, h) == h.isSmi => IsSmiValue(l) /\ IsSmiValue(r)
NotMinIntByMinusOne(l, r) == ~(l = kMinInt /\ r = -1)

Step(op, shape, l, r, h, o) ==
  last' = [op |-> op, shape |-> shape, left |-> l, right |-> r, facts |-> h,
           deopt |-> o.deopt, result |-> o.result, q |-> o.q, rem |-> o.rem]

NoInstruction == [op |-> "none", shape |-> "register", left |-> 0, right |-> 0,
                  facts |-> [f \in AllFacts |-> FALSE],
                  deopt |-> FALSE, result |-> 0, q |-> 0, rem |-> 0]

Init == last = NoInstruction

\* The code generator moves on to the next instruction of the chunk.
NextInstruction == last.op # "none" /\ last' = NoInstruction

PowerOf2Constants == {c \in Words \ {0} : IsPowerOf2(UnsignedAbs(c))}
AbsInt32(c) == IF c = kMinInt THEN kMinInt ELSE AbsOf(c)

DoModI ==
  \E l \in RegisterInputs :
    \/ \E c \in PowerOf2Constants, h \in FactsOver({"canBeNegative", "bailoutOnMinusZero", "aliased"}) :
         /\ h.canBeNegative \/ l >= 0
         /\ Step("ModI", "pow2", l, c, h, ModByPowerOf2(l, AbsInt32(c), h))
    \/ \E d \in FixedRightArgs, r \in RegisterInputs,
          h \in FactsOver({"canBeNegative", "bailoutOnMinusZero", "aliased"}) :
         /\ h.canBeNegative \/ l >= 0
         /\ Step("ModI", "fixed", l, r, h, IF r # d THEN Deopt ELSE ModByPowerOf2(l, d, h))
    \/ \E r \in RegisterInputs, h \in FactsOver({"canBeDivByZero", "minIntByMinusOne", "bailoutOnMinusZero"}) :
         /\ h.canBeDivByZero \/ r # 0
         /\ h.minIntByMinusOne \/ NotMinIntByMinusOne(l, r)
         /\ \E o \in ModGeneral(l, r, h) : Step("ModI", "general", l, r, h, o)

DoDivI ==
  \E l, r \in RegisterInputs,
     h \in FactsOver({"canBeDivByZero", "bailoutOnMinusZero", "canOverflow", "truncating"}) :
    /\ h.canBeDivByZero \/ r # 0
    /\ h.canOverflow \/ h.truncating \/ NotMinIntByMinusOne(l, r)
    /\ \E o \in DivI(l, r, h) : Step("DivI", "register", l, r, h, o)

DoMathFloorOfDiv ==
  \/ \E l, r \in RegisterInputs, h \in FactsOver({"bailoutOnMinusZero", "canOverflow"}) :
       /\ h.canOverflow \/ NotMinIntByMinusOne(l, r)
       /\ \E o \in MathFloorOfDivRegister(l, r, h) : Step("MathFloorOfDiv", "register", l, r, h, o)
  \/ \E l \in Words, d \in ConstantDivisors, stale \in Unpredictable :
       Step("MathFloorOfDiv", "constant", l, d, [f \in AllFacts |-> FALSE],
            MathFloorOfDivConstant(l, d, stale))

DoMulI ==
  \E l \in RegisterInputs, h \in FactsOver({"bailoutOnMinusZero", "canOverflow", "truncating", "isSmi"}) :
    \/ \E c \in ConstantFactors :
         /\ h.canOverflow => c \in -1..1
         /\ SmiOperands(l, c, h) /\ FitsUnless(l * c, h)
         /\ Step("MulI", "constant", l, c, h, MulByConstant(Tag(l, h), c, h))
    \/ \E r \in RegisterInputs :
         /\ SmiOperands(l, r, h) /\ FitsUnless(l * r, h)
         /\ Step("MulI", "register", l, r, h, MulByRegister(Tag(l, h), Tag(r, h), h))

DoAddI ==
  \E l, r \in RegisterInputs, h \in FactsOver({"canOverflow", "truncating", "isSmi"}) :
    /\ SmiOperands(l, r, h) /\ FitsUnless(l + r, h)
    /\ Step("AddI", "register", l, r, h, AddI(Tag(l, h), Tag(r, h), h))

DoSubI ==
  \E l, r \in RegisterInputs, h \in FactsOver({"canOverflow", "truncating", "isSmi"}) :
    /\ SmiOperands(l, r, h) /\ FitsUnless(l - r, h)
    /\ Step("SubI", "register", l, r, h, SubI(Tag(l, h), Tag(r, h), h))

\* What LChunkBuilder::DoShift decides: kUint32 only on SHR, Smi only for
\* SHL by a constant, and can_deopt where SHR by 0 or a Smi SHL could
\* produce a value its uses cannot take.
ShiftFactsSound(op, l, c, isRegister, h) ==
  /\ h.uint32 => op = "SHR"
  /\ h.isSmi => op = "SHL" /\ ~isRegister /\ IsSmiValue(l)
  /\ h.canDeopt => op = "SHR" \/ (op = "SHL" /\ h.isSmi)
  /\ op = "SHR" /\ (isRegister \/ c = 0) /\ ~h.canDeopt => h.uint32 \/ h.truncating
  /\ op = "SHL" /\ h.isSmi /\ c > 0 /\ ~h.canDeopt => h.truncating

DoShiftI ==
  \E op \in ShiftOps, l \in RegisterInputs,
     h \in FactsOver({"canDeopt", "uint32", "truncating", "isSmi"}) :
    \/ \E r \in RegisterInputs :
         /\ ShiftFactsSound(op, l, ShiftCount(r), TRUE, h)
         /\ Step(op, "register", l, r, h, ShiftByRegister(op, l, r, h))
    \/ \E v \in ShiftConstants :
         /\ ShiftFactsSound(op, l, ShiftCount(v), FALSE, h)
         /\ Step(op, "constant", l, v, h, ShiftByConstant(op, Tag(l, h), v, h))

\* HBitwise::op(); the operands share the instruction's representation.
DoBitI ==
  \E op \in BitOps, l \in RegisterInputs, h \in FactsOver({"isSmi"}) :
    \/ \E r \in RegisterInputs :
         /\ SmiOperands(l, r, h)
         /\ Step(op, "register", l, r, h, BitI(op, Tag(l, h), Tag(r, h), FALSE, h))
    \/ \E c \in ConstantFactors :
         /\ SmiOperands(l, c, h)
         /\ Step(op, "constant", l, c, h, BitI(op, Tag(l, h), Tag(c, h), TRUE, h))

\* Index and length share a representation; a length is never negative,
\* and bounds-check elimination skips only a check it proved passes.
InBounds(i, n, allowEquality) == 0 <= i /\ (i < n \/ (allowEquality /\ i = n))
DoBoundsCheck ==
  \E n \in {x \in RegisterInputs : x >= 0},
     h \in FactsOver({"skipCheck", "allowEquality", "isSmi"}) :
    \/ \E i \in RegisterInputs :
         /\ SmiOperands(i, n, h)
         /\ h.skipCheck => InBounds(i, n, h.allowEquality)
         /\ Step("BoundsCheck", "register", i, n, h, BoundsCheck(Tag(i, h), Tag(n, h), FALSE, h))
    \/ \E c \in ConstantFactors :
         /\ SmiOperands(c, n, h)
         /\ h.skipCheck => InBounds(c, n, h.allowEquality)
         /\ Step("BoundsCheck", "constant", c, n, h, BoundsCheck(c, Tag(n, h), TRUE, h))

Next ==
  \/ last.op = "none" /\ (DoModI \/ DoDivI \/ DoMathFloorOfDiv \/ DoMulI \/ DoAddI \/ DoSubI
                          \/ DoShiftI \/ DoBitI \/ DoBoundsCheck)
  \/ NextInstruction

Spec == Init /\ [][Next]_last

-----------------------------------------------------------------------------
\* Every register the handlers leave holds a word, and the facts are flags.
TypeOK ==
  last \in [op : Ops \cup {"none"}, shape : Shapes, left : Words, right : Words,
            facts : [AllFacts -> BOOLEAN], deopt : BOOLEAN,
            result : Words, q : Words, rem : Words]

\* An instruction that did not deoptimize left in its result register a
\* value its uses accept for the JavaScript result of its operands.
ResultSound(ops) ==
  last.op \in ops /\ ~last.deopt =>
    Acceptable(last.result, Reference(last.op, last.left, last.right), last.facts)

\* DoModI, DoDivI and DoMathFloorOfDiv, on every shape of divisor, either
\* deoptimize or produce the JavaScript %, / or Math.floor(/): the -0 and
\* kMinInt / -1 checks, the delay-slot subu of the power-of-two modulus and
\* the floor correction of a truncating division included.
DivisionSound ==
  ~(last.shape = "constant" /\ UnsignedAbs(last.right) = 2) =>
    ResultSound({"ModI", "DivI", "MathFloorOfDiv"})

\* DoMathFloorOfDiv by a constant divisor -2 or 2 either deoptimizes or
\* produces Math.floor(left / divisor), whatever scratch held before.
FloorOfDivByTwoSound ==
  last.shape = "constant" /\ UnsignedAbs(last.right) = 2 => ResultSound({"MathFloorOfDiv"})

\* DoMulI, by a constant (shifts and adds) or a register (mult and the HI
\* sign-extension check), Smi or int32, either deoptimizes or produces the
\* product its uses accept, -0 included.
MultiplicationSound == ResultSound({"MulI"})

\* DoAddI, DoSubI, DoBitI and DoShiftI either deoptimize or produce what
\* their uses accept: an SHR result read as uint32 only where the uses
\* allow it, a Smi SHL tagged only when the shifted int32 is a Smi, and the
\* bitwise operations of ECMAScript on int32 and Smi operands, DoBitI's Nor
\* for x ^ ~0 included.
AddSubBitShiftSound == ResultSound({"AddI", "SubI"} \cup ShiftOps \cup BitOps)

(***************************************************************************)
(* A bounds check deoptimizes exactly when the index is outside           *)
(* [0, length[ ([0, length] with allow_equality): DoBoundsCheck's unsigned *)
(* condition must reject negative indexes, and a constant index must be   *)
(* compared in the length's representation.                               *)
(***************************************************************************)
BoundsCheckSound ==
  last.op = "BoundsCheck" =>
    (last.deopt <=> ~InBounds(last.left, last.right, last.facts.allowEquality))

=============================================================================
