---------------------------- MODULE MathFunctions ----------------------------
(***************************************************************************)
(* The MIPS LCodeGen handlers of the Math functions inlined by Crankshaft  *)
(* whose result depends on -0, NaN and rounding: DoMathAbs (double, int32, *)
(* Smi and tagged input, the last with a deferred heap-number path that   *)
(* calls the runtime), DoMathFloor, DoMathRound and DoMathMinMax (integer *)
(* and double).  Doubles are exact rationals with -0, NaN and the         *)
(* infinities; on the inputs tried every double operation the handlers    *)
(* perform (x + 0.5, the sign flips of the zeros) is exact in IEEE too.   *)
(***************************************************************************)
EXTENDS TaggedWords

CONSTANTS
  IntInputs,        \* int32 register words tried
  TaggedInputs,     \* tagged register words tried
  DoubleInputs      \* doubles tried

ASSUME IntInputs \cup TaggedInputs \subseteq Words

-----------------------------------------------------------------------------
\* neg_d and abs_d flip or clear the sign bit, NaN included.
NegD(d) ==
  CASE d.k = "minus0" -> IntNum(0)
    [] IsZero(d) -> MinusZero
    [] d.k = "inf" -> NegInfinity
    [] d.k = "-inf" -> Infinity
    [] d.k = "nan" -> d
    [] OTHER -> Num(-d.n, d.d)
AbsD(d) == IF SignBit(d) THEN NegD(d) ELSE d

\* add_d of two zeros (round to nearest): -0 only when both are -0.
AddZeros(a, b) == IF a.k = "minus0" /\ b.k = "minus0" THEN MinusZero ELSE IntNum(0)
SubZeros(a, b) == AddZeros(a, NegD(b))

\* The double x + 0.5 of DoMathRound, x finite and non-zero.
PlusHalf(d) == Num(2 * d.n + d.d, 2 * d.d)

\* HeapNumber::kExponentBias tests of DoMathRound on |d|: below 0.5, and
\* at least 2^32 (2^WordBits here) or not finite.
AbsBelowHalf(d) == IsZero(d) \/ (d.k = "num" /\ 2 * AbsOf(d.n) < d.d)
AbsAtLeastWordRange(d) == ~IsFinite(d) \/ (d.k = "num" /\ AbsOf(d.n) >= 2 * Half * d.d)

\* The outcome of a handler: deopt, the int32 / tagged result register,
\* the double result register, and the double stored in a new heap number.
\* leftAfter is what the left operand's FPU register holds afterwards when it
\* is not the result register (DoMathMinMax), NoNumber for the others.
MathOut(dp, r, dr, st) ==
  [deopt |-> dp, result |-> r, dresult |-> dr, stored |-> st, leftAfter |-> NoNumber]
MathDeopt == MathOut(TRUE, 0, NoNumber, NoNumber)
IntResult(r) == MathOut(FALSE, r, NoNumber, NoNumber)
DoubleResult(d) == MathOut(FALSE, 0, d, NoNumber)

-----------------------------------------------------------------------------
(***************************************************************************)
(* LCodeGen::EmitIntegerMathAbs on an int32 or a Smi word: the delay-slot *)
(* move, the negation when negative, and the deopt when the negation is   *)
(* still negative (kMinInt, or the Smi -2^30).                            *)
(***************************************************************************)
\* Mutant: the negation done in a 64-bit register (dsubu), never negative.
EmitIntegerMathAbsWide(x) ==
  IF x >= 0 THEN IntResult(x)
  ELSE IF 0 - x < 0 THEN MathDeopt ELSE IntResult(0 - x)

EmitIntegerMathAbs(x) ==
  IF x >= 0 THEN IntResult(x)
  ELSE IF Subu(0, x) < 0 THEN MathDeopt ELSE IntResult(Subu(0, x))

\* Mutant: the exponent and mantissa read through the input register as it
\* was before the runtime call, without reloading it from its slot.
ValueAfterRuntimeCallNotReloaded(v, moved, garbage) == IF moved THEN garbage ELSE v

\* LoadFromSafepointRegisterSlot(input, input) after the runtime call: the
\* slot was updated by the GC, so the number is read from where it now is.
ValueAfterRuntimeCall(v, moved, garbage) == v

(***************************************************************************)
(* LCodeGen::DoDeferredMathAbsTaggedHeapNumber: deopt unless a heap       *)
(* number; a number without its sign bit is the result itself; otherwise  *)
(* a new heap number (inline, or Runtime::kAllocateHeapNumber, during     *)
(* which the GC may move the input -- moved -- leaving in the unreloaded  *)
(* register the address of garbage) gets the exponent word with the sign  *)
(* cleared and the mantissa word.                                         *)
(***************************************************************************)
DeferredMathAbsTaggedHeapNumber(w, h, moved, garbage) ==
  IF Heap[w].map # "heap_number" THEN MathDeopt
  ELSE IF ~SignBit(Heap[w].value) THEN IntResult(w)
  ELSE LET v == IF h.inlineNew /\ h.allocOk THEN Heap[w].value
                ELSE ValueAfterRuntimeCall(Heap[w].value, moved, garbage)
       IN MathOut(FALSE, NewHeapNumber, NoNumber, AbsD(v))

\* LCodeGen::DoMathAbs by the input's representation.
MathAbs(repr, w, d, h, moved, garbage) ==
  CASE repr = "double" -> DoubleResult(AbsD(d))
    [] repr \in {"int32", "smi"} \/ IsSmiWord(w) -> EmitIntegerMathAbs(w)
    [] OTHER -> DeferredMathAbsTaggedHeapNumber(w, h, moved, garbage)

\* The -0 test of DoMathFloor and DoMathRound: a zero result of a double
\* with its sign bit set deopts under kBailoutOnMinusZero.
MinusZeroResult(r, d, h) == h.bailoutOnMinusZero /\ r = 0 /\ SignBit(d)

\* LCodeGen::DoMathFloor: EmitFPUTruncate(kRoundToMinusInf) without the
\* inexact check.
MathFloor(d, h) ==
  LET f == EmitFPUTruncate("kRoundToMinusInf", d, FALSE)
  IN CASE f.except -> MathDeopt
       [] MinusZeroResult(f.result, d, h) -> MathDeopt
       [] OTHER -> IntResult(f.result)

\* Mutant: ]-0.5, +0.5[ rounded to 0 without the check_sign_on_zero branch.
RoundBelowHalfUnchecked(d, h) == IntResult(0)

\* DoMathRound on ]-0.5, +0.5[: 0, or check_sign_on_zero.
RoundBelowHalf(d, h) ==
  IF h.bailoutOnMinusZero /\ SignBit(d) THEN MathDeopt ELSE IntResult(0)

(***************************************************************************)
(* LCodeGen::DoMathRound: the exponent tests, then x + 0.5; if that       *)
(* changed the sign (x = -0.5) the result is -0 (deopt, or 0); otherwise  *)
(* EmitFPUTruncate(kRoundToMinusInf) of x + 0.5 and the -0 test.          *)
(***************************************************************************)
MathRound(d, h) ==
  CASE AbsBelowHalf(d) -> RoundBelowHalf(d, h)
    [] AbsAtLeastWordRange(d) -> MathDeopt
    [] SignBit(PlusHalf(d)) # SignBit(d) ->
         IF h.bailoutOnMinusZero THEN MathDeopt ELSE IntResult(0)
    [] OTHER ->
         LET f == EmitFPUTruncate("kRoundToMinusInf", PlusHalf(d), FALSE)
         IN CASE f.except -> MathDeopt
              [] MinusZeroResult(f.result, d, h) -> MathDeopt
              [] OTHER -> IntResult(f.result)

\* DoMathMinMax on int32 or Smi registers: left when left <= right (min) or
\* left >= right (max), right otherwise, whether or not result is left.
IntegerMinMax(op, l, r) ==
  IntResult(IF (op = "min" /\ l <= r) \/ (op = "max" /\ l >= r) THEN l ELSE r)

(***************************************************************************)
(* The FPU registers of a double LMathMinMax.  LChunkBuilder::DoMathMinMax *)
(* gives both operands UseRegisterAtStart and the result DefineAsRegister: *)
(* the two operands share a register when they are the same value, and  *)
(* the result may take an operand's register or another one.  Register 1 *)
(* is left_reg.                                                           *)
(***************************************************************************)
MinMaxAllocations(sameOperand) ==
  {[left |-> 1, right |-> r, result |-> s] :
     r \in IF sameOperand THEN {1} ELSE {2}, s \in {1, 2, 3}}

\* mov_d dst, src when they differ (return_left / return_right).
MoveD(f, dst, src) == [f EXCEPT ![dst] = f[src]]

\* Mutant: min of two zeros computed like max, as left + right.
MinMaxOfZerosAdded(op, f, reg) == [f EXCEPT ![reg.result] = AddZeros(f[reg.left], f[reg.right])]

\* check_zero on the register file f: min is neg_d left, left; sub_d result,
\* left, right; neg_d result, result; max is add_d result, left, right.
MinMaxOfZeros(op, f, reg) ==
  IF op = "min"
  THEN LET negLeft == [f EXCEPT ![reg.left] = NegD(f[reg.left])]
           diff == [negLeft EXCEPT ![reg.result] = SubZeros(negLeft[reg.left], negLeft[reg.right])]
       IN [diff EXCEPT ![reg.result] = NegD(diff[reg.result])]
  ELSE [f EXCEPT ![reg.result] = AddZeros(f[reg.left], f[reg.right])]

(***************************************************************************)
(* DoMathMinMax on doubles, run on the register file: BranchF to          *)
(* check_zero when equal and to check_nan_left when unordered; otherwise  *)
(* the condition picks left or right.  Equal non-zero operands give left; *)
(* equal zeros are combined; of unordered operands the NaN one is         *)
(* returned.                                                              *)
(***************************************************************************)
DoubleMinMax(op, a, b, reg) ==
  LET f == [r \in 1..3 |-> CASE r = reg.left -> a [] r = reg.right -> b [] OTHER -> NoNumber]
      l == f[reg.left]
      r == f[reg.right]
      after ==
        CASE IsNaN(l) \/ IsNaN(r) -> MoveD(f, reg.result, IF IsNaN(l) THEN reg.left ELSE reg.right)
          [] FEq(l, r) /\ IsZero(l) -> MinMaxOfZeros(op, f, reg)
          [] FEq(l, r) -> MoveD(f, reg.result, reg.left)
          [] (op = "min" /\ FLess(l, r)) \/ (op = "max" /\ FLess(r, l)) -> MoveD(f, reg.result, reg.left)
          [] OTHER -> MoveD(f, reg.result, reg.right)
  IN [DoubleResult(after[reg.result]) EXCEPT
        !.leftAfter = IF reg.left = reg.result THEN NoNumber ELSE after[reg.left]]

(***************************************************************************)
(* sqrt_d on the FPU: NaN for NaN and anything below zero (-inf too), the *)
(* zeros and +inf themselves, and the root of a positive number.  Only    *)
(* numbers whose root is exact are tried (RootInputs), so the root needs  *)
(* no rounding.                                                           *)
(***************************************************************************)
HasExactRoot(x) == \E r \in 0..x : r * r = x
SqrtD(d) ==
  CASE IsNaN(d) \/ d.k = "-inf" \/ (d.k = "num" /\ d.n < 0) -> NaN
    [] d.k \in {"inf", "minus0"} -> d
    [] OTHER -> Num(CHOOSE r \in 0..(d.n * d.d) : r * r = d.n * d.d, d.d)

\* LCodeGen::DoMathSqrt: sqrt_d result, input.
MathSqrt(d) == DoubleResult(SqrtD(d))

\* add_d result, input, kDoubleRegZero: -0 + +0 is +0, anything else stays.
AddPlusZero(d) == IF IsZero(d) THEN AddZeros(d, IntNum(0)) ELSE d

\* Mutant: the add_d of +0 left out, so -0 reaches sqrt_d.
MathPowHalfWithoutZeroAdd(d) ==
  DoubleResult(IF FEq(NegInfinity, d) THEN NegD(NegInfinity) ELSE SqrtD(d))

(***************************************************************************)
(* LCodeGen::DoMathPowHalf: temp is -inf; BranchF(USE_DELAY_SLOT) to done *)
(* when input equals it, the delay slot's neg_d(result, temp) leaving     *)
(* +inf in result on that path; otherwise result is overwritten by        *)
(* sqrt_d(input + 0).                                                     *)
(***************************************************************************)
MathPowHalf(d) ==
  DoubleResult(IF FEq(NegInfinity, d) THEN NegD(NegInfinity) ELSE SqrtD(AddPlusZero(d)))

-----------------------------------------------------------------------------
VARIABLE last   \* the last Math instruction emitted and what running it left

MathOps == {"MathAbs", "MathFloor", "MathRound", "MathMinMax", "MathSqrt", "MathPowHalf"}
Representations == {"double", "int32", "smi", "tagged"}

NoMath == [op |-> "none", kind |-> "none", repr |-> "double", left |-> 0, right |-> 0,
           dleft |-> NoNumber, dright |-> NoNumber,
           facts |-> [f \in ConversionFacts |-> FALSE],
           deopt |-> FALSE, result |-> 0, dresult |-> NoNumber, stored |-> NoNumber,
           sameOperand |-> FALSE, leftAfter |-> NoNumber]

Init == last = NoMath

\* The code generator moves on to the next instruction of the chunk.
NextInstruction == last.op # "none" /\ last' = NoMath

EmitMathOn(op, kind, repr, l, r, dl, dr, h, same, o) ==
  last' = [op |-> op, kind |-> kind, repr |-> repr, left |-> l, right |-> r,
           dleft |-> dl, dright |-> dr, facts |-> h, deopt |-> o.deopt,
           result |-> o.result, dresult |-> o.dresult, stored |-> o.stored,
           sameOperand |-> same, leftAfter |-> o.leftAfter]

EmitMath(op, kind, repr, l, r, dl, dr, h, o) == EmitMathOn(op, kind, repr, l, r, dl, dr, h, FALSE, o)

\* The facts of a Smi-represented value: its result is a Smi too.
SmiFacts(repr, h) == [h EXCEPT !.isSmi = (repr = "smi")]
SmiInputs == {w \in TaggedInputs : IsSmiWord(w)}
IntegerInputs(repr) == IF repr = "smi" THEN SmiInputs ELSE IntInputs

DoMathAbs ==
  \/ \E d \in DoubleInputs, h \in ConversionFactsOver({}) :
       EmitMath("MathAbs", "none", "double", 0, 0, d, NoNumber, h,
                MathAbs("double", 0, d, h, FALSE, d))
  \/ \E repr \in {"int32", "smi"}, h0 \in ConversionFactsOver({}) :
       \E x \in IntegerInputs(repr) :
         EmitMath("MathAbs", "none", repr, x, 0, NoNumber, NoNumber, SmiFacts(repr, h0),
                  MathAbs(repr, x, NoNumber, h0, FALSE, NoNumber))
  \/ \E w \in TaggedInputs, h \in ConversionFactsOver({"inlineNew", "allocOk"}),
        moved \in BOOLEAN, garbage \in DoubleInputs :
       EmitMath("MathAbs", "none", "tagged", w, 0, NoNumber, NoNumber, h,
                MathAbs("tagged", w, NoNumber, h, moved, garbage))

DoMathFloor ==
  \E d \in DoubleInputs, h \in ConversionFactsOver({"bailoutOnMinusZero"}) :
    EmitMath("MathFloor", "none", "double", 0, 0, d, NoNumber, h, MathFloor(d, h))

DoMathRound ==
  \E d \in DoubleInputs, h \in ConversionFactsOver({"bailoutOnMinusZero"}) :
    EmitMath("MathRound", "none", "double", 0, 0, d, NoNumber, h, MathRound(d, h))

\* HMathMinMax::operation: kMathMin or kMathMax.
DoMathMinMax ==
  \E op \in {"min", "max"} :
    \/ \E repr \in {"int32", "smi"}, h0 \in ConversionFactsOver({}) :
         \E l, r \in IntegerInputs(repr) :
           EmitMath("MathMinMax", op, repr, l, r, NoNumber, NoNumber, SmiFacts(repr, h0),
                    IntegerMinMax(op, l, r))
    \/ \E a, b \in DoubleInputs, same \in BOOLEAN, h \in ConversionFactsOver({}) :
         /\ same => a = b
         /\ \E reg \in MinMaxAllocations(same) :
              EmitMathOn("MathMinMax", op, "double", 0, 0, a, b, h, same,
                         DoubleMinMax(op, a, b, reg))

RootInputs == {d \in DoubleInputs : d.k = "num" /\ d.n > 0 => HasExactRoot(d.n * d.d)}

DoMathSqrt ==
  \E d \in RootInputs, h \in ConversionFactsOver({}) :
    EmitMath("MathSqrt", "none", "double", 0, 0, d, NoNumber, h, MathSqrt(d))

DoMathPowHalf ==
  \E d \in RootInputs, h \in ConversionFactsOver({}) :
    EmitMath("MathPowHalf", "none", "double", 0, 0, d, NoNumber, h, MathPowHalf(d))

Next ==
  \/ last.op = "none" /\ (DoMathAbs \/ DoMathFloor \/ DoMathRound \/ DoMathMinMax
                          \/ DoMathSqrt \/ DoMathPowHalf)
  \/ NextInstruction

Spec == Init /\ [][Next]_last

-----------------------------------------------------------------------------
\* The ECMAScript results (15.8.2.1, .9, .11, .12, .15), by cases on the
\* exact value, independent of the instruction sequences above.
SameDouble(x, y) == IF x.k = "num" /\ y.k = "num" THEN x.n * y.d = y.n * x.d ELSE x.k = y.k

JSAbs(v) ==
  CASE v.k = "minus0" -> IntNum(0)
    [] v.k = "-inf" -> Infinity
    [] v.k = "num" -> Num(AbsOf(v.n), v.d)
    [] OTHER -> v

JSFloor(v) == IF v.k = "num" THEN IntNum(v.n \div v.d) ELSE v

JSRound(v) ==
  CASE v.k # "num" -> v
    [] v.n < 0 /\ -v.d <= 2 * v.n -> MinusZero
    [] OTHER -> IntNum((2 * v.n + v.d) \div (2 * v.d))

\* Math.min / Math.max of two numbers: NaN wins, -0 is below +0.
JSMinMax(op, a, b) ==
  LET below(x, y) == FLess(x, y) \/ (x.k = "minus0" /\ IsZero(y) /\ y.k # "minus0")
  IN CASE IsNaN(a) \/ IsNaN(b) -> NaN
       [] op = "min" -> IF below(b, a) THEN b ELSE a
       [] OTHER -> IF below(a, b) THEN b ELSE a

NumberValues ==
  {IntNum(n) : n \in kMinInt .. (2 * Half)} \cup DoubleInputs
    \cup {JSAbs(d) : d \in DoubleInputs} \cup {SqrtD(d) : d \in RootInputs}
    \cup {Infinity, NoNumber}

\* The registers the Math handlers leave hold words and doubles.
TypeOK ==
  last \in [op : MathOps \cup {"none"}, kind : {"none", "min", "max"},
            repr : Representations, left : Words, right : Words,
            dleft : NumberValues, dright : NumberValues,
            facts : [ConversionFacts -> BOOLEAN], deopt : BOOLEAN,
            result : Words, dresult : NumberValues, stored : NumberValues,
            sameOperand : BOOLEAN, leftAfter : NumberValues]

(***************************************************************************)
(* Math.abs that does not deoptimize gives |x| in the input's             *)
(* representation: abs_d of a double (+0 for -0), the int32 or Smi        *)
(* absolute value (kMinInt and the least Smi deoptimize), and for a       *)
(* tagged input the Smi, the input heap number itself, or a new heap      *)
(* number holding |x| -- also when the deferred code's runtime call let   *)
(* the GC move the input.                                                 *)
(***************************************************************************)
MathAbsSound ==
  last.op = "MathAbs" /\ ~last.deopt =>
    CASE last.repr = "double" -> SameDouble(last.dresult, JSAbs(last.dleft))
      [] last.repr = "int32" -> Acceptable(last.result, JSAbs(IntNum(last.left)), last.facts)
      [] last.repr = "smi" ->
           Acceptable(last.result, JSAbs(IntNum(SmiUntag(last.left))), last.facts)
      [] OTHER -> IsNumberWord(last.left) /\
                  SameDouble(Denotes(last.result, last.stored),
                             JSAbs(Denotes(last.left, NoNumber)))

(***************************************************************************)
(* Math.floor and Math.round that do not deoptimize leave the int32 of    *)
(* the ECMAScript result; where that is -0 (floor(-0), round(x) for x in  *)
(* [-0.5, -0]) they deoptimize under kBailoutOnMinusZero.  This rests on  *)
(* DoMathRound's exponent tests, its sign comparison of x and x + 0.5 and *)
(* its two -0 branches.                                                   *)
(***************************************************************************)
MathRoundingSound ==
  last.op \in {"MathFloor", "MathRound"} /\ ~last.deopt =>
    Acceptable(last.result,
               IF last.op = "MathFloor" THEN JSFloor(last.dleft) ELSE JSRound(last.dleft),
               last.facts)

(***************************************************************************)
(* Math.min and Math.max give the ECMAScript result: on doubles NaN when  *)
(* either operand is NaN and the right zero of +0 and -0 (DoMathMinMax's  *)
(* check_zero arithmetic), whichever registers the operands and the      *)
(* result get; on int32 and Smi registers the lesser or greater word.     *)
(* Math.min(x, x), whose operands share a register, is excepted: see      *)
(* MinMaxRegistersSound.                                                  *)
(***************************************************************************)
MathMinMaxSound ==
  last.op = "MathMinMax" =>
    CASE last.repr = "double" ->
           \/ last.sameOperand
           \/ SameDouble(last.dresult, JSMinMax(last.kind, last.dleft, last.dright))
      [] last.repr = "int32" ->
           IntNum(last.result) = JSMinMax(last.kind, IntNum(last.left), IntNum(last.right))
      [] OTHER ->
           IntNum(SmiUntag(last.result))
             = JSMinMax(last.kind, IntNum(SmiUntag(last.left)), IntNum(SmiUntag(last.right)))

(***************************************************************************)
(* The register contract of a Lithium instruction: the result register    *)
(* gets Math.min / Math.max of the operands, whatever registers the       *)
(* allocator gave them, and an operand register that is not the result   *)
(* register still holds its value afterwards (the value may be live after *)
(* the instruction).  DoMathMinMax's check_zero path negates left_reg in  *)
(* place.                                                                 *)
(***************************************************************************)
MinMaxRegistersSound ==
  last.op = "MathMinMax" /\ last.repr = "double" =>
    /\ SameDouble(last.dresult, JSMinMax(last.kind, last.dleft, last.dright))
    /\ last.leftAfter # NoNumber => SameDouble(last.leftAfter, last.dleft)

\* The ECMAScript square root (15.8.2.17) as a relation between a result
\* r and its argument v: NaN below zero, the zeros and +inf themselves,
\* otherwise the non-negative r with r * r = v.
IsSqrtOf(r, v) ==
  CASE IsNaN(v) \/ FLess(v, IntNum(0)) -> IsNaN(r)
    [] v.k \in {"inf", "minus0"} -> r.k = v.k
    [] OTHER -> r.k = "num" /\ r.n >= 0 /\ r.n * r.n * v.d = v.n * r.d * r.d

(***************************************************************************)
(* Math.sqrt(x) is the ECMAScript square root, and Math.pow(x, 0.5) --    *)
(* which Crankshaft turns into LMathPowHalf -- differs from it exactly    *)
(* where 15.8.2.13 says: pow(-inf, 0.5) is +inf and pow(-0, 0.5) is +0.   *)
(* DoMathPowHalf gets them from the delay slot of its -inf branch and its *)
(* add of +0.                                                             *)
(***************************************************************************)
MathSqrtSound ==
  /\ last.op = "MathSqrt" => IsSqrtOf(last.dresult, last.dleft)
  /\ last.op = "MathPowHalf" =>
       IF last.dleft.k = "-inf" THEN last.dresult = Infinity
       ELSE IsSqrtOf(last.dresult, AsRational(last.dleft))
====
