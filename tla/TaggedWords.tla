------------------------------ MODULE TaggedWords ------------------------------
(***************************************************************************)
(* Tagged register words and the heap they point into, shared by the MIPS *)
(* LCodeGen handlers that tag, box, unbox and test JavaScript values.     *)
(*                                                                         *)
(* A tagged word is a register word: even words are Smis (value << 1),    *)
(* odd words point to heap objects (kHeapObjectTag == 1).  The heap is a  *)
(* constant function from pointer words to objects; each object has a map *)
(* (heap number, oddball, string, ...) and the number ToNumber gives for  *)
(* it.  The one object a handler allocates lives at NewHeapNumber, and    *)
(* the double it stores there is recorded in the handler's outcome.       *)
(***************************************************************************)
EXTENDS Int32Words

CONSTANTS
  Heap,             \* pointer word -> [map, value]
  UndefinedValue,   \* Heap::kUndefinedValueRootIndex
  TrueValue,        \* Heap::kTrueValueRootIndex
  FalseValue,       \* Heap::kFalseValueRootIndex
  NanValue,         \* Heap::kNanValueRootIndex
  NewHeapNumber     \* the tagged address AllocateHeapNumber / the runtime return

ASSUME /\ NewHeapNumber \in Words /\ NewHeapNumber % 2 = 1
       /\ NewHeapNumber \notin DOMAIN Heap
       /\ {UndefinedValue, TrueValue, FalseValue, NanValue} \subseteq DOMAIN Heap

NegInfinity == [k |-> "-inf", n |-> 0, d |-> 1]
\* No number was stored into an allocated heap number.
NoNumber == [k |-> "none", n |-> 0, d |-> 1]

\* kSmiTagMask / kHeapObjectTag tests.
IsSmiWord(w) == w % 2 = 0
SmiTag(x) == Wrap(2 * x)
SmiMaxValue == Half \div 2 - 1

\* The sign bit of a double (HeapNumber::kSignMask of the high word).
SignBit(d) == d.k \in {"minus0", "-inf"} \/ (d.k = "num" /\ d.n < 0)

\* cvt_d_w and Cvt_d_uw: an int32 or uint32 register as a double.
CvtDW(x) == IntNum(x)
CvtDUw(x) == IntNum(Unsigned(x))

(***************************************************************************)
(* MacroAssembler::EmitFPUTruncate: the double rounded in the given mode  *)
(* (kRoundToZero or kRoundToMinusInf) into the result register; the       *)
(* except flag is set for NaN, the infinities and a rounded value outside *)
(* int32 (the FCSR invalid / overflow flags), and with kCheckForInexact-  *)
(* Conversion also when rounding changed the value (-0 converts exactly   *)
(* to 0).  The result register is irrelevant when the flag is set: every  *)
(* caller deoptimizes then.                                               *)
(***************************************************************************)
IsFinite(d) == d.k \in {"num", "minus0"}
RoundedInteger(mode, d) ==
  CASE d.k # "num" -> 0
    [] mode = "kRoundToZero" -> TruncDiv(d.n, d.d)
    [] OTHER -> d.n \div d.d

EmitFPUTruncate(mode, d, checkInexact) ==
  LET r == RoundedInteger(mode, d)
  IN [except |-> \/ ~IsFinite(d) \/ r \notin Words
                 \/ checkInexact /\ ~(d = MinusZero \/ d = IntNum(r)),
      result |-> IF r \in Words THEN r ELSE 0]

\* Mutant: the truncated double taken without its reduction modulo 2^32.
TruncateDoubleToIUnreduced(d) == IF d.k # "num" THEN 0 ELSE TruncDiv(d.n, d.d)

\* MacroAssembler::TruncateDoubleToI / TruncateHeapNumberToI: ECMA ToInt32.
TruncateDoubleToI(d) == ToInt32(d)

\* The FPU's view of doubles: the value of a zero is 0, NaN is unordered.
IsNaN(d) == d.k = "nan"
IsZero(d) == d.k = "minus0" \/ (d.k = "num" /\ d.n = 0)
AsRational(d) == IF d.k = "minus0" THEN IntNum(0) ELSE d
FLess(a, b) ==
  CASE IsNaN(a) \/ IsNaN(b) -> FALSE
    [] a.k = "-inf" -> b.k # "-inf"
    [] b.k = "inf" -> a.k # "inf"
    [] a.k = "inf" \/ b.k = "-inf" -> FALSE
    [] OTHER -> AsRational(a).n * AsRational(b).d < AsRational(b).n * AsRational(a).d
FEq(a, b) == ~IsNaN(a) /\ ~IsNaN(b) /\ ~FLess(a, b) /\ ~FLess(b, a)

(***************************************************************************)
(* The outcome of a handler: a deoptimization, or the result register     *)
(* (result) or double register (dresult), the double stored in a heap     *)
(* number it allocated, and the words the GC found in the result's        *)
(* safepoint register slot when it ran during the handler.                *)
(***************************************************************************)
Outcome(dp, r, dr, st, gc) == [deopt |-> dp, result |-> r, dresult |-> dr, stored |-> st, gc |-> gc]
DeoptOut == Outcome(TRUE, 0, NoNumber, NoNumber, {})
WordOut(r) == Outcome(FALSE, r, NoNumber, NoNumber, {})
DoubleOut(d) == Outcome(FALSE, 0, d, NoNumber, {})

(***************************************************************************)
(* What the compiler knows of the instruction: kAllUsesTruncatingToInt32, *)
(* kUint32, a Smi result, a Smi representation of the input, kBailoutOn-  *)
(* MinusZero, dst aliasing src, FLAG_inline_new, whether inline new-space *)
(* allocation succeeds, LSmiUntag::needs_check, the input's range being a *)
(* Smi range, can_convert_undefined_to_nan, deoptimize_on_minus_zero, and *)
(* the input being known a heap object.                                   *)
(***************************************************************************)
ConversionFacts == {"truncating", "uint32", "isSmi", "inputIsSmi", "bailoutOnMinusZero",
                    "aliased", "inlineNew", "allocOk", "needsCheck", "inSmiRange",
                    "canConvertUndefinedToNaN", "deoptimizeOnMinusZero",
                    "knownHeapObject"}
ConversionFactsOver(S) ==
  {[f \in ConversionFacts |-> IF f \in S THEN g[f] ELSE FALSE] : g \in [S -> BOOLEAN]}

\* The JavaScript value a tagged word stands for (ToNumber of the object),
\* the new heap number standing for the double stored into it.
Denotes(w, stored) ==
  CASE IsSmiWord(w) -> IntNum(SmiUntag(w))
    [] w = NewHeapNumber -> stored
    [] OTHER -> Heap[w].value

IsNumberWord(w) == IsSmiWord(w) \/ Heap[w].map = "heap_number"
=============================================================================
