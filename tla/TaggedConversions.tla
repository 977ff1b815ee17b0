------------------------- MODULE TaggedConversions -------------------------
(***************************************************************************)
(* The MIPS LCodeGen handlers that move values between the tagged, int32  *)
(* and double representations: Smi tagging and untagging, boxing an int32,*)
(* uint32 or double into a heap number (inline allocation or the deferred *)
(* runtime call, at which the GC may run), unboxing a tagged value into a *)
(* double or an int32 (oddballs for truncating uses), and the double to   *)
(* int32 and Smi truncations.                                             *)
(***************************************************************************)
EXTENDS TaggedWords

CONSTANTS
  IntInputs,        \* untagged int32 / uint32 register words tried
  TaggedInputs,     \* tagged register words tried
  DoubleInputs      \* doubles tried

ASSUME IntInputs \cup TaggedInputs \subseteq Words

-----------------------------------------------------------------------------
(***************************************************************************)
(* Boxing.  LCodeGen::DoDeferredNumberTagI: after an overflowing SmiTag   *)
(* into dst == src the int32 is recovered by untagging and flipping bit   *)
(* 31 (bits 30 and 31 disagreed); the value goes to a double register.    *)
(* The heap number comes from inline allocation (FLAG_inline_new) or,     *)
(* when that fails, from Runtime::kAllocateHeapNumber, at which the GC    *)
(* scans the safepoint register slots; dst's slot is cleared first since  *)
(* dst is in the pointer map but holds an integer.                        *)
(***************************************************************************)
XorSignBit(w) == Wrap(w + Half)

\* Mutant: the aliased case untagged without flipping bit 31 back.
DeferredInt32SourceNoXor(src, dst, aliased) == IF aliased THEN SmiUntag(dst) ELSE src

DeferredInt32Source(src, dst, aliased) ==
  IF aliased THEN XorSignBit(SmiUntag(dst)) ELSE src

\* Mutant: the integer left in dst's slot when the runtime is called.
ClearResultSlotKept(slot) == slot

\* StoreToSafepointRegisterSlot(zero_reg, dst).
ClearResultSlot(slot) == 0

DoDeferredNumberTagI(src, dst, signedness, h) ==
  LET dbl == IF signedness = "SIGNED_INT32"
               THEN CvtDW(DeferredInt32Source(src, dst, h.aliased))
               ELSE CvtDUw(src)
      gc == IF h.inlineNew /\ h.allocOk THEN {} ELSE {ClearResultSlot(dst)}
  IN Outcome(FALSE, NewHeapNumber, NoNumber, dbl, gc)

\* LCodeGen::DoNumberTagI: SmiTagCheckOverflow, the deferred code on overflow.
NumberTagI(x, h) ==
  LET o == SmiTagCheckOverflow(x)
  IN IF o.overflow
       THEN DoDeferredNumberTagI(IF h.aliased THEN o.result ELSE x, o.result,
                                 "SIGNED_INT32", h)
       ELSE WordOut(o.result)

\* LCodeGen::DoNumberTagU: reg is input and result; values above
\* Smi::kMaxValue (unsigned) are boxed.
NumberTagU(x, h) ==
  IF Unsigned(x) > SmiMaxValue
    THEN DoDeferredNumberTagI(x, x, "UNSIGNED_INT32", h)
    ELSE WordOut(SmiTag(x))

\* Mutant: DoDeferredNumberTagD without 'mov reg, zero_reg'.
ClearDoubleResultRegDropped(reg) == reg

ClearDoubleResultReg(reg) == 0

(***************************************************************************)
(* LCodeGen::DoNumberTagD and DoDeferredNumberTagD.  reg is what the      *)
(* result register held when the deferred code is entered: unwritten, or  *)
(* the partial result of a failed inline allocation.                      *)
(***************************************************************************)
NumberTagD(d, reg, h) ==
  IF h.inlineNew /\ h.allocOk
    THEN Outcome(FALSE, NewHeapNumber, NoNumber, d, {})
    ELSE Outcome(FALSE, NewHeapNumber, NoNumber, d, {ClearDoubleResultReg(reg)})

(***************************************************************************)
(* Smi tagging.  DoSmiTag (the input's range is a Smi range), DoInteger-  *)
(* 32ToSmi (deopt on SmiTagCheckOverflow unless the range is a Smi range) *)
(* and DoUint32ToSmi (deopt when And(input, 0xc0000000) is not zero).     *)
(***************************************************************************)
Integer32ToSmi(x, h) ==
  LET o == SmiTagCheckOverflow(x)
  IN IF o.overflow /\ ~h.inSmiRange THEN DeoptOut ELSE WordOut(o.result)

\* Mutant: only bit 31 tested, as And(input, 0x80000000).
Uint32HighBitsSignOnly(x) == Unsigned(x) \div Half

\* And(scratch, input, 0xc0000000): the top two bits of the word.
Uint32HighBits(x) == Unsigned(x) \div (Half \div 2)

Uint32ToSmi(x, h) ==
  IF ~h.inSmiRange /\ Uint32HighBits(x) # 0 THEN DeoptOut ELSE WordOut(SmiTag(x))

-----------------------------------------------------------------------------
(***************************************************************************)
(* Unboxing.  DoSmiUntag deoptimizes on a heap object when needs_check.   *)
(* EmitNumberUntagD: a Smi is converted, a heap number loaded (-0 deopts  *)
(* when deoptimize_on_minus_zero), undefined becomes the NaN root's value *)
(* when can_convert_undefined_to_nan, and anything else deoptimizes.      *)
(***************************************************************************)
SmiUntagOf(w, h) ==
  IF h.needsCheck /\ ~IsSmiWord(w) THEN DeoptOut ELSE WordOut(SmiUntag(w))

EmitNumberUntagD(w, h) ==
  CASE h.inputIsSmi \/ IsSmiWord(w) -> DoubleOut(CvtDW(SmiUntag(w)))
    [] Heap[w].map # "heap_number" ->
         IF h.canConvertUndefinedToNaN /\ w = UndefinedValue
           THEN DoubleOut(Heap[NanValue].value)
           ELSE DeoptOut
    [] h.deoptimizeOnMinusZero /\ Heap[w].value = MinusZero -> DeoptOut
    [] OTHER -> DoubleOut(Heap[w].value)

\* Mutant: the -0 test of a non-truncating conversion left out.
ExactInt32OrDeoptAcceptingMinusZero(mode, d, h) ==
  LET f == EmitFPUTruncate(mode, d, TRUE)
  IN IF f.except THEN DeoptOut ELSE WordOut(f.result)

(***************************************************************************)
(* The non-truncating int32 conversion shared by DoDeferredTaggedToI,     *)
(* DoDoubleToI and DoDoubleToSmi: EmitFPUTruncate, deopt on the except    *)
(* flag, and with kBailoutOnMinusZero deopt on a zero result whose double *)
(* had its sign bit set.                                                  *)
(***************************************************************************)
ExactInt32OrDeopt(mode, d, h) ==
  LET f == EmitFPUTruncate(mode, d, TRUE)
  IN CASE f.except -> DeoptOut
       [] h.bailoutOnMinusZero /\ f.result = 0 /\ SignBit(d) -> DeoptOut
       [] OTHER -> WordOut(f.result)

(***************************************************************************)
(* LCodeGen::DoDeferredTaggedToI on a heap object w.  Truncating: a heap  *)
(* number goes through TruncateHeapNumberToI (scratch2 is set to the      *)
(* input on this path only), undefined gives 0, and the true / false      *)
(* tests compare scratch2 -- the temp register, holding whatever it held  *)
(* before unless the heap-number path ran -- with the roots.              *)
(***************************************************************************)
DoDeferredTaggedToI(w, scratch2, h) ==
  IF h.truncating
    THEN CASE Heap[w].map = "heap_number" -> WordOut(TruncateDoubleToI(Heap[w].value))
           [] w = UndefinedValue -> WordOut(0)
           [] scratch2 = TrueValue -> WordOut(1)
           [] scratch2 = FalseValue -> WordOut(0)
           [] OTHER -> DeoptOut
    ELSE IF Heap[w].map # "heap_number" THEN DeoptOut
         ELSE ExactInt32OrDeopt("kRoundToZero", Heap[w].value, h)

\* LCodeGen::DoTaggedToI: untag a Smi inline, the deferred code otherwise.
TaggedToI(w, scratch2, h) ==
  IF h.inputIsSmi \/ IsSmiWord(w) THEN WordOut(SmiUntag(w))
  ELSE DoDeferredTaggedToI(w, scratch2, h)

\* LCodeGen::DoDoubleToI.
DoubleToI(d, h) ==
  IF h.truncating THEN WordOut(TruncateDoubleToI(d)) ELSE ExactInt32OrDeopt("kRoundToMinusInf", d, h)

\* LCodeGen::DoDoubleToSmi: the int32, then SmiTagCheckOverflow and deopt.
DoubleToSmi(d, h) ==
  LET r == DoubleToI(d, h)
      o == SmiTagCheckOverflow(r.result)
  IN IF r.deopt \/ o.overflow THEN DeoptOut ELSE WordOut(o.result)

\* DoCheckSmi and DoCheckNonSmi (skipped for a value known a heap object).
CheckSmi(w) == IF IsSmiWord(w) THEN WordOut(w) ELSE DeoptOut
CheckNonSmi(w, h) == IF ~h.knownHeapObject /\ IsSmiWord(w) THEN DeoptOut ELSE WordOut(w)

-----------------------------------------------------------------------------
VARIABLE last   \* the last conversion emitted and what running it left

ConversionOps == {"NumberTagI", "NumberTagU", "NumberTagD", "SmiTag", "Integer32ToSmi",
                  "Uint32ToSmi", "Integer32ToDouble", "Uint32ToDouble", "SmiUntag",
                  "NumberUntagD", "TaggedToI", "DoubleToI", "DoubleToSmi",
                  "CheckSmi", "CheckNonSmi"}

NoConversion == [op |-> "none", input |-> 0, dinput |-> NoNumber,
                 facts |-> [f \in ConversionFacts |-> FALSE], scratch |-> 0,
                 deopt |-> FALSE, result |-> 0, dresult |-> NoNumber,
                 stored |-> NoNumber, gc |-> {}]

Init == last = NoConversion

\* The code generator moves on to the next instruction of the chunk.
NextInstruction == last.op # "none" /\ last' = NoConversion

Emit(op, w, d, h, sc, o) ==
  last' = [op |-> op, input |-> w, dinput |-> d, facts |-> h, scratch |-> sc,
           deopt |-> o.deopt, result |-> o.result, dresult |-> o.dresult,
           stored |-> o.stored, gc |-> o.gc]

\* An int32 input, and the facts the compiler may hold of it.
EmitFromInt(op, S, Assumed(_, _), F(_, _)) ==
  \E x \in IntInputs, h \in ConversionFactsOver(S) :
    Assumed(x, h) /\ Emit(op, x, NoNumber, h, 0, F(x, h))

TrueOf(x, h) == TRUE
SmiRangeIfKnown(x, h) == h.inSmiRange => IsSmiValue(x)
UintSmiRangeIfKnown(x, h) == h.inSmiRange => Unsigned(x) <= SmiMaxValue
NumberTagIOut(x, h) == NumberTagI(x, h)
NumberTagUOut(x, h) == NumberTagU(x, h)
SmiTagOut(x, h) == WordOut(SmiTag(x))
SmiOf(x, h) == IsSmiValue(x)
Integer32ToDoubleOut(x, h) == DoubleOut(CvtDW(x))
Uint32ToDoubleOut(x, h) == DoubleOut(CvtDUw(x))

DoNumberTagI == EmitFromInt("NumberTagI", {"aliased", "inlineNew", "allocOk"}, TrueOf, NumberTagIOut)
DoNumberTagU == EmitFromInt("NumberTagU", {"inlineNew", "allocOk"}, TrueOf, NumberTagUOut)
\* DoSmiTag: ASSERT(!kCanOverflow), the input's range fits a Smi.
DoSmiTag == EmitFromInt("SmiTag", {}, SmiOf, SmiTagOut)
DoInteger32ToSmi == EmitFromInt("Integer32ToSmi", {"inSmiRange"}, SmiRangeIfKnown, Integer32ToSmi)
DoUint32ToSmi == EmitFromInt("Uint32ToSmi", {"inSmiRange"}, UintSmiRangeIfKnown, Uint32ToSmi)
DoInteger32ToDouble == EmitFromInt("Integer32ToDouble", {}, TrueOf, Integer32ToDoubleOut)
DoUint32ToDouble == EmitFromInt("Uint32ToDouble", {}, TrueOf, Uint32ToDoubleOut)

\* DoNumberTagD: reg is the result register's content on entry to the
\* deferred code.
DoNumberTagD ==
  \E d \in DoubleInputs, reg \in Unpredictable, h \in ConversionFactsOver({"inlineNew", "allocOk"}) :
    Emit("NumberTagD", 0, d, h, reg, NumberTagD(d, reg, h))

DoSmiUntag ==
  \E w \in TaggedInputs, h \in ConversionFactsOver({"needsCheck"}) :
    /\ ~h.needsCheck => IsSmiWord(w)
    /\ Emit("SmiUntag", w, NoNumber, h, 0, SmiUntagOf(w, h))

\* DoNumberUntagD: NUMBER_CANDIDATE_IS_SMI when the value's representation
\* is Smi, NUMBER_CANDIDATE_IS_ANY_TAGGED otherwise.
DoNumberUntagD ==
  \E w \in TaggedInputs,
     h \in ConversionFactsOver({"inputIsSmi", "canConvertUndefinedToNaN", "deoptimizeOnMinusZero"}) :
    /\ h.inputIsSmi => IsSmiWord(w)
    /\ Emit("NumberUntagD", w, NoNumber, h, 0, EmitNumberUntagD(w, h))

\* DoTaggedToI: scratch2 is the temp register's content on entry.
DoTaggedToI ==
  \E w \in TaggedInputs, scratch2 \in Unpredictable,
     h \in ConversionFactsOver({"inputIsSmi", "truncating", "bailoutOnMinusZero"}) :
    /\ h.inputIsSmi => IsSmiWord(w)
    /\ Emit("TaggedToI", w, NoNumber, h, scratch2, TaggedToI(w, scratch2, h))

DoDoubleToI ==
  \E d \in DoubleInputs, h \in ConversionFactsOver({"truncating", "bailoutOnMinusZero"}) :
    Emit("DoubleToI", 0, d, h, 0, DoubleToI(d, h))

DoDoubleToSmi ==
  \E d \in DoubleInputs, h \in ConversionFactsOver({"truncating", "bailoutOnMinusZero"}) :
    Emit("DoubleToSmi", 0, d, h, 0, DoubleToSmi(d, h))

DoCheckSmi ==
  \E w \in TaggedInputs, h \in ConversionFactsOver({}) :
    Emit("CheckSmi", w, NoNumber, h, 0, CheckSmi(w))

\* DoCheckNonSmi: HValue::IsHeapObject() holds only of heap objects.
DoCheckNonSmi ==
  \E w \in TaggedInputs, h \in ConversionFactsOver({"knownHeapObject"}) :
    /\ h.knownHeapObject => ~IsSmiWord(w)
    /\ Emit("CheckNonSmi", w, NoNumber, h, 0, CheckNonSmi(w, h))

Next ==
  \/ last.op = "none" /\
       \/ DoNumberTagI \/ DoNumberTagU \/ DoNumberTagD \/ DoSmiTag
       \/ DoInteger32ToSmi \/ DoUint32ToSmi \/ DoInteger32ToDouble \/ DoUint32ToDouble
       \/ DoSmiUntag \/ DoNumberUntagD \/ DoTaggedToI \/ DoDoubleToI
       \/ DoDoubleToSmi \/ DoCheckSmi \/ DoCheckNonSmi
  \/ NextInstruction

Spec == Init /\ [][Next]_last

-----------------------------------------------------------------------------

NumberValues ==
  {IntNum(n) : n \in kMinInt .. (2 * Half - 1)} \cup DoubleInputs
    \cup {Heap[p].value : p \in DOMAIN Heap} \cup {NoNumber}

TypeOK ==
  last \in [op : ConversionOps \cup {"none"}, input : Words, dinput : NumberValues,
            facts : [ConversionFacts -> BOOLEAN], scratch : Words,
            deopt : BOOLEAN, result : Words, dresult : NumberValues,
            stored : NumberValues, gc : SUBSET Words]

(***************************************************************************)
(* Boxing and tagging keep the number: after NumberTagI / NumberTagU /    *)
(* NumberTagD, SmiTag, Integer32ToSmi and Uint32ToSmi the result word,    *)
(* read as a Smi or through the heap number just allocated, is the int32, *)
(* the uint32 or the double the input register held, and Integer32To-     *)
(* Double / Uint32ToDouble give that number as a double.  This rests on   *)
(* the bit-31 recovery of an aliased NumberTagI, the unsigned comparison  *)
(* with Smi::kMaxValue and the 0xc0000000 mask.                           *)
(***************************************************************************)
InputNumber(l) ==
  CASE l.op \in {"NumberTagI", "SmiTag", "Integer32ToSmi", "Integer32ToDouble"} -> IntNum(l.input)
    [] l.op \in {"NumberTagU", "Uint32ToSmi", "Uint32ToDouble"} -> IntNum(Unsigned(l.input))
    [] OTHER -> l.dinput

NumberTagSound ==
  /\ last.op \in {"NumberTagI", "NumberTagU", "NumberTagD", "SmiTag",
                  "Integer32ToSmi", "Uint32ToSmi"} /\ ~last.deopt
       => Denotes(last.result, last.stored) = InputNumber(last)
  /\ last.op \in {"Integer32ToDouble", "Uint32ToDouble"} => last.dresult = InputNumber(last)

(***************************************************************************)
(* Unboxing gives what the uses accept: SmiUntag passes only Smis and     *)
(* untags them; NumberUntagD's double is ToNumber of a Smi or a heap      *)
(* number (of undefined only when that may become NaN), never -0 when -0  *)
(* must deopt; TaggedToI, DoubleToI and DoubleToSmi leave a register the  *)
(* uses accept for the number -- ToInt32 for truncating uses, the exact   *)
(* int32 (or Smi) otherwise, -0 deoptimizing under kBailoutOnMinusZero;   *)
(* CheckSmi and CheckNonSmi pass only Smis and heap objects.  Truncating  *)
(* TaggedToI of true, false or a string is left to TruncatedOddballSound. *)
(***************************************************************************)
UntagSound ==
  ~last.deopt =>
    CASE last.op = "SmiUntag" ->
           IsSmiWord(last.input) /\ last.result = SmiUntag(last.input)
      [] last.op = "NumberUntagD" ->
           /\ \/ IsNumberWord(last.input)
              \/ last.facts.canConvertUndefinedToNaN /\ last.input = UndefinedValue
           /\ last.dresult = Denotes(last.input, NoNumber)
           /\ last.facts.deoptimizeOnMinusZero => last.dresult # MinusZero
      [] last.op = "TaggedToI" ->
           \/ IsNumberWord(last.input) /\ Acceptable(last.result, Denotes(last.input, NoNumber), last.facts)
           \/ last.facts.truncating /\ ~IsNumberWord(last.input) /\ last.input # UndefinedValue
           \/ last.facts.truncating /\ last.input = UndefinedValue /\ last.result = 0
      [] last.op = "DoubleToI" -> Acceptable(last.result, last.dinput, last.facts)
      [] last.op = "DoubleToSmi" ->
           Acceptable(last.result, last.dinput, [last.facts EXCEPT !.isSmi = TRUE])
      [] last.op = "CheckSmi" -> IsSmiWord(last.input)
      [] last.op = "CheckNonSmi" -> last.input \in DOMAIN Heap
      [] OTHER -> TRUE

(***************************************************************************)
(* The GC that may run inside Runtime::kAllocateHeapNumber, called from   *)
(* the deferred code of NumberTagI / NumberTagU / NumberTagD, finds in the *)
(* result register's safepoint slot (in the pointer map) a Smi or a       *)
(* pointer to a heap object, never the raw integer or a stale word.       *)
(***************************************************************************)
PointerMapSafeAtGC == \A w \in last.gc : IsSmiWord(w) \/ w \in DOMAIN Heap

(***************************************************************************)
(* A truncating TaggedToI of true, false or a string (the oddball path of *)
(* DoDeferredTaggedToI) deoptimizes or gives ToInt32 of ToNumber: 1 for   *)
(* true, 0 for false -- the comment "Undefined/False is converted to zero *)
(* and True to one".                                                      *)
(***************************************************************************)
TruncatedOddballSound ==
  last.op = "TaggedToI" /\ last.facts.truncating /\ ~IsNumberWord(last.input) /\ ~last.deopt
    => last.result = ToInt32(Denotes(last.input, NoNumber))
====
