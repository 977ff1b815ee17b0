----------------------------- MODULE BranchTests -----------------------------
(***************************************************************************)
(* The MIPS LCodeGen handlers that end a block with a two-way branch:      *)
(* DoBranch (ToBoolean of an int32, double or tagged value, the last      *)
(* guided by the ToBooleanStub types seen so far), DoCompareNumericAnd-    *)
(* Branch, DoCmpHoleAndBranch, and the type tests DoIsObjectAndBranch,     *)
(* DoIsStringAndBranch, DoIsSmiAndBranch, DoIsUndetectableAndBranch,       *)
(* DoHasInstanceTypeAndBranch and DoTypeofIsAndBranch.                     *)
(*                                                                         *)
(* A handler's outcome is the block control reaches (or a deopt).  The    *)
(* block layout is an input: the true and false destinations and the next *)
(* emitted block (NoNextBlock when none follows), since EmitBranch and     *)
(* EmitBranchF emit different jumps, with negated conditions, for each.   *)
(***************************************************************************)
EXTENDS TaggedWords, Sequences, TLC
LOCAL INSTANCE Bitwise

CONSTANTS
  NullValue,        \* Heap::kNullValueRootIndex
  TheHoleValue,     \* factory()->the_hole_value()
  Layouts,          \* [t, f, n]: TrueDestination, FalseDestination, next emitted block
  IntInputs,        \* int32 values tried
  SmiInputs,        \* Smi values tried
  TaggedInputs,     \* tagged words tried (JavaScript values and the hole)
  DoubleInputs      \* doubles tried

NoNextBlock == -1

ASSUME /\ {NullValue, TheHoleValue} \subseteq DOMAIN Heap
       /\ \A lay \in Layouts : lay.t # NoNextBlock /\ lay.f # NoNextBlock

(***************************************************************************)
(* Instance types in the order of the InstanceType enumeration: strings   *)
(* first (below FIRST_NONSTRING_TYPE == SYMBOL_TYPE, the internalized ones *)
(* after the others, as kInternalizedTag is the set bit), the spec objects *)
(* last, from JS_FUNCTION_PROXY_TYPE (FIRST_SPEC_OBJECT_TYPE) to           *)
(* JS_FUNCTION_TYPE (LAST_TYPE); the non-callable ones lie between the two *)
(* callable ones, as the STATIC_ASSERTs of EmitClassOfTest state.          *)
(***************************************************************************)
InstanceTypeOrder ==
  <<"string", "internalized_string", "symbol", "oddball", "heap_number", "js_function_proxy", "js_proxy",
    "js_object", "js_array", "js_regexp", "js_function">>
TypeCode(m) == CHOOSE i \in DOMAIN InstanceTypeOrder : InstanceTypeOrder[i] = m
FIRST_TYPE == 1
LAST_TYPE == Len(InstanceTypeOrder)
FIRST_NONSTRING_TYPE == TypeCode("symbol")
SYMBOL_TYPE == TypeCode("symbol")
FIRST_SPEC_OBJECT_TYPE == TypeCode("js_function_proxy")
JS_FUNCTION_PROXY_TYPE == TypeCode("js_function_proxy")
FIRST_NONCALLABLE_SPEC_OBJECT_TYPE == TypeCode("js_proxy")
LAST_NONCALLABLE_SPEC_OBJECT_TYPE == TypeCode("js_regexp")
JS_FUNCTION_TYPE == TypeCode("js_function")

Strings == {"string", "internalized_string"}

\* GetObjectType: the instance type of the object's map.
ObjectType(w) == TypeCode(Heap[w].map)
\* The Map::kIsUndetectable bit of the object's map.
UndetectableBit(w) == IF Heap[w].undetectable THEN 1 ELSE 0

\* The hole NaN: a NaN whose upper word is kHoleNanUpper32.
HoleNaN == [k |-> "nan", n |-> 1, d |-> 1]
kHoleNanUpper32 == 1
FmoveHigh(d) == IF d = HoleNaN THEN kHoleNanUpper32 ELSE 0

(***************************************************************************)
(* Branch conditions on words (signed, and unsigned for lo/hs/ls/hi) and  *)
(* the FPU conditions of BranchF: the ordered ones are false for NaN, ne  *)
(* (!EQ) and ueq are true for it, nue (!UEQ) false.                       *)
(***************************************************************************)
CondHolds(c, a, b) ==
  CASE c = "al" -> TRUE
    [] c = "eq" -> a = b
    [] c = "ne" -> a # b
    [] c = "lt" -> a < b
    [] c = "ge" -> a >= b
    [] c = "gt" -> a > b
    [] c = "le" -> a <= b
    [] c = "lo" -> Unsigned(a) < Unsigned(b)
    [] c = "hs" -> Unsigned(a) >= Unsigned(b)
    [] c = "hi" -> Unsigned(a) > Unsigned(b)
    [] c = "ls" -> Unsigned(a) <= Unsigned(b)

FCondHolds(c, a, b) ==
  CASE c = "lt" -> FLess(a, b)
    [] c = "ge" -> FLess(b, a) \/ FEq(a, b)
    [] c = "gt" -> FLess(b, a)
    [] c = "le" -> FLess(a, b) \/ FEq(a, b)
    [] c = "eq" -> FEq(a, b)
    [] c = "ne" -> ~FEq(a, b)
    [] c = "ueq" -> IsNaN(a) \/ IsNaN(b) \/ FEq(a, b)
    [] c = "nue" -> ~(IsNaN(a) \/ IsNaN(b) \/ FEq(a, b))

\* NegateCondition pairs each condition with its complement (cc ^ 1).
NegatedPairs == {<<"eq", "ne">>, <<"lt", "ge">>, <<"gt", "le">>, <<"lo", "hs">>,
                 <<"hi", "ls">>, <<"ueq", "nue">>}
NegateCondition(c) ==
  CHOOSE x \in {p[1] : p \in NegatedPairs} \cup {p[2] : p \in NegatedPairs} :
    <<c, x>> \in NegatedPairs \/ <<x, c>> \in NegatedPairs

\* ReverseCondition swaps the operands: a < b iff b > a.
ReversedPairs == {<<"lt", "gt">>, <<"le", "ge">>, <<"lo", "hi">>, <<"ls", "hs">>}
ReverseCondition(c) ==
  IF \E p \in ReversedPairs : c \in {p[1], p[2]}
  THEN CHOOSE x \in {"lt", "gt", "le", "ge", "lo", "hi", "ls", "hs"} :
         <<c, x>> \in ReversedPairs \/ <<x, c>> \in ReversedPairs
  ELSE c

-----------------------------------------------------------------------------
(***************************************************************************)
(* The block control reaches after the jumps a handler emitted.  EmitGoto *)
(* jumps unless the block is the next emitted one, where it falls through.*)
(* EmitBranch / EmitBranchF branch to one destination and fall through to *)
(* the other when it is next, negating the condition when the true block  *)
(* is next; the FPU's negated condition must then treat NaN as false.     *)
(***************************************************************************)
EmitGoto(b, lay) == IF b = lay.n THEN lay.n ELSE b

EmitBranchOn(holds, negatedHolds, c, lay) ==
  CASE lay.f = lay.t \/ c = "al" -> EmitGoto(lay.t, lay)
    [] lay.t = lay.n -> IF negatedHolds THEN lay.f ELSE lay.n
    [] lay.f = lay.n -> IF holds THEN lay.t ELSE lay.n
    [] OTHER -> IF holds THEN lay.t ELSE lay.f

EmitBranch(c, a, b, lay) ==
  EmitBranchOn(CondHolds(c, a, b), c # "al" /\ CondHolds(NegateCondition(c), a, b), c, lay)

EmitBranchF(c, a, b, lay) ==
  EmitBranchOn(FCondHolds(c, a, b), FCondHolds(NegateCondition(c), a, b), c, lay)

\* The outcome of a branching handler: a deopt, or the block reached.
NoBlock == 0
Go(b) == [deopt |-> FALSE, block |-> b]
BranchDeopt == [deopt |-> TRUE, block |-> NoBlock]
-----------------------------------------------------------------------------
(***************************************************************************)
(* DoBranch.  An int32 or Smi register is true when non-zero; a double    *)
(* (and a value known to be a heap number) with nue against 0, so that 0, *)
(* -0 and NaN are false.  A tagged value of known HType is tested by its  *)
(* type; any other goes through the ToBooleanStub types recorded so far.  *)
(***************************************************************************)
\* Mutant: the ordered "ne", which is true for NaN.
DoubleTruthConditionOrdered == "ne"

DoubleTruthCondition == "nue"

BranchInt(x, lay) == Go(EmitBranch("ne", x, 0, lay))
BranchDouble(d, lay) == Go(EmitBranchF(DoubleTruthCondition, d, IntNum(0), lay))

\* ToBooleanStub::Types and the queries DoBranch makes of them.
ToBooleanTypes == {"UNDEFINED", "BOOLEAN", "NULL_TYPE", "SMI", "SPEC_OBJECT",
                   "STRING", "SYMBOL", "HEAP_NUMBER"}
IsGeneric(E) == E = ToBooleanTypes
NeedsMap(E) == E \cap {"SPEC_OBJECT", "STRING", "SYMBOL", "HEAP_NUMBER"} # {}
CanBeUndetectable(E) == "SPEC_OBJECT" \in E
\* Never executed before: treated as generic to avoid a deopt.
ExpectedTypes(E) == IF E = {} THEN ToBooleanTypes ELSE E

\* Mutant: no deopt for a type seen for the first time.
UnseenTypeDeoptsDropped(E) == FALSE

\* A type outside the ones seen deoptimizes, unless all have been seen.
UnseenTypeDeopts(E) == ~IsGeneric(E)

\* The generic path: a chain of tests, each branching straight to the
\* true or false label; what none of them decides deopts or falls through.
ToBooleanBranch(w, E, lay) ==
  CASE "UNDEFINED" \in E /\ w = UndefinedValue -> Go(lay.f)
    [] "BOOLEAN" \in E /\ w = TrueValue -> Go(lay.t)
    [] "BOOLEAN" \in E /\ w = FalseValue -> Go(lay.f)
    [] "NULL_TYPE" \in E /\ w = NullValue -> Go(lay.f)
    [] "SMI" \in E /\ w = 0 -> Go(lay.f)
    [] "SMI" \in E /\ IsSmiWord(w) -> Go(lay.t)
    [] "SMI" \notin E /\ NeedsMap(E) /\ IsSmiWord(w) -> BranchDeopt
    [] NeedsMap(E) /\ CanBeUndetectable(E) /\ Heap[w].undetectable -> Go(lay.f)
    [] "SPEC_OBJECT" \in E /\ ObjectType(w) >= FIRST_SPEC_OBJECT_TYPE -> Go(lay.t)
    [] "STRING" \in E /\ ObjectType(w) < FIRST_NONSTRING_TYPE ->
         Go(IF Heap[w].length # 0 THEN lay.t ELSE lay.f)
    [] "SYMBOL" \in E /\ ObjectType(w) = SYMBOL_TYPE -> Go(lay.t)
    [] "HEAP_NUMBER" \in E /\ Heap[w].map = "heap_number" ->
         Go(IF ~IsNaN(Heap[w].value) /\ FCondHolds("ne", Heap[w].value, IntNum(0))
            THEN lay.t ELSE lay.f)
    [] UnseenTypeDeopts(E) -> BranchDeopt
    [] OTHER -> Go(lay.n)

\* The tagged value's HType as Hydrogen may know it.
HTypes == {"tagged", "boolean", "smi", "jsarray", "heapnumber", "string"}
HTypesOf(w) ==
  {"tagged"} \cup {h \in HTypes :
    \/ h = "boolean" /\ w \in {TrueValue, FalseValue}
    \/ h = "smi" /\ IsSmiWord(w)
    \/ h = "jsarray" /\ ~IsSmiWord(w) /\ Heap[w].map = "js_array"
    \/ h = "heapnumber" /\ ~IsSmiWord(w) /\ Heap[w].map = "heap_number"
    \/ h = "string" /\ ~IsSmiWord(w) /\ Heap[w].map \in Strings}

BranchTagged(w, htype, E, lay) ==
  CASE htype = "boolean" -> Go(EmitBranch("eq", w, TrueValue, lay))
    [] htype = "smi" -> Go(EmitBranch("ne", w, 0, lay))
    [] htype = "jsarray" -> Go(EmitBranch("al", 0, 0, lay))
    [] htype = "heapnumber" -> BranchDouble(Heap[w].value, lay)
    [] htype = "string" -> Go(EmitBranch("ne", Heap[w].length, 0, lay))
    [] OTHER -> ToBooleanBranch(w, ExpectedTypes(E), lay)

-----------------------------------------------------------------------------
(***************************************************************************)
(* DoCompareNumericAndBranch.  Two constants are compared at compile time *)
(* (EvalComparison); doubles branch to the false block when unordered,    *)
(* then with the token's condition; integers compare a register with a    *)
(* register or a constant (Smi-tagged for a Smi representation), the     *)
(* condition reversed when the constant was the left operand.             *)
(***************************************************************************)
CompareTokens == {"EQ", "EQ_STRICT", "LT", "GT", "LTE", "GTE"}
TokenToCondition(op) ==
  CASE op \in {"EQ", "EQ_STRICT"} -> "eq"
    [] op = "LT" -> "lt"
    [] op = "GT" -> "gt"
    [] op = "LTE" -> "le"
    [] op = "GTE" -> "ge"

EvalComparison(op, a, b) == FCondHolds(TokenToCondition(op), a, b)

\* Mutant: the unordered pre-test left out.
CompareUnorderedDropped(a, b) == FALSE

\* BranchF(NULL, FalseLabel, eq, left, right): NaN goes to the false block.
CompareUnordered(a, b) == IsNaN(a) \/ IsNaN(b)

\* The register operand and the other operand of an integer comparison.
IntOperand(repr, v) == IF repr = "smi" THEN SmiTag(v) ELSE v

CompareNumeric(op, repr, consts, a, b, lay) ==
  LET cond == TokenToCondition(op)
  IN CASE consts = "both" ->
            Go(EmitGoto(IF EvalComparison(op, a, b) THEN lay.t ELSE lay.f, lay))
       [] repr = "double" /\ CompareUnordered(a, b) -> Go(lay.f)
       [] repr = "double" -> Go(EmitBranchF(cond, a, b, lay))
       [] consts = "left" ->
            Go(EmitBranch(ReverseCondition(cond), IntOperand(repr, b.n), IntOperand(repr, a.n), lay))
       [] OTHER ->
            Go(EmitBranch(cond, IntOperand(repr, a.n), IntOperand(repr, b.n), lay))
-----------------------------------------------------------------------------
(***************************************************************************)
(* The type tests.  Each is a chain of early branches to the true or      *)
(* false label followed by one EmitBranch; a test of a value known to be  *)
(* a heap object (IsHeapObject) leaves out the Smi check.                 *)
(***************************************************************************)
\* DoCmpHoleAndBranch: the hole pointer, or the hole NaN's upper word.
CmpHoleTagged(w, lay) == Go(EmitBranch("eq", w, TheHoleValue, lay))
CmpHoleDouble(d, lay) ==
  IF FCondHolds("eq", d, d) THEN Go(lay.f)
  ELSE Go(EmitBranch("eq", FmoveHigh(d), kHoleNanUpper32, lay))

\* EmitIsObject / DoIsObjectAndBranch: null or a non-callable, detectable
\* spec object.
IsObjectBranch(w, lay) ==
  CASE IsSmiWord(w) -> Go(lay.f)
    [] w = NullValue -> Go(lay.t)
    [] UndetectableBit(w) # 0 -> Go(lay.f)
    [] ObjectType(w) < FIRST_NONCALLABLE_SPEC_OBJECT_TYPE -> Go(lay.f)
    [] OTHER -> Go(EmitBranch("le", ObjectType(w), LAST_NONCALLABLE_SPEC_OBJECT_TYPE, lay))

\* EmitIsString / DoIsStringAndBranch.
IsStringBranch(w, knownHeapObject, lay) ==
  IF ~knownHeapObject /\ IsSmiWord(w) THEN Go(lay.f)
  ELSE Go(EmitBranch("lt", ObjectType(w), FIRST_NONSTRING_TYPE, lay))

\* DoIsSmiAndBranch: the tag bit (kSmiTagMask) is clear.
IsSmiBranch(w, lay) == Go(EmitBranch("eq", w % 2, 0, lay))

\* DoIsUndetectableAndBranch.
IsUndetectableBranch(w, knownHeapObject, lay) ==
  IF ~knownHeapObject /\ IsSmiWord(w) THEN Go(lay.f)
  ELSE Go(EmitBranch("ne", UndetectableBit(w), 0, lay))

\* DoHasInstanceTypeAndBranch: the [from, to] range Hydrogen asks for is one
\* type, a type and all after it, or all types up to one.
TestType(from, to) == IF from = FIRST_TYPE THEN to ELSE from

\* Mutant: the open range [from, LAST_TYPE] tested as strictly above from.
BranchConditionStrict(from, to) ==
  CASE from = to -> "eq"
    [] to = LAST_TYPE -> "hi"
    [] from = FIRST_TYPE -> "ls"

BranchCondition(from, to) ==
  CASE from = to -> "eq"
    [] to = LAST_TYPE -> "hs"
    [] from = FIRST_TYPE -> "ls"

HasInstanceTypeBranch(w, from, to, knownHeapObject, lay) ==
  IF ~knownHeapObject /\ IsSmiWord(w) THEN Go(lay.f)
  ELSE Go(EmitBranch(BranchCondition(from, to), ObjectType(w), TestType(from, to), lay))

-----------------------------------------------------------------------------
(***************************************************************************)
(* EmitTypeofIs / DoTypeofIsAndBranch: typeof value == literal, for each  *)
(* literal V8 knows ("null" only with --harmony-typeof); any other        *)
(* literal is false.  Undetectable objects are "undefined".              *)
(***************************************************************************)
TypeofLiterals == {"number", "string", "symbol", "boolean", "null", "undefined",
                   "function", "object", "other"}

\* Mutant: "object" taken to include the function proxies.
TypeofObjectRangeWide(type) ==
  type >= FIRST_SPEC_OBJECT_TYPE /\ type <= LAST_NONCALLABLE_SPEC_OBJECT_TYPE

\* The instance types typeof calls "object".
TypeofObjectRange(type) ==
  type >= FIRST_NONCALLABLE_SPEC_OBJECT_TYPE /\ type <= LAST_NONCALLABLE_SPEC_OBJECT_TYPE

EmitTypeofIs(w, literal, harmony, lay) ==
  CASE literal = "number" ->
         IF IsSmiWord(w) THEN Go(lay.t)
         ELSE Go(EmitBranch("eq", Heap[w].map, "heap_number", lay))
    [] literal \in {"string", "symbol", "function"} /\ IsSmiWord(w) -> Go(lay.f)
    [] literal = "string" /\ ObjectType(w) >= FIRST_NONSTRING_TYPE -> Go(lay.f)
    [] literal = "string" -> Go(EmitBranch("eq", UndetectableBit(w), 0, lay))
    [] literal = "symbol" -> Go(EmitBranch("eq", ObjectType(w), SYMBOL_TYPE, lay))
    [] literal = "boolean" /\ w = TrueValue -> Go(lay.t)
    [] literal = "boolean" -> Go(EmitBranch("eq", FalseValue, w, lay))
    [] literal = "null" /\ harmony -> Go(EmitBranch("eq", NullValue, w, lay))
    [] literal = "undefined" /\ w = UndefinedValue -> Go(lay.t)
    [] literal = "undefined" /\ IsSmiWord(w) -> Go(lay.f)
    [] literal = "undefined" -> Go(EmitBranch("ne", UndetectableBit(w), 0, lay))
    [] literal = "function" /\ ObjectType(w) = JS_FUNCTION_TYPE -> Go(lay.t)
    [] literal = "function" -> Go(EmitBranch("eq", ObjectType(w), JS_FUNCTION_PROXY_TYPE, lay))
    [] literal = "object" /\ IsSmiWord(w) -> Go(lay.f)
    [] literal = "object" /\ ~harmony /\ w = NullValue -> Go(lay.t)
    [] literal = "object" /\ ~TypeofObjectRange(ObjectType(w)) -> Go(lay.f)
    [] literal = "object" -> Go(EmitBranch("eq", UndetectableBit(w), 0, lay))
    [] OTHER -> Go(lay.f)
-----------------------------------------------------------------------------
(***************************************************************************)
(* EmitClassOfTest / DoClassOfTestAndBranch: %_ClassOf(value) == name.    *)
(* Heap[w].ctor is the constructor slot of the object's map (null for     *)
(* maps no function constructs), Heap[f].className the                    *)
(* instance_class_name of a function's SharedFunctionInfo.  The names are *)
(* internalized, so the final EmitBranch compares identities.             *)
(***************************************************************************)
ClassNames == {"Function", "Object", "Array", "RegExp"}
LAST_SPEC_OBJECT_TYPE == LAST_TYPE

\* The non-"Function" range test: Subu(type, FIRST_NONCALLABLE) compared
\* with the width of the non-callable range by the signed condition gt.
OutsideNonCallableRange(type) ==
  CondHolds("gt", Subu(type, FIRST_NONCALLABLE_SPEC_OBJECT_TYPE),
            LAST_NONCALLABLE_SPEC_OBJECT_TYPE - FIRST_NONCALLABLE_SPEC_OBJECT_TYPE)

ClassOfTest(w, cls, lay) ==
  LET type == ObjectType(w)
      ctor == Heap[w].ctor
  IN CASE IsSmiWord(w) -> Go(lay.f)
       [] cls = "Function" /\ CondHolds("lt", type, FIRST_SPEC_OBJECT_TYPE) -> Go(lay.f)
       [] cls = "Function" /\ type \in {FIRST_SPEC_OBJECT_TYPE, LAST_SPEC_OBJECT_TYPE} -> Go(lay.t)
       [] cls # "Function" /\ OutsideNonCallableRange(type) -> Go(lay.f)
       [] ObjectType(ctor) # JS_FUNCTION_TYPE -> Go(IF cls = "Object" THEN lay.t ELSE lay.f)
       [] OTHER -> Go(EmitBranch("eq", Heap[ctor].className, cls, lay))

\* DoCmpMapAndBranch: the map word of a heap object against a given map;
\* a map is identified by what it records of its objects.
MapOf(w) == [type |-> Heap[w].map, undetectable |-> Heap[w].undetectable, ctor |-> Heap[w].ctor]
CmpMapBranch(w, m, lay) == Go(EmitBranch("eq", MapOf(w), m, lay))

(***************************************************************************)
(* EmitIsConstructCall / DoIsConstructCallAndBranch on the calling frames,*)
(* nearest first: a frame's context slot holds the Smi ARGUMENTS_ADAPTOR  *)
(* marker in an adaptor frame, its marker slot the Smi frame type of an   *)
(* internal or construct frame and the function of a JavaScript frame.    *)
(* StackFrame::Type values are their positions in STACK_FRAME_TYPE_LIST.  *)
(***************************************************************************)
FrameTypes == <<"ENTRY", "ENTRY_CONSTRUCT", "EXIT", "JAVA_SCRIPT", "OPTIMIZED", "STUB",
                "STUB_FAILURE_TRAMPOLINE", "INTERNAL", "CONSTRUCT", "ARGUMENTS_ADAPTOR">>
FrameMarker(t) == 2 * (CHOOSE i \in DOMAIN FrameTypes : FrameTypes[i] = t)
FrameSlots(kind, fn) ==
  CASE kind = "ARGUMENTS_ADAPTOR" -> [context |-> FrameMarker(kind), marker |-> fn]
    [] kind = "JAVA_SCRIPT" -> [context |-> fn, marker |-> fn]
    [] OTHER -> [context |-> fn, marker |-> FrameMarker(kind)]

EmitIsConstructCall(frames, fn) ==
  LET caller == FrameSlots(frames[1], fn)
      checked == IF caller.context # FrameMarker("ARGUMENTS_ADAPTOR") THEN caller
                 ELSE FrameSlots(frames[2], fn)
  IN checked.marker

IsConstructCallBranch(frames, fn, lay) ==
  Go(EmitBranch("eq", EmitIsConstructCall(frames, fn), FrameMarker("CONSTRUCT"), lay))

-----------------------------------------------------------------------------
(***************************************************************************)
(* The checks that deoptimize instead of branching.  DoCheckInstanceType  *)
(* for the checks HCheckInstanceType makes: IS_SPEC_OBJECT and IS_JS_ARRAY *)
(* as intervals, IS_STRING and IS_INTERNALIZED_STRING as a mask and tag   *)
(* over the instance type's bits kIsNotStringMask (set from               *)
(* FIRST_NONSTRING_TYPE on) and kIsInternalizedMask (set for the          *)
(* internalized strings).  For a one-bit mask the code's ASSERT admits a  *)
(* tag equal to the mask too (deoptimize unless the bit is set); that     *)
(* form is checked for kIsNotStringMask.  No mask reads any other bit.    *)
(***************************************************************************)
kIsNotStringMask == 128
kStringTag == 0
kIsInternalizedMask == 64
kInternalizedTag == 64
TypeBits(type) ==
  (IF type >= FIRST_NONSTRING_TYPE THEN kIsNotStringMask ELSE 0)
  + (IF type = TypeCode("internalized_string") THEN kIsInternalizedMask ELSE 0)

IntervalChecks == {"IS_SPEC_OBJECT", "IS_JS_ARRAY"}
InstanceTypeChecks ==
  {[check |-> c, mask |-> 0, tag |-> 0] : c \in IntervalChecks}
  \cup {[check |-> "IS_STRING", mask |-> kIsNotStringMask, tag |-> kStringTag],
         [check |-> "IS_INTERNALIZED_STRING", mask |-> kIsNotStringMask + kIsInternalizedMask,
          tag |-> kInternalizedTag],
         [check |-> "MASK_TAG", mask |-> kIsNotStringMask, tag |-> kIsNotStringMask]}
CheckInterval(check) ==
  IF check = "IS_SPEC_OBJECT" THEN <<FIRST_SPEC_OBJECT_TYPE, LAST_SPEC_OBJECT_TYPE>>
  ELSE <<TypeCode("js_array"), TypeCode("js_array")>>

\* And(at, scratch, mask) over the two bits a mask may hold.
MaskedType(type, mask) == TypeBits(type) & mask

\* Mutant: the one-bit mask test always deoptimizes on a set bit.
OneBitDeoptCondAlwaysNe(tag) == "ne"

\* DeoptimizeIf(tag == 0 ? ne : eq, .., at, Operand(zero_reg)).
OneBitDeoptCond(tag) == IF tag = 0 THEN "ne" ELSE "eq"

CheckInstanceType(w, c) ==
  LET type == ObjectType(w)
      first == CheckInterval(c.check)[1]
      last == CheckInterval(c.check)[2]
      deopt ==
        CASE c.check \notin IntervalChecks /\ IsPowerOf2(c.mask) ->
               CondHolds(OneBitDeoptCond(c.tag), MaskedType(type, c.mask), 0)
          [] c.check \notin IntervalChecks -> CondHolds("ne", MaskedType(type, c.mask), c.tag)
          [] first = last -> CondHolds("ne", type, first)
          [] OTHER -> CondHolds("lo", type, first) \/ (last # LAST_TYPE /\ CondHolds("hi", type, last))
  IN IF deopt THEN BranchDeopt ELSE Go(NoBlock)

\* DoCheckValue: the register against the object, loaded from a new Cell
\* holding it when the object is in new space, an immediate otherwise:
\* both paths compare with the object itself.
CheckValue(w, object, inNewSpace) ==
  IF CondHolds("ne", w, object) THEN BranchDeopt ELSE Go(NoBlock)

(***************************************************************************)
(* DoCheckMaps with DoDeferredInstanceMigration.  A map is the map record *)
(* of an object and a generation: an object of a deprecated generation-0  *)
(* map migrates to generation 1.  map_reg is scratch0: loaded once before *)
(* check_maps, compared with each map of the set; on a miss with a        *)
(* migration target the deferred code calls Runtime::kMigrateInstance,    *)
(* stores its result (the object, or Smi 0 when the map was not          *)
(* deprecated) into scratch0's safepoint slot, deoptimizes on a Smi and   *)
(* exits to check_maps.                                                   *)
(***************************************************************************)
MapGen(w, g) == [base |-> MapOf(w), gen |-> g]
\* map_reg after the deferred code: the object pointer, not a map.
ObjectInMapReg(w) == [base |-> MapOf(w), gen |-> -1]
HasMigrationTarget(set) == \E m \in set : m.gen = 1
MaxMigrationCalls == 2

\* Runtime::kMigrateInstance on the object whose map is objMap.
MigrateInstance(objMap, deprecated) ==
  IF deprecated /\ objMap.gen = 0 THEN [smi |-> FALSE, map |-> [objMap EXCEPT !.gen = 1]]
  ELSE [smi |-> TRUE, map |-> objMap]

\* Mutant: a successful migration exits to success, skipping the checks.
CheckMapsAfterMigrationUnchecked(w, mapReg, objMap, set, deprecated, calls) ==
  CASE mapReg \in set -> [deopt |-> FALSE, map |-> objMap, calls |-> calls]
    [] ~HasMigrationTarget(set) \/ calls = MaxMigrationCalls ->
         [deopt |-> TRUE, map |-> objMap, calls |-> calls]
    [] OTHER ->
         LET r == MigrateInstance(objMap, deprecated)
         IN [deopt |-> r.smi, map |-> r.map, calls |-> calls + 1]

RECURSIVE CheckMapsFrom(_, _, _, _, _, _)
CheckMapsFrom(w, mapReg, objMap, set, deprecated, calls) ==
  CASE mapReg \in set -> [deopt |-> FALSE, map |-> objMap, calls |-> calls]
    [] ~HasMigrationTarget(set) \/ calls = MaxMigrationCalls ->
         [deopt |-> TRUE, map |-> objMap, calls |-> calls]
    [] OTHER ->
         LET r == MigrateInstance(objMap, deprecated)
         IN IF r.smi THEN [deopt |-> TRUE, map |-> r.map, calls |-> calls + 1]
            ELSE CheckMapsFrom(w, ObjectInMapReg(w), r.map, set, deprecated, calls + 1)

\* CanOmitMapChecks: no code at all.
CheckMaps(w, set, deprecated, omit) ==
  IF omit THEN [deopt |-> FALSE, map |-> MapGen(w, 0), calls |-> 0]
  ELSE CheckMapsFrom(w, MapGen(w, 0), MapGen(w, 0), set, deprecated, 0)

-----------------------------------------------------------------------------
(***************************************************************************)
(* The handler last emitted and run, its inputs and its outcome; reset    *)
(* between instructions, as LCodeGen::GenerateBody emits one after the    *)
(* other.                                                                  *)
(***************************************************************************)
VARIABLE last

BranchOps == {"Branch", "CompareNumericAndBranch", "CmpHoleAndBranch", "IsObjectAndBranch",
              "IsStringAndBranch", "IsSmiAndBranch", "IsUndetectableAndBranch",
              "HasInstanceTypeAndBranch", "TypeofIsAndBranch", "ClassOfTestAndBranch",
              "CmpMapAndBranch", "IsConstructCallAndBranch", "CheckInstanceType",
              "CheckValue", "CheckMaps"}
Representations == {"int32", "smi", "double", "tagged"}
Constancy == {"none", "left", "right", "both"}
\* The ranges Hydrogen builds: never all of FIRST_TYPE..LAST_TYPE, which
\* TestType and BranchCondition would turn into "type >= LAST_TYPE".
TypeRanges ==
  ({<<t, t>> : t \in 1..LAST_TYPE} \cup {<<t, LAST_TYPE>> : t \in 1..LAST_TYPE}
    \cup {<<FIRST_TYPE, t>> : t \in 1..LAST_TYPE}) \ {<<FIRST_TYPE, LAST_TYPE>>}
\* The tagged values JavaScript code can branch on: all but the hole.
JSValues == TaggedInputs \ {TheHoleValue}
\* A tagged input known to be a heap object is never a Smi.
TaggedInputsKnown(known) == {w \in JSValues : known => ~IsSmiWord(w)}

CallerKinds == {"JAVA_SCRIPT", "CONSTRUCT", "INTERNAL"}
FunctionWords == {w \in DOMAIN Heap : Heap[w].map = "js_function"}

\* The objects the map and value checks are tried on: a plain object and
\* an array, each with a generation-0 and a generation-1 map.
CheckedObjects == {w \in DOMAIN Heap : Heap[w].map \in {"js_object", "js_array"} /\ ~Heap[w].undetectable}
MapsOf(S) == {MapGen(w, g) : w \in S, g \in {0, 1}}

NoBranch == [op |-> "none", repr |-> "tagged", input |-> 0, left |-> NoNumber,
             right |-> NoNumber, lay |-> CHOOSE l \in Layouts : TRUE, htype |-> "tagged",
             expected |-> {}, token |-> "EQ", consts |-> "none", range |-> <<1, 1>>,
             literal |-> "other", harmony |-> FALSE, known |-> FALSE,
             cls |-> "Object", cmap |-> MapOf(NullValue), frames |-> <<"JAVA_SCRIPT">>,
             check |-> [check |-> "IS_STRING", mask |-> kIsNotStringMask, tag |-> kStringTag], object |-> NullValue, mapset |-> {}, deprecated |-> FALSE,
             omit |-> FALSE, finalMap |-> MapGen(NullValue, 0), calls |-> 0,
             deopt |-> FALSE, block |-> NoBlock]

Init == last = NoBranch

NextInstruction == last.op # "none" /\ last' = NoBranch

\* One handler run on the given inputs, with its outcome.
EmitBranching(op, inputs, out) ==
  last' = [op |-> op, deopt |-> out.deopt, block |-> out.block] @@ inputs @@ NoBranch
DoBranchInteger ==
  last.op = "none" /\ \E repr \in {"int32", "smi"}, lay \in Layouts :
    \E x \in IF repr = "smi" THEN SmiInputs ELSE IntInputs :
      EmitBranching("Branch", [repr |-> repr, input |-> x, lay |-> lay],
                    BranchInt(IntOperand(repr, x), lay))

DoBranchDouble ==
  last.op = "none" /\ \E d \in DoubleInputs, lay \in Layouts :
    EmitBranching("Branch", [repr |-> "double", left |-> d, lay |-> lay], BranchDouble(d, lay))

\* The expected types matter only when the HType does not decide the test.
DoBranchTagged ==
  last.op = "none" /\ \E w \in JSValues, lay \in Layouts :
    \E htype \in HTypesOf(w) :
      \E E \in IF htype = "tagged" THEN SUBSET ToBooleanTypes ELSE {{}} :
        EmitBranching("Branch", [input |-> w, htype |-> htype, expected |-> E, lay |-> lay],
                      BranchTagged(w, htype, E, lay))

DoCompareNumericAndBranch ==
  last.op = "none" /\ \E op \in CompareTokens, repr \in {"int32", "smi", "double"}, consts \in Constancy,
     lay \in Layouts :
    \E a, b \in CASE repr = "double" -> DoubleInputs
                  [] repr = "smi" -> {IntNum(x) : x \in SmiInputs}
                  [] OTHER -> {IntNum(x) : x \in IntInputs} :
      EmitBranching("CompareNumericAndBranch",
                    [token |-> op, repr |-> repr, consts |-> consts, left |-> a, right |-> b,
                     lay |-> lay],
                    CompareNumeric(op, repr, consts, a, b, lay))

DoCmpHoleAndBranch ==
  last.op = "none" /\ \E lay \in Layouts :
    \/ \E w \in TaggedInputs :
         EmitBranching("CmpHoleAndBranch", [input |-> w, lay |-> lay], CmpHoleTagged(w, lay))
    \/ \E d \in DoubleInputs :
         EmitBranching("CmpHoleAndBranch", [repr |-> "double", left |-> d, lay |-> lay],
                       CmpHoleDouble(d, lay))

DoIsObjectAndBranch ==
  last.op = "none" /\ \E w \in JSValues, lay \in Layouts :
    EmitBranching("IsObjectAndBranch", [input |-> w, lay |-> lay], IsObjectBranch(w, lay))

DoIsStringAndBranch ==
  last.op = "none" /\ \E known \in BOOLEAN, lay \in Layouts : \E w \in TaggedInputsKnown(known) :
    EmitBranching("IsStringAndBranch", [input |-> w, known |-> known, lay |-> lay],
                  IsStringBranch(w, known, lay))

DoIsSmiAndBranch ==
  last.op = "none" /\ \E w \in JSValues, lay \in Layouts :
    EmitBranching("IsSmiAndBranch", [input |-> w, lay |-> lay], IsSmiBranch(w, lay))

DoIsUndetectableAndBranch ==
  last.op = "none" /\ \E known \in BOOLEAN, lay \in Layouts : \E w \in TaggedInputsKnown(known) :
    EmitBranching("IsUndetectableAndBranch", [input |-> w, known |-> known, lay |-> lay],
                  IsUndetectableBranch(w, known, lay))

DoHasInstanceTypeAndBranch ==
  last.op = "none" /\ \E range \in TypeRanges, known \in BOOLEAN, lay \in Layouts :
    \E w \in TaggedInputsKnown(known) :
      EmitBranching("HasInstanceTypeAndBranch",
                    [input |-> w, range |-> range, known |-> known, lay |-> lay],
                    HasInstanceTypeBranch(w, range[1], range[2], known, lay))

DoTypeofIsAndBranch ==
  last.op = "none" /\ \E literal \in TypeofLiterals, harmony \in BOOLEAN, lay \in Layouts, w \in JSValues :
    EmitBranching("TypeofIsAndBranch",
                  [input |-> w, literal |-> literal, harmony |-> harmony, lay |-> lay],
                  EmitTypeofIs(w, literal, harmony, lay))

DoClassOfTestAndBranch ==
  last.op = "none" /\ \E w \in JSValues, cls \in ClassNames, lay \in Layouts :
    EmitBranching("ClassOfTestAndBranch", [input |-> w, cls |-> cls, lay |-> lay],
                  ClassOfTest(w, cls, lay))

\* HCompareMap: the value is a checked heap object.
DoCmpMapAndBranch ==
  last.op = "none" /\ \E w \in TaggedInputsKnown(TRUE), x \in DOMAIN Heap, lay \in Layouts :
    EmitBranching("CmpMapAndBranch", [input |-> w, cmap |-> MapOf(x), lay |-> lay],
                  CmpMapBranch(w, MapOf(x), lay))

\* The optimized function's callers: at most one adaptor frame, which a
\* JavaScript, construct or internal frame called.
CallerChains ==
  {<<k>> : k \in CallerKinds} \cup {<<"ARGUMENTS_ADAPTOR", k>> : k \in CallerKinds}
DoIsConstructCallAndBranch ==
  last.op = "none" /\ \E frames \in CallerChains, fn \in FunctionWords, lay \in Layouts :
    EmitBranching("IsConstructCallAndBranch", [frames |-> frames, input |-> fn, lay |-> lay],
                  IsConstructCallBranch(frames, fn, lay))

DoCheckInstanceType ==
  last.op = "none" /\ \E w \in TaggedInputsKnown(TRUE), check \in InstanceTypeChecks :
    EmitBranching("CheckInstanceType", [input |-> w, check |-> check],
                  CheckInstanceType(w, check))

DoCheckValue ==
  last.op = "none" /\ \E w \in JSValues, object \in CheckedObjects, inNewSpace \in BOOLEAN :
    EmitBranching("CheckValue", [input |-> w, object |-> object],
                  CheckValue(w, object, inNewSpace))

\* HCheckMaps: a non-empty set of maps; CanOmitMapChecks only where the map
\* is known to be one of them.
DoCheckMaps ==
  last.op = "none" /\ \E w \in CheckedObjects, set \in SUBSET MapsOf(CheckedObjects),
                        deprecated, omit \in BOOLEAN :
    /\ set # {}
    /\ omit => MapGen(w, 0) \in set
    /\ LET o == CheckMaps(w, set, deprecated, omit)
       IN last' = [op |-> "CheckMaps", deopt |-> o.deopt, block |-> NoBlock, input |-> w,
                   mapset |-> set, deprecated |-> deprecated, omit |-> omit,
                   finalMap |-> o.map, calls |-> o.calls] @@ NoBranch

Next ==
  \/ DoBranchInteger \/ DoBranchDouble \/ DoBranchTagged
  \/ DoCompareNumericAndBranch \/ DoCmpHoleAndBranch
  \/ DoIsObjectAndBranch \/ DoIsStringAndBranch \/ DoIsSmiAndBranch
  \/ DoIsUndetectableAndBranch \/ DoHasInstanceTypeAndBranch \/ DoTypeofIsAndBranch
  \/ DoClassOfTestAndBranch \/ DoCmpMapAndBranch \/ DoIsConstructCallAndBranch
  \/ DoCheckInstanceType \/ DoCheckValue \/ DoCheckMaps
  \/ NextInstruction

Spec == Init /\ [][Next]_last

-----------------------------------------------------------------------------
(***************************************************************************)
(* Reference definitions from ECMAScript: ToBoolean, typeof, the numeric  *)
(* comparisons (false whenever NaN is involved), and the ToBooleanStub    *)
(* type a value is recorded under.                                        *)
(***************************************************************************)
JSToBoolean(w) ==
  CASE IsSmiWord(w) -> w # 0
    [] w = TrueValue -> TRUE
    [] w \in {UndefinedValue, NullValue, FalseValue} -> FALSE
    [] Heap[w].map \in Strings -> Heap[w].length # 0
    [] Heap[w].map = "heap_number" -> ~(IsZero(Heap[w].value) \/ IsNaN(Heap[w].value))
    [] Heap[w].map = "symbol" -> TRUE
    [] OTHER -> ~Heap[w].undetectable

JSTypeof(w, harmony) ==
  CASE IsSmiWord(w) -> "number"
    [] w = NullValue -> IF harmony THEN "null" ELSE "object"
    [] w = UndefinedValue \/ Heap[w].undetectable -> "undefined"
    [] w \in {TrueValue, FalseValue} -> "boolean"
    [] Heap[w].map = "heap_number" -> "number"
    [] Heap[w].map \in Strings -> "string"
    [] Heap[w].map = "symbol" -> "symbol"
    [] Heap[w].map \in {"js_function", "js_function_proxy"} -> "function"
    [] OTHER -> "object"

JSCompare(op, a, b) ==
  CASE op \in {"EQ", "EQ_STRICT"} -> FEq(a, b)
    [] op = "LT" -> FLess(a, b)
    [] op = "GT" -> FLess(b, a)
    [] op = "LTE" -> FLess(a, b) \/ FEq(a, b)
    [] op = "GTE" -> FLess(b, a) \/ FEq(a, b)

StubType(w) ==
  CASE IsSmiWord(w) -> "SMI"
    [] w = UndefinedValue -> "UNDEFINED"
    [] w = NullValue -> "NULL_TYPE"
    [] w \in {TrueValue, FalseValue} -> "BOOLEAN"
    [] Heap[w].map \in Strings -> "STRING"
    [] Heap[w].map = "symbol" -> "SYMBOL"
    [] Heap[w].map = "heap_number" -> "HEAP_NUMBER"
    [] OTHER -> "SPEC_OBJECT"

\* The block a branch on the given truth value must reach.
Dest(truth) == IF truth THEN last.lay.t ELSE last.lay.f

Blocks == {l.t : l \in Layouts} \cup {l.f : l \in Layouts}

DoubleValues == DoubleInputs \cup {IntNum(x) : x \in IntInputs \cup SmiInputs} \cup {NoNumber}

TypeOK ==
  last \in [op : BranchOps \cup {"none"}, repr : Representations, input : Words,
            left : DoubleValues, right : DoubleValues, lay : Layouts, htype : HTypes,
            expected : SUBSET ToBooleanTypes, token : CompareTokens, consts : Constancy,
            range : TypeRanges, literal : TypeofLiterals, harmony : BOOLEAN,
            known : BOOLEAN, cls : ClassNames, cmap : {MapOf(x) : x \in DOMAIN Heap},
            frames : CallerChains, check : InstanceTypeChecks, object : DOMAIN Heap,
            mapset : SUBSET MapsOf(CheckedObjects), deprecated : BOOLEAN, omit : BOOLEAN,
            finalMap : MapsOf(CheckedObjects) \cup {MapGen(NullValue, 0)},
            calls : 0..MaxMigrationCalls, deopt : BOOLEAN, block : Blocks \cup {NoBlock}]
(***************************************************************************)
(* DoBranch reaches the block ToBoolean selects, whatever the block       *)
(* layout: a non-zero int32 or Smi, a double other than 0, -0 and NaN,    *)
(* and for a tagged value ToBoolean of the object (empty strings, zeros   *)
(* and NaN in heap numbers, undetectable objects, undefined, null and     *)
(* false are false).  It deoptimizes only on a tagged value whose         *)
(* ToBooleanStub type has not been seen, and never falls off the end of   *)
(* the code.                                                               *)
(***************************************************************************)
BranchSound ==
  last.op = "Branch" =>
    /\ ~last.deopt =>
         last.block = Dest(CASE last.repr \in {"int32", "smi"} -> last.input # 0
                             [] last.repr = "double" -> ~(IsZero(last.left) \/ IsNaN(last.left))
                             [] OTHER -> JSToBoolean(last.input))
    /\ last.deopt => last.htype = "tagged" /\ StubType(last.input) \notin ExpectedTypes(last.expected)

(***************************************************************************)
(* DoCompareNumericAndBranch reaches the true block exactly when the      *)
(* JavaScript comparison holds: never for NaN (also when the true block   *)
(* is the next one and the negated FPU condition is used), with the       *)
(* operands swapped and the condition reversed for a constant left        *)
(* operand, with Smi-tagged constants, and at compile time for two        *)
(* constants.                                                              *)
(***************************************************************************)
CompareSound ==
  last.op = "CompareNumericAndBranch" =>
    ~last.deopt /\ last.block = Dest(JSCompare(last.token, last.left, last.right))

(***************************************************************************)
(* The type tests reach the true block exactly when the value has the     *)
(* type: %_IsObject (null or a detectable non-callable object), strings,  *)
(* Smis, undetectable objects, an instance-type range, a map, a call     *)
(* through a construct frame (past an arguments adaptor frame), and the  *)
(* hole, tagged or as the hole NaN of a double; the Smi check left out    *)
(* for a known heap object does not matter.                               *)
(***************************************************************************)
TypeTestsSound ==
  LET w == last.input
      heap == ~IsSmiWord(w)
  IN /\ last.op = "IsObjectAndBranch" => last.block = Dest(JSTypeof(w, FALSE) = "object")
     /\ last.op = "IsStringAndBranch" => last.block = Dest(heap /\ Heap[w].map \in Strings)
     /\ last.op = "IsSmiAndBranch" => last.block = Dest(~heap)
     /\ last.op = "IsUndetectableAndBranch" => last.block = Dest(heap /\ Heap[w].undetectable)
     /\ last.op = "HasInstanceTypeAndBranch" =>
          last.block = Dest(heap /\ ObjectType(w) \in last.range[1]..last.range[2])
     /\ last.op = "CmpMapAndBranch" => last.block = Dest(MapOf(w) = last.cmap)
     /\ last.op = "IsConstructCallAndBranch" =>
          last.block = Dest(SelectSeq(last.frames, LAMBDA k : k # "ARGUMENTS_ADAPTOR")[1] = "CONSTRUCT")
     /\ last.op = "CmpHoleAndBranch" =>
          last.block = Dest(IF last.repr = "double" THEN last.left = HoleNaN ELSE w = TheHoleValue)

(***************************************************************************)
(* typeof value == literal (DoTypeofIsAndBranch) reaches the true block   *)
(* exactly when typeof gives that literal, with and without               *)
(* --harmony-typeof: undetectable objects are "undefined", function       *)
(* proxies "function", null "object" or "null".                           *)
(***************************************************************************)
TypeofSound ==
  last.op = "TypeofIsAndBranch" =>
    last.block = Dest(JSTypeof(last.input, last.harmony) = last.literal)

\* %_ClassOf (Object::class_name of a spec object): null for anything but a
\* spec object, "Function" for the callable ones, the constructor
\* function's instance class name, or "Object" when the map's constructor
\* is not a function.
NoClass == "null"
JSClassOf(w) ==
  CASE IsSmiWord(w) \/ Heap[w].map \in Strings \cup {"symbol", "oddball", "heap_number"} -> NoClass
    [] Heap[w].map \in {"js_function", "js_function_proxy"} -> "Function"
    [] Heap[Heap[w].ctor].map # "js_function" -> "Object"
    [] OTHER -> Heap[Heap[w].ctor].className

(***************************************************************************)
(* %_ClassOf(value) == name (DoClassOfTestAndBranch) reaches the true     *)
(* block exactly when the value is a spec object of that class.           *)
(* EmitClassOfTest says of its range test "Now we are in the              *)
(* FIRST-LAST_NONCALLABLE_SPEC_OBJECT_TYPE range".                        *)
(***************************************************************************)
ClassOfSound ==
  last.op = "ClassOfTestAndBranch" => last.block = Dest(JSClassOf(last.input) = last.cls)

(***************************************************************************)
(* The deoptimizing checks let through only what they check: an instance  *)
(* type check passes exactly the objects of its types (an interval, or a  *)
(* mask and tag: strings, internalized strings, and with the one-bit eq   *)
(* form non-strings), a value check                                        *)
(* exactly the object, and a map check only an object whose map -- after  *)
(* DoDeferredInstanceMigration changed it -- is in the set, never         *)
(* deoptimizing an object whose map was in the set to begin with.         *)
(* DoCheckMaps's loop back to check_maps after a migration compares       *)
(* scratch0, which the deferred code overwrote.                           *)
(***************************************************************************)
ChecksSound ==
  LET w == last.input
  IN /\ last.op = "CheckInstanceType" =>
          (~last.deopt <=> CASE last.check.check = "IS_SPEC_OBJECT" ->
                                  Heap[w].map \in {"js_function_proxy", "js_proxy", "js_object",
                                                   "js_array", "js_regexp", "js_function"}
                             [] last.check.check = "IS_JS_ARRAY" -> Heap[w].map = "js_array"
                             [] last.check.check = "IS_STRING" -> Heap[w].map \in Strings
                             [] last.check.check = "IS_INTERNALIZED_STRING" ->
                                  Heap[w].map = "internalized_string"
                             [] OTHER -> Heap[w].map \notin Strings)
     /\ last.op = "CheckValue" => (~last.deopt <=> w = last.object)
     /\ last.op = "CheckMaps" =>
          /\ ~last.deopt => last.finalMap \in last.mapset
          /\ MapGen(w, 0) \in last.mapset => ~last.deopt
====
