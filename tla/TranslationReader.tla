-------------------------- MODULE TranslationReader --------------------------
(***************************************************************************)
(* The reader side of deoptimization translations: how a Deoptimizer turns *)
(* the translation of a bailout id and the captured input frame into      *)
(* output frames (DoComputeOutputFrames with DoTranslateCommand and       *)
(* DoTranslateObject), and how, once those frames are on the stack, it    *)
(* materializes the deferred heap numbers and objects into them           *)
(* (MaterializeHeapObjects, MaterializeNextHeapObject/Value), using       *)
(* Accessors::FunctionGetArguments (module FunctionAccessors) for         *)
(* arguments objects of frames that have an arguments adaptor frame.     *)
(*                                                                         *)
(* deoptimizer.cc is not in this repository: the decoding and the         *)
(* materialization order follow the specification and the declarations of *)
(* deoptimizer.h; ArgumentsObjectIsAdapted/Function, the iterator and the *)
(* frame views FunctionGetArguments reads follow accessors.cc.            *)
(***************************************************************************)
EXTENDS DeoptTypes, FunctionAccessors

NullValue == [t |-> "null", v |-> 0]

\* Translation::NumberOfOperandsFor.
NumberOfOperandsFor(op) ==
  CASE op = BEGIN -> 2
    [] op = JS_FRAME -> 3
    [] op \in {CONSTRUCT_STUB_FRAME, ARGUMENTS_ADAPTOR_FRAME} -> 2
    [] op = COMPILED_STUB_FRAME -> 0
    [] OTHER -> 1

\* TranslationIterator: the value at index i, HasNext (index_ < length).
HasNext(buf, i) == i < Len(buf)
At(buf, i) == IF 0 <= i /\ HasNext(buf, i) THEN buf[i + 1] ELSE -1

\* Deoptimizer::ComputeLiteral, with kSelfLiteralId naming function_.
ComputeLiteral(ctx, id) ==
  IF id = kSelfLiteralId THEN ctx.self
  ELSE IF 0 <= id /\ id < Len(ctx.lits) THEN ctx.lits[id + 1] ELSE "bad"

(***************************************************************************)
(* Reading one value command out of the input frame.  An int32 that fits  *)
(* a Smi, or a uint32 not above Smi::kMaxValue, becomes a Smi; any other  *)
(* number, and every double, is deferred to a heap number ("ready" is     *)
(* FALSE and "val" carries the number).  This is the rule SlotRef::GetValue*)
(* applies to the same opcodes.                                            *)
(***************************************************************************)
Int32ToTagged(n) ==
  IF IsValidSmi(n) THEN [ready |-> TRUE, val |-> Smi(n)]
  ELSE [ready |-> FALSE, val |-> Int32Number(n)]
\* Mutant: the uint32 word tested as if it were an int32.
Uint32ToTaggedAsInt32(n) == Int32ToTagged(n)

Uint32ToTagged(n) ==
  IF Uint32Number(n)[2] = 0 /\ n <= SmiMaxValue THEN [ready |-> TRUE, val |-> Smi(n)]
  ELSE [ready |-> FALSE, val |-> Uint32Number(n)]

OperandIsValid(ctx, op, arg) ==
  CASE op \in {REGISTER, INT32_REGISTER, UINT32_REGISTER} -> arg \in DOMAIN ctx.in.regs
    [] op = DOUBLE_REGISTER -> arg \in DOMAIN ctx.in.dregs
    [] op \in STACK_SLOT .. DOUBLE_STACK_SLOT -> arg \in DOMAIN ctx.in.stack
    [] op = LITERAL -> ComputeLiteral(ctx, arg) # "bad"
    [] OTHER -> FALSE

ReadValue(ctx, op, arg) ==
  CASE op = REGISTER -> [ready |-> TRUE, val |-> Tagged(ctx.in.regs[arg])]
    [] op = INT32_REGISTER -> Int32ToTagged(ctx.in.regs[arg])
    [] op = UINT32_REGISTER -> Uint32ToTagged(ctx.in.regs[arg])
    [] op = DOUBLE_REGISTER -> [ready |-> FALSE, val |-> Int32Number(ctx.in.dregs[arg])]
    [] op = STACK_SLOT -> [ready |-> TRUE, val |-> Tagged(ctx.in.stack[arg])]
    [] op = INT32_STACK_SLOT -> Int32ToTagged(ctx.in.stack[arg])
    [] op = UINT32_STACK_SLOT -> Uint32ToTagged(ctx.in.stack[arg])
    [] op = DOUBLE_STACK_SLOT -> [ready |-> FALSE, val |-> Int32Number(ctx.in.stack[arg])]
    [] op = LITERAL -> [ready |-> TRUE, val |-> LiteralValue(ComputeLiteral(ctx, arg))]

Fail(ds) == [ds EXCEPT !.ok = FALSE]
PutSlot(ds, f, v) == [ds EXCEPT !.frames[f].slots = Append(@, v)]
ObjectDescriptor(f, j, ds, len, dup, isArgs) ==
  [frame |-> f, slot |-> j, jsframe |-> ds.jsframes, length |-> len,
   dup |-> dup, isArgs |-> isArgs]

(***************************************************************************)
(* Deoptimizer::DoTranslateCommand (one slot of output frame f) and        *)
(* DoTranslateObject (one field of the object being described).  A slot   *)
(* that needs a heap number gets the hole and an entry in                  *)
(* deferred_heap_numbers_; a field gets the hole in the tagged values and  *)
(* an entry in deferred_objects_double_values_ naming its position.  An    *)
(* object start or duplication writes the arguments marker and a          *)
(* descriptor; nested objects have no slot (frame 0).                      *)
(***************************************************************************)
RECURSIVE TranslateCommand(_, _, _), TranslateObject(_, _), TranslateFields(_, _, _)
TranslateCommand(ctx, ds, f) ==
  LET op == At(ctx.buf, ds.pos)
      arg == At(ctx.buf, ds.pos + 1)
      j == Len(ds.frames[f].slots) + 1
      ds1 == [ds EXCEPT !.pos = @ + 2]
  IN CASE ~ds.ok \/ ~HasNext(ctx.buf, ds.pos + 1) -> Fail(ds)
       [] op \in ValueOpcodes ->
            IF ~OperandIsValid(ctx, op, arg) THEN Fail(ds)
            ELSE LET r == ReadValue(ctx, op, arg)
                 IN IF r.ready THEN PutSlot(ds1, f, r.val)
                    ELSE [PutSlot(ds1, f, TheHole) EXCEPT
                            !.hn = Append(@, [frame |-> f, slot |-> j, value |-> r.val])]
       [] op \in ObjectOpcodes /\ arg >= 0 ->
            TranslateFields(ctx,
              [PutSlot(ds1, f, ArgumentsMarker) EXCEPT
                 !.objs = Append(@, ObjectDescriptor(f, j, ds, arg, -1, op = ARGUMENTS_OBJECT))],
              arg)
       [] op = DUPLICATED_OBJECT /\ 0 <= arg /\ arg < Len(ds.objs) ->
            [PutSlot(ds1, f, ArgumentsMarker) EXCEPT
               !.objs = Append(@, ObjectDescriptor(f, j, ds, 0, arg, FALSE))]
       [] OTHER -> Fail(ds)

TranslateObject(ctx, ds) ==
  LET op == At(ctx.buf, ds.pos)
      arg == At(ctx.buf, ds.pos + 1)
      ds1 == [ds EXCEPT !.pos = @ + 2]
  IN CASE ~ds.ok \/ ~HasNext(ctx.buf, ds.pos + 1) -> Fail(ds)
       [] op \in ValueOpcodes ->
            IF ~OperandIsValid(ctx, op, arg) THEN Fail(ds)
            ELSE LET r == ReadValue(ctx, op, arg)
                 IN IF r.ready THEN [ds1 EXCEPT !.tv = Append(@, r.val)]
                    ELSE [ds1 EXCEPT !.dv = Append(@, [dest |-> Len(ds.tv), value |-> r.val]),
                                     !.tv = Append(@, TheHole)]
       [] op \in ObjectOpcodes /\ arg >= 0 ->
            TranslateFields(ctx,
              [ds1 EXCEPT !.tv = Append(@, ArgumentsMarker),
                          !.objs = Append(@, ObjectDescriptor(0, 0, ds, arg, -1, op = ARGUMENTS_OBJECT))],
              arg)
       [] op = DUPLICATED_OBJECT /\ 0 <= arg /\ arg < Len(ds.objs) ->
            [ds1 EXCEPT !.tv = Append(@, ArgumentsMarker),
                        !.objs = Append(@, ObjectDescriptor(0, 0, ds, 0, arg, FALSE))]
       [] OTHER -> Fail(ds)

TranslateFields(ctx, ds, n) ==
  IF n <= 0 THEN ds ELSE TranslateFields(ctx, TranslateObject(ctx, ds), n - 1)

RECURSIVE TranslateSlots(_, _, _, _)
TranslateSlots(ctx, ds, f, n) ==
  IF n <= 0 THEN ds ELSE TranslateSlots(ctx, TranslateCommand(ctx, ds, f), f, n - 1)

(***************************************************************************)
(* One frame of DoComputeOutputFrames: the frame opcode and its operands   *)
(* give the frame's type, function and value count (a JS frame reads its  *)
(* receiver and formal parameters before the declared height), then that  *)
(* many DoTranslateCommand.  jsframe_count_ counts JS frames already done. *)
(***************************************************************************)
OutputFrame(type, fn, paramCount) ==
  [type |-> type, function |-> fn, parameterCount |-> paramCount, slots |-> <<>>]

ComputeFrame(ctx, ds) ==
  LET p == ds.pos
      op == At(ctx.buf, p)
      fn == ComputeLiteral(ctx, At(ctx.buf, IF op = JS_FRAME THEN p + 2 ELSE p + 1))
      height == At(ctx.buf, IF op = JS_FRAME THEN p + 3 ELSE p + 2)
      f == Len(ds.frames) + 1
      start(type, pc) == [ds EXCEPT !.pos = p + 1 + NumberOfOperandsFor(op),
                                    !.frames = Append(@, OutputFrame(type, fn, pc))]
  IN CASE ~ds.ok -> ds
       [] op = JS_FRAME /\ fn \in DOMAIN FormalParameterCount /\ height >= 0 ->
            LET params == FormalParameterCount[fn] + 1
                done == TranslateSlots(ctx, start("JS_FUNCTION", params), f, params + height)
            IN [done EXCEPT !.jsframes = @ + 1]
       [] op = CONSTRUCT_STUB_FRAME /\ height >= 0 ->
            TranslateSlots(ctx, start("JS_CONSTRUCT", height), f, height)
       [] op = GETTER_STUB_FRAME -> TranslateSlots(ctx, start("JS_GETTER", 1), f, 1)
       [] op = SETTER_STUB_FRAME -> TranslateSlots(ctx, start("JS_SETTER", 2), f, 2)
       [] op = ARGUMENTS_ADAPTOR_FRAME /\ height >= 0 ->
            TranslateSlots(ctx, start("ARGUMENTS_ADAPTOR", height), f, height)
       [] op = COMPILED_STUB_FRAME ->
            TranslateSlots(ctx,
              [ds EXCEPT !.pos = p + 1,
                         !.frames = Append(@, OutputFrame("STUB", "none", StubParameterCount))],
              f, StubParameterCount)
       [] OTHER -> Fail(ds)

RECURSIVE ComputeFrames(_, _, _)
ComputeFrames(ctx, ds, n) ==
  IF n <= 0 THEN ds ELSE ComputeFrames(ctx, ComputeFrame(ctx, ds), n - 1)

(***************************************************************************)
(* Deoptimizer::DoComputeOutputFrames from translation index start: BEGIN, *)
(* frame count, JS frame count (dropped), then the frames.  The result    *)
(* holds the output frames, the deferred heap numbers, object descriptors,*)
(* tagged and double field values, the JS frame count, where the iterator *)
(* stopped, and whether every command decoded.                             *)
(***************************************************************************)
DoComputeOutputFrames(ctx, start) ==
  LET count == At(ctx.buf, start + 1)
      ds0 == [pos |-> start + 3, frames |-> <<>>, hn |-> <<>>, objs |-> <<>>,
              tv |-> <<>>, dv |-> <<>>, jsframes |-> 0,
              ok |-> At(ctx.buf, start) = BEGIN /\ count >= 1]
  IN ComputeFrames(ctx, ds0, count)

(***************************************************************************)
(* What MaterializeHeapObjects learns from the JavaScriptFrameIterator, top*)
(* frame first: jsframe_functions_ and jsframe_has_adapted_arguments_.     *)
(***************************************************************************)
JSFramesTopFirst(stack) ==
  Reverse(SetToSortSeq({k \in 1..Len(stack) : stack[k].type = "JS_FUNCTION"}, <))

(***************************************************************************)
(* The JavaScript frames of a stack of unoptimized frames (outermost      *)
(* first) as Accessors::FunctionGetArguments reads them, top first: the   *)
(* frame's function, its scope's arguments slot (GetExpression at         *)
(* ScopeInfo::StackSlotIndex, when there is one), and the parameters of   *)
(* the frame AdvanceToArgumentsFrame reaches, the adaptor frame below when*)
(* there is one.  Frames after a deoptimization are never optimized.      *)
(***************************************************************************)
GetExpression(frame, index) == frame.slots[frame.parameterCount + index + 1]
GetParameter(frame, i) == frame.slots[i + 2]
ComputeParametersCount(frame) == frame.parameterCount - 1
HasAdaptedArguments(stack, k) == k > 1 /\ stack[k - 1].type = "ARGUMENTS_ADAPTOR"

\* Mutant: the arguments are read from the function's own frame, never the adaptor.
AdvanceToArgumentsFrameStaying(stack, k) == k

AdvanceToArgumentsFrame(stack, k) == IF HasAdaptedArguments(stack, k) THEN k - 1 ELSE k

StackFrameView(stack, k) ==
  LET fr == stack[k]
      index == ArgumentsSlotIndex[fr.function]
      argsFrame == stack[AdvanceToArgumentsFrame(stack, k)]
  IN [functions |-> <<fr.function>>, optimized |-> FALSE,
      argumentsSlot |-> IF index >= 0
                        THEN [present |-> TRUE, value |-> GetExpression(fr, index),
                              marker |-> IsArgumentsMarker(GetExpression(fr, index))]
                        ELSE NoArgumentsSlot,
      parameters |-> [i \in 1..ComputeParametersCount(argsFrame) |-> GetParameter(argsFrame, i - 1)],
      inlined |-> <<>>]

StackFrameViews(stack) ==
  LET js == JSFramesTopFirst(stack) IN [i \in DOMAIN js |-> StackFrameView(stack, js[i])]

\* Deoptimizer::ArgumentsObjectIsAdapted / ArgumentsObjectFunction.
ArgumentsObjectIsAdapted(mc, objectIndex) ==
  LET desc == mc.objs[objectIndex + 1]
      reverseJsframeIndex == mc.jsframeCount - desc.jsframe - 1
  IN mc.hasAdaptedArguments[reverseJsframeIndex + 1]

ArgumentsObjectFunction(mc, objectIndex) ==
  LET desc == mc.objs[objectIndex + 1]
      reverseJsframeIndex == mc.jsframeCount - desc.jsframe - 1
  IN mc.functions[reverseJsframeIndex + 1]

(***************************************************************************)
(* MaterializeNextHeapObject / MaterializeNextValue.  ms carries the value *)
(* and object cursors, materialized_objects_, the heap of objects made so *)
(* far (identity = the descriptor index that allocated it), the stack and *)
(* the last result.  The new object is entered into materialized_objects_ *)
(* before its fields are read, so a duplicate among them resolves to it.  *)
(***************************************************************************)
RECURSIVE MaterializeNextHeapObject(_, _), MaterializeNextValue(_, _), MaterializeValues(_, _, _)
MaterializeNextHeapObject(mc, ms) ==
  LET objectIndex == ms.oi
      desc == mc.objs[objectIndex + 1]
      ms1 == [ms EXCEPT !.oi = @ + 1]
      fresh == HeapObject(objectIndex)
  IN IF desc.dup >= 0
       THEN [ms1 EXCEPT !.mo = Append(@, NullValue), !.result = ms.mo[desc.dup + 1]]
     ELSE IF desc.isArgs /\ ArgumentsObjectIsAdapted(mc, objectIndex)
       THEN LET a == FunctionGetArguments(StackFrameViews(ms.stack),
                                           ArgumentsObjectFunction(mc, objectIndex))
                r == CASE a.kind = "fresh" -> fresh
                       [] a.kind = "slot" -> a.values[1]
                       [] OTHER -> NullValue
            IN [ms1 EXCEPT !.mo = Append(@, r), !.vi = @ + desc.length, !.result = r,
                           !.heap = IF a.kind = "fresh"
                                      THEN @ @@ (objectIndex :> [isArgs |-> TRUE, fields |-> a.values])
                                      ELSE @]
     ELSE LET filled == MaterializeValues(mc, [ms1 EXCEPT !.mo = Append(@, fresh),
                                                          !.acc = <<>>], desc.length)
          IN [filled EXCEPT
                !.heap = @ @@ (objectIndex :> [isArgs |-> desc.isArgs, fields |-> filled.acc]),
                !.result = fresh]

MaterializeNextValue(mc, ms) ==
  LET value == mc.values[ms.vi + 1]
      ms1 == [ms EXCEPT !.vi = @ + 1]
  IN IF IsArgumentsMarker(value) THEN MaterializeNextHeapObject(mc, ms1)
     ELSE [ms1 EXCEPT !.result = value]

\* n successive MaterializeNextValue, collected in ms.acc.
MaterializeValues(mc, ms, n) ==
  IF n <= 0 THEN ms
  ELSE LET saved == ms.acc
           r == MaterializeNextValue(mc, ms)
       IN MaterializeValues(mc, [r EXCEPT !.acc = Append(saved, r.result)], n - 1)

RECURSIVE MaterializeTopLevel(_, _)
MaterializeTopLevel(mc, ms) ==
  IF ms.oi >= Len(mc.objs) THEN ms
  ELSE LET desc == mc.objs[ms.oi + 1]
           r == MaterializeNextHeapObject(mc, [ms EXCEPT !.acc = <<>>])
       IN MaterializeTopLevel(mc, [r EXCEPT !.stack[desc.frame].slots[desc.slot] = r.result])

(***************************************************************************)
(* Deoptimizer::MaterializeHeapObjects on the spliced stack: allocate the  *)
(* deferred heap numbers into their slots, merge the double field values  *)
(* into the tagged ones, read the JS frames, then materialize every       *)
(* top-level object into its slot.  Returns the stack and the heap.        *)
(***************************************************************************)
MaterializeHeapObjects(ds, stack0) ==
  LET stack1 == [k \in 1..Len(stack0) |->
                   [stack0[k] EXCEPT !.slots =
                      [j \in 1..Len(@) |->
                         IF \E h \in ToSet(ds.hn) : h.frame = k /\ h.slot = j
                           THEN HeapNumber((CHOOSE h \in ToSet(ds.hn) : h.frame = k /\ h.slot = j).value)
                           ELSE @[j]]]]
      values == [i \in 1..Len(ds.tv) |->
                   IF \E d \in ToSet(ds.dv) : d.dest = i - 1
                     THEN HeapNumber((CHOOSE d \in ToSet(ds.dv) : d.dest = i - 1).value)
                     ELSE ds.tv[i]]
      js == JSFramesTopFirst(stack1)
      mc == [objs |-> ds.objs, values |-> values, jsframeCount |-> ds.jsframes,
             functions |-> [r \in DOMAIN js |-> stack1[js[r]].function],
             hasAdaptedArguments |-> [r \in DOMAIN js |-> HasAdaptedArguments(stack1, js[r])]]
      done == MaterializeTopLevel(mc, [vi |-> 0, oi |-> 0, mo |-> <<>>, heap |-> <<>>,
                                       stack |-> stack1, result |-> NullValue, acc |-> <<>>])
  IN [stack |-> done.stack, heap |-> done.heap]
=============================================================================
