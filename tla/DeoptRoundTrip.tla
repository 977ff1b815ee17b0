--------------------------- MODULE DeoptRoundTrip ---------------------------
(***************************************************************************)
(* One optimized function from code generation to deoptimization.         *)
(*                                                                         *)
(* LCodeGen registers the environment of each deoptimization point it     *)
(* emits (RegisterEnvironmentForDeoptimization) into one translation      *)
(* buffer and literal pool, then PopulateDeoptimizationData freezes them  *)
(* into the code object.  At run time a bailout creates a Deoptimizer     *)
(* (Deoptimizer::New, which occupies DeoptimizerData::current_), the      *)
(* deoptimization entry computes the output frames and copies them onto   *)
(* the stack, and Runtime_NotifyDeoptimized takes the deoptimizer back    *)
(* (Deoptimizer::Grab) and materializes heap numbers and objects into the *)
(* new frames.  The code object stays usable, so further bailouts follow. *)
(*                                                                         *)
(* A deoptimization point is given as the chain of frames the optimizing  *)
(* compiler sees there (outermost first): each frame's type, closure, AST *)
(* id, parameter count and values, where a value names a register, stack  *)
(* slot, constant or an object the compiler did not allocate.             *)
(***************************************************************************)
EXTENDS TranslationWriter, TranslationReader, FunctionAccessors

CONSTANTS
  DeoptPoints,      \* point -> Seq of frames, outermost first
  InlinedClosures,  \* chunk()->inlined_closures()
  InputFrames,      \* the register and stack contents a bailout may capture
  CallerFrames      \* the functions of the JavaScript frames below the optimized one, top first

VARIABLES
  literals,         \* LCodeGen::deoptimization_literals_
  translations,     \* LCodeGen::translations_
  deoptimizations,  \* LCodeGen::deoptimizations_, with the point each came from
  codeData,         \* Code::deoptimization_data(), NoData until populated
  current,          \* DeoptimizerData::current_ # NULL
  deoptimizer,      \* the Deoptimizer of the latest bailout
  stack,            \* the frames the deoptimization put on the stack
  heap              \* objects materialized into them

vars == <<literals, translations, deoptimizations, codeData, current,
          deoptimizer, stack, heap>>

NoData == [populated |-> FALSE]

\* The compiler never inlines a function into itself, so each closure is the
\* function of at most one JS frame; frames carry the counts the writer needs.
ASSUME \A p \in DOMAIN DeoptPoints :
         LET fs == DeoptPoints[p] IN
         /\ fs[1].type = "JS_FUNCTION" /\ fs[1].closure = Self
         /\ \A k \in 1..Len(fs) :
              /\ fs[k].type = "JS_FUNCTION" =>
                   fs[k].parameterCount = FormalParameterCount[fs[k].closure] + 1
              /\ fs[k].type = "JS_GETTER" => Len(fs[k].values) = 1
              /\ fs[k].type = "JS_SETTER" => Len(fs[k].values) = 2
         /\ \A k, m \in 1..Len(fs) :
              fs[k].type = "JS_FUNCTION" /\ fs[m].type = "JS_FUNCTION" /\ k # m
                => fs[k].closure # fs[m].closure

RegisteredPoints == {deoptimizations[i].point : i \in 1..Len(deoptimizations)}

Init ==
  /\ literals = PopulateDeoptimizationLiteralsWithInlinedFunctions(InlinedClosures)
  /\ translations = <<>>
  /\ deoptimizations = <<>>
  /\ codeData = NoData
  /\ current = FALSE
  /\ deoptimizer = [phase |-> "none"]
  /\ stack = <<>>
  /\ heap = <<>>

(***************************************************************************)
(* LCodeGen::RegisterEnvironmentForDeoptimization for the environment of  *)
(* point p, done once per environment (HasBeenRegistered) while the code  *)
(* is being generated.                                                     *)
(***************************************************************************)
RegisterEnvironmentForDeoptimization(p) ==
  /\ ~codeData.populated
  /\ p \notin RegisteredPoints
  /\ LET r == RegisterEnvironment(DeoptPoints[p], translations, literals,
                                  Len(deoptimizations))
     IN /\ translations' = r.buffer
        /\ literals' = r.lits
        /\ deoptimizations' = Append(deoptimizations, [point |-> p, entry |-> r.entry])
  /\ UNCHANGED <<codeData, current, deoptimizer, stack, heap>>

(***************************************************************************)
(* LCodeGen::PopulateDeoptimizationData: nothing when there is no         *)
(* deoptimization point; otherwise the translation byte array, the        *)
(* literal array and, per deoptimization index, the AST id and           *)
(* translation index.                                                      *)
(***************************************************************************)
PopulateDeoptimizationData ==
  /\ ~codeData.populated
  /\ Len(deoptimizations) > 0
  /\ codeData' = [populated |-> TRUE,
                  translations |-> translations,
                  literals |-> literals,
                  entries |-> [i \in 1..Len(deoptimizations) |->
                                 [astId |-> deoptimizations[i].entry.astId,
                                  translationIndex |-> deoptimizations[i].entry.translationIndex]]]
  /\ UNCHANGED <<literals, translations, deoptimizations, current, deoptimizer, stack, heap>>

\* Deoptimizer::New that does not store the new deoptimizer into current_.
DeoptimizerNewUnrecorded(bailoutId, in) ==
  /\ codeData.populated
  /\ ~current
  /\ deoptimizer.phase \in {"none", "done"}
  /\ deoptimizer' = [phase |-> "captured", bailoutId |-> bailoutId, input |-> in]
  /\ UNCHANGED <<literals, translations, deoptimizations, codeData, current, stack, heap>>

(***************************************************************************)
(* Deoptimizer::New: a bailout with id bailoutId captures the input frame *)
(* and becomes DeoptimizerData::current_, which must be empty.            *)
(***************************************************************************)
DeoptimizerNew(bailoutId, in) ==
  /\ codeData.populated
  /\ ~current
  /\ deoptimizer.phase \in {"none", "done"}
  /\ current' = TRUE
  /\ deoptimizer' = [phase |-> "captured", bailoutId |-> bailoutId, input |-> in]
  /\ UNCHANGED <<literals, translations, deoptimizations, codeData, stack, heap>>

(***************************************************************************)
(* Deoptimizer::ComputeOutputFrames: decode the translation registered    *)
(* under the bailout id against the captured input frame.                  *)
(***************************************************************************)
DecodeContext(d) ==
  [buf |-> codeData.translations, lits |-> codeData.literals, self |-> Self, in |-> d.input]

ComputeOutputFrames ==
  /\ deoptimizer.phase = "captured"
  /\ deoptimizer' = [phase |-> "computed",
                     bailoutId |-> deoptimizer.bailoutId,
                     input |-> deoptimizer.input,
                     result |-> DoComputeOutputFrames(
                                  DecodeContext(deoptimizer),
                                  codeData.entries[deoptimizer.bailoutId + 1].translationIndex)]
  /\ UNCHANGED <<literals, translations, deoptimizations, codeData, current, stack, heap>>

\* The deoptimization entry code replaces the optimized frame by the output frames.
SpliceOutputFrames ==
  /\ deoptimizer.phase = "computed"
  /\ stack' = deoptimizer.result.frames
  /\ heap' = <<>>
  /\ deoptimizer' = [deoptimizer EXCEPT !.phase = "spliced"]
  /\ UNCHANGED <<literals, translations, deoptimizations, codeData, current>>

\* NotifyDeoptimized that materializes without taking the deoptimizer back.
NotifyDeoptimizedWithoutGrab ==
  /\ deoptimizer.phase = "spliced"
  /\ current
  /\ LET m == MaterializeHeapObjects(deoptimizer.result, stack)
     IN /\ stack' = m.stack
        /\ heap' = m.heap
  /\ deoptimizer' = [deoptimizer EXCEPT !.phase = "done"]
  /\ UNCHANGED <<literals, translations, deoptimizations, codeData, current>>

(***************************************************************************)
(* Runtime_NotifyDeoptimized: Deoptimizer::Grab empties current_, then    *)
(* MaterializeHeapObjects fills the spliced frames, and the deoptimizer is*)
(* deleted.                                                                *)
(***************************************************************************)
NotifyDeoptimized ==
  /\ deoptimizer.phase = "spliced"
  /\ current
  /\ LET m == MaterializeHeapObjects(deoptimizer.result, stack)
     IN /\ stack' = m.stack
        /\ heap' = m.heap
  /\ current' = FALSE
  /\ deoptimizer' = [deoptimizer EXCEPT !.phase = "done"]
  /\ UNCHANGED <<literals, translations, deoptimizations, codeData>>

Next ==
  \/ \E p \in DOMAIN DeoptPoints : RegisterEnvironmentForDeoptimization(p)
  \/ PopulateDeoptimizationData
  \/ \E id \in 0..(Len(deoptimizations) - 1), in \in InputFrames : DeoptimizerNew(id, in)
  \/ ComputeOutputFrames
  \/ SpliceOutputFrames
  \/ NotifyDeoptimized

Spec == Init /\ [][Next]_vars

(***************************************************************************)
(* A deoptimization runs to completion on the thread that hit the bailout *)
(* (no cancellation, no yielding): once the entry has been called it      *)
(* computes the frames, the entry code splices them, and returning into   *)
(* the NotifyDeoptimized builtin calls the runtime.  Registration, the    *)
(* finalization of the code and the bailouts themselves are the           *)
(* program's choice and get no fairness.                                   *)
(*                                                                         *)
(* Each conjunct is WF_vars(A) written as <>[]E => []<><<A>>_vars, with  *)
(* E the action's enabling condition: each of the three actions assigns  *)
(* every primed variable and changes the phase, so ENABLED <<A>>_vars is *)
(* exactly its guard, which TLC then need not evaluate by search.         *)
(***************************************************************************)
DeoptimizationStepsFair ==
  /\ <>[](deoptimizer.phase = "captured") => []<><<ComputeOutputFrames>>_vars
  /\ <>[](deoptimizer.phase = "computed") => []<><<SpliceOutputFrames>>_vars
  /\ <>[](deoptimizer.phase = "spliced" /\ current) => []<><<NotifyDeoptimized>>_vars

FairSpec == Spec /\ DeoptimizationStepsFair

-----------------------------------------------------------------------------
\* Type invariant.
TypeOK ==
  /\ literals \in Seq(STRING)
  /\ translations \in Seq(Int)
  /\ deoptimizations \in Seq([point : DOMAIN DeoptPoints,
                              entry : [deoptimizationIndex : Nat, translationIndex : Nat,
                                       astId : Int]])
  /\ \A i \in 1..Len(deoptimizations) :
       deoptimizations[i].entry.translationIndex \in 0..(Len(translations) - 1)
  /\ codeData.populated \in BOOLEAN
  /\ current \in BOOLEAN
  /\ deoptimizer.phase \in {"none", "captured", "computed", "spliced", "done"}
  /\ \A k \in 1..Len(stack) :
       /\ stack[k].type \in FrameTypes
       /\ \A j \in 1..Len(stack[k].slots) : IsSlotValue(stack[k].slots[j])

(***************************************************************************)
(* What a frame value denotes, read straight from the compiler's view of  *)
(* the point and the captured input frame: the tagged word, the number    *)
(* (as a Smi only when it is in Smi range), the constant, or an object.   *)
(***************************************************************************)
RawValue(lv, in) ==
  CASE lv.kind = "Register" -> in.regs[lv.index]
    [] lv.kind = "DoubleRegister" -> in.dregs[lv.index]
    [] lv.kind \in {"StackSlot", "DoubleStackSlot"} -> in.stack[lv.index]
    [] lv.kind = "Argument" -> in.stack[SpillSlotCount + lv.index]

NumberDenotes(v, num) ==
  \/ SameValue(v, HeapNumber(num))
  \/ num[2] = 0 /\ SameValue(v, Smi(num[1])) /\ IsValidSmi(num[1])

SlotDenotes(v, lv, in) ==
  CASE lv.kind = "Object" -> v.t = "obj"
    [] lv.kind = "Constant" -> SameValue(v, LiteralValue(lv.index))
    [] lv.kind \in {"DoubleRegister", "DoubleStackSlot"} ->
         SameValue(v, HeapNumber(Int32Number(RawValue(lv, in))))
    [] lv.rep = "tagged" -> SameValue(v, Tagged(RawValue(lv, in)))
    [] lv.rep = "int32" -> NumberDenotes(v, Int32Number(RawValue(lv, in)))
    [] lv.rep = "uint32" -> NumberDenotes(v, Uint32Number(RawValue(lv, in)))

\* Pairs <<identity, compiler object>> reachable from the frames through fields.
ObjectPairs(frames) ==
  LET top == UNION {{<<stack[f].slots[j].v, frames[f].values[j].index>> :
                       j \in {j \in 1..Len(frames[f].values) :
                                frames[f].values[j].kind = "Object" /\ j <= Len(stack[f].slots)
                                /\ stack[f].slots[j].t = "obj"}} :
                     f \in {f \in 1..Len(frames) : f <= Len(stack)}}
      Step(P) == P \cup UNION
        {{<<heap[pr[1]].fields[i].v, Objects[pr[2]].fields[i].index>> :
            i \in {i \in 1..Len(Objects[pr[2]].fields) :
                     i <= Len(heap[pr[1]].fields)
                     /\ Objects[pr[2]].fields[i].kind = "Object"
                     /\ heap[pr[1]].fields[i].t = "obj"}} :
           pr \in {pr \in P : pr[1] \in DOMAIN heap}}
      RECURSIVE Close(_, _)
      Close(P, n) == IF n = 0 THEN P ELSE Close(Step(P), n - 1)
  IN Close(top, Cardinality(DOMAIN Objects))

(***************************************************************************)
(* RoundTrip: once Runtime_NotifyDeoptimized has run, the stack holds one *)
(* frame per frame of the point, of the same type and function, and every *)
(* slot denotes the value the optimized code had there, whatever the      *)
(* order in which points were registered into the shared buffer and pool. *)
(* Every object the compiler did not allocate was materialized with the   *)
(* same kind and fields, and two slots or fields hold the same object     *)
(* exactly when they held the same object in the optimized code, across  *)
(* frames and through cycles.  This is what WriteTranslation /            *)
(* AddToTranslation, the reader, MaterializeNextHeapObject and            *)
(* FunctionGetArguments must agree on.                                     *)
(***************************************************************************)
RoundTrip ==
  deoptimizer.phase = "done" =>
    LET frames == DeoptPoints[deoptimizations[deoptimizer.bailoutId + 1].point]
        in == deoptimizer.input
        P == ObjectPairs(frames)
    IN /\ Len(stack) = Len(frames)
       /\ \A f \in 1..Len(frames) :
            /\ stack[f].type = frames[f].type
            /\ stack[f].function = frames[f].closure
            /\ Len(stack[f].slots) = Len(frames[f].values)
            /\ \A j \in 1..Len(frames[f].values) :
                 SlotDenotes(stack[f].slots[j], frames[f].values[j], in)
       /\ \A pr \in P :
            /\ pr[1] \in DOMAIN heap
            /\ heap[pr[1]].isArgs = Objects[pr[2]].isArgs
            /\ Len(heap[pr[1]].fields) = Len(Objects[pr[2]].fields)
            /\ \A i \in 1..Len(Objects[pr[2]].fields) :
                 SlotDenotes(heap[pr[1]].fields[i], Objects[pr[2]].fields[i], in)
       /\ \A pr, qr \in P : (pr[1] = qr[1]) <=> (pr[2] = qr[2])

(***************************************************************************)
(* TranslationConsumedExactly: decoding the translation of a bailout id   *)
(* succeeds, yields as many frames as the point has, and stops exactly    *)
(* where the next registered translation begins (or at the end of the     *)
(* buffer): the heights and object lengths WriteTranslation declares agree*)
(* with the commands it emits, as the reader counts them.                  *)
(***************************************************************************)
NextTranslationIndex(id) ==
  IF id + 1 < Len(codeData.entries) THEN codeData.entries[id + 2].translationIndex
  ELSE Len(codeData.translations)

TranslationConsumedExactly ==
  deoptimizer.phase \in {"computed", "spliced", "done"} =>
    LET r == deoptimizer.result
        id == deoptimizer.bailoutId
    IN /\ r.ok
       /\ r.pos = NextTranslationIndex(id)
       /\ Len(r.frames) = Len(DeoptPoints[deoptimizations[id + 1].point])

-----------------------------------------------------------------------------
(***************************************************************************)
(* The lifecycle the specification promises (DeoptLifecycle), read off   *)
(* the detailed state: the registered points in deoptimization-index      *)
(* order, the code data populated, the bailout that occupies current_,   *)
(* and the one whose deoptimizer has finished.                            *)
(***************************************************************************)
NoBailout == [none |-> TRUE]
BailoutOf(d) == [id |-> d.bailoutId, input |-> d.input]

Lifecycle == INSTANCE DeoptLifecycle WITH
  Points <- DOMAIN DeoptPoints,
  Inputs <- InputFrames,
  registered <- [i \in 1..Len(deoptimizations) |-> deoptimizations[i].point],
  frozen <- codeData.populated,
  inflight <- IF current THEN BailoutOf(deoptimizer) ELSE NoBailout,
  completed <- IF deoptimizer.phase = "done" THEN BailoutOf(deoptimizer)
               ELSE NoBailout

(***************************************************************************)
(* LifecycleRefined: registration, PopulateDeoptimizationData,            *)
(* Deoptimizer::New through current_, the entry code and                  *)
(* Runtime_NotifyDeoptimized with Deoptimizer::Grab implement the safety  *)
(* of the abstract lifecycle: points are registered once and only before *)
(* the code is finalized, a bailout starts only when current_ is empty    *)
(* and names a registered index, the compute and splice steps change     *)
(* nothing the lifecycle sees, and Grab empties current_ in the same step*)
(* that finishes the deoptimizer.                                          *)
(***************************************************************************)
LifecycleRefined == Lifecycle!SafetySpec

(***************************************************************************)
(* BailoutCompletes, the liveness of the lifecycle under FairSpec: once  *)
(* Deoptimizer::New has captured a bailout, the frames are computed and  *)
(* spliced and Runtime_NotifyDeoptimized grabs the deoptimizer back out  *)
(* of current_, so the deoptimization finishes with current_ empty and a *)
(* next bailout can start.                                                 *)
(***************************************************************************)
BailoutCompletes == deoptimizer.phase = "captured" ~> (deoptimizer.phase = "done" /\ ~current)

(***************************************************************************)
(* SplicedAfterMaterialization, the order the specification gives:       *)
(* frame reconstruction, then object materialization, then stack         *)
(* splicing.  Then no step puts a frame on the stack that still holds an *)
(* arguments marker, the placeholder DoTranslateObject leaves where an    *)
(* object is to be materialized.  The code has MaterializeHeapObjects    *)
(* walk the frames with a JavaScriptFrameIterator, after the entry code  *)
(* has spliced them.                                                       *)
(***************************************************************************)
SplicedAfterMaterialization ==
  [][stack' # stack =>
       \A k \in 1..Len(stack') :
         \A j \in 1..Len(stack'[k].slots) : ~IsArgumentsMarker(stack'[k].slots[j])]_vars

-----------------------------------------------------------------------------
(***************************************************************************)
(* What a JavaScriptFrameIterator sees.  Before the bailout the optimized *)
(* frame stands for all functions inlined into it: OptimizedFrame::       *)
(* GetFunctions (frames.cc, not in this repository) reads the closures of *)
(* the JS_FRAME commands of the translation at the frame's deoptimization *)
(* index, outermost first, skipping every other command by its operand    *)
(* count.  After it, the spliced stack has one JavaScript frame per JS    *)
(* frame of the translation; adaptor, construct and getter frames are not *)
(* JavaScript frames.  The frames below are the same in both.              *)
(***************************************************************************)
RECURSIVE TranslationFunctions(_, _, _, _)
TranslationFunctions(ctx, pos, jsframes, acc) ==
  LET op == At(ctx.buf, pos)
  IN CASE jsframes <= 0 \/ ~HasNext(ctx.buf, pos) -> acc
       [] op = JS_FRAME ->
            TranslationFunctions(ctx, pos + 1 + NumberOfOperandsFor(op), jsframes - 1,
                                 Append(acc, ComputeLiteral(ctx, At(ctx.buf, pos + 2))))
       [] OTHER -> TranslationFunctions(ctx, pos + 1 + NumberOfOperandsFor(op), jsframes, acc)

OptimizedFrameFunctions(d) ==
  LET start == codeData.entries[d.bailoutId + 1].translationIndex
  IN TranslationFunctions(DecodeContext(d), start + 3, At(codeData.translations, start + 2), <<>>)

(***************************************************************************)
(* SlotRef::ComputeSlotMappingForArguments with SlotRef::GetValue         *)
(* (deoptimizer.cc, not in this repository): for the JS frame skip frames *)
(* after the outermost, the arguments after the receiver of the adaptor  *)
(* frame just before it (height - 1 of them) if there is one, else its    *)
(* first formal-parameter-count values after the receiver; a number that *)
(* is no Smi is boxed.                                                     *)
(***************************************************************************)
SlotRefValue(ctx, op, arg) ==
  IF op \in ValueOpcodes /\ OperandIsValid(ctx, op, arg)
  THEN LET r == ReadValue(ctx, op, arg) IN IF r.ready THEN r.val ELSE HeapNumber(r.val)
  ELSE TheHole

RECURSIVE ReadArguments(_, _, _, _)
ReadArguments(ctx, pos, n, acc) ==
  LET op == At(ctx.buf, pos)
  IN IF n <= 0 THEN acc
     ELSE ReadArguments(ctx, pos + 1 + NumberOfOperandsFor(op), n - 1,
                        Append(acc, SlotRefValue(ctx, op, At(ctx.buf, pos + 1))))

SkipReceiver(ctx, pos) == pos + 1 + NumberOfOperandsFor(At(ctx.buf, pos))

RECURSIVE ComputeSlotMappingForArguments(_, _, _, _)
ComputeSlotMappingForArguments(ctx, pos, skip, formalCount) ==
  LET op == At(ctx.buf, pos)
      next == pos + 1 + NumberOfOperandsFor(op)
  IN CASE ~HasNext(ctx.buf, pos) -> <<>>
       [] op = ARGUMENTS_ADAPTOR_FRAME /\ skip = 0 ->
            ReadArguments(ctx, SkipReceiver(ctx, next), At(ctx.buf, pos + 2) - 1, <<>>)
       [] op = JS_FRAME /\ skip = 0 ->
            ReadArguments(ctx, SkipReceiver(ctx, next), formalCount, <<>>)
       [] op = JS_FRAME -> ComputeSlotMappingForArguments(ctx, next, skip - 1, formalCount)
       [] OTHER -> ComputeSlotMappingForArguments(ctx, next, skip, formalCount)

\* The frames below, the same before and after: unoptimized, their own
\* arguments left out.
CallerViews ==
  [i \in DOMAIN CallerFrames |->
     [functions |-> CallerFrames[i], optimized |-> FALSE, argumentsSlot |-> NoArgumentsSlot,
      parameters |-> <<>>, inlined |-> <<>>]]

(***************************************************************************)
(* The optimized frame of function_ (Self): its parameters are tagged     *)
(* words in the caller's part of the input frame, below the receiver.     *)
(***************************************************************************)
FramesBeforeBailout(d) ==
  LET fns == OptimizedFrameFunctions(d)
      start == codeData.entries[d.bailoutId + 1].translationIndex
      n == FormalParameterCount[Self]
  IN << [functions |-> fns, optimized |-> TRUE, argumentsSlot |-> NoArgumentsSlot,
         parameters |-> [i \in 1..n |-> Tagged(d.input.stack[i - 1 - n])],
         inlined |-> [i \in DOMAIN fns |->
                       IF i = 1 THEN <<>>
                       ELSE ComputeSlotMappingForArguments(DecodeContext(d), start + 3, i - 1,
                                                           FormalParameterCount[fns[i]])]] >>
     \o CallerViews

FramesAfterDeoptimization == StackFrameViews(stack) \o CallerViews

(***************************************************************************)
(* CallerPreservedByDeopt: once a deoptimization has finished, f.caller   *)
(* (Accessors::FunctionGetCaller) gives for every receiver what it gave   *)
(* while the optimized frame was on the stack: FrameFunctionIterator's    *)
(* walk through the functions inlined into one frame, innermost first,    *)
(* and the frames the deoptimizer builds from the same translation must   *)
(* spell the same call chain.  Each view is computed once per state.     *)
(***************************************************************************)
CallerPreservedByDeopt ==
  deoptimizer.phase = "done" =>
    \A before \in {FramesBeforeBailout(deoptimizer)}, after \in {FramesAfterDeoptimization} :
      \A r \in Receivers : FunctionGetCaller(after, r) = FunctionGetCaller(before, r)

(***************************************************************************)
(* ArgumentsPreservedByDeopt: once a deoptimization has finished,         *)
(* f.arguments (Accessors::FunctionGetArguments) holds for every receiver *)
(* the values it held while the optimized frame was on the stack: for an *)
(* inlined function the object built from the deoptimization input data  *)
(* by SlotRef::ComputeSlotMappingForArguments, afterwards the arguments   *)
(* object the deoptimizer materialized (from the adaptor frame through    *)
(* this same accessor, or from the captured fields), or a fresh one from  *)
(* the unoptimized frames.                                                  *)
(***************************************************************************)
ArgumentsSeen(a) ==
  IF a.kind = "slot" /\ a.values[1].t = "obj" /\ a.values[1].v \in DOMAIN heap
  THEN [kind |-> "object", values |-> heap[a.values[1].v].fields]
  ELSE [kind |-> IF a.kind \in {"slot", "fresh"} THEN "object" ELSE a.kind, values |-> a.values]

ArgumentsPreservedByDeopt ==
  deoptimizer.phase = "done" =>
    \A before \in {FramesBeforeBailout(deoptimizer)}, after \in {FramesAfterDeoptimization} :
      \A r \in Receivers :
        ArgumentsSeen(FunctionGetArguments(after, r)) = ArgumentsSeen(FunctionGetArguments(before, r))
====
