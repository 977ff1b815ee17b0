-------------------------- MODULE TranslationWriter --------------------------
(***************************************************************************)
(* The writer side of deoptimization translations: how LCodeGen (MIPS)     *)
(* turns the LEnvironment chain of a deoptimization point into commands of *)
(* the shared TranslationBuffer and entries of the literal pool.           *)
(*                                                                         *)
(* The buffer is modelled as the sequence of int32 values passed to        *)
(* TranslationBuffer::Add; the byte-level packing of each value is not in  *)
(* this repository and is left out.  Indices into it (translation.index())*)
(* are 0-based positions in that sequence.                                 *)
(***************************************************************************)
EXTENDS DeoptTypes

CONSTANT Objects  \* object id -> [isArgs: BOOLEAN, fields: Seq(value)]

(***************************************************************************)
(* The LEnvironment built for one frame of a deoptimization point.  The   *)
(* frame's own values come first (translation_size of them); the fields of*)
(* every object to materialize follow, in the pre-order in which the      *)
(* objects are numbered; objects_to_materialize is one list shared by all *)
(* frames of the chain, outermost frame first, so a duplicate may point   *)
(* into an outer frame.  A repeated object becomes a duplicate entry with *)
(* no fields.  This layout is made by the chunk builder, which is not in  *)
(* this repository.                                                        *)
(***************************************************************************)
MaterializationMarker == [kind |-> "Marker", index |-> 0, rep |-> "tagged"]
AsOperand(v) == IF v.kind = "Object" THEN MaterializationMarker ELSE v

RECURSIVE CollectObjects(_, _), AddObjectToMaterialize(_, _)
CollectObjects(vals, acc) ==
  IF vals = <<>> THEN acc
  ELSE CollectObjects(Tail(vals),
         IF Head(vals).kind = "Object"
           THEN AddObjectToMaterialize(Head(vals).index, acc)
           ELSE acc)

AddObjectToMaterialize(o, acc) ==
  LET earlier == {j \in 1..Len(acc.seen) : acc.seen[j] = o}
      seen == Append(acc.seen, o)
      fields == Objects[o].fields
  IN IF earlier # {}
       THEN [acc EXCEPT !.seen = seen,
                        !.mapping = Append(@, [dup |-> Min(earlier) - 1,
                                               length |-> 0, isArgs |-> FALSE])]
       ELSE CollectObjects(fields,
              [seen |-> seen,
               mapping |-> Append(acc.mapping,
                                  [dup |-> -1, length |-> Len(fields),
                                   isArgs |-> Objects[o].isArgs]),
               extra |-> acc.extra \o [i \in 1..Len(fields) |-> AsOperand(fields[i])]])

RECURSIVE LayoutFrames(_, _, _)
LayoutFrames(frames, k, seen) ==
  IF k > Len(frames) THEN <<>>
  ELSE LET f == frames[k]
           acc == CollectObjects(f.values, [seen |-> seen, mapping |-> <<>>, extra |-> <<>>])
           env == [type |-> f.type, closure |-> f.closure, astId |-> f.astId,
                   parameterCount |-> f.parameterCount,
                   translationSize |-> Len(f.values),
                   values |-> [i \in 1..Len(f.values) |-> AsOperand(f.values[i])] \o acc.extra,
                   objects |-> acc.mapping]
       IN <<env>> \o LayoutFrames(frames, k + 1, acc.seen)

CreateEnvironment(frames) == LayoutFrames(frames, 1, <<>>)

(***************************************************************************)
(* LCodeGen::DefineDeoptimizationLiteral: the index of a literal identical*)
(* to x, appending x when there is none.  Returns the new pool and the id.*)
(***************************************************************************)
DefineDeoptimizationLiteral(lits, x) ==
  LET same == {i \in 1..Len(lits) : lits[i] = x}
  IN IF same # {} THEN [lits |-> lits, id |-> Min(same) - 1]
     ELSE [lits |-> Append(lits, x), id |-> Len(lits)]

\* LCodeGen::PopulateDeoptimizationLiteralsWithInlinedFunctions.
RECURSIVE DefineAll(_, _)
DefineAll(lits, xs) ==
  IF xs = <<>> THEN lits
  ELSE DefineAll(DefineDeoptimizationLiteral(lits, Head(xs)).lits, Tail(xs))

PopulateDeoptimizationLiteralsWithInlinedFunctions(inlinedClosures) ==
  DefineAll(<<>>, inlinedClosures)

(***************************************************************************)
(* The Store* command for a non-object operand (the tail of                *)
(* LCodeGen::AddToTranslation); st is [cmds, lits, oi, di].                *)
(***************************************************************************)
StoreOperand(op, st) ==
  LET lit == DefineDeoptimizationLiteral(st.lits, op.index)
      cmd == CASE op.kind = "StackSlot" /\ op.rep = "tagged" -> <<STACK_SLOT, op.index>>
               [] op.kind = "StackSlot" /\ op.rep = "uint32" -> <<UINT32_STACK_SLOT, op.index>>
               [] op.kind = "StackSlot"                      -> <<INT32_STACK_SLOT, op.index>>
               [] op.kind = "DoubleStackSlot"                -> <<DOUBLE_STACK_SLOT, op.index>>
               [] op.kind = "Argument" -> <<STACK_SLOT, SpillSlotCount + op.index>>
               [] op.kind = "Register" /\ op.rep = "tagged"  -> <<REGISTER, op.index>>
               [] op.kind = "Register" /\ op.rep = "uint32"  -> <<UINT32_REGISTER, op.index>>
               [] op.kind = "Register"                       -> <<INT32_REGISTER, op.index>>
               [] op.kind = "DoubleRegister"                 -> <<DOUBLE_REGISTER, op.index>>
               [] op.kind = "Constant"                       -> <<LITERAL, lit.id>>
  IN [st EXCEPT !.cmds = @ \o cmd,
                !.lits = IF op.kind = "Constant" THEN lit.lits ELSE @]

(***************************************************************************)
(* LCodeGen::AddToTranslation.  A marker takes the next object index of   *)
(* this environment; a duplicate emits DUPLICATED_OBJECT, otherwise the    *)
(* object's fields are read from translation_size + dematerialized_index,  *)
(* the index being advanced past them before the fields are visited.       *)
(***************************************************************************)
RECURSIVE AddToTranslation(_, _, _), AddValues(_, _, _, _, _)
AddToTranslation(env, op, st) ==
  IF op.kind = "Marker"
    THEN LET obj == env.objects[st.oi + 1]
             st1 == [st EXCEPT !.oi = @ + 1]
         IN IF obj.dup >= 0
              THEN [st1 EXCEPT !.cmds = @ \o <<DUPLICATED_OBJECT, obj.dup>>]
              ELSE LET envOffset == env.translationSize + st1.di
                       st2 == [st1 EXCEPT
                                 !.cmds = @ \o <<IF obj.isArgs THEN ARGUMENTS_OBJECT
                                                  ELSE CAPTURED_OBJECT, obj.length>>,
                                 !.di = @ + obj.length]
                   IN AddValues(env, envOffset, 0, obj.length, st2)
    ELSE StoreOperand(op, st)

\* The loops "for (int i = 0; i < n; ++i) AddToTranslation(values[base + i])".
AddValues(env, base, i, n, st) ==
  IF i >= n THEN st
  ELSE AddValues(env, base, i + 1, n, AddToTranslation(env, env.values[base + i + 1], st))

(***************************************************************************)
(* LCodeGen::WriteTranslation over envs[1..k] (outermost first): the outer *)
(* environments are written first, then this frame's begin command and    *)
(* one command per value, with fresh object and dematerialized indices.   *)
(***************************************************************************)
\* Mutant: the height of a JS frame counting its parameters.
FrameHeightWithParameters(env) == env.translationSize

FrameHeight(env) == env.translationSize - env.parameterCount

BeginFrame(env, closureId) ==
  CASE env.type = "JS_FUNCTION" -> <<JS_FRAME, env.astId, closureId, FrameHeight(env)>>
    [] env.type = "JS_CONSTRUCT" -> <<CONSTRUCT_STUB_FRAME, closureId, env.translationSize>>
    [] env.type = "JS_GETTER" -> <<GETTER_STUB_FRAME, closureId>>
    [] env.type = "JS_SETTER" -> <<SETTER_STUB_FRAME, closureId>>
    [] env.type = "STUB" -> <<COMPILED_STUB_FRAME>>
    [] env.type = "ARGUMENTS_ADAPTOR" -> <<ARGUMENTS_ADAPTOR_FRAME, closureId, env.translationSize>>

RECURSIVE WriteTranslation(_, _, _)
WriteTranslation(envs, k, st) ==
  IF k = 0 THEN st
  ELSE LET env == envs[k]
           outer == WriteTranslation(envs, k - 1, st)
           hasClosureId == Self # "none" /\ Self # env.closure
           lit == DefineDeoptimizationLiteral(outer.lits, env.closure)
           closureId == IF hasClosureId THEN lit.id ELSE kSelfLiteralId
           begun == [cmds |-> outer.cmds \o BeginFrame(env, closureId),
                     lits |-> IF hasClosureId THEN lit.lits ELSE outer.lits,
                     oi |-> 0, di |-> 0]
           done == AddValues(env, 0, 0, env.translationSize, begun)
       IN [cmds |-> done.cmds, lits |-> done.lits]

(***************************************************************************)
(* LCodeGen::RegisterEnvironmentForDeoptimization for a point that is not *)
(* yet registered: count frames and JS frames, start a Translation at the  *)
(* buffer's current index (BEGIN, frame_count, jsframe_count), write the   *)
(* chain, and register the environment under the next deoptimization     *)
(* index.  Returns the new buffer, pool and entry.                        *)
(***************************************************************************)
TranslationHeader(envs) ==
  <<BEGIN, Len(envs), Cardinality({k \in 1..Len(envs) : envs[k].type = "JS_FUNCTION"})>>

\* Mutant: translation.index() read after the commands were added.
RegisterEnvironmentIndexAfterWrite(frames, buffer, lits, deoptIndex) ==
  LET envs == CreateEnvironment(frames)
      body == WriteTranslation(envs, Len(envs), [cmds |-> <<>>, lits |-> lits])
      buffer2 == buffer \o TranslationHeader(envs) \o body.cmds
  IN [buffer |-> buffer2, lits |-> body.lits,
      entry |-> [deoptimizationIndex |-> deoptIndex, translationIndex |-> Len(buffer2),
                 astId |-> envs[Len(envs)].astId]]

RegisterEnvironment(frames, buffer, lits, deoptIndex) ==
  LET envs == CreateEnvironment(frames)
      body == WriteTranslation(envs, Len(envs), [cmds |-> <<>>, lits |-> lits])
  IN [buffer |-> buffer \o TranslationHeader(envs) \o body.cmds,
      lits |-> body.lits,
      entry |-> [deoptimizationIndex |-> deoptIndex,
                 translationIndex |-> Len(buffer),
                 astId |-> envs[Len(envs)].astId]]
=============================================================================
