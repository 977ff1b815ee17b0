------------------------------ MODULE LazyDeopt ------------------------------
(***************************************************************************)
(* Lazy deoptimization sites and safepoints as the MIPS LCodeGen emits    *)
(* them.  When optimized code is deoptimized lazily, the Deoptimizer      *)
(* overwrites the code at the pc of every environment registered with     *)
(* Safepoint::kLazyDeopt by a call of patch_size() bytes to that          *)
(* environment's deoptimization entry; a frame suspended in a call        *)
(* resumes at the call's return address (its safepoint) and runs into    *)
(* the patched site.  LCodeGen keeps the sites patch_size apart with      *)
(* EnsureSpaceForLazyDeopt and last_lazy_deopt_pc_, and the safepoint     *)
(* table builder gives every lazy safepoint the deoptimization index      *)
(* recorded after it (RecordLazyDeoptimizationIndex).                     *)
(*                                                                         *)
(* The main code is a sequence of Lithium instructions chosen by the      *)
(* model (every call is followed, maybe after gap moves, by its           *)
(* LLazyBailout); the deferred code is emitted after it, in order.  Pcs   *)
(* count instructions (Assembler::kInstrSize bytes each).  Only optimized *)
(* functions are modelled: stubs return early from EnsureSpaceForLazy-    *)
(* Deopt and never patch.                                                 *)
(***************************************************************************)
EXTENDS Integers, Sequences, FiniteSets

CONSTANTS
  MaxInstructions   \* Lithium instructions in the main code

ASSUME MaxInstructions \in Nat

\* Deoptimizer::patch_size(): lui, ori, jalr and the delay-slot nop.
PatchSize == 4

\* Instructions of the emitted sequences (li of a relocatable or CONSTANT_SIZE
\* operand is lui + ori; a call is jalr + its delay-slot nop).
CallCodeSize == 4            \* Call(code): li t9, jalr, nop
CallRuntimeSize == 7         \* li a0, li a1, CallStub(CEntryStub)
StackLimitCheckSize == 3     \* LoadRoot(at, kStackLimitRootIndex), Branch, nop
PushSafepointRegistersSize == 20
PopSafepointRegistersSize == 20
JumpSize == 2                \* jmp exit: j, nop

\* CallKnownFunction with a direct call: li a1 unless a1 holds the function,
\* lw cp, li a0 when arguments need no adaptation, SetCallKind, lw at, Call(at).
KnownCallSize(a1Uninitialized, dontAdapt) ==
  (IF a1Uninitialized THEN 2 ELSE 0) + 1 + (IF dontAdapt THEN 1 ELSE 0) + 1 + 1 + 2

\* DoInstanceOfKnownGlobal's main code before and after the map_check label.
InstanceOfBeforeMapCheck == 4   \* JumpIfSmi, lw map
InstanceOfAfterMapCheck == 20   \* the call-site cache, null / string tests, branches

-----------------------------------------------------------------------------
(***************************************************************************)
(* EnsureSpaceForLazyDeopt pads with nops until the pc is space_needed    *)
(* past the last lazy deoptimization site.                                *)
(***************************************************************************)
\* Mutant: the padding one instruction short.
EnsureSpaceForLazyDeoptShort(pc, lastLazyPc, spaceNeeded) ==
  IF pc < lastLazyPc + spaceNeeded - 1 THEN lastLazyPc + spaceNeeded - 1 ELSE pc

EnsureSpaceForLazyDeopt(pc, lastLazyPc, spaceNeeded) ==
  IF pc < lastLazyPc + spaceNeeded THEN lastLazyPc + spaceNeeded ELSE pc

\* No deoptimization index (Safepoint::kNoDeoptimizationIndex); no lazy pc.
NoIndex == 0
NoPc == -1

(***************************************************************************)
(* RegisterEnvironmentForDeoptimization: an environment not yet           *)
(* registered is appended to deoptimizations_ (its index is its position) *)
(* with the current pc when registered for lazy deopt, else -1.           *)
(***************************************************************************)
RegisterEnvironment(deopts, env, pc, lazy) ==
  IF \E i \in DOMAIN deopts : deopts[i].env = env THEN deopts
  ELSE Append(deopts, [env |-> env, pc |-> IF lazy THEN pc ELSE NoPc])

DeoptimizationIndex(deopts, env) == CHOOSE i \in DOMAIN deopts : deopts[i].env = env

(***************************************************************************)
(* SafepointTableBuilder: DefineSafepoint appends a safepoint at the pc   *)
(* (resume is where control goes on in the main code after it: the pc    *)
(* itself, or the exit of the deferred code it is in); a kNoLazyDeopt     *)
(* safepoint moves last_lazy_safepoint_ past itself.                      *)
(* RecordLazyDeoptimizationIndex gives the index to every safepoint from  *)
(* last_lazy_safepoint_ on.                                               *)
(***************************************************************************)
DefineSafepoint(sb, pc, resume, lazy) ==
  LET list == Append(sb.list, [pc |-> pc, resume |-> resume, lazy |-> lazy, index |-> NoIndex])
  IN [list |-> list, lastLazy |-> IF lazy THEN sb.lastLazy ELSE Len(list)]

\* Mutant: last_lazy_safepoint_ left one past the end.
RecordLazyDeoptimizationIndexPastEnd(sb, index) ==
  [list |-> [k \in DOMAIN sb.list |->
               IF k > sb.lastLazy THEN [sb.list[k] EXCEPT !.index = index] ELSE sb.list[k]],
   lastLazy |-> Len(sb.list) + 1]

RecordLazyDeoptimizationIndex(sb, index) ==
  [list |-> [k \in DOMAIN sb.list |->
               IF k > sb.lastLazy THEN [sb.list[k] EXCEPT !.index = index] ELSE sb.list[k]],
   lastLazy |-> Len(sb.list)]

-----------------------------------------------------------------------------
VARIABLES
  phase,        \* "body", "deferred" (GenerateDeferredCode) or "done"
  pc,           \* masm()->pc_offset()
  lastLazyPc,   \* last_lazy_deopt_pc_
  emitted,      \* Lithium instructions of the main code emitted
  pending,      \* the call ("call" / "instanceof") awaiting its LLazyBailout
  envs,         \* LEnvironments created so far (ids 1..envs)
  deopts,       \* deoptimizations_: <<[env, pc]>>
  safepoints,   \* the safepoint table builder: [list, lastLazy]
  deferred,     \* deferred_: <<[kind, env, exit, mapCheck]>>
  generated,    \* deferred codes generated
  instanceof    \* [mapCheck, delta, ret] of each deferred InstanceofStub call

vars == <<phase, pc, lastLazyPc, emitted, pending, envs, deopts, safepoints, deferred,
          generated, instanceof>>

Init ==
  /\ phase = "body" /\ pc = 0 /\ lastLazyPc = 0 /\ emitted = 0 /\ pending = "none"
  /\ envs = 0 /\ deopts = <<>> /\ safepoints = [list |-> <<>>, lastLazy |-> 0]
  /\ deferred = <<>> /\ generated = 0 /\ instanceof = {}
-----------------------------------------------------------------------------
(***************************************************************************)
(* The main code (GenerateBody).  A call records a lazy safepoint at its  *)
(* return address and leaves its LLazyBailout pending; gap moves may come *)
(* between them.                                                          *)
(***************************************************************************)
EmitInstruction ==
  /\ phase = "body" /\ emitted < MaxInstructions
  /\ emitted' = emitted + 1

\* Gap moves and instructions without calls or deopts.
DoGapMoves ==
  /\ EmitInstruction
  /\ \E size \in {1, 2} : pc' = pc + size
  /\ UNCHANGED <<phase, lastLazyPc, pending, envs, deopts, safepoints, deferred, generated, instanceof>>

\* A call whose return address becomes a lazy safepoint.
EmitCall(start, size) ==
  /\ pc' = start + size
  /\ safepoints' = DefineSafepoint(safepoints, start + size, start + size, TRUE)
  /\ pending' = "call"
  /\ UNCHANGED <<phase, lastLazyPc, envs, deopts, deferred, generated, instanceof>>

\* CallCode / CallCodeGeneric: EnsureSpaceForLazyDeopt, Call, RecordSafepointWithLazyDeopt.
DoCallCode ==
  /\ EmitInstruction /\ pending = "none"
  /\ EmitCall(EnsureSpaceForLazyDeopt(pc, lastLazyPc, PatchSize), CallCodeSize)

\* CallRuntime: MacroAssembler::CallRuntime, RecordSafepointWithLazyDeopt.
DoCallRuntime ==
  /\ EmitInstruction /\ pending = "none"
  /\ EmitCall(pc, CallRuntimeSize)

\* CallKnownFunction when the function can be invoked directly.
DoCallKnownFunction ==
  /\ EmitInstruction /\ pending = "none"
  /\ \E a1Uninitialized, dontAdapt \in BOOLEAN :
       EmitCall(pc, KnownCallSize(a1Uninitialized, dontAdapt))

\* DoLazyBailout: a new lazy site past the previous one, registered with its
\* pc; the deoptimization index goes to the safepoints recorded since the
\* last one, and to the deferred InstanceofStub call of the instruction.
DoLazyBailout ==
  /\ phase = "body" /\ pending # "none" /\ emitted' = emitted + 1
  /\ LET site == EnsureSpaceForLazyDeopt(pc, lastLazyPc, PatchSize)
         env == envs + 1
         registered == RegisterEnvironment(deopts, env, site, TRUE)
     IN /\ pc' = site /\ lastLazyPc' = site /\ envs' = env /\ deopts' = registered
        /\ safepoints' = RecordLazyDeoptimizationIndex(safepoints, DeoptimizationIndex(registered, env))
        /\ deferred' = IF pending = "instanceof"
                       THEN [deferred EXCEPT ![Len(deferred)].env = env] ELSE deferred
  /\ pending' = "none"
  /\ UNCHANGED <<phase, generated, instanceof>>

\* An instruction with one or two DeoptimizeIf checks on its environment,
\* registered once without a lazy pc (a branch and its delay slot each).
DoDeoptimizeIf ==
  /\ EmitInstruction /\ pending = "none"
  /\ \E checks \in {1, 2} :
       LET env == envs + 1
           once == RegisterEnvironment(deopts, env, pc, FALSE)
       IN /\ deopts' = IF checks = 1 THEN once ELSE RegisterEnvironment(once, env, pc, FALSE)
          /\ pc' = pc + 2 * checks /\ envs' = env
  /\ UNCHANGED <<phase, lastLazyPc, pending, safepoints, deferred, generated, instanceof>>
\* GeneratePrologue, when the function allocates a local context: push a1,
\* FastNewContextStub or Runtime::kNewFunctionContext, a kNoLazyDeopt safepoint.
DoAllocateContext ==
  /\ EmitInstruction /\ emitted = 0
  /\ \E size \in {CallCodeSize, CallRuntimeSize} :
       /\ pc' = pc + 1 + size
       /\ safepoints' = DefineSafepoint(safepoints, pc + 1 + size, pc + 1 + size, FALSE)
  /\ UNCHANGED <<phase, lastLazyPc, pending, envs, deopts, deferred, generated, instanceof>>

\* DoStackCheck at the function entry: the StackCheck builtin is called
\* inline and the lazy site is the label after it.
DoStackCheckEntry ==
  /\ EmitInstruction /\ pending = "none"
  /\ LET call == EnsureSpaceForLazyDeopt(pc + StackLimitCheckSize, lastLazyPc, PatchSize)
         ret == call + CallCodeSize
         site == EnsureSpaceForLazyDeopt(ret, lastLazyPc, PatchSize)
         env == envs + 1
         registered == RegisterEnvironment(deopts, env, site, TRUE)
     IN /\ pc' = site /\ lastLazyPc' = site /\ envs' = env /\ deopts' = registered
        /\ safepoints' = RecordLazyDeoptimizationIndex(DefineSafepoint(safepoints, ret, ret, TRUE),
                                                       DeoptimizationIndex(registered, env))
  /\ UNCHANGED <<phase, pending, deferred, generated, instanceof>>

\* DoStackCheck on a back edge: the lazy site is the done label the deferred
\* stack check returns to; its index is recorded by the deferred code.
DoStackCheckBackedge ==
  /\ EmitInstruction /\ pending = "none"
  /\ LET site == EnsureSpaceForLazyDeopt(pc + StackLimitCheckSize, lastLazyPc, PatchSize)
         env == envs + 1
     IN /\ pc' = site /\ lastLazyPc' = site /\ envs' = env
        /\ deopts' = RegisterEnvironment(deopts, env, site, TRUE)
        /\ deferred' = Append(deferred, [kind |-> "stack", env |-> env, exit |-> site, mapCheck |-> NoPc])
  /\ UNCHANGED <<phase, pending, safepoints, generated, instanceof>>

\* DoInstanceOfKnownGlobal: the map_check label, the inline cache and the
\* branch to the deferred InstanceofStub call; the exit is the done label.
DoInstanceOfKnownGlobal ==
  /\ EmitInstruction /\ pending = "none"
  /\ LET mapCheck == pc + InstanceOfBeforeMapCheck
         exit == mapCheck + InstanceOfAfterMapCheck
     IN /\ pc' = exit
        /\ deferred' = Append(deferred, [kind |-> "instanceof", env |-> NoIndex, exit |-> exit,
                                         mapCheck |-> mapCheck])
  /\ pending' = "instanceof"
  /\ UNCHANGED <<phase, lastLazyPc, envs, deopts, safepoints, generated, instanceof>>

\* An instruction whose slow path calls the runtime from deferred code
\* (DoNumberTagD, DoAllocate, DoStringCharCodeAt...): a branch to it.
DoDeferredRuntimeInstruction ==
  /\ EmitInstruction /\ pending = "none"
  /\ pc' = pc + JumpSize
  /\ deferred' = Append(deferred, [kind |-> "runtime", env |-> NoIndex, exit |-> pc + JumpSize,
                                   mapCheck |-> NoPc])
  /\ UNCHANGED <<phase, lastLazyPc, pending, envs, deopts, safepoints, generated, instanceof>>

\* GenerateBody ends when the last instruction is emitted.
FinishBody ==
  /\ phase = "body" /\ pending = "none"
  /\ phase' = "deferred"
  /\ UNCHANGED <<pc, lastLazyPc, emitted, pending, envs, deopts, safepoints, deferred, generated, instanceof>>
-----------------------------------------------------------------------------
(***************************************************************************)
(* GenerateDeferredCode: each deferred code, in the order of deferred_,   *)
(* saves the registers (PushSafepointRegistersScope), loads the context   *)
(* (a move, lw or li), calls, and jumps back to its exit.                 *)
(***************************************************************************)
NextDeferred == deferred[generated + 1]

GenerateDeferred(kind) ==
  /\ phase = "deferred" /\ generated < Len(deferred) /\ NextDeferred.kind = kind
  /\ generated' = generated + 1

\* The tail of every deferred code: pop the registers, jmp exit.
DeferredTail(p) == p + PopSafepointRegistersSize + JumpSize

\* Mutant: the deferred stack check records no deoptimization index.
DeferredStackCheckSafepointsUnindexed(sb, table, item, ret) ==
  DefineSafepoint(sb, ret, item.exit, TRUE)

\* DoDeferredStackCheck: CallRuntimeSaveDoubles(kStackGuard), a lazy
\* safepoint with registers, the index of the stack check's environment.
DeferredStackCheckSafepoints(sb, table, item, ret) ==
  RecordLazyDeoptimizationIndex(DefineSafepoint(sb, ret, item.exit, TRUE),
                                DeoptimizationIndex(table, item.env))

DoDeferredStackCheck ==
  /\ GenerateDeferred("stack")
  /\ \E context \in {1, 2} :
       LET ret == pc + PushSafepointRegistersSize + context + CallRuntimeSize
       IN /\ safepoints' = DeferredStackCheckSafepoints(safepoints, deopts, NextDeferred, ret)
          /\ pc' = DeferredTail(ret)
  /\ UNCHANGED <<phase, lastLazyPc, emitted, pending, envs, deopts, deferred, instanceof>>

\* Mutant: kAdditionalDelta one short.
InstanceOfDeltaShort(mapCheck, beforePushDelta) == beforePushDelta - mapCheck + 6

\* delta = InstructionsGeneratedSince(map_check) + kAdditionalDelta, where
\* kAdditionalDelta = 7 counts li temp (2), StoreToSafepointRegisterSlot (1)
\* and the Call (4) up to the return address.
InstanceOfDelta(mapCheck, beforePushDelta) == beforePushDelta - mapCheck + 7

\* DoDeferredInstanceOfKnownGlobal: li right (the function), li temp delta,
\* sw, CallCodeGeneric(InstanceofStub) with its EnsureSpaceForLazyDeopt and
\* lazy safepoint, the index of the deferred lazy environment, sw result.
DoDeferredInstanceOfKnownGlobal ==
  /\ GenerateDeferred("instanceof")
  /\ \E context \in {1, 2} :
       LET item == NextDeferred
           beforePushDelta == pc + PushSafepointRegistersSize + context + 2
           call == EnsureSpaceForLazyDeopt(beforePushDelta + 3, lastLazyPc, PatchSize)
           ret == call + CallCodeSize
       IN /\ safepoints' = RecordLazyDeoptimizationIndex(
                              DefineSafepoint(safepoints, ret, item.exit, TRUE),
                              DeoptimizationIndex(deopts, item.env))
          /\ instanceof' = instanceof \cup
               {[mapCheck |-> item.mapCheck, delta |-> InstanceOfDelta(item.mapCheck, beforePushDelta),
                 ret |-> ret]}
          /\ pc' = DeferredTail(ret + 1)
  /\ UNCHANGED <<phase, lastLazyPc, emitted, pending, envs, deopts, deferred>>

\* CallRuntimeFromDeferred: a kNoLazyDeopt safepoint with registers.
DoDeferredRuntimeCall ==
  /\ GenerateDeferred("runtime")
  /\ \E context \in {1, 2} :
       LET ret == pc + PushSafepointRegistersSize + context + CallRuntimeSize
       IN /\ safepoints' = DefineSafepoint(safepoints, ret, NextDeferred.exit, FALSE)
          /\ pc' = DeferredTail(ret + 1)
  /\ UNCHANGED <<phase, lastLazyPc, emitted, pending, envs, deopts, deferred, instanceof>>

FinishDeferred ==
  /\ phase = "deferred" /\ generated = Len(deferred)
  /\ phase' = "done"
  /\ UNCHANGED <<pc, lastLazyPc, emitted, pending, envs, deopts, safepoints, deferred, generated, instanceof>>

Next ==
  \/ DoGapMoves \/ DoCallCode \/ DoCallRuntime \/ DoCallKnownFunction \/ DoLazyBailout
  \/ DoDeoptimizeIf \/ DoAllocateContext \/ DoStackCheckEntry \/ DoStackCheckBackedge
  \/ DoInstanceOfKnownGlobal \/ DoDeferredRuntimeInstruction \/ FinishBody
  \/ DoDeferredStackCheck \/ DoDeferredInstanceOfKnownGlobal \/ DoDeferredRuntimeCall
  \/ FinishDeferred

Spec == Init /\ [][Next]_vars

-----------------------------------------------------------------------------
\* The lazy sites: the pcs of the environments registered for lazy deopt.
LazySites == {deopts[i].pc : i \in {j \in DOMAIN deopts : deopts[j].pc # NoPc}}

Safepoint(k) == safepoints.list[k]

TypeOK ==
  /\ phase \in {"body", "deferred", "done"}
  /\ pc \in Nat /\ lastLazyPc \in Nat /\ lastLazyPc <= pc
  /\ emitted \in 0..MaxInstructions + 1 /\ envs \in Nat
  /\ pending \in {"none", "call", "instanceof"}
  /\ safepoints.lastLazy \in 0..Len(safepoints.list)
  /\ generated \in 0..Len(deferred)

\* The Deoptimizer's patch of a lazy site (patch_size() instructions) never
\* overlaps another site's patch, and no call returns into the middle of a
\* patch: EnsureSpaceForLazyDeopt's padding in DoLazyBailout, DoStackCheck
\* and CallCodeGeneric, and the call sequences of CallRuntime and
\* CallKnownFunction being at least patch_size long, keep them apart.
PatchSitesDisjoint ==
  /\ \A s, t \in LazySites : s < t => s + PatchSize <= t
  /\ \A s \in LazySites, k \in DOMAIN safepoints.list :
       ~(s < Safepoint(k).pc /\ Safepoint(k).pc < s + PatchSize)

\* The lazy site control reaches after a safepoint's call returns.
SiteAfter(p) == CHOOSE s \in LazySites : s >= p /\ \A t \in LazySites : t >= p => s <= t

\* Once the code is generated, every lazy safepoint carries the index of the
\* environment whose site control runs into when its call returns (so a lazy
\* deopt of a frame stopped there uses that environment's translation), and
\* a kNoLazyDeopt safepoint carries none: RecordLazyDeoptimizationIndex in
\* DoLazyBailout, DoStackCheck and the deferred stack check and instanceof.
SafepointIndexesSound ==
  phase = "done" =>
    \A k \in DOMAIN safepoints.list :
      IF Safepoint(k).lazy
      THEN /\ Safepoint(k).index \in DOMAIN deopts
           /\ \E s \in LazySites : s >= Safepoint(k).resume
           /\ deopts[Safepoint(k).index].pc = SiteAfter(Safepoint(k).resume)
      ELSE Safepoint(k).index = NoIndex

\* The InstanceofStub finds the inline cache it patches at its return address
\* minus the delta DoDeferredInstanceOfKnownGlobal passes in t0's slot.
InstanceOfDeltaExact == \A r \in instanceof : r.ret - r.delta = r.mapCheck
====
