# Deoptimization in V8 (MIPS code generator): a TLA+ model

The repository holds a slice of V8. The files are:

- `src/mips/lithium-codegen-mips.cc`: the MIPS optimizing code generator, LCodeGen.
- `src/deoptimizer.h`: the deoptimizer's declarations, translation opcodes, SlotRef and DeoptimizerData.
- `src/accessors.cc`: `Function.prototype.arguments` and other accessors.
- `src/builtins.h`, `src/globals.h`, `src/x64/frames-x64.h`: constants and declarations.

Deoptimization is the protocol that ties these together.

1. **Code generation.** While it emits an optimized function or stub, LCodeGen describes every point where the code may bail out. For each point, `RegisterEnvironmentForDeoptimization` writes a *translation* into a shared TranslationBuffer: per frame of the inlining chain, one command per value, plus commands for objects the compiler never allocated. It also registers the environment under a *deoptimization index*.
2. **Deoptimization sites.** `DeoptimizeIf` turns each bailout into a call of the *deoptimization entry* of that index and bailout type. The call is either direct or goes through a jump table emitted by `GenerateDeoptJumpTable`. Entries live in per-type tables owned by the isolate (`DeoptimizerData`), which grow as later compilations need more indices.
3. **Bailout.** The entry creates a Deoptimizer (`Deoptimizer::New`, held in `DeoptimizerData::current_`) with the index as bailout id. The deoptimizer reads the translation back against the captured registers and stack and builds the unoptimized output frames.
4. **Materialization.** After the frames are on the stack, `Runtime_NotifyDeoptimized` takes the deoptimizer back (`Grab`). It then materializes heap numbers, captured objects and arguments objects into the frames (`MaterializeHeapObjects`, which uses `Accessors::FunctionGetArguments` for adapted arguments).

Only the header of the deoptimizer is in the repository. Definitions that model `deoptimizer.cc`, the chunk builder and the runtime are therefore written from `spec.md` and the header's declarations. They are marked `spec_modelled` in `PROJECT.json`.

## Modules

| Module | Models | State / actions |
|---|---|---|
| `DeoptTypes` | Translation opcodes (`TRANSLATION_OPCODE_LIST`), `kSelfLiteralId`, the Smi range, and the values a slot can hold | constants and operators only |
| `TranslationWriter` | `WriteTranslation`, `AddToTranslation` (every Store* command, captured/arguments/duplicated objects), `DefineDeoptimizationLiteral`, `PopulateDeoptimizationLiteralsWithInlinedFunctions`, `RegisterEnvironmentForDeoptimization` | pure operators over the buffer and literal pool |
| `TranslationReader` | `DoComputeOutputFrames` and the frame/command/object decoding, `SlotRef::GetValue`, `ArgumentsObjectIsAdapted/Function`, `MaterializeHeapObjects` with `MaterializeNextHeapObject/Value`, the views of unoptimized stack frames the function accessors read (`GetExpression`, `GetParameter`, `AdvanceToArgumentsFrame`) | pure operators |
| `FunctionAccessors` | `Accessors::FunctionGetCaller` with `FrameFunctionIterator` (`next`, `Find`, `GetFunctions`), `Accessors::FunctionGetArguments`, `FindInstanceOf` | pure operators over a sequence of frame views, top first |
| `DeoptRoundTrip` | One optimized function from registration to deoptimization | variables `literals`, `translations`, `deoptimizations`, `codeData`, `current`, `deoptimizer`, `stack`, `heap`; actions `RegisterEnvironmentForDeoptimization`, `PopulateDeoptimizationData`, `DeoptimizerNew`, `ComputeOutputFrames`, `SpliceOutputFrames`, `NotifyDeoptimized` |
| `DeoptLifecycle` | What the deoptimizer promises, without frames or values: points registered once before the code is finalized, then bailouts at registered indices, at most one in flight, each completed | variables `registered`, `frozen`, `inflight`, `completed`; actions `Register`, `Freeze`, `Fire`, `Complete`; `Spec` with weak fairness on `Complete` |
| `DeoptJumpTable` | `DeoptimizeIf` (both overloads), `DoDeoptimize`, `GenerateDeoptJumpTable`, the entry tables (`GetDeoptimizationEntry`, `EnsureCodeForDeoptimizationEntry`), execution of the emitted sites and table | variables `isStub`, `status`, `deoptimizations`, `jumpTable`, `sites`, `code`, `labels`, `entryCount`, `executed`; actions `DeoptimizeIfDefault`, `DoDeoptimize`, `GenerateDeoptJumpTable`, `ExecuteSite`, `NewCompilation` |
| `Int32Words` | Register words of `WordBits` bits, the MIPS instructions on them (wrapping add, `mult`/`mfhi`/`mflo`, `div`, shifts), exact JavaScript numbers with -0, NaN and the infinities | constants and operators only |
| `Int32Arithmetic` | `DoModI`, `DoDivI`, `DoMathFloorOfDiv` with `EmitSignedIntegerDivisionByConstant`, `DoMulI`, `DoAddI`, `DoSubI`, `DoShiftI`, `DoBitI`, `DoBoundsCheck` with `ApplyCheckIf` | variable `last` (the outcome of the last instruction); one action per handler |
| `TaggedWords` | Smi tagging, the heap of oddballs, strings and heap numbers that odd words point to, ToNumber, the double helpers shared by the tagged handlers | constants and operators only |
| `TaggedConversions` | `DoNumberTagI/U/D` and their deferred code, `DoSmiTag`, `DoSmiUntag`, `DoInteger32ToSmi`, `DoUint32ToSmi`, `DoInteger32ToDouble`, `DoUint32ToDouble`, `EmitNumberUntagD`, `DoTaggedToI` with `DoDeferredTaggedToI`, `DoDoubleToI`, `DoDoubleToSmi`, `DoCheckSmi`, `DoCheckNonSmi` | variable `last`; one action per handler |
| `MathFunctions` | `DoMathAbs` (with `DoDeferredMathAbsTaggedHeapNumber`), `DoMathFloor`, `DoMathRound`, `DoMathMinMax`, `DoMathSqrt`, `DoMathPowHalf` | variable `last`; one action per handler |
| `BranchTests` | `EmitBranch`, `EmitBranchF`, `EmitGoto`, `DoBranch`, `DoCompareNumericAndBranch`, `DoCmpHoleAndBranch`, `DoIsObjectAndBranch`, `DoIsStringAndBranch`, `DoIsSmiAndBranch`, `DoIsUndetectableAndBranch`, `DoHasInstanceTypeAndBranch`, `DoTypeofIsAndBranch`, `DoClassOfTestAndBranch` with `EmitClassOfTest`, `DoCmpMapAndBranch`, `DoIsConstructCallAndBranch` with `EmitIsConstructCall`, `DoCheckInstanceType`, `DoCheckValue`, `DoCheckMaps` with `DoDeferredInstanceMigration` | variable `last` (the block reached or the deopt); one action per handler |
| `LazyDeopt` | `EnsureSpaceForLazyDeopt`, `DoLazyBailout`, `DoStackCheck`, `CallCode`/`CallCodeGeneric`, `CallRuntime`, `CallKnownFunction`, `RegisterEnvironmentForDeoptimization`, `RecordSafepoint`, the prologue's context allocation, `GenerateDeferredCode`, `DoDeferredStackCheck`, `DoInstanceOfKnownGlobal` and `DoDeferredInstanceOfKnownGlobal`, `CallRuntimeFromDeferred` | variables `phase`, `pc`, `lastLazyPc`, `emitted`, `pending`, `envs`, `deopts`, `safepoints`, `deferred`, `generated`, `instanceof`; one action per Lithium instruction kind and per deferred code kind |
| `MC_*` | model values and bounds for TLC | |

### DeoptTypes, TranslationWriter and TranslationReader: the data abstraction

- **The translation buffer** is the sequence of int32 values passed to `TranslationBuffer::Add`. The byte encoding of each value is not in the repository.
- **Numbers** are pairs `<<n, w>>` meaning n + w·2^32. This keeps a uint32 word with its top bit set exact even though TLC's integers are 32-bit.
- **Input frames.** A deoptimization point is given in `MC_DeoptRoundTrip` as the chain of frames the compiler sees. The layout the chunk builder makes of them is modelled in `CreateEnvironment`. A bailout captures one of a set of register and stack contents.
- **Materialization timing.** It happens after the output frames are spliced onto the stack, as the header's `MaterializeHeapObjects(JavaScriptFrameIterator*)` shows. An arguments object of an adapted inlined function is built from the adaptor frame on the stack.

### DeoptJumpTable: the control model

- **Entry addresses** are pairs `<<type, index>>`.
- **Emitted code.** The jump table is emitted as an instruction list: `li`, `branch`, `push_frame` (the `MultiPush` and STUB marker that build one frame) and `call_t9`. Labels map to positions in that list.
- **Execution.** `RunFrom` executes the list from a site's label. The model therefore sees what t9 holds when the shared needs-frame trampoline calls it.
- **Taken sites.** A site's condition is not evaluated: each site is executed as taken.

### The instruction handlers: Int32Arithmetic, TaggedConversions, MathFunctions, BranchTests

Each handler of `LCodeGen` emits straight-line MIPS code for one Lithium instruction. These modules model a handler as a pure operator that runs the emitted instructions on its operands and returns an *outcome* record: a deoptimization, or the words left in the result registers (for the branches: the block control reaches). The action of a handler picks operands and the hydrogen facts the optimizing compiler may know (`\E` over small sets), and stores the outcome in `last`; `NextInstruction` clears it. The properties compare each outcome with a reference definition of the JavaScript operation over exact numbers.

- **Words** have `WordBits = 8` bits in the runs (32 on MIPS), so Smis are 7-bit and every dividend of a division can be tried. The constants that depend on the width (`kMinInt`, `kMaxInt`, the Smi range, the magic numbers of division) are computed from `WordBits`.
- **Doubles** are exact rationals `[k, n, d]` with the kinds `num`, `minus0`, `nan`, `inf`, `-inf`. The inputs are chosen so that every FPU operation the handlers do on them is exact in IEEE arithmetic too.
- **Square roots** are tried only on inputs whose root is exact (0, 1/4, 256, negatives, the infinities, NaN), so `sqrt_d` needs no rounding.
- **Instance-type checks.** `DoCheckInstanceType` is tried with every check `HCheckInstanceType` makes:
  - the intervals IS_SPEC_OBJECT and IS_JS_ARRAY;
  - the mask/tag checks IS_STRING (one bit, so it takes the `ne` form) and IS_INTERNALIZED_STRING (two bits, so it takes the general `And` and compare);
  - a one-bit mask with a non-zero tag. The code's ASSERT admits this `eq` form, though Hydrogen makes none.

  The instance types keep their enumeration order. Each type also has the two bits the masks read: `kIsNotStringMask` is set from `FIRST_NONSTRING_TYPE` on, and `kIsInternalizedMask` is set for internalized strings (`kInternalizedTag` is the set bit, as in `objects.h` of this version). The heap holds a non-internalized string and an internalized one.
- **Maps of the map check.** `DoCheckMaps` is tried on a plain object and an array. Each has a generation-0 map, which may be deprecated, and the generation-1 map it migrates to. The set is any non-empty set of these maps. It has a migration target when a generation-1 map is in it, and `CanOmitMapChecks` only where the object's map is in it. `Runtime::kMigrateInstance` returns Smi 0 unless the map is deprecated. Because `map_reg` is `scratch0`, the deferred code's store of the result into `scratch0` leaves the object pointer, not a map, in `map_reg` when it jumps back to `check_maps`. The maps therefore never match, and the second runtime call, on a map no longer deprecated, deoptimizes. On MIPS a migrated object always deoptimizes. That is safe, since the unoptimized code then runs, but the migration is wasted. `ChecksSound` asks only that no wrong object passes, so it accepts this.
- **Calling frames** of `%_IsConstructCall` are a chain, nearest first, of at most one arguments adaptor frame and a JavaScript, construct or internal frame, each given by its context and marker slots.
- **Undefined behaviour** (the result of MIPS `div` by zero, a register read before it is written, an unpredictable result) is a choice over `Unpredictable`.
- **Registers of Math.min / Math.max.** The double case runs on a small register file. The allocations are those the chunk builder allows: both operands `UseRegisterAtStart`, the result `DefineAsRegister`, so the result may share an operand's register, and the same value used twice gets one register (`MinMaxAllocations`). This exposes the in-place `neg_d` of the min-of-zeros path.
- **Tagged words.** Even words are Smis; odd words point into the constant `Heap`, with oddballs, strings, symbols, proxies, JS objects (one undetectable), arrays, regexps, functions and heap numbers. In `MC_BranchTests` each object also records its map's constructor (null for the maps `Heap::AllocateMap` makes, the Object, Array or RegExp function otherwise) and each function its instance class name; a map is identified by its type, undetectable bit and constructor. A heap number a handler allocates lives at `NewHeapNumber`. A GC inside a deferred runtime call is a scan of the pointer-map slots of the safepoint.

### FunctionAccessors: f.caller and f.arguments across a bailout

Both accessors walk the JavaScript frames, top first. `FunctionAccessors` sees each frame as a record:

- its functions, outermost first (an optimized frame lists the functions inlined into it);
- whether it is optimized;
- the arguments stack slot of an unoptimized frame's scope;
- the parameters of the frame `AdvanceToArgumentsFrame` reaches;
- for each inlined function, the arguments `ConstructArgumentsObjectForInlinedFunction` builds.

`DeoptRoundTrip` builds these views twice. `FramesBeforeBailout` reads the optimized frame: `OptimizedFrame::GetFunctions` and `SlotRef::ComputeSlotMappingForArguments` walk the translation of the bailout point (both are in `frames.cc` and `deoptimizer.cc`, outside the repository, so they are modelled from the spec). `FramesAfterDeoptimization` reads the spliced stack through `StackFrameViews` of `TranslationReader`. The frames below the optimized one are the constant `CallerFrames`, the same in both views. The two new properties compare the accessors on the two views. A deoptimization must be invisible to them.

### DeoptRoundTrip refines DeoptLifecycle

`DeoptRoundTrip` instantiates `DeoptLifecycle` as `Lifecycle` through a refinement mapping:

- `registered` is the sequence of points of `deoptimizations`;
- `frozen` is `codeData.populated`;
- `inflight` is the bailout (id and input) of the deoptimizer while `current` holds it;
- `completed` is that bailout once the deoptimizer's phase is `done`.

Computing and splicing the frames are stuttering steps of the abstract spec. `Deoptimizer::New` is `Fire`; `Runtime_NotifyDeoptimized`, which grabs the deoptimizer and finishes it, is `Complete`.

### LazyDeopt: code generation as a sequence of instructions

When optimized code is deoptimized lazily, the Deoptimizer overwrites the code at every lazy deoptimization site with a call of `patch_size()` instructions. A frame stopped in a call resumes at the call's return address and runs into the next site. `LazyDeopt` models the emission of an optimized function as a sequence of Lithium instructions chosen by TLC:

- `pc` counts instructions. Each action adds the size of the sequence its handler emits and the nops `EnsureSpaceForLazyDeopt` pads with.
- A call (`DoCallCode`, `DoCallRuntime`, `DoCallKnownFunction`) defines a lazy safepoint and leaves `pending` set until its `DoLazyBailout`, which may come after gap moves.
- Stack checks and `instanceof` append entries to `deferred`. After `FinishBody`, the deferred code is generated in order (`DoDeferredStackCheck`, `DoDeferredInstanceOfKnownGlobal`, `DoDeferredRuntimeCall`).
- The safepoint table builder (`DefineSafepoint`, `RecordLazyDeoptimizationIndex`) is not in the repository. It is modelled from its contract in `safepoint-table.h`: a lazy safepoint gets the index recorded after it; a `kNoLazyDeopt` safepoint ends the range.

## Runs

| Run | Checks | Result |
|---|---|---|
| `roundtrip` (`MC_DeoptRoundTrip.cfg`) | `TypeOK`; `RoundTrip`: after a bailout, the frames on the stack have the types, functions and slot values the compiler described, read from the captured input. Captured objects are materialized with their fields, identity, sharing and cycles intact; `TranslationConsumedExactly`: each translation decodes to exactly its frames and ends where the next begins; `LifecycleRefined`: the detailed spec implements the safety of `DeoptLifecycle` under the mapping above; `BailoutCompletes`: under `FairSpec` a captured bailout always reaches `done` with `current_` empty; `CallerPreservedByDeopt`: after a bailout, `f.caller` gives for every receiver the function it gave while the callee was inlined into the optimized frame; `ArgumentsPreservedByDeopt`: after a bailout, `f.arguments` holds for every receiver the values it held before (from the deoptimization input data for an inlined function, and from the materialized object, the arguments slot or the arguments frame after) | passes, about 220,000 states in about 90 s |
| `splice_order` (`MC_DeoptRoundTrip_order.cfg`) | `SplicedAfterMaterialization` (action property): no step puts a frame holding an arguments marker on the stack, the order spec.md gives | violated; see the finding below |
| `jumptable` (`MC_DeoptJumpTable.cfg`) | `TypeOK`; `DeoptReachesOwnEntry`: a taken site calls the entry of its own bailout type and deoptimization index, through a direct call, a reused jump-table entry or the shared trampoline; `DeoptCalledWithOneFrame`: the entry is reached with exactly one frame; `EntryCodeExists`: every emitted site's index has entry code, and the tables never exceed kMaxNumberOfEntries across compilations | passes, about 34,000 states |
| `int32` (`MC_Int32Arithmetic.cfg`) | `TypeOK`; `DivisionSound`, `MultiplicationSound`, `AddSubBitShiftSound`: each handler either deoptimizes or leaves a word its uses accept for the JavaScript result (with the -0, overflow and inexact-division checks that its hydrogen flags require), for every operand and flag combination, the bitwise operations against ECMAScript's bit-by-bit definition; `BoundsCheckSound`: a bounds check deoptimizes exactly when the index is outside `[0, length[` (`[0, length]` with `allow_equality`), for register and constant indexes, int32 and Smi | passes, about 41,500 states |
| `floor_by_two` (`MC_Int32Arithmetic_bytwo.cfg`) | `FloorOfDivByTwoSound`: `Math.floor(x / 2)` and `Math.floor(x / -2)` with a constant divisor | violated; see the findings |
| `tagged` (`MC_TaggedConversions.cfg`) | `TypeOK`; `NumberTagSound`: boxing and Smi tagging keep the number; `UntagSound`: unboxing gives what the uses accept or deoptimizes; `PointerMapSafeAtGC`: a GC inside the deferred heap-number allocation never finds a raw integer or a stale word in the result's pointer-map slot | passes, about 1,500 states |
| `oddball` (`MC_TaggedConversions_oddball.cfg`) | `TruncatedOddballSound`: a truncating `TaggedToI` of true, false or a string | violated; see the findings |
| `math` (`MC_MathFunctions.cfg`) | `TypeOK`; `MathAbsSound`, `MathRoundingSound`, `MathMinMaxSound`: inlined `Math.abs`, `floor`, `round`, `min` and `max` deoptimize or give the ECMAScript result, including -0, NaN, kMinInt, the 2^32 limit and a GC during the boxed `Math.abs`; `MathSqrtSound`: `Math.sqrt` is the square root and `Math.pow(x, 0.5)` differs from it exactly at -inf and -0 | passes, about 1,900 states |
| `minmax_registers` (`MC_MathFunctions_registers.cfg`) | `MinMaxRegistersSound`: the double `Math.min`/`max` result is the ECMAScript one for every register allocation the chunk builder allows, and a left operand in its own register still holds its value afterwards | violated; see the findings |
| `branch` (`MC_BranchTests.cfg`) | `TypeOK` (control never falls off to a missing next block); `BranchSound`: `DoBranch` reaches the block ECMAScript ToBoolean selects, and deoptimizes only on a type the ToBooleanStub has not seen; `CompareSound`: numeric comparisons, NaN and constant operands included; `TypeTestsSound`: the type tests, the map comparison and `%_IsConstructCall` past an adaptor frame; `TypeofSound`: `typeof x == "literal"` with and without `--harmony-typeof`; `ChecksSound`: the deoptimizing instance-type checks (intervals, strings, internalized strings and the one-bit `eq` form), value checks and map checks let through exactly the objects they check, and a map check lets a migrated object through only with a map of the set | passes, about 67,000 states |
| `classof` (`MC_BranchTests_classof.cfg`) | `ClassOfSound`: `%_ClassOf(x) == "Name"` reaches the true block exactly when x is a spec object of that class | violated; see the finding below |
| `lazy_deopt` (`MC_LazyDeopt.cfg`) | `TypeOK`; `PatchSitesDisjoint`: patches of lazy sites never overlap and no call returns into a patch; `SafepointIndexesSound`: after generation, every lazy safepoint names the environment of the site its return runs into, and a `kNoLazyDeopt` safepoint names none; `InstanceOfDeltaExact`: the return address minus the delta passed to the InstanceofStub is the `map_check` label | passes, about 390,000 states |

**Finding (floor_by_two).** For a constant divisor of 2 or -2, `EmitSignedIntegerDivisionByConstant` (`lithium-codegen-mips.cc:1167`) skips `sra scratch, dividend, power - 1` and then shifts `scratch`, which `DoMathFloorOfDiv` never wrote. The rounding bias is the sign of whatever `scratch0` held. With a negative stale value and the dividend kMaxInt the biased sum wraps; on 8-bit words `127 / -2` gives 64.

**Finding (oddball).** In `DoDeferredTaggedToI`'s truncating path the temp register is written only on the heap-number branch (line 4893). The true and false checks (lines 4903 and 4909) compare the temp, not the input, with the roots. TLC finds the string "7" with a temp holding the true root converted to 1.

**Finding (minmax_registers).** On the path for two equal zeros, `DoMathMinMax` computes `Math.min` as `-((-left) - right)` and negates the left operand in place with `neg_d(left_reg, left_reg)` (`lithium-codegen-mips.cc:1864`). The left operand is `UseRegisterAtStart`, so the value can stay live in that register after the instruction. For `Math.min(+0, +0)` it then reads as -0. When both operands are the same value, they share one register, and `Math.min(x, x)` with x = +0 returns -0.

**Finding (classof).** `EmitClassOfTest` (`lithium-codegen-mips.cc:2478`) tests for the non-callable spec object range with one compare: it subtracts `FIRST_NONCALLABLE_SPEC_OBJECT_TYPE` from the instance type and rejects with the signed condition `gt`. A type below the range gives a negative difference and is not rejected, although the next comment says "Now we are in the FIRST-LAST_NONCALLABLE_SPEC_OBJECT_TYPE range". Strings, symbols, oddballs, heap numbers and function proxies then reach the constructor test. Their maps' constructor is null, not a function, so for the class name `Object` the branch goes to true. TLC's trace is `%_ClassOf(undefined) == "Object"` reaching the true block; `%_ClassOf(undefined)` is null. For other class names these values still reach false. An unsigned `hi` would make the test what the comment says.

**Finding (splice_order).** `spec.md` (section 5, ordering guarantees) says materialization strictly precedes stack splicing. The code has it the other way round. `MaterializeHeapObjects(JavaScriptFrameIterator*)` (`deoptimizer.h:214`) walks frames that the entry code has already spliced. TLC shows a splice that installs frames still holding arguments markers.

Each property of a passing run has a mutant in `PROJECT.json` that the property catches. Each mutant is a plausible bug in the code it models:

- the translation index taken after writing;
- the JS height counting parameters;
- uint32 read as int32;
- the entry limit off by one;
- the trampoline label bound before `li t9`;
- jump-table reuse ignoring `needs_frame`;
- no abort on a NULL entry;
- `Addu` without the wrap to 32 bits, the `DoModI` branch whose delay slot always executes, a `mult` overflow test that ignores the sign of `lo`, a logical shift right by zero that does not deoptimize on a negative value, `DoBitI`'s `~0` test made on a Smi constant's value instead of its immediate, a bounds check comparing signed;
- `TruncateDoubleToI` without the reduction modulo 2^32, the deferred `NumberTagI` without the bit-31 flip, an int32 check that accepts -0, the result's pointer-map slot not cleared before the runtime call;
- an integer `Math.abs` negating in a 64-bit register, the tagged `Math.abs` not reloading its input after the runtime call, `Math.round` of ]-0.5, 0.5[ without its -0 check, `Math.min` of two zeros computed like `Math.max`, `Math.pow(x, 0.5)` without the add of +0;
- `nue` replaced by `ne` in `DoBranch`, the unordered pre-test dropped from `DoCompareNumericAndBranch`, a strict instead of a non-strict range test, a too-wide typeof-object range, a map check that exits to success after a migration without comparing the new map, a one-bit instance-type mask check that deoptimizes on `ne` whatever its tag;
- the lazy-deopt padding one instruction short, the deferred stack check without its deoptimization index, `kAdditionalDelta` one short;
- `FrameFunctionIterator::next` fetching the next frame one function early (breaks `CallerPreservedByDeopt`), and `AdvanceToArgumentsFrame` that stays on the function's frame instead of moving to its adaptor frame (breaks `ArgumentsPreservedByDeopt`);
- `NotifyDeoptimized` without `Grab` (breaks `LifecycleRefined`), and a `Deoptimizer::New` that does not record itself in `current_` (breaks `BailoutCompletes`).

## Bounds

**roundtrip.** The model has four deoptimization points:

- f alone, with a cyclic captured object and a nested, duplicated one;
- g inlined with an arguments adaptor, an adapted arguments object and an object shared across frames;
- k inlined as a constructor, with an unadapted arguments object;
- h inlined as a getter.

Registers and slots hold -1, 2^30 (just above `Smi::kMaxValue`) or small values. Together these reach:

- every opcode except `SETTER_STUB_FRAME` and `COMPILED_STUB_FRAME`;
- both sides of every Smi boundary;
- every kind of object reference.

For the accessors, the incoming parameters of f are tagged slots, as incoming parameters always are. The frames below f are a builtin b, a user function m, u, a bound function, a strict function and a toplevel script. The receivers are every function and two plain objects: one with m on its prototype chain and one whose chain ends without a function. So the runs reach every outcome of `FunctionGetCaller`: undefined, the builtin and toplevel skips, bound and strict callers censored to null, and a caller found in an inlined frame or in a frame below. They also reach every branch of `FunctionGetArguments`: the inlined path with and without an adaptor frame before the bailout, and after it the arguments slot holding the materialized object and the parameters of the arguments frame.

**jumptable.** The scaled limits are `kMinNumberOfEntries = 1` and `kMaxNumberOfEntries = 2`. There are three environments and three sites per compilation. The run therefore reaches:

- a table that grows;
- an index without an entry, which aborts the compilation;
- entry reuse and non-reuse;
- stubs with and without frames, and several needs-frame entries sharing one trampoline.

Compilations repeat without bound, sharing the tables. The environments are symmetric model values.

**Instruction handlers.** Words of 8 bits make every boundary of the 32-bit code reachable with a few inputs: kMinInt and kMaxInt, the Smi limits ±64, -1, 0 and 1, the divisors with and without magic numbers, shift amounts 0, 1, 7, 8 and a negative one. The doubles are the zeros, the halves around them, values just inside and outside the int32 and uint32 limits, NaN and the infinities. The branch run has six block layouts (the true block next, the false block next, neither, both the same, and no next block), every ToBooleanStub type set and every HType.

**lazy_deopt.** Five Lithium instructions in the main code are enough for every pair of kinds to follow each other, for two back-edge stack checks in a row (the only sites three instructions apart), and for a call, its gap moves and its lazy bailout followed by deferred code of all three kinds. The instruction sizes are those of the sequences the handlers emit; the context load of deferred code takes one or two instructions.

## Fairness

`FairSpec` of `DeoptRoundTrip` assumes weak fairness of `ComputeOutputFrames`, `SpliceOutputFrames` and `NotifyDeoptimized`, and nothing else. The code justifies this because a deoptimization runs synchronously on the thread that hit the bailout. The entry computes the frames, its code splices them and returns into the `NotifyDeoptimized` builtin, with no yielding and no cancellation (`spec.md`, section 5). Registration, finalization and bailouts are the program's choice, so they are not fair.

Each fairness conjunct is written in its defining form `<>[]E => []<><<A>>_vars`, with E the action's guard. Each of these actions changes the phase, so ENABLED `<<A>>_vars` is exactly the guard. Written as `WF_vars`, TLC would evaluate ENABLED by re-running the decoder without caching, which does not finish.

`MC_LazyDeopt.cfg` sets `CHECK_DEADLOCK FALSE` because code generation ends: the state with `phase = "done"` has no successor. The handler modules never stop, because `NextInstruction` is always enabled once an outcome is recorded.

## Not modelled

- **Frame layout.** Frame sizes, alignment padding, and the register and fp/sp values of output frames.
- **Condition evaluation.** The condition of a deoptimization site, and `FLAG_trap_on_deopt`'s breakpoint. `FLAG_deopt_every_n_times` is modelled but off in the run, as by default.
- **Heap allocation by the accessors.** `NewArgumentsObject` and `NewFixedArray` are abstracted to the sequence of element values.
- **Native inlined functions with an adapted arguments object.** `FunctionGetArguments` returns null for a native function, and materialization casts the result to a `JSObject`. Whether such a function is ever inlined with an argument count mismatch is decided by the Hydrogen graph builder, outside the repository. In the model every inlined function is a user function. Since that cast is outside the repository, the case is not listed as a hazard.
- **The other accessors** (lengths, script, prototype, name, module exports), which are independent property getters.
- **The rest of the code generator:** property and element access, allocation, IC calls, `DoStringCompareAndBranch` (a CompareIC call), `DoHasCachedArrayIndexAndBranch` and `DoGetCachedArrayIndex` (masks over the string hash field, whose layout is in `objects.h`, outside the slice), the clamps, `DoPower` and the transcendental functions (stub and C calls) and the remaining double arithmetic.
- **Outside the repository:** the safepoint table builder and the Deoptimizer's patching, modelled from their contracts; `InvokeFunction` through the arguments adaptor, OSR entries and stubs in `LazyDeopt`.
- **Constant headers:** `builtins.h`, `globals.h`, `frames-x64.h`.

## Plan

- Several contexts (isolates), each with its own `DeoptimizerData`, composed with the lifecycle.
- A `LazyDeopt` variant that also emits the deopt jump table after the deferred code.
