--------------------------- MODULE DeoptJumpTable ---------------------------
(***************************************************************************)
(* How an optimized function or stub (LCodeGen, MIPS) reaches the         *)
(* deoptimization entry of a bailout, and the isolate-wide tables of      *)
(* entries those calls land in.                                            *)
(*                                                                         *)
(* Each LCodeGen::DeoptimizeIf registers the environment, asks for the    *)
(* entry of (deoptimization index, bailout type), which grows the table of*)
(* that type in DeoptimizerData, and then either calls the entry directly *)
(* or branches to an entry of deopt_jump_table_, reusing the last one when*)
(* it matches.  GenerateDeoptJumpTable emits the table after the body:    *)
(* per entry, load t9 with the entry address, and for entries that need a *)
(* frame build a STUB frame in one shared trampoline before calling t9.   *)
(* The emitted sites and the table are then executed: each site ends in a *)
(* call of some address with some number of frames pushed.  Compilations  *)
(* follow one another and share the entry tables.                          *)
(*                                                                         *)
(* An entry address is modelled as the pair <<type, id>>: the entry of   *)
(* index id in the table of that type (base + id * table_entry_size_).    *)
(***************************************************************************)
EXTENDS Integers, Sequences, SequencesExt

CONSTANTS
  Points,               \* the environments code generation may deoptimize to
  kMinNumberOfEntries,  \* Deoptimizer::kMinNumberOfEntries (64), scaled down
  kMaxNumberOfEntries,  \* Deoptimizer::kMaxNumberOfEntries (16384), scaled down
  MaxSites,             \* deoptimization sites per compilation
  DeoptEveryNTimes,     \* FLAG_deopt_every_n_times: 0 or 1 on MIPS
  OptCount              \* info()->opt_count() of the compiled function

ASSUME DeoptEveryNTimes \in {0, 1}
ASSUME 0 < kMinNumberOfEntries /\ kMinNumberOfEntries <= kMaxNumberOfEntries

VARIABLES
  isStub,           \* info()->IsStub() of the current compilation
  status,           \* LCodeGen::status_: "generating", "done" or "aborted"
  deoptimizations,  \* LCodeGen::deoptimizations_ (the points, by index)
  jumpTable,        \* LCodeGen::deopt_jump_table_
  sites,            \* the deoptimization sites emitted so far
  code,             \* the instructions GenerateDeoptJumpTable emitted
  labels,           \* label -> position in code
  entryCount,       \* DeoptimizerData::deopt_entry_code_entries_
  executed          \* the outcome of the latest site executed

vars == <<isStub, status, deoptimizations, jumpTable, sites, code, labels,
          entryCount, executed>>

\* Deoptimizer::BailoutType; DEBUGGER has no code entry.
BailoutTypes == {"EAGER", "LAZY", "SOFT"}
Conditions == {"al", "ne"}
NULL == <<"NULL", -1>>
NoRun == [site |-> 0]

Entry(type, id) == <<type, id>>

(***************************************************************************)
(* Deoptimizer::EnsureCodeForDeoptimizationEntry: nothing when the table   *)
(* of this type already has max_entry_id; otherwise at least               *)
(* kMinNumberOfEntries, doubled until it covers max_entry_id.              *)
(***************************************************************************)
RECURSIVE GrowEntryCount(_, _)
GrowEntryCount(n, maxEntryId) ==
  IF maxEntryId >= n THEN GrowEntryCount(2 * n, maxEntryId) ELSE n

EnsureCodeForDeoptimizationEntry(counts, type, maxEntryId) ==
  IF maxEntryId < counts[type] THEN counts
  ELSE [counts EXCEPT ![type] =
          GrowEntryCount(Max({@, kMinNumberOfEntries}), maxEntryId)]

\* Mutant: the limit check off by one.
GetDeoptimizationEntryUpToMax(counts, id, type) ==
  IF id > kMaxNumberOfEntries THEN [address |-> NULL, counts |-> counts]
  ELSE [address |-> Entry(type, id),
        counts |-> EnsureCodeForDeoptimizationEntry(counts, type, id)]

\* Deoptimizer::GetDeoptimizationEntry (ENSURE_ENTRY_CODE): the address and
\* the tables after it.
GetDeoptimizationEntry(counts, id, type) ==
  IF id >= kMaxNumberOfEntries THEN [address |-> NULL, counts |-> counts]
  ELSE [address |-> Entry(type, id),
        counts |-> EnsureCodeForDeoptimizationEntry(counts, type, id)]

\* The bailout id the entry code passes to Deoptimizer::New: the index of
\* the entry in its table (TableEntryGenerator::GeneratePrologue).
BailoutIdOf(address) == address[2]

(***************************************************************************)
(* RegisterEnvironmentForDeoptimization, as far as the index goes: an     *)
(* environment not yet registered takes the next index.                   *)
(***************************************************************************)
Register(p) == IF p \in ToSet(deoptimizations) THEN deoptimizations
               ELSE Append(deoptimizations, p)

(***************************************************************************)
(* The jump-table part of LCodeGen::DeoptimizeIf: reuse the last entry    *)
(* when address, bailout type and needs_frame all match, else add one;   *)
(* the site branches to the last entry.                                    *)
(***************************************************************************)
\* Mutant: reuse the last entry whatever its needs_frame.
AddJumpTableEntryIgnoringFrame(table, entry, type, frameIsBuilt) ==
  IF table = <<>> \/ Last(table).address # entry \/ Last(table).bailoutType # type
    THEN Append(table, [address |-> entry, bailoutType |-> type,
                        needsFrame |-> ~frameIsBuilt])
    ELSE table

AddJumpTableEntry(table, entry, type, frameIsBuilt) ==
  IF \/ table = <<>>
     \/ Last(table).address # entry
     \/ Last(table).bailoutType # type
     \/ Last(table).needsFrame # ~frameIsBuilt
    THEN Append(table, [address |-> entry, bailoutType |-> type,
                        needsFrame |-> ~frameIsBuilt])
    ELSE table

(***************************************************************************)
(* The site DeoptimizeIf emits once it has an entry: a direct call of the *)
(* entry, or a branch to the last entry of the jump table after adding   *)
(* one if the last does not match.                                         *)
(***************************************************************************)
EmitSite(p, type, frameIsBuilt, direct, address) ==
  LET table == IF direct THEN jumpTable
               ELSE AddJumpTableEntry(jumpTable, address, type, frameIsBuilt)
  IN /\ jumpTable' = table
     /\ sites' = Append(sites,
          [point |-> p, type |-> type, frameIsBuilt |-> frameIsBuilt,
           kind |-> IF direct THEN "call" ELSE "branch",
           target |-> IF direct THEN address ELSE <<"entry", Len(table)>>])

(***************************************************************************)
(* LCodeGen::DeoptimizeIf(condition, environment, bailout_type).  A NULL  *)
(* entry aborts code generation, after which no more code is generated.   *)
(* With FLAG_deopt_every_n_times a function calls the entry of the point  *)
(* whose index is its opt_count directly; an unconditional site in a     *)
(* built frame calls the entry; every other site branches to the table.  *)
(* The condition is not evaluated: the model executes each site as taken. *)
(***************************************************************************)
\* The deoptimization index of p: its position in deoptimizations_.
IndexIn(deopts, p) == CHOOSE i \in 0..(Len(deopts) - 1) : deopts[i + 1] = p

IsDirectCall(id, condition, frameIsBuilt) ==
  \/ DeoptEveryNTimes = 1 /\ ~isStub /\ OptCount = id
  \/ condition = "al" /\ frameIsBuilt

\* Mutant: no abort when there is no entry.
DeoptimizeIfWithoutAbort(p, condition, type, frameIsBuilt) ==
  LET deopts == Register(p)
      id == IndexIn(deopts, p)
      e == GetDeoptimizationEntry(entryCount, id, type)
  IN /\ deoptimizations' = deopts
     /\ entryCount' = e.counts
     /\ status' = status
     /\ EmitSite(p, type, frameIsBuilt, IsDirectCall(id, condition, frameIsBuilt), e.address)

DeoptimizeIf(p, condition, type, frameIsBuilt) ==
  LET deopts == Register(p)
      id == IndexIn(deopts, p)
      e == GetDeoptimizationEntry(entryCount, id, type)
  IN /\ deoptimizations' = deopts
     /\ entryCount' = e.counts
     /\ IF e.address = NULL
          THEN /\ status' = "aborted"
               /\ UNCHANGED <<jumpTable, sites>>
          ELSE /\ status' = status
               /\ EmitSite(p, type, frameIsBuilt,
                           IsDirectCall(id, condition, frameIsBuilt), e.address)

\* Only a stub may run without a frame (ASSERT(info()->IsStub() || frame_is_built_)).
FrameStates == IF isStub THEN BOOLEAN ELSE {TRUE}

CanEmit == status = "generating" /\ Len(sites) < MaxSites

\* The overload without a bailout type: LAZY in stubs, EAGER otherwise.
DeoptimizeIfDefault(p, condition, frameIsBuilt) ==
  /\ CanEmit
  /\ DeoptimizeIf(p, condition, IF isStub THEN "LAZY" ELSE "EAGER", frameIsBuilt)
  /\ UNCHANGED <<isStub, code, labels, executed>>

\* LCodeGen::DoDeoptimize: the hydrogen type, EAGER turned LAZY in stubs.
DoDeoptimize(p, hydrogenType, frameIsBuilt) ==
  /\ CanEmit
  /\ DeoptimizeIf(p, "al",
                  IF isStub /\ hydrogenType = "EAGER" THEN "LAZY" ELSE hydrogenType,
                  frameIsBuilt)
  /\ UNCHANGED <<isStub, code, labels, executed>>
(***************************************************************************)
(* LCodeGen::GenerateDeoptJumpTable, one entry: bind the entry's label,   *)
(* load t9 with the entry address; an entry that needs a frame branches   *)
(* to the needs_frame trampoline if it is bound, and otherwise binds it   *)
(* here, pushes cp, fp, ra and the STUB marker (one frame) and calls t9;  *)
(* any other entry calls t9.  st is [code, labels].                       *)
(***************************************************************************)
Instr(op, arg) == [op |-> op, arg |-> arg]
NeedsFrame == <<"needs_frame", 0>>
Bind(st, label) == [st EXCEPT !.labels = (label :> Len(st.code) + 1) @@ @]
Emit(st, instr) == [st EXCEPT !.code = Append(@, instr)]

\* Mutant: the trampoline label bound before t9 is loaded.
EmitJumpTableEntryBindingFirst(st, i) ==
  LET e == jumpTable[i]
      here == Bind(st, <<"entry", i>>)
  IN IF e.needsFrame /\ NeedsFrame \notin DOMAIN st.labels
       THEN Emit(Emit(Emit(Bind(here, NeedsFrame), Instr("li", e.address)),
                      Instr("push_frame", 0)), Instr("call_t9", 0))
       ELSE LET loaded == Emit(here, Instr("li", e.address))
            IN CASE ~e.needsFrame -> Emit(loaded, Instr("call_t9", 0))
                 [] OTHER -> Emit(loaded, Instr("branch", NeedsFrame))

EmitJumpTableEntry(st, i) ==
  LET e == jumpTable[i]
      loaded == Emit(Bind(st, <<"entry", i>>), Instr("li", e.address))
  IN CASE ~e.needsFrame -> Emit(loaded, Instr("call_t9", 0))
       [] NeedsFrame \in DOMAIN st.labels -> Emit(loaded, Instr("branch", NeedsFrame))
       [] OTHER -> Emit(Emit(Bind(loaded, NeedsFrame), Instr("push_frame", 0)),
                        Instr("call_t9", 0))

RECURSIVE EmitJumpTable(_, _)
EmitJumpTable(st, i) ==
  IF i > Len(jumpTable) THEN st ELSE EmitJumpTable(EmitJumpTableEntry(st, i), i + 1)

\* The table is the last code emitted; status_ becomes DONE unless aborted.
GenerateDeoptJumpTable ==
  /\ status = "generating"
  /\ LET st == EmitJumpTable([code |-> <<>>, labels |-> <<>>], 1)
     IN /\ code' = st.code
        /\ labels' = st.labels
  /\ status' = "done"
  /\ UNCHANGED <<isStub, deoptimizations, jumpTable, sites, entryCount, executed>>

(***************************************************************************)
(* Running the jump table from a label until it calls t9: the address    *)
(* called and the frames pushed on the way.  fuel bounds the walk.        *)
(***************************************************************************)
RECURSIVE RunFrom(_, _, _, _)
RunFrom(pc, t9, pushed, fuel) ==
  IF fuel = 0 \/ pc > Len(code) THEN [called |-> NULL, pushed |-> pushed]
  ELSE LET i == code[pc] IN
       CASE i.op = "li" -> RunFrom(pc + 1, i.arg, pushed, fuel - 1)
         [] i.op = "branch" -> RunFrom(labels[i.arg], t9, pushed, fuel - 1)
         [] i.op = "push_frame" -> RunFrom(pc + 1, t9, pushed + 1, fuel - 1)
         [] i.op = "call_t9" -> [called |-> t9, pushed |-> pushed]

(***************************************************************************)
(* A deoptimization site of the finished code is taken: a direct call    *)
(* reaches its entry as it is; a branch runs the jump table from the     *)
(* entry's label.                                                          *)
(***************************************************************************)
ExecuteSite(k) ==
  /\ status = "done"
  /\ LET s == sites[k]
         r == IF s.kind = "call" THEN [called |-> s.target, pushed |-> 0]
              ELSE RunFrom(labels[s.target], NULL, 0, Len(code) + 1)
     IN executed' = [site |-> k, point |-> s.point, type |-> s.type,
                     frameIsBuilt |-> s.frameIsBuilt,
                     called |-> r.called, pushed |-> r.pushed]
  /\ UNCHANGED <<isStub, status, deoptimizations, jumpTable, sites, code, labels,
                 entryCount>>

(***************************************************************************)
(* The next compilation, of a function or a stub, with a fresh LCodeGen   *)
(* (status_ GENERATING, empty lists) and the isolate's entry tables.      *)
(***************************************************************************)
NewCompilation(stub) ==
  /\ status \in {"done", "aborted"}
  /\ isStub' = stub
  /\ status' = "generating"
  /\ deoptimizations' = <<>>
  /\ jumpTable' = <<>>
  /\ sites' = <<>>
  /\ code' = <<>>
  /\ labels' = <<>>
  /\ executed' = NoRun
  /\ UNCHANGED entryCount

\* DeoptimizerData::DeoptimizerData: no table has entries yet.
Init ==
  /\ isStub \in BOOLEAN
  /\ status = "generating"
  /\ deoptimizations = <<>>
  /\ jumpTable = <<>>
  /\ sites = <<>>
  /\ code = <<>>
  /\ labels = <<>>
  /\ entryCount = [t \in BailoutTypes |-> -1]
  /\ executed = NoRun

Next ==
  \/ \E p \in Points, c \in Conditions, f \in FrameStates : DeoptimizeIfDefault(p, c, f)
  \/ \E p \in Points, t \in BailoutTypes, f \in FrameStates : DoDeoptimize(p, t, f)
  \/ GenerateDeoptJumpTable
  \/ \E k \in 1..Len(sites) : ExecuteSite(k)
  \/ \E stub \in BOOLEAN : NewCompilation(stub)

Spec == Init /\ [][Next]_vars

-----------------------------------------------------------------------------
TypeOK ==
  /\ isStub \in BOOLEAN
  /\ status \in {"generating", "done", "aborted"}
  /\ deoptimizations \in Seq(Points)
  /\ \A i \in 1..Len(jumpTable) :
       jumpTable[i].bailoutType \in BailoutTypes /\ jumpTable[i].needsFrame \in BOOLEAN
  /\ Len(sites) <= MaxSites
  /\ \A k \in 1..Len(sites) : sites[k].kind \in {"call", "branch"}
  /\ entryCount \in [BailoutTypes -> {-1} \cup (1..kMaxNumberOfEntries)]

(***************************************************************************)
(* A taken deoptimization site calls the entry of its own bailout type   *)
(* whose index is the deoptimization index of its environment, so the    *)
(* entry code hands Deoptimizer::New the bailout id of that environment. *)
(* Sites share jump-table entries and needs-frame sites share one         *)
(* trampoline that calls whatever t9 holds.                                *)
(***************************************************************************)
DeoptReachesOwnEntry ==
  executed # NoRun =>
    /\ executed.called = Entry(executed.type, IndexIn(deoptimizations, executed.point))
    /\ BailoutIdOf(executed.called) = IndexIn(deoptimizations, executed.point)

(***************************************************************************)
(* The deoptimization entry is always called with exactly one frame: a   *)
(* site that has built its frame reaches it without pushing another, and *)
(* a site of a stub without a frame has one built by the trampoline.      *)
(***************************************************************************)
DeoptCalledWithOneFrame ==
  executed # NoRun =>
    executed.pushed = IF executed.frameIsBuilt THEN 0 ELSE 1

(***************************************************************************)
(* Every site of code that finished generating targets an entry that has *)
(* code: its index is below the entry count of its type's table, which   *)
(* never exceeds kMaxNumberOfEntries.  Tables grow across compilations.   *)
(***************************************************************************)
EntryCodeExists ==
  \A k \in 1..Len(sites) :
    LET t == sites[k].type IN
    /\ IndexIn(deoptimizations, sites[k].point) < entryCount[t]
    /\ entryCount[t] <= kMaxNumberOfEntries
=============================================================================
