-------------------------- MODULE FunctionAccessors --------------------------
(***************************************************************************)
(* Accessors::FunctionGetCaller (function.caller) and the frame walk it   *)
(* makes, FrameFunctionIterator.  The stack is seen through a             *)
(* JavaScriptFrameIterator: the JavaScript frames only (adaptor, construct*)
(* and getter stub frames are skipped), top frame first.  Each frame      *)
(* gives JavaScriptFrame::GetFunctions: its own function for an           *)
(* unoptimized frame, and for an optimized frame the functions inlined   *)
(* into it, outermost first, as the deoptimization data lists them.       *)
(* FrameFunctionIterator hands them out innermost first, frame by frame,  *)
(* so that it sees the same call chain whether or not a function is      *)
(* inlined.  Accessors::FunctionGetArguments (f.arguments) walks the same *)
(* frames.                                                                 *)
(*                                                                         *)
(* A frame is seen as a record: its functions, whether it is optimized,   *)
(* the arguments stack slot of an unoptimized frame's scope, the          *)
(* parameters of the frame AdvanceToArgumentsFrame reaches, and for an    *)
(* optimized frame the arguments ConstructArgumentsObjectForInlinedFunction*)
(* computes for each inlined function.  The modules that own the frames   *)
(* build these views.                                                      *)
(***************************************************************************)
EXTENDS Integers, Sequences

CONSTANTS
  SharedInfo,   \* function -> [native, builtin, toplevel, bound, classic]
  PrototypeOf   \* receiver -> the next object of its prototype chain, or JSNull

\* The null pointer, and the values the accessor returns besides a function.
NULL == "NULL"
JSNull == "null"
JSUndefined == "undefined"

Functions == DOMAIN SharedInfo
Receivers == DOMAIN PrototypeOf

\* JSFunction::IsBuiltin: the function's global object is the builtins object.
IsBuiltin(fn) == SharedInfo[fn].builtin

(***************************************************************************)
(* FindInstanceOf<JSFunction>: the first function on the receiver's       *)
(* prototype chain, NULL at the end of the chain.                          *)
(***************************************************************************)
RECURSIVE FindInstanceOf(_)
FindInstanceOf(obj) ==
  CASE obj = JSNull -> NULL
    [] obj \in Functions -> obj
    [] OTHER -> FindInstanceOf(PrototypeOf[obj])

(***************************************************************************)
(* FrameFunctionIterator over frames (top first, each a sequence of its   *)
(* functions, outermost first): the frames still to visit, functions_ of  *)
(* the frame being visited and index_ into it (0-based).                   *)
(***************************************************************************)
GetFunctions(it) ==
  IF it.frames = <<>> THEN [it EXCEPT !.fns = <<>>]
  ELSE [frames |-> Tail(it.frames), fns |-> Head(it.frames).functions,
        index |-> Len(Head(it.frames).functions) - 1]

NewFrameFunctionIterator(frames) ==
  GetFunctions([frames |-> frames, fns |-> <<>>, index |-> 0])

\* Mutant: the next frame is fetched one function early, when index_ reaches 0.
NextFetchingEarly(it) ==
  IF it.fns = <<>> THEN [fn |-> NULL, it |-> it]
  ELSE LET it1 == [it EXCEPT !.index = @ - 1]
       IN [fn |-> it.fns[it.index + 1], it |-> IF it1.index <= 0 THEN GetFunctions(it1) ELSE it1]

\* next(): NULL once every frame is done; index_ below 0 fetches the next frame.
NextFunction(it) ==
  IF it.fns = <<>> THEN [fn |-> NULL, it |-> it]
  ELSE LET it1 == [it EXCEPT !.index = @ - 1]
       IN [fn |-> it.fns[it.index + 1], it |-> IF it1.index < 0 THEN GetFunctions(it1) ELSE it1]

\* Find(function): advance past the first occurrence of function.
RECURSIVE Find(_, _)
Find(it, fn) ==
  LET n == NextFunction(it)
  IN CASE n.fn = fn -> [found |-> TRUE, it |-> n.it]
       [] n.fn = NULL -> [found |-> FALSE, it |-> n.it]
       [] OTHER -> Find(n.it, fn)

\* do { caller = it.next(); if (caller == NULL) return null; } while (is_toplevel)
RECURSIVE NextNonToplevel(_)
NextNonToplevel(it) ==
  LET n == NextFunction(it)
  IN IF n.fn # NULL /\ SharedInfo[n.fn].toplevel THEN NextNonToplevel(n.it) ELSE n

\* while (potential_caller != NULL && potential_caller->IsBuiltin())
RECURSIVE SkipBuiltins(_, _, _)
SkipBuiltins(caller, potential, it) ==
  IF potential # NULL /\ IsBuiltin(potential)
  THEN LET n == NextFunction(it) IN SkipBuiltins(potential, n.fn, n.it)
  ELSE [caller |-> caller, potential |-> potential]

(***************************************************************************)
(* Accessors::FunctionGetCaller on the receiver, with the stack given as  *)
(* its JavaScript frames.                                                  *)
(***************************************************************************)
FunctionGetCaller(frames, receiver) ==
  LET holder == FindInstanceOf(receiver)
      found == Find(NewFrameFunctionIterator(frames), holder)
      c == NextNonToplevel(found.it)
      s == SkipBuiltins(c.fn, c.fn, c.it)
      caller == IF ~SharedInfo[s.caller].native /\ s.potential # NULL
                THEN s.potential ELSE s.caller
  IN CASE holder = NULL -> JSUndefined
       [] SharedInfo[holder].native -> JSNull
       [] ~found.found -> JSNull
       [] c.fn = NULL -> JSNull
       [] SharedInfo[caller].bound -> JSNull
       [] ~SharedInfo[caller].classic -> JSNull
       [] OTHER -> caller

(***************************************************************************)
(* Accessors::FunctionGetArguments on the receiver: the top invocation of *)
(* the holder (the first frame that lists it, and in it the innermost     *)
(* listing); an inlined invocation gets a fresh arguments object from the *)
(* deoptimization input data; an unoptimized frame whose scope has an    *)
(* arguments slot not holding the arguments marker gives that slot;      *)
(* otherwise a fresh object holds the parameters of the arguments frame. *)
(***************************************************************************)
NoArgumentsSlot == [present |-> FALSE, marker |-> FALSE, value |-> JSNull]
ArgumentsResult(kind, values) == [kind |-> kind, values |-> values]

FunctionGetArguments(frames, receiver) ==
  LET holder == FindInstanceOf(receiver)
      hits == {k \in DOMAIN frames : \E i \in DOMAIN frames[k].functions :
                                       frames[k].functions[i] = holder}
      fr == frames[CHOOSE k \in hits : \A j \in hits : k <= j]
      i == CHOOSE i \in DOMAIN fr.functions :
             fr.functions[i] = holder /\ \A j \in DOMAIN fr.functions :
                                           fr.functions[j] = holder => j <= i
  IN CASE holder = NULL -> ArgumentsResult("undefined", <<>>)
       [] SharedInfo[holder].native -> ArgumentsResult("null", <<>>)
       [] hits = {} -> ArgumentsResult("null", <<>>)
       [] i > 1 -> ArgumentsResult("fresh", fr.inlined[i])
       [] ~fr.optimized /\ fr.argumentsSlot.present /\ ~fr.argumentsSlot.marker ->
            ArgumentsResult("slot", <<fr.argumentsSlot.value>>)
       [] OTHER -> ArgumentsResult("fresh", fr.parameters)
====
