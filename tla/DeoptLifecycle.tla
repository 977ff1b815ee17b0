--------------------------- MODULE DeoptLifecycle ---------------------------
(***************************************************************************)
(* What the deoptimizer promises one compiled function, with frames and   *)
(* values left out.  While the code is generated, deoptimization points   *)
(* are registered, each once; finalizing the code object freezes the list.*)
(* From then on a bailout may fire at any registered index, but at most   *)
(* one per DeoptimizerData is in flight, and a bailout that fired is      *)
(* never cancelled: it completes, and only then may the next one fire.    *)
(***************************************************************************)
EXTENDS Naturals, Sequences, SequencesExt

CONSTANTS
  Points,      \* the deoptimization points the compiler may register
  Inputs       \* what a bailout may capture

VARIABLES
  registered,  \* the points registered so far, in deoptimization-index order
  frozen,      \* the code object has been finalized
  inflight,    \* the bailout in flight, or NoBailout
  completed    \* the bailout completed last, until another fires

avars == <<registered, frozen, inflight, completed>>

NoBailout == [none |-> TRUE]

Bailouts == [id : Nat, input : Inputs]

Init ==
  /\ registered = <<>>
  /\ frozen = FALSE
  /\ inflight = NoBailout
  /\ completed = NoBailout

Register(p) ==
  /\ ~frozen
  /\ p \notin ToSet(registered)
  /\ registered' = Append(registered, p)
  /\ UNCHANGED <<frozen, inflight, completed>>

Freeze ==
  /\ ~frozen
  /\ registered # <<>>
  /\ frozen' = TRUE
  /\ UNCHANGED <<registered, inflight, completed>>

Fire(id, in) ==
  /\ frozen
  /\ inflight = NoBailout
  /\ id \in 0..(Len(registered) - 1)
  /\ inflight' = [id |-> id, input |-> in]
  /\ completed' = NoBailout
  /\ UNCHANGED <<registered, frozen>>

Complete ==
  /\ inflight # NoBailout
  /\ completed' = inflight
  /\ inflight' = NoBailout
  /\ UNCHANGED <<registered, frozen>>

Next ==
  \/ \E p \in Points : Register(p)
  \/ Freeze
  \/ \E id \in 0..(Len(registered) - 1), in \in Inputs : Fire(id, in)
  \/ Complete

SafetySpec == Init /\ [][Next]_avars

\* Bailouts come when the program wants them; one that has fired completes.
Spec == SafetySpec /\ WF_avars(Complete)

\* What the fairness of Spec gives: a bailout in flight is eventually completed.
Completes == inflight # NoBailout ~> (inflight = NoBailout /\ completed # NoBailout)

TypeOK ==
  /\ registered \in Seq(Points)
  /\ frozen \in BOOLEAN
  /\ inflight \in Bailouts \cup {NoBailout}
  /\ completed \in Bailouts \cup {NoBailout}
=============================================================================
