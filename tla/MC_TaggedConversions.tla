------------------------ MODULE MC_TaggedConversions ------------------------
(***************************************************************************)
(* TaggedConversions on 8-bit words (Smis are 7-bit, Smi::kMaxValue 63).  *)
(* The heap holds the oddballs undefined, true and false, a string "7",   *)
(* and one heap number for each double tried: the zeros, halves and      *)
(* integers on both sides of the Smi and int32 limits, NaN (the NaN root) *)
(* and the infinities.  Stale registers hold a Smi, -1 (an odd word that  *)
(* is no object) or the true and false roots.                             *)
(***************************************************************************)
EXTENDS TaggedConversions, TLC

Object(map, v) == [map |-> map, value |-> v]

MC_Doubles == <<IntNum(0), MinusZero, IntNum(1), IntNum(-1), Num(1, 2), Num(-1, 2),
                Num(-5, 2), IntNum(63), IntNum(64), IntNum(-64), IntNum(-65),
                IntNum(127), IntNum(128), IntNum(-128), IntNum(-129), IntNum(257),
                NaN, Infinity, NegInfinity>>

MC_HeapNumberPointers == {9 + 2 * (i - 1) : i \in DOMAIN MC_Doubles}

MC_Heap ==
  (1 :> Object("oddball", NaN)) @@ (3 :> Object("oddball", IntNum(1)))
    @@ (5 :> Object("oddball", IntNum(0))) @@ (7 :> Object("string", IntNum(7)))
    @@ [p \in MC_HeapNumberPointers |-> Object("heap_number", MC_Doubles[(p - 7) \div 2])]

\* NaN is the 17th double.
MC_NanValue == 9 + 2 * 16

MC_IntInputs == {kMinInt, kMinInt + 1, -65, -64, -1, 0, 1, 63, 64, 65, kMaxInt}
MC_TaggedInputs == DOMAIN MC_Heap \cup {-128, -126, -2, 0, 2, 126}
MC_DoubleInputs == {MC_Doubles[i] : i \in DOMAIN MC_Doubles}
MC_Unpredictable == {-1, 0, 3, 5}
=============================================================================
