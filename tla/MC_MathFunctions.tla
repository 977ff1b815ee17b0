------------------------- MODULE MC_MathFunctions -------------------------
(***************************************************************************)
(* MathFunctions on 8-bit words (Smis are 7-bit).  The doubles tried are   *)
(* the zeros, the halves around them (-0.5 being the one x + 0.5 changes  *)
(* the sign of), values just inside and outside the int32 and 2^32        *)
(* limits, NaN and the infinities; each is also in the heap as a heap     *)
(* number, beside undefined.                                              *)
(***************************************************************************)
EXTENDS MathFunctions, TLC

MC_Doubles == <<IntNum(0), MinusZero, Num(1, 4), Num(-1, 4), Num(1, 2), Num(-1, 2),
                Num(3, 2), Num(-3, 2), Num(5, 2), IntNum(-1), IntNum(7),
                Num(255, 2), Num(-257, 2), IntNum(-128), IntNum(255), IntNum(256),
                NaN, Infinity, NegInfinity>>

MC_HeapNumberPointers == {9 + 2 * (i - 1) : i \in DOMAIN MC_Doubles}

MC_Heap ==
  (1 :> [map |-> "oddball", value |-> NaN])
    @@ [p \in MC_HeapNumberPointers |-> [map |-> "heap_number", value |-> MC_Doubles[(p - 7) \div 2]]]

MC_NanValue == 9 + 2 * 16
MC_IntInputs == {kMinInt, kMinInt + 1, -1, 0, 1, kMaxInt}
MC_TaggedInputs == DOMAIN MC_Heap \cup {-128, -126, -2, 0, 2, 126}
MC_DoubleInputs == {MC_Doubles[i] : i \in DOMAIN MC_Doubles}
=============================================================================
