------------------------- MODULE MC_Int32Arithmetic -------------------------
(***************************************************************************)
(* Int32Arithmetic on 8-bit words.  Register operands are the edges of    *)
(* the word and of the Smi range and small values of both signs; every    *)
(* dividend is tried against every constant divisor the chunk builder     *)
(* accepts.                                                               *)
(***************************************************************************)
EXTENDS Int32Arithmetic

MC_RegisterInputs == {kMinInt, kMinInt + 1, -65, -64, -3, -2, -1, 0, 1, 2, 3, 5, 63, 64, kMaxInt}
\* Powers of two, their neighbours, a constant needing Mul, and kMinInt.
MC_ConstantFactors == {kMinInt, -5, -4, -3, -2, -1, 0, 1, 2, 3, 4, 5, 6, 7, 9, 10}
MC_FixedRightArgs == {4}
\* Masked to 0, 1, 3, 7, 0 and 7 (value & (WordBits - 1)).
MC_ShiftConstants == {0, 1, 3, 7, 8, -1}
MC_Unpredictable == {kMinInt, -1, 0, 1, kMaxInt}
=============================================================================
