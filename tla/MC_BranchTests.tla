--------------------------- MODULE MC_BranchTests ---------------------------
(***************************************************************************)
(* BranchTests on 8-bit words.  The heap holds the oddballs (undefined,   *)
(* true, false, null, the hole), an empty and a non-empty string, an     *)
(* internalized one-character string, a symbol, one object of each spec  *)
(* object type with an undetectable                                       *)
(* plain object among them, the Array and RegExp functions, and heap      *)
(* numbers for 0, -0, 1/2 and NaN.                                        *)
(* The layouts put the next emitted block at the true block, the false    *)
(* block, neither, or nowhere, and include a branch whose destinations    *)
(* coincide.                                                               *)
(***************************************************************************)
EXTENDS BranchTests

\* Maps made by Heap::AllocateMap have the null constructor (7); the plain
\* object 21, the array 25 and the regexp 27 were made by the Object (29),
\* Array (39) and RegExp (41) functions.
ObjC(m, v, u, l, c, n) ==
  [map |-> m, value |-> v, undetectable |-> u, length |-> l, ctor |-> c, className |-> n]
Obj(m, v, u, l) == ObjC(m, v, u, l, 7, "none")
Fun(n) == ObjC("js_function", NaN, FALSE, 0, 7, n)

MC_Heap ==
  (1 :> Obj("oddball", NaN, FALSE, 0)) @@ (3 :> Obj("oddball", IntNum(1), FALSE, 0))
  @@ (5 :> Obj("oddball", IntNum(0), FALSE, 0)) @@ (7 :> Obj("oddball", IntNum(0), FALSE, 0))
  @@ (9 :> Obj("oddball", NaN, FALSE, 0))
  @@ (11 :> Obj("string", IntNum(0), FALSE, 0)) @@ (13 :> Obj("string", NaN, FALSE, 2))
  @@ (15 :> Obj("symbol", NaN, FALSE, 0)) @@ (43 :> Obj("internalized_string", NaN, FALSE, 1))
  @@ (17 :> Obj("js_function_proxy", NaN, FALSE, 0)) @@ (19 :> Obj("js_proxy", NaN, FALSE, 0))
  @@ (21 :> ObjC("js_object", NaN, FALSE, 0, 29, "none")) @@ (23 :> Obj("js_object", NaN, TRUE, 0))
  @@ (25 :> ObjC("js_array", NaN, FALSE, 0, 39, "none"))
  @@ (27 :> ObjC("js_regexp", NaN, FALSE, 0, 41, "none"))
  @@ (29 :> Fun("Object")) @@ (39 :> Fun("Array")) @@ (41 :> Fun("RegExp"))
  @@ (31 :> Obj("heap_number", IntNum(0), FALSE, 0)) @@ (33 :> Obj("heap_number", MinusZero, FALSE, 0))
  @@ (35 :> Obj("heap_number", Num(1, 2), FALSE, 0)) @@ (37 :> Obj("heap_number", NaN, FALSE, 0))

MC_Layouts ==
  {[t |-> 1, f |-> 1, n |-> 1], [t |-> 1, f |-> 1, n |-> 3], [t |-> 1, f |-> 2, n |-> 1],
   [t |-> 1, f |-> 2, n |-> 2], [t |-> 1, f |-> 2, n |-> 3], [t |-> 1, f |-> 2, n |-> NoNextBlock]}
MC_IntInputs == {kMinInt, -1, 0, 1, kMaxInt}
MC_SmiInputs == {-64, -1, 0, 1, 63}
MC_TaggedInputs == DOMAIN MC_Heap \cup {-2, 0, 2}
MC_DoubleInputs == {IntNum(0), MinusZero, Num(1, 2), IntNum(-1), NaN, HoleNaN, Infinity, NegInfinity}
=============================================================================
