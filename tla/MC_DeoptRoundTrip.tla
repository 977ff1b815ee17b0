-------------------------- MODULE MC_DeoptRoundTrip --------------------------
(***************************************************************************)
(* A function f compiled with four deoptimization points:                 *)
(*  P1  f alone, with a captured object o1 holding a nested object o2 and *)
(*      itself, and o2 referenced again from the frame;                    *)
(*  P2  g inlined into f with more arguments than g declares (an arguments*)
(*      adaptor frame), g's arguments object a materialized from the      *)
(*      adaptor frame, and an object o3 shared by f's and g's frames;      *)
(*  P3  k inlined as a constructor, with an arguments object b that is    *)
(*      not adapted;                                                       *)
(*  P4  a getter h inlined into f.                                         *)
(* Registers and stack slots hold -1, 2^30 (just above Smi::kMaxValue)    *)
(* or small values, so that int32 and uint32 values fall on both sides   *)
(* of the Smi range.  Parameters (slots -2 and -1: receiver and first    *)
(* argument) are tagged, as the caller pushed them.                       *)
(***************************************************************************)
EXTENDS DeoptRoundTrip

Reg(i, rep) == [kind |-> "Register", index |-> i, rep |-> rep]
DReg(i) == [kind |-> "DoubleRegister", index |-> i, rep |-> "double"]
Slot(i, rep) == [kind |-> "StackSlot", index |-> i, rep |-> rep]
DSlot(i) == [kind |-> "DoubleStackSlot", index |-> i, rep |-> "double"]
Arg(i) == [kind |-> "Argument", index |-> i, rep |-> "tagged"]
Const(c) == [kind |-> "Constant", index |-> c, rep |-> "tagged"]
Obj(o) == [kind |-> "Object", index |-> o, rep |-> "tagged"]

Frame(type, fn, ast, params, vals) ==
  [type |-> type, closure |-> fn, astId |-> ast, parameterCount |-> params, values |-> vals]

MC_Self == "f"
MC_FormalParameterCount == ("f" :> 1) @@ ("g" :> 1) @@ ("h" :> 0) @@ ("k" :> 1)
MC_ArgumentsSlotIndex == ("f" :> -1) @@ ("g" :> 0) @@ ("h" :> -1) @@ ("k" :> 0)
MC_SpillSlotCount == 2
MC_StubParameterCount == 1
MC_SmiValueBits == 31
MC_InlinedClosures == <<"g", "k", "h">>

MC_Objects ==
     ("o1" :> [isArgs |-> FALSE, fields |-> <<Slot(0, "int32"), Obj("o2"), Obj("o1")>>])
  @@ ("o2" :> [isArgs |-> FALSE, fields |-> <<Const("c2"), DReg(0)>>])
  @@ ("o3" :> [isArgs |-> FALSE, fields |-> <<Reg(0, "uint32")>>])
  @@ ("a" :> [isArgs |-> TRUE, fields |-> <<Reg(1, "int32"), Slot(0, "tagged")>>])
  @@ ("b" :> [isArgs |-> TRUE, fields |-> <<Reg(1, "int32")>>])

MC_DeoptPoints ==
     ("P1" :> <<Frame("JS_FUNCTION", "f", 10, 2,
                  <<Slot(-2, "tagged"), Slot(-1, "tagged"), Reg(1, "uint32"),
                    Obj("o1"), Const("c1"), Obj("o2")>>)>>)
  @@ ("P2" :> <<Frame("JS_FUNCTION", "f", 20, 2,
                  <<Slot(-2, "tagged"), Slot(-1, "tagged"), Reg(0, "int32"), Obj("o3")>>),
                Frame("ARGUMENTS_ADAPTOR", "g", 0, 3,
                  <<Arg(0), Reg(1, "int32"), Slot(0, "tagged")>>),
                Frame("JS_FUNCTION", "g", 30, 2,
                  <<Arg(0), Reg(1, "int32"), Obj("a"), DSlot(1), Obj("o3")>>)>>)
  @@ ("P3" :> <<Frame("JS_FUNCTION", "f", 40, 2,
                  <<Slot(-2, "tagged"), Slot(-1, "tagged"), Reg(0, "tagged")>>),
                Frame("JS_CONSTRUCT", "k", 0, 2, <<Arg(0), Reg(1, "int32")>>),
                Frame("JS_FUNCTION", "k", 50, 2,
                  <<Arg(0), Reg(1, "int32"), Obj("b"), Const("c1")>>)>>)
  @@ ("P4" :> <<Frame("JS_FUNCTION", "f", 60, 2,
                  <<Slot(-2, "tagged"), Slot(-1, "tagged"), Slot(0, "uint32")>>),
                Frame("JS_GETTER", "h", 0, 1, <<Reg(0, "tagged")>>),
                Frame("JS_FUNCTION", "h", 70, 1, <<Reg(0, "tagged"), DReg(0)>>)>>)

Big == 2^30
MC_InputFrames ==
  {[regs |-> r, dregs |-> (0 :> 3), stack |-> s] :
     r \in [{0, 1} -> {-1, Big}],
     s \in {(-2 :> 11) @@ (-1 :> x) @@ (0 :> y) @@ (1 :> 5) @@ (2 :> 12) @@ (3 :> 13) :
              x \in {-1, Big}, y \in {7, Big}}}

(***************************************************************************)
(* Below f: a builtin b (say Array.prototype.forEach) called by a classic *)
(* function m, called by a classic u, called through a bound function bd  *)
(* by a strict function t, called from the top-level script s.  h is a   *)
(* strict getter.  Receivers are every function, an object o2 inheriting *)
(* from m, and a plain object o.                                           *)
(***************************************************************************)
MC_Functions == {"f", "k", "m", "u", "g", "b", "h", "t", "bd", "s"}
MC_SharedInfo ==
  [fn \in MC_Functions |->
     [native |-> fn = "b", builtin |-> fn = "b", toplevel |-> fn = "s", bound |-> fn = "bd",
      classic |-> fn \notin {"h", "t"}]]
MC_PrototypeOf ==
  [r \in MC_Functions \cup {"o2", "o"} |-> IF r = "o2" THEN "m" ELSE "null"]
MC_CallerFrames == << <<"b">>, <<"m">>, <<"u">>, <<"bd">>, <<"t">>, <<"s">> >>
====
