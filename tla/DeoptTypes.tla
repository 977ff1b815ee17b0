----------------------------- MODULE DeoptTypes -----------------------------
(***************************************************************************)
(* Vocabulary shared by the translation writer (LCodeGen, MIPS) and the    *)
(* translation reader (Deoptimizer): the opcodes of TRANSLATION_OPCODE_LIST *)
(* with their enum values, the operand shapes of LEnvironment values, the  *)
(* Smi range of a 32-bit target, and the values an output frame slot can  *)
(* hold.                                                                   *)
(***************************************************************************)
EXTENDS Integers, Sequences, SequencesExt

CONSTANTS
  Self,                 \* info()->closure(): the function being optimized
  FormalParameterCount, \* function -> shared()->formal_parameter_count()
  ArgumentsSlotIndex,   \* function -> ScopeInfo::StackSlotIndex(arguments), -1 if none
  SpillSlotCount,       \* LCodeGen::GetStackSlotCount()
  StubParameterCount,   \* value count of a COMPILED_STUB_FRAME
  SmiValueBits          \* kSmiValueSize: 31 on a 32-bit target

\* Translation::Opcode, in the order of TRANSLATION_OPCODE_LIST.
BEGIN == 0
JS_FRAME == 1
CONSTRUCT_STUB_FRAME == 2
GETTER_STUB_FRAME == 3
SETTER_STUB_FRAME == 4
ARGUMENTS_ADAPTOR_FRAME == 5
COMPILED_STUB_FRAME == 6
DUPLICATED_OBJECT == 7
ARGUMENTS_OBJECT == 8
CAPTURED_OBJECT == 9
REGISTER == 10
INT32_REGISTER == 11
UINT32_REGISTER == 12
DOUBLE_REGISTER == 13
STACK_SLOT == 14
INT32_STACK_SLOT == 15
UINT32_STACK_SLOT == 16
DOUBLE_STACK_SLOT == 17
LITERAL == 18

FrameOpcodes == {JS_FRAME, CONSTRUCT_STUB_FRAME, GETTER_STUB_FRAME,
                 SETTER_STUB_FRAME, ARGUMENTS_ADAPTOR_FRAME, COMPILED_STUB_FRAME}
ObjectOpcodes == {ARGUMENTS_OBJECT, CAPTURED_OBJECT}
ValueOpcodes == REGISTER .. LITERAL

kSelfLiteralId == -239

\* Smi::kMinValue .. Smi::kMaxValue.
SmiMaxValue == 2^(SmiValueBits - 1) - 1
SmiMinValue == -(2^(SmiValueBits - 1))
IsValidSmi(n) == SmiMinValue <= n /\ n <= SmiMaxValue

(***************************************************************************)
(* A number is the pair <<n, w>> standing for n + w * 2^32, so that the    *)
(* uint32 reading of a word with its top bit set stays exact.  A word n    *)
(* read as int32 is <<n, 0>>; read as uint32 it is <<n, 1>> when n < 0.    *)
(***************************************************************************)
Int32Number(n) == <<n, 0>>
Uint32Number(n) == IF n < 0 THEN <<n, 1>> ELSE <<n, 0>>

(***************************************************************************)
(* StackFrame::Type of an environment (the frame_type() switch).           *)
(***************************************************************************)
FrameTypes == {"JS_FUNCTION", "JS_CONSTRUCT", "JS_GETTER", "JS_SETTER",
               "STUB", "ARGUMENTS_ADAPTOR"}

(***************************************************************************)
(* An environment value as the optimizing compiler sees it: an operand     *)
(* kind, its index (register code, slot index, constant or object id) and  *)
(* its representation (HasTaggedValueAt / HasUint32ValueAt).  "Object" is *)
(* a value the compiler did not allocate (captured or arguments object); *)
(* in the LEnvironment it becomes the materialization marker.             *)
(***************************************************************************)
OperandKinds == {"Register", "DoubleRegister", "StackSlot", "DoubleStackSlot",
                 "Argument", "Constant", "Object", "Marker"}
Reps == {"tagged", "int32", "uint32", "double"}

(***************************************************************************)
(* What a slot of an output frame, or a field of a materialized object,   *)
(* holds: a tagged word copied from the input frame, a Smi, a heap number,*)
(* a literal of the code's literal array, a heap object, the hole written  *)
(* where a heap number is still to be allocated, and the arguments marker *)
(* written where an object is still to be materialized.                   *)
(***************************************************************************)
Tagged(x) == [t |-> "tagged", v |-> x]
Smi(n) == [t |-> "smi", v |-> n]
HeapNumber(n) == [t |-> "num", v |-> n]
LiteralValue(c) == [t |-> "lit", v |-> c]
HeapObject(id) == [t |-> "obj", v |-> id]
TheHole == [t |-> "hole", v |-> 0]
ArgumentsMarker == [t |-> "marker", v |-> 0]
\* Value equality that compares the payloads only of values of one kind.
SameValue(a, b) == a.t = b.t /\ a.v = b.v
IsArgumentsMarker(x) == x.t = "marker"

IsSlotValue(x) ==
  CASE x.t \in {"tagged", "smi", "obj"} -> x.v \in Int
    [] x.t = "num" -> x.v \in Int \X {0, 1}
    [] x.t = "lit" -> x.v \in STRING
    [] x.t \in {"hole", "marker", "null"} -> x.v = 0
    [] OTHER -> FALSE
=============================================================================
