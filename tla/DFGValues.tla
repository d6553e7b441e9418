------------------------------ MODULE DFGValues ------------------------------
(***************************************************************************)
(* What a machine register or a register-file slot holds while the code   *)
(* emitted by DFGJITCompiler.cpp runs, and what the emitted instructions  *)
(* do to it.                                                               *)
(*                                                                         *)
(* A content is the DFG node whose value it carries and the encoding of    *)
(* that value.  Bits are abstracted to the encoding: an instruction        *)
(* applied to an encoding it was not written for yields Garbage, which    *)
(* carries no node.  A node's runtime value has a kind: "Int" (an int32, *)
(* or an integral double when it sits in an FPR), "Dbl" (a non-integral   *)
(* double) or "Other" (a cell, boolean, undefined...).                     *)
(***************************************************************************)
CONSTANTS Nodes, NoNode

ASSUME NoNode \notin Nodes

Kinds == {"Int", "Dbl", "Other"}

(* raw   : an int32 zero-extended in a GPR (DataFormatInteger)             *)
(* boxI  : a JSValue int32, tag bits or-ed in (DataFormatJSInteger)        *)
(* boxD  : a JSValue double, bits offset by TagTypeNumber (JSDouble)       *)
(* ptr   : any other JSValue (cell, boolean, undefined)                    *)
(* fp    : a native double in an FPR (DataFormatDouble)                    *)
(* bitsD : the raw bits of a double moved to a GPR, not yet offset         *)
(* sum   : a speculative add32 result, the operand still added in         *)
(* xbool : a JSValue xor-ed with ValueFalse by a boolean speculation       *)
Encodings == {"raw", "boxI", "boxD", "ptr", "fp", "bitsD", "sum", "xbool",
              "tagMask", "garbage"}

Content == [n : Nodes \cup {NoNode}, e : Encodings]

Of(node, enc) == [n |-> node, e |-> enc]
Garbage == Of(NoNode, "garbage")
TagMaskValue == Of(NoNode, "tagMask")   \* the constant TagMask

(* Data formats of DFGJITCodeGenerator.h, by conversion class: "JS"      *)
(* stands for DataFormatJS, JSInteger, JSCell and Cell, which never need *)
(* a conversion between one another.                                       *)
Formats == {"Integer", "JS", "Double", "JSDouble"}

(* needDataFormatConversion (DFGJITCodeGenerator.h).                       *)
NeedDataFormatConversion(from, to) ==
  IF from \in {"Integer", "Double"} THEN to # from
                                    ELSE to \in {"Integer", "Double"}

(* The JSValue encoding of a node of the given kind.                       *)
JSEncoding(node, k) ==
  Of(node, CASE k = "Int" -> "boxI" [] k = "Dbl" -> "boxD" [] OTHER -> "ptr")

(* The encoding a register of the given format holds for the node.         *)
Encode(node, k, fmt) ==
  CASE fmt = "Integer" -> Of(node, "raw")
    [] fmt = "Double"  -> Of(node, "fp")
    [] OTHER           -> JSEncoding(node, k)

IsJSValue(c) == c.e \in {"boxI", "boxD", "ptr"}

(* c is the node's value in a representation of format fmt.                *)
Holds(c, node, fmt) ==
  /\ c.n = node
  /\ CASE fmt = "Integer" -> c.e = "raw"
       [] fmt = "Double"  -> c.e = "fp"
       [] OTHER           -> IsJSValue(c)

----------------------------------------------------------------------------
(* MacroAssembler instructions, by what they do to a content.              *)

Keep(c, ok, enc) == IF c.e \in ok THEN [c EXCEPT !.e = enc] ELSE Garbage

OrPtrTagTypeNumber(c)  == Keep(c, {"raw", "boxI"}, "boxI")   \* orPtr(tagTypeNumberRegister, r)
ZeroExtend32ToPtr(c)   == Keep(c, {"raw", "boxI"}, "raw")    \* zeroExtend32ToPtr, load32
ConvertInt32ToDouble(c) == Keep(c, {"raw", "boxI"}, "fp")
MoveDoubleToPtr(c)     == Keep(c, {"fp"}, "bitsD")
MovePtrToDouble(c)     == Keep(c, {"bitsD"}, "fp")
SubPtrTagTypeNumber(c) == Keep(c, {"bitsD"}, "boxD")         \* completes boxDouble
BoxDouble(c)           == SubPtrTagTypeNumber(MoveDoubleToPtr(c))
UnboxDouble(c)         == MovePtrToDouble(Keep(c, {"boxD"}, "bitsD"))
Sub32Operand(c)        == Keep(c, {"sum"}, "raw")            \* sub32(src, dest) after add32
XorPtrValueFalse(c)    == Keep(c, {"xbool"}, "ptr")

(* branchPtr(AboveOrEqual, r, tagTypeNumberRegister): a JSValue int32.     *)
IsTaggedInt32(c) == c.e = "boxI"

(* branchConvertDoubleToInt32 succeeds on an FPR holding a non-zero        *)
(* integral double.                                                        *)
ConvertsToInt32(c, kind) == c.e = "fp" /\ kind[c.n] = "Int"
=============================================================================
