------------------------------ MODULE Convert ------------------------------
(***************************************************************************)
(* Types, signatures and conversions of the DQ compiler.                   *)
(*                                                                         *)
(* A type is a record whose kind says which other fields it has; two types *)
(* are the same type object exactly if the records are equal (aliases are  *)
(* resolved where a type is written, and an inline function type has a     *)
(* name of its own, because each one written makes another object).        *)
(*                                                                         *)
(* An expression is a record with at least                                 *)
(*   form    "var" a plain variable, constant or function name, "lvalue"   *)
(*           another lvalue, "null", "string" a string literal, or "value" *)
(*   type    its type                                                      *)
(*   folded, value   whether it is an integer constant, and which          *)
(***************************************************************************)
EXTENDS Integers, Sequences

CONSTANT PtrBits    \* width of a pointer, TARGET_PTRSIZE * 8

ASSUME PtrBitsAssumption == PtrBits \in Nat /\ PtrBits > 0

IntType(bits, signed) == [kind |-> "int", bits |-> bits, signed |-> signed]
FloatType(bits)       == [kind |-> "float", bits |-> bits]
BoolType              == [kind |-> "bool"]
PointerTo(base)       == [kind |-> "pointer", base |-> base]
ArrayOf(elem, length) == [kind |-> "array", elem |-> elem, length |-> length]
SliceOf(elem)         == [kind |-> "slice", elem |-> elem]
CString(maxlen)       == [kind |-> "cstring", maxlen |-> maxlen]
Compound(name)        == [kind |-> "compound", name |-> name]
FuncType(sig)         == [kind |-> "function", sig |-> sig]
FuncRef(name, sig)    == [kind |-> "funcref", name |-> name, sig |-> sig]
(* The type of the name of an overload set, with what is found through it. *)
OverloadType(sigs)    == [kind |-> "overload", sigs |-> sigs]
NoType                == [kind |-> "none"]

NullPointer   == PointerTo([kind |-> "null"])
OpaquePointer == PointerTo([kind |-> "opaque"])

-----------------------------------------------------------------------------
(* Signatures.  A parameter has a type, a mode and a default (NoDefault if *)
(* there is none).                                                         *)

NoDefault == 0

IsRefLike(param) == param.mode # "value"

AlikeIn(s, t, SameParam(_, _)) ==
  /\ s.varargs = t.varargs
  /\ Len(s.params) = Len(t.params)
  /\ s.ret = t.ret
  /\ \A i \in 1..Len(s.params) : SameParam(s.params[i], t.params[i])

MatchesOverloadDeclIdentity(s, t) == AlikeIn(s, t, LAMBDA p, q : p.type = q.type)

MatchesSignature(s, t) == AlikeIn(s, t, LAMBDA p, q : p.mode = q.mode /\ p.type = q.type)

(* The functions of an overload set that a function reference could mean.  *)
MatchingSignatures(sig, sigs) == {i \in 1..Len(sigs) : MatchesSignature(sig, sigs[i])}

FindMatchingSignature(sig, sigs) ==
  LET found == MatchingSignatures(sig, sigs)
  IN  CASE found = {}                      -> "no match"
        [] \E i \in found : found = {i}    -> "unique"
        [] OTHER                           -> "ambiguous"

CanAccept(dst, src) ==
  \/ src.kind \in {"funcref", "function"} /\ MatchesSignature(dst.sig, src.sig)
  \/ src = NullPointer

-----------------------------------------------------------------------------
(* ConvertExprToType: the expression is "kept" as it is, "wrapped" in a    *)
(* conversion node, or "refused" with an error.  cast: an explicit cast;   *)
(* lazy: a cstring may be left to the statement or call that stores it.    *)

CanAssignPointerImplicitly(dst, src) ==
  \/ src = NullPointer
  \/ dst = OpaquePointer
  \/ src # OpaquePointer /\ dst # NullPointer /\ dst.base = src.base

(* Only an integer as wide as a pointer, or a constant that fits, becomes  *)
(* a pointer.                                                              *)
FitsPointer(e) ==
  \/ e.type.bits = PtrBits
  \/ /\ e.folded
     /\ IF e.type.signed THEN e.value \in -(2^(PtrBits - 1))..(2^(PtrBits - 1) - 1)
                         ELSE e.value \in 0..(2^PtrBits - 1)

WrapsOtherKind(dst, e, cast) ==
  LET src == e.type IN
  \/ /\ dst.kind = "funcref"
     /\ IF src.kind = "overload" THEN FindMatchingSignature(dst.sig, src.sigs) = "unique"
                                 ELSE CanAccept(dst, src)
  \/ dst.kind = "float" /\ src.kind = "int"
  \/ cast /\ dst.kind = "int" /\ src.kind = "bool"
  \/ cast /\ dst.kind = "pointer" /\ src.kind = "int" /\ FitsPointer(e)
  \/ cast /\ dst.kind = "int" /\ src.kind = "pointer" /\ dst.bits = PtrBits
  \/ ~cast /\ dst.kind = "slice" /\ src.kind = "array" /\ dst.elem = src.elem /\ e.form = "var"
  \/ ~cast /\ dst.kind = "cstring" /\ src.kind = "pointer" /\ dst.maxlen = 0 /\ e.form = "string"

KeepsOtherKind(dst, e, cast, lazy) ==
  ~cast /\ lazy /\ dst.kind = "cstring" /\ e.type.kind = "pointer" /\ dst.maxlen # 0 /\ e.form = "string"

WrapsSameKind(dst, e, cast) ==
  LET src == e.type IN
  \/ dst.kind = "int" /\ (dst.bits # src.bits \/ dst.signed # src.signed)
  \/ dst.kind = "float" /\ dst.bits # src.bits
  \/ dst.kind = "pointer" /\ cast
  \/ dst.kind = "funcref" /\ CanAccept(dst, src) /\ dst # src
  \/ dst.kind = "cstring" /\ ~cast /\ dst.maxlen = 0 /\ src.maxlen > 0 /\ e.form = "var"

KeepsSameKind(dst, e, cast, lazy) ==
  LET src == e.type IN
  \/ dst.kind = "int" /\ dst.bits = src.bits /\ dst.signed = src.signed
  \/ dst.kind = "float" /\ dst.bits = src.bits
  \/ dst.kind = "pointer" /\ ~cast /\ CanAssignPointerImplicitly(dst, src)
  \/ dst.kind = "funcref" /\ CanAccept(dst, src) /\ dst = src
  \/ dst.kind \in {"slice", "array"} /\ ~cast /\ dst.elem = src.elem
     /\ (dst.kind = "array" => dst.length = src.length)
  \/ dst.kind = "cstring" /\ ~cast /\ ~(dst.maxlen = 0 /\ src.maxlen > 0)
     /\ ((dst.maxlen > 0 /\ lazy) \/ dst.maxlen = src.maxlen)
  \/ dst.kind \in {"bool", "compound", "function"}

ConvertExprToType(dst, e, cast, lazy) ==
  LET same == dst.kind = e.type.kind
  IN  CASE same /\ WrapsSameKind(dst, e, cast)             -> "wrapped"
        [] same /\ KeepsSameKind(dst, e, cast, lazy)       -> "kept"
        [] ~same /\ WrapsOtherKind(dst, e, cast)           -> "wrapped"
        [] ~same /\ KeepsOtherKind(dst, e, cast, lazy)     -> "kept"
        [] OTHER                                           -> "refused"

(* CheckAssignType converts an assigned value or an argument.              *)
CheckAssignType(dst, e) == ConvertExprToType(dst, e, FALSE, TRUE)

-----------------------------------------------------------------------------
(* GetAssignTypeConversionCost: what overload resolution expects of it,    *)
(* without an explicit cast; -1 if the conversion is not possible.         *)

Impossible == -1
Free(b) == IF b THEN 0 ELSE Impossible

CostOfOtherKind(dst, e) ==
  LET src == e.type IN
  CASE dst.kind = "funcref" /\ src.kind = "overload" ->
         IF FindMatchingSignature(dst.sig, src.sigs) = "unique" THEN 1 ELSE Impossible
    [] dst.kind = "funcref" /\ src.kind # "overload" -> IF CanAccept(dst, src) THEN 1 ELSE Impossible
    [] dst.kind = "float" /\ src.kind = "int" -> 1
    [] dst.kind = "slice" /\ src.kind = "array" ->
         IF dst.elem # src.elem \/ e.form # "var" THEN Impossible ELSE 1
    [] dst.kind = "cstring" /\ src.kind = "pointer" ->
         IF e.form # "string" THEN Impossible ELSE IF dst.maxlen # 0 THEN 0 ELSE 1
    [] OTHER -> Impossible

CostOfSameKind(dst, e) ==
  LET src == e.type IN
  CASE dst.kind = "int"     -> IF dst.bits = src.bits /\ dst.signed = src.signed THEN 0 ELSE 1
    [] dst.kind = "float"   -> IF dst.bits = src.bits THEN 0 ELSE 1
    [] dst.kind = "pointer" -> Free(CanAssignPointerImplicitly(dst, src))
    [] dst.kind = "funcref" -> IF ~CanAccept(dst, src) THEN Impossible ELSE IF dst = src THEN 0 ELSE 1
    [] dst.kind = "slice"   -> Free(dst.elem = src.elem)
    [] dst.kind = "array"   -> Free(dst.elem = src.elem /\ dst.length = src.length)
    [] dst.kind = "cstring" ->
         IF dst.maxlen = 0 /\ src.maxlen > 0 THEN (IF e.form = "var" THEN 1 ELSE Impossible)
                                             ELSE Free(dst.maxlen > 0 \/ dst.maxlen = src.maxlen)
    [] OTHER -> 0

GetAssignTypeConversionCost(dst, e) ==
  IF dst.kind = e.type.kind THEN CostOfSameKind(dst, e) ELSE CostOfOtherKind(dst, e)

-----------------------------------------------------------------------------
(* HarmonizeNumericOperands: the types of two operands after the narrower  *)
(* or the integer one was converted; ok if both are numbers.               *)

Numeric == {"int", "float"}

HarmonizeNumericOperands(l, r) ==
  CASE l.kind \in Numeric /\ r.kind = l.kind ->
         [ok |-> TRUE, left  |-> IF l.bits < r.bits THEN r ELSE l,
                       right |-> IF r.bits < l.bits THEN l ELSE r]
    [] l.kind = "int" /\ r.kind = "float" -> [ok |-> TRUE, left |-> r, right |-> r]
    [] l.kind = "float" /\ r.kind = "int" -> [ok |-> TRUE, left |-> l, right |-> l]
    [] OTHER                              -> [ok |-> FALSE, left |-> l, right |-> r]
=============================================================================
