------------------------------ MODULE MCCalls ------------------------------
(* Calls with one object and two names, and texts of which each one takes  *)
(* another way through the declaration or the call.                        *)
EXTENDS Calls

I16 == IntType(16, TRUE)
I32 == IntType(32, TRUE)
I64 == IntType(64, TRUE)
F64 == FloatType(64)
PI  == PointerTo(I32)
Callback == FuncRef("TCallback", [params |-> <<[type |-> I32, mode |-> "value", default |-> NoDefault]>>,
                                  varargs |-> FALSE, ret |-> NoType])

Item(type, mode, default) == [type |-> type, mode |-> mode, default |-> default, fault |-> "none"]
Val(type) == Item(type, "value", NoDefault)
Faulty(fault) == [Item(I32, "value", 1) EXCEPT !.fault = fault]
Plain(name, items, ending) ==
  [owner |-> "module", name |-> name, items |-> items, varargs |-> FALSE, ret |-> NoType, overload |-> FALSE,
   external |-> FALSE, attrs_ok |-> TRUE, ret_ok |-> TRUE, ending |-> ending]
Over(items, ending) == [Plain("f", items, ending) EXCEPT !.overload = TRUE]

MCDeclarations ==
  { Over(<<Val(I32)>>, ";"), Over(<<Val(I32)>>, "body"),
    Over(<<Item(I64, "value", 1)>>, "body"),
    Over(<<Val(F64)>>, ";"),
    Over(<<Val(I32), Item(I32, "value", 1)>>, "body"),
    Over(<<Item(I32, "ref", NoDefault)>>, "body"),
    Over(<<Val(Callback)>>, "body"),
    [Over(<<Val(I64), Val(I64)>>, ";") EXCEPT !.ret = I32],
    [Over(<<Val(I32)>>, "body") EXCEPT !.attrs_ok = FALSE],
    Plain("f", <<Val(I32)>>, ";"),
    Plain("g", <<Val(I32), Item(I32, "value", 2)>>, ";"),
    Plain("g", <<Item(I32, "value", 3), Item(I32, "value", 3)>>, "body"),
    Plain("g", <<Item(I32, "value", 1), Val(I32)>>, "body"),
    [Plain("g", <<Item(PI, "refnull", NoDefault)>>, ";") EXCEPT !.varargs = TRUE, !.external = TRUE],
    [Over(<<Val(I32)>>, ";") EXCEPT !.owner = "object"],
    [Over(<<Val(I32)>>, "body") EXCEPT !.owner = "object"],
    [Over(<<Val(I32)>>, ";") EXCEPT !.owner = "object", !.external = TRUE],
    [Plain("g", <<>>, "body") EXCEPT !.owner = "object"],
    [Plain("g", <<Faulty("param")>>, "body") EXCEPT !.varargs = TRUE],
    Plain("g", <<Faulty("param")>>, "body"),
    [Plain("g", <<Val(I32)>>, ";") EXCEPT !.ret_ok = FALSE],
    Plain("g", <<Val(I32), Faulty("default"), Val(I32)>>, "body") }

Expr(form, type) == [form |-> form, type |-> type, root |-> "variable", uninit |-> FALSE, folded |-> FALSE, value |-> 0]
IntVar   == Expr("var", I32)
Named(n) == [form |-> "name", name |-> n]
CallText(callee, name, args) ==
  [callee |-> callee, name |-> name, receiver |-> Expr("var", Compound("object")), sig |-> Callback.sig, args |-> args]

MCCallTexts ==
  { CallText("plain", "f", <<IntVar>>), CallText("plain", "f", <<Expr("value", I16)>>),
    CallText("plain", "f", <<Expr("value", F64)>>), CallText("plain", "f", <<IntVar, IntVar>>),
    CallText("plain", "f", <<[IntVar EXCEPT !.uninit = TRUE]>>), CallText("plain", "f", <<>>),
    CallText("plain", "f", <<Named("g")>>), CallText("plain", "g", <<Expr("null", NullPointer), IntVar>>),
    CallText("plain", "g", <<IntVar>>), CallText("global", "f", <<Named("f")>>),
    CallText("receiver", "f", <<IntVar>>), CallText("indirect", "f", <<Expr("value", BoolType)>>) }

MCFields == {<<"object", "g">>}
=============================================================================
