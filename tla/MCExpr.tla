------------------------------- MODULE MCExpr -------------------------------
(* Integers of two widths, the wider one that of the host: enough for a    *)
(* conversion to widen, to narrow and to keep the width.                   *)
EXTENDS Expr

I2 == IntType(2, TRUE)
U2 == IntType(2, FALSE)
I4 == IntType(4, TRUE)
U4 == IntType(4, FALSE)

MCIntTypes == {I2, U2, I4, U4}

Leaf(form, type, bits) == [form |-> form, type |-> type, bits |-> bits]

MCLeaves ==
  { Leaf("literal", I4, 0), Leaf("const", I2, 2), Leaf("tree", I2, 3), Leaf("tree", U4, 9),
    Leaf("literal", BoolType, 0), Leaf("literal", Float, <<3, 2>>) }
=============================================================================
