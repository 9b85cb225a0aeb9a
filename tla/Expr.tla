-------------------------------- MODULE Expr --------------------------------
(***************************************************************************)
(* Expressions of the DQ compiler: what the parser builds for an operator, *)
(* what it folds of it at compile time, and what the code generated for    *)
(* it computes.                                                            *)
(*                                                                         *)
(* A behaviour is the text of one expression after the other in postfix    *)
(* order, an operand or an operator per step.  An operand on the stack has *)
(*   type    its type as the parser sees it,                               *)
(*   code    the node that is left after folding: its form ("literal",     *)
(*           "const" a constant's name, "tree" anything else, "trap" where *)
(*           the folding itself divides by zero), its type and value,      *)
(*   plain   the same without any folding, which is not in the program.    *)
(* An integer is kept as its bit pattern, a float as a fraction.  A node   *)
(* is exact unless its value is undefined, its operands have unfit types,  *)
(* or it is one of the known cases in which folding gives another value.   *)
(*                                                                         *)
(* Left out: pointers, strings, arrays and calls; the rounding of floats   *)
(* and all their sizes but one.                                            *)
(***************************************************************************)
EXTENDS Convert, FiniteSetsExt

CONSTANTS HostBits,     \* width of the compiler's int64 and of the types int and uint
          IntTypes,     \* the integer types used
          Leaves,       \* the operands
          MaxOperators, \* bound on the operators of an expression
          MaxSize,      \* bound on the stack and the operators together
          MaxFloat      \* bound on numerators and denominators

HostInt == IntType(HostBits, TRUE)
Float == FloatType(64)

ValueTypes == IntTypes \cup {Float, BoolType}

ASSUME ExprAssumption == /\ HostBits \in Nat \ {0} /\ MaxOperators \in Nat /\ MaxFloat \in Nat
                         /\ IntTypes \subseteq {IntType(b, s) : b \in 1..HostBits, s \in BOOLEAN}
                         /\ HostInt \in IntTypes

VARIABLES operands,  \* the stack
          operators, \* the number of operators read
          node,      \* the operator the last step built, with the types of its operands
          outcome    \* "reading", "refused" with an error, or "crashed"

exprVars == <<operands, operators, node, outcome>>

NoNode == [op |-> "none", folded |-> FALSE, left |-> NoType, right |-> NoType]

ExprInit == operands = <<>> /\ operators = 0 /\ node = NoNode /\ outcome = "reading"

-----------------------------------------------------------------------------
(* Integers: a bit pattern as a number of its type (Number), and as the    *)
(* int64 of an OValueInt (HostValue).                                      *)

Power2[n \in 0..HostBits] == IF n = 0 THEN 1 ELSE 2 * Power2[n - 1]

Signed(bits, p) == IF p >= Power2[bits - 1] THEN p - Power2[bits] ELSE p

Number(t, p) == IF t.signed THEN Signed(t.bits, p) ELSE p

(* NormalizeIntConstant: the sign bit of a narrow type is copied upwards.  *)
(* Mutant: it is not                                                       *)
NotExtended(t, p) == IF t.bits = HostBits THEN Signed(t.bits, p) ELSE p

HostValue(t, p) == IF t.bits = HostBits \/ t.signed THEN Signed(t.bits, p) ELSE p

Pattern(t, n) == n % Power2[t.bits]

IsHostUnsigned(t) == ~t.signed /\ t.bits = HostBits

Quotient(a, b) == LET Abs(n) == IF n < 0 THEN -n ELSE n
                      q      == Abs(a) \div Abs(b)
                  IN  IF (a < 0) = (b < 0) THEN q ELSE -q

BitOps    == {"AND", "OR", "XOR", "SHL", "SHR"}
IntOps    == BitOps \cup {"+", "-", "*", "IDIV", "IMOD"}
FloatOps  == {"+", "-", "*", "/"}
BinOps    == IntOps \cup FloatOps
CompareOps == {"==", "<>", "<", "<=", ">", ">="}
LogicalOps == {"and", "or"}

Defined(op, t, a, b) ==
  /\ op \in {"IDIV", "IMOD"} => b # 0 /\ ~(t.signed /\ a = -Power2[t.bits - 1] /\ b = -1)
  /\ op \in {"SHL", "SHR"}   => b \in 0..(t.bits - 1)

Traps(op, t, a, b) == op \in {"IDIV", "IMOD"} /\ ~Defined(op, [t EXCEPT !.bits = HostBits, !.signed = TRUE], a, b)

(* AND, OR and XOR of two patterns, bit by bit.                            *)
Bit(p, i) == (p \div Power2[i]) % 2

BitOfBits(op, x, y) == CASE op = "AND" -> x * y
                         [] op = "OR"  -> x + y - x * y
                         [] op = "XOR" -> (x + y) % 2

Bitwise(op, p, q) ==
  LET low[n \in 0..HostBits] ==
        IF n = 0 THEN 0 ELSE low[n - 1] + Power2[n - 1] * BitOfBits(op, Bit(p, n - 1), Bit(q, n - 1))
  IN  low[HostBits]

IntResult(op, t, a, b) ==
  Pattern(t, CASE op = "+" -> a + b [] op = "-" -> a - b [] op = "*" -> a * b
               [] op = "IDIV" -> Quotient(a, b)
               [] op = "IMOD" -> a - b * Quotient(a, b)
               [] op = "SHL" -> a * Power2[b]
               [] op = "SHR" -> a \div Power2[b]
               [] op \in {"AND", "OR", "XOR"} -> Bitwise(op, Pattern(t, a), Pattern(t, b)))

Compares(op, a, b) == CASE op = "==" -> a = b  [] op = "<>" -> a # b
                        [] op = "<"  -> a < b  [] op = "<=" -> a <= b
                        [] op = ">"  -> a > b  [] op = ">=" -> a >= b

AsBit(b) == IF b THEN 1 ELSE 0

(* Floats *)
Fraction(n, d) ==
  LET sign == IF d < 0 THEN -1 ELSE 1
      g    == IF n = 0 THEN d * sign ELSE Max({k \in 1..(d * sign) : n % k = 0 /\ d % k = 0})
  IN  <<(n * sign) \div g, (d * sign) \div g>>

FloatResult(op, x, y) == CASE op = "+" -> Fraction(x[1] * y[2] + y[1] * x[2], x[2] * y[2])
                           [] op = "-" -> Fraction(x[1] * y[2] - y[1] * x[2], x[2] * y[2])
                           [] op = "*" -> Fraction(x[1] * y[1], x[2] * y[2])
                           [] op = "/" -> IF y[1] = 0 THEN <<0, 1>> ELSE Fraction(x[1] * y[2], x[2] * y[1])

-----------------------------------------------------------------------------
(* Nodes, with folding (TRUE, as the compiler does) or without.            *)

Zero(t) == IF t.kind = "float" THEN <<0, 1>> ELSE 0

Tree(t)  == [form |-> "tree", type |-> t, bits |-> Zero(t), exact |-> FALSE]
Trap(t)  == [Tree(t) EXCEPT !.form = "trap"]

Node(folds, t, bits, exact) ==
  [form |-> IF folds THEN "literal" ELSE "tree", type |-> t, bits |-> bits, exact |-> exact]

IsConst(c) == c.form \in {"literal", "const"}
IsInt(c)   == c.type.kind = "int"
IsFloat(c) == c.type.kind = "float"
IsBool(c)  == c.type.kind = "bool"

(* An int literal is a float constant too, the name of an int is not.      *)
IsFloatConst(c) == IsConst(c) /\ (IsFloat(c) \/ (IsInt(c) /\ c.form = "literal"))

FloatOf(c) == IF IsFloat(c) THEN c.bits ELSE <<HostValue(c.type, c.bits), 1>>

(* OExprTypeConv, for the conversions between numbers and from bool.       *)
ConvNode(folding, t, c) ==
  LET folds == folding /\ IsConst(c)
      n     == IF IsBool(c) THEN c.bits
               ELSE IF folds THEN HostValue(c.type, c.bits) ELSE Number(c.type, c.bits)
  IN  IF c.form = "trap" THEN Trap(t)
      ELSE Node(folds, t,
                IF IsFloat(c) THEN c.bits ELSE IF t.kind = "float" THEN <<n, 1>> ELSE Pattern(t, n),
                c.exact /\ ~(folds /\ t.kind = "float" /\ IsHostUnsigned(c.type)))

Converted(folding, goal, seen, c) == IF goal = seen THEN c ELSE ConvNode(folding, goal, c)

(* What CreateBinExpr accepts, the types it converts the operands to and   *)
(* the type of the OBinExpr.                                               *)
AcceptsBin(op, lt, rt) ==
  IF op \in BitOps THEN lt.kind = "int" /\ rt.kind = "int"
                   ELSE lt.kind = rt.kind \/ HarmonizeNumericOperands(lt, rt).ok

(* Mutant: a shorter left integer is left as it is                         *)
BinGoalsOneSided(op, lt, rt) ==
  LET h      == HarmonizeNumericOperands(lt, rt)
      ints   == lt.kind = "int" /\ rt.kind = "int"
      floats == op = "/" /\ ints
      left   == CASE op \in BitOps -> lt [] floats -> Float [] ints /\ ~floats -> lt [] OTHER -> h.left
      right  == CASE op \in BitOps -> rt [] floats -> Float [] OTHER -> h.right
  IN  [left |-> left, right |-> right, type |-> IF floats THEN Float ELSE left]

BinGoals(op, lt, rt) ==
  LET h      == HarmonizeNumericOperands(lt, rt)
      ints   == lt.kind = "int" /\ rt.kind = "int"
      floats == op = "/" /\ ints /\ lt.bits = rt.bits
      left   == CASE op \in BitOps -> lt [] floats -> Float [] OTHER -> h.left
      right  == CASE op \in BitOps -> rt [] floats -> Float [] OTHER -> h.right
  IN  [left |-> left, right |-> right, type |-> IF op = "/" /\ ints THEN Float ELSE left]

(* OValueInt::CalculateConstant takes both operands in the node's type and *)
(* computes in int64; the generated instruction is chosen by that type.    *)
IntNode(folds, op, t, a, b) ==
  LET Of(c) == IF folds THEN HostValue(t, Pattern(t, HostValue(c.type, c.bits))) ELSE Number(t, c.bits)
      x     == Of(a)
      y     == Of(b)
  IN  IF folds /\ Traps(op, t, x, y) THEN Trap(t)
      ELSE Node(folds, t,
                IF Defined(op, IF folds THEN HostInt ELSE t, x, y) THEN IntResult(op, t, x, y) ELSE 0,
                /\ a.exact /\ b.exact /\ a.type.bits = b.type.bits
                /\ Defined(op, t, x, y)
                /\ ~(folds /\ IsHostUnsigned(t) /\ op \in {"IDIV", "IMOD", "SHR"}))

FloatNode(folding, op, a, b) ==
  LET folds == folding /\ IsFloatConst(a) /\ IsFloatConst(b) /\ op \in FloatOps
      fit   == IsFloat(a) /\ IsFloat(b) /\ op \in FloatOps
  IN  Node(folds, Float,
           IF folds \/ fit THEN FloatResult(op, FloatOf(a), FloatOf(b)) ELSE Zero(Float),
           a.exact /\ b.exact /\ fit /\ ~(op = "/" /\ FloatOf(b)[1] = 0))

BinOperands(folding, op, lt, l, rt, r) ==
  LET goal == BinGoals(op, lt, rt)
  IN  <<Converted(folding, goal.left, lt, l), Converted(folding, goal.right, rt, r)>>

BinNode(folding, op, lt, l, rt, r) ==
  LET t == BinGoals(op, lt, rt).type
      o == BinOperands(folding, op, lt, l, rt, r)
  IN  IF "trap" \in {o[1].form, o[2].form} THEN Trap(t)
      ELSE CASE t.kind = "int"   -> IntNode(folding /\ IsConst(o[1]) /\ IsConst(o[2]), op, t, o[1], o[2])
             [] t.kind = "float" -> FloatNode(folding, op, o[1], o[2])
             [] OTHER            -> Tree(t)

CompareOperands(folding, lt, l, rt, r) ==
  LET goal == HarmonizeNumericOperands(lt, rt)
  IN  <<Converted(folding, goal.left, lt, l), Converted(folding, goal.right, rt, r)>>

(* The comparison of bools is built and refused only by the generator.     *)
CompareNode(folding, op, lt, l, rt, r) ==
  LET o     == CompareOperands(folding, lt, l, rt, r)
      a     == o[1]
      b     == o[2]
      ints  == IsInt(a) /\ IsInt(b)
      folds == folding /\ IsConst(a) /\ IsConst(b) /\ (ints \/ (IsFloat(a) /\ IsFloatConst(b)))
      fit   == (ints /\ a.type.bits = b.type.bits) \/ (IsFloat(a) /\ IsFloat(b))
      holds == IF ints
               THEN IF folds THEN Compares(op, HostValue(a.type, a.bits), HostValue(b.type, b.bits))
                             ELSE Compares(op, Number(a.type, a.bits), Number(a.type, b.bits))
               ELSE LET x == FloatOf(a)
                        y == FloatOf(b)
                    IN  Compares(op, x[1] * y[2], y[1] * x[2])
  IN  IF "trap" \in {a.form, b.form} THEN Trap(BoolType)
      ELSE IF ~(folds \/ fit) THEN Tree(BoolType)
      ELSE Node(folds, BoolType, AsBit(holds),
                /\ a.exact /\ b.exact /\ fit
                /\ ~(folds /\ ints /\ (a.type.signed # b.type.signed \/ IsHostUnsigned(a.type))))

LogicalNode(folding, op, l, r) ==
  LET fit == IsBool(l) /\ IsBool(r)
  IN  IF "trap" \in {l.form, r.form} THEN Trap(BoolType)
      ELSE IF ~fit THEN Tree(BoolType)
      ELSE Node(folding /\ IsConst(l) /\ IsConst(r), BoolType,
                IF op = "and" THEN Min({l.bits, r.bits}) ELSE Max({l.bits, r.bits}),
                l.exact /\ r.exact)

UnaryType(op, t) == CASE op = "neg" -> t
                      [] op = "NOT" -> IF t.kind = "int" THEN t ELSE HostInt
                      [] op = "not" -> BoolType

(* `-' of a bool is generated but not folded; NOT of another type than int *)
(* and `not' of another type than bool are not refused.                    *)
UnaryNode(folding, op, lt, c) ==
  LET t == UnaryType(op, lt)
      n == IF IsInt(c) THEN HostValue(t, Pattern(t, HostValue(c.type, c.bits))) ELSE 0
  IN  IF c.form = "trap" THEN Trap(t)
   ELSE CASE op = "neg" /\ IsInt(c)   -> Node(folding /\ IsConst(c), t, Pattern(t, -n), c.exact)
        [] op = "neg" /\ IsFloat(c) -> Node(folding /\ IsConst(c), t, <<-c.bits[1], c.bits[2]>>, c.exact)
        [] op = "neg" /\ IsBool(c)  -> Node(FALSE, t, c.bits, c.exact)
        [] op = "NOT" /\ IsInt(c) -> Node(folding /\ IsConst(c), t, Pattern(t, -n - 1), c.exact)
        [] op = "not" /\ IsBool(c) -> Node(folding /\ IsConst(c), t, 1 - c.bits, c.exact)
        [] OTHER -> Tree(t)

(* ResolveIifType for bools and numbers.                                   *)
AcceptsIif(tt, ft) == tt = ft \/ HarmonizeNumericOperands(tt, ft).ok

(* With a literal condition the selected argument takes the node's place,  *)
(* and its type is not harmonized in sign with the other's.                *)
IifNode(folding, c, tt, t, ft, f) ==
  LET goal     == HarmonizeNumericOperands(tt, ft)
      a        == Converted(folding, goal.left, tt, t)
      b        == Converted(folding, goal.right, ft, f)
      selected == IF c.bits = 1 THEN a ELSE b
      replaced == folding /\ c.form = "literal"
      alike    == IsInt(a) /\ IsInt(b) => a.type.signed = b.type.signed
  IN  IF "trap" \in {c.form, a.form, b.form} THEN Trap(goal.left)
      ELSE IF replaced THEN [selected EXCEPT !.exact = c.exact /\ a.exact /\ b.exact /\ alike]
      ELSE Node(FALSE, goal.left, selected.bits, c.exact /\ a.exact /\ b.exact)

RoundModes == {"round", "ceil", "floor"}

Rounded(mode, x) ==
  CASE mode = "floor" -> x[1] \div x[2]
    [] mode = "ceil"  -> -((-x[1]) \div x[2])
    [] mode = "round" -> IF x[1] >= 0 THEN (2 * x[1] + x[2]) \div (2 * x[2])
                                      ELSE -((-2 * x[1] + x[2]) \div (2 * x[2]))

RoundNode(folding, mode, c) ==
  LET n == Rounded(mode, c.bits)
  IN  IF c.form = "trap" THEN Trap(HostInt)
      ELSE Node(folding /\ IsConst(c), HostInt, Pattern(HostInt, n), c.exact /\ Number(HostInt, Pattern(HostInt, n)) = n)

(* A value in the range of its type.                                       *)
Fits(c) == CASE IsInt(c)   -> c.bits \in 0..(Power2[c.type.bits] - 1)
             [] IsBool(c)  -> c.bits \in {0, 1}
             [] IsFloat(c) -> c.bits \in (-MaxFloat..MaxFloat) \X (1..MaxFloat)

ASSUME LeavesAssumption == \A leaf \in Leaves :
  leaf.form \in {"literal", "const", "tree"} /\ leaf.type \in ValueTypes /\ Fits(leaf)

-----------------------------------------------------------------------------
(* The text                                                                *)

top(k) == operands[Len(operands) - k]    \* top(0) is the last operand
below(k) == SubSeq(operands, 1, Len(operands) - k)

IsSmall(c) == IsFloat(c) => c.bits[1] \in -MaxFloat..MaxFloat /\ c.bits[2] <= MaxFloat

Reading == outcome = "reading"

Generated(op, n, o) == [op |-> op, folded |-> n.form # "tree", left |-> o[1].type, right |-> o[2].type]

(* The node takes the place of the k last operands.                        *)
Built(k, t, code, plain, n) ==
  /\ operators < MaxOperators
  /\ IsSmall(code) /\ IsSmall(plain)
  /\ operands' = Append(below(k), [type |-> t, code |-> code, plain |-> plain])
  /\ operators' = operators + 1
  /\ node' = n
  /\ UNCHANGED outcome

(* An error; the parser drops the expression.                              *)
Stopped(how) ==
  /\ outcome' = how
  /\ operands' = <<>> /\ operators' = 0 /\ node' = NoNode

(* ParseExprPrimary: a literal, a constant's name or anything else.        *)
Operand(leaf) ==
  /\ Reading /\ Len(operands) + operators < MaxSize
  /\ LET c == [form |-> leaf.form, type |-> leaf.type, bits |-> leaf.bits, exact |-> TRUE]
     IN  operands' = Append(operands, [type |-> leaf.type, code |-> c, plain |-> c])
  /\ node' = NoNode
  /\ UNCHANGED <<operators, outcome>>

BinExpr(op) ==
  /\ Reading /\ Len(operands) >= 2
  /\ LET l == top(1)
         r == top(0)
         o == BinOperands(TRUE, op, l.type, l.code, r.type, r.code)
         n == BinNode(TRUE, op, l.type, l.code, r.type, r.code)
     IN  IF AcceptsBin(op, l.type, r.type)
         THEN Built(2, BinGoals(op, l.type, r.type).type, n,
                    BinNode(FALSE, op, l.plain.type, l.plain, r.plain.type, r.plain),
                    Generated(op, n, o))
         ELSE Stopped("refused")

CompareExpr(op) ==
  /\ Reading /\ Len(operands) >= 2
  /\ LET l == top(1)
         r == top(0)
         n == CompareNode(TRUE, op, l.type, l.code, r.type, r.code)
     IN  Built(2, BoolType, n,
               CompareNode(FALSE, op, l.plain.type, l.plain, r.plain.type, r.plain),
               Generated("compare", n, CompareOperands(TRUE, l.type, l.code, r.type, r.code)))

LogicalExpr(op) ==
  /\ Reading /\ Len(operands) >= 2
  /\ LET l == top(1)
         r == top(0)
     IN  Built(2, BoolType, LogicalNode(TRUE, op, l.code, r.code),
               LogicalNode(FALSE, op, l.plain, r.plain), NoNode)

UnaryExpr(op) ==
  /\ Reading /\ operands # <<>>
  /\ LET e == top(0)
     IN  Built(1, UnaryType(op, e.type), UnaryNode(TRUE, op, e.type, e.code),
               UnaryNode(FALSE, op, e.plain.type, e.plain), NoNode)

(* ParseExpression has returned for each of the k last operands: the tree  *)
(* is folded, and its type is that of the node that was left.              *)
TrapAmong(k) == \E i \in 0..(k - 1) : top(i).code.form = "trap"

Parentheses ==
  /\ Reading /\ operands # <<>>
  /\ top(0).type # top(0).code.type
  /\ operands' = [operands EXCEPT ![Len(operands)].type = top(0).code.type]
  /\ node' = NoNode
  /\ UNCHANGED <<operators, outcome>>

EndExpr ==
  /\ Reading /\ operands # <<>>
  /\ Stopped(IF TrapAmong(1) THEN "crashed" ELSE "reading")

Iif ==
  /\ Reading /\ Len(operands) >= 3
  /\ LET c == top(2)
         t == top(1)
         f == top(0)
     IN  IF TrapAmong(3) THEN Stopped("crashed")
         ELSE IF c.code.type.kind = "bool" /\ AcceptsIif(t.code.type, f.code.type)
         THEN Built(3, HarmonizeNumericOperands(t.code.type, f.code.type).left,
                    IifNode(TRUE, c.code, t.code.type, t.code, f.code.type, f.code),
                    IifNode(FALSE, c.plain, t.plain.type, t.plain, f.plain.type, f.plain), NoNode)
         ELSE Stopped("refused")

FloatRound(mode) ==
  /\ Reading /\ operands # <<>>
  /\ LET e == top(0)
     IN  IF TrapAmong(1) THEN Stopped("crashed")
         ELSE IF IsFloat(e.code)
         THEN Built(1, HostInt, RoundNode(TRUE, mode, e.code), RoundNode(FALSE, mode, e.plain), NoNode)
         ELSE Stopped("refused")

(* A conversion node is added, and folded, unless the types are the same.  *)
Cast(t) ==
  /\ Reading /\ operands # <<>>
  /\ LET e    == top(0)
         view == [form |-> "value", type |-> e.code.type, folded |-> FALSE, value |-> 0]
         cost == ConvertExprToType(t, view, TRUE, FALSE)
     IN  IF TrapAmong(1) THEN Stopped("crashed")
         ELSE IF cost # "refused"
         THEN Built(1, t, Converted(TRUE, t, e.code.type, e.code),
                    Converted(FALSE, t, e.plain.type, e.plain), NoNode)
         ELSE Stopped("refused")

(* const c : t = expression;  the next expression starts with c.  The      *)
(* value is calculated in the declared type, with no conversion node.      *)
IsConstantFor(t, c) == CASE t.kind = "int"   -> IsConst(c) /\ IsInt(c)
                         [] t.kind = "float" -> IsFloatConst(c)
                         [] t.kind = "bool"  -> IsConst(c) /\ IsBool(c)

DeclConst(t) ==
  /\ Reading /\ Len(operands) = 1
  /\ LET e == top(0)
         c == Converted(TRUE, t, e.code.type, e.code)
     IN  IF TrapAmong(1) THEN Stopped("crashed")
         ELSE IF IsConstantFor(t, e.code)
         THEN Built(1, t, [c EXCEPT !.form = "const"],
                    Converted(FALSE, t, e.plain.type, e.plain), NoNode)
         ELSE Stopped("refused")

NextExpr == /\ outcome = "refused"
            /\ outcome' = "reading"
            /\ UNCHANGED <<operands, operators, node>>

ExprNext == \/ \E leaf \in Leaves : Operand(leaf)
            \/ \E op \in BinOps : BinExpr(op)
            \/ \E op \in CompareOps : CompareExpr(op)
            \/ \E op \in LogicalOps : LogicalExpr(op)
            \/ \E op \in {"neg", "NOT", "not"} : UnaryExpr(op)
            \/ Parentheses
            \/ Iif
            \/ \E mode \in RoundModes : FloatRound(mode)
            \/ \E t \in ValueTypes : Cast(t) \/ DeclConst(t)
            \/ EndExpr
            \/ NextExpr

ExprSpec == ExprInit /\ [][ExprNext]_exprVars

-----------------------------------------------------------------------------
(* Properties                                                              *)

(* Every value has its type's range, and what the parser takes for an      *)
(* operand's type agrees with the code for it but for the sign.            *)
ExprTypeOK ==
  /\ outcome \in {"reading", "refused", "crashed"}
  /\ operators \in 0..MaxOperators
  /\ \A i \in 1..Len(operands) :
       LET e == operands[i] IN
       /\ Fits(e.code) /\ Fits(e.plain)
       /\ e.code.form \in {"literal", "const", "tree", "trap"}
       /\ e.type.kind = e.code.type.kind
       /\ e.type.kind = "int" => e.type.bits = e.code.type.bits

(* Folding does not change the value of an expression: conversions, wide   *)
(* and narrow, signed and unsigned, folded in any subexpression and by the *)
(* declaration of a constant, give what the generated code would compute.  *)
FoldEqualsRun ==
  \A i \in 1..Len(operands) :
    LET e == operands[i]
    IN  e.code.exact /\ e.plain.exact =>
          /\ e.code.bits = e.plain.bits
          /\ e.code.type.kind = e.plain.type.kind
          /\ IsInt(e.code) => e.code.type.bits = e.plain.type.bits

(* Where the generator applies an operator or a comparison to two numbers, *)
(* they are of one width and kind, after any folding below: bit operators  *)
(* and the division of integers apart.                                     *)
OperandsAgree ==
  LET l == node.left
      r == node.right
  IN  node.op \in (BinOps \cup {"compare"}) \ (BitOps \cup {"/"}) /\ {l.kind, r.kind} \subseteq Numeric =>
        l.kind = r.kind /\ l.bits = r.bits

(* expressions.cpp:424 "the division of two integers results to float": a  *)
(* division that was accepted is generated with float operands.            *)
DivisionIsFloat == node.op = "/" /\ ~node.folded /\ node.left.kind \in Numeric =>
                     node.left.kind = "float" /\ node.right.kind = "float"
=============================================================================
