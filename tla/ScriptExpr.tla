------------------------------ MODULE ScriptExpr ------------------------------
(***************************************************************************)
(* Numeric expressions and assignments as the parser builds them           *)
(* (jsengine/src/core/parser.h), their values, and the operations on them. *)
(* Numbers are integers: no division, and % by numbers above zero.         *)
(***************************************************************************)
EXTENDS Integers, Sequences

\* Values: a tag and a number (for a boolean, 0 or 1).
Num(n) == <<"num", n>>
Bool(p) == <<"bool", IF p THEN 1 ELSE 0>>
Undef == <<"undef", 0>>
AsNum(v) == IF v[1] = "num" THEN v[2] ELSE 0
Truthy(v) == v[2] # 0

\* Nodes: NODE_NUM, NODE_IDENT, NODE_UNARY with TOK_MINUS, NODE_BINOP.
Lit(n) == [op |-> "num", value |-> n]
Var(x) == [op |-> "var", name |-> x]
Neg(e) == [op |-> "neg", of |-> e]
Bin(op, l, r) == [op |-> op, left |-> l, right |-> r]
Arithmetic == {"+", "-", "*", "%"}
Comparison == {"<", ">", "<=", ">="}
Assign(x, e) == [name |-> x, expr |-> e]

\* js_add and the other operations of math_ops.asm on two numbers.
Apply(op, a, b) ==
  CASE op = "+" -> Num(a + b) [] op = "-" -> Num(a - b) [] op = "*" -> Num(a * b)
    [] op = "%" -> Num(a % b)
    [] op = "<" -> Bool(a < b) [] op = ">" -> Bool(a > b)
    [] op = "<=" -> Bool(a <= b) [] OTHER -> Bool(a >= b)
=============================================================================
