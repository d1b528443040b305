-------------------------------- MODULE MCJit --------------------------------
EXTENDS Jit

X == Var("x")
Y == Var("y")
Z == Var("z")

\* Every operation; two and three registers; a comparison as a number; a unary
\* minus, which is not compiled; % in the last registers; a third and a fourth
\* variable.
MCRights ==
  {Lit(1), Y, Z, Neg(X), Bin("+", X, Lit(1)), Bin("*", X, Y), Bin("-", Y, X), Bin("%", Y, Lit(2)),
   Bin("<", X, Y), Bin("+", X, Bin("+", Y, Lit(1))), Bin("-", Y, Bin("-", X, Bin("-", Y, X))),
   Bin("+", Z, Bin("%", Y, Lit(2))), Bin("+", Z, Var("w")), Var("w")}
MCStatements == {Assign(x, e) : x \in {"x", "y"}, e \in MCRights}
MCSeconds == {Assign("x", Bin("+", X, Lit(1))), Assign("y", Bin("-", Y, X)), Assign("y", Z),
              Assign("x", Bin("+", Z, Bin("%", Y, Lit(2)))), Assign("x", Var("w")), Assign("y", Neg(X))}
MCBodies == {<< >>} \cup {<<s>> : s \in MCStatements}
              \cup {<<s, t>> : s \in MCStatements, t \in MCSeconds} \cup {<<t, s>> : s \in MCStatements, t \in MCSeconds}
MCConds == {Bin("<", X, Lit(2)), Bin(">=", Lit(1), X), Bin("<", Bin("*", X, Y), Lit(3)),
            Bin(">", Y, X), Bin("<=", Y, Bin("+", X, Lit(1))), X}

MCScopes == [x : {Num(0), Num(1)}, y : {Num(0), Num(3), Undef}, z : {Num(2)}, w : {Num(-1)}]

RECURSIVE Parts(_), HeightOf(_)
PartsOf(e) ==
  CASE e.op \in {"num", "var"} -> {} [] e.op = "neg" -> {e.of} [] OTHER -> {e.left, e.right}
Parts(e) == {e} \cup UNION {Parts(n) : n \in PartsOf(e)}
HeightOf(e) == 1 + Max({0} \cup {HeightOf(n) : n \in PartsOf(e)})
MCExprs == UNION {Parts(e) : e \in MCRights \cup MCConds}
MCHeight == [e \in MCExprs |-> HeightOf(e)]
MCNames == {"w", "x", "y", "z"}
MCJunk == {7}
=============================================================================
