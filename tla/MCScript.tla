------------------------------- MODULE MCScript -------------------------------
(* Programs and token lists small enough for TLC. *)
EXTENDS Script

Number(n) == Node("NUM", <<"NUM", n>>, << >>)
Quoted(s) == Node("STR", <<"STR", s>>, << >>)
Yes == Node("BOOL", <<"BOOL", "true">>, << >>)
Id(x) == Node("IDENT", <<"IDENT", x>>, << >>)
Op(l, op, r) == Node("BINOP", Symbol(op), <<l, r>>)
Negated(e) == Node("UNARY", Symbol("!"), <<e>>)
Minus(e) == Node("UNARY", Symbol("-"), <<e>>)
LetBe(x, e) == Node("LET", <<"IDENT", x>>, <<e>>)
Becomes(x, e) == Node("ASSIGN", None, <<Id(x), e>>)
Dot(e, prop) == Node("MEMBER", None, <<e, Node("STR", <<"IDENT", prop>>, << >>)>>)
CallOf(f, args) == Node("CALL", None, <<f>> \o args)
LogOf(args) == CallOf(Dot(Id("console"), "log"), args)
Array(items) == Node("ARRAY", None, items)
Object(pairs) ==
  Node("OBJECT", None, FlattenSeq([k \in DOMAIN pairs |->
    <<Node("STR", <<"IDENT", pairs[k][1]>>, << >>), pairs[k][2]>>]))
Do(statements) == Node("BLOCK", None, statements)
Fn(name, params, body) ==
  [Node("FUNC", name, <<Do(body)>>) EXCEPT !.params = [k \in DOMAIN params |-> <<"IDENT", params[k]>>]]
Named(f, params, body) == Fn(<<"IDENT", f>>, params, body)
Ret(e) == Node("RETURN", None, <<e>>)
IfElse(c, a, b) == Node("IF", None, <<c, Do(a), Do(b)>>)
IfOnly(c, a) == Node("IF", None, <<c, Do(a)>>)
WhileDo(c, a) == Node("WHILE", None, <<c, Do(a)>>)
ForDo(init, c, step, a) == Node("FOR", None, <<init, c, step, Do(a)>>)

X == Id("x")
S == Id("s")
R == Id("r")
O == Id("o")
P == Id("p")
F(e) == CallOf(Id("f"), <<e>>)

-----------------------------------------------------------------------------
(* Expressions: every operator over operands of every level. *)

EveryOp == UNION {Levels[k] : k \in DOMAIN Levels} \ {"/", "===", "!=="}
OneOfALevel == {"||", "&&", "|", "&", "<<", "!=", "<", "+", "-", "*"}
Operands ==
  {X, Number(1), Minus(X), Negated(Op(X, "<", X)), F(X), Dot(O, "k"), Array(<<X>>)}
    \cup {Op(X, op, Number(3)) : op \in OneOfALevel} \cup {Becomes("x", Number(4))}
Expressions == {Op(l, op, r) : l \in Operands, op \in EveryOp, r \in Operands}

\* As a condition and as what is printed.
ExpressionPrograms == {<<LetBe("x", Number(2)), LogOf(<<e>>)>> : e \in Expressions}

-----------------------------------------------------------------------------
(* Programs: variables of each kind, a function, some statements, and what is left. *)

Prelude == <<LetBe("x", Number(2)), LetBe("s", Quoted("a")), LetBe("r", Array(<<Number(1)>>)),
             LetBe("o", Object(<< <<"k", Number(3)>> >>))>>
Rest == <<LogOf(<<X, S, Dot(R, "length"), Dot(O, "k")>>),
          LogOf(<<CallOf(Dot(Id("JSON"), "stringify"), <<R>>)>>),
          LogOf(<<CallOf(Dot(Id("JSON"), "stringify"), <<O>>)>>)>>

FunctionBodies ==
  { <<Ret(Op(P, "+", Number(1)))>>,
    <<Becomes("x", P), Ret(Op(X, "*", Number(2)))>>,
    <<IfElse(Op(P, "<", Number(2)), <<Ret(Number(1))>>, <<Ret(Op(P, "*", F(Op(P, "-", Number(1)))))>>)>>,
    <<LetBe("q", P), WhileDo(Op(Id("q"), ">", Number(1)), <<Becomes("q", Op(Id("q"), "-", Number(2)))>>),
      Ret(Op(Id("q"), "+", P))>>,
    <<Named("h", <<"z">>, <<Ret(Op(Id("z"), "+", P))>>), Ret(CallOf(Id("h"), <<CallOf(Id("h"), <<X>>)>>))>>,
    <<LogOf(<<P>>)>>,
    <<CallOf(Dot(R, "push"), <<P>>), Ret(Dot(R, "length"))>>,
    <<Ret(Fn(None, <<"z">>, <<Ret(Op(Id("z"), "+", P))>>))>>,
    <<IfOnly(Op(P, "<", Number(2)), <<Ret(Number(1))>>), Ret(Number(5))>> }

Middle ==
  { Becomes("x", Op(X, "+", Op(X, "*", X))), Becomes("s", Op(S, "+", X)), Becomes("s", Op(X, "+", Op(S, "+", Yes))),
    Becomes("s", Op(S, "+", Quoted("bcde"))), LogOf(<<Array(<<S, S>>)>>),
    Becomes("o", Object(<< <<"m", S>>, <<"k", X>> >>)), IfOnly(S, <<Becomes("x", Number(0))>>),
    IfElse(Op(X, "<", Number(3)), <<Becomes("x", Number(5))>>, <<Becomes("s", Quoted("b")), LogOf(<<S>>)>>),
    IfOnly(Op(S, "==", Quoted("a")), <<IfElse(Negated(Op(X, "<", Number(3))), <<Becomes("x", Number(1))>>, <<F(X)>>)>>),
    IfOnly(X, <<LetBe("y", Op(X, "+", Number(1))), Becomes("x", Id("y"))>>),
    WhileDo(Op(X, "<", Number(4)), <<Becomes("x", Op(X, "+", Number(1))), CallOf(Dot(R, "push"), <<X>>)>>),
    ForDo(LetBe("i", Number(0)), Op(Id("i"), "<", Number(3)), Becomes("i", Op(Id("i"), "+", Number(1))),
         <<Becomes("x", Op(X, "+", Id("i"))), IfOnly(Op(Id("i"), ">", Number(0)), <<F(Id("i"))>>)>>),
    CallOf(Dot(R, "push"), <<X, Number(7)>>), Becomes("x", CallOf(Dot(R, "pop"), << >>)),
    CallOf(Dot(R, "push"), <<CallOf(Dot(R, "pop"), << >>)>>),
    Becomes("o", Object(<< <<"k", X>>, <<"k", F(Number(1))>> >>)), Becomes("x", Dot(O, "k")),
    Becomes("o", Object(<< <<"k", Id("f")>>, <<"m", S>> >>)), LogOf(<<CallOf(Dot(O, "k"), <<Number(1)>>)>>),
    Becomes("r", Array(<<S, Dot(S, "length"), Array(<< >>)>>)),
    LogOf(<<F(X)>>), Becomes("x", F(F(Number(1)))), F(Number(3)),
    LetBe("g", F(Number(1))), LogOf(<<CallOf(Id("g"), <<Number(1)>>)>>),
    LetBe("g", Fn(None, <<"u", "w">>, <<Ret(Op(Id("u"), "-", X))>>)), Becomes("x", CallOf(Id("g"), <<Number(9), X>>)),
    Becomes("x", CallOf(Dot(Id("Math"), "abs"), <<Minus(X)>>)),
    LogOf(<<CallOf(Dot(S, "includes"), <<Quoted("a")>>)>>),
    LogOf(<<Op(Op(X, "<", Number(3)), "&&", Op(F(X), ">", Number(2)))>>),
    LogOf(<<Op(Op(X, "!=", Number(2)), "||", Op(F(Number(1)), "<=", X))>>),
    LogOf(<<Node("NULL", None, << >>), Undefined, S>>), IfElse(Dot(R, "length"), << >>, <<Becomes("x", Number(0))>>) }

\* After each of them, one that depends on what the others may have changed.
After ==
  { Becomes("s", Op(X, "+", Op(S, "+", Yes))), LogOf(<<F(X)>>), Becomes("x", F(F(Number(1)))), F(Number(3)),
    IfElse(Op(X, "<", Number(3)), <<Becomes("x", Number(5))>>, <<Becomes("s", Quoted("b")), LogOf(<<S>>)>>),
    WhileDo(Op(X, "<", Number(4)), <<Becomes("x", Op(X, "+", Number(1))), CallOf(Dot(R, "push"), <<X>>)>>),
    ForDo(LetBe("i", Number(0)), Op(Id("i"), "<", Number(2)), Becomes("i", Op(Id("i"), "+", Number(1))), <<F(Id("i"))>>),
    CallOf(Dot(R, "push"), <<CallOf(Dot(R, "pop"), << >>)>>), LogOf(<<CallOf(Dot(O, "k"), <<Number(1)>>)>>),
    Becomes("o", Object(<< <<"k", X>>, <<"k", F(Number(1))>> >>)), LogOf(<<CallOf(Id("g"), <<Number(1)>>)>>),
    LogOf(<<Op(Op(X, "<", Number(3)), "&&", Op(F(X), ">", Number(2)))>>) }

Programs == {Prelude \o <<Named("f", <<"p">>, body), a, b>> \o Rest : body \in FunctionBodies, a \in Middle, b \in After}

Plainly == [braces |-> TRUE, semicolons |-> TRUE]
Tersely == [braces |-> FALSE, semicolons |-> FALSE]
MCMeant ==
  [statements : ExpressionPrograms, style : {Plainly}] \cup [statements : Programs, style : {Tersely}]

-----------------------------------------------------------------------------
(* Token lists: up to three tokens of every kind, four of those that open,  *)
(* close and separate, five of those of a call.                              *)

Atoms == {<<"NUM", 1>>, <<"IDENT", "x">>}
Kinds == Atoms
  \cup {Symbol(k) : k \in {"(", ")", "{", "}", ";", ",", ".", "=", "-", "==", "let", "return", "if", "for", "function"}}
FewKinds == Atoms \cup {Symbol(k) : k \in {"(", ")", "{", "}", ",", ".", "-", "let", "function"}}
CallKinds == {<<"IDENT", "x">>} \cup {Symbol(k) : k \in {"(", ")", ",", "-"}}
MCAnyTokens ==
  {list \o <<EndMark>> :
     list \in UNION {[1 .. n -> Kinds] : n \in 1 .. 3} \cup [1 .. 4 -> FewKinds] \cup [1 .. 5 -> CallKinds]}

-----------------------------------------------------------------------------
(* Texts: up to three characters of every kind, longer ones of a few kinds.  *)

Characters == {"1", ".", "i", "f", "=", "!", "<", "&", "-", "/", "*", "\"", "'", "\\", " ", "\n", "(", "#"}
Lines == {"/", "*", "\n", "i", " "}
Marks == {"=", "!", "<", "-", "1", "."}
Strings == {"\"", "'", "\\", "i"}
MCAnyTexts ==
  UNION {[1 .. n -> Characters] : n \in 0 .. 3}
    \cup [1 .. 5 -> Lines] \cup [1 .. 4 -> Marks] \cup [1 .. 5 -> Strings]
=============================================================================
