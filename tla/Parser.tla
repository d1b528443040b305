-------------------------------- MODULE Parser --------------------------------
(***************************************************************************)
(* The recursive descent of jsengine/src/core/parser.c, over the token     *)
(* list of lexer.c.  A token is its kind and its text, and a node keeps    *)
(* the token that its operator, number or string was read from.            *)
(***************************************************************************)
EXTENDS Integers, Sequences

VARIABLES tokens, pos   \* the list js_parse was given, which ends with EOF, and its place there

Symbol(k) == <<k, k>>
EndMark == Symbol("EOF")
None == Symbol("")
Node(type, val, kids) == [type |-> type, val |-> val, params |-> << >>, kids |-> kids]
Undefined == Node("UNDEF", None, << >>)

\* Behind the list is whatever memory holds: this is one of the possibilities,
\* under which the parser stops.
Token(p) == IF p <= Len(tokens) THEN tokens[p] ELSE EndMark
Kind(p) == Token(p)[1]

\* A place in the list, whether nothing has been reported on the way there, and
\* the node (or nodes) made last.
From(p) == [at |-> p, silent |-> TRUE, node |-> Undefined]
At(s, k) == Kind(s.at) = k
Advance(s) == [s EXCEPT !.at = @ + 1]
Skip(s, k) == IF At(s, k) THEN Advance(s) ELSE s
Expect(s, k) == IF At(s, k) THEN Advance(s) ELSE [s EXCEPT !.silent = FALSE]
Made(s, node) == [s EXCEPT !.node = node]

\* The binary operators, level by level: parse_expr, parse_logic_and,
\* parse_bitwise, parse_equality, parse_comparison, parse_add and parse_mul.
Levels == << {"||"}, {"&&"}, {"&", "|", "^", "<<", ">>"}, {"==", "===", "!=", "!=="},
             {"<", ">", "<=", ">="}, {"+", "-"}, {"*", "/", "%"} >>

\* Variant: every operator's right operand is parsed by its own function.
RightLevelOwn(level) == level

\* The level of an operator's right operand: parse_add calls itself.
RightLevel(level) == IF level = 6 THEN 6 ELSE level + 1

RECURSIVE parse_expr(_), Unary(_), Binary(_, _), parse_primary(_), parse_statement(_),
          Elements(_, _), Members(_), Pairs(_), Params(_), Statements(_)

\* Variant: a separator is taken for granted.
ElementsCounted(s, close) ==
  LET first == parse_expr(s)
      rest == Elements(Advance(first), close)
  IN IF At(s, close) \/ At(s, "EOF") THEN Made(s, << >>)
     ELSE IF At(first, close) THEN Made(first, <<first.node>>)
     ELSE Made(rest, <<first.node>> \o rest.node)

\* Arguments or elements, up to the closing token; commas may be missing.
Elements(s, close) ==
  LET first == parse_expr(s)
      rest == Elements(Skip(first, ","), close)
  IN IF At(s, close) \/ At(s, "EOF") THEN Made(s, << >>)
     ELSE Made(rest, <<first.node>> \o rest.node)

Call(s, callee) ==
  LET args == Elements(Advance(s), ")") IN
    Made(Expect(args, ")"), Node("CALL", None, <<callee>> \o args.node))

\* .prop and .prop(...) as long as they follow.
Members(s) ==
  LET prop == Node("STR", Token(s.at + 1), << >>)
      named == [s EXCEPT !.at = @ + 2, !.node = Node("MEMBER", None, <<s.node, prop>>)]
  IN IF ~ At(s, ".") THEN s
     ELSE Members(IF At(named, "(") THEN Call(named, named.node) ELSE named)

\* A name: a call, which ends there; or members; or an assignment.
Name(s) ==
  LET name == Made(Advance(s), Node("IDENT", Token(s.at), << >>))
      chain == Members(name)
      value == parse_expr(Advance(chain))
  IN IF At(name, "(") THEN Call(name, name.node)
     ELSE IF At(chain, "=") /\ chain.node.type = "IDENT"
       THEN Made(value, Node("ASSIGN", None, <<chain.node, value.node>>))
     ELSE chain

\* Any token is a parameter's name.
Params(s) ==
  LET rest == Params(Skip(Advance(s), ",")) IN
    IF At(s, ")") \/ At(s, "EOF") THEN Made(s, << >>)
    ELSE Made(rest, <<Token(s.at)>> \o rest.node)

\* Statements up to a closing brace.
Statements(s) ==
  LET first == parse_statement(s)
      rest == Statements(first)
  IN IF At(s, "}") \/ At(s, "EOF") THEN Made(s, << >>)
     ELSE Made(rest, <<first.node>> \o rest.node)

\* { statements }
Block(s) ==
  LET body == Statements(Expect(s, "{")) IN Made(Expect(body, "}"), Node("BLOCK", None, body.node))

Function(s) ==
  LET named == IF At(Advance(s), "IDENT") THEN Advance(Advance(s)) ELSE Advance(s)
      name == IF At(Advance(s), "IDENT") THEN Token(s.at + 1) ELSE None
      params == Params(Expect(named, "("))
      body == Block(Expect(params, ")"))
  IN Made(body, [Node("FUNC", name, <<body.node>>) EXCEPT !.params = params.node])

\* key: value pairs up to a closing brace; any token is a key.
Pairs(s) ==
  LET value == parse_expr(Expect(Advance(s), ":"))
      rest == Pairs(Skip(value, ","))
  IN IF At(s, "}") \/ At(s, "EOF") THEN Made(s, << >>)
     ELSE Made(rest, <<Node("STR", Token(s.at), << >>), value.node>> \o rest.node)

parse_primary(s) ==
  CASE Kind(s.at) \in {"NUM", "STR", "BOOL"} -> Made(Advance(s), Node(Kind(s.at), Token(s.at), << >>))
    [] At(s, "null") -> Made(Advance(s), Node("NULL", None, << >>))
    [] At(s, "undefined") -> Made(Advance(s), Undefined)
    [] At(s, "IDENT") -> Name(s)
    [] At(s, "(") -> Expect(parse_expr(Advance(s)), ")")
    [] At(s, "function") -> Function(s)
    [] At(s, "[") ->
         LET items == Elements(Advance(s), "]") IN
           Made(Expect(items, "]"), Node("ARRAY", None, items.node))
    [] At(s, "{") /\ Kind(s.at + 1) = "IDENT" /\ Kind(s.at + 2) = ":" ->
         LET pairs == Pairs(Advance(s)) IN
           Made(Expect(pairs, "}"), Node("OBJECT", None, pairs.node))
    [] At(s, "{") /\ Kind(s.at + 1) = "}" -> Made(Advance(Advance(s)), Node("OBJECT", None, << >>))
    [] OTHER -> [Advance(s) EXCEPT !.silent = FALSE, !.node = Undefined]

\* parse_unary
Unary(s) ==
  LET operand == Unary(Advance(s)) IN
    IF At(s, "-") \/ At(s, "!") THEN Made(operand, Node("UNARY", Token(s.at), <<operand.node>>))
    ELSE parse_primary(s)

\* The loop of a level, after its left operand.
RECURSIVE Operators(_, _)
Operators(left, level) ==
  LET right == Binary(Advance(left), RightLevel(level)) IN
    IF Kind(left.at) \in Levels[level]
      THEN Operators(Made(right, Node("BINOP", Token(left.at), <<left.node, right.node>>)), level)
      ELSE left
Binary(s, level) ==
  IF level > Len(Levels) THEN Unary(s) ELSE Operators(Binary(s, level + 1), level)

parse_expr(s) == Binary(s, 1)

\* The body of if or else: a block or one statement.
Branch(s) ==
  LET one == parse_statement(s) IN
    IF At(s, "{") THEN Block(s) ELSE Made(one, Node("BLOCK", None, <<one.node>>))

\* Any token is a variable's name.
Declaration(s) ==
  LET named == Advance(Advance(s))
      value == IF At(named, "=") THEN parse_expr(Advance(named)) ELSE Made(named, Undefined)
  IN Made(Skip(value, ";"), Node("LET", Token(s.at + 1), <<value.node>>))

Return(s) ==
  LET next == Advance(s)
      value == parse_expr(next)
  IN IF At(next, ";") \/ At(next, "}") THEN Made(Skip(next, ";"), Node("RETURN", None, << >>))
     ELSE Made(Skip(value, ";"), Node("RETURN", None, <<value.node>>))

If(s) ==
  LET cond == parse_expr(Expect(Advance(s), "("))
      body == Branch(Expect(cond, ")"))
      else == Branch(Advance(body))
  IN IF At(body, "else") THEN Made(else, Node("IF", None, <<cond.node, body.node, else.node>>))
     ELSE Made(body, Node("IF", None, <<cond.node, body.node>>))

While(s) ==
  LET cond == parse_expr(Expect(Advance(s), "("))
      body == Block(Expect(cond, ")"))
  IN Made(body, Node("WHILE", None, <<cond.node, body.node>>))

For(s) ==
  LET init == parse_statement(Expect(Advance(s), "("))
      cond == parse_expr(init)
      step == parse_expr(Skip(cond, ";"))
      body == Block(Expect(step, ")"))
  IN Made(body, Node("FOR", None, <<init.node, cond.node, step.node, body.node>>))

parse_statement(s) ==
  CASE At(s, "let") -> Declaration(s)
    [] At(s, "return") -> Return(s)
    [] At(s, "if") -> If(s)
    [] At(s, "while") -> While(s)
    [] At(s, "for") -> For(s)
    [] OTHER -> Skip(parse_expr(s), ";")
=============================================================================
