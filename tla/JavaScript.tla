------------------------------ MODULE JavaScript ------------------------------
(***************************************************************************)
(* What scripts mean in JavaScript, for the part of the language that the  *)
(* engine is for: how a tree is written, with no more parentheses than the *)
(* precedence of operators asks for, and what a program prints.  What is   *)
(* taken from the engine is the form of trees and values, and for which    *)
(* programs it does not promise this: its limits, and, in the middle, what *)
(* it groups or evaluates in ways of its own.  Operators, texts and        *)
(* objects are those of JavaScript, not of Evaluator.                      *)
(***************************************************************************)
EXTENDS Evaluator

\* The nodes of trees, each before its children.
RECURSIVE Preorder(_)
Preorder(nodes) ==
  IF nodes = << >> THEN << >> ELSE <<Head(nodes)>> \o Preorder(Head(nodes).kids \o Tail(nodes))

RECURSIVE Has(_, _)
Has(n, types) == n.type \in types \/ \E k \in DOMAIN n.kids : Has(n.kids[k], types)

-----------------------------------------------------------------------------
(* Writing. *)

Precedence == ("||" :> 1) @@ ("&&" :> 2) @@ ("|" :> 3) @@ ("^" :> 4) @@ ("&" :> 5)
  @@ [op \in {"==", "===", "!=", "!=="} |-> 6] @@ [op \in {"<", ">", "<=", ">="} |-> 7]
  @@ [op \in {"<<", ">>"} |-> 8] @@ [op \in {"+", "-"} |-> 9] @@ [op \in {"*", "/", "%"} |-> 10]
Tightness(n) ==
  CASE n.type = "ASSIGN" -> 0 [] n.type = "BINOP" -> Precedence[Text(n)] [] n.type = "UNARY" -> 11 [] OTHER -> 12

Sign(s) == <<<<s, s>>>>

\* How programs are written: with braces around a single statement after if
\* and else, and with a semicolon before a closing brace, or without.
Styles == [braces : BOOLEAN, semicolons : BOOLEAN]

RECURSIVE Expression(_, _, _), Statement(_, _), Listed(_, _), PairsText(_, _), StatementsText(_, _)

Comma(rest) == IF rest = << >> THEN << >> ELSE Sign(",")

\* Expressions, and the pairs of an object, with commas between them.
Listed(nodes, style) ==
  IF nodes = << >> THEN << >>
  ELSE Expression(Head(nodes), 0, style) \o Comma(Tail(nodes)) \o Listed(Tail(nodes), style)
PairsText(nodes, style) ==
  LET rest == SubSeq(nodes, 3, Len(nodes)) IN
    IF nodes = << >> THEN << >>
    ELSE <<nodes[1].val>> \o Sign(":") \o Expression(nodes[2], 0, style) \o Comma(rest) \o PairsText(rest, style)
RECURSIVE Names(_)
Names(params) ==
  IF params = << >> THEN << >> ELSE <<Head(params)>> \o Comma(Tail(params)) \o Names(Tail(params))

StatementsText(nodes, style) ==
  IF nodes = << >> THEN << >> ELSE Statement(Head(nodes), style) \o StatementsText(Tail(nodes), style)

\* Statements in braces.
Braced(block, style) ==
  LET all == StatementsText(block.kids, style)
      short == all # << >> /\ ~ style.semicolons /\ Last(all) = <<";", ";">>
  IN Sign("{") \o (IF short THEN Front(all) ELSE all) \o Sign("}")

FunctionText(n, style) ==
  Sign("function") \o (IF Text(n) = "" THEN << >> ELSE <<n.val>>)
    \o Sign("(") \o Names(n.params) \o Sign(")")
    \o Braced(n.kids[1], style)

\* An expression, in parentheses if an operator of this tightness needs them.
Expression(n, around, style) ==
  LET k == n.kids
      In(j, tightness) == Expression(k[j], tightness, style)
      bare ==
        CASE n.type \in {"NUM", "STR", "BOOL", "IDENT"} -> <<n.val>>
          [] n.type = "NULL" -> Sign("null") [] n.type = "UNDEF" -> Sign("undefined")
          [] n.type = "BINOP" -> In(1, Tightness(n)) \o <<n.val>> \o In(2, Tightness(n) + 1)
          [] n.type = "UNARY" -> <<n.val>> \o In(1, 11)
          [] n.type = "ASSIGN" -> In(1, 12) \o Sign("=") \o In(2, 0)
          [] n.type = "MEMBER" -> In(1, 12) \o Sign(".") \o <<k[2].val>>
          [] n.type = "CALL" -> In(1, 12) \o Sign("(") \o Listed(Tail(k), style) \o Sign(")")
          [] n.type = "ARRAY" -> Sign("[") \o Listed(k, style) \o Sign("]")
          [] n.type = "OBJECT" -> Sign("{") \o PairsText(k, style) \o Sign("}")
          [] n.type = "FUNC" -> FunctionText(n, style)
  IN IF Tightness(n) < around THEN Sign("(") \o bare \o Sign(")") ELSE bare

\* A branch of an if statement; an if in it would take a following else.
Branched(block, style) ==
  IF ~ style.braces /\ Len(block.kids) = 1 /\ block.kids[1].type # "IF"
    THEN Statement(block.kids[1], style) ELSE Braced(block, style)

Statement(n, style) ==
  LET k == n.kids
      In(j) == Expression(k[j], 0, style)
      Condition == Sign("(") \o In(1) \o Sign(")")
  IN CASE n.type = "LET" ->
            Sign("let") \o <<n.val>> \o (IF k[1].type = "UNDEF" THEN << >> ELSE Sign("=") \o In(1)) \o Sign(";")
       [] n.type = "RETURN" -> Sign("return") \o (IF k = << >> THEN << >> ELSE In(1)) \o Sign(";")
       [] n.type = "IF" ->
            Sign("if") \o Condition \o Branched(k[2], style)
              \o (IF Len(k) = 2 THEN << >> ELSE Sign("else") \o Branched(k[3], style))
       [] n.type = "WHILE" -> Sign("while") \o Condition \o Braced(k[2], style)
       [] n.type = "FOR" ->
            Sign("for") \o Sign("(") \o Statement(k[1], style) \o In(2) \o Sign(";") \o In(3) \o Sign(")")
              \o Braced(k[4], style)
       [] n.type = "FUNC" -> FunctionText(n, style)
       [] OTHER -> Expression(n, 0, style) \o Sign(";")

\* The tokens of a program.
Source(statements, style) == StatementsText(statements, style) \o Sign("EOF")

-----------------------------------------------------------------------------
(* Programs the engine is meant for. *)

\* Unparenthesised operands that the engine groups otherwise: to it + and - bind
\* to the right, and & | ^ << >> are one level, looser than ==.
Shifts == {"<<", ">>"}
Comparisons == {"==", "===", "!=", "!==", "<", ">", "<=", ">="}
BitOps == {"&", "|", "^"} \cup Shifts
Misgrouped(op, inner, j) ==
  \/ j = 1 /\ op \in {"+", "-"} /\ inner \in {"+", "-"}
  \/ op \in Comparisons /\ inner \in Shifts
  \/ j = 2 /\ op \in BitOps /\ inner \in BitOps /\ Precedence[inner] > Precedence[op]

\* Members and calls start from a name, and a plain call is the end of a chain.
RECURSIVE Chain(_)
Chain(n) ==
  \/ n.type = "IDENT"
  \/ n.type = "MEMBER" /\ Chain(n.kids[1])
  \/ n.type = "CALL" /\ n.kids[1].type = "MEMBER" /\ Chain(n.kids[1])

Groups(n) ==
  /\ n.type = "BINOP" => \A j \in 1 .. 2 :
       n.kids[j].type = "BINOP" => ~ Misgrouped(Text(n), Text(n.kids[j]), j)
  /\ n.type = "MEMBER" => Chain(n)
  /\ n.type = "CALL" => n.kids[1].type = "IDENT" \/ Chain(n)

\* A function returns at its end only, and on each way to it or on none.
RECURSIVE Returns(_), ReturnsAtEnd(_)
Returns(n) ==
  \/ n.type = "RETURN"
  \/ n.type # "FUNC" /\ \E k \in DOMAIN n.kids : Returns(n.kids[k])
ReturnsAtEnd(n) ==
  \/ n.type = "RETURN"
  \/ n.type = "IF" /\ Len(n.kids) = 3 /\ ReturnsAtEnd(n.kids[2]) /\ ReturnsAtEnd(n.kids[3])
  \/ /\ n.type = "BLOCK" /\ n.kids # << >> /\ ReturnsAtEnd(Last(n.kids))
     /\ \A k \in 1 .. Len(n.kids) - 1 : ~ Returns(n.kids[k])

\* What is evaluated twice, or at another time than in JavaScript, has no effects:
\* the object of a method, what console.log prints and push adds after the first.
Settled(n) ==
  n.type = "CALL" /\ n.kids[1].type = "MEMBER" =>
    /\ ~ Has(n.kids[1].kids[1], {"CALL", "ASSIGN", "FUNC"})
    /\ \A k \in 3 .. Len(n.kids) : ~ Has(n.kids[k], {"CALL", "ASSIGN"})

Program(statements) == [type |-> "BLOCK", val |-> <<"", "">>, params |-> << >>, kids |-> statements]

Grammatical(statements) ==
  LET all == Preorder(statements) IN \A k \in DOMAIN all : Groups(all[k])

\* Every name is declared once, and functions are not made in loops.
Declared(n) ==
  (IF n.type \in {"LET", "FUNC"} /\ Text(n) # "" THEN <<Text(n)>> ELSE << >>)
    \o [k \in DOMAIN n.params |-> n.params[k][2]]
RECURSIVE AllDeclared(_)
AllDeclared(nodes) ==
  IF nodes = << >> THEN << >> ELSE Declared(Head(nodes)) \o AllDeclared(Tail(nodes))

Regular(statements) ==
  LET all == Preorder(statements)
      names == AllDeclared(all)
  IN
    /\ IsInjective(names)
    /\ \A k \in DOMAIN all :
         /\ Groups(all[k]) /\ Settled(all[k])
         /\ all[k].type = "FUNC" => ReturnsAtEnd(all[k].kids[1]) \/ ~ Returns(all[k].kids[1])
         /\ all[k].type \in {"WHILE", "FOR"} => ~ Has(all[k], {"FUNC"})

-----------------------------------------------------------------------------
(* What programs do. *)

\* Scopes last for ever here, and the call or loop of those in ended is over.
\* proper turns FALSE when a program does something that is an error in
\* JavaScript, or that the engine does not claim to do: it converts no operand
\* but those of +, compares values of one type only, keeps to its limits, and
\* has no functions as values but to call them.
JsFresh ==
  [scopes |-> (1 :> [parent |-> 0, vars |-> << >>]), ended |-> {}, closures |-> << >>,
   arrays |-> << >>, objects |-> << >>, out |-> "", proper |-> TRUE]
Fun(f) == <<"fun", f>>
Improper(j) == [j EXCEPT !.proper = FALSE]
Check(p, j) == IF p THEN j ELSE Improper(j)

\* A result: a value; nothing, as of a statement; or a function's return value.
Gives(v, j) == [v |-> v, j |-> j, how |-> "value"]
Done(j) == [v |-> Undef, j |-> j, how |-> "nothing"]

RECURSIVE Owner(_, _, _)
Owner(env, x, j) ==
  IF env = 0 THEN 0 ELSE IF x \in DOMAIN j.scopes[env].vars THEN env ELSE Owner(j.scopes[env].parent, x, j)
RECURSIVE Enclosing(_, _)
Enclosing(env, j) == IF env = 0 THEN {} ELSE {env} \cup Enclosing(j.scopes[env].parent, j)

Put(env, x, v, j) == [j EXCEPT !.scopes[env].vars = (x :> v) @@ @]
Opened(parent, j) == [j EXCEPT !.scopes = (Cardinality(DOMAIN @) + 1 :> [parent |-> parent, vars |-> << >>]) @@ @]
Newest(j) == Cardinality(DOMAIN j.scopes)
Close(env, j) == [j EXCEPT !.ended = @ \cup {env}]

Scalar(v) == v[1] \in {"num", "str", "bool", "null", "undef", "obj"}
RECURSIVE Plain(_, _)
Plain(v, j) ==
  CASE Is(v, "arr") -> \A k \in DOMAIN j.arrays[v[2]] : Plain(j.arrays[v[2]][k], j)
    [] Is(v, "obj") -> LET o == j.objects[v[2]] IN \A key \in DOMAIN o.value : Plain(o.value[key], j)
    [] OTHER -> v[1] \notin {"undef", "fun"}

\* Values as text (ToString), and as JSON: a number is its digits.
RECURSIVE Decimal(_), Listing(_, _), ToJson(_, _)
Decimal(n) ==
  IF n < 0 THEN "-" \o Decimal(- n)
  ELSE (IF n < 10 THEN "" ELSE Decimal(n \div 10)) \o SubSeq("0123456789", (n % 10) + 1, (n % 10) + 1)
Keyword(v) ==
  CASE v = Bool(TRUE) -> "true" [] v = Bool(FALSE) -> "false" [] v = Null -> "null" [] OTHER -> "undefined"
ToText(v) ==
  CASE Is(v, "num") -> Decimal(v[2]) [] Is(v, "str") -> v[2] [] Is(v, "obj") -> "[object Object]"
    [] OTHER -> Keyword(v)
Listing(texts, between) ==
  IF Len(texts) = 0 THEN "" ELSE IF Len(texts) = 1 THEN texts[1]
  ELSE texts[1] \o between \o Listing(Tail(texts), between)
InQuotes(s) == "\"" \o s \o "\""
ToJson(v, j) ==
  CASE Is(v, "str") -> InQuotes(v[2])
    [] Is(v, "arr") -> "[" \o Listing([k \in DOMAIN j.arrays[v[2]] |-> ToJson(j.arrays[v[2]][k], j)], ",") \o "]"
    [] Is(v, "obj") ->
         LET o == j.objects[v[2]]
         IN "{" \o Listing([k \in DOMAIN o.order |->
                             InQuotes(o.order[k]) \o ":" \o ToJson(o.value[o.order[k]], j)], ",") \o "}"
    [] OTHER -> ToText(v)

Occurs(t, s) == \E k \in 1 .. Len(s) + 1 : SubSeq(s, k, k + Len(t) - 1) = t

\* The values that are false as a condition (ToBoolean).
Falsy == {Undef, Null, Bool(FALSE), Num(0), Str("")}

\* An object: its keys in the order they came in, and the value of each.
NoKeys == [order |-> << >>, value |-> << >>]
Holding(o, key, v) ==
  [order |-> IF key \in DOMAIN o.value THEN o.order ELSE Append(o.order, key), value |-> (key :> v) @@ o.value]
Property(o, key) == IF key \in DOMAIN o.value THEN o.value[key] ELSE Undef

\* The bits of two numbers below 128.
BitOf(n, k) == (n \div 2 ^ k) % 2 = 1
Bits(op, x, y) ==
  LET Both(k) ==
        CASE op = "&" -> BitOf(x, k) /\ BitOf(y, k)
          [] op = "|" -> BitOf(x, k) \/ BitOf(y, k)
          [] OTHER -> BitOf(x, k) # BitOf(y, k)
  IN MapThenSumSet(LAMBDA k : 2 ^ k, {k \in 0 .. 6 : Both(k)})
OnNumbers(op, x, y) ==
  CASE op = "+" -> Num(x + y) [] op = "-" -> Num(x - y) [] op = "*" -> Num(x * y)
    [] op = "%" -> Num(x - y * (x \div y))
    [] op = "<" -> Bool(x < y) [] op = ">" -> Bool(y < x)
    [] op = "<=" -> Bool(~ (y < x)) [] op = ">=" -> Bool(~ (x < y))
    [] op = "<<" -> Num(x * 2 ^ y) [] op = ">>" -> Num(x \div 2 ^ y)
    [] OTHER -> Num(Bits(op, x, y))

\* Texts in a row have to keep to the buffers of str_concat.
Together(s, t, j) == Gives(Str(s \o t), Check(Len(s) <= CONCAT_LEFT /\ Len(s \o t) <= CONCAT_MAX, j))
JsBinop(op, a, b, j) ==
  LET numbers == Is(a, "num") /\ Is(b, "num")
      small == numbers /\ a[2] >= 0 /\ b[2] >= 0
  IN CASE op = "+" /\ (Is(a, "str") \/ Is(b, "str")) ->
            IF Scalar(a) /\ Scalar(b) THEN Together(ToText(a), ToText(b), j) ELSE Gives(Undef, Improper(j))
       [] op \in Comparisons \ {"<", ">", "<=", ">="} ->
            IF a[1] # b[1] THEN Gives(Undef, Improper(j))
            ELSE Gives(Bool((a[2] = b[2]) = (op \in {"==", "==="})), j)
       [] op = "%" /\ ~ (small /\ b[2] > 0) -> Gives(Undef, Improper(j))
       [] op \in BitOps /\ ~ (small /\ a[2] < 100 /\ b[2] < 8) -> Gives(Undef, Improper(j))
       [] OTHER -> IF numbers THEN Gives(OnNumbers(op, a[2], b[2]), j) ELSE Gives(Undef, Improper(j))

RECURSIVE Run(_, _, _), Value(_, _, _), Values(_, _, _), InOrder(_, _, _), Loop(_, _, _),
          Fill(_, _, _, _), Apply(_, _, _)

\* An expression of which the value is used.
Value(n, env, j) == LET r == Run(n, env, j) IN [r EXCEPT !.j = Check(r.how = "value", @)]

Values(nodes, env, j) ==
  LET first == Value(Head(nodes), env, j)
      rest == Values(Tail(nodes), env, first.j)
  IN IF nodes = << >> THEN [v |-> << >>, j |-> j] ELSE [v |-> <<first.v>> \o rest.v, j |-> rest.j]

\* Statements, up to a return.
InOrder(nodes, env, j) ==
  LET first == Run(Head(nodes), env, j) IN
    IF nodes = << >> THEN Done(j)
    ELSE IF first.how = "return" THEN first ELSE InOrder(Tail(nodes), env, first.j)

\* while, and for after its first part; each turn has a scope of its own.
Loop(loop, env, j) ==
  LET cond == Value(loop.cond, env, j)
      body == Run(loop.body, env, cond.j)
      step == IF loop.step = << >> THEN body ELSE Run(loop.step[1], env, body.j)
  IN IF ~ cond.j.proper \/ cond.v \in Falsy THEN Done(cond.j)
     ELSE IF body.how = "return" THEN body ELSE Loop(loop, env, step.j)

Fill(nodes, o, env, j) ==
  LET val == Value(nodes[2], env, j) IN
    IF nodes = << >> THEN j
    ELSE Fill(SubSeq(nodes, 3, Len(nodes)), o, env,
              [val.j EXCEPT !.objects[o] = Holding(@, Text(nodes[1]), val.v)])

\* A call: parameters without an argument are undefined.
Apply(f, args, j) ==
  LET closure == j.closures[f[2]]
      params == closure.node.params
      opened == Opened(closure.scope, Check(Len(args) <= Len(params), j))
      env == Newest(opened)
      vars == [x \in {params[k][2] : k \in DOMAIN params} |->
                 LET k == CHOOSE k \in DOMAIN params : params[k][2] = x IN
                   IF k <= Len(args) THEN args[k] ELSE Undef]
      result == Run(closure.node.kids[1], env, [opened EXCEPT !.scopes[env].vars = vars])
  IN IF ~ j.proper \/ ~ Is(f, "fun") \/ Enclosing(closure.scope, j) \cap j.ended # {}
       THEN Gives(Undef, Improper(j))
     ELSE [result EXCEPT !.how = IF @ = "return" THEN "value" ELSE @, !.j = Close(env, @)]

JsCall(n, env, j) ==
  LET callee == n.kids[1]
      args(from) == Values(Tail(n.kids), env, from)
      object == Value(callee.kids[1], env, j)
      given == args(object.j)
      a == object.v[2]
      method == <<object.v[1], Text(callee.kids[2])>>
      plain == args(j)
      first == plain.v[1]
      member == Value(callee, env, j)
  IN CASE callee.type = "MEMBER" /\ IsName(callee.kids[1], "console") ->
            IF \E k \in DOMAIN plain.v : ~ Scalar(plain.v[k]) THEN Gives(Undef, Improper(j))
            ELSE LET texts == [k \in DOMAIN plain.v |-> ToText(plain.v[k])] IN
                   Gives(Undef, [plain.j EXCEPT !.out = @ \o Listing(texts, " ") \o "\n"])
       [] callee.type = "MEMBER" /\ IsName(callee.kids[1], "JSON") ->
            LET proper == Len(plain.v) = 1 /\ Plain(first, plain.j)
                            /\ Len(ToJson(first, plain.j)) < JSON_SIZE
            IN IF proper THEN Gives(Str(ToJson(first, plain.j)), plain.j) ELSE Gives(Undef, Improper(j))
       [] callee.type = "MEMBER" /\ IsName(callee.kids[1], "Math") ->
            IF Len(plain.v) # 1 \/ ~ Is(first, "num") THEN Gives(Undef, Improper(j))
            ELSE Gives(Num(IF Text(callee.kids[2]) = "abs" /\ first[2] < 0 THEN - first[2] ELSE first[2]), plain.j)
       [] callee.type = "MEMBER" ->
            CASE method = <<"arr", "push">> ->
                   LET left == [given.j EXCEPT !.arrays[a] = @ \o given.v] IN Gives(Num(Len(left.arrays[a])), left)
              [] method = <<"arr", "pop">> ->
                   LET items == given.j.arrays[a] IN
                     IF items = << >> THEN Gives(Undef, given.j)
                     ELSE Gives(Last(items), [given.j EXCEPT !.arrays[a] = Front(items)])
              [] method = <<"str", "includes">> ->
                   IF Len(given.v) = 1 /\ Is(given.v[1], "str") THEN Gives(Bool(Occurs(given.v[1][2], object.v[2])), given.j)
                   ELSE Gives(Undef, Improper(j))
              [] OTHER -> LET called == args(member.j) IN Apply(member.v, called.v, called.j)
       [] OTHER -> LET f == Value(callee, env, j)
                       called == args(f.j)
                   IN Apply(f.v, called.v, called.j)

Run(n, env, j) ==
  LET k == n.kids
      At(i, from) == Value(k[i], env, from)
      first == At(1, j)
      second == At(2, first.j)
  IN CASE n.type = "NUM" -> Gives(Num(Text(n)), j)
       [] n.type = "STR" -> Gives(Str(Text(n)), j)
       [] n.type = "BOOL" -> Gives(Bool(Text(n) = "true"), j)
       [] n.type = "NULL" -> Gives(Null, j)
       [] n.type = "UNDEF" -> Gives(Undef, j)
       [] n.type = "IDENT" ->
            LET owner == Owner(env, Text(n), j) IN
              IF owner = 0 THEN Gives(Undef, Improper(j)) ELSE Gives(j.scopes[owner].vars[Text(n)], j)
       [] n.type = "LET" -> Done(Put(env, Text(n), first.v, first.j))
       [] n.type = "ASSIGN" ->
            LET val == At(2, j)
                owner == Owner(env, Text(k[1]), val.j)
            IN IF owner = 0 THEN Gives(val.v, Improper(val.j)) ELSE Gives(val.v, Put(owner, Text(k[1]), val.v, val.j))
       [] n.type = "BINOP" /\ Text(n) \in {"&&", "||"} ->
            IF ~ Is(first.v, "bool") THEN Gives(Undef, Improper(first.j))
            ELSE IF (first.v = Bool(TRUE)) = (Text(n) = "||") THEN first
            ELSE [second EXCEPT !.j = Check(Is(second.v, "bool"), @)]
       [] n.type = "BINOP" -> JsBinop(Text(n), first.v, second.v, second.j)
       [] n.type = "UNARY" ->
            IF Text(n) = "!" THEN Gives(Bool(first.v \in Falsy), Check(~ Is(first.v, "fun"), first.j))
            ELSE IF Is(first.v, "num") THEN Gives(Num(- first.v[2]), first.j) ELSE Gives(Undef, Improper(first.j))
       [] n.type = "IF" ->
            IF Is(first.v, "fun") THEN Done(Improper(first.j))
            ELSE IF first.v \notin Falsy THEN Run(k[2], env, first.j)
            ELSE IF Len(k) = 3 THEN Run(k[3], env, first.j) ELSE Done(first.j)
       [] n.type = "WHILE" -> Loop([cond |-> k[1], body |-> k[2], step |-> << >>], env, j)
       [] n.type = "FOR" ->
            LET inside == Newest(Opened(env, j))
                init == Run(k[1], inside, Opened(env, j))
                end == Loop([cond |-> k[2], body |-> k[4], step |-> <<k[3]>>], inside, init.j)
            IN [end EXCEPT !.j = Close(inside, @)]
       [] n.type = "FUNC" ->
            LET f == Fun(Len(j.closures) + 1)
                defined == [j EXCEPT !.closures = Append(@, [node |-> n, scope |-> env])]
            IN Gives(f, IF Text(n) = "" THEN defined ELSE Put(env, Text(n), f, defined))
       [] n.type = "CALL" -> JsCall(n, env, j)
       [] n.type = "RETURN" -> IF k = << >> THEN [Done(j) EXCEPT !.how = "return"] ELSE [first EXCEPT !.how = "return"]
       [] n.type = "BLOCK" -> InOrder(k, Newest(Opened(env, j)), Opened(env, j))
       [] n.type = "OBJECT" ->
            LET o == Len(j.objects) + 1 IN
              Gives(Obj(o), Check(Len(k) \div 2 <= OBJ_MAX_PROPS, Fill(k, o, env, [j EXCEPT !.objects = Append(@, NoKeys)])))
       [] n.type = "ARRAY" ->
            LET items == Values(k, env, j) IN
              Gives(Arr(Len(items.j.arrays) + 1), [items.j EXCEPT !.arrays = Append(@, items.v)])
       [] n.type = "MEMBER" ->
            CASE Is(first.v, "obj") -> Gives(Property(first.j.objects[first.v[2]], Text(k[2])), first.j)
              [] Is(first.v, "arr") /\ Text(k[2]) = "length" -> Gives(Num(Len(first.j.arrays[first.v[2]])), first.j)
              [] Is(first.v, "str") /\ Text(k[2]) = "length" -> Gives(Num(Len(first.v[2])), first.j)
              [] OTHER -> Gives(Undef, Improper(first.j))
=============================================================================
