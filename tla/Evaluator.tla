------------------------------ MODULE Evaluator ------------------------------
(***************************************************************************)
(* js_eval on whole programs (jsengine/src/core/eval.c), over the trees of *)
(* Parser, with the values of value.c: scopes and their chains, the table  *)
(* of functions, arrays, objects, strings, the built-in objects and what   *)
(* is printed.  Numbers are integers; a value is its tag and its content,  *)
(* and an array or object is its number.                                   *)
(***************************************************************************)
EXTENDS Integers, Sequences, SequencesExt, Functions, Bitwise, TLC

CONSTANTS
  OBJ_MAX_PROPS, JSON_SIZE,   \* limits: properties of an object, json_buf
  CONCAT_LEFT, CONCAT_MAX,    \* what the buffers of str_concat hold: 511, 1023
  PRINT_SIZE, PRINT_LEFT      \* print_buf, and what must be left of it: 256, 10

LOCAL Numbers == INSTANCE ScriptExpr

Num(n) == Numbers!Num(n)
Bool(p) == Numbers!Bool(p)
Str(s) == <<"str", s>>
Arr(a) == <<"arr", a>>
Obj(o) == <<"obj", o>>
Null == <<"null", 0>>
Undef == Numbers!Undef
AsNum(v) == Numbers!AsNum(v)
Is(v, tag) == v[1] = tag
js_is_truthy(v) ==
  CASE Is(v, "str") -> v[2] # "" [] Is(v, "arr") \/ Is(v, "obj") -> TRUE [] OTHER -> v[2] # 0

\* What a program works on: the scopes allocated, the next scope's number, the
\* functions defined, arrays, objects, the output, and whether something was
\* used that is not there, or computed that is not modelled: what happens then
\* is left open.
Fresh ==
  [scopes |-> (1 :> [parent |-> 0, vars |-> << >>]), next |-> 2, closures |-> << >>,
   arrays |-> << >>, objects |-> << >>, out |-> "", broken |-> FALSE]
Broken(m) == [m EXCEPT !.broken = TRUE]
Is2(v, m) == [v |-> v, m |-> m]

-----------------------------------------------------------------------------
(* Scopes (env_new, env_free, env_set, env_get). *)

\* The scope of the chain that has the name: 0 if none has, -1 if a scope of the
\* chain has been freed.
RECURSIVE Holder(_, _, _)
Holder(env, x, m) ==
  IF env = 0 THEN 0 ELSE IF env \notin DOMAIN m.scopes THEN -1
  ELSE IF x \in DOMAIN m.scopes[env].vars THEN env ELSE Holder(m.scopes[env].parent, x, m)

Bind(env, x, v, m) == [m EXCEPT !.scopes[env].vars = (x :> v) @@ @]

\* Variant: an assignment stays in the current scope.
env_set_here(env, x, v, m) == Bind(env, x, v, m)

\* The name is changed where the chain has it, or else added to the first scope.
env_set(env, x, v, m) ==
  LET holder == Holder(env, x, m) IN
    IF holder = -1 THEN Broken(m) ELSE Bind(IF holder = 0 THEN env ELSE holder, x, v, m)

env_get(env, x, m) ==
  LET holder == Holder(env, x, m) IN
    IF holder = -1 THEN Is2(Undef, Broken(m))
    ELSE IF holder = 0 THEN Is2(Undef, m) ELSE Is2(m.scopes[holder].vars[x], m)

\* A new scope in m; it has the number m.next.
env_new(parent, m) ==
  [m EXCEPT !.scopes = (m.next :> [parent |-> parent, vars |-> << >>]) @@ @, !.next = @ + 1]

\* Variant: a scope stays when it is left.
env_free_none(env, m) == m

env_free(env, m) == [m EXCEPT !.scopes = Restrict(@, DOMAIN @ \ {env})]

-----------------------------------------------------------------------------
(* Values as text (js_to_string, js_to_json). *)

Join(texts, between) ==
  FoldLeftDomain(LAMBDA s, k : IF k = 1 THEN texts[1] ELSE s \o between \o texts[k], "", texts)

Cut(s, n) == SubSeq(s, 1, IF Len(s) < n THEN Len(s) ELSE n)

\* The text of an array in print_buf: items are added while more than PRINT_LEFT
\* bytes are left.  One that does not fit is cut, but its whole length counts.
ArrayText(texts) ==
  LET Add(t, k) ==
        LET left == IF k = 1 THEN t.left ELSE t.left - 1
            separated == IF k = 1 THEN t.text ELSE t.text \o ","
        IN IF t.left <= PRINT_LEFT THEN t
           ELSE [text |-> separated \o Cut(texts[k], left - 1), left |-> left - Len(texts[k])]
      all == FoldLeftDomain(Add, [text |-> "[", left |-> PRINT_SIZE - 1], texts)
  IN [all EXCEPT !.text = IF all.left > 1 THEN @ \o "]" ELSE @]

RECURSIVE js_to_string(_, _)
js_to_string(v, m) ==
  CASE Is(v, "num") -> ToString(v[2]) [] Is(v, "str") -> v[2]
    [] Is(v, "bool") -> IF v[2] = 1 THEN "true" ELSE "false"
    [] Is(v, "null") -> "null" [] Is(v, "undef") -> "undefined" [] Is(v, "obj") -> "[object Object]"
    [] OTHER -> LET items == m.arrays[v[2]] IN
         ArrayText([k \in DOMAIN items |-> js_to_string(items[k], m)]).text

\* Numbers in an array, and arrays in it, are written to the buffer in which the
\* array's own text is put together; and if an item was cut, the end is written
\* behind that buffer.
Garbled(v, m) ==
  /\ Is(v, "arr")
  /\ LET items == m.arrays[v[2]] IN
       \/ \E k \in DOMAIN items : items[k][1] \in {"num", "arr"}
       \/ ArrayText([k \in DOMAIN items |-> js_to_string(items[k], m)]).left < 0
Shown(vs, m) == IF \E k \in DOMAIN vs : Garbled(vs[k], m) THEN Broken(m) ELSE m

\* Two texts in a row: the left one is cut, and then what the two give.
str_concat(a, b, m) ==
  Is2(Str(Cut(Cut(js_to_string(a, m), CONCAT_LEFT) \o js_to_string(b, m), CONCAT_MAX)), Shown(<<a, b>>, m))

RECURSIVE js_to_json(_, _)
js_to_json(v, m) ==
  CASE Is(v, "str") -> "\"" \o v[2] \o "\""
    [] Is(v, "undef") -> "null"
    [] Is(v, "arr") -> LET items == m.arrays[v[2]] IN
         "[" \o Join([k \in DOMAIN items |-> js_to_json(items[k], m)], ",") \o "]"
    [] Is(v, "obj") -> LET props == m.objects[v[2]] IN
         "{" \o Join([k \in DOMAIN props |-> "\"" \o props[k][1] \o "\":" \o js_to_json(props[k][2], m)], ",") \o "}"
    [] OTHER -> js_to_string(v, m)

\* JSON.stringify: strings are cut to the buffer, the parts of an array or an
\* object go on behind it.
Json(v, m) ==
  LET text == js_to_json(v, m) IN
    IF Len(text) < JSON_SIZE THEN Is2(Str(text), m)
    ELSE IF Is(v, "arr") \/ Is(v, "obj") THEN Is2(Undef, Broken(m))
    ELSE Is2(Str(SubSeq(text, 1, JSON_SIZE - 1)), m)

js_obj_set(props, key, v) ==
  IF \E k \in DOMAIN props : props[k][1] = key
    THEN [k \in DOMAIN props |-> IF props[k][1] = key THEN <<key, v>> ELSE props[k]]
    ELSE IF Len(props) < OBJ_MAX_PROPS THEN Append(props, <<key, v>>) ELSE props

js_obj_get(props, key) ==
  LET found == {k \in DOMAIN props : props[k][1] = key} IN
    IF found = {} THEN Undef ELSE props[CHOOSE k \in found : TRUE][2]

-----------------------------------------------------------------------------
(* Operators. *)

\* js_eq on numbers, strcmp on strings, the same bits otherwise.
Same(a, b) == a[1] = b[1] /\ a[2] = b[2]

\* Bits of small numbers; NaN and what overflows 32 bits are left open.
Binop(op, a, b, m) ==
  LET x == AsNum(a)
      y == AsNum(b)
  IN CASE op = "+" /\ (Is(a, "str") \/ Is(b, "str")) -> str_concat(a, b, m)
       [] op \in {"==", "==="} -> Is2(Bool(Same(a, b)), m)
       [] op \in {"!=", "!=="} -> Is2(Bool(~ Same(a, b)), m)
       [] (op = "%" /\ y <= 0) \/ (op \in {"&", "|", "^", "<<", ">>"} /\ ~ (x \in 0 .. 99 /\ y \in 0 .. 9)) ->
            Is2(Undef, Broken(m))
       [] op = "&" -> Is2(Num(x & y), m) [] op = "|" -> Is2(Num(x | y), m)
       [] op = "^" -> Is2(Num(x ^^ y), m)
       [] op = "<<" -> Is2(Num(x * 2 ^ y), m) [] op = ">>" -> Is2(Num(x \div 2 ^ y), m)
       [] OTHER -> Is2(Numbers!Apply(op, x, y), m)

Unop(op, v) ==
  CASE op = "!" -> Bool(~ js_is_truthy(v))
    [] op = "-" /\ Is(v, "num") -> Num(- v[2])
    [] OTHER -> Undef

Member(v, prop, m) ==
  CASE Is(v, "arr") /\ prop = "length" -> Num(Len(m.arrays[v[2]]))
    [] Is(v, "str") /\ prop = "length" -> Num(Len(v[2]))
    [] Is(v, "obj") -> js_obj_get(m.objects[v[2]], prop)
    [] OTHER -> Undef

-----------------------------------------------------------------------------
(* js_eval: the value of a node, and what is left. *)

Text(n) == n.val[2]
IsName(n, x) == n.type = "IDENT" /\ Text(n) = x

RECURSIVE js_eval(_, _, _), All(_, _, _), Log(_, _, _, _), Turns(_, _, _, _),
          Body(_, _, _, _), Push(_, _, _, _), Properties(_, _, _, _), Arguments(_, _, _, _, _)

\* Nodes from left to right, and their values.
All(nodes, env, m) ==
  LET first == js_eval(Head(nodes), env, m)
      rest == All(Tail(nodes), env, first.m)
  IN IF nodes = << >> THEN Is2(<< >>, m) ELSE Is2(<<first.v>> \o rest.v, rest.m)

\* console.log: each argument is printed before the next one is evaluated.
Log(args, k, env, m) ==
  LET spaced == IF k = 1 THEN m ELSE [m EXCEPT !.out = @ \o " "]
      arg == js_eval(args[k], env, spaced)
      shown == [Shown(<<arg.v>>, arg.m) EXCEPT !.out = @ \o js_to_string(arg.v, arg.m)]
  IN IF k > Len(args) THEN [m EXCEPT !.out = @ \o "\n"] ELSE Log(args, k + 1, env, shown)

\* console.log, Math and JSON, whatever these names are bound to; what random and
\* sqrt give is left open.
BuiltIn(mem, args, env, m) ==
  LET object == Text(mem.kids[1])
      first == IF args = << >> THEN Is2(IF object = "Math" THEN Num(0) ELSE Undef, m)
               ELSE js_eval(args[1], env, m)
      n == AsNum(first.v)
  IN CASE object = "console" -> Is2(Undef, Log(args, 1, env, m))
       [] object = "JSON" -> Json(first.v, first.m)
       [] Text(mem.kids[2]) \in {"sqrt", "random"} -> Is2(Undef, Broken(first.m))
       [] OTHER -> Is2(Num(IF Text(mem.kids[2]) = "abs" /\ n < 0 THEN - n ELSE n), first.m)
IsBuiltIn(n) ==
  /\ n.type = "MEMBER" /\ n.kids[1].type = "IDENT"
  /\ <<Text(n.kids[1]), Text(n.kids[2])>> \in
       {<<"console", "log">>, <<"JSON", "stringify">>} \cup ({"Math"} \X {"floor", "ceil", "abs", "round", "sqrt", "random"})

\* The argument of another name of Math is evaluated before it is looked for.
Unknown(mem, args, env, m) ==
  IF IsName(mem.kids[1], "Math") /\ args # << >> THEN js_eval(args[1], env, m).m ELSE m

Pop(a, m) ==
  IF m.arrays[a] = << >> THEN Is2(Undef, m)
  ELSE Is2(Last(m.arrays[a]), [m EXCEPT !.arrays[a] = Front(@)])

\* Each value is pushed before the next one is evaluated.
Push(a, args, env, m) ==
  LET arg == js_eval(Head(args), env, m) IN
    IF args = << >> THEN Is2(Num(Len(m.arrays[a])), m)
    ELSE Push(a, Tail(args), env, [arg.m EXCEPT !.arrays[a] = Append(@, arg.v)])

IsMethod(v, prop) ==
  \/ Is(v, "arr") /\ prop \in {"push", "pop", "length"}
  \/ Is(v, "str") /\ prop \in {"includes", "toUpperCase", "toLowerCase"}
Includes(s, t) == \E k \in 0 .. Len(s) - Len(t) : SubSeq(s, k + 1, k + Len(t)) = t
Method(v, prop, args, env, m) ==
  CASE prop = "push" -> Push(v[2], args, env, m)
    [] prop = "pop" -> Pop(v[2], m)
    [] prop = "length" -> Is2(Num(Len(m.arrays[v[2]])), m)
    [] prop # "includes" -> Is2(Undef, Broken(m))   \* letters have no case here
    [] OTHER -> IF args = << >> THEN Is2(Bool(FALSE), m)
                ELSE LET arg == js_eval(args[1], env, m) IN
                       Is2(Bool(Is(arg.v, "str") /\ Includes(v[2], arg.v[2])), arg.m)

\* Arguments go to the new scope one by one, as far as there are parameters.
Arguments(params, args, env, callee, m) ==
  LET arg == js_eval(Head(args), env, m) IN
    IF params = << >> \/ args = << >> THEN m
    ELSE Arguments(Tail(params), Tail(args), env, callee,
                   env_set(callee, Head(params)[2], arg.v, arg.m))

\* A user function, if the value is the number of one.
Invoke(f, args, env, m) ==
  LET closure == m.closures[f[2] + 1]
      callee == m.next
      bound == Arguments(closure.node.params, args, env, callee, env_new(closure.scope, m))
      result == js_eval(closure.node.kids[1], callee, bound)
  IN IF Is(f, "num") /\ f[2] \in 0 .. Len(m.closures) - 1
       THEN Is2(result.v, env_free(callee, result.m))
       ELSE Is2(Undef, m)

\* The callee is evaluated first, and the object of a method once more.
CallNode(n, env, m) ==
  LET callee == n.kids[1]
      args == Tail(n.kids)
      f == js_eval(callee, env, m)
      target == js_eval(callee.kids[1], env, Unknown(callee, args, env, f.m))
      prop == Text(callee.kids[2])
  IN CASE IsBuiltIn(callee) -> BuiltIn(callee, args, env, f.m)
       [] callee.type = "MEMBER" ->
            IF IsMethod(target.v, prop) THEN Method(target.v, prop, args, env, target.m)
            ELSE Invoke(f.v, args, env, target.m)
       [] OTHER -> Invoke(f.v, args, env, f.m)

\* A block: up to the first return among its own statements.
Body(nodes, result, env, m) ==
  LET first == js_eval(Head(nodes), env, m) IN
    IF nodes = << >> THEN Is2(result, m)
    ELSE IF Head(nodes).type = "RETURN" THEN first
    ELSE Body(Tail(nodes), first.v, env, first.m)

\* A loop: condition, body, step (a node that does nothing in while).  While loops
\* that jit_can_compile accepts run compiled instead and then have no value; Jit
\* shows that they do the same.
Turns(loop, result, env, m) ==
  LET cond == js_eval(loop.cond, env, m)
      body == js_eval(loop.body, env, cond.m)
      step == js_eval(loop.step, env, body.m)
  IN IF js_is_truthy(cond.v) THEN Turns(loop, body.v, env, step.m) ELSE Is2(result, cond.m)
Nothing == [type |-> "NULL", val |-> <<"", "">>, params |-> << >>, kids |-> << >>]

\* Key and value, from the k-th child on.
Properties(nodes, o, env, m) ==
  LET val == js_eval(nodes[2], env, m) IN
    IF nodes = << >> THEN m
    ELSE Properties(SubSeq(nodes, 3, Len(nodes)), o, env,
                    [val.m EXCEPT !.objects[o] = js_obj_set(@, Text(nodes[1]), val.v)])

\* && and || give booleans; the right operand is evaluated if it decides.
Logical(n, left, env) ==
  LET right == js_eval(n.kids[2], env, left.m) IN
    IF js_is_truthy(left.v) = (Text(n) = "||") THEN Is2(Bool(js_is_truthy(left.v)), left.m)
    ELSE Is2(Bool(js_is_truthy(right.v)), right.m)

js_eval(n, env, m) ==
  LET k == n.kids IN
  CASE n.type = "NUM" -> Is2(Num(Text(n)), m)
    [] n.type = "STR" -> Is2(Str(Text(n)), m)
    [] n.type = "BOOL" -> Is2(Bool(Text(n) = "true"), m)
    [] n.type = "NULL" -> Is2(Null, m)
    [] n.type = "IDENT" -> env_get(env, Text(n), m)
    [] n.type = "LET" ->
         LET val == js_eval(k[1], env, m) IN Is2(val.v, env_set(env, Text(n), val.v, val.m))
    [] n.type = "ASSIGN" ->
         LET val == js_eval(k[2], env, m) IN Is2(val.v, env_set(env, Text(k[1]), val.v, val.m))
    [] n.type = "BINOP" ->
         LET left == js_eval(k[1], env, m)
             right == js_eval(k[2], env, left.m)
         IN IF Text(n) \in {"&&", "||"} THEN Logical(n, left, env)
            ELSE Binop(Text(n), left.v, right.v, right.m)
    [] n.type = "UNARY" -> LET val == js_eval(k[1], env, m) IN Is2(Unop(Text(n), val.v), val.m)
    [] n.type = "IF" ->
         LET cond == js_eval(k[1], env, m) IN
           IF js_is_truthy(cond.v) THEN js_eval(k[2], env, cond.m)
           ELSE IF Len(k) > 2 THEN js_eval(k[3], env, cond.m) ELSE Is2(Undef, cond.m)
    [] n.type = "WHILE" -> Turns([cond |-> k[1], body |-> k[2], step |-> Nothing], Undef, env, m)
    [] n.type = "FOR" ->
         LET init == js_eval(k[1], m.next, env_new(env, m))
             end == Turns([cond |-> k[2], body |-> k[4], step |-> k[3]], Undef, m.next, init.m)
         IN Is2(end.v, env_free(m.next, end.m))
    [] n.type = "FUNC" ->
         LET f == Num(Len(m.closures))
             defined == [m EXCEPT !.closures = Append(@, [node |-> n, scope |-> env])]
         IN Is2(f, IF Text(n) = "" THEN defined ELSE env_set(env, Text(n), f, defined))
    [] n.type = "CALL" -> CallNode(n, env, m)
    [] n.type = "RETURN" -> IF k = << >> THEN Is2(Undef, m) ELSE js_eval(k[1], env, m)
    [] n.type = "BLOCK" -> Body(k, Undef, env, m)
    [] n.type = "OBJECT" ->
         LET o == Len(m.objects) + 1 IN
           Is2(Obj(o), Properties(k, o, env, [m EXCEPT !.objects = Append(@, << >>)]))
    [] n.type = "ARRAY" ->
         LET a == Len(m.arrays) + 1
             items == All(k, env, [m EXCEPT !.arrays = Append(@, << >>)])
         IN Is2(Arr(a), [items.m EXCEPT !.arrays[a] = items.v])
    [] n.type = "MEMBER" ->
         LET object == js_eval(k[1], env, m) IN Is2(Member(object.v, Text(k[2]), object.m), object.m)
    [] OTHER -> Is2(Undef, m)
=============================================================================
