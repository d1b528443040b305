-------------------------------- MODULE Loops --------------------------------
(***************************************************************************)
(* The statements that loops are made of and how js_eval computes them     *)
(* (jsengine/src/core/eval.c): for the interpreter's loop and for the      *)
(* compiled one.                                                           *)
(***************************************************************************)
EXTENDS ScriptExpr

CONSTANTS
  Names,           \* of variables
  Exprs, Height,   \* expressions with all their parts; theirs is above that of the parts
  Conds, Bodies,   \* what the loops are made of
  Scopes,          \* the variables' values before: functions from names to values
  MaxTurns         \* bound: turns of a loop

Values == {"num", "bool", "undef"} \X Int

\* Expressions are finite trees; % is only taken by numbers written above zero.
ASSUME LoopAssumption ==
  /\ Height \in [Exprs -> Nat]
  /\ \A e \in Exprs :
       \/ e.op = "num" /\ e.value \in Int
       \/ e.op = "var" /\ e.name \in Names
       \/ e.op = "neg" /\ e.of \in Exprs /\ Height[e.of] < Height[e]
       \/ /\ e.op \in Arithmetic \cup Comparison /\ {e.left, e.right} \subseteq Exprs
          /\ Height[e.left] < Height[e] /\ Height[e.right] < Height[e]
          /\ e.op = "%" => e.right.op = "num" /\ e.right.value > 0
  /\ Conds \subseteq Exprs /\ Bodies \subseteq Seq([name : Names, expr : Exprs])
  /\ Scopes \subseteq [Names -> Values] /\ MaxTurns \in Nat

\* js_eval; what is not a number counts as 0, except under unary minus.
js_eval(e, env) ==
  LET value[n \in Exprs] ==
        CASE n.op = "num" -> Num(n.value)
          [] n.op = "var" -> env[n.name]
          [] n.op = "neg" -> IF value[n.of][1] = "num" THEN Num(- value[n.of][2]) ELSE Undef
          [] OTHER -> Apply(n.op, AsNum(value[n.left]), AsNum(value[n.right]))
  IN value[e]

\* The statements of a block, one after the other (env_set).
Execute(body, env) ==
  LET after[k \in 0 .. Len(body)] ==
        IF k = 0 THEN env
        ELSE [after[k - 1] EXCEPT ![body[k].name] = js_eval(body[k].expr, after[k - 1])]
  IN after[Len(body)]
=============================================================================
