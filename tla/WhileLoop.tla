------------------------------ MODULE WhileLoop ------------------------------
(***************************************************************************)
(* What a while statement promises: the interpreter's loop of js_eval, one *)
(* step per turn.                                                          *)
(***************************************************************************)
EXTENDS Loops

VARIABLES loop, env, turns, finished

vars == <<loop, env, turns, finished>>

Init == loop \in [cond : Conds, body : Bodies] /\ env \in Scopes /\ turns = 0 /\ finished = FALSE

Turn ==
  /\ ~ finished /\ turns < MaxTurns /\ Truthy(js_eval(loop.cond, env))
  /\ env' = Execute(loop.body, env) /\ turns' = turns + 1
  /\ UNCHANGED <<loop, finished>>

Leave ==
  /\ ~ finished /\ ~ Truthy(js_eval(loop.cond, env))
  /\ finished' = TRUE
  /\ UNCHANGED <<loop, env, turns>>

Next == Turn \/ Leave

Spec == Init /\ [][Next]_vars
=============================================================================
