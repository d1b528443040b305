--------------------------- MODULE MCScriptEngine ---------------------------
(* Instances of ScriptEngine small enough for TLC. *)
EXTENDS ScriptEngine, TLC

CONSTANTS p1, p2, short, other, long

\* Two scripts with as many tokens as there may be, and one with too many.
MCTokens == [s \in Sources |-> IF s = long THEN MAX_TOKENS + 1 ELSE MAX_TOKENS]

\* Paths differ in nothing but their names, and so do the scripts that parse.
MCSymmetry == {f @@ g : f \in Permutations(Paths), g \in Permutations(Sources \ {long})}
=============================================================================
