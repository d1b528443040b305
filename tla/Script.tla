-------------------------------- MODULE Script --------------------------------
(***************************************************************************)
(* A script in the engine (jsengine_run): js_tokenize makes its tokens,    *)
(* js_parse its tree, statement by statement, and js_eval evaluates that,  *)
(* statement by statement.  A script is a text, or it is given as tokens:  *)
(* any list of them, or those that JavaScript writes a tree with.          *)
(***************************************************************************)
EXTENDS Lexer, Parser, JavaScript

CONSTANTS
  Meant,     \* programs: statements, and the style they are written in
  AnyTokens  \* lists of tokens, each with its end mark

ASSUME ScriptAssumption == {OBJ_MAX_PROPS, JSON_SIZE, CONCAT_LEFT, CONCAT_MAX, PRINT_SIZE, PRINT_LEFT} \subseteq Nat \ {0}

VARIABLES
  meant,     \* the program the tokens were written from, or << >>
  program,   \* the children of NODE_PROGRAM
  silent,    \* the parser has reported nothing
  pc,
  done,      \* how many statements have been evaluated
  machine

vars == <<lexing, tokens, pos, meant, program, silent, pc, done, machine>>

\* Programs, and the tokens they are written in.
Sources == {<<p.statements, Source(p.statements, p.style)>> : p \in Meant}

Init ==
  /\ \/ \E source \in Sources : meant = source[1] /\ tokens = source[2] /\ pc = "parse" /\ LexInit(<< >>)
     \/ meant = << >> /\ tokens \in AnyTokens /\ pc = "parse" /\ LexInit(<< >>)
     \/ meant = << >> /\ tokens = << >> /\ pc = "scan" /\ \E source \in AnyTexts : LexInit(source)
  /\ pos = 1 /\ program = << >> /\ silent = TRUE /\ done = 0 /\ machine = Fresh

\* A turn of js_tokenize's loop, and the list is passed on.
ScanText ==
  /\ pc = "scan" /\ Tokenize
  /\ UNCHANGED <<tokens, pos, meant, program, silent, pc, done, machine>>
ScanEnd ==
  /\ pc = "scan" /\ result # "none"
  /\ pc' = IF result = "ok" THEN "parse" ELSE result
  /\ tokens' = IF result = "ok" THEN lexed ELSE tokens
  /\ machine' = IF result = "too many" THEN env_free(1, machine) ELSE machine
  /\ UNCHANGED <<lexing, pos, meant, program, silent, done>>

\* One turn of js_parse's loop.  Behind the end mark anything may follow.
ParseStatement ==
  /\ pc = "parse" /\ Kind(pos) # "EOF"
  /\ LET s == parse_statement(From(pos)) IN
       /\ pos' = s.at /\ program' = Append(program, s.node) /\ silent' = (silent /\ s.silent)
       /\ pc' = IF s.at > Len(tokens) THEN "undefined" ELSE "parse"
  /\ UNCHANGED <<lexing, tokens, meant, done, machine>>

ParseEnd ==
  /\ pc = "parse" /\ Kind(pos) = "EOF"
  /\ pc' = IF meant = << >> THEN "parsed" ELSE "eval"
  /\ UNCHANGED <<lexing, tokens, pos, meant, program, silent, done, machine>>

\* NODE_PROGRAM: one child after the other up to a return, in the scope of the
\* program.
Evaluate ==
  /\ pc = "eval" /\ done < Len(program)
  /\ machine' = js_eval(program[done + 1], 1, machine).m
  /\ done' = IF program[done + 1].type = "RETURN" THEN Len(program) ELSE done + 1
  /\ pc' = IF machine'.broken THEN "undefined" ELSE "eval"
  /\ UNCHANGED <<lexing, tokens, pos, meant, program, silent>>

Finish ==
  /\ pc = "eval" /\ done = Len(program)
  /\ pc' = "finished" /\ machine' = env_free(1, machine)
  /\ UNCHANGED <<lexing, tokens, pos, meant, program, silent, done>>

Next == ScanText \/ ScanEnd \/ ParseStatement \/ ParseEnd \/ Evaluate \/ Finish

Spec == Init /\ [][Next]_vars

-----------------------------------------------------------------------------
(* Properties. *)

\* Between statements only the program's own scope is there, and none in the end;
\* nothing that has been freed is used (env_new, env_free).
TypeOK ==
  /\ Len(lexed) <= MAX_TOKENS /\ result \in {"none", "ok", "too many", "undefined"}
  /\ pos \in 1 .. Len(tokens) \/ pc \in {"scan", "too many", "undefined"}
  /\ done \in 0 .. Len(program) /\ silent \in BOOLEAN
  /\ pc \in {"scan", "too many", "parse", "parsed", "eval", "finished", "undefined"}
  /\ pc # "undefined" =>
       /\ DOMAIN machine.scopes = IF pc \in {"finished", "too many"} THEN {} ELSE {1}
       /\ ~ machine.broken

\* The tree of a source is the tree it was written from, whatever the braces and
\* semicolons, and the parser is then at the end mark, with nothing to report
\* (parse_statement, parse_expr and the operator levels).
ParsesWhatIsMeant ==
  pc \notin {"scan", "too many", "parse", "parsed"} /\ done = 0 /\ meant # << >> /\ Grammatical(meant) =>
    program = meant /\ pos = Len(tokens) /\ silent

\* Literals, names and operators of a token list; of a tree, in the same order.
Separators == {"", "(", ")", "{", "}", "[", "]", ";", ",", ":", ".", "=", "EOF", "let", "return",
               "if", "else", "while", "for", "function", "null", "undefined"}
Significant(list) == SelectSeq(list, LAMBDA t : t[1] \notin Separators)
RECURSIVE Spelled(_)
Spelled(nodes) ==
  LET n == Head(nodes) IN
    IF nodes = << >> THEN << >>
    ELSE (IF n.type = "BINOP" THEN Spelled(<<n.kids[1]>>) \o <<n.val>> \o Spelled(<<n.kids[2]>>)
          ELSE <<n.val>> \o n.params \o Spelled(n.kids)) \o Spelled(Tail(nodes))

\* Nothing of a source is passed over in silence: if the parser reports nothing,
\* everything significant is in the tree, in its order; it goes beyond the end
\* mark without a report only if the source breaks off after let or a dot.
NothingPassedOver ==
  /\ pc = "parsed" /\ silent =>
       Significant(Spelled(program)) = Significant(tokens)
  /\ pc = "undefined" /\ meant = << >> /\ tokens # << >> /\ silent =>
       tokens[Len(tokens) - 1][1] \in {"let", "."}

\* A program of the kind the engine is for, with texts and objects that fit its
\* buffers, prints what it prints in JavaScript, and uses nothing that has been
\* freed (js_eval with scopes, functions, methods, strings, arrays and objects).
RunsAsJavaScript ==
  pc \in {"finished", "undefined"} /\ meant # << >> /\ Regular(meant) =>
    LET js == Run(Program(meant), 1, JsFresh).j IN
      js.proper => pc = "finished" /\ machine.out = js.out
=============================================================================
