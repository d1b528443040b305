----------------------------- MODULE ScriptEngine -----------------------------
(***************************************************************************)
(* The embedding interface of the script engine (jsengine/jsengine.c) and  *)
(* the resources a script uses while it runs (jsengine/src/core/eval.c,    *)
(* value.c): the cache of parsed scripts, the captured output, the scopes, *)
(* the table of functions and the pools.  A script is a source text; what  *)
(* it computes is left open, so that a run is any properly nested sequence *)
(* of the steps that touch these resources.                                *)
(***************************************************************************)
EXTENDS Integers, Sequences, FiniteSets, FiniteSetsExt, SequencesExt

CONSTANTS
  Paths, Sources,   \* script files and what they may contain
  Tokens,           \* the number of tokens of each source
  Nothing,          \* no file; no script; no parent scope
  Pieces,           \* the lengths of what console.log is given
  MAX_TOKENS, CACHE_MAX,
  OutputSize,       \* the caller's buffer
  MaxSteps,         \* bound: steps of a run
  MaxDefined        \* bound: functions ever defined

ASSUME EngineAssumption ==
  /\ Tokens \in [Sources -> Nat] /\ Nothing \notin Paths \cup Sources
  /\ Pieces \subseteq Nat /\ {MAX_TOKENS, CACHE_MAX, MaxSteps, MaxDefined} \subseteq Nat
  /\ OutputSize \in Nat \ {0}

VARIABLES
  disk,      \* the source at every path, or Nothing
  read,      \* the source every path had when a script was last made of it (history)
  cache,     \* the entries of cache[]: the path and the source of its AST
  run,       \* the call being executed: path and source of its AST, or none
  output_pos,  \* g_output_pos: the length of the output
  printed,   \* the length of all that jsengine_capture was given (history)
  frames,    \* scopes entered and not left: the scope and its parent
  live,      \* the scopes allocated
  pool,      \* strings, objects and arrays allocated
  scopes,    \* closures[].scope, num_closures of them: where each function was defined
  steps      \* evaluation steps of this run

evaluation == <<output_pos, printed, frames, live, pool, scopes, steps>>
vars == <<disk, read, cache, run, evaluation>>

Idle == [path |-> Nothing, source |-> Nothing]

Init ==
  /\ disk \in [Paths -> Sources \cup {Nothing}]
  /\ read = [p \in Paths |-> Nothing]
  /\ cache = << >> /\ run = Idle
  /\ output_pos = 0 /\ printed = 0 /\ frames = << >> /\ live = {} /\ pool = 0
  /\ scopes = << >> /\ steps = 0

\* Somebody edits, creates or removes a script.
Edit(p, s) ==
  /\ disk' = [disk EXCEPT ![p] = s]
  /\ UNCHANGED <<read, cache, run, evaluation>>

-----------------------------------------------------------------------------
(* Entering and leaving the engine. *)

\* js_tokenize's result: the tokens and the end mark are counted, or -1.
Tokenize(tokens) == IF tokens > MAX_TOKENS THEN -1 ELSE tokens + 1

\* The output is the caller's buffer, with nothing in it.
Emptied == output_pos' = 0 /\ printed' = 0

\* g_output is set; a scope is made; a request string is bound to __request.
Enter(path, source) ==
  /\ run' = [path |-> path, source |-> source]
  /\ Emptied /\ steps' = 0
  /\ frames' = <<[kind |-> "program", scope |-> 1, parent |-> Nothing]>>
  /\ live' = live \cup {1}
  /\ pool' \in {pool, pool + 1}
  /\ UNCHANGED <<disk, scopes>>

\* Variant: the entry's path is not compared.
FindAny(p) == {k \in 1 .. Len(cache) : k = Len(cache)}

\* cache_find
Find(p) == {k \in 1 .. Len(cache) : cache[k].path = p}

\* Variant: one entry too many.
CacheAddBeyond(p) ==
  IF Len(cache) > CACHE_MAX THEN cache ELSE Append(cache, [path |-> p, source |-> disk[p]])

\* cache_add; a full cache stays as it is.
CacheAdd(p) ==
  IF Len(cache) >= CACHE_MAX THEN cache ELSE Append(cache, [path |-> p, source |-> disk[p]])

\* jsengine_run_file(p, ...): from the cache, or read, parsed and added to it
\* while there is room.
RunCached(p) ==
  /\ run = Idle /\ Find(p) # {}
  /\ Enter(p, cache[Min(Find(p))].source) /\ UNCHANGED <<read, cache>>

RunNew(p) ==
  /\ run = Idle /\ Find(p) = {}
  /\ disk[p] # Nothing /\ Tokenize(Tokens[disk[p]]) >= 0
  /\ read' = [read EXCEPT ![p] = disk[p]]
  /\ cache' = CacheAdd(p) /\ Enter(p, disk[p])

\* The file cannot be read, memory is short, or there are too many tokens.
RunFails(p) ==
  /\ run = Idle /\ Find(p) = {}
  /\ Emptied
  /\ UNCHANGED <<disk, read, cache, run, frames, live, pool, scopes, steps>>

\* jsengine_run(s, ...)
RunSource(s) ==
  /\ run = Idle
  /\ \/ Tokenize(Tokens[s]) >= 0 /\ Enter(Nothing, s) /\ UNCHANGED <<read, cache>>
     \/ /\ Tokenize(Tokens[s]) < 0
        /\ Emptied /\ pool' = 0
        /\ UNCHANGED <<disk, read, cache, run, frames, live, scopes, steps>>

\* Every scope that is in use has a parent that is there.
ScopesAreThere ==
  \A k \in 1 .. Len(frames) : frames[k].parent \in live \cup {Nothing}

\* The scope of a function that a run which has ended defined.
Gone == 0

\* The program has been evaluated: its scope and every value are freed; an AST
\* that is not in the cache is freed too.  The functions stay in closures[], but
\* none of their scopes is left.
Leave ==
  /\ run # Idle /\ Len(frames) = 1
  /\ run' = Idle /\ frames' = << >> /\ live' = live \ {frames[1].scope} /\ pool' = 0
  /\ scopes' = [k \in DOMAIN scopes |-> Gone]
  /\ UNCHANGED <<disk, read, cache, output_pos, printed, steps>>

\* jsengine_template evaluates its data and its expressions if js_tokenize
\* returns 0, which Tokenize never is: it copies text and frees the values.
Template ==
  /\ run = Idle
  /\ pool' = 0
  /\ UNCHANGED <<disk, read, cache, run, output_pos, printed, frames, live, scopes, steps>>

\* jsengine_cleanup
Cleanup ==
  /\ run = Idle
  /\ cache' = << >> /\ pool' = 0
  /\ UNCHANGED <<disk, read, run, output_pos, printed, frames, live, scopes, steps>>

-----------------------------------------------------------------------------
(* Steps of js_eval.  What it does after it has followed a scope that was  *)
(* freed is undefined: the model goes no further.                          *)

Evaluating == run # Idle /\ steps < MaxSteps /\ ScopesAreThere
Host == <<disk, read, cache, run>>

\* Variant: the terminating zero is not counted.
CaptureFull(len) ==
  /\ Evaluating
  /\ output_pos' = IF output_pos + len > OutputSize THEN output_pos ELSE output_pos + len
  /\ printed' = printed + len
  /\ steps' = steps + 1
  /\ UNCHANGED <<Host, frames, live, pool, scopes>>

\* console.log, one piece of it: jsengine_capture drops what does not fit.
Capture(len) ==
  /\ Evaluating
  /\ output_pos' = IF output_pos + len >= OutputSize THEN output_pos ELSE output_pos + len
  /\ printed' = printed + len
  /\ steps' = steps + 1
  /\ UNCHANGED <<Host, frames, live, pool, scopes>>

\* A literal, a concatenation, a conversion: a value that is tracked.
Allocate ==
  /\ Evaluating
  /\ pool' = pool + 1 /\ steps' = steps + 1
  /\ UNCHANGED <<Host, output_pos, printed, frames, live, scopes>>

Top == frames[Len(frames)].scope

\* A function is defined in the current scope; the code has no bound here.
Define ==
  /\ Evaluating /\ Len(scopes) < MaxDefined
  /\ scopes' = Append(scopes, Top)
  /\ steps' = steps + 1
  /\ UNCHANGED <<Host, output_pos, printed, frames, live, pool>>

\* env_new: scopes are numbered in the order of their allocation.
Push(kind, parent) ==
  LET scope == steps + 2 IN
    /\ frames' = Append(frames, [kind |-> kind, scope |-> scope, parent |-> parent])
    /\ live' = live \cup {scope}
    /\ steps' = steps + 1
    /\ UNCHANGED <<Host, output_pos, printed, pool, scopes>>

\* Any number below num_closures is a function: one of this run or of an earlier
\* one, whatever the number came from.
Call(k) == Evaluating /\ Push("call", scopes[k])
EnterFor == Evaluating /\ Push("for", Top)

\* Variant: leaving a for statement forgets its scope.
ReturnCalls ==
  /\ run # Idle /\ Len(frames) > 1 /\ ScopesAreThere
  /\ frames' = Front(frames)
  /\ live' = IF Last(frames).kind = "for" THEN live ELSE live \ {Top}
  /\ UNCHANGED <<Host, output_pos, printed, pool, scopes, steps>>

\* The end of a call or of a for statement: env_free.
Return ==
  /\ run # Idle /\ Len(frames) > 1 /\ ScopesAreThere
  /\ frames' = Front(frames) /\ live' = live \ {Top}
  /\ UNCHANGED <<Host, output_pos, printed, pool, scopes, steps>>

Next ==
  \/ \E p \in Paths, s \in Sources \cup {Nothing} : Edit(p, s)
  \/ \E p \in Paths : RunCached(p) \/ RunNew(p) \/ RunFails(p)
  \/ \E s \in Sources : RunSource(s)
  \/ Leave
  \/ Template \/ Cleanup
  \/ \E len \in Pieces : Capture(len)
  \/ Allocate \/ Define \/ EnterFor \/ Return
  \/ \E k \in 1 .. Len(scopes) : Call(k)

Spec == Init /\ [][Next]_vars

-----------------------------------------------------------------------------
(* Properties. *)

TypeOK ==
  /\ disk \in [Paths -> Sources \cup {Nothing}]
  /\ read \in [Paths -> Sources \cup {Nothing}]
  /\ cache \in Seq([path : Paths, source : Sources]) /\ Len(cache) <= CACHE_MAX
  /\ run \in [path : Paths \cup {Nothing}, source : Sources \cup {Nothing}]
  /\ output_pos \in Nat /\ printed \in Nat
  /\ frames \in Seq([kind : {"program", "call", "for"}, scope : Nat, parent : Nat \cup {Nothing}])
  /\ live \subseteq Nat /\ pool \in Nat
  /\ scopes \in Seq(Nat) /\ Len(scopes) <= MaxDefined /\ steps \in 0 .. MaxSteps

\* Between calls the engine holds no scope and no value, on every path out of
\* it ("free all memory" between requests rests on env_free and
\* js_strings_free alone); during a call, the scopes entered and not left.
NothingIsLeft ==
  /\ live = {frames[k].scope : k \in 1 .. Len(frames)}
  /\ run = Idle => live = {} /\ pool = 0

\* A path has one entry, and that is what its file held when the engine last
\* made a script of it, whatever happened to the file, to other paths and to the
\* table since; what runs for a path, from the cache or beside a full one, is that.
CacheBindsPath ==
  /\ \A j, k \in 1 .. Len(cache) : cache[j].path = cache[k].path => j = k
  /\ \A k \in 1 .. Len(cache) : cache[k].source = read[cache[k].path]
  /\ run.path # Nothing => run.source = read[run.path]

\* jsengine.c:49: a cached script is invalidated if its file changes.
RunsWhatTheFileHolds ==
  [][run = Idle /\ run'.path # Nothing => run'.source = disk[run'.path]]_vars

\* The captured output fits its buffer with the zero after it; what was printed
\* and is not there would have overrun it.
OutputWithinBuffer ==
  /\ output_pos < OutputSize
  /\ printed < OutputSize => output_pos = printed

\* A function of the present run is called in the scope it was defined in
\* (eval.c:116-119: a closure is a node and a scope).
ClosuresKeepTheirScope ==
  \A k \in 1 .. Len(frames) : frames[k].parent \in live \cup {Nothing, Gone}
=============================================================================
