-------------------------- MODULE ScriptEngineProofs --------------------------
(***************************************************************************)
(* Proofs about ScriptEngine: its types, that the cache binds a path to    *)
(* one script, that nothing a run allocates outlives it, and that what it  *)
(* prints fits the caller's buffer.  The four hold together (Inv): which   *)
(* entry cache_find returns is known only because a path has one, and what *)
(* env_free releases only because the scopes of the frames differ, which   *)
(* they do because env_new numbers them upwards (Nesting).                 *)
(***************************************************************************)
EXTENDS ScriptEngine, SequenceTheorems, TLAPS

\* The frames of a run: there are none between runs, and each has a scope of
\* its own, younger than those below it.
Nesting ==
  /\ run = Idle <=> Len(frames) = 0
  /\ \A k \in 1 .. Len(frames) : frames[k].scope <= steps + 1
  /\ \A j, k \in 1 .. Len(frames) : j < k => frames[j].scope < frames[k].scope

Inv == TypeOK /\ CacheBindsPath /\ Nesting /\ NothingIsLeft /\ OutputWithinBuffer

Entries == [path : Paths, source : Sources]
Frames == [kind : {"program", "call", "for"}, scope : Nat, parent : Nat \cup {Nothing}]

-----------------------------------------------------------------------------
(* Sequences: the cache grows at its end, the frames at theirs. *)

\* What Append makes of a sequence.
LEMMA Appended ==
  ASSUME NEW S, NEW s \in Seq(S), NEW e \in S
  PROVE  /\ Append(s, e) \in Seq(S) /\ Len(Append(s, e)) = Len(s) + 1
         /\ \A k \in 1 .. Len(s) : Append(s, e)[k] = s[k]
         /\ Append(s, e)[Len(s) + 1] = e
  OBVIOUS

\* What Front leaves of a sequence.
LEMMA Fronted ==
  ASSUME NEW S, NEW s \in Seq(S), Len(s) > 0
  PROVE  /\ Front(s) \in Seq(S) /\ Len(Front(s)) = Len(s) - 1
         /\ \A k \in 1 .. Len(s) - 1 : Front(s)[k] = s[k]
<1>1. Len(s) \in Nat /\ \A k \in 1 .. Len(s) - 1 : s[k] \in S
  OBVIOUS
<1>2. PICK n : n = Len(s) - 1
  OBVIOUS
<1>3. n \in Int /\ 1 <= n + 1 /\ \A k \in 1 .. n : s[k] \in S
  BY <1>1, <1>2
<1>4. /\ SubSeq(s, 1, n) \in Seq(S)
      /\ Len(SubSeq(s, 1, n)) = IF 1 <= n THEN n - 1 + 1 ELSE 0
      /\ \A i \in 1 .. n - 1 + 1 : SubSeq(s, 1, n)[i] = s[1 + i - 1]
  BY <1>3, SubSeqProperties
<1>5. Len(SubSeq(s, 1, n)) = n /\ \A i \in 1 .. n : SubSeq(s, 1, n)[i] = s[i]
  BY <1>3, <1>4
<1> QED
  BY <1>2, <1>4, <1>5 DEF Front

-----------------------------------------------------------------------------
(* The operations the actions share. *)

\* cache_find returns the entry of the path, since it has one.
LEMMA FindOne ==
  ASSUME CacheBindsPath, cache \in Seq(Entries), NEW p \in Paths, Find(p) # {}
  PROVE  /\ Min(Find(p)) \in 1 .. Len(cache)
         /\ cache[Min(Find(p))] \in Entries
         /\ cache[Min(Find(p))].path = p
         /\ \A k \in 1 .. Len(cache) : cache[k].path = p => k = Min(Find(p))
<1>1. PICK k \in Find(p) : TRUE
  OBVIOUS
<1>2. k \in 1 .. Len(cache) /\ cache[k].path = p
  BY <1>1 DEF Find
<1>3. \A j \in 1 .. Len(cache) : cache[j].path = p => j = k
  BY <1>2 DEF CacheBindsPath
<1>4. Find(p) = {k}
  BY <1>2, <1>3 DEF Find
<1>5. k \in Int
  BY <1>2
<1>6. Min(Find(p)) = k
  BY <1>4, <1>5 DEF Min
<1> QED
  BY <1>2, <1>3, <1>6

\* A run begins: its fields, whatever the entry into the engine.
LEMMA Entered ==
  ASSUME TypeOK, NEW path \in Paths \cup {Nothing}, NEW source \in Sources, Enter(path, source)
  PROVE  /\ run' \in [path : Paths \cup {Nothing}, source : Sources \cup {Nothing}]
         /\ run' # Idle /\ run'.path = path /\ run'.source = source
         /\ output_pos' = 0 /\ printed' = 0 /\ steps' = 0
         /\ frames' \in Seq(Frames) /\ Len(frames') = 1 /\ frames'[1].scope = 1
         /\ live' = live \cup {1} /\ pool' \in Nat
         /\ UNCHANGED <<disk, scopes>>
<1>1. run' = [path |-> path, source |-> source] /\ source # Nothing
  BY EngineAssumption DEF Enter
<1>2. run' # Idle
  BY <1>1 DEF Idle
<1>3. frames' = <<[kind |-> "program", scope |-> 1, parent |-> Nothing]>>
  BY DEF Enter
<1>4. [kind |-> "program", scope |-> 1, parent |-> Nothing] \in Frames
  BY DEF Frames
<1>5. frames' \in Seq(Frames) /\ Len(frames') = 1 /\ frames'[1].scope = 1
  BY <1>3, <1>4
<1> QED
  BY <1>1, <1>2, <1>5 DEF Enter, Emptied, TypeOK

\* cache_add appends an entry of the path or leaves a full cache alone.
LEMMA Cached ==
  ASSUME TypeOK, NEW p \in Paths, disk[p] # Nothing, NEW after, after = CacheAdd(p)
  PROVE  /\ after \in Seq(Entries) /\ Len(after) <= CACHE_MAX
         /\ \/ after = cache
            \/ /\ Len(after) = Len(cache) + 1
               /\ \A k \in 1 .. Len(cache) : after[k] = cache[k]
               /\ after[Len(cache) + 1].path = p /\ after[Len(cache) + 1].source = disk[p]
<1>1. cache \in Seq(Entries) /\ Len(cache) <= CACHE_MAX /\ CACHE_MAX \in Nat
  BY EngineAssumption DEF TypeOK, Entries
<1>2. [path |-> p, source |-> disk[p]] \in Entries
  BY DEF TypeOK, Entries
<1>3. CASE Len(cache) >= CACHE_MAX
  BY <1>1, <1>3 DEF CacheAdd
<1>4. CASE ~ (Len(cache) >= CACHE_MAX)
  <2>1. after = Append(cache, [path |-> p, source |-> disk[p]])
    BY <1>4 DEF CacheAdd
  <2>2. Len(cache) + 1 <= CACHE_MAX
    BY <1>1, <1>4
  <2> QED
    BY <1>1, <1>2, <2>1, <2>2, Appended
<1> QED
  BY <1>3, <1>4

\* A scope is pushed: env_new's number is larger than every one before.
LEMMA Pushed ==
  ASSUME TypeOK, NEW kind \in {"call", "for"}, NEW parent \in Nat, Push(kind, parent)
  PROVE  /\ frames' \in Seq(Frames) /\ Len(frames') = Len(frames) + 1
         /\ \A k \in 1 .. Len(frames) : frames'[k] = frames[k]
         /\ frames'[Len(frames) + 1].scope = steps + 2
         /\ live' = live \cup {steps + 2} /\ steps' = steps + 1
         /\ UNCHANGED <<Host, output_pos, printed, pool, scopes>>
<1>1. frames \in Seq(Frames) /\ steps \in Nat
  BY DEF TypeOK, Frames
<1>2. PICK f : f = [kind |-> kind, scope |-> steps + 2, parent |-> parent]
  OBVIOUS
<1>3. f \in Frames /\ f.scope = steps + 2
  BY <1>1, <1>2 DEF Frames
<1>4. frames' = Append(frames, f)
  BY <1>2 DEF Push
<1> QED
  BY <1>1, <1>3, <1>4, Appended DEF Push

\* While a run lasts there is a frame, so that its scope is a number.
LEMMA TopIsAScope ==
  ASSUME TypeOK, Nesting, run # Idle
  PROVE  Len(frames) \in Nat \ {0} /\ Top \in Nat
<1>1. frames \in Seq(Frames)
  BY DEF TypeOK, Frames
<1>2. Len(frames) \in Nat \ {0}
  BY <1>1 DEF Nesting
<1>3. frames[Len(frames)] \in Frames
  BY <1>1, <1>2
<1> QED
  BY <1>2, <1>3 DEF Top, Frames

\* The end of a call or of a for statement takes the youngest scope off.
LEMMA Popped ==
  ASSUME TypeOK, Return
  PROVE  /\ frames' \in Seq(Frames) /\ Len(frames) \in Nat /\ Len(frames) > 1
         /\ Len(frames') = Len(frames) - 1
         /\ \A k \in 1 .. Len(frames) - 1 : frames'[k] = frames[k]
         /\ live' = live \ {frames[Len(frames)].scope}
         /\ UNCHANGED <<Host, output_pos, printed, pool, scopes, steps>>
<1>1. frames \in Seq(Frames)
  BY DEF TypeOK, Frames
<1>2. Len(frames) > 1 /\ frames' = Front(frames)
  BY DEF Return
<1> QED
  BY <1>1, <1>2, Fronted DEF Return, Top

-----------------------------------------------------------------------------
(* The types. *)

\* The types of what the evaluation of a script changes.
EvaluationTypes ==
  /\ output_pos \in Nat /\ printed \in Nat
  /\ frames \in Seq(Frames)
  /\ live \subseteq Nat /\ pool \in Nat
  /\ scopes \in Seq(Nat) /\ Len(scopes) <= MaxDefined /\ steps \in 0 .. MaxSteps

\* The types of the files, the cache and the call.
HostTypes ==
  /\ disk \in [Paths -> Sources \cup {Nothing}]
  /\ read \in [Paths -> Sources \cup {Nothing}]
  /\ cache \in Seq(Entries) /\ Len(cache) <= CACHE_MAX
  /\ run \in [path : Paths \cup {Nothing}, source : Sources \cup {Nothing}]

\* The type invariant is these two.
LEMMA TypesParted == TypeOK <=> HostTypes /\ EvaluationTypes
  BY DEF TypeOK, HostTypes, EvaluationTypes, Entries, Frames

\* The same of the next state.
LEMMA TypesPartedNext == HostTypes' /\ EvaluationTypes' => TypeOK'
  BY DEF TypeOK, HostTypes, EvaluationTypes, Entries, Frames

\* The types of the evaluation of a run that begins.
LEMMA EnteredTypes ==
  ASSUME TypeOK, NEW path \in Paths \cup {Nothing}, NEW source \in Sources, Enter(path, source)
  PROVE  EvaluationTypes'
<1>1. live \subseteq Nat /\ scopes \in Seq(Nat) /\ Len(scopes) <= MaxDefined /\ MaxSteps \in Nat
  BY EngineAssumption DEF TypeOK
<1>2. 0 \in 0 .. MaxSteps
  BY <1>1
<1>3. /\ output_pos' = 0 /\ printed' = 0 /\ scopes' = scopes /\ steps' = 0
      /\ frames' \in Seq(Frames) /\ live' = live \cup {1} /\ pool' \in Nat
  BY Entered
<1>4. live' \subseteq Nat /\ scopes' \in Seq(Nat) /\ Len(scopes') <= MaxDefined /\ steps' \in 0 .. MaxSteps
  BY <1>1, <1>2, <1>3
<1> QED
  BY <1>3, <1>4 DEF EvaluationTypes

\* Entering and leaving the engine preserves the types.
LEMMA HostTypeNext ==
  ASSUME Inv,
         \/ \E p \in Paths, s \in Sources \cup {Nothing} : Edit(p, s)
         \/ \E p \in Paths : RunCached(p) \/ RunNew(p) \/ RunFails(p)
         \/ \E s \in Sources : RunSource(s)
         \/ Leave \/ Template \/ Cleanup
  PROVE  TypeOK'
<1>0. TypeOK /\ HostTypes /\ EvaluationTypes
  BY TypesParted DEF Inv
<1>1. ASSUME NEW p \in Paths, RunCached(p)
      PROVE  TypeOK'
  <2>1. cache \in Seq(Entries) /\ Find(p) # {} /\ CacheBindsPath
    BY <1>0, <1>1 DEF HostTypes, RunCached, Inv
  <2>2. PICK source : source = cache[Min(Find(p))].source
    OBVIOUS
  <2>3. source \in Sources
    BY <2>1, <2>2, FindOne DEF Entries
  <2>4. Enter(p, source) /\ cache' = cache /\ read' = read
    BY <1>1, <2>2 DEF RunCached
  <2>5. EvaluationTypes' /\ HostTypes'
    BY <1>0, <2>3, <2>4, EnteredTypes, Entered DEF HostTypes
  <2> QED
    BY <2>5, TypesPartedNext
<1>2. ASSUME NEW p \in Paths, RunNew(p)
      PROVE  TypeOK'
  <2>1. disk[p] # Nothing /\ cache' = CacheAdd(p) /\ Enter(p, disk[p])
    BY <1>2 DEF RunNew
  <2>2. disk[p] \in Sources
    BY <1>0, <2>1 DEF HostTypes
  <2>3. cache' \in Seq(Entries) /\ Len(cache') <= CACHE_MAX
    BY <1>0, <2>1, Cached
  <2>4. read' \in [Paths -> Sources \cup {Nothing}]
    BY <1>0, <1>2, <2>2 DEF RunNew, HostTypes
  <2>5. EvaluationTypes' /\ HostTypes'
    BY <1>0, <2>1, <2>2, <2>3, <2>4, EnteredTypes, Entered DEF HostTypes
  <2> QED
    BY <2>5, TypesPartedNext
<1>3. ASSUME NEW p \in Paths, RunFails(p)
      PROVE  TypeOK'
  BY <1>0, <1>3, TypesPartedNext DEF RunFails, Emptied, HostTypes, EvaluationTypes
<1>4. ASSUME NEW s \in Sources, RunSource(s)
      PROVE  TypeOK'
  <2>1. CASE Enter(Nothing, s) /\ cache' = cache /\ read' = read
    <3>1. EvaluationTypes' /\ HostTypes'
      BY <1>0, <2>1, EnteredTypes, Entered DEF HostTypes
    <3> QED
      BY <3>1, TypesPartedNext
  <2>2. CASE /\ output_pos' = 0 /\ printed' = 0 /\ pool' = 0
             /\ UNCHANGED <<disk, read, cache, run, frames, live, scopes, steps>>
    BY <1>0, <2>2, TypesPartedNext DEF HostTypes, EvaluationTypes
  <2> QED
    BY <1>4, <2>1, <2>2 DEF RunSource, Emptied
<1>5. CASE Leave
  <2>1. Idle \in [path : Paths \cup {Nothing}, source : Sources \cup {Nothing}]
    BY DEF Idle
  <2>2. << >> \in Seq(Frames)
    OBVIOUS
  <2>3. scopes' \in Seq(Nat) /\ Len(scopes') = Len(scopes)
    <3>1. PICK n : n = Len(scopes)
      OBVIOUS
    <3>2. n \in Nat /\ DOMAIN scopes = 1 .. n /\ Gone \in Nat
      BY <1>0, <3>1 DEF EvaluationTypes, Gone
    <3>3. scopes' = [k \in 1 .. n |-> Gone]
      BY <1>5, <3>2 DEF Leave
    <3> QED
      BY <3>1, <3>2, <3>3
  <2>4. HostTypes'
    BY <1>0, <1>5, <2>1 DEF Leave, HostTypes
  <2>5. EvaluationTypes'
    BY <1>0, <1>5, <2>2, <2>3 DEF Leave, EvaluationTypes
  <2> QED
    BY <2>4, <2>5, TypesPartedNext
<1>6. CASE Template
  BY <1>0, <1>6, TypesPartedNext DEF Template, HostTypes, EvaluationTypes
<1>7. CASE Cleanup
  <2>1. << >> \in Seq(Entries) /\ Len(<< >>) = 0 /\ CACHE_MAX \in Nat
    BY EngineAssumption
  <2> QED
    BY <1>0, <1>7, <2>1, TypesPartedNext DEF Cleanup, HostTypes, EvaluationTypes
<1>8. ASSUME NEW p \in Paths, NEW s \in Sources \cup {Nothing}, Edit(p, s)
      PROVE  TypeOK'
  <2>1. HostTypes'
    BY <1>0, <1>8 DEF Edit, HostTypes
  <2>2. EvaluationTypes'
    BY <1>0, <1>8 DEF Edit, evaluation, EvaluationTypes
  <2> QED
    BY <2>1, <2>2, TypesPartedNext
<1> QED
  BY <1>1, <1>2, <1>3, <1>4, <1>5, <1>6, <1>7, <1>8

\* The steps of an evaluation preserve them.
LEMMA EvaluationTypeNext ==
  ASSUME Inv,
         \/ \E len \in Pieces : Capture(len)
         \/ Allocate \/ Define \/ EnterFor \/ Return
         \/ \E k \in 1 .. Len(scopes) : Call(k)
  PROVE  TypeOK'
<1>0. TypeOK /\ HostTypes /\ EvaluationTypes /\ Nesting /\ MaxSteps \in Nat
  BY TypesParted, EngineAssumption DEF Inv
<1>1. HostTypes'
  <2>1. UNCHANGED <<disk, read, cache, run>>
    BY DEF Host, Capture, Allocate, Define, EnterFor, Call, Push, Return
  <2> QED
    BY <1>0, <2>1 DEF HostTypes
<1> SUFFICES EvaluationTypes'
  BY <1>1, TypesPartedNext
<1>2. ASSUME NEW len \in Pieces, Capture(len)
      PROVE  EvaluationTypes'
  <2>1. len \in Nat
    BY EngineAssumption
  <2>2. output_pos' \in Nat /\ printed' \in Nat /\ steps' \in 0 .. MaxSteps
    BY <1>0, <1>2, <2>1 DEF Capture, Evaluating, EvaluationTypes
  <2>3. UNCHANGED <<frames, live, pool, scopes>>
    BY <1>2 DEF Capture
  <2> QED
    BY <1>0, <2>2, <2>3 DEF EvaluationTypes
<1>3. CASE Allocate
  BY <1>0, <1>3 DEF Allocate, Evaluating, EvaluationTypes
<1>4. CASE Define
  <2>1. Top \in Nat
    BY <1>0, <1>4, TopIsAScope DEF Define, Evaluating
  <2>2. scopes' \in Seq(Nat)
    BY <1>0, <1>4, <2>1, Appended DEF Define, EvaluationTypes
  <2>3. Len(scopes') <= MaxDefined /\ steps' \in 0 .. MaxSteps
    <3>1. Len(scopes') = Len(scopes) + 1 /\ Len(scopes) \in Nat
      BY <1>0, <1>4, <2>1, Appended DEF Define, EvaluationTypes
    <3> QED
      BY <1>0, <1>4, <3>1, EngineAssumption DEF Define, Evaluating, EvaluationTypes
  <2>4. UNCHANGED <<output_pos, printed, frames, live, pool>>
    BY <1>4 DEF Define
  <2> QED
    BY <1>0, <2>2, <2>3, <2>4 DEF EvaluationTypes
<1>5. ASSUME NEW kind \in {"call", "for"}, NEW parent \in Nat, Evaluating, Push(kind, parent)
      PROVE  EvaluationTypes'
  <2>1. /\ frames' \in Seq(Frames) /\ live' = live \cup {steps + 2} /\ steps' = steps + 1
        /\ UNCHANGED <<output_pos, printed, pool, scopes>>
    BY <1>0, <1>5, Pushed DEF Host
  <2>2. live' \subseteq Nat /\ steps' \in 0 .. MaxSteps
    BY <1>0, <1>5, <2>1 DEF Evaluating, EvaluationTypes
  <2> QED
    BY <1>0, <2>1, <2>2 DEF EvaluationTypes
<1>6. CASE EnterFor
  <2>1. Evaluating /\ Push("for", Top) /\ Top \in Nat
    BY <1>0, <1>6, TopIsAScope DEF EnterFor, Evaluating
  <2> QED
    BY <1>5, <2>1
<1>7. ASSUME NEW k \in 1 .. Len(scopes), Call(k)
      PROVE  EvaluationTypes'
  <2>1. Evaluating /\ Push("call", scopes[k]) /\ scopes[k] \in Nat
    BY <1>0, <1>7 DEF Call, EvaluationTypes
  <2> QED
    BY <1>5, <2>1
<1>8. CASE Return
  <2>1. /\ frames' \in Seq(Frames) /\ live' \subseteq live
        /\ UNCHANGED <<output_pos, printed, pool, scopes, steps>>
    BY <1>0, <1>8, Popped DEF Host
  <2> QED
    BY <1>0, <2>1 DEF EvaluationTypes
<1> QED
  BY <1>2, <1>3, <1>4, <1>6, <1>7, <1>8

-----------------------------------------------------------------------------
(* The cache. *)

\* A change that concerns neither what was read nor the cache nor the call.
LEMMA BindingStays ==
  ASSUME CacheBindsPath, UNCHANGED <<read, cache, run>>
  PROVE  CacheBindsPath'
  BY DEF CacheBindsPath

\* The cache binds a path to its entry, whatever happens to the files.
LEMMA BindingNext ==
  ASSUME Inv, [Next]_vars
  PROVE  CacheBindsPath'
<1>0. TypeOK /\ HostTypes /\ CacheBindsPath
  BY TypesParted DEF Inv
<1>2. ASSUME NEW p \in Paths, RunCached(p)
      PROVE  CacheBindsPath'
  <2>1. PICK source : source = cache[Min(Find(p))].source
    OBVIOUS
  <2>2. cache \in Seq(Entries) /\ Find(p) # {} /\ cache' = cache /\ read' = read /\ Enter(p, source)
    BY <1>0, <1>2, <2>1 DEF RunCached, HostTypes
  <2>3. /\ Min(Find(p)) \in 1 .. Len(cache) /\ cache[Min(Find(p))].path = p
        /\ source \in Sources
    BY <1>0, <2>1, <2>2, FindOne DEF Entries
  <2>4. run'.path = p /\ run'.source = source
    BY <1>0, <2>2, <2>3, Entered
  <2>5. source = read[p]
    BY <1>0, <2>1, <2>3 DEF CacheBindsPath
  <2> QED
    BY <1>0, <2>2, <2>4, <2>5 DEF CacheBindsPath
<1>3. ASSUME NEW p \in Paths, RunNew(p)
      PROVE  CacheBindsPath'
  <2>1. disk[p] # Nothing /\ cache' = CacheAdd(p) /\ Enter(p, disk[p]) /\ Find(p) = {}
    BY <1>3 DEF RunNew
  <2>2. disk[p] \in Sources /\ cache \in Seq(Entries)
    BY <1>0, <2>1 DEF HostTypes
  <2>3. run'.path = p /\ run'.source = disk[p]
    BY <1>0, <2>1, <2>2, Entered
  <2>4. \A k \in 1 .. Len(cache) : cache[k].path # p
    BY <2>1 DEF Find
  <2>5. \/ cache' = cache
        \/ /\ Len(cache') = Len(cache) + 1
           /\ \A k \in 1 .. Len(cache) : cache'[k] = cache[k]
           /\ cache'[Len(cache) + 1].path = p /\ cache'[Len(cache) + 1].source = disk[p]
    BY <1>0, <2>1, Cached
  <2>8. read'[p] = disk[p] /\ \A q \in Paths : q # p => read'[q] = read[q]
    BY <1>0, <1>3 DEF RunNew, HostTypes
  <2>9. \A k \in 1 .. Len(cache) : cache[k].path \in Paths
    <3>1. \A k \in 1 .. Len(cache) : cache[k] \in Entries
      BY <2>2
    <3> QED
      BY <3>1 DEF Entries
  <2>6. CASE cache' = cache
    BY <1>0, <2>3, <2>4, <2>6, <2>8, <2>9 DEF CacheBindsPath
  <2>7. CASE cache' # cache
    <3>1. PICK n : n = Len(cache)
      OBVIOUS
    <3>2. n \in Nat /\ Len(cache') = n + 1 /\ \A k \in 1 .. n + 1 : k \in 1 .. n \/ k = n + 1
      BY <2>2, <2>5, <2>7, <3>1
    <3>3. /\ \A k \in 1 .. n : cache'[k] = cache[k] /\ cache[k].path # p /\ cache[k].path \in Paths
          /\ cache'[n + 1].path = p /\ cache'[n + 1].source = disk[p]
      BY <2>4, <2>5, <2>7, <2>9, <3>1
    <3>4. \A j, k \in 1 .. n + 1 : cache'[j].path = cache'[k].path => j = k
      BY <1>0, <3>1, <3>2, <3>3 DEF CacheBindsPath
    <3>5. \A k \in 1 .. n + 1 : cache'[k].source = read'[cache'[k].path]
      BY <1>0, <2>8, <3>1, <3>2, <3>3 DEF CacheBindsPath
    <3> QED
      BY <2>3, <2>8, <3>2, <3>4, <3>5 DEF CacheBindsPath
  <2> QED
    BY <2>6, <2>7
<1>4. ASSUME NEW s \in Sources, RunSource(s)
      PROVE  CacheBindsPath'
  <2>1. CASE Enter(Nothing, s) /\ cache' = cache /\ read' = read
    <3>1. run'.path = Nothing
      BY <1>0, <2>1, Entered
    <3> QED
      BY <1>0, <2>1, <3>1 DEF CacheBindsPath
  <2>2. CASE UNCHANGED <<read, cache, run>>
    BY <1>0, <2>2, BindingStays
  <2> QED
    BY <1>4, <2>1, <2>2 DEF RunSource
<1>5. CASE Leave
  <2>1. run'.path = Nothing /\ read' = read /\ cache' = cache
    BY <1>5 DEF Leave, Idle
  <2> QED
    BY <1>0, <2>1 DEF CacheBindsPath
<1>6. CASE Cleanup
  <2>1. cache' = << >> /\ run'.path = Nothing /\ read' = read
    BY <1>6 DEF Cleanup, Idle
  <2> QED
    BY <1>0, <2>1 DEF CacheBindsPath
<1>7. CASE \/ \E p \in Paths, s \in Sources \cup {Nothing} : Edit(p, s)
           \/ \E p \in Paths : RunFails(p)
           \/ Template \/ Allocate \/ Define \/ EnterFor \/ Return
           \/ \E len \in Pieces : Capture(len)
           \/ \E k \in 1 .. Len(scopes) : Call(k)
           \/ UNCHANGED vars
  <2>1. UNCHANGED <<read, cache, run>>
    BY <1>7 DEF Edit, RunFails, Template, Allocate, Define, EnterFor, Return, Capture, Call, Push, Host, vars
  <2> QED
    BY <1>0, <2>1, BindingStays
<1> QED
  BY <1>2, <1>3, <1>4, <1>5, <1>6, <1>7 DEF Next

-----------------------------------------------------------------------------
(* The scopes and the values. *)

\* A change that concerns neither the frames nor what is allocated.
LEMMA NestingStays ==
  ASSUME Nesting, NothingIsLeft, UNCHANGED <<run, frames, live, pool>>,
         steps \in Nat, steps' \in {steps, steps + 1},
         \A k \in 1 .. Len(frames) : frames[k].scope \in Nat
  PROVE  Nesting' /\ NothingIsLeft'
<1>1. \A k \in 1 .. Len(frames) : frames[k].scope <= steps' + 1
  BY DEF Nesting
<1>2. Nesting'
  BY <1>1 DEF Nesting, Idle
<1>3. NothingIsLeft'
  BY DEF NothingIsLeft, Idle
<1> QED
  BY <1>2, <1>3

\* A run begins with one scope, where there was none.
LEMMA NestingEntered ==
  ASSUME Inv, run = Idle, NEW path \in Paths \cup {Nothing}, NEW source \in Sources, Enter(path, source)
  PROVE  Nesting' /\ NothingIsLeft'
<1>1. live = {}
  BY DEF Inv, NothingIsLeft
<1>2. /\ run' # Idle /\ Len(frames') = 1 /\ frames'[1].scope = 1 /\ steps' = 0 /\ live' = live \cup {1}
  BY Entered DEF Inv
<1>3. \A k \in 1 .. Len(frames') : k = 1
  BY <1>2
<1>4. Nesting'
  BY <1>2, <1>3 DEF Nesting, Idle
<1>5. {frames'[k].scope : k \in 1 .. Len(frames')} = {1}
  BY <1>2, <1>3
<1>6. NothingIsLeft'
  BY <1>1, <1>2, <1>5 DEF NothingIsLeft, Idle
<1> QED
  BY <1>4, <1>6

\* A pushed scope is younger than the others, and alone in being new.
LEMMA NestingPushed ==
  ASSUME Inv, Evaluating, NEW kind \in {"call", "for"}, NEW parent \in Nat, Push(kind, parent)
  PROVE  Nesting' /\ NothingIsLeft'
<1>0. TypeOK /\ Nesting /\ live = {frames[k].scope : k \in 1 .. Len(frames)} /\ run # Idle
  BY DEF Inv, NothingIsLeft, Evaluating
<1>1. /\ Len(frames') = Len(frames) + 1
      /\ \A k \in 1 .. Len(frames) : frames'[k] = frames[k]
      /\ frames'[Len(frames) + 1].scope = steps + 2
      /\ live' = live \cup {steps + 2} /\ steps' = steps + 1
      /\ run' = run
  BY <1>0, Pushed DEF Host
<1>2. steps \in Nat /\ \A k \in 1 .. Len(frames) : frames[k].scope \in Nat
  BY <1>0 DEF TypeOK
<1>3. PICK n : n = Len(frames)
  OBVIOUS
<1>4. n \in Nat /\ \A k \in 1 .. n + 1 : k \in 1 .. n \/ k = n + 1
  BY <1>0, <1>3 DEF TypeOK
<1>5. /\ \A k \in 1 .. n : frames'[k].scope = frames[k].scope /\ frames[k].scope \in Nat
                           /\ frames[k].scope <= steps + 1
      /\ frames'[n + 1].scope = steps + 2 /\ Len(frames') = n + 1
  BY <1>0, <1>1, <1>2, <1>3 DEF Nesting
<1>6. \A k \in 1 .. n + 1 : frames'[k].scope <= steps' + 1
  BY <1>1, <1>2, <1>4, <1>5
<1>7. \A j, k \in 1 .. n + 1 : j < k => frames'[j].scope < frames'[k].scope
  <2> SUFFICES ASSUME NEW j \in 1 .. n + 1, NEW k \in 1 .. n + 1, j < k
               PROVE  frames'[j].scope < frames'[k].scope
    OBVIOUS
  <2>1. j \in 1 .. n
    BY <1>4
  <2>2. CASE k \in 1 .. n
    BY <1>0, <1>3, <1>5, <2>1, <2>2 DEF Nesting
  <2>3. CASE k = n + 1
    BY <1>2, <1>5, <2>1, <2>3
  <2> QED
    BY <1>4, <2>2, <2>3
<1>8. run' # Idle /\ Len(frames') # 0
  BY <1>0, <1>1, <1>4, <1>5
<1>9. Nesting'
  BY <1>5, <1>6, <1>7, <1>8 DEF Nesting, Idle
<1>10. {frames'[k].scope : k \in 1 .. n + 1} = {frames[k].scope : k \in 1 .. n} \cup {steps + 2}
  BY <1>4, <1>5
<1>11. NothingIsLeft'
  BY <1>0, <1>1, <1>3, <1>5, <1>8, <1>10 DEF NothingIsLeft, Idle
<1> QED
  BY <1>9, <1>11

\* Leaving a call or a for statement frees the scope of its frame and no other.
LEMMA NestingPopped ==
  ASSUME Inv, Return
  PROVE  Nesting' /\ NothingIsLeft'
<1>0. TypeOK /\ Nesting /\ live = {frames[k].scope : k \in 1 .. Len(frames)} /\ run # Idle
  BY DEF Inv, NothingIsLeft, Return
<1>1. PICK n : n = Len(frames) - 1
  OBVIOUS
<1>2. /\ Len(frames) \in Nat /\ Len(frames) > 1 /\ Len(frames') = Len(frames) - 1
      /\ \A k \in 1 .. Len(frames) - 1 : frames'[k] = frames[k]
      /\ live' = live \ {frames[Len(frames)].scope} /\ run' = run /\ steps' = steps
  BY <1>0, Popped DEF Host
<1>3. /\ n \in Nat /\ n >= 1 /\ Len(frames) = n + 1 /\ Len(frames') = n
      /\ \A k \in 1 .. n + 1 : k \in 1 .. n \/ k = n + 1
      /\ \A k \in 1 .. n : k \in 1 .. n + 1 /\ k < n + 1
      /\ \A k \in 1 .. n : frames'[k] = frames[k]
  BY <1>1, <1>2
<1>4. \A k \in 1 .. n + 1 : frames[k].scope \in Nat
  BY <1>0, <1>3 DEF TypeOK
<1>5. \A k \in 1 .. n : frames[k].scope # frames[n + 1].scope
  <2>1. \A k \in 1 .. n : frames[k].scope < frames[n + 1].scope
    BY <1>0, <1>3 DEF Nesting
  <2> QED
    BY <1>3, <1>4, <2>1
<1>6. Nesting'
  BY <1>0, <1>2, <1>3 DEF Nesting, Idle
<1>7. {frames'[k].scope : k \in 1 .. n} = {frames[k].scope : k \in 1 .. n + 1} \ {frames[n + 1].scope}
  BY <1>3, <1>5
<1>8. NothingIsLeft'
  BY <1>0, <1>2, <1>3, <1>7 DEF NothingIsLeft, Idle
<1> QED
  BY <1>6, <1>8

\* Leaving the program's frame frees the one scope that is left.
LEMMA NestingLeft ==
  ASSUME Inv, Leave
  PROVE  Nesting' /\ NothingIsLeft'
<1>1. live = {frames[k].scope : k \in 1 .. Len(frames)} /\ Len(frames) = 1
  BY DEF Inv, NothingIsLeft, Leave
<1>2. live = {frames[1].scope}
  BY <1>1
<1>3. live' = {} /\ frames' = << >> /\ run' = Idle /\ pool' = 0
  BY <1>2 DEF Leave
<1> QED
  BY <1>3 DEF Nesting, NothingIsLeft, Idle

\* Every step keeps the scopes those of the frames, and leaves nothing behind.
LEMMA NestingNext ==
  ASSUME Inv, [Next]_vars
  PROVE  Nesting' /\ NothingIsLeft'
<1>0. TypeOK /\ Nesting /\ NothingIsLeft
  BY DEF Inv
<1>1. steps \in Nat /\ \A k \in 1 .. Len(frames) : frames[k].scope \in Nat
  <2>1. frames \in Seq(Frames) /\ steps \in Nat
    BY <1>0, EngineAssumption DEF TypeOK, Frames
  <2>2. \A k \in 1 .. Len(frames) : frames[k] \in Frames
    BY <2>1
  <2> QED
    BY <2>1, <2>2 DEF Frames
<1>2. ASSUME NEW p \in Paths, RunCached(p)
      PROVE  Nesting' /\ NothingIsLeft'
  <2>1. PICK source : source = cache[Min(Find(p))].source
    OBVIOUS
  <2>2. cache \in Seq(Entries) /\ CacheBindsPath /\ Find(p) # {}
    BY <1>2 DEF RunCached, Inv, TypeOK, Entries
  <2>3. source \in Sources
    BY <2>1, <2>2, FindOne DEF Entries
  <2>4. run = Idle /\ Enter(p, source)
    BY <1>2, <2>1 DEF RunCached
  <2> QED
    BY <2>3, <2>4, NestingEntered
<1>3. ASSUME NEW p \in Paths, RunNew(p)
      PROVE  Nesting' /\ NothingIsLeft'
  <2>1. disk[p] \in Sources /\ run = Idle /\ Enter(p, disk[p])
    BY <1>0, <1>3 DEF RunNew, TypeOK
  <2> QED
    BY <2>1, NestingEntered
<1>4. ASSUME NEW s \in Sources, RunSource(s)
      PROVE  Nesting' /\ NothingIsLeft'
  <2>1. run = Idle
    BY <1>4 DEF RunSource
  <2>2. CASE Enter(Nothing, s)
    BY <2>1, <2>2, NestingEntered
  <2>3. CASE pool' = 0 /\ UNCHANGED <<run, frames, live, steps>>
    <3>1. pool' = pool
      BY <1>0, <2>1, <2>3 DEF NothingIsLeft
    <3> QED
      BY <1>0, <1>1, <2>3, <3>1, NestingStays
  <2> QED
    BY <1>4, <2>2, <2>3 DEF RunSource
<1>5. CASE Template \/ Cleanup
  <2>1. run = Idle /\ pool' = 0 /\ UNCHANGED <<run, frames, live, steps>>
    BY <1>5 DEF Template, Cleanup
  <2>2. pool' = pool
    BY <1>0, <2>1 DEF NothingIsLeft
  <2> QED
    BY <1>0, <1>1, <2>1, <2>2, NestingStays
<1>6. CASE \/ \E p \in Paths, s \in Sources \cup {Nothing} : Edit(p, s)
           \/ \E p \in Paths : RunFails(p)
           \/ \E len \in Pieces : Capture(len)
           \/ Define \/ UNCHANGED vars
  <2>1. UNCHANGED <<run, frames, live, pool>> /\ steps' \in {steps, steps + 1}
    BY <1>6 DEF Edit, RunFails, Capture, Define, Host, evaluation, vars
  <2> QED
    BY <1>0, <1>1, <2>1, NestingStays
<1>7. CASE Allocate
  <2>1. run # Idle /\ UNCHANGED <<run, frames, live>> /\ steps' = steps + 1
    BY <1>7 DEF Allocate, Evaluating, Host
  <2>2. \A k \in 1 .. Len(frames) : frames[k].scope <= steps' + 1
    BY <1>0, <1>1, <2>1 DEF Nesting
  <2> QED
    BY <1>0, <2>1, <2>2 DEF Nesting, NothingIsLeft, Idle
<1>8. CASE EnterFor
  <2>1. Evaluating /\ Push("for", Top) /\ Top \in Nat
    BY <1>0, <1>8, TopIsAScope DEF EnterFor, Evaluating
  <2> QED
    BY <2>1, NestingPushed
<1>9. ASSUME NEW k \in 1 .. Len(scopes), Call(k)
      PROVE  Nesting' /\ NothingIsLeft'
  <2>1. Evaluating /\ Push("call", scopes[k]) /\ scopes[k] \in Nat
    BY <1>0, <1>9 DEF Call, TypeOK
  <2> QED
    BY <2>1, NestingPushed
<1> QED
  BY <1>2, <1>3, <1>4, <1>5, <1>6, <1>7, <1>8, <1>9, NestingPopped, NestingLeft DEF Next

-----------------------------------------------------------------------------
(* The output. *)

\* A piece is copied when it fits with the zero after it, and then all before it
\* was.
LEMMA OutputNext ==
  ASSUME Inv, [Next]_vars
  PROVE  OutputWithinBuffer'
<1>0. output_pos \in Nat /\ printed \in Nat /\ OutputWithinBuffer /\ OutputSize \in Nat \ {0}
  BY EngineAssumption DEF Inv, TypeOK
<1>1. ASSUME NEW len \in Pieces, Capture(len)
      PROVE  OutputWithinBuffer'
  <2>1. len \in Nat
    BY EngineAssumption
  <2>2. printed' = printed + len
    BY <1>1 DEF Capture
  <2>3. CASE output_pos + len >= OutputSize
    BY <1>0, <1>1, <2>1, <2>2, <2>3 DEF Capture, OutputWithinBuffer
  <2>4. CASE ~ (output_pos + len >= OutputSize)
    BY <1>0, <1>1, <2>1, <2>2, <2>4 DEF Capture, OutputWithinBuffer
  <2> QED
    BY <2>3, <2>4
<1>2. CASE output_pos' = 0 /\ printed' = 0
  BY <1>0, <1>2 DEF OutputWithinBuffer
<1>3. CASE UNCHANGED <<output_pos, printed>>
  BY <1>0, <1>3 DEF OutputWithinBuffer
<1>4. \/ \E len \in Pieces : Capture(len)
      \/ output_pos' = 0 /\ printed' = 0
      \/ UNCHANGED <<output_pos, printed>>
  BY DEF Next, Edit, RunCached, RunNew, RunFails, RunSource, Enter, Emptied, Leave, Template, Cleanup,
         Allocate, Define, EnterFor, Call, Push, Return, Host, evaluation, vars
<1> QED
  BY <1>1, <1>2, <1>3, <1>4

-----------------------------------------------------------------------------
(* The inductive invariant, and what follows. *)

\* It holds before the first call.
LEMMA InvInit == Init => Inv
<1> SUFFICES ASSUME Init PROVE Inv
  OBVIOUS
<1>1. HostTypes
  <2>1. << >> \in Seq(Entries) /\ Len(<< >>) <= CACHE_MAX
    BY EngineAssumption
  <2>2. Idle \in [path : Paths \cup {Nothing}, source : Sources \cup {Nothing}]
    BY DEF Idle
  <2> QED
    BY <2>1, <2>2 DEF Init, HostTypes
<1>2. EvaluationTypes
  <2>1. << >> \in Seq(Frames) /\ << >> \in Seq(Nat) /\ 0 \in 0 .. MaxSteps /\ 0 \in 0 .. MaxDefined
    BY EngineAssumption
  <2> QED
    BY <2>1 DEF Init, EvaluationTypes
<1>3. CacheBindsPath
  BY DEF Init, Idle, CacheBindsPath
<1>4. Nesting /\ NothingIsLeft
  BY DEF Init, Nesting, NothingIsLeft
<1>5. OutputWithinBuffer
  BY EngineAssumption DEF Init, OutputWithinBuffer
<1> QED
  BY <1>1, <1>2, <1>3, <1>4, <1>5, TypesParted DEF Inv

\* Every step preserves it.
LEMMA InvNext == Inv /\ [Next]_vars => Inv'
<1> SUFFICES ASSUME Inv, [Next]_vars PROVE Inv'
  OBVIOUS
<1>1. TypeOK'
  <2>1. CASE UNCHANGED vars
    BY <2>1 DEF Inv, TypeOK, vars, evaluation
  <2> QED
    BY <2>1, HostTypeNext, EvaluationTypeNext DEF Next
<1> QED
  BY <1>1, BindingNext, NestingNext, OutputNext DEF Inv

\* It holds in every state the engine reaches.
LEMMA Invariant == Spec => []Inv
  BY InvInit, InvNext, PTL DEF Spec

\* Type correctness: the cache stays within its entries, the functions and the
\* steps within their bounds.
THEOREM TypeCorrect == Spec => []TypeOK
<1>1. Inv => TypeOK
  BY DEF Inv
<1> QED
  BY <1>1, Invariant, PTL

\* jsengine_run_file runs what the engine last parsed of its path, and that is its
\* entry if it has one, for any number of files and any size of the cache, whatever
\* is edited or cleaned up in between.  (It need not be what the file holds now:
\* RunsWhatTheFileHolds fails.)
THEOREM Binding == Spec => []CacheBindsPath
<1>1. Inv => CacheBindsPath
  BY DEF Inv
<1> QED
  BY <1>1, Invariant, PTL

\* "Free all memory" between requests is true of the scopes and of the values,
\* however deeply calls and loops nest.
THEOREM NothingLeaks == Spec => []NothingIsLeft
<1>1. Inv => NothingIsLeft
  BY DEF Inv
<1> QED
  BY <1>1, Invariant, PTL

\* jsengine_capture never writes past the caller's buffer, and drops nothing
\* before the buffer is full.
THEOREM OutputFits == Spec => []OutputWithinBuffer
<1>1. Inv => OutputWithinBuffer
  BY DEF Inv
<1> QED
  BY <1>1, Invariant, PTL
=============================================================================
