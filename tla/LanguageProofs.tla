--------------------------- MODULE LanguageProofs ---------------------------
(***************************************************************************)
(* What the script language's scanner and its loop compiler do, for every  *)
(* value of the constants.                                                 *)
(*                                                                         *)
(* The loop compiler is correct for every set of expressions and loops,    *)
(* every scope, and every number of registers and variables: the code of   *)
(* an expression leaves its value in its register, that of a block leaves  *)
(* in the cells what js_eval puts into the scope, and so the native loop   *)
(* refines the interpreter's.                                              *)
(*                                                                         *)
(* The tokens of every text are its longest lexemes, for all sets of       *)
(* digits and letters and all limits: each turn of js_tokenize's loop      *)
(* takes the next lexeme, or passes over a blank or a comment.             *)
(*                                                                         *)
(* The recursive definitions over expressions are reached by induction on  *)
(* their height, those over blocks, code and texts by induction on the     *)
(* length: both are shown here from the least number of a set              *)
(* (LeastNumber).                                                          *)
(***************************************************************************)
EXTENDS Jit, Lexer, SequenceTheorems, FiniteSetTheorems, TLAPS

-----------------------------------------------------------------------------
(* Induction and recursion over what has a height, with sets for predicates *)
(* and a function on functions for what a recursive definition says.        *)

\* A set of numbers that is not empty has a least one.
LEMMA LeastNumber ==
  ASSUME NEW T \in SUBSET Nat, T # {}
  PROVE  \E n \in T : \A m \in T : n <= m
<1> DEFINE F == {0 .. n : n \in T}
<1>1. F \subseteq FiniteSubsetsOf(Nat)
  <2> SUFFICES ASSUME NEW n \in T PROVE 0 .. n \in SUBSET Nat /\ IsFiniteSet(0 .. n)
    BY DEF FiniteSubsetsOf
  <2> QED BY FS_Interval
<1>2. F # {}
  OBVIOUS
<1>3. PICK x \in F : \A y \in F : ~ (<<y, x>> \in StrictSubsetOrdering(Nat))
  <2> HIDE DEF F
  <2> QED BY <1>1, <1>2, FS_StrictSubsetOrderingWellFounded, WFMin
<1>4. PICK n \in T : x = 0 .. n
  OBVIOUS
<1>5. ASSUME NEW m \in T, m < n PROVE FALSE
  <2>1. 0 .. m \in F /\ 0 .. m \subseteq 0 .. n /\ 0 .. m # 0 .. n
    BY <1>5
  <2>2. 0 .. m \in SUBSET Nat /\ 0 .. n \in SUBSET Nat
    OBVIOUS
  <2>3. <<0 .. m, 0 .. n>> \in StrictSubsetOrdering(Nat)
    BY <2>1, <2>2 DEF StrictSubsetOrdering
  <2> QED BY <2>1, <2>3, <1>3, <1>4
<1> QED
  BY <1>5

\* A set that has 0, and n + 1 with every n, has every number.
LEMMA Induction ==
  ASSUME NEW T \in SUBSET Nat, 0 \in T, \A n \in T : n + 1 \in T
  PROVE  T = Nat
<1> SUFFICES ASSUME Nat \ T # {} PROVE FALSE
  OBVIOUS
<1>1. Nat \ T \in SUBSET Nat
  OBVIOUS
<1>2. PICK n \in Nat \ T : \A m \in Nat \ T : n <= m
  BY <1>1, LeastNumber
<1>3. n - 1 \in Nat /\ n - 1 \notin Nat \ T
  BY <1>2
<1> QED
  BY <1>2, <1>3

\* An element is in the set if all lower ones are.
Climbs(S, height, T) ==
  /\ height \in [S -> Nat]
  /\ \A s \in S : (\A t \in S : height[t] < height[s] => t \in T) => s \in T

\* Then all are.
LEMMA HeightInduction ==
  ASSUME NEW S, NEW height, NEW T, Climbs(S, height, T)
  PROVE  S \subseteq T
<1>0. height \in [S -> Nat] /\ \A s \in S : (\A t \in S : height[t] < height[s] => t \in T) => s \in T
  BY DEF Climbs
<1> DEFINE U == {n \in Nat : \A s \in S : height[s] < n => s \in T}
<1>1. U \in SUBSET Nat /\ 0 \in U
  BY <1>0
<1>2. ASSUME NEW n \in U PROVE n + 1 \in U
  <2> SUFFICES ASSUME NEW s \in S, height[s] < n + 1 PROVE s \in T
    OBVIOUS
  <2>1. ASSUME NEW t \in S, height[t] < height[s] PROVE t \in T
    <3>1. height[t] \in Nat /\ height[s] \in Nat /\ n \in Nat
      BY <1>0
    <3>2. height[t] < n
      BY <2>1, <3>1
    <3> QED BY <3>2
  <2> QED BY <1>0, <2>1
<1>3. U = Nat
  <2> HIDE DEF U
  <2> QED BY <1>1, <1>2, Induction
<1>4. ASSUME NEW s \in S PROVE s \in T
  <2>0. height[s] \in Nat /\ height[s] + 1 \in Nat /\ height[s] < height[s] + 1
    BY <1>0
  <2>1. height[s] + 1 \in U
    BY <1>3, <2>0
  <2> QED BY <2>0, <2>1
<1> QED
  BY <1>4

\* Body says of each element what a function has there, by what it has at lower ones.
Recursion(S, V, height, Body) ==
  /\ height \in [S -> Nat] /\ Body \in [[S -> V] -> [S -> V]]
  /\ \A g, h \in [S -> V], s \in S :
       (\A t \in S : height[t] < height[s] => g[t] = h[t]) => Body[g][s] = Body[h][s]

\* Below a height, a function is as Body says.
Solves(S, V, height, Body, g, n) ==
  g \in [S -> V] /\ \A s \in S : height[s] < n => g[s] = Body[g][s]

AgreeBelow(S, height, g, h, n) == \A s \in S : height[s] < n => g[s] = h[s]

\* Two such functions agree there.
LEMMA SolutionsAgree ==
  ASSUME NEW S, NEW V, NEW height, NEW Body, Recursion(S, V, height, Body), NEW n \in Nat, NEW g, NEW h,
         Solves(S, V, height, Body, g, n), Solves(S, V, height, Body, h, n)
  PROVE  AgreeBelow(S, height, g, h, n)
<1> DEFINE T == {s \in S : height[s] < n => g[s] = h[s]}
<1>0. height \in [S -> Nat]
  BY DEF Recursion
<1>1. ASSUME NEW s \in S, \A t \in S : height[t] < height[s] => t \in T PROVE s \in T
  <2> SUFFICES ASSUME height[s] < n PROVE g[s] = h[s]
    OBVIOUS
  <2>1. ASSUME NEW t \in S, height[t] < height[s] PROVE g[t] = h[t]
    <3>1. height[t] \in Nat /\ height[s] \in Nat
      BY <1>0
    <3>2. height[t] < n /\ t \in T
      BY <1>1, <2>1, <3>1
    <3> QED BY <3>2
  <2>2. Body[g][s] = Body[h][s]
    BY <2>1 DEF Recursion, Solves
  <2> QED BY <2>2 DEF Solves
<1>2. S \subseteq T
  <2> HIDE DEF T
  <2>1. Climbs(S, height, T)
    BY <1>0, <1>1 DEF Climbs
  <2> QED BY <2>1, HeightInduction
<1> QED
  BY <1>2 DEF AgreeBelow

\* What solves up to a height solves up to lower ones.
LEMMA SolvesLower ==
  ASSUME NEW S, NEW V, NEW height, NEW Body, Recursion(S, V, height, Body), NEW n \in Nat, NEW g,
         Solves(S, V, height, Body, g, n), NEW m \in Nat, m <= n
  PROVE  Solves(S, V, height, Body, g, m)
<1> SUFFICES ASSUME NEW s \in S, height[s] < m PROVE g[s] = Body[g][s]
  BY DEF Solves
<1>1. height[s] \in Nat
  BY DEF Recursion
<1>2. height[s] < n
  BY <1>1
<1> QED
  BY <1>2 DEF Solves

\* There is one below each height.
LEMMA SolutionBelow ==
  ASSUME NEW S, NEW V, V # {}, NEW height, NEW Body, Recursion(S, V, height, Body), NEW n \in Nat
  PROVE  \E g : Solves(S, V, height, Body, g, n)
<1> DEFINE T == {m \in Nat : \E g : Solves(S, V, height, Body, g, m)}
<1>0. height \in [S -> Nat] /\ Body \in [[S -> V] -> [S -> V]]
  BY DEF Recursion
<1>1. 0 \in T
  <2>1. PICK v \in V : TRUE
    OBVIOUS
  <2>2. [s \in S |-> v] \in [S -> V] /\ \A s \in S : ~ (height[s] < 0)
    BY <1>0
  <2> QED BY <2>2 DEF Solves
<1>2. ASSUME NEW m \in T PROVE m + 1 \in T
  <2>1. PICK g : Solves(S, V, height, Body, g, m)
    OBVIOUS
  <2>2. PICK h \in [S -> V] : h = Body[g]
    BY <1>0, <2>1 DEF Solves
  <2>3. ASSUME NEW s \in S, height[s] < m + 1 PROVE h[s] = Body[h][s]
    <3>1. ASSUME NEW t \in S, height[t] < height[s] PROVE g[t] = h[t]
      <4>1. height[t] \in Nat /\ height[s] \in Nat /\ m \in Nat
        BY <1>0
      <4>2. height[t] < m
        BY <2>3, <3>1, <4>1
      <4> QED BY <2>1, <2>2, <4>2 DEF Solves
    <3>2. Body[g][s] = Body[h][s]
      BY <2>1, <2>2, <3>1 DEF Recursion, Solves
    <3> QED BY <2>2, <3>2
  <2>4. Solves(S, V, height, Body, h, m + 1)
    BY <2>2, <2>3 DEF Solves
  <2> QED BY <2>4
<1>3. T = Nat
  <2>1. T \in SUBSET Nat
    OBVIOUS
  <2> HIDE DEF T
  <2> QED BY <1>1, <1>2, <2>1, Induction
<1> QED
  BY <1>3

\* There is a function that is everywhere as Body says.
LEMMA SolutionExists ==
  ASSUME NEW S, NEW V, V # {}, NEW height, NEW Body, Recursion(S, V, height, Body)
  PROVE  \E f \in [S -> V] : f = Body[f]
<1> DEFINE G(n) == CHOOSE g : Solves(S, V, height, Body, g, n)
           f == [s \in S |-> G(height[s] + 1)[s]]
<1>0. height \in [S -> Nat] /\ Body \in [[S -> V] -> [S -> V]]
  BY DEF Recursion
<1>1. ASSUME NEW n \in Nat PROVE Solves(S, V, height, Body, G(n), n)
  BY SolutionBelow
<1>2. \A s \in S : f[s] = G(height[s] + 1)[s]
  OBVIOUS
<1>3. f = [s \in S |-> f[s]]
  OBVIOUS
<1> HIDE DEF G, f
<1>4. ASSUME NEW s \in S PROVE f[s] \in V /\ height[s] \in Nat /\ height[s] + 1 \in Nat
  <2>1. height[s] \in Nat /\ height[s] + 1 \in Nat
    BY <1>0
  <2> QED BY <1>1, <1>2, <2>1 DEF Solves
<1>5. f \in [S -> V]
  BY <1>3, <1>4
<1>6. ASSUME NEW s \in S PROVE f[s] = Body[f][s]
  <2> DEFINE n == height[s] + 1
             g == G(n)
  <2>1. n \in Nat /\ height[s] < n /\ Solves(S, V, height, Body, g, n) /\ f[s] = g[s]
    BY <1>1, <1>2, <1>4
  <2>2. ASSUME NEW t \in S, height[t] < height[s] PROVE g[t] = f[t]
    <3> DEFINE m == height[t] + 1
               h == G(m)
    <3>1. m \in Nat /\ height[t] < m /\ m <= n /\ f[t] = h[t]
      BY <1>2, <1>4, <2>2
    <3>2. Solves(S, V, height, Body, h, m)
      BY <1>1, <3>1
    <3> HIDE DEF h, g, n, m
    <3>3. Solves(S, V, height, Body, g, m)
      BY <2>1, <3>1, SolvesLower
    <3>4. AgreeBelow(S, height, g, h, m)
      BY <3>1, <3>2, <3>3, SolutionsAgree
    <3> QED BY <3>1, <3>4 DEF AgreeBelow
  <2> HIDE DEF g
  <2>3. Body[g][s] = Body[f][s]
    BY <1>5, <2>1, <2>2 DEF Recursion, Solves
  <2> QED BY <2>1, <2>3 DEF Solves
<1>7. Body[f] \in [S -> V]
  BY <1>0, <1>5
<1>8. f = Body[f]
  BY <1>5, <1>6, <1>7
<1> QED
  BY <1>5, <1>8

-----------------------------------------------------------------------------
(* Sequences given by their first element and by how they go on.            *)

\* f starts with x and goes on from its element v, at k, with F[k][v].
GoesOn(f, n, x, F) == f[0] = x /\ \A k \in 1 .. n : f[k] = F[k][f[k - 1]]

\* There is such a sequence.
LEMMA StepsExist ==
  ASSUME NEW n \in Nat, NEW V, NEW x \in V, NEW F \in [1 .. n -> [V -> V]]
  PROVE  \E f \in [0 .. n -> V] : GoesOn(f, n, x, F)
<1> DEFINE S == 0 .. n
           height == [k \in S |-> k]
           Body == [g \in [S -> V] |-> [k \in S |-> IF k = 0 THEN x ELSE F[k][g[k - 1]]]]
<1>1. ASSUME NEW k \in S, k # 0 PROVE k \in 1 .. n /\ k - 1 \in S /\ k - 1 < k
  BY <1>1
<1>2. Body \in [[S -> V] -> [S -> V]]
  <2> SUFFICES ASSUME NEW g \in [S -> V], NEW k \in S, k # 0 PROVE F[k][g[k - 1]] \in V
    OBVIOUS
  <2>1. k \in 1 .. n /\ k - 1 \in S
    BY <1>1
  <2> HIDE DEF S
  <2> QED BY <2>1
<1>3. height \in [S -> Nat]
  OBVIOUS
<1>4. ASSUME NEW g \in [S -> V], NEW h \in [S -> V], NEW k \in S,
             \A j \in S : height[j] < height[k] => g[j] = h[j]
      PROVE  Body[g][k] = Body[h][k]
  <2>1. CASE k = 0
    BY <2>1
  <2>2. CASE k # 0
    <3>1. k - 1 \in S /\ height[k - 1] < height[k]
      BY <1>1, <2>2
    <3>2. g[k - 1] = h[k - 1]
      BY <1>4, <3>1
    <3> HIDE DEF S
    <3> QED BY <2>2, <3>2
  <2> QED BY <2>1, <2>2
<1> HIDE DEF height, S
<1>5. Recursion(S, V, height, Body)
  <2> HIDE DEF Body
  <2> QED BY <1>2, <1>3, <1>4 DEF Recursion
<1>6. V # {}
  OBVIOUS
<1>7. PICK f \in [S -> V] : f = Body[f]
  <2> HIDE DEF Body
  <2> QED BY <1>5, <1>6, SolutionExists
<1>8. f[0] = x /\ \A k \in 1 .. n : f[k] = F[k][f[k - 1]]
  <2>1. \A k \in S : f[k] = IF k = 0 THEN x ELSE F[k][f[k - 1]]
    BY <1>7
  <2> QED BY <2>1 DEF S
<1> QED
  BY <1>7, <1>8 DEF S, GoesOn

-----------------------------------------------------------------------------
(* The machine.                                                             *)

\* What each instruction of the code leaves.
RunFrom(instructions, m, g) ==
  g = [k \in 0 .. Len(instructions) |-> IF k = 0 THEN m ELSE Step(g[k - 1], instructions[k])]

\* One run of the code up to each place, whatever the instructions.
LEMMA RunExists ==
  ASSUME NEW c, Len(c) \in Nat, NEW m
  PROVE  \E g : RunFrom(c, m, g)
<1> DEFINE n == Len(c)
           Begins(g, k) == g = [j \in 0 .. k |-> IF j = 0 THEN m ELSE Step(g[j - 1], c[j])]
           T == {k \in Nat : \E g : Begins(g, k)}
<1>1. 0 \in T
  <2>1. Begins([j \in 0 .. 0 |-> m], 0)
    OBVIOUS
  <2> QED BY <2>1
<1>2. ASSUME NEW k \in T PROVE k + 1 \in T
  <2>1. PICK g : Begins(g, k)
    OBVIOUS
  <2> DEFINE h == [j \in 0 .. k + 1 |-> IF j <= k THEN g[j] ELSE Step(g[k], c[k + 1])]
  <2>2. ASSUME NEW j \in 0 .. k + 1 PROVE h[j] = IF j = 0 THEN m ELSE Step(h[j - 1], c[j])
    <3>1. CASE j = 0
      BY <2>1, <3>1
    <3>2. CASE j # 0 /\ j <= k
      <4>1. j \in 0 .. k /\ j - 1 \in 0 .. k + 1 /\ j - 1 <= k
        BY <3>2
      <4>2. g[j] = Step(g[j - 1], c[j])
        BY <2>1, <3>2, <4>1
      <4> QED BY <3>2, <4>1, <4>2
    <3>3. CASE j = k + 1
      <4>1. j - 1 = k /\ k \in 0 .. k + 1 /\ j # 0 /\ ~ (j <= k)
        BY <3>3
      <4> QED BY <3>3, <4>1
    <3> QED BY <3>1, <3>2, <3>3
  <2>3. h = [j \in 0 .. k + 1 |-> h[j]]
    OBVIOUS
  <2> HIDE DEF h
  <2>4. Begins(h, k + 1)
    BY <2>2, <2>3
  <2>5. k + 1 \in Nat
    OBVIOUS
  <2> HIDE DEF Begins
  <2> QED BY <2>4, <2>5
<1>3. T = Nat
  <2>1. T \in SUBSET Nat
    OBVIOUS
  <2> HIDE DEF T
  <2> QED BY <1>1, <1>2, <2>1, Induction
<1>4. n \in T
  BY <1>3
<1> QED
  BY <1>4 DEF RunFrom

\* Run takes it to the end.
LEMMA RunIs ==
  ASSUME NEW c, Len(c) \in Nat, NEW m
  PROVE  \E g : RunFrom(c, m, g) /\ Run(c, m) = g[Len(c)]
<1>1. RunFrom(c, m, CHOOSE g : RunFrom(c, m, g))
  BY RunExists
<1>2. Run(c, m) = (CHOOSE g : RunFrom(c, m, g))[Len(c)]
  BY DEF Run, RunFrom
<1> QED
  BY <1>1, <1>2

\* There is only one.
LEMMA RunsAgree ==
  ASSUME NEW c, Len(c) \in Nat, NEW m, NEW g, RunFrom(c, m, g)
  PROVE  Run(c, m) = g[Len(c)]
<1>1. PICK h : RunFrom(c, m, h) /\ Run(c, m) = h[Len(c)]
  BY RunIs
<1> DEFINE n == Len(c)
           T == {k \in Nat : k <= n => g[k] = h[k]}
<1>2. 0 \in T
  BY <1>1 DEF RunFrom
<1>3. ASSUME NEW k \in T PROVE k + 1 \in T
  <2> SUFFICES ASSUME k + 1 <= n PROVE g[k + 1] = h[k + 1]
    OBVIOUS
  <2>1. k + 1 \in 0 .. n /\ k + 1 # 0 /\ (k + 1) - 1 = k /\ k <= n
    OBVIOUS
  <2>2. g[k + 1] = Step(g[k], c[k + 1]) /\ h[k + 1] = Step(h[k], c[k + 1])
    <3>1. g[k + 1] = Step(g[(k + 1) - 1], c[k + 1]) /\ h[k + 1] = Step(h[(k + 1) - 1], c[k + 1])
      BY <1>1, <2>1 DEF RunFrom
    <3> QED BY <2>1, <3>1
  <2> QED BY <2>1, <2>2
<1>4. T = Nat
  <2>1. T \in SUBSET Nat
    OBVIOUS
  <2> HIDE DEF T
  <2> QED BY <1>2, <1>3, <2>1, Induction
<1>5. n \in T
  BY <1>4
<1> QED
  BY <1>1, <1>5

\* Code behind other code runs from what that leaves.
LEMMA RunConcat ==
  ASSUME NEW S, NEW c \in Seq(S), NEW d \in Seq(S), NEW m
  PROVE  Run(c \o d, m) = Run(d, Run(c, m))
<1> DEFINE n == Len(c)
           l == Len(d)
           e == c \o d
<1>0. n \in Nat /\ l \in Nat /\ e \in Seq(S) /\ Len(e) = n + l
  OBVIOUS
<1>1. PICK g : RunFrom(c, m, g) /\ Run(c, m) = g[n]
  BY <1>0, RunIs
<1>2. PICK h : RunFrom(d, g[n], h) /\ Run(d, g[n]) = h[l]
  BY <1>0, RunIs
<1>3. \A k \in 1 .. n + l : e[k] = IF k <= n THEN c[k] ELSE d[k - n]
  OBVIOUS
<1> DEFINE w == [k \in 0 .. n + l |-> IF k <= n THEN g[k] ELSE h[k - n]]
<1> HIDE DEF n, l, e
<1>4. ASSUME NEW k \in 0 .. n + l PROVE w[k] = IF k = 0 THEN m ELSE Step(w[k - 1], e[k])
  <2>1. CASE k = 0
    BY <1>0, <1>1, <2>1 DEF RunFrom, n
  <2>2. CASE k # 0 /\ k <= n
    <3>1. k \in 0 .. n /\ k - 1 \in 0 .. n + l /\ k - 1 <= n /\ k \in 1 .. n + l
      BY <1>0, <2>2
    <3>2. g[k] = Step(g[k - 1], c[k])
      BY <1>1, <2>2, <3>1 DEF RunFrom, n
    <3> QED BY <1>3, <2>2, <3>1, <3>2
  <2>3. CASE k > n
    <3> DEFINE j == k - n
    <3>1. j \in 0 .. l /\ j # 0 /\ k \in 1 .. n + l /\ k - 1 \in 0 .. n + l /\ ~ (k <= n) /\ k # 0
      BY <1>0, <2>3
    <3>2. h[j] = Step(h[j - 1], d[j])
      BY <1>2, <3>1 DEF RunFrom, l
    <3>3. w[k - 1] = h[j - 1]
      <4>1. CASE j = 1
        <5>1. k - 1 = n /\ j - 1 = 0
          BY <1>0, <4>1
        <5>2. h[0] = g[n]
          BY <1>0, <1>2 DEF RunFrom, l
        <5> QED BY <3>1, <5>1, <5>2
      <4>2. CASE j # 1
        <5>1. ~ (k - 1 <= n) /\ (k - 1) - n = j - 1
          BY <1>0, <3>1, <4>2
        <5> QED BY <3>1, <5>1
      <4> QED BY <4>1, <4>2
    <3>4. w[k] = h[j] /\ e[k] = d[j]
      BY <1>3, <3>1
    <3> QED BY <3>1, <3>2, <3>3, <3>4
  <2> QED BY <1>0, <2>1, <2>2, <2>3
<1>5. w = [k \in 0 .. n + l |-> w[k]]
  OBVIOUS
<1>6. w[n + l] = h[l]
  <2>1. CASE l = 0
    <3>1. n + l = n /\ n + l \in 0 .. n + l
      BY <1>0, <2>1
    <3>2. h[0] = g[n]
      BY <1>0, <1>2 DEF RunFrom, l
    <3> QED BY <1>0, <2>1, <3>1, <3>2
  <2>2. CASE l # 0
    <3>1. n + l \in 0 .. n + l /\ ~ (n + l <= n) /\ (n + l) - n = l
      BY <1>0, <2>2
    <3> QED BY <3>1
  <2> QED BY <2>1, <2>2
<1> HIDE DEF w
<1>7. RunFrom(e, m, w)
  BY <1>0, <1>4, <1>5 DEF RunFrom
<1>8. Run(e, m) = w[n + l]
  BY <1>0, <1>7, RunsAgree
<1> QED
  BY <1>1, <1>2, <1>6, <1>8 DEF e

\* One instruction; five, for %; none.
LEMMA RunOne ==
  ASSUME NEW i, NEW m
  PROVE  Run(<<i>>, m) = Step(m, i) /\ Run(<< >>, m) = m
<1>1. PICK g : RunFrom(<<i>>, m, g) /\ Run(<<i>>, m) = g[Len(<<i>>)]
  BY RunIs
<1>2. PICK h : RunFrom(<< >>, m, h) /\ Run(<< >>, m) = h[Len(<< >>)]
  BY RunIs
<1>3. g[0] = m /\ g[1] = Step(g[0], i)
  BY <1>1 DEF RunFrom
<1>4. h[0] = m
  BY <1>2 DEF RunFrom
<1> QED
  BY <1>1, <1>2, <1>3, <1>4

\* The same of the five instructions of %.
LEMMA RunFive ==
  ASSUME NEW S, NEW i \in S, NEW j \in S, NEW k \in S, NEW p \in S, NEW q \in S, NEW m
  PROVE  Run(<<i, j, k, p, q>>, m) = Step(Step(Step(Step(Step(m, i), j), k), p), q)
<1> DEFINE c == <<i, j, k, p, q>>
<1>1. PICK g : RunFrom(c, m, g) /\ Run(c, m) = g[Len(c)]
  BY RunIs
<1>2. Len(c) = 5 /\ c[1] = i /\ c[2] = j /\ c[3] = k /\ c[4] = p /\ c[5] = q
  OBVIOUS
<1> HIDE DEF c
<1>3. g[0] = m
  BY <1>1, <1>2 DEF RunFrom
<1>4. \A x \in 1 .. 5 : g[x] = Step(g[x - 1], c[x])
  BY <1>1, <1>2 DEF RunFrom
<1>5. g[1] = Step(g[0], i) /\ g[2] = Step(g[1], j) /\ g[3] = Step(g[2], k)
  <2>1. g[1] = Step(g[1 - 1], c[1]) /\ g[2] = Step(g[2 - 1], c[2]) /\ g[3] = Step(g[3 - 1], c[3])
    BY <1>4
  <2>2. 1 - 1 = 0 /\ 2 - 1 = 1 /\ 3 - 1 = 2
    OBVIOUS
  <2> QED BY <1>2, <2>1, <2>2
<1>6. g[4] = Step(g[3], p) /\ g[5] = Step(g[4], q)
  <2>1. g[4] = Step(g[4 - 1], c[4]) /\ g[5] = Step(g[5 - 1], c[5])
    BY <1>4
  <2>2. 4 - 1 = 3 /\ 5 - 1 = 4
    OBVIOUS
  <2> QED BY <1>2, <2>1, <2>2
<1> QED
  BY <1>1, <1>2, <1>3, <1>5, <1>6 DEF c

-----------------------------------------------------------------------------
(* Expressions: what the recursive definitions say of them.                 *)

\* What there is to an expression of each kind.
LEMMA Shapes ==
  ASSUME NEW e \in Exprs
  PROVE  /\ Height[e] \in Nat
         /\ e.op \in {"num", "var", "neg"} \cup Arithmetic \cup Comparison
         /\ e.op = "num" => e.value \in Int
         /\ e.op = "var" => e.name \in Names
         /\ e.op = "neg" => e.of \in Exprs /\ Height[e.of] < Height[e]
         /\ e.op \in Arithmetic \cup Comparison =>
              /\ e.left \in Exprs /\ Height[e.left] < Height[e]
              /\ e.right \in Exprs /\ Height[e.right] < Height[e]
         /\ e.op = "%" => e.right.op = "num" /\ e.right.value \in Int /\ e.right.value > 0
<1>1. Height[e] \in Nat
  BY LoopAssumption
<1>2. \/ e.op = "num" /\ e.value \in Int
      \/ e.op = "var" /\ e.name \in Names
      \/ e.op = "neg" /\ e.of \in Exprs /\ Height[e.of] < Height[e]
      \/ /\ e.op \in Arithmetic \cup Comparison /\ {e.left, e.right} \subseteq Exprs
         /\ Height[e.left] < Height[e] /\ Height[e.right] < Height[e]
         /\ e.op = "%" => e.right.op = "num" /\ e.right.value > 0
  BY LoopAssumption
<1>3. ASSUME NEW n \in Exprs, n.op = "num" PROVE n.value \in Int
  BY <1>3, LoopAssumption DEF Arithmetic, Comparison
<1>4. e.op = "%" => e.right \in Exprs /\ e.right.op = "num" /\ e.right.value > 0
  BY <1>2 DEF Arithmetic, Comparison
<1>5. e.op = "%" => e.right.value \in Int
  BY <1>3, <1>4
<1> QED
  BY <1>1, <1>2, <1>4, <1>5 DEF Arithmetic, Comparison

\* A number is a value, and so is what an operation gives.
LEMMA ValuesAre ==
  /\ \A n \in Int : Num(n) \in Values /\ AsNum(Num(n)) = n
  /\ \A v \in Values : AsNum(v) \in Int /\ v[2] \in Int /\ v = <<v[1], v[2]>>
  /\ Undef \in Values
  /\ \A a, b \in Int, op \in Arithmetic \cup Comparison :
       (op = "%" => b > 0) => Apply(op, a, b) \in Values
<1>1. \A n \in Int : Num(n) \in Values /\ AsNum(Num(n)) = n
  BY DEF Num, Values, AsNum
<1>2. \A v \in Values : AsNum(v) \in Int /\ v[2] \in Int /\ v = <<v[1], v[2]>>
  BY DEF Values, AsNum
<1>3. Undef \in Values
  BY DEF Undef, Values
<1>4. ASSUME NEW a \in Int, NEW b \in Int, NEW op \in Arithmetic \cup Comparison, op = "%" => b > 0
      PROVE  Apply(op, a, b) \in Values
  <2>1. Bool(TRUE) \in Values /\ Bool(FALSE) \in Values
    BY DEF Bool, Values
  <2>2. CASE op = "+"
    BY <1>1, <2>2 DEF Apply
  <2>3. CASE op = "-"
    BY <1>1, <2>3 DEF Apply
  <2>4. CASE op = "*"
    BY <1>1, <2>4 DEF Apply
  <2>5. CASE op = "%"
    <3>1. a % b \in Int
      BY <1>4, <2>5
    <3> QED BY <1>1, <2>5, <3>1 DEF Apply
  <2>6. CASE op \in Comparison
    <3>1. \A q \in BOOLEAN : Bool(q) \in Values
      BY <2>1
    <3>2. (a < b) \in BOOLEAN /\ (a > b) \in BOOLEAN /\ (a <= b) \in BOOLEAN /\ (a >= b) \in BOOLEAN
      OBVIOUS
    <3>3. Bool(a < b) \in Values /\ Bool(a > b) \in Values /\ Bool(a <= b) \in Values /\ Bool(a >= b) \in Values
      BY DEF Bool, Values
    <3> QED BY <2>6, <3>3 DEF Apply, Comparison
  <2> QED BY <2>2, <2>3, <2>4, <2>5, <2>6 DEF Arithmetic
<1> QED
  BY <1>1, <1>2, <1>3, <1>4

\* js_eval goes by the kind of the expression, and gives a value.
LEMMA ValueIs ==
  ASSUME NEW w \in [Names -> Values], NEW e \in Exprs
  PROVE  /\ js_eval(e, w) \in Values
         /\ e.op = "num" => js_eval(e, w) = Num(e.value)
         /\ e.op = "var" => js_eval(e, w) = w[e.name]
         /\ e.op \in Arithmetic \cup Comparison =>
              js_eval(e, w) = Apply(e.op, AsNum(js_eval(e.left, w)), AsNum(js_eval(e.right, w)))
<1> DEFINE Form(g, n) ==
             CASE n.op = "num" -> Num(n.value)
               [] n.op = "var" -> w[n.name]
               [] n.op = "neg" -> IF g[n.of][1] = "num" THEN Num(- g[n.of][2]) ELSE Undef
               [] OTHER -> Apply(n.op, AsNum(g[n.left]), AsNum(g[n.right]))
           Other(g, n) == IF n.op = "%" THEN Apply(n.op, AsNum(g[n.left]), n.right.value) ELSE Form(g, n)
           Body == [g \in [Exprs -> Values] |-> [n \in Exprs |-> Other(g, n)]]
<1>1. ASSUME NEW g \in [Exprs -> Values], NEW n \in Exprs PROVE Other(g, n) \in Values
  <2>1. CASE n.op = "num"
    <3>1. Form(g, n) = Num(n.value) /\ n.op # "%"
      BY <2>1
    <3>2. n.value \in Int
      BY <2>1, Shapes
    <3> HIDE DEF Form
    <3> QED BY <3>1, <3>2, ValuesAre
  <2>2. CASE n.op = "var"
    <3>1. Form(g, n) = w[n.name] /\ n.op # "%"
      BY <2>2
    <3>2. n.name \in Names
      BY <2>2, Shapes
    <3> HIDE DEF Form
    <3> QED BY <3>1, <3>2
  <2>3. CASE n.op = "neg"
    <3>1. Form(g, n) = (IF g[n.of][1] = "num" THEN Num(- g[n.of][2]) ELSE Undef) /\ n.op # "%"
      BY <2>3
    <3>2. n.of \in Exprs
      BY <2>3, Shapes
    <3>3. g[n.of] \in Values
      BY <3>2
    <3>4. - g[n.of][2] \in Int
      BY <3>3, ValuesAre
    <3> HIDE DEF Form
    <3> QED BY <3>1, <3>4, ValuesAre
  <2>4. CASE n.op \in Arithmetic \cup Comparison
    <3>1. AsNum(g[n.left]) \in Int /\ AsNum(g[n.right]) \in Int
      BY <2>4, Shapes, ValuesAre
    <3>2. n.op = "%" => n.right.value \in Int /\ n.right.value > 0
      BY Shapes
    <3>3. n.op # "%" => Form(g, n) = Apply(n.op, AsNum(g[n.left]), AsNum(g[n.right]))
      BY <2>4 DEF Arithmetic, Comparison
    <3> HIDE DEF Form
    <3> QED BY <2>4, <3>1, <3>2, <3>3, ValuesAre
  <2> HIDE DEF Other
  <2> QED BY <2>1, <2>2, <2>3, <2>4, Shapes
<1>2. ASSUME NEW g \in [Exprs -> Values], NEW h \in [Exprs -> Values], NEW n \in Exprs,
             \A t \in Exprs : Height[t] < Height[n] => g[t] = h[t]
      PROVE  Other(g, n) = Other(h, n)
  <2>1. n.op = "neg" => g[n.of] = h[n.of]
    BY <1>2, Shapes
  <2>2. n.op \in Arithmetic \cup Comparison => g[n.left] = h[n.left] /\ g[n.right] = h[n.right]
    BY <1>2, Shapes
  <2> QED BY <2>1, <2>2, Shapes DEF Arithmetic, Comparison
<1> HIDE DEF Other
<1>3. Recursion(Exprs, Values, Height, Body)
  <2>1. Body \in [[Exprs -> Values] -> [Exprs -> Values]]
    BY <1>1
  <2>2. \A g, h \in [Exprs -> Values], n \in Exprs :
          (\A t \in Exprs : Height[t] < Height[n] => g[t] = h[t]) => Body[g][n] = Body[h][n]
    BY <1>2
  <2> HIDE DEF Body
  <2> QED BY <2>1, <2>2, LoopAssumption DEF Recursion
<1>4. Values # {}
  BY ValuesAre
<1>5. PICK f \in [Exprs -> Values] : f = Body[f]
  <2> HIDE DEF Body
  <2> QED BY <1>3, <1>4, SolutionExists
<1>6. \A n \in Exprs : f[n] = Other(f, n)
  BY <1>5
<1>7. ASSUME NEW n \in Exprs PROVE f[n] = Form(f, n)
  <2>1. CASE n.op = "%"
    <3>1. n.right.op = "num" /\ n.right \in Exprs /\ n.right.value \in Int
      BY <2>1, Shapes DEF Arithmetic
    <3>2. f[n.right] = Num(n.right.value)
      BY <1>6, <3>1 DEF Other
    <3>3. AsNum(f[n.right]) = n.right.value
      BY <3>1, <3>2, ValuesAre
    <3>4. Form(f, n) = Apply(n.op, AsNum(f[n.left]), AsNum(f[n.right]))
      BY <2>1
    <3> HIDE DEF Form
    <3> QED BY <1>6, <2>1, <3>3, <3>4 DEF Other
  <2>2. CASE n.op # "%"
    <3> HIDE DEF Form
    <3> QED BY <1>6, <2>2 DEF Other
  <2> QED BY <2>1, <2>2
<1> DEFINE Solution(g) == g = [n \in Exprs |-> Form(g, n)]
<1>8. Solution(f)
  <2>1. f = [n \in Exprs |-> f[n]]
    BY <1>5
  <2> HIDE DEF Form
  <2> QED BY <1>7, <2>1
<1> DEFINE value == CHOOSE g : Solution(g)
<1>9. Solution(value)
  <2> HIDE DEF Solution
  <2> QED BY <1>8
<1>10. \A n \in Exprs : js_eval(n, w) = value[n]
  BY DEF js_eval
<1> HIDE DEF value
<1>11. \A n \in Exprs : js_eval(n, w) = Form(value, n)
  <2> HIDE DEF Form
  <2> QED BY <1>9, <1>10
<1>12. js_eval(e, w) \in Values
  <2> DEFINE U == {n \in Exprs : value[n] = f[n]}
  <2>1. ASSUME NEW n \in Exprs, \A t \in Exprs : Height[t] < Height[n] => t \in U PROVE n \in U
    <3>1. n.op = "neg" => value[n.of] = f[n.of]
      BY <2>1, Shapes
    <3>2. n.op \in Arithmetic \cup Comparison => value[n.left] = f[n.left] /\ value[n.right] = f[n.right]
      BY <2>1, Shapes
    <3>3. Form(value, n) = Form(f, n)
      BY <3>1, <3>2, Shapes DEF Arithmetic, Comparison
    <3> HIDE DEF Form
    <3> QED BY <1>7, <1>9, <3>3
  <2>2. Exprs \subseteq U
    <3> HIDE DEF U
    <3>1. Climbs(Exprs, Height, U)
      BY <2>1, LoopAssumption DEF Climbs
    <3> QED BY <3>1, HeightInduction
  <2>3. value[e] = f[e]
    BY <2>2
  <2> QED BY <1>5, <1>10, <2>3
<1>13. e.op \in Arithmetic \cup Comparison => js_eval(e, w) = Apply(e.op, AsNum(value[e.left]), AsNum(value[e.right]))
  BY <1>11 DEF Arithmetic, Comparison
<1>14. e.op = "num" => js_eval(e, w) = Num(e.value)
  BY <1>11
<1>15. e.op = "var" => js_eval(e, w) = w[e.name]
  BY <1>11
<1>16. e.op \in Arithmetic \cup Comparison => value[e.left] = js_eval(e.left, w) /\ value[e.right] = js_eval(e.right, w)
  BY <1>10, Shapes
<1> QED
  BY <1>12, <1>13, <1>14, <1>15, <1>16

-----------------------------------------------------------------------------
(* Code.                                                                    *)

\* Instructions that stay within the registers and n cells.
Legal(n) ==
  {i \in [op : {"const", "load", "store", "mov", "quotient", "+", "-", "*"}, dst : Int, src : Int] :
     CASE i.op = "const" -> i.dst \in 0 .. SCRATCH
       [] i.op = "load" -> i.dst \in 0 .. SCRATCH /\ i.src \in 1 .. n
       [] i.op = "store" -> i.dst \in 1 .. n /\ i.src \in 0 .. SCRATCH
       [] OTHER -> i.dst \in 0 .. SCRATCH /\ i.src \in 0 .. SCRATCH}

\* A table of variables that the code may use.
Usable(table) == table \in Seq(Names) /\ Len(table) > 0

\* jit_var_index finds one of the slots, and the slot of a name that has one.
LEMMA IndexInRange ==
  ASSUME NEW table, Usable(table), NEW x
  PROVE  /\ jit_var_index(table, x) \in 1 .. Len(table)
         /\ x \in ToSet(table) => table[jit_var_index(table, x)] = x
<1>1. CASE x \in ToSet(table)
  <2>1. \E k \in 1 .. Len(table) : table[k] = x
    BY <1>1 DEF ToSet, Usable
  <2>2. jit_var_index(table, x) = CHOOSE k \in 1 .. Len(table) : table[k] = x
    BY <1>1 DEF jit_var_index
  <2> QED BY <2>1, <2>2
<1>2. CASE x \notin ToSet(table)
  <2>1. jit_var_index(table, x) = 1 /\ 1 \in 1 .. Len(table)
    BY <1>2 DEF jit_var_index, Usable
  <2> QED BY <1>2, <2>1
<1> QED
  BY <1>1, <1>2

\* The registers' numbers.
LEMMA Registers ==
  /\ LastRegister \in Nat /\ LastRegister > 0 /\ SCRATCH \in Nat /\ SCRATCH = LastRegister + 1
  /\ \A r \in 0 .. LastRegister : r \in 0 .. SCRATCH /\ r # SCRATCH
  BY JitAssumption DEF SCRATCH

\* The instructions of an operation stay within them.
LEMMA OperationLegal ==
  ASSUME NEW n \in Nat, NEW op \in Arithmetic, NEW r \in 0 .. LastRegister, r + 1 <= LastRegister
  PROVE  Operation(op, r, r + 1) \in Seq(Legal(n))
<1>1. r \in 0 .. SCRATCH /\ r + 1 \in 0 .. SCRATCH /\ SCRATCH \in 0 .. SCRATCH /\ r \in Int /\ r + 1 \in Int /\ SCRATCH \in Int
  BY Registers
<1>2. ASSUME NEW i \in {"mov", "quotient", "+", "-", "*"}, NEW d \in 0 .. SCRATCH, NEW s \in 0 .. SCRATCH
      PROVE  Instruction(i, d, s) \in Legal(n)
  <2>1. d \in Int /\ s \in Int
    BY Registers
  <2> QED BY <2>1 DEF Legal, Instruction
<1>3. CASE op # "%"
  <2>1. Instruction(op, r, r + 1) \in Legal(n)
    BY <1>1, <1>2, <1>3 DEF Arithmetic
  <2> QED BY <1>3, <2>1 DEF Operation
<1>4. CASE op = "%"
  <2>1. /\ Instruction("mov", SCRATCH, r) \in Legal(n) /\ Instruction("quotient", r, r + 1) \in Legal(n)
        /\ Instruction("*", r, r + 1) \in Legal(n) /\ Instruction("-", SCRATCH, r) \in Legal(n)
        /\ Instruction("mov", r, SCRATCH) \in Legal(n)
    BY <1>1, <1>2
  <2> QED BY <1>4, <2>1 DEF Operation
<1> QED
  BY <1>3, <1>4

\* Followed puts one of these behind one of those.
LEMMA FollowedIs ==
  ASSUME NEW C, NEW D, NEW x \in Followed(C, D)
  PROVE  \E c \in C, d \in D : x = c \o d
BY DEF Followed

\* Code behind code is made of the same instructions.
LEMMA FollowedLegal ==
  ASSUME NEW S, NEW C \in SUBSET Seq(S), NEW D \in SUBSET Seq(S), NEW x \in Seq(S)
  PROVE  Followed(C, D) \in SUBSET Seq(S) /\ Followed(Followed(C, D), {x}) \in SUBSET Seq(S)
<1>1. ASSUME NEW A \in SUBSET Seq(S), NEW B \in SUBSET Seq(S) PROVE Followed(A, B) \in SUBSET Seq(S)
  <2>1. ASSUME NEW c \in A, NEW d \in B PROVE c \o d \in Seq(S)
    <3>1. c \in Seq(S) /\ d \in Seq(S)
      OBVIOUS
    <3> QED BY <3>1
  <2> SUFFICES ASSUME NEW y \in Followed(A, B) PROVE y \in Seq(S)
    OBVIOUS
  <2>2. PICK c \in A, d \in B : y = c \o d
    BY DEF Followed
  <2> QED BY <2>1, <2>2
<1>2. {x} \in SUBSET Seq(S)
  OBVIOUS
<1> QED
  BY <1>1, <1>2

\* compile_expr goes by the kind of the expression, and its code is legal.
LEMMA CodeIs ==
  ASSUME NEW table, Usable(table), NEW e \in Exprs, NEW r \in 0 .. LastRegister
  PROVE  /\ compile_expr(table, e, r) \in SUBSET Seq(Legal(Len(table)))
         /\ e.op = "num" => compile_expr(table, e, r) = {<<Instruction("const", r, e.value)>>}
         /\ e.op = "var" => compile_expr(table, e, r) = {<<Instruction("load", r, jit_var_index(table, e.name))>>}
         /\ e.op \in Arithmetic /\ r + 1 <= LastRegister =>
              compile_expr(table, e, r) =
                Followed(Followed(compile_expr(table, e.left, r), compile_expr(table, e.right, r + 1)),
                         {Operation(e.op, r, r + 1)})
         /\ e.op \notin {"num", "var"} /\ ~ (e.op \in Arithmetic /\ r + 1 <= LastRegister) =>
              compile_expr(table, e, r) = {}
<1> DEFINE L == Legal(Len(table))
           S == Exprs \X (0 .. LastRegister)
           V == SUBSET Seq(L)
           height == [place \in S |-> Height[place[1]]]
           Const(place) == {<<Instruction("const", place[2], place[1].value)>>}
           Load(place) == {<<Instruction("load", place[2], jit_var_index(table, place[1].name))>>}
           Spliced(place, C, D) == Followed(Followed(C, D), {Operation(place[1].op, place[2], place[2] + 1)})
           Form(g, place) == ExprCode(table, place, g[LeftOf(place)], g[RightOf(place)])
           Body == [g \in [S -> V] |-> [place \in S |-> Form(g, place)]]
<1>0. Len(table) \in Nat
  BY DEF Usable
<1>0a. ASSUME NEW place \in S
       PROVE  /\ place[1] \in Exprs /\ place[2] \in 0 .. LastRegister /\ place[2] \in 0 .. SCRATCH /\ place[2] \in Int
              /\ height[place] = Height[place[1]] /\ height[place] \in Nat
  <2>1. place[1] \in Exprs /\ place[2] \in 0 .. LastRegister
    OBVIOUS
  <2> QED BY <2>1, Registers, Shapes
<1>0b. ASSUME NEW place \in S, place[1].op \in Arithmetic, place[2] + 1 <= LastRegister
       PROVE  LeftOf(place) \in S /\ RightOf(place) \in S /\ height[LeftOf(place)] < height[place] /\ height[RightOf(place)] < height[place]
  <2>1. place[1].left \in Exprs /\ place[1].right \in Exprs /\ place[2] \in 0 .. LastRegister /\ place[2] + 1 \in 0 .. LastRegister
    BY <1>0a, <1>0b, Shapes, Registers
  <2>2. Height[place[1].left] < Height[place[1]] /\ Height[place[1].right] < Height[place[1]]
    BY <1>0a, <1>0b, Shapes
  <2>3. LeftOf(place) \in S /\ RightOf(place) \in S
    BY <2>1 DEF LeftOf, RightOf
  <2>4. height[place] = Height[place[1]] /\ height[LeftOf(place)] = Height[place[1].left] /\ height[RightOf(place)] = Height[place[1].right]
    BY <2>3 DEF LeftOf, RightOf
  <2> QED BY <2>2, <2>3, <2>4
<1> HIDE DEF S, V, height
<1>0c. ASSUME NEW place, NEW C, NEW D
       PROVE  /\ place[1].op = "num" => ExprCode(table, place, C, D) = Const(place)
              /\ place[1].op = "var" => ExprCode(table, place, C, D) = Load(place)
              /\ place[1].op \in Arithmetic /\ place[2] + 1 <= LastRegister => ExprCode(table, place, C, D) = Spliced(place, C, D)
              /\ place[1].op \notin {"num", "var"} /\ ~ (place[1].op \in Arithmetic /\ place[2] + 1 <= LastRegister) =>
                   ExprCode(table, place, C, D) = {}
  <2>1. ExprCode(table, place, C, D) =
          CASE place[1].op = "num" -> Const(place)
            [] place[1].op = "var" -> Load(place)
            [] place[1].op \in Arithmetic /\ place[2] + 1 <= LastRegister -> Spliced(place, C, D)
            [] OTHER -> {}
    BY DEF ExprCode
  <2> HIDE DEF Const, Load, Spliced
  <2> QED BY <2>1 DEF Arithmetic
<1>1. ASSUME NEW g \in [S -> V], NEW place \in S PROVE Form(g, place) \in V
  <2> DEFINE n == place[1]
             q == place[2]
  <2>0. n \in Exprs /\ q \in 0 .. SCRATCH /\ q \in Int /\ q \in 0 .. LastRegister
    BY <1>0a
  <2>1. CASE n.op = "num"
    <3>1. n.value \in Int
      BY <2>0, <2>1, Shapes
    <3>2. Instruction("const", q, n.value) \in L
      BY <2>0, <3>1 DEF Legal, Instruction
    <3> HIDE DEF L
    <3>3. Const(place) \in V
      BY <3>2 DEF V
    <3> HIDE DEF Const, Load, Spliced
    <3>4. Form(g, place) = Const(place)
      BY <1>0c, <2>1
    <3> QED BY <3>3, <3>4
  <2>2. CASE n.op = "var"
    <3>1. jit_var_index(table, n.name) \in 1 .. Len(table)
      BY IndexInRange
    <3>2. Instruction("load", q, jit_var_index(table, n.name)) \in L
      BY <1>0, <2>0, <3>1 DEF Legal, Instruction
    <3> HIDE DEF L
    <3>3. Load(place) \in V
      BY <3>2 DEF V
    <3> HIDE DEF Const, Load, Spliced
    <3>4. Form(g, place) = Load(place)
      BY <1>0c, <2>2
    <3> QED BY <3>3, <3>4
  <2>3. CASE n.op \in Arithmetic /\ q + 1 <= LastRegister
    <3>1. LeftOf(place) \in S /\ RightOf(place) \in S
      BY <1>0b, <2>3
    <3>2. g[LeftOf(place)] \in SUBSET Seq(L) /\ g[RightOf(place)] \in SUBSET Seq(L)
      BY <3>1 DEF V
    <3>3. Operation(n.op, q, q + 1) \in Seq(L)
      BY <1>0, <2>0, <2>3, OperationLegal
    <3> HIDE DEF L
    <3>4. Spliced(place, g[LeftOf(place)], g[RightOf(place)]) \in V
      BY <3>2, <3>3, FollowedLegal DEF V
    <3> HIDE DEF Const, Load, Spliced
    <3>5. Form(g, place) = Spliced(place, g[LeftOf(place)], g[RightOf(place)])
      BY <1>0c, <2>3
    <3> HIDE DEF Form
    <3> QED BY <3>4, <3>5
  <2>4. CASE n.op \notin {"num", "var"} /\ ~ (n.op \in Arithmetic /\ q + 1 <= LastRegister)
    <3> HIDE DEF Const, Load, Spliced
    <3>1. Form(g, place) = {}
      BY <1>0c, <2>4
    <3> QED BY <3>1 DEF V
  <2> HIDE DEF Form
  <2> QED BY <2>1, <2>2, <2>3, <2>4
<1>2. ASSUME NEW g, NEW h, NEW place \in S, \A t \in S : height[t] < height[place] => g[t] = h[t]
      PROVE  Form(g, place) = Form(h, place)
  <2>1. place[1].op \in Arithmetic /\ place[2] + 1 <= LastRegister => g[LeftOf(place)] = h[LeftOf(place)] /\ g[RightOf(place)] = h[RightOf(place)]
    BY <1>0b, <1>2
  <2>2. CASE place[1].op \in Arithmetic /\ place[2] + 1 <= LastRegister
    BY <2>1, <2>2
  <2>3. CASE ~ (place[1].op \in Arithmetic /\ place[2] + 1 <= LastRegister)
    <3> HIDE DEF Const, Load, Spliced
    <3> QED BY <1>0c, <2>3
  <2> QED BY <2>2, <2>3
<1> HIDE DEF Const, Load, Spliced, Form
<1>3. Recursion(S, V, height, Body)
  <2>1. Body \in [[S -> V] -> [S -> V]]
    BY <1>1
  <2>2. \A g, h \in [S -> V], place \in S :
          (\A t \in S : height[t] < height[place] => g[t] = h[t]) => Body[g][place] = Body[h][place]
    BY <1>2
  <2>3. height \in [S -> Nat]
    BY <1>0a DEF height
  <2> HIDE DEF Body
  <2> QED BY <2>1, <2>2, <2>3 DEF Recursion
<1>4. V # {}
  BY DEF V
<1>5. PICK f \in [S -> V] : f = Body[f]
  <2> HIDE DEF Body
  <2> QED BY <1>3, <1>4, SolutionExists
<1> DEFINE Solution(g) == g = [place \in S |-> Form(g, place)]
<1>6. Solution(f)
  BY <1>5
<1> DEFINE compiled == CHOOSE g : Solution(g)
<1>7. Solution(compiled)
  <2> HIDE DEF Solution
  <2> QED BY <1>6
<1>8. ASSUME NEW place \in S PROVE compile_expr(table, place[1], place[2]) = compiled[place]
  <2>1. place = <<place[1], place[2]>>
    BY DEF S
  <2>2. compile_expr(table, place[1], place[2]) = compiled[<<place[1], place[2]>>]
    BY DEF compile_expr, Form, S
  <2> QED BY <2>1, <2>2
<1> HIDE DEF compiled
<1>9. ASSUME NEW place \in S PROVE compiled[place] = Form(compiled, place) /\ f[place] = Form(f, place)
  BY <1>6, <1>7
<1>10. ASSUME NEW place \in S PROVE compiled[place] \in V
  <2> DEFINE U == {t \in S : compiled[t] = f[t]}
  <2>1. ASSUME NEW s \in S, \A t \in S : height[t] < height[s] => t \in U PROVE s \in U
    <3>1. Form(compiled, s) = Form(f, s)
      BY <1>2, <2>1
    <3> QED BY <1>9, <3>1
  <2>2. S \subseteq U
    <3> HIDE DEF U
    <3>1. height \in [S -> Nat]
      BY <1>0a DEF height
    <3>2. Climbs(S, height, U)
      BY <2>1, <3>1 DEF Climbs
    <3> QED BY <3>2, HeightInduction
  <2>3. compiled[place] = f[place]
    BY <2>2
  <2> QED BY <2>3
<1> DEFINE place == <<e, r>>
<1>11. place \in S /\ place[1] = e /\ place[2] = r
  BY DEF S
<1>12. compile_expr(table, e, r) \in V /\ compile_expr(table, e, r) = Form(compiled, place)
  BY <1>8, <1>9, <1>10, <1>11
<1>13. ASSUME e.op \in Arithmetic, r + 1 <= LastRegister
       PROVE  /\ compiled[LeftOf(place)] = compile_expr(table, e.left, r)
              /\ compiled[RightOf(place)] = compile_expr(table, e.right, r + 1)
  <2>1. LeftOf(place) \in S /\ RightOf(place) \in S
    BY <1>0b, <1>11, <1>13
  <2>2. LeftOf(place)[1] = e.left /\ LeftOf(place)[2] = r /\ RightOf(place)[1] = e.right /\ RightOf(place)[2] = r + 1
    BY DEF LeftOf, RightOf
  <2> QED BY <1>8, <2>1, <2>2
<1> HIDE DEF place
<1>14. /\ e.op = "num" => compile_expr(table, e, r) = Const(place)
       /\ e.op = "var" => compile_expr(table, e, r) = Load(place)
       /\ e.op \in Arithmetic /\ r + 1 <= LastRegister =>
            compile_expr(table, e, r) = Spliced(place, compile_expr(table, e.left, r), compile_expr(table, e.right, r + 1))
       /\ e.op \notin {"num", "var"} /\ ~ (e.op \in Arithmetic /\ r + 1 <= LastRegister) =>
            compile_expr(table, e, r) = {}
  BY <1>0c, <1>11, <1>12, <1>13 DEF Form
<1> QED
  <2>1. Const(place) = {<<Instruction("const", r, e.value)>>}
    BY <1>11 DEF Const
  <2>2. Load(place) = {<<Instruction("load", r, jit_var_index(table, e.name))>>}
    BY <1>11 DEF Load
  <2>3. \A C, D : Spliced(place, C, D) = Followed(Followed(C, D), {Operation(e.op, r, r + 1)})
    BY <1>11 DEF Spliced
  <2> HIDE DEF L
  <2> QED BY <1>12, <1>14, <2>1, <2>2, <2>3 DEF V, L

\* Mentions goes by the kind of the expression.
LEMMA MentionsAre ==
  ASSUME NEW e \in Exprs
  PROVE  /\ Mentions(e) \in Seq(Names)
         /\ e.op = "var" => Mentions(e) = <<e.name>>
         /\ e.op \in Arithmetic \cup Comparison => Mentions(e) = Mentions(e.left) \o Mentions(e.right)
<1> DEFINE V == Seq(Names)
           Form(g, n) ==
             CASE n.op \in {"num", "neg"} -> << >>
               [] n.op = "var" -> <<n.name>>
               [] OTHER -> g[n.left] \o g[n.right]
           Body == [g \in [Exprs -> V] |-> [n \in Exprs |-> Form(g, n)]]
<1>0. Height \in [Exprs -> Nat]
  BY LoopAssumption
<1>1. ASSUME NEW n \in Exprs, NEW g
      PROVE  /\ n.op \in {"num", "neg"} => Form(g, n) = << >>
             /\ n.op = "var" => n.name \in Names /\ Form(g, n) = <<n.name>>
             /\ n.op \in Arithmetic \cup Comparison =>
                  /\ n.left \in Exprs /\ n.right \in Exprs /\ Height[n.left] < Height[n] /\ Height[n.right] < Height[n]
                  /\ Form(g, n) = g[n.left] \o g[n.right]
  BY Shapes DEF Arithmetic, Comparison
<1>1a. ASSUME NEW n \in Exprs PROVE n.op \in {"num", "neg"} \/ n.op = "var" \/ n.op \in Arithmetic \cup Comparison
  BY Shapes
<1> HIDE DEF Form
<1>2. ASSUME NEW g \in [Exprs -> V], NEW n \in Exprs PROVE Form(g, n) \in V
  <2>1. CASE n.op \in {"num", "neg"}
    <3>1. Form(g, n) = << >>
      BY <1>1, <2>1
    <3> QED BY <3>1
  <2>2. CASE n.op = "var"
    <3>1. Form(g, n) = <<n.name>> /\ n.name \in Names
      BY <1>1, <2>2
    <3> QED BY <3>1
  <2>3. CASE n.op \in Arithmetic \cup Comparison
    <3>1. g[n.left] \in V /\ g[n.right] \in V
      BY <1>1, <2>3
    <3>2. Form(g, n) = g[n.left] \o g[n.right]
      BY <1>1, <2>3
    <3> QED BY <3>1, <3>2
  <2> QED BY <1>1a, <2>1, <2>2, <2>3
<1>3. ASSUME NEW g, NEW h, NEW n \in Exprs, \A t \in Exprs : Height[t] < Height[n] => g[t] = h[t]
      PROVE  Form(g, n) = Form(h, n)
  <2>1. n.op \in Arithmetic \cup Comparison => g[n.left] = h[n.left] /\ g[n.right] = h[n.right]
    BY <1>1, <1>3
  <2> QED BY <1>1, <1>1a, <2>1
<1>4. Recursion(Exprs, V, Height, Body)
  <2>1. Body \in [[Exprs -> V] -> [Exprs -> V]]
    BY <1>2
  <2>2. \A g, h \in [Exprs -> V], n \in Exprs :
          (\A t \in Exprs : Height[t] < Height[n] => g[t] = h[t]) => Body[g][n] = Body[h][n]
    BY <1>3
  <2> HIDE DEF Body
  <2> QED BY <1>0, <2>1, <2>2 DEF Recursion
<1>5. V # {}
  <2>1. << >> \in V
    OBVIOUS
  <2> QED BY <2>1
<1>6. PICK f \in [Exprs -> V] : f = Body[f]
  <2> HIDE DEF Body
  <2> QED BY <1>4, <1>5, SolutionExists
<1> DEFINE Solution(g) == g = [n \in Exprs |-> Form(g, n)]
<1>7. Solution(f)
  BY <1>6
<1> DEFINE met == CHOOSE g : Solution(g)
<1>8. Solution(met)
  <2> HIDE DEF Solution
  <2> QED BY <1>7
<1>9. ASSUME NEW n \in Exprs PROVE Mentions(n) = met[n]
  BY DEF Mentions, Form
<1> HIDE DEF met
<1>10. ASSUME NEW n \in Exprs PROVE met[n] = Form(met, n) /\ f[n] = Form(f, n)
  BY <1>7, <1>8
<1>11. met[e] \in V
  <2> DEFINE U == {t \in Exprs : met[t] = f[t]}
  <2>1. ASSUME NEW s \in Exprs, \A t \in Exprs : Height[t] < Height[s] => t \in U PROVE s \in U
    <3>1. Form(met, s) = Form(f, s)
      BY <1>3, <2>1
    <3> QED BY <1>10, <3>1
  <2>2. Exprs \subseteq U
    <3> HIDE DEF U
    <3>1. Climbs(Exprs, Height, U)
      BY <1>0, <2>1 DEF Climbs
    <3> QED BY <3>1, HeightInduction
  <2>3. met[e] = f[e]
    BY <2>2
  <2> QED BY <1>6, <2>3
<1>12. e.op = "var" => Mentions(e) = <<e.name>>
  BY <1>1, <1>9, <1>10
<1>13. ASSUME e.op \in Arithmetic \cup Comparison PROVE Mentions(e) = Mentions(e.left) \o Mentions(e.right)
  <2>1. e.left \in Exprs /\ e.right \in Exprs /\ met[e] = met[e.left] \o met[e.right]
    BY <1>1, <1>10, <1>13
  <2> QED BY <1>9, <2>1
<1> QED
  BY <1>9, <1>11, <1>12, <1>13

-----------------------------------------------------------------------------
(* What the code of an expression does.                                     *)

\* The machine's states with n cells.
Machines(n) == [xmm : [0 .. SCRATCH -> Int], cells : [1 .. n -> Int]]

\* From m to a state that differs in one register.
Sets(n, m, q, r, v) == q \in Machines(n) /\ q.cells = m.cells /\ q.xmm = [m.xmm EXCEPT ![r] = v]

\* What an instruction puts into its register.
LEMMA StepSets ==
  ASSUME NEW n, NEW m \in Machines(n), NEW r \in 0 .. SCRATCH
  PROVE  /\ \A v \in Int : Sets(n, m, Step(m, Instruction("const", r, v)), r, v)
         /\ \A k \in 1 .. n : Sets(n, m, Step(m, Instruction("load", r, k)), r, m.cells[k])
         /\ \A s \in 0 .. SCRATCH, op \in {"mov", "+", "-", "*"} :
              Sets(n, m, Step(m, Instruction(op, r, s)), r, Computed(op, m.xmm[r], m.xmm[s]))
         /\ \A s \in 0 .. SCRATCH : m.xmm[s] > 0 =>
              Sets(n, m, Step(m, Instruction("quotient", r, s)), r, m.xmm[r] \div m.xmm[s])
<1>0. m.xmm \in [0 .. SCRATCH -> Int] /\ m.cells \in [1 .. n -> Int] /\ m = [xmm |-> m.xmm, cells |-> m.cells]
  BY DEF Machines
<1>1. ASSUME NEW v \in Int PROVE Sets(n, m, [m EXCEPT !.xmm[r] = v], r, v)
  <2> DEFINE q == [m EXCEPT !.xmm[r] = v]
  <2>1. q.cells = m.cells /\ q.xmm = [m.xmm EXCEPT ![r] = v]
    BY <1>0
  <2>2. q \in Machines(n)
    BY <1>0 DEF Machines
  <2> QED BY <2>1, <2>2 DEF Sets
<1>2. ASSUME NEW v \in Int PROVE Step(m, Instruction("const", r, v)) = [m EXCEPT !.xmm[r] = v]
  BY DEF Step, Instruction
<1>3. ASSUME NEW k \in 1 .. n PROVE Step(m, Instruction("load", r, k)) = [m EXCEPT !.xmm[r] = m.cells[k]] /\ m.cells[k] \in Int
  BY <1>0 DEF Step, Instruction
<1>4. ASSUME NEW s \in 0 .. SCRATCH, NEW op \in {"mov", "+", "-", "*", "quotient"}
      PROVE  Step(m, Instruction(op, r, s)) = [m EXCEPT !.xmm[r] = Computed(op, m.xmm[r], m.xmm[s])]
  BY DEF Step, Instruction
<1>5. ASSUME NEW s \in 0 .. SCRATCH, NEW op \in {"mov", "+", "-", "*"}
      PROVE  Computed(op, m.xmm[r], m.xmm[s]) \in Int
  <2>1. m.xmm[r] \in Int /\ m.xmm[s] \in Int
    BY <1>0
  <2> QED BY <2>1 DEF Computed
<1>6. ASSUME NEW s \in 0 .. SCRATCH, m.xmm[s] > 0
      PROVE  Computed("quotient", m.xmm[r], m.xmm[s]) = m.xmm[r] \div m.xmm[s] /\ m.xmm[r] \div m.xmm[s] \in Int
  <2>1. m.xmm[r] \in Int /\ m.xmm[s] \in Int
    BY <1>0
  <2>2. m.xmm[r] \div m.xmm[s] \in Int
    BY <1>6, <2>1
  <2> QED BY <2>2 DEF Computed
<1>7. \A v \in Int : Sets(n, m, Step(m, Instruction("const", r, v)), r, v)
  BY <1>1, <1>2
<1>8. \A k \in 1 .. n : Sets(n, m, Step(m, Instruction("load", r, k)), r, m.cells[k])
  BY <1>1, <1>3
<1>9. ASSUME NEW s \in 0 .. SCRATCH, NEW op \in {"mov", "+", "-", "*"}
      PROVE  Sets(n, m, Step(m, Instruction(op, r, s)), r, Computed(op, m.xmm[r], m.xmm[s]))
  <2>1. Step(m, Instruction(op, r, s)) = [m EXCEPT !.xmm[r] = Computed(op, m.xmm[r], m.xmm[s])]
    BY <1>4
  <2> QED BY <1>1, <1>5, <2>1
<1>10. ASSUME NEW s \in 0 .. SCRATCH, m.xmm[s] > 0
       PROVE  Sets(n, m, Step(m, Instruction("quotient", r, s)), r, m.xmm[r] \div m.xmm[s])
  <2>1. Step(m, Instruction("quotient", r, s)) = [m EXCEPT !.xmm[r] = Computed("quotient", m.xmm[r], m.xmm[s])]
    BY <1>4
  <2> QED BY <1>1, <1>6, <1>10, <2>1
<1> QED
  BY <1>7, <1>8, <1>9, <1>10

\* The remainder is what is left of whole divisors.
LEMMA Remainder ==
  ASSUME NEW a \in Int, NEW b \in Int, b > 0
  PROVE  (a \div b) \in Int /\ a - (a \div b) * b = a % b
<1>1. (a \div b) \in Int /\ a % b \in Int
  OBVIOUS
<1>2. a = b * (a \div b) + (a % b)
  OBVIOUS
<1>3. b * (a \div b) = (a \div b) * b
  BY <1>1
<1> QED
  BY <1>1, <1>2, <1>3

\* From m to a state that differs above r and in r, which has v.
Leaves(n, m, q, r, v) ==
  q \in Machines(n) /\ q.cells = m.cells /\ q.xmm[r] = v /\ \A x \in 0 .. r - 1 : q.xmm[x] = m.xmm[x]

\* An operation on two neighbouring registers leaves its result in the first one.
LEMMA OperationLeaves ==
  ASSUME NEW n \in Nat, NEW m \in Machines(n), NEW op \in Arithmetic, NEW r \in 0 .. LastRegister, r + 1 <= LastRegister,
         NEW a \in Int, NEW b \in Int, m.xmm[r] = a, m.xmm[r + 1] = b, op = "%" => b > 0
  PROVE  Num(Run(Operation(op, r, r + 1), m).xmm[r]) = Apply(op, a, b)
         /\ Leaves(n, m, Run(Operation(op, r, r + 1), m), r, Run(Operation(op, r, r + 1), m).xmm[r])
<1> DEFINE t == r + 1
           q == Run(Operation(op, r, t), m)
<1>0. /\ r \in 0 .. SCRATCH /\ t \in 0 .. SCRATCH /\ SCRATCH \in 0 .. SCRATCH /\ r # t /\ r # SCRATCH /\ t # SCRATCH
      /\ \A x \in 0 .. r - 1 : x \in 0 .. SCRATCH /\ x # r /\ x # SCRATCH
  BY Registers
<1>1. CASE op # "%"
  <2>1. op \in {"+", "-", "*"}
    BY <1>1 DEF Arithmetic
  <2>2. q = Step(m, Instruction(op, r, t))
    BY <1>1, RunOne DEF Operation
  <2>3. Sets(n, m, q, r, Computed(op, a, b))
    BY <1>0, <2>1, <2>2, StepSets
  <2>4. m.xmm \in [0 .. SCRATCH -> Int]
    BY DEF Machines
  <2>5. Leaves(n, m, q, r, Computed(op, a, b))
    BY <1>0, <2>3, <2>4 DEF Sets, Leaves
  <2>6. Apply(op, a, b) = Num(Computed(op, a, b))
    BY <2>1 DEF Apply, Computed
  <2> HIDE DEF q
  <2> QED BY <2>5, <2>6 DEF Leaves, q
<1>2. CASE op = "%"
  <2> DEFINE m1 == Step(m, Instruction("mov", SCRATCH, r))
             m2 == Step(m1, Instruction("quotient", r, t))
             m3 == Step(m2, Instruction("*", r, t))
             m4 == Step(m3, Instruction("-", SCRATCH, r))
             m5 == Step(m4, Instruction("mov", r, SCRATCH))
             d == a \div b
  <2>0. b > 0 /\ d \in Int /\ a - d * b = a % b
    BY <1>2, Remainder
  <2>1. q = m5
    <3>1. \A k, x, y : Instruction(k, x, y) \in {Instruction(k, x, y)}
      OBVIOUS
    <3> DEFINE I == {Instruction("mov", SCRATCH, r), Instruction("quotient", r, t), Instruction("*", r, t),
                     Instruction("-", SCRATCH, r), Instruction("mov", r, SCRATCH)}
    <3>2. /\ Instruction("mov", SCRATCH, r) \in I /\ Instruction("quotient", r, t) \in I /\ Instruction("*", r, t) \in I
          /\ Instruction("-", SCRATCH, r) \in I /\ Instruction("mov", r, SCRATCH) \in I
      OBVIOUS
    <3> HIDE DEF I
    <3>3. Operation(op, r, t) =
            <<Instruction("mov", SCRATCH, r), Instruction("quotient", r, t), Instruction("*", r, t),
              Instruction("-", SCRATCH, r), Instruction("mov", r, SCRATCH)>>
      BY <1>2 DEF Operation
    <3> QED BY <3>2, <3>3, RunFive
  <2> HIDE DEF t, q, m1, m2, m3, m4, m5
  <2>2. Sets(n, m, m1, SCRATCH, a)
    <3>1. Sets(n, m, m1, SCRATCH, Computed("mov", m.xmm[SCRATCH], m.xmm[r]))
      BY <1>0, StepSets DEF m1
    <3> QED BY <3>1 DEF Computed
  <2>2a. m.xmm \in [0 .. SCRATCH -> Int] /\ m.xmm[t] = b
    BY DEF Machines, t
  <2>3. m1 \in Machines(n) /\ m1.xmm \in [0 .. SCRATCH -> Int] /\ m1.cells = m.cells
        /\ m1.xmm[SCRATCH] = a /\ m1.xmm[r] = a /\ m1.xmm[t] = b /\ \A x \in 0 .. r - 1 : m1.xmm[x] = m.xmm[x]
    BY <1>0, <2>2, <2>2a DEF Sets, Machines
  <2>4. Sets(n, m1, m2, r, d)
    <3>1. m1.xmm[t] > 0
      BY <2>0, <2>3
    <3>2. Sets(n, m1, m2, r, m1.xmm[r] \div m1.xmm[t])
      BY <1>0, <2>3, <3>1, StepSets DEF m2
    <3> QED BY <2>3, <3>2
  <2>5. m2 \in Machines(n) /\ m2.xmm \in [0 .. SCRATCH -> Int] /\ m2.cells = m.cells
        /\ m2.xmm[SCRATCH] = a /\ m2.xmm[r] = d /\ m2.xmm[t] = b /\ \A x \in 0 .. r - 1 : m2.xmm[x] = m.xmm[x]
    BY <1>0, <2>3, <2>4 DEF Sets, Machines
  <2>6. Sets(n, m2, m3, r, d * b)
    <3>1. Sets(n, m2, m3, r, Computed("*", m2.xmm[r], m2.xmm[t]))
      BY <1>0, <2>5, StepSets DEF m3
    <3> QED BY <2>5, <3>1 DEF Computed
  <2>7. m3 \in Machines(n) /\ m3.xmm \in [0 .. SCRATCH -> Int] /\ m3.cells = m.cells
        /\ m3.xmm[SCRATCH] = a /\ m3.xmm[r] = d * b /\ \A x \in 0 .. r - 1 : m3.xmm[x] = m.xmm[x]
    BY <1>0, <2>5, <2>6 DEF Sets, Machines
  <2>8. Sets(n, m3, m4, SCRATCH, a - d * b)
    <3>1. Sets(n, m3, m4, SCRATCH, Computed("-", m3.xmm[SCRATCH], m3.xmm[r]))
      BY <1>0, <2>7, StepSets DEF m4
    <3> QED BY <2>7, <3>1 DEF Computed
  <2>9. m4 \in Machines(n) /\ m4.xmm \in [0 .. SCRATCH -> Int] /\ m4.cells = m.cells
        /\ m4.xmm[SCRATCH] = a % b /\ \A x \in 0 .. r - 1 : m4.xmm[x] = m.xmm[x]
    BY <1>0, <2>0, <2>7, <2>8 DEF Sets, Machines
  <2>10. Sets(n, m4, m5, r, a % b)
    <3>1. Sets(n, m4, m5, r, Computed("mov", m4.xmm[r], m4.xmm[SCRATCH]))
      BY <1>0, <2>9, StepSets DEF m5
    <3> QED BY <2>9, <3>1 DEF Computed
  <2>11. m5 \in Machines(n) /\ m5.cells = m.cells /\ m5.xmm[r] = a % b /\ \A x \in 0 .. r - 1 : m5.xmm[x] = m.xmm[x]
    BY <1>0, <2>9, <2>10 DEF Sets, Machines
  <2>12. Apply(op, a, b) = Num(a % b)
    BY <1>2 DEF Apply
  <2> QED BY <2>1, <2>11, <2>12 DEF Leaves, q, t
<1> QED
  BY <1>1, <1>2

\* The scope that the cells stand for.
View(table, c) == [x \in Names |-> Num(c[jit_var_index(table, x)])]

\* It holds numbers.
LEMMA ViewIsScope ==
  ASSUME NEW table, Usable(table), NEW m \in Machines(Len(table))
  PROVE  View(table, m.cells) \in [Names -> Values]
<1>1. m.cells \in [1 .. Len(table) -> Int]
  BY DEF Machines
<1>2. ASSUME NEW x \in Names PROVE Num(m.cells[jit_var_index(table, x)]) \in Values
  BY <1>1, IndexInRange, ValuesAre
<1> QED
  BY <1>2 DEF View

\* The code computes the expression's value into its register.
Computes(table, e, r, c, m) ==
  /\ Leaves(Len(table), m, Run(c, m), r, Run(c, m).xmm[r])
  /\ js_eval(e, View(table, m.cells)) = Num(Run(c, m).xmm[r])

ComputesAlways(table, e) ==
  \A r \in 0 .. LastRegister : \A c \in compile_expr(table, e, r) : \A m \in Machines(Len(table)) :
    Computes(table, e, r, c, m)

\* The code of a number and of a variable does.
LEMMA LeafComputes ==
  ASSUME NEW table, Usable(table), NEW e \in Exprs, e.op \in {"num", "var"}
  PROVE  ComputesAlways(table, e)
<1> DEFINE n == Len(table)
<1> SUFFICES ASSUME NEW r \in 0 .. LastRegister, NEW c \in compile_expr(table, e, r), NEW m \in Machines(n)
             PROVE  Computes(table, e, r, c, m)
  BY DEF ComputesAlways
<1>0. r \in 0 .. SCRATCH /\ \A x \in 0 .. r - 1 : x \in 0 .. SCRATCH /\ x # r
  BY Registers
<1>1. m.xmm \in [0 .. SCRATCH -> Int] /\ m.cells \in [1 .. n -> Int]
  BY DEF Machines
<1>2. View(table, m.cells) \in [Names -> Values]
  BY ViewIsScope
<1>3. ASSUME NEW v, Sets(n, m, Run(c, m), r, v) PROVE Leaves(n, m, Run(c, m), r, Run(c, m).xmm[r]) /\ Run(c, m).xmm[r] = v
  BY <1>0, <1>1, <1>3 DEF Sets, Leaves
<1>4. CASE e.op = "num"
  <2>1. c = <<Instruction("const", r, e.value)>> /\ e.value \in Int
    <3>1. compile_expr(table, e, r) = {<<Instruction("const", r, e.value)>>}
      BY <1>4, CodeIs
    <3>2. e.value \in Int
      BY <1>4, Shapes
    <3> QED BY <3>1, <3>2
  <2>2. Run(c, m) = Step(m, Instruction("const", r, e.value))
    BY <2>1, RunOne
  <2>3. Sets(n, m, Run(c, m), r, e.value)
    BY <1>0, <2>1, <2>2, StepSets
  <2>4. js_eval(e, View(table, m.cells)) = Num(e.value)
    BY <1>2, <1>4, ValueIs
  <2> QED BY <1>3, <2>3, <2>4 DEF Computes
<1>5. CASE e.op = "var"
  <2> DEFINE k == jit_var_index(table, e.name)
  <2>1. c = <<Instruction("load", r, k)>> /\ e.name \in Names /\ k \in 1 .. n
    <3>1. compile_expr(table, e, r) = {<<Instruction("load", r, k)>>}
      BY <1>5, CodeIs
    <3>2. e.name \in Names /\ k \in 1 .. n
      BY <1>5, Shapes, IndexInRange
    <3> HIDE DEF k
    <3> QED BY <3>1, <3>2
  <2>2. Run(c, m) = Step(m, Instruction("load", r, k))
    BY <2>1, RunOne
  <2>3. Sets(n, m, Run(c, m), r, m.cells[k])
    BY <1>0, <2>1, <2>2, StepSets
  <2>4. js_eval(e, View(table, m.cells)) = View(table, m.cells)[e.name]
    BY <1>2, <1>5, ValueIs
  <2>5. View(table, m.cells)[e.name] = Num(m.cells[k])
    BY <2>1 DEF View
  <2> QED BY <1>3, <2>3, <2>4, <2>5 DEF Computes
<1> QED
  BY <1>4, <1>5

\* The code of an operation does if that of its operands does.
LEMMA OperationComputes ==
  ASSUME NEW table, Usable(table), NEW e \in Exprs, e.op \in Arithmetic,
         ComputesAlways(table, e.left), ComputesAlways(table, e.right)
  PROVE  ComputesAlways(table, e)
<1> DEFINE n == Len(table)
<1> SUFFICES ASSUME NEW r \in 0 .. LastRegister, NEW c \in compile_expr(table, e, r), NEW m \in Machines(n)
             PROVE  Computes(table, e, r, c, m)
  BY DEF ComputesAlways
<1>0. n \in Nat /\ e.left \in Exprs /\ e.right \in Exprs
  BY Shapes DEF Usable
<1>1. r + 1 <= LastRegister /\ r + 1 \in 0 .. LastRegister
  <2>1. r + 1 <= LastRegister
    <3>1. e.op \notin {"num", "var"}
      BY DEF Arithmetic
    <3> QED BY <3>1, CodeIs
  <2> QED BY <2>1, Registers
<1> DEFINE L == Seq(Legal(n))
           o == Operation(e.op, r, r + 1)
<1>2. PICK l \in compile_expr(table, e.left, r), d \in compile_expr(table, e.right, r + 1) : c = (l \o d) \o o
  <2> DEFINE C == compile_expr(table, e.left, r)
             D == compile_expr(table, e.right, r + 1)
             O == {o}
  <2>1. c \in Followed(Followed(C, D), O)
    BY <1>1, CodeIs
  <2> HIDE DEF C, D, O
  <2>2. PICK b \in Followed(C, D), x \in O : c = b \o x
    BY <2>1, FollowedIs
  <2>3. PICK l \in C, d \in D : b = l \o d
    BY FollowedIs
  <2> USE DEF C, D, O
  <2> QED BY <2>2, <2>3
<1>3. l \in L /\ d \in L /\ o \in L
  <2>1. compile_expr(table, e.left, r) \in SUBSET L /\ compile_expr(table, e.right, r + 1) \in SUBSET L
    BY <1>0, <1>1, CodeIs
  <2>2. o \in L
    BY <1>0, <1>1, OperationLegal
  <2> QED BY <2>1, <2>2
<1> DEFINE m1 == Run(l, m)
           m2 == Run(d, m1)
           m3 == Run(o, m2)
           w == View(table, m.cells)
           a == m1.xmm[r]
           b == m2.xmm[r + 1]
<1>4. Run(c, m) = m3
  <2>0. PICK S : l \in Seq(S) /\ d \in Seq(S) /\ o \in Seq(S)
    BY <1>3
  <2> HIDE DEF o
  <2> DEFINE both == l \o d
  <2>1. both \in Seq(S)
    BY <2>0
  <2>3. Run(both, m) = m2
    BY <2>0, RunConcat
  <2> HIDE DEF both
  <2>2. Run(both \o o, m) = Run(o, Run(both, m))
    BY <2>0, <2>1, RunConcat
  <2> USE DEF both
  <2> QED BY <1>2, <2>2, <2>3
<1>5. Leaves(n, m, m1, r, a) /\ js_eval(e.left, w) = Num(a)
  BY DEF ComputesAlways, Computes
<1> HIDE DEF m1
<1>6. m1 \in Machines(n) /\ m1.cells = m.cells /\ \A x \in 0 .. r - 1 : m1.xmm[x] = m.xmm[x]
  BY <1>5 DEF Leaves
<1>7. Leaves(n, m1, m2, r + 1, b) /\ js_eval(e.right, View(table, m1.cells)) = Num(b)
  BY <1>1, <1>6 DEF ComputesAlways, Computes
<1> HIDE DEF m2
<1>8. m2 \in Machines(n) /\ m2.cells = m.cells /\ m2.xmm[r] = a /\ \A x \in 0 .. r - 1 : m2.xmm[x] = m.xmm[x]
  <2>1. r \in 0 .. (r + 1) - 1 /\ \A x \in 0 .. r - 1 : x \in 0 .. (r + 1) - 1
    OBVIOUS
  <2> QED BY <1>6, <1>7, <2>1 DEF Leaves
<1>9. js_eval(e.right, w) = Num(b)
  BY <1>6, <1>7
<1>10. a \in Int /\ b \in Int
  <2>1. m1.xmm \in [0 .. SCRATCH -> Int] /\ m2.xmm \in [0 .. SCRATCH -> Int]
    BY <1>6, <1>8 DEF Machines
  <2> QED BY <1>1, <2>1, Registers
<1>11. w \in [Names -> Values]
  BY ViewIsScope
<1> HIDE DEF w
<1>12. e.op = "%" => b > 0
  <2> SUFFICES ASSUME e.op = "%" PROVE b > 0
    OBVIOUS
  <2>1. e.right.op = "num" /\ e.right.value \in Int /\ e.right.value > 0
    BY Shapes
  <2>2. js_eval(e.right, w) = Num(e.right.value)
    BY <1>0, <1>11, <2>1, ValueIs
  <2>3. AsNum(Num(b)) = b /\ AsNum(Num(e.right.value)) = e.right.value
    BY <1>10, <2>1, ValuesAre
  <2>4. b = e.right.value
    BY <1>9, <2>2, <2>3
  <2> QED BY <2>1, <2>4
<1>13. js_eval(e, w) = Apply(e.op, a, b)
  <2>1. js_eval(e, w) = Apply(e.op, AsNum(js_eval(e.left, w)), AsNum(js_eval(e.right, w)))
    BY <1>11, ValueIs
  <2>2. AsNum(js_eval(e.left, w)) = a /\ AsNum(js_eval(e.right, w)) = b
    BY <1>5, <1>9, <1>10, ValuesAre
  <2> QED BY <2>1, <2>2
<1>14. Num(m3.xmm[r]) = Apply(e.op, a, b) /\ Leaves(n, m2, m3, r, m3.xmm[r])
  <2> HIDE DEF a, n
  <2>1. m2.xmm[r + 1] = b /\ m2.xmm[r] = a /\ m2 \in Machines(n)
    BY <1>8
  <2> HIDE DEF b
  <2> QED BY <1>0, <1>1, <1>10, <1>12, <2>1, OperationLeaves
<1> HIDE DEF m3
<1>15. Leaves(n, m, m3, r, m3.xmm[r])
  BY <1>8, <1>14 DEF Leaves
<1> QED
  BY <1>4, <1>13, <1>14, <1>15 DEF Computes, w

\* So the code of every expression does.
LEMMA ExpressionComputes ==
  ASSUME NEW table, Usable(table), NEW e \in Exprs
  PROVE  ComputesAlways(table, e)
<1> DEFINE T == {n \in Exprs : ComputesAlways(table, n)}
<1>1. ASSUME NEW n \in Exprs, \A t \in Exprs : Height[t] < Height[n] => t \in T PROVE n \in T
  <2>1. CASE n.op \in {"num", "var"}
    BY <2>1, LeafComputes
  <2>2. CASE n.op \in Arithmetic
    <3>1. n.left \in T /\ n.right \in T
      BY <1>1, <2>2, Shapes
    <3> QED BY <2>2, <3>1, OperationComputes
  <2>3. CASE n.op \notin {"num", "var"} \cup Arithmetic
    <3>1. \A r \in 0 .. LastRegister : compile_expr(table, n, r) = {}
      BY <2>3, CodeIs
    <3> QED BY <3>1 DEF ComputesAlways
  <2> QED BY <2>1, <2>2, <2>3
<1>2. Climbs(Exprs, Height, T)
  <2> HIDE DEF T
  <2> QED BY <1>1, LoopAssumption DEF Climbs
<1>3. Exprs \subseteq T
  <2> HIDE DEF T
  <2> QED BY <1>2, HeightInduction
<1> QED
  BY <1>3

-----------------------------------------------------------------------------
(* The table of the variables.                                              *)

LoopsOf == [cond : Conds, body : Bodies]

\* What loops are made of.
LEMMA LoopShape ==
  ASSUME NEW l \in LoopsOf
  PROVE  /\ l.cond \in Exprs /\ l.body \in Seq([name : Names, expr : Exprs]) /\ Len(l.body) \in Nat
         /\ \A k \in 1 .. Len(l.body) : l.body[k].name \in Names /\ l.body[k].expr \in Exprs
<1>1. l.cond \in Exprs /\ l.body \in Seq([name : Names, expr : Exprs])
  BY LoopAssumption DEF LoopsOf
<1>2. ASSUME NEW k \in 1 .. Len(l.body) PROVE l.body[k] \in [name : Names, expr : Exprs]
  <2> DEFINE S == [name : Names, expr : Exprs]
             s == l.body
  <2>1. s \in Seq(S) /\ k \in 1 .. Len(s)
    BY <1>1
  <2> HIDE DEF S, s
  <2>2. s[k] \in S
    BY <2>1
  <2> QED BY <2>2 DEF S, s
<1> QED
  BY <1>1, <1>2

\* What two sequences have together.
LEMMA ToSetConcat ==
  ASSUME NEW S, NEW a \in Seq(S), NEW b \in Seq(S)
  PROVE  ToSet(a \o b) = ToSet(a) \cup ToSet(b)
<1>1. ToSet(a) = {a[i] : i \in 1 .. Len(a)} /\ ToSet(b) = {b[i] : i \in 1 .. Len(b)}
  BY DEF ToSet
<1>2. ToSet(a \o b) = {(a \o b)[i] : i \in 1 .. Len(a) + Len(b)}
  BY DEF ToSet
<1>3. \A i \in 1 .. Len(a) + Len(b) : (a \o b)[i] = IF i <= Len(a) THEN a[i] ELSE b[i - Len(a)]
  OBVIOUS
<1>4. ASSUME NEW x \in ToSet(a \o b) PROVE x \in ToSet(a) \cup ToSet(b)
  <2>1. PICK i \in 1 .. Len(a) + Len(b) : x = (a \o b)[i]
    BY <1>2
  <2>2. CASE i <= Len(a)
    <3>1. i \in 1 .. Len(a) /\ x = a[i]
      BY <1>3, <2>1, <2>2
    <3> QED BY <1>1, <3>1
  <2>3. CASE i > Len(a)
    <3>1. i - Len(a) \in 1 .. Len(b) /\ x = b[i - Len(a)]
      BY <1>3, <2>1, <2>3
    <3> QED BY <1>1, <3>1
  <2> QED BY <2>2, <2>3
<1>5. ASSUME NEW x \in ToSet(a) PROVE x \in ToSet(a \o b)
  <2>1. PICK i \in 1 .. Len(a) : x = a[i]
    BY <1>1
  <2>2. i \in 1 .. Len(a) + Len(b) /\ x = (a \o b)[i]
    BY <1>3, <2>1
  <2> QED BY <1>2, <2>2
<1>6. ASSUME NEW x \in ToSet(b) PROVE x \in ToSet(a \o b)
  <2>1. PICK i \in 1 .. Len(b) : x = b[i]
    BY <1>1
  <2>2. Len(a) + i \in 1 .. Len(a) + Len(b) /\ ~ (Len(a) + i <= Len(a)) /\ (Len(a) + i) - Len(a) = i
    OBVIOUS
  <2>3. x = (a \o b)[Len(a) + i]
    BY <1>3, <2>1, <2>2
  <2> QED BY <1>2, <2>2, <2>3
<1> QED
  BY <1>4, <1>5, <1>6

\* All names of a loop are among its mentions.
LEMMA LoopMentionsAre ==
  ASSUME NEW l \in LoopsOf
  PROVE  /\ LoopMentions(l) \in Seq(Names)
         /\ ToSet(Mentions(l.cond)) \subseteq ToSet(LoopMentions(l))
         /\ \A k \in 1 .. Len(l.body) :
              /\ l.body[k].name \in ToSet(LoopMentions(l))
              /\ ToSet(Mentions(l.body[k].expr)) \subseteq ToSet(LoopMentions(l))
<1> DEFINE n == Len(l.body)
           V == Seq(Names)
           x == Mentions(l.cond)
           More(k) == <<l.body[k].name>> \o Mentions(l.body[k].expr)
           F == [k \in 1 .. n |-> [v \in V |-> v \o <<l.body[k].name>> \o Mentions(l.body[k].expr)]]
           Solution(g) == g = [k \in 0 .. n |->
             IF k = 0 THEN x ELSE g[k - 1] \o <<l.body[k].name>> \o Mentions(l.body[k].expr)]
<1>1. n \in Nat /\ x \in V
  BY LoopShape, MentionsAre
<1>2. ASSUME NEW k \in 1 .. n PROVE <<l.body[k].name>> \in V /\ Mentions(l.body[k].expr) \in V /\ l.body[k].name \in Names
  <2>1. l.body[k].name \in Names /\ l.body[k].expr \in Exprs
    BY LoopShape
  <2> QED BY <2>1, MentionsAre
<1>3. F \in [1 .. n -> [V -> V]]
  <2>1. ASSUME NEW k \in 1 .. n, NEW v \in V PROVE v \o <<l.body[k].name>> \o Mentions(l.body[k].expr) \in V
    <3> DEFINE y == <<l.body[k].name>>
               z == Mentions(l.body[k].expr)
    <3>1. y \in V /\ z \in V
      BY <1>2
    <3> HIDE DEF y, z
    <3>2. v \o y \o z \in V
      BY <3>1
    <3> QED BY <3>2 DEF y, z
  <2> HIDE DEF V
  <2> QED BY <2>1
<1>4. PICK f \in [0 .. n -> V] : GoesOn(f, n, x, F)
  <2> HIDE DEF n, V, x, F
  <2> QED BY <1>1, <1>3, StepsExist
<1>5. ASSUME NEW k \in 1 .. n PROVE k \in 0 .. n /\ k # 0 /\ k - 1 \in 0 .. n /\ f[k - 1] \in V
  <2>1. k \in 0 .. n /\ k # 0 /\ k - 1 \in 0 .. n
    BY <1>1
  <2> QED BY <2>1
<1>6. Solution(f)
  <2>1. ASSUME NEW k \in 0 .. n, k # 0
        PROVE  f[k] = f[k - 1] \o <<l.body[k].name>> \o Mentions(l.body[k].expr)
    <3>1. k \in 1 .. n
      BY <1>1, <2>1
    <3>2. f[k - 1] \in V
      BY <1>5, <3>1
    <3>3. F[k][f[k - 1]] = f[k - 1] \o <<l.body[k].name>> \o Mentions(l.body[k].expr)
      BY <3>1, <3>2
    <3> HIDE DEF F
    <3> QED BY <1>4, <3>1, <3>3 DEF GoesOn
  <2>2. f[0] = x
    BY <1>4 DEF GoesOn
  <2> HIDE DEF F
  <2> QED BY <2>1, <2>2
<1>7. Solution(CHOOSE g : Solution(g))
  <2> HIDE DEF Solution
  <2> QED BY <1>6
<1> DEFINE met == CHOOSE g : Solution(g)
<1>8. LoopMentions(l) = met[n]
  BY DEF LoopMentions
<1>9. Solution(met)
  BY <1>7
<1> HIDE DEF met, x
<1>10. met[0] = x /\ \A k \in 1 .. n : met[k] = met[k - 1] \o <<l.body[k].name>> \o Mentions(l.body[k].expr)
  <2>1. met[0] = x
    BY <1>1, <1>9
  <2>2. ASSUME NEW k \in 1 .. n PROVE met[k] = met[k - 1] \o <<l.body[k].name>> \o Mentions(l.body[k].expr)
    <3>1. k \in 0 .. n /\ k # 0
      BY <1>5
    <3> QED BY <1>9, <3>1
  <2> QED BY <2>1, <2>2
<1> DEFINE Has(t, k) ==
             /\ t \in V /\ ToSet(x) \subseteq ToSet(t)
             /\ \A j \in 1 .. k : l.body[j].name \in ToSet(t) /\ ToSet(Mentions(l.body[j].expr)) \subseteq ToSet(t)
           T == {k \in Nat : k <= n => Has(met[k], k)}
<1>11. 0 \in T
  BY <1>1, <1>10
<1>12. ASSUME NEW k \in T PROVE k + 1 \in T
  <2> SUFFICES ASSUME k + 1 <= n PROVE Has(met[k + 1], k + 1)
    OBVIOUS
  <2> DEFINE s == l.body[k + 1]
             u == met[k]
             y == <<s.name>>
             z == Mentions(s.expr)
  <2>1. k + 1 \in 1 .. n /\ (k + 1) - 1 = k /\ k <= n
    BY <1>1
  <2>2. met[k + 1] = u \o y \o z
    <3>1. met[k + 1] = met[(k + 1) - 1] \o y \o z
      BY <1>10, <2>1
    <3> QED BY <2>1, <3>1
  <2>3. y \in V /\ z \in V /\ ToSet(y) = {s.name}
    <3>1. ToSet(<<s.name>>) = {s.name}
      BY DEF ToSet
    <3> QED BY <1>2, <2>1, <3>1
  <2>4. Has(u, k)
    BY <2>1
  <2> HIDE DEF u, y, z, s
  <2>5. u \in V /\ u \o y \in V /\ u \o y \o z \in V
    BY <2>3, <2>4
  <2>6. ToSet(u \o y \o z) = ToSet(u) \cup {s.name} \cup ToSet(z)
    <3>1. ToSet(u \o y) = ToSet(u) \cup ToSet(y)
      BY <2>3, <2>5, ToSetConcat
    <3> DEFINE uy == u \o y
    <3>2. uy \in V
      BY <2>5
    <3> HIDE DEF uy
    <3>3. ToSet(uy \o z) = ToSet(uy) \cup ToSet(z)
      BY <2>3, <3>2, ToSetConcat
    <3> QED BY <2>3, <3>1, <3>3 DEF uy
  <2>7. ASSUME NEW j \in 1 .. k + 1
        PROVE  l.body[j].name \in ToSet(u \o y \o z) /\ ToSet(Mentions(l.body[j].expr)) \subseteq ToSet(u \o y \o z)
    <3>1. CASE j \in 1 .. k
      BY <2>4, <2>6, <3>1
    <3>2. CASE j = k + 1
      BY <2>6, <3>2 DEF s, z
    <3> QED BY <3>1, <3>2
  <2> QED BY <2>2, <2>4, <2>5, <2>6, <2>7
<1>13. T = Nat
  <2>1. T \in SUBSET Nat
    OBVIOUS
  <2> HIDE DEF T
  <2> QED BY <1>11, <1>12, <2>1, Induction
<1>14. Has(met[n], n)
  <2>1. n \in T
    <3> HIDE DEF T
    <3> QED BY <1>1, <1>13
  <2>2. n <= n
    BY <1>1
  <2> HIDE DEF Has
  <2> QED BY <2>1, <2>2
<1> QED
  BY <1>8, <1>14 DEF x

\* No name has two slots.
Distinct(t) == \A i, j \in 1 .. Len(t) : t[i] = t[j] => i = j

\* A table as the compiler fills it.
Table(t) == t \in Seq(Names) /\ Distinct(t) /\ Len(t) <= Slots

\* What jit_var_index makes of a table for a name.
LEMMA WithNameIs ==
  ASSUME NEW t, Table(t), NEW x \in Names
  PROVE  /\ Table(WithName(t, x)) /\ Len(WithName(t, x)) > 0
         /\ ToSet(t) \subseteq ToSet(WithName(t, x))
         /\ x \in ToSet(WithName(t, x)) \/ (x \notin ToSet(t) /\ Len(t) = Slots)
<1>0. t \in Seq(Names) /\ Distinct(t) /\ Len(t) <= Slots /\ Len(t) \in Nat /\ Slots \in Nat /\ Slots > 0
  BY JitAssumption DEF Table
<1>1. ToSet(t) = {t[i] : i \in 1 .. Len(t)}
  BY <1>0 DEF ToSet
<1>2. CASE x \in ToSet(t)
  <2>1. WithName(t, x) = t
    BY <1>2 DEF WithName
  <2>2. Len(t) > 0
    BY <1>0, <1>1, <1>2
  <2> QED BY <1>2, <2>1, <2>2
<1>3. CASE x \notin ToSet(t) /\ Len(t) >= Slots
  <2>1. WithName(t, x) = t
    BY <1>3 DEF WithName
  <2>2. Len(t) = Slots
    BY <1>0, <1>3
  <2> QED BY <1>0, <1>3, <2>1, <2>2
<1>4. CASE x \notin ToSet(t) /\ ~ (Len(t) >= Slots)
  <2> DEFINE u == Append(t, x)
             n == Len(t)
  <2>1. WithName(t, x) = u
    BY <1>4 DEF WithName
  <2>2. u \in Seq(Names) /\ Len(u) = n + 1 /\ u[n + 1] = x /\ \A i \in 1 .. n : u[i] = t[i]
    BY <1>0
  <2>3. n + 1 <= Slots /\ n + 1 > 0
    BY <1>0, <1>4
  <2>4. \A i \in 1 .. n : t[i] # x
    BY <1>1, <1>4
  <2> HIDE DEF u
  <2>5. ASSUME NEW i \in 1 .. n + 1, NEW j \in 1 .. n + 1, u[i] = u[j] PROVE i = j
    <3>1. CASE i \in 1 .. n /\ j \in 1 .. n
      BY <1>0, <2>2, <2>5, <3>1 DEF Distinct
    <3>2. CASE i = n + 1 /\ j \in 1 .. n
      BY <2>2, <2>4, <2>5, <3>2
    <3>3. CASE j = n + 1 /\ i \in 1 .. n
      BY <2>2, <2>4, <2>5, <3>3
    <3>4. CASE i = n + 1 /\ j = n + 1
      BY <3>4
    <3> QED BY <1>0, <3>1, <3>2, <3>3, <3>4
  <2>6. Distinct(u)
    BY <2>2, <2>5 DEF Distinct
  <2>7. ToSet(u) = {u[i] : i \in 1 .. n + 1}
    BY <2>2 DEF ToSet
  <2>8. x \in ToSet(u)
    <3>1. n + 1 \in 1 .. n + 1
      BY <1>0
    <3> QED BY <2>2, <2>7, <3>1
  <2>9. ToSet(t) \subseteq ToSet(u)
    <3> SUFFICES ASSUME NEW y \in ToSet(t) PROVE y \in ToSet(u)
      OBVIOUS
    <3>1. PICK i \in 1 .. n : y = t[i]
      BY <1>1
    <3>2. i \in 1 .. n + 1 /\ y = u[i]
      BY <1>0, <2>2, <3>1
    <3> QED BY <2>7, <3>2
  <2> QED BY <2>1, <2>2, <2>3, <2>6, <2>8, <2>9 DEF Table
<1> QED
  BY <1>2, <1>3, <1>4

\* A table that is full leaves no further name, if there are no more names than slots.
LEMMA FullTable ==
  ASSUME NEW t, Table(t), Len(t) = Slots, NEW s \in Seq(Names), ToSet(t) \subseteq ToSet(s),
         Cardinality(ToSet(s)) <= Slots, NEW x \in ToSet(s)
  PROVE  x \in ToSet(t)
<1> SUFFICES ASSUME x \notin ToSet(t) PROVE FALSE
  OBVIOUS
<1> DEFINE n == Slots
           S == 1 .. n + 1
           T == ToSet(s)
           f == [i \in S |-> IF i <= n THEN t[i] ELSE x]
<1>0. n \in Nat /\ t \in Seq(Names) /\ Len(t) = n /\ Distinct(t) /\ x \in T
  BY JitAssumption DEF Table
<1>1. ToSet(t) = {t[i] : i \in 1 .. n} /\ T = {s[i] : i \in 1 .. Len(s)}
  BY <1>0 DEF ToSet
<1>2. IsFiniteSet(T)
  <2> DEFINE g == [i \in 1 .. Len(s) |-> s[i]]
  <2>1. g \in Surjection(1 .. Len(s), T)
    BY <1>1 DEF Surjection
  <2>2. ExistsSurjection(1 .. Len(s), T) /\ Len(s) \in Nat
    BY <2>1 DEF ExistsSurjection
  <2> HIDE DEF T
  <2> QED BY <2>2, FS_NatSurjection
<1>3. \A i \in 1 .. n : t[i] \in T /\ t[i] # x
  BY <1>1
<1> HIDE DEF T, n
<1>4. f \in [S -> T]
  BY <1>0, <1>3
<1>5. ASSUME NEW i \in S, NEW j \in S, f[i] = f[j] PROVE i = j
  <2>1. CASE i \in 1 .. n /\ j \in 1 .. n
    <3>1. t[i] = t[j]
      BY <1>5, <2>1
    <3> QED BY <1>0, <2>1, <3>1 DEF Distinct
  <2>2. CASE i = n + 1 /\ j \in 1 .. n
    BY <1>0, <1>3, <1>5, <2>2
  <2>3. CASE j = n + 1 /\ i \in 1 .. n
    BY <1>0, <1>3, <1>5, <2>3
  <2>4. CASE i = n + 1 /\ j = n + 1
    BY <2>4
  <2> QED BY <1>0, <2>1, <2>2, <2>3, <2>4
<1>6. DOMAIN f = S
  OBVIOUS
<1> HIDE DEF f, S
<1>7. f \in Injection(S, T)
  BY <1>4, <1>5, <1>6 DEF Injection, IsInjective
<1>8. Cardinality(S) <= Cardinality(T)
  BY <1>2, <1>7, FS_Injection
<1>9. Cardinality(S) = n + 1
  <2>1. n + 1 \in Int /\ ~ (1 > n + 1) /\ (n + 1) - 1 + 1 = n + 1
    BY <1>0
  <2> QED BY <2>1, FS_Interval DEF S
<1>10. Cardinality(T) \in Nat
  BY <1>2, FS_CardinalityType
<1> QED
  BY <1>0, <1>8, <1>9, <1>10 DEF n, T

\* The compiler's table: all names of the loop, if there is room for them.
LEMMA VarNamesAre ==
  ASSUME NEW l \in LoopsOf
  PROVE  /\ Table(VarNames(l)) /\ ToSet(VarNames(l)) \subseteq ToSet(LoopMentions(l))
         /\ LoopMentions(l) # << >> => Len(VarNames(l)) > 0
         /\ Cardinality(ToSet(LoopMentions(l))) <= Slots => ToSet(LoopMentions(l)) \subseteq ToSet(VarNames(l))
<1> DEFINE met == LoopMentions(l)
           n == Len(met)
           V == {t \in Seq(Names) : Table(t)}
           F == [k \in 1 .. n |-> [v \in V |-> WithName(v, met[k])]]
           Solution(g) == g = [k \in 0 .. n |-> IF k = 0 THEN << >> ELSE WithName(g[k - 1], met[k])]
<1>0. met \in Seq(Names) /\ n \in Nat
  BY LoopMentionsAre
<1>1. ASSUME NEW k \in 1 .. n PROVE met[k] \in Names
  <2> HIDE DEF met
  <2> QED BY <1>0
<1>2. << >> \in V
  BY JitAssumption DEF Table, Distinct
<1>3. F \in [1 .. n -> [V -> V]]
  <2>1. ASSUME NEW k \in 1 .. n, NEW v \in V PROVE WithName(v, met[k]) \in V
    BY <1>1, WithNameIs DEF Table
  <2> HIDE DEF V
  <2> QED BY <2>1
<1>4. PICK f \in [0 .. n -> V] : GoesOn(f, n, << >>, F)
  <2> HIDE DEF n, V, F
  <2> QED BY <1>0, <1>2, <1>3, StepsExist
<1>5. ASSUME NEW k \in 1 .. n PROVE k \in 0 .. n /\ k # 0 /\ k - 1 \in 0 .. n /\ f[k - 1] \in V
  <2>1. k \in 0 .. n /\ k # 0 /\ k - 1 \in 0 .. n
    BY <1>0
  <2> QED BY <2>1
<1>6. Solution(f)
  <2>1. ASSUME NEW k \in 0 .. n, k # 0 PROVE f[k] = WithName(f[k - 1], met[k])
    <3>1. k \in 1 .. n
      BY <1>0, <2>1
    <3>2. f[k - 1] \in V
      BY <1>5, <3>1
    <3>3. F[k][f[k - 1]] = WithName(f[k - 1], met[k])
      BY <3>1, <3>2
    <3> HIDE DEF F
    <3> QED BY <1>4, <3>1, <3>3 DEF GoesOn
  <2>2. f[0] = << >>
    BY <1>4 DEF GoesOn
  <2> HIDE DEF F
  <2> QED BY <2>1, <2>2
<1>7. Solution(CHOOSE g : Solution(g))
  <2> HIDE DEF Solution
  <2> QED BY <1>6
<1> DEFINE table == CHOOSE g : Solution(g)
<1>8. VarNames(l) = table[n]
  BY DEF VarNames
<1>9. Solution(table)
  BY <1>7
<1> HIDE DEF table, met
<1>10. table[0] = << >> /\ \A k \in 1 .. n : table[k] = WithName(table[k - 1], met[k])
  <2>1. table[0] = << >>
    BY <1>0, <1>9
  <2>2. ASSUME NEW k \in 1 .. n PROVE table[k] = WithName(table[k - 1], met[k])
    <3>1. k \in 0 .. n /\ k # 0
      BY <1>5
    <3> QED BY <1>9, <3>1
  <2> QED BY <2>1, <2>2
<1> DEFINE Room == Cardinality(ToSet(met)) <= Slots
           Has(t, k) ==
             /\ Table(t) /\ ToSet(t) \subseteq ToSet(met) /\ (k > 0 => Len(t) > 0)
             /\ Room => \A j \in 1 .. k : met[j] \in ToSet(t)
           T == {k \in Nat : k <= n => Has(table[k], k)}
<1>11. 0 \in T
  <2>1. ToSet(<< >>) = {} /\ Table(<< >>)
    BY <1>2 DEF ToSet
  <2> HIDE DEF Room
  <2> QED BY <1>10, <2>1
<1>12. ASSUME NEW k \in T PROVE k + 1 \in T
  <2> SUFFICES ASSUME k + 1 <= n PROVE Has(table[k + 1], k + 1)
    OBVIOUS
  <2> DEFINE u == table[k]
             x == met[k + 1]
  <2>1. k + 1 \in 1 .. n /\ (k + 1) - 1 = k /\ k <= n
    BY <1>0
  <2>2. table[k + 1] = WithName(u, x)
    <3>1. table[k + 1] = WithName(table[(k + 1) - 1], met[k + 1])
      BY <1>10, <2>1
    <3> QED BY <2>1, <3>1
  <2> DEFINE w == WithName(u, x)
  <2>3. Has(u, k)
    BY <2>1
  <2>4. x \in Names /\ x \in ToSet(met)
    <3>1. x \in Names
      BY <1>1, <2>1
    <3>2. x \in ToSet(met)
      BY <1>0, <2>1 DEF ToSet
    <3> QED BY <3>1, <3>2
  <2> HIDE DEF u, x, Room
  <2>5. Table(w) /\ Len(w) > 0 /\ ToSet(u) \subseteq ToSet(w) /\ (x \in ToSet(w) \/ (x \notin ToSet(u) /\ Len(u) = Slots))
    BY <2>3, <2>4, WithNameIs
  <2>6. ToSet(w) \subseteq ToSet(met)
    <3>1. w = u \/ w = Append(u, x)
      BY DEF WithName
    <3>2. u \in Seq(Names)
      BY <2>3 DEF Table
    <3>3. ToSet(Append(u, x)) \subseteq ToSet(u) \cup {x}
      <4> SUFFICES ASSUME NEW y \in ToSet(Append(u, x)) PROVE y \in ToSet(u) \cup {x}
        OBVIOUS
      <4>1. PICK i \in 1 .. Len(u) + 1 : y = Append(u, x)[i]
        BY <3>2 DEF ToSet
      <4>2. CASE i = Len(u) + 1
        BY <3>2, <4>1, <4>2
      <4>3. CASE i # Len(u) + 1
        <5>1. i \in 1 .. Len(u) /\ y = u[i]
          BY <3>2, <4>1, <4>3
        <5> QED BY <3>2, <5>1 DEF ToSet
      <4> QED BY <4>2, <4>3
    <3> HIDE DEF w
    <3> QED BY <2>3, <2>4, <3>1, <3>3
  <2>7. ASSUME Room, NEW j \in 1 .. k + 1 PROVE met[j] \in ToSet(w)
    <3>1. CASE j \in 1 .. k
      BY <2>3, <2>5, <2>7, <3>1
    <3>2. CASE j = k + 1
      <4>1. met[j] = x
        BY <3>2 DEF x
      <4>2. ASSUME x \notin ToSet(w) PROVE FALSE
        <5>1. x \notin ToSet(u) /\ Len(u) = Slots /\ Table(u) /\ ToSet(u) \subseteq ToSet(met)
          BY <2>3, <2>5, <4>2
        <5>2. Cardinality(ToSet(met)) <= Slots
          BY <2>7 DEF Room
        <5>3. x \in ToSet(u)
          BY <1>0, <2>4, <5>1, <5>2, FullTable
        <5> QED BY <5>1, <5>3
      <4> QED BY <4>1, <4>2
    <3> QED BY <3>1, <3>2
  <2> HIDE DEF w
  <2> QED BY <2>2, <2>5, <2>6, <2>7 DEF w
<1>13. T = Nat
  <2>1. T \in SUBSET Nat
    OBVIOUS
  <2> HIDE DEF T
  <2> QED BY <1>11, <1>12, <2>1, Induction
<1>14. Has(table[n], n)
  <2>1. n \in T
    <3> HIDE DEF T
    <3> QED BY <1>0, <1>13
  <2>2. n <= n
    BY <1>0
  <2> HIDE DEF Has
  <2> QED BY <2>1, <2>2
<1>15. met # << >> => n > 0
  BY <1>0
<1>16. Room => ToSet(met) \subseteq ToSet(table[n])
  <2>1. ToSet(met) = {met[j] : j \in 1 .. n}
    BY <1>0 DEF ToSet
  <2> HIDE DEF Room, n
  <2> QED BY <1>14, <2>1
<1> QED
  <2> HIDE DEF n
  <2> QED BY <1>8, <1>14, <1>15, <1>16 DEF met

-----------------------------------------------------------------------------
(* Statements, blocks and conditions.                                       *)

Statements == [name : Names, expr : Exprs]

\* The code of a statement is legal.
LEMMA AssignLegal ==
  ASSUME NEW table, Usable(table), NEW s \in Statements
  PROVE  compile_assign(table, s) \in SUBSET Seq(Legal(Len(table)))
<1> DEFINE L == Legal(Len(table))
           i == Instruction("store", jit_var_index(table, s.name), 0)
           x == <<i>>
           C == compile_expr(table, s.expr, 0)
<1>0. s.expr \in Exprs /\ 0 \in 0 .. LastRegister /\ 0 \in 0 .. SCRATCH
  BY Registers DEF Statements
<1>1. C \in SUBSET Seq(L)
  BY <1>0, CodeIs
<1>2. i \in L
  <2>1. jit_var_index(table, s.name) \in 1 .. Len(table)
    BY IndexInRange
  <2>2. jit_var_index(table, s.name) \in Int
    BY <2>1 DEF Usable
  <2> QED BY <1>0, <2>1, <2>2 DEF Legal, Instruction
<1> HIDE DEF L, i
<1>3. x \in Seq(L) /\ {x} \in SUBSET Seq(L)
  BY <1>2
<1> DEFINE D == {x}
<1> HIDE DEF C, D
<1>4. Followed(C, D) \in SUBSET Seq(L)
  BY <1>1, <1>3, FollowedLegal DEF D
<1> QED
  BY <1>4 DEF compile_assign, C, D, L, i

\* The code of a block: that of each beginning.
BodyChain(table, body, f) ==
  /\ f[0] = {<< >>} /\ BodyCode(table, body) = f[Len(body)]
  /\ \A k \in 1 .. Len(body) : f[k] = Followed(f[k - 1], compile_assign(table, body[k]))
  /\ \A k \in 0 .. Len(body) : f[k] \in SUBSET Seq(Legal(Len(table)))

\* BodyCode goes statement by statement.
LEMMA BodyCodeIs ==
  ASSUME NEW table, Usable(table), NEW body \in Seq(Statements)
  PROVE  \E f : BodyChain(table, body, f)
<1> DEFINE n == Len(body)
           L == Legal(Len(table))
           V == SUBSET Seq(L)
           x == {<< >>}
           A(k) == compile_assign(table, body[k])
           F == [k \in 1 .. n |-> [v \in V |-> Followed(v, A(k))]]
           Solution(g) == g = [k \in 0 .. n |-> IF k = 0 THEN x ELSE Followed(g[k - 1], A(k))]
<1>0. n \in Nat /\ x \in V
  OBVIOUS
<1>1. ASSUME NEW k \in 1 .. n PROVE A(k) \in V
  <2>1. body[k] \in Statements
    OBVIOUS
  <2> QED BY <2>1, AssignLegal
<1> HIDE DEF A, x
<1>3. F \in [1 .. n -> [V -> V]]
  <2>1. ASSUME NEW k \in 1 .. n, NEW v \in V PROVE Followed(v, A(k)) \in V
    <3>1. v \in SUBSET Seq(L) /\ A(k) \in SUBSET Seq(L)
      BY <1>1
    <3>2. << >> \in Seq(L)
      OBVIOUS
    <3> HIDE DEF L
    <3> QED BY <3>1, <3>2, FollowedLegal
  <2> HIDE DEF V
  <2> QED BY <2>1
<1>4. PICK f \in [0 .. n -> V] : GoesOn(f, n, x, F)
  <2> HIDE DEF n, V, F
  <2> QED BY <1>0, <1>3, StepsExist
<1> HIDE DEF V
<1>5. ASSUME NEW k \in 1 .. n PROVE k \in 0 .. n /\ k # 0 /\ k - 1 \in 0 .. n /\ f[k - 1] \in V
  <2>1. k \in 0 .. n /\ k # 0 /\ k - 1 \in 0 .. n
    BY <1>0
  <2> QED BY <2>1
<1>6. Solution(f)
  <2>1. ASSUME NEW k \in 0 .. n, k # 0 PROVE f[k] = Followed(f[k - 1], A(k))
    <3>1. k \in 1 .. n
      BY <1>0, <2>1
    <3>2. f[k - 1] \in V
      BY <1>5, <3>1
    <3>3. F[k][f[k - 1]] = Followed(f[k - 1], A(k))
      BY <3>1, <3>2
    <3> HIDE DEF F
    <3> QED BY <1>4, <3>1, <3>3 DEF GoesOn
  <2>2. f[0] = x
    BY <1>4 DEF GoesOn
  <2> HIDE DEF F
  <2> QED BY <2>1, <2>2
<1>7. Solution(CHOOSE g : Solution(g))
  <2> HIDE DEF Solution
  <2> QED BY <1>6
<1> DEFINE c == CHOOSE g : Solution(g)
<1>8. BodyCode(table, body) = c[n]
  BY DEF BodyCode, A, x
<1>9. Solution(c)
  BY <1>7
<1> HIDE DEF c
<1>10. c[0] = x /\ \A k \in 1 .. n : c[k] = Followed(c[k - 1], A(k))
  <2>1. c[0] = x
    BY <1>0, <1>9
  <2>2. ASSUME NEW k \in 1 .. n PROVE c[k] = Followed(c[k - 1], A(k))
    <3>1. k \in 0 .. n /\ k # 0
      BY <1>5
    <3> QED BY <1>9, <3>1
  <2> QED BY <2>1, <2>2
<1> DEFINE T == {k \in Nat : k <= n => c[k] \in V}
<1>11. 0 \in T
  BY <1>0, <1>10
<1>12. ASSUME NEW k \in T PROVE k + 1 \in T
  <2> SUFFICES ASSUME k + 1 <= n PROVE c[k + 1] \in V
    OBVIOUS
  <2>1. k + 1 \in 1 .. n /\ (k + 1) - 1 = k /\ k <= n
    BY <1>0
  <2>2. c[k + 1] = Followed(c[(k + 1) - 1], A(k + 1))
    BY <1>10, <2>1
  <2>3. c[k] \in V /\ A(k + 1) \in V /\ << >> \in Seq(L)
    BY <1>1, <2>1
  <2>4. Followed(c[k], A(k + 1)) \in V
    <3> HIDE DEF L
    <3> QED BY <2>3, FollowedLegal DEF V
  <2> QED BY <2>1, <2>2, <2>4
<1>13. T = Nat
  <2>1. T \in SUBSET Nat
    OBVIOUS
  <2> HIDE DEF T
  <2> QED BY <1>11, <1>12, <2>1, Induction
<1>14. ASSUME NEW k \in 0 .. n PROVE c[k] \in V
  <2>1. k \in T /\ k <= n
    <3> HIDE DEF T
    <3> QED BY <1>0, <1>13
  <2> QED BY <2>1
<1>15. BodyChain(table, body, c)
  BY <1>8, <1>10, <1>14 DEF BodyChain, V, A, x
<1> QED
  BY <1>15

\* The scopes after each statement of a block.
ScopeChain(body, w, g) ==
  /\ g[0] = w /\ Execute(body, w) = g[Len(body)]
  /\ \A k \in 1 .. Len(body) : g[k] = [g[k - 1] EXCEPT ![body[k].name] = js_eval(body[k].expr, g[k - 1])]
  /\ \A k \in 0 .. Len(body) : g[k] \in [Names -> Values]

\* Execute goes statement by statement.
LEMMA ExecuteIs ==
  ASSUME NEW body \in Seq(Statements), NEW w \in [Names -> Values]
  PROVE  \E g : ScopeChain(body, w, g)
<1> DEFINE n == Len(body)
           V == [Names -> Values]
           E(k, v) == [v EXCEPT ![body[k].name] = js_eval(body[k].expr, v)]
           F == [k \in 1 .. n |-> [v \in V |-> E(k, v)]]
           Solution(g) == g = [k \in 0 .. n |-> IF k = 0 THEN w ELSE E(k, g[k - 1])]
<1>0. n \in Nat /\ w \in V
  OBVIOUS
<1>1. ASSUME NEW k \in 1 .. n, NEW v \in V PROVE E(k, v) \in V
  <2>1. body[k] \in Statements
    OBVIOUS
  <2>2. body[k].name \in Names /\ body[k].expr \in Exprs
    BY <2>1 DEF Statements
  <2>3. js_eval(body[k].expr, v) \in Values
    BY <2>2, ValueIs
  <2> QED BY <2>2, <2>3
<1> HIDE DEF E
<1>3. F \in [1 .. n -> [V -> V]]
  <2> HIDE DEF V
  <2> QED BY <1>1
<1>4. PICK f \in [0 .. n -> V] : GoesOn(f, n, w, F)
  <2> HIDE DEF n, V, F
  <2> QED BY <1>0, <1>3, StepsExist
<1> HIDE DEF V
<1>5. ASSUME NEW k \in 1 .. n PROVE k \in 0 .. n /\ k # 0 /\ k - 1 \in 0 .. n /\ f[k - 1] \in V
  <2>1. k \in 0 .. n /\ k # 0 /\ k - 1 \in 0 .. n
    BY <1>0
  <2> QED BY <2>1
<1>6. Solution(f)
  <2>1. ASSUME NEW k \in 0 .. n, k # 0 PROVE f[k] = E(k, f[k - 1])
    <3>1. k \in 1 .. n
      BY <1>0, <2>1
    <3>2. f[k - 1] \in V
      BY <1>5, <3>1
    <3>3. F[k][f[k - 1]] = E(k, f[k - 1])
      BY <3>1, <3>2
    <3> HIDE DEF F
    <3> QED BY <1>4, <3>1, <3>3 DEF GoesOn
  <2>2. f[0] = w
    BY <1>4 DEF GoesOn
  <2> HIDE DEF F
  <2> QED BY <2>1, <2>2
<1>7. Solution(CHOOSE g : Solution(g))
  <2> HIDE DEF Solution
  <2> QED BY <1>6
<1> DEFINE c == CHOOSE g : Solution(g)
<1>8. Execute(body, w) = c[n]
  BY DEF Execute, E
<1>9. Solution(c)
  BY <1>7
<1> HIDE DEF c
<1>10. c[0] = w /\ \A k \in 1 .. n : c[k] = E(k, c[k - 1])
  <2>1. c[0] = w
    BY <1>0, <1>9
  <2>2. ASSUME NEW k \in 1 .. n PROVE c[k] = E(k, c[k - 1])
    <3>1. k \in 0 .. n /\ k # 0
      BY <1>5
    <3> QED BY <1>9, <3>1
  <2> QED BY <2>1, <2>2
<1> DEFINE T == {k \in Nat : k <= n => c[k] \in V}
<1>11. 0 \in T
  BY <1>0, <1>10
<1>12. ASSUME NEW k \in T PROVE k + 1 \in T
  <2> SUFFICES ASSUME k + 1 <= n PROVE c[k + 1] \in V
    OBVIOUS
  <2>1. k + 1 \in 1 .. n /\ (k + 1) - 1 = k /\ k <= n
    BY <1>0
  <2>2. c[k + 1] = E(k + 1, c[(k + 1) - 1])
    BY <1>10, <2>1
  <2>3. c[k] \in V
    BY <2>1
  <2> QED BY <1>1, <2>1, <2>2, <2>3
<1>13. T = Nat
  <2>1. T \in SUBSET Nat
    OBVIOUS
  <2> HIDE DEF T
  <2> QED BY <1>11, <1>12, <2>1, Induction
<1>14. ASSUME NEW k \in 0 .. n PROVE c[k] \in V
  <2>1. k \in T /\ k <= n
    <3> HIDE DEF T
    <3> QED BY <1>0, <1>13
  <2> QED BY <2>1
<1>15. ScopeChain(body, w, c)
  BY <1>8, <1>10, <1>14 DEF ScopeChain, V, E
<1> QED
  BY <1>15

-----------------------------------------------------------------------------
(* The cells follow the scope.                                              *)

\* An expression that compiles has the same value in scopes that agree on its names.
LEMMA ValueDepends ==
  ASSUME NEW table, Usable(table), NEW v \in [Names -> Values], NEW w \in [Names -> Values], NEW e \in Exprs
  PROVE  \A r \in 0 .. LastRegister :
           /\ compile_expr(table, e, r) # {}
           /\ \A x \in ToSet(Mentions(e)) : v[x] = w[x]
           => js_eval(e, v) = js_eval(e, w)
<1> DEFINE Agree(n) == \A x \in ToSet(Mentions(n)) : v[x] = w[x]
           P(n) == \A r \in 0 .. LastRegister : compile_expr(table, n, r) # {} /\ Agree(n) => js_eval(n, v) = js_eval(n, w)
           T == {n \in Exprs : P(n)}
<1>1. ASSUME NEW n \in Exprs, \A t \in Exprs : Height[t] < Height[n] => t \in T PROVE n \in T
  <2> SUFFICES ASSUME NEW r \in 0 .. LastRegister, compile_expr(table, n, r) # {}, Agree(n)
               PROVE  js_eval(n, v) = js_eval(n, w)
    OBVIOUS
  <2>1. CASE n.op = "num"
    BY <2>1, ValueIs
  <2>2. CASE n.op = "var"
    <3>1. Mentions(n) = <<n.name>>
      BY <2>2, MentionsAre
    <3>2. n.name \in ToSet(<<n.name>>)
      BY DEF ToSet
    <3>3. v[n.name] = w[n.name]
      BY <3>1, <3>2
    <3> QED BY <2>2, <3>3, ValueIs
  <2>3. CASE n.op \in Arithmetic
    <3> DEFINE C == compile_expr(table, n.left, r)
               D == compile_expr(table, n.right, r + 1)
    <3>1. n.op \notin {"num", "var"} /\ n.left \in Exprs /\ n.right \in Exprs
          /\ Height[n.left] < Height[n] /\ Height[n.right] < Height[n]
      BY <2>3, Shapes DEF Arithmetic
    <3>2. r + 1 <= LastRegister
      BY <3>1, CodeIs
    <3>3. r + 1 \in 0 .. LastRegister
      BY <3>2, Registers
    <3>4. C # {} /\ D # {}
      <4> DEFINE O == {Operation(n.op, r, r + 1)}
                 B == Followed(C, D)
      <4>1. compile_expr(table, n, r) = Followed(B, O)
        BY <2>3, <3>2, CodeIs
      <4> HIDE DEF C, D, O, B
      <4>2. PICK y \in Followed(B, O) : TRUE
        BY <4>1
      <4>3. PICK z \in B : TRUE
        BY FollowedIs
      <4>4. z \in Followed(C, D)
        BY DEF B
      <4> QED BY <4>4, FollowedIs
    <3>5. Mentions(n) = Mentions(n.left) \o Mentions(n.right)
          /\ Mentions(n.left) \in Seq(Names) /\ Mentions(n.right) \in Seq(Names)
      BY <2>3, <3>1, MentionsAre
    <3>6. Agree(n.left) /\ Agree(n.right)
      <4>1. ToSet(Mentions(n)) = ToSet(Mentions(n.left)) \cup ToSet(Mentions(n.right))
        BY <3>5, ToSetConcat
      <4> QED BY <4>1
    <3>7. P(n.left) /\ P(n.right)
      BY <1>1, <3>1
    <3>8. js_eval(n.left, v) = js_eval(n.left, w) /\ js_eval(n.right, v) = js_eval(n.right, w)
      BY <3>3, <3>4, <3>6, <3>7
    <3>9. js_eval(n, v) = Apply(n.op, AsNum(js_eval(n.left, v)), AsNum(js_eval(n.right, v)))
          /\ js_eval(n, w) = Apply(n.op, AsNum(js_eval(n.left, w)), AsNum(js_eval(n.right, w)))
      BY <2>3, ValueIs
    <3> QED BY <3>8, <3>9
  <2>4. CASE n.op \notin {"num", "var"} /\ n.op \notin Arithmetic
    BY <2>4, CodeIs
  <2> QED BY <2>1, <2>2, <2>3, <2>4
<1>2. Climbs(Exprs, Height, T)
  <2> HIDE DEF T
  <2> QED BY <1>1, LoopAssumption DEF Climbs
<1>3. Exprs \subseteq T
  <2> HIDE DEF T
  <2> QED BY <1>2, HeightInduction
<1> QED
  BY <1>3

\* A scope whose variables in the table have their values in the cells.
Kept(table, w, c) == [x \in Names |-> IF x \in ToSet(table) THEN Num(c[jit_var_index(table, x)]) ELSE w[x]]

\* It is one.
LEMMA KeptIsScope ==
  ASSUME NEW table, Usable(table), NEW m \in Machines(Len(table)), NEW w \in [Names -> Values]
  PROVE  Kept(table, w, m.cells) \in [Names -> Values]
<1>1. m.cells \in [1 .. Len(table) -> Int]
  BY DEF Machines
<1>2. ASSUME NEW x \in Names PROVE Num(m.cells[jit_var_index(table, x)]) \in Values
  BY <1>1, IndexInRange, ValuesAre
<1> QED
  BY <1>2 DEF Kept

\* An expression over the table's names has the value there that the cells give it.
LEMMA KeptValue ==
  ASSUME NEW table, Usable(table), NEW m \in Machines(Len(table)), NEW w \in [Names -> Values],
         NEW e \in Exprs, NEW r \in 0 .. LastRegister, compile_expr(table, e, r) # {},
         ToSet(Mentions(e)) \subseteq ToSet(table)
  PROVE  js_eval(e, View(table, m.cells)) = js_eval(e, Kept(table, w, m.cells))
<1>1. View(table, m.cells) \in [Names -> Values] /\ Kept(table, w, m.cells) \in [Names -> Values]
  BY KeptIsScope, ViewIsScope
<1>2. Mentions(e) \in Seq(Names)
  BY MentionsAre
<1>3. ToSet(Mentions(e)) \subseteq Names
  BY <1>2 DEF ToSet
<1>4. ASSUME NEW x \in ToSet(Mentions(e)) PROVE View(table, m.cells)[x] = Kept(table, w, m.cells)[x]
  <2>1. x \in Names /\ x \in ToSet(table)
    BY <1>3
  <2> QED BY <2>1 DEF View, Kept
<1> QED
  BY <1>1, <1>4, ValueDepends

\* The code of a statement stores the expression's value, and nothing else.
LEMMA AssignStores ==
  ASSUME NEW table, Usable(table), NEW s \in Statements, NEW c \in compile_assign(table, s),
         NEW m \in Machines(Len(table))
  PROVE  /\ Run(c, m) \in Machines(Len(table)) /\ compile_expr(table, s.expr, 0) # {}
         /\ \E v \in Int :
              /\ js_eval(s.expr, View(table, m.cells)) = Num(v)
              /\ Run(c, m).cells = [m.cells EXCEPT ![jit_var_index(table, s.name)] = v]
<1> DEFINE n == Len(table)
           k == jit_var_index(table, s.name)
           i == Instruction("store", k, 0)
           x == <<i>>
           D == {x}
           C == compile_expr(table, s.expr, 0)
<1>0. s.expr \in Exprs /\ s.name \in Names /\ 0 \in 0 .. LastRegister /\ 0 \in 0 .. SCRATCH /\ k \in 1 .. n
  BY Registers, IndexInRange DEF Statements
<1>1. c \in Followed(C, D)
  BY DEF compile_assign
<1>2. PICK d \in C : c = d \o x
  <2> HIDE DEF C, D
  <2>1. PICK d \in C, y \in D : c = d \o y
    BY <1>1, FollowedIs
  <2> QED BY <2>1 DEF D
<1> DEFINE m1 == Run(d, m)
<1>3. Computes(table, s.expr, 0, d, m)
  BY <1>0, ExpressionComputes DEF ComputesAlways
<1>4. m1 \in Machines(n) /\ m1.cells = m.cells /\ js_eval(s.expr, View(table, m.cells)) = Num(m1.xmm[0])
  BY <1>3 DEF Computes, Leaves
<1>5. Run(c, m) = Step(m1, i)
  <2>1. d \in Seq(Legal(n) \cup {i})
    <3>1. d \in Seq(Legal(n))
      BY <1>0, CodeIs
    <3> HIDE DEF i
    <3> QED BY <3>1
  <2>2. x \in Seq(Legal(n) \cup {i})
    <3> HIDE DEF i
    <3> QED OBVIOUS
  <2> DEFINE S == Legal(n) \cup {i}
  <2> HIDE DEF S, x
  <2>3. Run(d \o x, m) = Run(x, m1)
    BY <2>1, <2>2, RunConcat DEF S
  <2>4. Run(x, m1) = Step(m1, i)
    BY RunOne DEF x
  <2> QED BY <1>2, <2>3, <2>4
<1> HIDE DEF m1
<1>6. Step(m1, i) = [m1 EXCEPT !.cells[k] = m1.xmm[0]]
  BY DEF Step, Instruction
<1>7. m1.xmm \in [0 .. SCRATCH -> Int] /\ m1.cells \in [1 .. n -> Int] /\ m1 = [xmm |-> m1.xmm, cells |-> m1.cells]
  BY <1>4 DEF Machines
<1>8. m1.xmm[0] \in Int
  BY <1>0, <1>7
<1> HIDE DEF k
<1>9. [m1 EXCEPT !.cells[k] = m1.xmm[0]] \in Machines(n)
      /\ [m1 EXCEPT !.cells[k] = m1.xmm[0]].cells = [m1.cells EXCEPT ![k] = m1.xmm[0]]
  BY <1>0, <1>7, <1>8 DEF Machines
<1> QED
  BY <1>4, <1>5, <1>6, <1>8, <1>9 DEF k

\* So the scope that the cells stand for changes as the statement says.
LEMMA AssignKeeps ==
  ASSUME NEW table, Usable(table), NEW s \in Statements, NEW c \in compile_assign(table, s),
         NEW m \in Machines(Len(table)), NEW w \in [Names -> Values],
         s.name \in ToSet(table), ToSet(Mentions(s.expr)) \subseteq ToSet(table)
  PROVE  Kept(table, w, Run(c, m).cells) =
           [Kept(table, w, m.cells) EXCEPT ![s.name] = js_eval(s.expr, Kept(table, w, m.cells))]
<1> DEFINE k == jit_var_index(table, s.name)
           q == Run(c, m)
<1>0. s.expr \in Exprs /\ s.name \in Names /\ 0 \in 0 .. LastRegister
  BY Registers DEF Statements
<1>1. PICK v \in Int : js_eval(s.expr, View(table, m.cells)) = Num(v) /\ q.cells = [m.cells EXCEPT ![k] = v]
  BY AssignStores
<1>2. js_eval(s.expr, Kept(table, w, m.cells)) = Num(v)
  <2>1. compile_expr(table, s.expr, 0) # {}
    BY AssignStores
  <2> QED BY <1>0, <1>1, <2>1, KeptValue
<1>3. m.cells \in [1 .. Len(table) -> Int]
  BY DEF Machines
<1>4. ASSUME NEW x \in Names, x \in ToSet(table), x # s.name PROVE q.cells[jit_var_index(table, x)] = m.cells[jit_var_index(table, x)]
  <2>1. jit_var_index(table, x) \in 1 .. Len(table) /\ table[jit_var_index(table, x)] = x /\ table[k] = s.name
    BY <1>4, IndexInRange
  <2>2. jit_var_index(table, x) # k
    BY <1>4, <2>1
  <2> QED BY <1>1, <1>3, <2>1, <2>2
<1>5. q.cells[k] = v
  <2>1. k \in 1 .. Len(table)
    BY IndexInRange
  <2> QED BY <1>1, <1>3, <2>1
<1> DEFINE A == Kept(table, w, q.cells)
           B == [Kept(table, w, m.cells) EXCEPT ![s.name] = Num(v)]
<1>6. ASSUME NEW x \in Names PROVE A[x] = B[x]
  <2>1. CASE x = s.name
    <3>1. A[x] = Num(q.cells[k])
      BY <1>0, <2>1 DEF Kept
    <3>2. B[x] = Num(v)
      BY <1>0, <2>1 DEF Kept
    <3> QED BY <1>5, <3>1, <3>2
  <2>2. CASE x # s.name
    <3>1. B[x] = Kept(table, w, m.cells)[x]
      BY <2>2 DEF Kept
    <3>2. CASE x \in ToSet(table)
      BY <1>4, <2>2, <3>1, <3>2 DEF Kept
    <3>3. CASE x \notin ToSet(table)
      BY <3>1, <3>3 DEF Kept
    <3> QED BY <3>2, <3>3
  <2> QED BY <2>1, <2>2
<1>7. A = [x \in Names |-> A[x]] /\ B = [x \in Names |-> B[x]]
  BY DEF Kept
<1>8. A = B
  <2> HIDE DEF A, B
  <2> QED BY <1>6, <1>7
<1> QED
  BY <1>2, <1>8

\* Its names are in the table.
Covers(table, body) ==
  \A k \in 1 .. Len(body) : body[k].name \in ToSet(table) /\ ToSet(Mentions(body[k].expr)) \subseteq ToSet(table)

\* The code of a block leaves a machine whose cells stand for what Execute gives.
LEMMA BodyKeeps ==
  ASSUME NEW table, Usable(table), NEW body \in Seq(Statements), NEW b \in BodyCode(table, body),
         NEW m \in Machines(Len(table)), NEW w \in [Names -> Values]
  PROVE  /\ Run(b, m) \in Machines(Len(table))
         /\ Covers(table, body) => Kept(table, w, Run(b, m).cells) = Execute(body, Kept(table, w, m.cells))
<1> DEFINE n == Len(body)
           M == Machines(Len(table))
           w0 == Kept(table, w, m.cells)
<1>0. n \in Nat /\ w0 \in [Names -> Values]
  BY KeptIsScope
<1>1. PICK f : BodyChain(table, body, f)
  BY BodyCodeIs
<1>2. PICK g : ScopeChain(body, w0, g)
  <2> HIDE DEF w0
  <2> QED BY <1>0, ExecuteIs
<1> DEFINE P(c, k) == Run(c, m) \in M /\ (Covers(table, body) => Kept(table, w, Run(c, m).cells) = g[k])
           T == {k \in Nat : k <= n => \A c \in f[k] : P(c, k)}
<1>3. 0 \in T
  <2>1. f[0] = {<< >>} /\ g[0] = w0
    BY <1>1, <1>2 DEF BodyChain, ScopeChain
  <2>2. Run(<< >>, m) = m
    BY RunOne
  <2>3. P(<< >>, 0)
    BY <2>1, <2>2
  <2> HIDE DEF P
  <2> QED BY <2>1, <2>3
<1>4. ASSUME NEW k \in T PROVE k + 1 \in T
  <2> SUFFICES ASSUME k + 1 <= n, NEW c \in f[k + 1] PROVE P(c, k + 1)
    OBVIOUS
  <2> DEFINE s == body[k + 1]
             A == compile_assign(table, s)
             L == Legal(Len(table))
  <2>1. k + 1 \in 1 .. n /\ (k + 1) - 1 = k /\ k <= n /\ k \in 0 .. n
    BY <1>0
  <2>2. s \in Statements
    BY <2>1
  <2>3. f[k + 1] = Followed(f[k], A) /\ f[k] \in SUBSET Seq(L)
    <3>1. f[k + 1] = Followed(f[(k + 1) - 1], A)
      BY <1>1, <2>1 DEF BodyChain
    <3>2. f[k] \in SUBSET Seq(L)
      BY <1>1, <2>1 DEF BodyChain
    <3> QED BY <2>1, <3>1, <3>2
  <2>4. A \in SUBSET Seq(L)
    BY <2>2, AssignLegal
  <2>5. PICK d \in f[k], a \in A : c = d \o a
    <3> DEFINE K == f[k]
    <3>1. c \in Followed(K, A)
      BY <2>3
    <3> HIDE DEF A, K
    <3>2. \E d \in K, a \in A : c = d \o a
      BY <3>1, FollowedIs
    <3> QED BY <3>2 DEF K
  <2> DEFINE m1 == Run(d, m)
  <2>6. Run(c, m) = Run(a, m1)
    <3>1. d \in Seq(L) /\ a \in Seq(L)
      BY <2>3, <2>4
    <3> HIDE DEF L, A
    <3>2. Run(d \o a, m) = Run(a, m1)
      BY <3>1, RunConcat
    <3> QED BY <2>5, <3>2
  <2>7. P(d, k)
    BY <2>1
  <2>8. m1 \in M
    BY <2>7
  <2> HIDE DEF m1
  <2>9. Run(a, m1) \in M
    BY <2>2, <2>8, AssignStores
  <2>10. ASSUME Covers(table, body) PROVE Kept(table, w, Run(a, m1).cells) = g[k + 1]
    <3>1. Kept(table, w, m1.cells) = g[k]
      BY <2>7, <2>10 DEF m1
    <3>2. s.name \in ToSet(table) /\ ToSet(Mentions(s.expr)) \subseteq ToSet(table)
      BY <2>1, <2>10 DEF Covers
    <3>3. Kept(table, w, Run(a, m1).cells) =
            [Kept(table, w, m1.cells) EXCEPT ![s.name] = js_eval(s.expr, Kept(table, w, m1.cells))]
      BY <2>2, <2>8, <3>2, AssignKeeps
    <3>4. g[k + 1] = [g[k] EXCEPT ![s.name] = js_eval(s.expr, g[k])]
      <4>1. g[k + 1] = [g[(k + 1) - 1] EXCEPT ![s.name] = js_eval(s.expr, g[(k + 1) - 1])]
        BY <1>2, <2>1 DEF ScopeChain
      <4> QED BY <2>1, <4>1
    <3> QED BY <3>1, <3>3, <3>4
  <2> HIDE DEF A, s
  <2> QED BY <2>6, <2>9, <2>10
<1>5. T = Nat
  <2>1. T \in SUBSET Nat
    OBVIOUS
  <2> HIDE DEF T
  <2> QED BY <1>3, <1>4, <2>1, Induction
<1>6. \A c \in f[n] : P(c, n)
  <2>1. n \in T /\ n <= n
    <3> HIDE DEF T
    <3> QED BY <1>0, <1>5
  <2> HIDE DEF P
  <2> QED BY <2>1
<1>7. b \in f[n] /\ Execute(body, w0) = g[n]
  BY <1>1, <1>2 DEF BodyChain, ScopeChain
<1> HIDE DEF n
<1> QED
  BY <1>6, <1>7

\* The two sides of the condition are in the registers that the jump compares.
LEMMA CondTests ==
  ASSUME NEW table, Usable(table), NEW e \in Exprs, e.op \in Comparison, NEW c \in CondCode(table, e),
         NEW m \in Machines(Len(table)), NEW w \in [Names -> Values]
  PROVE  /\ Run(c, m) \in Machines(Len(table)) /\ Run(c, m).cells = m.cells /\ c \in Seq(Legal(Len(table)))
         /\ ToSet(Mentions(e)) \subseteq ToSet(table) =>
              (Stays(e.op, Run(c, m).xmm[0], Run(c, m).xmm[1]) <=> Truthy(js_eval(e, Kept(table, w, m.cells))))
<1> DEFINE n == Len(table)
           L == Legal(n)
           C == compile_expr(table, e.left, 0)
           D == compile_expr(table, e.right, 1)
<1>0. e.left \in Exprs /\ e.right \in Exprs /\ 0 \in 0 .. LastRegister /\ 1 \in 0 .. LastRegister
      /\ 0 \in 0 .. SCRATCH /\ 1 \in 0 .. SCRATCH /\ 0 \in 0 .. 1 - 1
  BY Shapes, Registers
<1>1. PICK l \in C, d \in D : c = l \o d
  <2>1. c \in Followed(C, D)
    BY DEF CondCode
  <2> HIDE DEF C, D
  <2>2. \E l \in C, d \in D : c = l \o d
    BY ONLY <2>1, SMT DEF Followed
  <2> QED BY <2>2
<1>2. l \in Seq(L) /\ d \in Seq(L) /\ c \in Seq(L)
  <2>1. l \in Seq(L) /\ d \in Seq(L)
    BY <1>0, CodeIs
  <2> HIDE DEF L
  <2> QED BY <1>1, <2>1
<1> DEFINE m1 == Run(l, m)
           m2 == Run(d, m1)
           a == m1.xmm[0]
           b == m2.xmm[1]
<1>3. Run(c, m) = m2
  <2> HIDE DEF L
  <2>1. Run(l \o d, m) = m2
    BY <1>2, RunConcat
  <2> QED BY <1>1, <2>1
<1>4. Leaves(n, m, m1, 0, a) /\ js_eval(e.left, View(table, m.cells)) = Num(a)
  BY <1>0, ExpressionComputes DEF ComputesAlways, Computes
<1> HIDE DEF m1
<1>5. m1 \in Machines(n) /\ m1.cells = m.cells
  BY <1>4 DEF Leaves
<1>6. Leaves(n, m1, m2, 1, b) /\ js_eval(e.right, View(table, m1.cells)) = Num(b)
  BY <1>0, <1>5, ExpressionComputes DEF ComputesAlways, Computes
<1> HIDE DEF m2
<1>7. m2 \in Machines(n) /\ m2.cells = m.cells /\ m2.xmm[0] = a
  BY <1>0, <1>5, <1>6 DEF Leaves
<1>8. a \in Int /\ b \in Int
  <2>1. m1.xmm \in [0 .. SCRATCH -> Int] /\ m2.xmm \in [0 .. SCRATCH -> Int]
    BY <1>5, <1>7 DEF Machines
  <2> QED BY <1>0, <2>1
<1>9. ASSUME ToSet(Mentions(e)) \subseteq ToSet(table)
      PROVE  Stays(e.op, m2.xmm[0], m2.xmm[1]) <=> Truthy(js_eval(e, Kept(table, w, m.cells)))
  <2> DEFINE v == Kept(table, w, m.cells)
  <2>1. Mentions(e) = Mentions(e.left) \o Mentions(e.right)
        /\ Mentions(e.left) \in Seq(Names) /\ Mentions(e.right) \in Seq(Names)
    BY <1>0, MentionsAre
  <2>2. ToSet(Mentions(e.left)) \subseteq ToSet(table) /\ ToSet(Mentions(e.right)) \subseteq ToSet(table)
    <3>1. ToSet(Mentions(e)) = ToSet(Mentions(e.left)) \cup ToSet(Mentions(e.right))
      BY <2>1, ToSetConcat
    <3> QED BY <1>9, <3>1
  <2>3. compile_expr(table, e.left, 0) # {} /\ compile_expr(table, e.right, 1) # {}
    OBVIOUS
  <2>4. js_eval(e.left, v) = Num(a)
    BY <1>0, <1>4, <2>2, <2>3, KeptValue
  <2>5. js_eval(e.right, v) = Num(b)
    BY <1>0, <1>5, <1>6, <2>2, <2>3, KeptValue
  <2>6. v \in [Names -> Values]
    BY KeptIsScope
  <2> HIDE DEF v
  <2>7. js_eval(e, v) = Apply(e.op, a, b)
    <3>1. js_eval(e, v) = Apply(e.op, AsNum(js_eval(e.left, v)), AsNum(js_eval(e.right, v)))
      BY <2>6, ValueIs
    <3>2. AsNum(Num(a)) = a /\ AsNum(Num(b)) = b
      BY <1>8, ValuesAre
    <3> QED BY <2>4, <2>5, <3>1, <3>2
  <2>8. Stays(e.op, a, b) <=> Truthy(Apply(e.op, a, b))
    <3> HIDE DEF a, b
    <3>1. CASE e.op = "<"
      BY <1>8, <3>1 DEF Stays, Apply, Truthy, Bool
    <3>2. CASE e.op = ">"
      BY <1>8, <3>2 DEF Stays, Apply, Truthy, Bool
    <3>3. CASE e.op = "<="
      BY <1>8, <3>3 DEF Stays, Apply, Truthy, Bool
    <3>4. CASE e.op = ">="
      BY <1>8, <3>4 DEF Stays, Apply, Truthy, Bool
    <3> QED BY <3>1, <3>2, <3>3, <3>4 DEF Comparison
  <2> QED BY <1>7, <2>7, <2>8 DEF v
<1> QED
  BY <1>2, <1>3, <1>7, <1>9

\* The code of a block is legal.
LEMMA BodyLegal ==
  ASSUME NEW table, Usable(table), NEW body \in Seq(Statements), NEW b \in BodyCode(table, body)
  PROVE  b \in Seq(Legal(Len(table)))
<1>1. PICK f : BodyChain(table, body, f)
  BY BodyCodeIs
<1>2. Len(body) \in 0 .. Len(body)
  OBVIOUS
<1>3. f[Len(body)] \in SUBSET Seq(Legal(Len(table))) /\ BodyCode(table, body) = f[Len(body)]
  BY <1>1, <1>2 DEF BodyChain
<1> QED
  BY <1>3

\* What is compiled has variables, and its code is of the condition and of the body.
LEMMA CompiledLoop ==
  ASSUME NEW l \in LoopsOf, jit_can_compile(l)
  PROVE  /\ Usable(VarNames(l)) /\ l.body \in Seq(Statements) /\ l.cond \in Exprs /\ l.cond.op \in Comparison
         /\ \A c \in LoopCode(l) : c.cond \in CondCode(VarNames(l), l.cond) /\ c.body \in BodyCode(VarNames(l), l.body)
<1>1. l.cond \in Exprs /\ l.body \in Seq(Statements) /\ Len(l.body) \in Nat
  BY LoopShape DEF Statements
<1>2. l.cond.op \in Comparison /\ l.body # << >>
  BY DEF jit_can_compile
<1>3. 1 \in 1 .. Len(l.body)
  BY <1>1, <1>2
<1>4. l.body[1].name \in ToSet(LoopMentions(l)) /\ LoopMentions(l) \in Seq(Names)
  BY <1>3, LoopMentionsAre
<1>5. LoopMentions(l) # << >>
  BY <1>4 DEF ToSet
<1>6. Usable(VarNames(l))
  BY <1>5, VarNamesAre DEF Usable, Table
<1>7. ASSUME NEW c \in LoopCode(l)
      PROVE  c.cond \in CondCode(VarNames(l), l.cond) /\ c.body \in BodyCode(VarNames(l), l.body)
  <2>1. PICK x \in CondCode(VarNames(l), l.cond), y \in BodyCode(VarNames(l), l.body) : c = [cond |-> x, body |-> y]
    BY DEF LoopCode
  <2> QED BY <2>1
<1> QED
  BY <1>1, <1>2, <1>6, <1>7

-----------------------------------------------------------------------------
(* The inductive invariant and the theorems.                                *)

Machine == [xmm |-> xmm, cells |-> cells]

\* The native code is that of the loop, on a machine with a cell for each of its names.
Native ==
  /\ jit_can_compile(loop) /\ names = VarNames(loop) /\ code \in LoopCode(loop)
  /\ Machine \in Machines(Len(names))

Inv ==
  /\ loop \in LoopsOf /\ turns \in 0 .. MaxTurns /\ env \in [Names -> Values]
  /\ pc \in {"before", "interpreting", "native", "undefined", "after"}
  /\ names = << >> \/ names = VarNames(loop)
  /\ pc = "native" => Native

\* It holds at first.
LEMMA InitInv == Init => Inv
  BY LoopAssumption DEF Init, Inv, LoopsOf

\* The machine behind the condition's code and behind a turn of the body's.
LEMMA NativeMachine ==
  ASSUME Inv, pc = "native"
  PROVE  /\ Usable(names) /\ Tested \in Machines(Len(names)) /\ Tested.cells = cells
         /\ Run(code.body, Tested) \in Machines(Len(names)) /\ Machine \in Machines(Len(names))
         /\ code.cond \in Seq(Legal(Len(names))) /\ code.body \in Seq(Legal(Len(names)))
<1>1. Native /\ loop \in LoopsOf /\ env \in [Names -> Values]
  BY DEF Inv
<1>2. /\ Usable(names) /\ loop.body \in Seq(Statements) /\ loop.cond \in Exprs /\ loop.cond.op \in Comparison
      /\ code.cond \in CondCode(names, loop.cond) /\ code.body \in BodyCode(names, loop.body)
  BY <1>1, CompiledLoop DEF Native
<1>3. Machine \in Machines(Len(names)) /\ Machine.cells = cells
  BY <1>1 DEF Native, Machine
<1>4. Tested = Run(code.cond, Machine)
  BY DEF Tested, Machine
<1>5. Tested \in Machines(Len(names)) /\ Tested.cells = cells /\ code.cond \in Seq(Legal(Len(names)))
  BY <1>1, <1>2, <1>3, <1>4, CondTests
<1>6. Run(code.body, Tested) \in Machines(Len(names))
  BY <1>1, <1>2, <1>5, BodyKeeps
<1>7. code.body \in Seq(Legal(Len(names)))
  BY <1>2, BodyLegal
<1> QED
  BY <1>2, <1>3, <1>5, <1>6, <1>7

\* What is written back is the scope that the cells stand for.
LEMMA WrittenIsKept ==
  ASSUME Inv, pc = "native"
  PROVE  Written(cells) = Kept(names, env, cells) /\ Written(cells) \in [Names -> Values]
<1>1. env \in [Names -> Values] /\ DOMAIN env = Names
  BY DEF Inv
<1>2. Written(cells) = Kept(names, env, cells)
  BY <1>1 DEF Written, Kept
<1>3. Usable(names) /\ Machine \in Machines(Len(names)) /\ Machine.cells = cells
  BY NativeMachine DEF Machine
<1>4. Kept(names, env, Machine.cells) \in [Names -> Values]
  BY <1>1, <1>3, KeptIsScope
<1> QED
  BY <1>2, <1>3, <1>4

\* It is kept by the compilation.
LEMMA CompileKeeps == Inv /\ Compile => Inv'
<1> SUFFICES ASSUME Inv, Compile PROVE Inv'
  OBVIOUS
<1>0. loop \in LoopsOf /\ turns \in 0 .. MaxTurns /\ env \in [Names -> Values] /\ names \in {<< >>, VarNames(loop)}
      /\ jit_can_compile(loop) /\ loop' = loop /\ env' = env /\ turns' = turns
  BY DEF Inv, Compile
<1>1. CASE pc' = "after" /\ UNCHANGED <<names, code, xmm, cells>>
  BY <1>0, <1>1 DEF Inv
<1>2. ASSUME NEW c \in LoopCode(loop), names' = VarNames(loop), code' = c,
             cells' = [k \in 1 .. Len(names') |-> AsNum(env[names'[k]])],
             \E junk \in Junk : xmm' = [r \in 0 .. SCRATCH |-> junk],
             pc' \in {"native", "undefined"}
      PROVE  Inv'
  <2> DEFINE t == VarNames(loop)
  <2>1. t \in Seq(Names)
    BY <1>0, CompiledLoop DEF Usable
  <2>2. cells' \in [1 .. Len(t) -> Int]
    <3>1. ASSUME NEW k \in 1 .. Len(t) PROVE AsNum(env[t[k]]) \in Int
      <4>1. t[k] \in Names
        <5> HIDE DEF t
        <5> QED BY <2>1
      <4>2. env[t[k]] \in Values
        BY <1>0, <4>1
      <4> QED BY <4>2, ValuesAre
    <3> QED BY <1>2, <3>1
  <2>3. xmm' \in [0 .. SCRATCH -> Int]
    BY <1>2, JitAssumption
  <2>4. Machine' \in Machines(Len(t))
    BY <2>2, <2>3 DEF Machine, Machines
  <2>5. Native'
    BY <1>0, <1>2, <2>4 DEF Native
  <2> QED BY <1>0, <1>2, <2>5 DEF Inv
<1>3. \/ UNCHANGED <<names, code, xmm, cells>> /\ pc' = "after"
      \/ \E c \in LoopCode(loop) :
           /\ names' = VarNames(loop) /\ code' = c
           /\ cells' = [k \in 1 .. Len(names') |-> AsNum(env[names'[k]])]
           /\ \E junk \in Junk : xmm' = [r \in 0 .. SCRATCH |-> junk]
           /\ pc' \in {"native", "undefined"}
  BY DEF Compile
<1> QED
  BY <1>1, <1>2, <1>3

\* And by a turn of the native code, and by its end.
LEMMA NativeKeeps == Inv /\ (NativeTurn \/ NativeLeave) => Inv'
<1> SUFFICES ASSUME Inv, NativeTurn \/ NativeLeave PROVE Inv'
  OBVIOUS
<1>0. pc = "native" /\ loop' = loop /\ names' = names /\ code' = code /\ Native
  BY DEF Inv, NativeTurn, NativeLeave
<1>1. CASE NativeTurn
  <2> DEFINE done == Run(code.body, Tested)
  <2>1. done \in Machines(Len(names))
    BY <1>0, NativeMachine
  <2>2. Machine' = [xmm |-> done.xmm, cells |-> done.cells]
    BY <1>1 DEF NativeTurn, Machine
  <2> HIDE DEF done
  <2>3. Machine' \in Machines(Len(names))
    BY <2>1, <2>2 DEF Machines
  <2>4. Native'
    BY <1>0, <2>3 DEF Native
  <2>5. turns' \in 0 .. MaxTurns
    BY <1>1, LoopAssumption DEF Inv, NativeTurn
  <2> QED BY <1>0, <1>1, <2>4, <2>5 DEF Inv, NativeTurn
<1>2. CASE NativeLeave
  <2>1. Written(cells) \in [Names -> Values]
    BY <1>0, WrittenIsKept
  <2> QED BY <1>0, <1>2, <2>1 DEF Inv, NativeLeave
<1> QED
  BY <1>1, <1>2

\* And by the interpreter.
LEMMA InterpreterKeeps == Inv /\ (Interpret \/ InterpretTurn \/ InterpretLeave) => Inv'
<1> SUFFICES ASSUME Inv, Interpret \/ InterpretTurn \/ InterpretLeave PROVE Inv'
  OBVIOUS
<1>1. CASE Interpret
  BY <1>1 DEF Inv, Interpret
<1>2. CASE InterpretTurn
  <2>1. loop \in LoopsOf /\ env \in [Names -> Values]
    BY DEF Inv
  <2>2. loop.body \in Seq(Statements) /\ Len(loop.body) \in 0 .. Len(loop.body)
    <3>1. loop.body \in Seq([name : Names, expr : Exprs]) /\ Len(loop.body) \in Nat
      BY <2>1, LoopShape
    <3> QED BY <3>1 DEF Statements
  <2>3. PICK g : ScopeChain(loop.body, env, g)
    BY <2>1, <2>2, ExecuteIs
  <2>4. Execute(loop.body, env) \in [Names -> Values]
    BY <2>2, <2>3 DEF ScopeChain
  <2>5. turns' \in 0 .. MaxTurns
    BY <1>2, LoopAssumption DEF Inv, InterpretTurn
  <2> QED BY <1>2, <2>4, <2>5 DEF Inv, InterpretTurn
<1>3. CASE InterpretLeave
  BY <1>3 DEF Inv, InterpretLeave
<1> QED
  BY <1>1, <1>2, <1>3

\* So it is inductive.
LEMMA NextKeeps == Inv /\ [Next]_vars => Inv'
<1> SUFFICES ASSUME Inv, [Next]_vars PROVE Inv'
  OBVIOUS
<1>1. CASE UNCHANGED vars
  BY <1>1 DEF vars, Inv, Native, Machine
<1>2. CASE Next
  BY <1>2, CompileKeeps, NativeKeeps, InterpreterKeeps DEF Next
<1> QED
  BY <1>1, <1>2

\* What it says of the program.
LEMMA InvTypes == Inv => TypeOK
<1> SUFFICES ASSUME Inv PROVE TypeOK
  OBVIOUS
<1>1. Len(names) <= Slots /\ \A j, k \in 1 .. Len(names) : names[j] = names[k] => j = k
  <2>1. CASE names = << >>
    BY <2>1, JitAssumption
  <2>2. CASE names = VarNames(loop)
    <3>1. Table(names)
      BY <2>2, VarNamesAre DEF Inv
    <3> QED BY <3>1 DEF Table, Distinct
  <2> QED BY <2>1, <2>2 DEF Inv
<1>2. ASSUME pc = "native"
      PROVE  /\ Len(names) > 0 /\ cells \in [1 .. Len(names) -> Int] /\ xmm \in [0 .. SCRATCH -> Int]
             /\ \A i \in ToSet(code.cond) \cup ToSet(code.body) :
                  IF i.op = "store" THEN i.dst \in 1 .. Len(names) /\ i.src \in 0 .. SCRATCH
                  ELSE i.dst \in 0 .. SCRATCH /\ (i.op = "load" => i.src \in 1 .. Len(names))
  <2> DEFINE n == Len(names)
             L == Legal(n)
  <2>1. Usable(names) /\ Machine \in Machines(n) /\ code.cond \in Seq(L) /\ code.body \in Seq(L)
    BY <1>2, NativeMachine
  <2>2. cells \in [1 .. n -> Int] /\ xmm \in [0 .. SCRATCH -> Int]
    BY <2>1 DEF Machine, Machines
  <2>3. ToSet(code.cond) \cup ToSet(code.body) \subseteq L
    <3> HIDE DEF L
    <3> QED BY <2>1 DEF ToSet
  <2>4. ASSUME NEW i \in L
        PROVE  IF i.op = "store" THEN i.dst \in 1 .. n /\ i.src \in 0 .. SCRATCH
               ELSE i.dst \in 0 .. SCRATCH /\ (i.op = "load" => i.src \in 1 .. n)
    <3> HIDE DEF n
    <3>1. CASE i.op = "const"
      BY <3>1 DEF Legal
    <3>2. CASE i.op = "load"
      BY <3>2 DEF Legal
    <3>3. CASE i.op = "store"
      BY <3>3 DEF Legal
    <3>4. CASE i.op \notin {"const", "load", "store"}
      BY <3>4 DEF Legal
    <3> QED BY <3>1, <3>2, <3>3, <3>4
  <2> QED BY <2>1, <2>2, <2>3, <2>4 DEF Usable
<1> QED
  BY <1>1, <1>2 DEF Inv, TypeOK

\* Each compiled variable has one cell of its own, and no instruction leaves the
\* registers or the cells (TypeOK): for every loop, however its code was made.
THEOREM TypeCorrect == Spec => []TypeOK
<1>1. Spec => []Inv
  BY InitInv, NextKeeps, PTL DEF Spec
<1> QED
  BY <1>1, InvTypes, PTL

-----------------------------------------------------------------------------
(* The refinement: the native loop follows the interpreter's.               *)

\* The scope that a script would see if the loop stopped here.
Scope == IF pc = "native" THEN Written(cells) ELSE env

\* The abstract loop has the same expressions and blocks.
LEMMA SameMeaning ==
  /\ \A e, w : While!js_eval(e, w) = js_eval(e, w)
  /\ \A body, w : While!Execute(body, w) = Execute(body, w)
  /\ \A v : While!Truthy(v) = Truthy(v)
  BY DEF While!js_eval, js_eval, While!Execute, Execute, While!Truthy, Truthy, While!Apply, Apply, While!Num, Num,
         While!Bool, Bool, While!AsNum, AsNum, While!Undef, Undef

\* A loop within the limits has all its names in the table, and no others.
LEMMA NamesWithin ==
  ASSUME NEW l \in LoopsOf, jit_can_compile(l), NEW w, Within(l, w)
  PROVE  /\ ToSet(Mentions(l.cond)) \subseteq ToSet(VarNames(l)) /\ Covers(VarNames(l), l.body)
         /\ \A x \in ToSet(VarNames(l)) : w[x][1] = "num"
<1>1. Cardinality(ToSet(LoopMentions(l))) <= Slots /\ \A x \in ToSet(LoopMentions(l)) : w[x][1] = "num"
  BY DEF Within
<1>2. ToSet(LoopMentions(l)) \subseteq ToSet(VarNames(l)) /\ ToSet(VarNames(l)) \subseteq ToSet(LoopMentions(l))
  BY <1>1, VarNamesAre
<1>3. /\ ToSet(Mentions(l.cond)) \subseteq ToSet(LoopMentions(l))
      /\ \A k \in 1 .. Len(l.body) : l.body[k].name \in ToSet(LoopMentions(l))
                                     /\ ToSet(Mentions(l.body[k].expr)) \subseteq ToSet(LoopMentions(l))
  BY LoopMentionsAre
<1>4. Covers(VarNames(l), l.body)
  BY <1>2, <1>3 DEF Covers
<1> QED
  BY <1>1, <1>2, <1>3, <1>4

\* In native code the jump stays in the loop when the interpreter would.
LEMMA NativeEnters ==
  ASSUME Inv, pc = "native", Within(loop, env)
  PROVE  Enters <=> Truthy(js_eval(loop.cond, Scope))
<1>1. Native /\ loop \in LoopsOf /\ env \in [Names -> Values]
  BY DEF Inv
<1>2. /\ Usable(names) /\ loop.cond \in Exprs /\ loop.cond.op \in Comparison
      /\ code.cond \in CondCode(names, loop.cond) /\ ToSet(Mentions(loop.cond)) \subseteq ToSet(names)
  BY <1>1, CompiledLoop, NamesWithin DEF Native
<1>3. Machine \in Machines(Len(names)) /\ Machine.cells = cells /\ Tested = Run(code.cond, Machine)
  BY <1>1 DEF Native, Machine, Tested
<1>4. Scope = Kept(names, env, cells)
  BY WrittenIsKept DEF Scope
<1>5. Stays(loop.cond.op, Run(code.cond, Machine).xmm[0], Run(code.cond, Machine).xmm[1])
      <=> Truthy(js_eval(loop.cond, Kept(names, env, Machine.cells)))
  BY <1>1, <1>2, <1>3, CondTests
<1> QED
  BY <1>3, <1>4, <1>5 DEF Enters

\* The compilation is no step of the loop.
LEMMA CompileStutters ==
  ASSUME Inv, Compile, Within(loop, env)
  PROVE  UNCHANGED While!vars
<1>1. loop \in LoopsOf /\ env \in [Names -> Values] /\ jit_can_compile(loop) /\ loop' = loop /\ env' = env
      /\ turns' = turns /\ pc = "before"
  BY DEF Inv, Compile
<1>2. PICK c \in LoopCode(loop) :
        /\ names' = VarNames(loop) /\ cells' = [k \in 1 .. Len(names') |-> AsNum(env[names'[k]])]
        /\ pc' = "native"
  BY <1>1 DEF Compile, Within
<1> DEFINE t == VarNames(loop)
<1>3. Usable(t) /\ \A x \in ToSet(t) : env[x][1] = "num"
  BY <1>1, CompiledLoop, NamesWithin
<1> HIDE DEF t
<1>4. ASSUME NEW x \in ToSet(t) PROVE Num(cells'[jit_var_index(t, x)]) = env[x]
  <2> DEFINE k == jit_var_index(t, x)
  <2>1. k \in 1 .. Len(t) /\ t[k] = x
    BY <1>3, IndexInRange
  <2>2. x \in Names
    <3>1. t \in Seq(Names)
      BY <1>3 DEF Usable
    <3> HIDE DEF k
    <3> QED BY <2>1, <3>1
  <2> HIDE DEF k
  <2>3. cells'[k] = AsNum(env[x])
    BY <1>2, <2>1 DEF t
  <2>4. env[x] \in Values /\ env[x][1] = "num"
    BY <1>1, <1>3, <2>2
  <2>5. env[x] = <<env[x][1], env[x][2]>>
    BY <2>4, ValuesAre
  <2>6. Num(AsNum(env[x])) = env[x]
    BY <2>4, <2>5 DEF Num, AsNum
  <2> QED BY <2>3, <2>6 DEF k
<1>5. Scope' = env
  <2>1. Scope' = [x \in Names |-> IF x \in ToSet(t) THEN Num(cells'[jit_var_index(t, x)]) ELSE env[x]]
    BY <1>1, <1>2 DEF Scope, Written, t
  <2>2. \A x \in Names : (IF x \in ToSet(t) THEN Num(cells'[jit_var_index(t, x)]) ELSE env[x]) = env[x]
    BY <1>4
  <2>3. env = [x \in Names |-> env[x]]
    BY <1>1
  <2> QED BY <2>1, <2>2, <2>3
<1>6. Scope = env
  BY <1>1 DEF Scope
<1> QED
  BY <1>1, <1>2, <1>5, <1>6 DEF While!vars, Scope

\* A turn of the native code is a turn of the loop.
LEMMA NativeTurns ==
  ASSUME Inv, NativeTurn, Within(loop, env)
  PROVE  While!Turn
<1>1. Native /\ loop \in LoopsOf /\ env \in [Names -> Values] /\ pc = "native" /\ pc' = "native"
      /\ loop' = loop /\ env' = env /\ names' = names /\ turns' = turns + 1 /\ turns < MaxTurns
  BY DEF Inv, NativeTurn
<1>2. /\ Usable(names) /\ loop.body \in Seq(Statements) /\ code.body \in BodyCode(names, loop.body)
      /\ Covers(names, loop.body)
  BY <1>1, CompiledLoop, NamesWithin DEF Native
<1>3. Tested \in Machines(Len(names)) /\ Tested.cells = cells
  BY <1>1, NativeMachine
<1>4. Kept(names, env, Run(code.body, Tested).cells) = Execute(loop.body, Kept(names, env, Tested.cells))
  BY <1>1, <1>2, <1>3, BodyKeeps
<1>5. cells' = Run(code.body, Tested).cells
  BY DEF NativeTurn
<1>6. Scope = Kept(names, env, cells)
  BY <1>1, WrittenIsKept DEF Scope
<1>7. Scope' = Kept(names, env, cells')
  <2>1. DOMAIN env = Names
    BY <1>1
  <2>2. Scope' = [x \in DOMAIN env |-> IF x \in ToSet(names) THEN Num(cells'[jit_var_index(names, x)]) ELSE env[x]]
    BY <1>1 DEF Scope, Written
  <2> QED BY <2>1, <2>2 DEF Kept
<1>8. Scope' = Execute(loop.body, Scope)
  BY <1>3, <1>4, <1>5, <1>6, <1>7
<1>9. Truthy(js_eval(loop.cond, Scope))
  BY <1>1, NativeEnters DEF NativeTurn
<1> QED
  BY <1>1, <1>8, <1>9, SameMeaning DEF While!Turn, Scope

\* Where the native code is left, the loop is.
LEMMA NativeLeaves ==
  ASSUME Inv, NativeLeave, Within(loop, env)
  PROVE  While!Leave
<1>1. pc = "native" /\ pc' = "after" /\ loop' = loop /\ turns' = turns
  BY DEF NativeLeave
<1>2. Scope' = Scope
  BY <1>1 DEF NativeLeave, Scope
<1>3. ~ Truthy(js_eval(loop.cond, Scope))
  BY <1>1, NativeEnters DEF NativeLeave
<1> QED
  BY <1>1, <1>2, <1>3, SameMeaning DEF While!Leave, Scope

\* The interpreter's loop is the loop.
LEMMA InterpreterIs ==
  /\ Interpret => UNCHANGED While!vars
  /\ InterpretTurn => While!Turn
  /\ InterpretLeave => While!Leave
<1>1. ASSUME Interpret PROVE UNCHANGED While!vars
  BY <1>1 DEF Interpret, While!vars
<1>2. ASSUME InterpretTurn PROVE While!Turn
  BY <1>2, SameMeaning DEF InterpretTurn, While!Turn
<1>3. ASSUME InterpretLeave PROVE While!Leave
  BY <1>3, SameMeaning DEF InterpretLeave, While!Leave
<1> QED
  BY <1>1, <1>2, <1>3

\* Within the limits, every step is one of the loop or none.
LEMMA StepFollows == Inv /\ [Next]_vars => [Within(loop, env) => While!Next]_(While!vars)
<1> SUFFICES ASSUME Inv, [Next]_vars, Within(loop, env) PROVE While!Next \/ UNCHANGED While!vars
  OBVIOUS
<1>1. CASE UNCHANGED vars
  BY <1>1 DEF vars, While!vars, Written
<1>2. CASE Compile
  BY <1>2, CompileStutters
<1>3. CASE NativeTurn
  BY <1>3, NativeTurns DEF While!Next
<1>4. CASE NativeLeave
  BY <1>4, NativeLeaves DEF While!Next
<1>5. CASE Interpret \/ InterpretTurn \/ InterpretLeave
  BY <1>5, InterpreterIs DEF While!Next
<1> QED
  BY <1>1, <1>2, <1>3, <1>4, <1>5 DEF Next

\* The loop begins as it should.
LEMMA InitFollows == Init => While!Init
  BY DEF Init, While!Init

\* A compiled loop does what js_eval does with it, turn by turn, within the
\* compiler's limits (RefinesWhileLoop): the refinement, for every loop.
THEOREM Refinement == Spec => RefinesWhileLoop
<1>1. Spec => []Inv
  BY InitInv, NextKeeps, PTL DEF Spec
<1> QED
  BY <1>1, InitFollows, StepFollows, PTL DEF Spec, RefinesWhileLoop

-----------------------------------------------------------------------------
(* The least and the greatest number of a set, and parts of a sequence.     *)

\* Min is the least.
LEMMA MinIs ==
  ASSUME NEW T \in SUBSET Nat, T # {}
  PROVE  Min(T) \in T /\ \A m \in T : Min(T) <= m
<1>1. PICK n \in T : \A m \in T : n <= m
  BY LeastNumber
<1> QED
  BY <1>1 DEF Min

\* What is least is Min.
LEMMA MinOf ==
  ASSUME NEW T \in SUBSET Nat, NEW n \in T, \A m \in T : n <= m
  PROVE  Min(T) = n
<1>1. Min(T) \in T /\ Min(T) <= n
  BY MinIs
<1>2. n <= Min(T) /\ n \in Nat /\ Min(T) \in Nat
  BY <1>1
<1> QED
  BY <1>1, <1>2

\* Max is the greatest.
LEMMA MaxIs ==
  ASSUME NEW n \in Nat, NEW T \in SUBSET (0 .. n), T # {}
  PROVE  Max(T) \in T /\ \A m \in T : m <= Max(T)
<1> DEFINE U == {n - m : m \in T}
<1>1. U \in SUBSET Nat /\ U # {}
  <2>1. \A m \in T : m \in 0 .. n
    OBVIOUS
  <2>2. \A m \in T : n - m \in Nat
    BY <2>1
  <2> QED BY <2>2
<1>2. PICK u \in U : \A v \in U : u <= v
  <2> HIDE DEF U
  <2> QED BY <1>1, LeastNumber
<1>3. PICK x \in T : u = n - x
  OBVIOUS
<1>4. ASSUME NEW m \in T PROVE m <= x
  <2>1. n - m \in U /\ n - x <= n - m
    BY <1>2, <1>3
  <2> QED BY <2>1
<1>5. \A m \in T : x >= m
  BY <1>4
<1> QED
  BY <1>5 DEF Max

\* What is greatest is Max.
LEMMA MaxOf ==
  ASSUME NEW n \in Nat, NEW T \in SUBSET (0 .. n), NEW x \in T, \A m \in T : m <= x
  PROVE  Max(T) = x
<1>1. Max(T) \in T /\ x <= Max(T)
  BY MaxIs
<1>2. Max(T) <= x /\ x \in 0 .. n /\ Max(T) \in 0 .. n
  BY <1>1
<1> QED
  BY <1>1, <1>2

\* The characters of a part.
LEMMA PartIs ==
  ASSUME NEW C, NEW s \in Seq(C), NEW a \in 1 .. Len(s) + 1, NEW b \in a - 1 .. Len(s)
  PROVE  /\ SubSeq(s, a, b) \in Seq(C) /\ Len(SubSeq(s, a, b)) = b - a + 1
         /\ \A i \in 1 .. b - a + 1 : SubSeq(s, a, b)[i] = s[a + i - 1]
<1>1. a \in Int /\ b \in Int /\ \A i \in a .. b : s[i] \in C
  BY ElementOfSeq
<1>2. /\ SubSeq(s, a, b) \in Seq(C)
      /\ Len(SubSeq(s, a, b)) = IF a <= b THEN b - a + 1 ELSE 0
      /\ \A i \in 1 .. b - a + 1 : SubSeq(s, a, b)[i] = s[a + i - 1]
  BY <1>1, SubSeqProperties
<1> QED
  BY <1>2

\* The characters of a part as a set.
LEMMA PartSet ==
  ASSUME NEW C, NEW s \in Seq(C), NEW a \in 1 .. Len(s) + 1, NEW b \in a - 1 .. Len(s), NEW D
  PROVE  ToSet(SubSeq(s, a, b)) \subseteq D <=> \A j \in a .. b : s[j] \in D
<1> DEFINE t == SubSeq(s, a, b)
<1>1. t \in Seq(C) /\ Len(t) = b - a + 1 /\ \A i \in 1 .. b - a + 1 : t[i] = s[a + i - 1]
  BY PartIs
<1> HIDE DEF t
<1>2. DOMAIN t = 1 .. b - a + 1
  BY <1>1
<1>3. ASSUME \A j \in a .. b : s[j] \in D, NEW i \in DOMAIN t PROVE t[i] \in D
  <2>1. a + i - 1 \in a .. b /\ t[i] = s[a + i - 1]
    BY <1>1, <1>2
  <2> QED BY <1>3, <2>1
<1>4. ASSUME \A i \in DOMAIN t : t[i] \in D, NEW j \in a .. b PROVE s[j] \in D
  <2>1. j - a + 1 \in 1 .. b - a + 1 /\ a + (j - a + 1) - 1 = j
    OBVIOUS
  <2>2. t[j - a + 1] = s[j]
    BY <1>1, <2>1
  <2> QED BY <1>2, <1>4, <2>1, <2>2
<1>5. ToSet(t) \subseteq D <=> \A i \in DOMAIN t : t[i] \in D
  BY DEF ToSet
<1> QED
  BY <1>3, <1>4, <1>5 DEF t

-----------------------------------------------------------------------------
(* Places in the text.                                                      *)

\* A text is a sequence of characters without the end mark.
IsText(s) == s \in Seq(ToSet(s)) /\ NUL \notin ToSet(s)

\* Until is the first of the places, or the end.
LEMMA UntilIs ==
  ASSUME IsText(text), NEW places \in SUBSET (1 .. Len(text)), NEW k \in 1 .. Len(text) + 1
  PROVE  /\ Until(k, places) \in k .. Len(text) + 1
         /\ Until(k, places) <= Len(text) => Until(k, places) \in places
         /\ \A j \in k .. Until(k, places) - 1 : j \notin places
<1> DEFINE n == Len(text)
           T == {j \in places : j >= k} \cup {n + 1}
<1>1. n \in Nat
  BY DEF IsText
<1>2. T \in SUBSET Nat /\ T # {}
  <2>1. \A j \in places : j \in 1 .. n
    OBVIOUS
  <2>2. n + 1 \in Nat /\ \A j \in places : j \in Nat
    BY <1>1, <2>1
  <2> HIDE DEF n
  <2> QED BY <2>2
<1>3. Min(T) \in T /\ \A m \in T : Min(T) <= m
  <2> HIDE DEF T
  <2> QED BY <1>2, MinIs
<1>4. Until(k, places) = Min(T)
  BY DEF Until
<1>5. Min(T) \in k .. n + 1 /\ (Min(T) <= n => Min(T) \in places)
  <2>1. \A m \in T : m \in k .. n + 1 /\ (m <= n => m \in places)
    <3>1. \A j \in places : j \in 1 .. n
      OBVIOUS
    <3>2. k \in 1 .. n + 1
      OBVIOUS
    <3> HIDE DEF n
    <3> QED BY <1>1, <3>1, <3>2
  <2> HIDE DEF T
  <2> QED BY <1>3, <2>1
<1>6. ASSUME NEW j \in k .. Min(T) - 1, j \in places PROVE FALSE
  <2>1. j \in T
    BY <1>6
  <2> QED BY <1>3, <1>5, <1>6, <2>1
<1> HIDE DEF T
<1> QED
  BY <1>4, <1>5, <1>6

\* Char is the character of the text, or the end mark.
LEMMA CharIs ==
  ASSUME IsText(text), NEW k \in Nat, k > 0
  PROVE  IF k <= Len(text) THEN Char(k) = text[k] /\ Char(k) # NUL ELSE Char(k) = NUL
<1>1. CASE k <= Len(text)
  <2>1. Len(text) \in Nat /\ k \in DOMAIN text
    BY <1>1 DEF IsText
  <2>2. text[k] \in ToSet(text)
    BY <2>1 DEF ToSet
  <2> QED BY <1>1, <2>2 DEF Char, IsText
<1>2. CASE ~ (k <= Len(text))
  BY <1>2 DEF Char
<1> QED
  BY <1>1, <1>2

\* The next character that is none of these.
LEMMA UntilOther ==
  ASSUME IsText(text), NEW D, NEW k \in 1 .. Len(text) + 1
  PROVE  /\ Until(k, AllBut(D)) \in k .. Len(text) + 1
         /\ Until(k, AllBut(D)) <= Len(text) => text[Until(k, AllBut(D))] \notin D
         /\ \A j \in k .. Until(k, AllBut(D)) - 1 : text[j] \in D
<1> DEFINE P == AllBut(D)
           u == Until(k, P)
<1>1. P \in SUBSET (1 .. Len(text)) /\ \A j \in 1 .. Len(text) : j \in P <=> text[j] \notin D
  BY DEF AllBut
<1> HIDE DEF P
<1>2. u \in k .. Len(text) + 1 /\ (u <= Len(text) => u \in P) /\ \A j \in k .. u - 1 : j \notin P
  BY <1>1, UntilIs
<1>3. Len(text) \in Nat
  BY DEF IsText
<1> HIDE DEF u
<1>4. ASSUME NEW j \in k .. u - 1 PROVE text[j] \in D
  <2>1. j \in 1 .. Len(text)
    BY <1>2, <1>3
  <2> QED BY <1>1, <1>2, <2>1
<1> QED
  BY <1>1, <1>2, <1>3, <1>4 DEF u, P

-----------------------------------------------------------------------------
(* Strings: which characters a backslash takes with it.                     *)

\* The last place before k that is no backslash.
Plain(s, k) == {0} \cup {j \in 1 .. k - 1 : s[j] # "\\"}

\* It is a place before k.
LEMMA PlainIs ==
  ASSUME NEW s, NEW k \in Nat, k > 0
  PROVE  /\ Max(Plain(s, k)) \in Plain(s, k) /\ Plain(s, k) \in SUBSET (0 .. k - 1)
         /\ \A m \in Plain(s, k) : m <= Max(Plain(s, k))
<1>1. k - 1 \in Nat /\ 0 \in 0 .. k - 1 /\ \A j \in 1 .. k - 1 : j \in 0 .. k - 1
  OBVIOUS
<1>2. Plain(s, k) \in SUBSET (0 .. k - 1) /\ Plain(s, k) # {}
  BY <1>1 DEF Plain
<1> QED
  BY <1>1, <1>2, MaxIs

\* A character is escaped if an unescaped backslash stands in front of it.
LEMMA EscapedStep ==
  ASSUME NEW s, NEW k \in Nat, k > 0
  PROVE  Escaped(s, k + 1) <=> s[k] = "\\" /\ ~ Escaped(s, k)
<1> DEFINE m == Max(Plain(s, k))
<1>1. m \in Plain(s, k) /\ m \in 0 .. k - 1 /\ \A j \in Plain(s, k) : j <= m
  BY PlainIs
<1>2. Escaped(s, k) <=> (k - m) % 2 = 0
  BY DEF Escaped, Plain
<1>3. Escaped(s, k + 1) <=> ((k + 1) - Max(Plain(s, k + 1))) % 2 = 0
  BY DEF Escaped, Plain
<1>4. Plain(s, k + 1) \in SUBSET (0 .. k)
  <2>1. k + 1 \in Nat /\ k + 1 > 0 /\ (k + 1) - 1 = k
    OBVIOUS
  <2> QED BY <2>1, PlainIs
<1>5. CASE s[k] # "\\"
  <2>1. k \in Plain(s, k + 1) /\ \A j \in Plain(s, k + 1) : j <= k
    BY <1>4, <1>5 DEF Plain
  <2>2. Max(Plain(s, k + 1)) = k
    BY <1>4, <2>1, MaxOf
  <2>3. ((k + 1) - k) % 2 = 1
    OBVIOUS
  <2> QED BY <1>3, <1>5, <2>2, <2>3
<1>6. CASE s[k] = "\\"
  <2>1. Plain(s, k + 1) = Plain(s, k)
    <3>1. \A j \in 1 .. k : s[j] # "\\" => j \in 1 .. k - 1
      BY <1>6
    <3>2. (k + 1) - 1 = k /\ \A j \in 1 .. k - 1 : j \in 1 .. k
      OBVIOUS
    <3>3. {j \in 1 .. k : s[j] # "\\"} = {j \in 1 .. k - 1 : s[j] # "\\"}
      BY <3>1, <3>2
    <3> QED BY <3>2, <3>3 DEF Plain
  <2>2. ((k + 1) - m) % 2 = 0 <=> ~ ((k - m) % 2 = 0)
    <3>1. k - m \in Nat /\ (k + 1) - m = (k - m) + 1
      BY <1>1
    <3>2. \A d \in Nat : (d + 1) % 2 = 0 <=> ~ (d % 2 = 0)
      OBVIOUS
    <3> HIDE DEF m
    <3> QED BY <3>1, <3>2
  <2> QED BY <1>2, <1>3, <1>6, <2>1, <2>2
<1> QED
  BY <1>5, <1>6

\* The first character is not.
LEMMA FirstUnescaped ==
  ASSUME NEW s
  PROVE  ~ Escaped(s, 1)
<1>1. Plain(s, 1) = {0}
  BY DEF Plain
<1>2. Max(Plain(s, 1)) = 0
  <2>1. 0 \in Nat /\ {0} \in SUBSET (0 .. 0) /\ 0 \in {0} /\ \A m \in {0} : m <= 0
    OBVIOUS
  <2>2. Max({0}) = 0
    BY <2>1, MaxOf
  <2> QED BY <1>1, <2>2
<1>3. (1 - 0) % 2 = 1
  OBVIOUS
<1> QED
  BY <1>2, <1>3 DEF Escaped, Plain

\* Only what stands in front of it decides.
LEMMA EscapedAlike ==
  ASSUME NEW s, NEW t, NEW k \in Nat, k > 0, \A j \in 1 .. k - 1 : s[j] = t[j]
  PROVE  Escaped(s, k) <=> Escaped(t, k)
<1>1. {j \in 1 .. k - 1 : s[j] # "\\"} = {j \in 1 .. k - 1 : t[j] # "\\"}
  OBVIOUS
<1> QED
  BY <1>1 DEF Escaped

\* What follows a place.
Rest(k) == SubSeq(text, k, Len(text))
\* A character of the string that begins at k is escaped.
EscapedIn(k, j) == Escaped(Rest(k), j - k + 1)

\* In a string, too, an unescaped backslash escapes the next character.
LEMMA EscapedInStep ==
  ASSUME IsText(text), NEW k \in 1 .. Len(text), NEW j \in k .. Len(text)
  PROVE  EscapedIn(k, j + 1) <=> text[j] = "\\" /\ ~ EscapedIn(k, j)
<1> DEFINE i == j - k + 1
<1>1. Len(text) \in Nat /\ i \in Nat /\ i > 0 /\ i \in 1 .. Len(text) - k + 1 /\ k + i - 1 = j /\ (j + 1) - k + 1 = i + 1
  BY DEF IsText
<1>2. Rest(k)[i] = text[j]
  <2>1. k \in 1 .. Len(text) + 1 /\ Len(text) \in k - 1 .. Len(text)
    BY <1>1
  <2>2. text \in Seq(ToSet(text))
    BY DEF IsText
  <2>3. \A h \in 1 .. Len(text) - k + 1 : Rest(k)[h] = text[k + h - 1]
    BY <2>1, <2>2, PartIs DEF Rest
  <2> QED BY <1>1, <2>3
<1>3. Escaped(Rest(k), i + 1) <=> Rest(k)[i] = "\\" /\ ~ Escaped(Rest(k), i)
  BY <1>1, EscapedStep
<1> QED
  BY <1>1, <1>2, <1>3 DEF EscapedIn

\* Neither the quote nor the character behind it is escaped.
LEMMA BeginsUnescaped ==
  ASSUME IsText(text), NEW k \in 1 .. Len(text), text[k] # "\\"
  PROVE  ~ EscapedIn(k, k) /\ ~ EscapedIn(k, k + 1)
<1>1. Len(text) \in Nat /\ k \in k .. Len(text) /\ k - k + 1 = 1
  BY DEF IsText
<1>2. ~ EscapedIn(k, k)
  BY <1>1, FirstUnescaped DEF EscapedIn
<1> QED
  BY <1>1, <1>2, EscapedInStep

\* What the scan of a string finds.
EndsFrom(k, j, quote, c) ==
  /\ c \in j .. Len(text) + 2
  /\ \A i \in j .. c - 1 : i <= Len(text) => text[i] # quote \/ EscapedIn(k, i)
  /\ c <= Len(text) => text[c] = quote /\ ~ EscapedIn(k, c)
  /\ c > Len(text) => (c = Len(text) + 2 <=> EscapedIn(k, Len(text) + 1))

\* The scan of a string, as a function.
EndForm(g, j, quote) ==
  IF j > Len(text) THEN j
  ELSE IF text[j] = quote THEN j ELSE g[IF text[j] = "\\" THEN j + 2 ELSE j + 1]

\* There is such a function, and StringEnd is its value.
LEMMA StringEndIs ==
  ASSUME IsText(text), NEW quote
  PROVE  \E f \in [1 .. Len(text) + 2 -> Nat] :
           \A j \in 1 .. Len(text) + 2 : f[j] = EndForm(f, j, quote) /\ StringEnd(j, quote) = f[j]
<1> DEFINE n == Len(text)
           S == 1 .. n + 2
           height == [j \in S |-> n + 2 - j]
           Body == [g \in [S -> Nat] |-> [j \in S |-> EndForm(g, j, quote)]]
<1>0. n \in Nat
  BY DEF IsText
<1>1. ASSUME NEW j \in S, ~ (j > n) PROVE j + 1 \in S /\ j + 2 \in S /\ n + 2 - (j + 1) < n + 2 - j /\ n + 2 - (j + 2) < n + 2 - j
  BY <1>0, <1>1
<1>2. height \in [S -> Nat]
  BY <1>0
<1>3. ASSUME NEW g \in [S -> Nat], NEW j \in S PROVE EndForm(g, j, quote) \in Nat
  <2>1. ~ (j > n) => g[j + 1] \in Nat /\ g[j + 2] \in Nat
    BY <1>1
  <2>2. j \in Nat
    OBVIOUS
  <2> QED BY <2>1, <2>2 DEF EndForm
<1>4. ASSUME NEW g \in [S -> Nat], NEW h \in [S -> Nat], NEW j \in S,
             \A i \in S : height[i] < height[j] => g[i] = h[i]
      PROVE  EndForm(g, j, quote) = EndForm(h, j, quote)
  <2>1. CASE j > n
    BY <2>1 DEF EndForm
  <2>2. CASE ~ (j > n)
    <3>1. height[j + 1] < height[j] /\ height[j + 2] < height[j] /\ j + 1 \in S /\ j + 2 \in S
      BY <1>1, <2>2
    <3>2. g[j + 1] = h[j + 1] /\ g[j + 2] = h[j + 2]
      BY <1>4, <3>1
    <3> QED BY <2>2, <3>2 DEF EndForm
  <2> QED BY <2>1, <2>2
<1> HIDE DEF height
<1>5. Recursion(S, Nat, height, Body)
  <2>1. Body \in [[S -> Nat] -> [S -> Nat]]
    BY <1>3
  <2>2. \A g, h \in [S -> Nat], j \in S : (\A i \in S : height[i] < height[j] => g[i] = h[i]) => Body[g][j] = Body[h][j]
    BY <1>4
  <2> HIDE DEF Body, S
  <2> QED BY <1>2, <2>1, <2>2 DEF Recursion
<1>6. PICK f \in [S -> Nat] : f = Body[f]
  <2>1. Nat # {}
    OBVIOUS
  <2> HIDE DEF Body, S
  <2> QED BY <1>5, <2>1, SolutionExists
<1>7. \A j \in S : f[j] = EndForm(f, j, quote)
  BY <1>6
<1> DEFINE Solution(g) == g = [j \in S |-> EndForm(g, j, quote)]
           end == CHOOSE g : Solution(g)
<1>8. Solution(f)
  <2>1. f = [j \in S |-> f[j]]
    BY <1>6
  <2> HIDE DEF S
  <2> QED BY <1>7, <2>1
<1>9. Solution(end)
  <2> HIDE DEF Solution
  <2> QED BY <1>8
<1>10. \A j \in S : StringEnd(j, quote) = end[j]
  BY DEF StringEnd, EndForm
<1>11. S \subseteq {j \in S : end[j] = f[j]}
  <2> DEFINE T == {j \in S : end[j] = f[j]}
  <2> HIDE DEF end
  <2>1. \A j \in S : end[j] = EndForm(end, j, quote)
    BY <1>9
  <2>2. ASSUME NEW j \in S, \A i \in S : height[i] < height[j] => i \in T PROVE j \in T
    <3>1. CASE j > n
      BY <1>7, <2>1, <3>1 DEF EndForm
    <3>2. CASE ~ (j > n)
      <4>1. height[j + 1] < height[j] /\ height[j + 2] < height[j] /\ j + 1 \in S /\ j + 2 \in S
        BY <1>1, <3>2 DEF height
      <4>2. end[j + 1] = f[j + 1] /\ end[j + 2] = f[j + 2]
        BY <2>2, <4>1
      <4>3. EndForm(end, j, quote) = EndForm(f, j, quote)
        BY <3>2, <4>2 DEF EndForm
      <4> QED BY <1>7, <2>1, <4>3
    <3> QED BY <3>1, <3>2
  <2> HIDE DEF T, S
  <2>3. Climbs(S, height, T)
    BY <1>2, <2>2 DEF Climbs
  <2>4. S \subseteq T
    BY <2>3, HeightInduction
  <2> QED BY <2>4 DEF T
<1>12. \A j \in S : StringEnd(j, quote) = f[j]
  <2> HIDE DEF end, S
  <2> QED BY <1>10, <1>11
<1> QED
  BY <1>6, <1>7, <1>12

\* The scan of a string finds the first unescaped quote, if there is one.
LEMMA StringEndFinds ==
  ASSUME IsText(text), NEW k \in 1 .. Len(text), text[k] # "\\"
  PROVE  EndsFrom(k, k + 1, text[k], StringEnd(k + 1, text[k]))
<1> DEFINE n == Len(text)
           q == text[k]
           S == k + 1 .. n + 1
           height == [j \in S |-> n + 1 - j]
<1>0. n \in Nat /\ k \in Nat /\ k >= 1 /\ k <= n
  BY DEF IsText
<1>1. PICK f \in [1 .. n + 2 -> Nat] : \A j \in 1 .. n + 2 : f[j] = EndForm(f, j, q) /\ StringEnd(j, q) = f[j]
  BY StringEndIs
<1> DEFINE T == {j \in S : ~ EscapedIn(k, j) => EndsFrom(k, j, q, f[j])}
<1>2. height \in [S -> Nat]
  BY <1>0
<1>3. ASSUME NEW j \in S, \A i \in S : height[i] < height[j] => i \in T, ~ EscapedIn(k, j)
      PROVE  EndsFrom(k, j, q, f[j])
  <2>0. j \in 1 .. n + 2 /\ f[j] = EndForm(f, j, q) /\ j \in Nat
    BY <1>0, <1>1
  <2>1. CASE j > n
    <3>1. j = n + 1 /\ f[j] = j
      BY <1>0, <2>0, <2>1 DEF EndForm
    <3> QED BY <1>0, <1>3, <3>1 DEF EndsFrom
  <2>2. CASE ~ (j > n) /\ text[j] = q
    <3>1. f[j] = j
      BY <2>0, <2>2 DEF EndForm
    <3> QED BY <1>0, <1>3, <2>0, <2>2, <3>1 DEF EndsFrom
  <2>3. CASE ~ (j > n) /\ text[j] # q /\ text[j] = "\\"
    <3>1. f[j] = f[j + 2]
      BY <2>0, <2>3 DEF EndForm
    <3>2. j \in k .. n
      BY <1>0, <2>3
    <3>3. EscapedIn(k, j + 1)
      BY <1>3, <2>3, <3>2, EscapedInStep
    <3>4. CASE j = n
      <4>1. f[j + 2] = n + 2
        BY <1>0, <1>1, <3>4 DEF EndForm
      <4>2. \A i \in j .. (n + 2) - 1 : i <= n => i = j
        BY <1>0, <3>4
      <4>3. EndsFrom(k, j, q, n + 2)
        BY <1>0, <2>0, <2>3, <3>3, <3>4, <4>2 DEF EndsFrom
      <4> QED BY <3>1, <4>1, <4>3
    <3>5. CASE j < n
      <4>1. j + 1 \in k .. n /\ (j + 1) + 1 = j + 2 /\ j + 2 \in S /\ height[j + 2] < height[j]
        BY <1>0, <3>2, <3>5
      <4>2. ~ EscapedIn(k, j + 2)
        BY <3>3, <4>1, EscapedInStep
      <4>3. EndsFrom(k, j + 2, q, f[j + 2])
        BY <1>3, <4>1, <4>2
      <4>4. f[j + 2] \in j + 2 .. n + 2 /\ \A i \in j + 2 .. f[j + 2] - 1 : i <= n => text[i] # q \/ EscapedIn(k, i)
        BY <4>3 DEF EndsFrom
      <4>5. \A i \in j .. f[j + 2] - 1 : i = j \/ i = j + 1 \/ i \in j + 2 .. f[j + 2] - 1
        BY <2>0, <4>4
      <4>6. \A i \in j .. f[j + 2] - 1 : i <= n => text[i] # q \/ EscapedIn(k, i)
        BY <2>3, <3>3, <4>4, <4>5
      <4>7. f[j + 2] \in j .. n + 2
        BY <2>0, <4>4
      <4>8. EndsFrom(k, j, q, f[j + 2])
        BY <4>3, <4>6, <4>7 DEF EndsFrom
      <4> QED BY <3>1, <4>8
    <3> QED BY <1>0, <2>0, <2>3, <3>4, <3>5
  <2>4. CASE ~ (j > n) /\ text[j] # q /\ text[j] # "\\"
    <3>1. f[j] = f[j + 1]
      BY <2>0, <2>4 DEF EndForm
    <3>2. j \in k .. n /\ j + 1 \in S /\ height[j + 1] < height[j]
      BY <1>0, <2>4
    <3>3. ~ EscapedIn(k, j + 1)
      BY <2>4, <3>2, EscapedInStep
    <3>4. EndsFrom(k, j + 1, q, f[j + 1])
      BY <1>3, <3>2, <3>3
    <3>5. f[j + 1] \in j + 1 .. n + 2 /\ \A i \in j + 1 .. f[j + 1] - 1 : i <= n => text[i] # q \/ EscapedIn(k, i)
      BY <3>4 DEF EndsFrom
    <3>6. \A i \in j .. f[j + 1] - 1 : i = j \/ i \in j + 1 .. f[j + 1] - 1
      BY <2>0, <3>5
    <3>7. \A i \in j .. f[j + 1] - 1 : i <= n => text[i] # q \/ EscapedIn(k, i)
      BY <2>4, <3>5, <3>6
    <3>8. f[j + 1] \in j .. n + 2
      BY <2>0, <3>5
    <3>9. EndsFrom(k, j, q, f[j + 1])
      BY <3>4, <3>7, <3>8 DEF EndsFrom
    <3> QED BY <3>1, <3>9
  <2> QED BY <2>1, <2>2, <2>3, <2>4
<1>4. S \subseteq T
  <2>1. \A j \in S : (\A i \in S : height[i] < height[j] => i \in T) => j \in T
    BY <1>3
  <2> HIDE DEF T, S, height
  <2>2. Climbs(S, height, T)
    BY <1>2, <2>1 DEF Climbs
  <2> QED BY <2>2, HeightInduction
<1>5. k + 1 \in S /\ k + 1 \in 1 .. n + 2
  BY <1>0
<1>6. ~ EscapedIn(k, k + 1)
  BY BeginsUnescaped
<1>7. EndsFrom(k, k + 1, q, f[k + 1])
  <2> HIDE DEF S
  <2> QED BY <1>4, <1>5, <1>6
<1> QED
  BY <1>1, <1>5, <1>7

\* A part is a string with its quotes if its last character is the first unescaped
\* quote like its first.
LEMMA ClosedIs ==
  ASSUME IsText(text), NEW k \in 1 .. Len(text), NEW j \in k .. Len(text)
  PROVE  Closed(SubSeq(text, k, j)) <=>
           /\ text[k] \in Quotes /\ j > k /\ text[j] = text[k] /\ ~ EscapedIn(k, j)
           /\ \A i \in k + 1 .. j - 1 : text[i] # text[k] \/ EscapedIn(k, i)
<1> DEFINE n == Len(text)
           p == SubSeq(text, k, j)
           m == j - k + 1
           Ends == {i \in 2 .. Len(p) : p[i] = p[1] /\ ~ Escaped(p, i)}
<1>0. n \in Nat /\ k \in Nat /\ j \in Nat /\ 1 <= k /\ k <= j /\ j <= n /\ m \in Nat /\ m > 0
  BY DEF IsText
<1>1. Len(p) = m /\ \A i \in 1 .. m : p[i] = text[k + i - 1]
  <2>1. k \in 1 .. n + 1 /\ j \in k - 1 .. n /\ text \in Seq(ToSet(text))
    BY <1>0 DEF IsText
  <2> QED BY <2>1, PartIs
<1>2. \A i \in 1 .. n - k + 1 : Rest(k)[i] = text[k + i - 1]
  <2>1. k \in 1 .. n + 1 /\ n \in k - 1 .. n /\ text \in Seq(ToSet(text))
    BY <1>0 DEF IsText
  <2> QED BY <2>1, PartIs DEF Rest
<1> HIDE DEF p
<1>3. ASSUME NEW i \in 1 .. m PROVE Escaped(p, i) <=> EscapedIn(k, k + i - 1)
  <2>1. i \in Nat /\ i > 0 /\ (k + i - 1) - k + 1 = i
    BY <1>0
  <2>2. \A h \in 1 .. i - 1 : h \in 1 .. m /\ h \in 1 .. n - k + 1
    BY <1>0
  <2>3. \A h \in 1 .. i - 1 : p[h] = Rest(k)[h]
    BY <1>1, <1>2, <2>2
  <2> QED BY <2>1, <2>3, EscapedAlike DEF EscapedIn
<1>4. p[1] = text[k] /\ p[m] = text[j]
  <2>1. 1 \in 1 .. m /\ m \in 1 .. m /\ k + 1 - 1 = k /\ k + m - 1 = j
    BY <1>0
  <2> HIDE DEF m
  <2> QED BY <1>1, <2>1
<1>5. \A i \in 2 .. m : i \in Ends <=> text[k + i - 1] = text[k] /\ ~ EscapedIn(k, k + i - 1)
  <2>1. \A i \in 2 .. m : i \in 1 .. m
    OBVIOUS
  <2> HIDE DEF m
  <2> QED BY <1>1, <1>3, <1>4, <2>1
<1>6. Ends \subseteq 2 .. m
  BY <1>1
<1> HIDE DEF Ends
<1>7. Closed(p) <=> m >= 2 /\ text[k] \in Quotes /\ Ends = {m}
  BY <1>1, <1>4 DEF Closed, Ends
<1>8. ASSUME m >= 2, Ends = {m}
      PROVE  j > k /\ text[j] = text[k] /\ ~ EscapedIn(k, j) /\ \A i \in k + 1 .. j - 1 : text[i] # text[k] \/ EscapedIn(k, i)
  <2>1. m \in 2 .. m /\ k + m - 1 = j /\ j > k
    BY <1>0, <1>8
  <2>2. text[j] = text[k] /\ ~ EscapedIn(k, j)
    <3> HIDE DEF m
    <3> QED BY <1>5, <1>8, <2>1
  <2>3. ASSUME NEW i \in k + 1 .. j - 1 PROVE text[i] # text[k] \/ EscapedIn(k, i)
    <3>1. i - k + 1 \in 2 .. m /\ k + (i - k + 1) - 1 = i /\ i - k + 1 # m
      BY <1>0
    <3>2. i - k + 1 \notin Ends
      BY <1>8, <3>1
    <3> HIDE DEF m
    <3> QED BY <1>5, <3>1, <3>2
  <2> QED BY <2>1, <2>2, <2>3
<1>9. ASSUME j > k, text[j] = text[k], ~ EscapedIn(k, j), \A i \in k + 1 .. j - 1 : text[i] # text[k] \/ EscapedIn(k, i)
      PROVE  m >= 2 /\ Ends = {m}
  <2>1. m >= 2 /\ m \in 2 .. m /\ k + m - 1 = j
    BY <1>0, <1>9
  <2>2. m \in Ends
    <3> HIDE DEF m
    <3> QED BY <1>5, <1>9, <2>1
  <2>3. ASSUME NEW i \in Ends PROVE i = m
    <3> SUFFICES ASSUME i # m PROVE FALSE
      OBVIOUS
    <3>1. i \in 2 .. m
      BY <1>6
    <3>2. k + i - 1 \in k + 1 .. j - 1
      BY <1>0, <3>1
    <3> HIDE DEF m
    <3> QED BY <1>5, <1>9, <3>1, <3>2
  <2> HIDE DEF m
  <2> QED BY <2>1, <2>2, <2>3
<1> QED
  BY <1>7, <1>8, <1>9 DEF p

-----------------------------------------------------------------------------
(* Lexemes.                                                                 *)

\* Kinds of characters have nothing in common.
LEMMA Kinds ==
  /\ Digits \cap Letters = {} /\ "." \notin Digits /\ "." \notin Letters /\ NUL \notin Digits /\ NUL \notin Letters
  /\ (Digits \cup Letters) \cap Quotes = {} /\ (Digits \cup Letters) \cap Operators1 = {}
  /\ Operators1 \cap Quotes = {} /\ "\\" \notin Quotes /\ "." \in Operators1 /\ "." \notin Quotes /\ NUL \notin Quotes
  /\ NUL \notin Operators1
<1>1. "." \in Operators1 /\ "." \notin Quotes /\ "\\" \notin Quotes /\ Operators1 \cap Quotes = {} /\ NUL \notin Quotes /\ NUL \notin Operators1
  BY DEF Operators1, Quotes, NUL
<1>2. Digits \cap Letters = {} /\ (Digits \cup Letters) \cap Quotes = {} /\ (Digits \cup Letters) \cap Operators1 = {}
      /\ NUL \notin Digits \cup Letters
  BY LexerAssumption
<1> QED
  BY <1>1, <1>2

\* The characters of operators of two.
LEMMA Pairs2 ==
  ASSUME NEW a, NEW b, <<a, b>> \in Operators2
  PROVE  a \in Operators1 /\ b \in Operators1 /\ a # "."
BY DEF Operators2, Operators1

\* The characters of operators of three, whose first two are one of two.
LEMMA Triples3 ==
  ASSUME NEW a, NEW b, NEW c, <<a, b, c>> \in Operators3
  PROVE  a \in Operators1 /\ c \in Operators1 /\ a # "." /\ <<a, b>> \in Operators2
BY DEF Operators3, Operators2, Operators1

\* Which sequences are operators.
FormOf(s) ==
  \/ Len(s) = 1 /\ s[1] \in Operators1
  \/ Len(s) = 2 /\ <<s[1], s[2]>> \in Operators2
  \/ Len(s) = 3 /\ <<s[1], s[2], s[3]>> \in Operators3

\* A sequence by its characters.
LEMMA ShortSeq ==
  ASSUME NEW C, NEW s \in Seq(C)
  PROVE  /\ Len(s) = 1 => s = <<s[1]>>
         /\ Len(s) = 2 => s = <<s[1], s[2]>>
         /\ Len(s) = 3 => s = <<s[1], s[2], s[3]>>
OBVIOUS

\* Those of these forms.
LEMMA FormsAre ==
  ASSUME NEW C, NEW s \in Seq(C)
  PROVE  s \in OperatorForms <=> FormOf(s)
<1>1. ASSUME s \in OperatorForms PROVE FormOf(s)
  <2>1. CASE s \in {<<c>> : c \in Operators1}
    BY <2>1 DEF FormOf
  <2>2. CASE s \in Operators2
    <3>1. Len(s) = 2
      BY <2>2 DEF Operators2
    <3>2. s = <<s[1], s[2]>>
      BY <3>1, ShortSeq
    <3> QED BY <2>2, <3>1, <3>2 DEF FormOf
  <2>3. CASE s \in Operators3
    <3>1. Len(s) = 3
      BY <2>3 DEF Operators3
    <3>2. s = <<s[1], s[2], s[3]>>
      BY <3>1, ShortSeq
    <3> QED BY <2>3, <3>1, <3>2 DEF FormOf
  <2> QED BY <1>1, <2>1, <2>2, <2>3 DEF OperatorForms
<1>2. ASSUME FormOf(s) PROVE s \in OperatorForms
  <2>1. CASE Len(s) = 1 /\ s[1] \in Operators1
    <3>1. s = <<s[1]>>
      BY <2>1, ShortSeq
    <3> QED BY <2>1, <3>1 DEF OperatorForms
  <2>2. CASE Len(s) = 2 /\ <<s[1], s[2]>> \in Operators2
    <3>1. s = <<s[1], s[2]>>
      BY <2>2, ShortSeq
    <3> QED BY <2>2, <3>1 DEF OperatorForms
  <2>3. CASE Len(s) = 3 /\ <<s[1], s[2], s[3]>> \in Operators3
    <3>1. s = <<s[1], s[2], s[3]>>
      BY <2>3, ShortSeq
    <3> QED BY <2>3, <3>1 DEF OperatorForms
  <2> QED BY <1>2, <2>1, <2>2, <2>3 DEF FormOf
<1> QED
  BY <1>1, <1>2

\* The part of the text from k to j.
Part(k, j) == SubSeq(text, k, j)

\* What it is by the characters in the text.
IsNumber(k, j) ==
  /\ text[k] \in Digits \/ (j > k /\ text[k] = "." /\ text[k + 1] \in Digits)
  /\ \A i \in k .. j : text[i] \in Digits \cup {"."}
IsWord(k, j) == text[k] \in Letters /\ \A i \in k .. j : text[i] \in Digits \cup Letters
IsForm(k, j) ==
  \/ j = k /\ text[k] \in Operators1
  \/ j = k + 1 /\ <<text[k], text[k + 1]>> \in Operators2
  \/ j = k + 2 /\ <<text[k], text[k + 1], text[k + 2]>> \in Operators3

\* The first characters of a part.
LEMMA PartBegins ==
  ASSUME IsText(text), NEW k \in 1 .. Len(text), NEW j \in k .. Len(text)
  PROVE  /\ Part(k, j) \in Seq(ToSet(text)) /\ Len(Part(k, j)) = j - k + 1 /\ Part(k, j)[1] = text[k]
         /\ j >= k + 1 => Part(k, j)[2] = text[k + 1]
         /\ j >= k + 2 => Part(k, j)[3] = text[k + 2]
<1>0. Len(text) \in Nat /\ text \in Seq(ToSet(text)) /\ k \in 1 .. Len(text) + 1 /\ j \in k - 1 .. Len(text)
  BY DEF IsText
<1>1. /\ Part(k, j) \in Seq(ToSet(text)) /\ Len(Part(k, j)) = j - k + 1
      /\ \A i \in 1 .. j - k + 1 : Part(k, j)[i] = text[k + i - 1]
  BY <1>0, PartIs DEF Part
<1>2. 1 \in 1 .. j - k + 1 /\ k + 1 - 1 = k
  BY <1>0
<1>3. j >= k + 1 => 2 \in 1 .. j - k + 1 /\ k + 2 - 1 = k + 1
  BY <1>0
<1>4. j >= k + 2 => 3 \in 1 .. j - k + 1 /\ k + 3 - 1 = k + 2
  BY <1>0
<1> QED
  BY <1>1, <1>2, <1>3, <1>4

\* The kinds of parts.
LEMMA PartKinds ==
  ASSUME IsText(text), NEW k \in 1 .. Len(text), NEW j \in k .. Len(text)
  PROVE  /\ NumberForm(Part(k, j)) <=> IsNumber(k, j)
         /\ Word(Part(k, j)) <=> IsWord(k, j)
         /\ Part(k, j) \in OperatorForms <=> IsForm(k, j)
<1> DEFINE p == Part(k, j)
<1>0. Len(text) \in Nat /\ text \in Seq(ToSet(text)) /\ k \in 1 .. Len(text) + 1 /\ j \in k - 1 .. Len(text)
  BY DEF IsText
<1>1. /\ p \in Seq(ToSet(text)) /\ Len(p) = j - k + 1 /\ p[1] = text[k]
      /\ j >= k + 1 => p[2] = text[k + 1]
      /\ j >= k + 2 => p[3] = text[k + 2]
  BY PartBegins
<1>2. \A D : ToSet(p) \subseteq D <=> \A i \in k .. j : text[i] \in D
  BY <1>0, PartSet DEF Part
<1> HIDE DEF p
<1>3. (Len(p) = 1 <=> j = k) /\ (Len(p) = 2 <=> j = k + 1) /\ (Len(p) = 3 <=> j = k + 2) /\ (Len(p) >= 2 <=> j > k)
  BY <1>0, <1>1
<1>4. j > k => j >= k + 1
  BY <1>0
<1>5. NumberForm(p) <=> IsNumber(k, j)
  BY <1>1, <1>2, <1>3, <1>4 DEF NumberForm, IsNumber
<1>6. Word(p) <=> IsWord(k, j)
  BY <1>1, <1>2 DEF Word, IsWord
<1>7. p \in OperatorForms <=> FormOf(p)
  BY <1>1, FormsAre
<1>8. FormOf(p) <=> IsForm(k, j)
  <2>1. j = k + 1 => j >= k + 1
    BY <1>0
  <2>2. j = k + 2 => j >= k + 1 /\ j >= k + 2
    BY <1>0
  <2> QED BY <1>1, <1>3, <2>1, <2>2 DEF FormOf, IsForm
<1> QED
  BY <1>5, <1>6, <1>7, <1>8 DEF p

\* Where lexemes from k end.
LexemeEnds(k) == {j \in k .. Len(text) : Lexeme(Part(k, j))}

\* The longest lexeme.
LEMMA LongestIs ==
  ASSUME IsText(text), NEW k \in 1 .. Len(text), NEW e \in k .. Len(text), Lexeme(Part(k, e)),
         \A j \in e + 1 .. Len(text) : ~ Lexeme(Part(k, j))
  PROVE  LexemeEnd(text, k) = e
<1>0. Len(text) \in Nat
  BY DEF IsText
<1>1. e \in LexemeEnds(k) /\ LexemeEnds(k) \in SUBSET (0 .. Len(text))
  BY <1>0 DEF LexemeEnds
<1>2. ASSUME NEW j \in LexemeEnds(k) PROVE j <= e
  <2>1. j \in k .. Len(text) /\ Lexeme(Part(k, j))
    BY DEF LexemeEnds
  <2> SUFFICES ASSUME ~ (j <= e) PROVE FALSE
    OBVIOUS
  <2>2. j \in e + 1 .. Len(text)
    BY <1>0, <2>1
  <2> QED BY <2>1, <2>2
<1>3. Max(LexemeEnds(k)) = e
  BY <1>0, <1>1, <1>2, MaxOf
<1>4. LexemeEnds(k) # {}
  BY <1>1
<1> QED
  BY <1>3, <1>4 DEF LexemeEnd, LexemeEnds, Part

\* If there is none.
LEMMA NoLexeme ==
  ASSUME NEW k, \A j \in k .. Len(text) : ~ Lexeme(Part(k, j))
  PROVE  LexemeEnd(text, k) = IF text[k] \in Quotes THEN Len(text) ELSE k
<1>1. LexemeEnds(k) = {}
  BY DEF LexemeEnds
<1> QED
  BY <1>1 DEF LexemeEnd, LexemeEnds, Part

-----------------------------------------------------------------------------
(* What is read at a place is the longest lexeme there.                     *)

\* The token that ends at e is read at k.
ReadTo(k, e, t) ==
  /\ e \in k .. Len(text)
  /\ Large(Part(k, e)) <=> t.length >= TEXT_SIZE \/ t.next > Len(text) + 1
  /\ ~ Large(Part(k, e)) => t.next = e + 1 /\ t.token = TokenOf(Part(k, e))

\* The size of what is no string.
LEMMA PlainSize ==
  ASSUME IsText(text), NEW k \in 1 .. Len(text), NEW e \in k .. Len(text), text[k] \notin Quotes
  PROVE  /\ Inside(Part(k, e)) = Part(k, e) /\ ~ Closed(Part(k, e))
         /\ Large(Part(k, e)) <=> e - k + 1 >= TEXT_SIZE
<1>1. Len(Part(k, e)) = e - k + 1 /\ Part(k, e)[1] = text[k]
  BY PartBegins
<1> QED
  BY <1>1 DEF Inside, Large, Closed

\* Numbers.
LEMMA NumberRead ==
  ASSUME IsText(text), NEW k \in 1 .. Len(text), text[k] \in Digits \/ (text[k] = "." /\ Char(k + 1) \in Digits)
  PROVE  ReadTo(k, LexemeEnd(text, k), NumberAt(k))
<1> DEFINE n == Len(text)
           D == Digits \cup {"."}
           u == Until(k, AllBut(D))
           e == u - 1
<1>0. n \in Nat /\ k \in Nat /\ 1 <= k /\ k <= n /\ k \in 1 .. n + 1
  BY DEF IsText
<1>1. u \in k .. n + 1 /\ (u <= n => text[u] \notin D) /\ \A j \in k .. u - 1 : text[j] \in D
  <2> HIDE DEF D
  <2> QED BY <1>0, UntilOther
<1>2. text[k] = "." => k + 1 <= n /\ text[k + 1] \in Digits
  <2>1. text[k] = "." => Char(k + 1) \in Digits
    BY Kinds
  <2>2. k + 1 \in Nat /\ k + 1 > 0
    BY <1>0
  <2>3. Char(k + 1) \in Digits => k + 1 <= n /\ Char(k + 1) = text[k + 1]
    BY <2>2, CharIs, Kinds
  <2> QED BY <2>1, <2>3
<1>3. text[k] \in D
  OBVIOUS
<1> HIDE DEF u
<1>4. u # k
  BY <1>0, <1>1, <1>3
<1>5. text[k] = "." => u # k + 1
  BY <1>1, <1>2
<1>6. e \in k .. n /\ (text[k] = "." => e > k)
  BY <1>0, <1>1, <1>4, <1>5
<1>7. IsNumber(k, e)
  BY <1>1, <1>2, <1>6 DEF IsNumber
<1>8. text[k] \notin Letters /\ text[k] \notin Quotes /\ (text[k] \in Operators1 => text[k] = ".")
  BY Kinds
<1>9. ASSUME NEW j \in e + 1 .. n, Lexeme(Part(k, j)) PROVE FALSE
  <2>1. j \in k .. n /\ u \in k .. j /\ u <= n /\ j # k /\ j > k
    BY <1>0, <1>1, <1>4, <1>6
  <2>2. ~ IsNumber(k, j)
    BY <1>1, <2>1 DEF IsNumber
  <2>3. ~ IsWord(k, j)
    BY <1>8 DEF IsWord
  <2>4. ~ Closed(Part(k, j))
    BY <1>8, <2>1, PlainSize
  <2>5. ~ IsForm(k, j)
    <3>1. ~ (<<text[k], text[k + 1]>> \in Operators2)
      BY <1>8, Pairs2
    <3>2. ~ (<<text[k], text[k + 1], text[k + 2]>> \in Operators3)
      BY <1>8, Triples3
    <3> QED BY <2>1, <3>1, <3>2 DEF IsForm
  <2> QED BY <1>9, <2>1, <2>2, <2>3, <2>4, <2>5, PartKinds DEF Lexeme
<1>10. Lexeme(Part(k, e))
  BY <1>6, <1>7, PartKinds DEF Lexeme
<1>11. LexemeEnd(text, k) = e
  <2> HIDE DEF e
  <2> QED BY <1>6, <1>9, <1>10, LongestIs
<1>12. TokenOf(Part(k, e)) = Spelt("NUM", Part(k, e))
  <2>1. ~ IsWord(k, e)
    BY <1>8 DEF IsWord
  <2>2. ~ IsForm(k, e)
    <3>1. ~ (<<text[k], text[k + 1]>> \in Operators2)
      BY <1>8, Pairs2
    <3>2. ~ (<<text[k], text[k + 1], text[k + 2]>> \in Operators3)
      BY <1>8, Triples3
    <3>3. ~ (e = k /\ text[k] \in Operators1)
      BY <1>0, <1>6, <1>8
    <3> HIDE DEF e
    <3> QED BY <3>1, <3>2, <3>3 DEF IsForm
  <2> HIDE DEF e
  <2>3. Part(k, e)[1] \notin Quotes
    BY <1>6, <1>8, PartBegins
  <2>4. NumberForm(Part(k, e)) /\ ~ Word(Part(k, e)) /\ Part(k, e) \notin OperatorForms
    BY <1>6, <1>7, <2>1, <2>2, PartKinds
  <2> QED BY <2>3, <2>4 DEF TokenOf
<1>13. Large(Part(k, e)) <=> u - k >= TEXT_SIZE
  <2>1. e - k + 1 = u - k
    BY <1>0, <1>1
  <2> QED BY <1>6, <1>8, <2>1, PlainSize
<1>14. NumberAt(k) = Scanned(Spelt("NUM", Part(k, e)), u, u - k)
  BY DEF NumberAt, Part, u
<1>15. NumberAt(k).length = u - k /\ NumberAt(k).next = u /\ NumberAt(k).token = TokenOf(Part(k, e))
  BY <1>12, <1>14 DEF Scanned
<1>16. u = e + 1 /\ ~ (u > n + 1)
  BY <1>0, <1>1
<1> HIDE DEF e
<1> QED
  BY <1>6, <1>11, <1>13, <1>15, <1>16 DEF ReadTo

\* Names and keywords.
LEMMA WordRead ==
  ASSUME IsText(text), NEW k \in 1 .. Len(text), text[k] \in Letters
  PROVE  ReadTo(k, LexemeEnd(text, k), WordAt(k))
<1> DEFINE n == Len(text)
           D == Digits \cup Letters
           u == Until(k, AllBut(D))
           e == u - 1
<1>0. n \in Nat /\ k \in Nat /\ 1 <= k /\ k <= n /\ k \in 1 .. n + 1
  BY DEF IsText
<1>1. u \in k .. n + 1 /\ (u <= n => text[u] \notin D) /\ \A j \in k .. u - 1 : text[j] \in D
  <2> HIDE DEF D
  <2> QED BY <1>0, UntilOther
<1> HIDE DEF u
<1>4. u # k
  BY <1>0, <1>1
<1>6. e \in k .. n
  BY <1>0, <1>1, <1>4
<1>7. IsWord(k, e)
  BY <1>1, <1>6 DEF IsWord
<1>8. text[k] \notin Digits /\ text[k] \notin Quotes /\ text[k] \notin Operators1 /\ text[k] # "."
  BY Kinds
<1>9. ASSUME NEW j \in e + 1 .. n, Lexeme(Part(k, j)) PROVE FALSE
  <2>1. j \in k .. n /\ u \in k .. j /\ u <= n /\ j # k /\ j > k
    BY <1>0, <1>1, <1>4, <1>6
  <2>2. ~ IsNumber(k, j)
    BY <1>8 DEF IsNumber
  <2>3. ~ IsWord(k, j)
    BY <1>1, <2>1 DEF IsWord
  <2>4. ~ Closed(Part(k, j))
    BY <1>8, <2>1, PlainSize
  <2>5. ~ IsForm(k, j)
    <3>1. ~ (<<text[k], text[k + 1]>> \in Operators2)
      BY <1>8, Pairs2
    <3>2. ~ (<<text[k], text[k + 1], text[k + 2]>> \in Operators3)
      BY <1>8, Triples3
    <3> QED BY <2>1, <3>1, <3>2 DEF IsForm
  <2> QED BY <1>9, <2>1, <2>2, <2>3, <2>4, <2>5, PartKinds DEF Lexeme
<1>10. Lexeme(Part(k, e))
  BY <1>6, <1>7, PartKinds DEF Lexeme
<1>11. LexemeEnd(text, k) = e
  <2> HIDE DEF e
  <2> QED BY <1>6, <1>9, <1>10, LongestIs
<1>12. TokenOf(Part(k, e)) = check_keyword(Joined(Part(k, e)))
  <2>1. ~ IsNumber(k, e)
    BY <1>8 DEF IsNumber
  <2>2. ~ IsForm(k, e)
    <3>1. ~ (<<text[k], text[k + 1]>> \in Operators2)
      BY <1>8, Pairs2
    <3>2. ~ (<<text[k], text[k + 1], text[k + 2]>> \in Operators3)
      BY <1>8, Triples3
    <3> HIDE DEF e
    <3> QED BY <1>8, <3>1, <3>2 DEF IsForm
  <2> HIDE DEF e
  <2>3. Part(k, e)[1] \notin Quotes
    BY <1>6, <1>8, PartBegins
  <2>4. ~ NumberForm(Part(k, e)) /\ Word(Part(k, e)) /\ Part(k, e) \notin OperatorForms
    BY <1>6, <1>7, <2>1, <2>2, PartKinds
  <2> QED BY <2>3, <2>4 DEF TokenOf
<1>13. Large(Part(k, e)) <=> u - k >= TEXT_SIZE
  <2>1. e - k + 1 = u - k
    BY <1>0, <1>1
  <2> QED BY <1>6, <1>8, <2>1, PlainSize
<1>14. WordAt(k) = Scanned(check_keyword(Joined(Part(k, e))), u, u - k)
  BY DEF WordAt, Part, u
<1>15. WordAt(k).length = u - k /\ WordAt(k).next = u /\ WordAt(k).token = TokenOf(Part(k, e))
  BY <1>12, <1>14 DEF Scanned
<1>16. u = e + 1 /\ ~ (u > n + 1)
  BY <1>0, <1>1
<1> HIDE DEF e
<1> QED
  BY <1>6, <1>11, <1>13, <1>15, <1>16 DEF ReadTo

\* A place of a character that begins neither a number nor a word nor a string.
Other(k) ==
  /\ text[k] \notin Digits /\ text[k] \notin Letters /\ text[k] \notin Quotes
  /\ ~ (text[k] = "." /\ Char(k + 1) \in Digits)

\* Only operators begin there.
LEMMA OperatorLexeme ==
  ASSUME IsText(text), NEW k \in 1 .. Len(text), Other(k), NEW j \in k .. Len(text)
  PROVE  ~ NumberForm(Part(k, j)) /\ ~ Word(Part(k, j)) /\ (Lexeme(Part(k, j)) <=> IsForm(k, j))
         /\ Part(k, j)[1] \notin Quotes
<1>0. Len(text) \in Nat /\ k \in Nat /\ 1 <= k /\ k + 1 \in Nat /\ k + 1 > 0
  BY DEF IsText
<1>1. j > k => Char(k + 1) = text[k + 1]
  <2>1. j > k => k + 1 <= Len(text)
    BY <1>0
  <2> QED BY <1>0, <2>1, CharIs
<1>2. ~ IsNumber(k, j)
  BY <1>1 DEF IsNumber, Other
<1>3. ~ IsWord(k, j)
  BY DEF IsWord, Other
<1>4. ~ Closed(Part(k, j)) /\ Part(k, j)[1] = text[k]
  BY PlainSize, PartBegins DEF Other
<1> QED
  BY <1>2, <1>3, <1>4, PartKinds DEF Lexeme, Other

\* What is read, if the longest operator ends at e and the scanner finds it.
LEMMA OperatorReads ==
  ASSUME IsText(text), NEW k \in 1 .. Len(text), Other(k), NEW e \in k .. Len(text), IsForm(k, e),
         \A j \in e + 1 .. Len(text) : ~ IsForm(k, j),
         OperatorAt(k) = Scanned(SignOf(Part(k, e)), e + 1, e - k + 1)
  PROVE  ReadTo(k, LexemeEnd(text, k), OperatorAt(k))
<1>0. Len(text) \in Nat /\ \A j \in e + 1 .. Len(text) : j \in k .. Len(text)
  BY DEF IsText
<1>1. LexemeEnd(text, k) = e
  <2>1. Lexeme(Part(k, e)) /\ \A j \in e + 1 .. Len(text) : ~ Lexeme(Part(k, j))
    BY <1>0, OperatorLexeme
  <2> QED BY <2>1, LongestIs
<1>2. TokenOf(Part(k, e)) = SignOf(Part(k, e))
  <2>1. Part(k, e) \in OperatorForms
    BY PartKinds
  <2> QED BY <2>1, OperatorLexeme DEF TokenOf
<1>3. Large(Part(k, e)) <=> e - k + 1 >= TEXT_SIZE
  BY PlainSize DEF Other
<1>4. OperatorAt(k).length = e - k + 1 /\ OperatorAt(k).next = e + 1 /\ OperatorAt(k).token = SignOf(Part(k, e))
  BY DEF Scanned
<1>5. ~ (e + 1 > Len(text) + 1)
  BY <1>0
<1> QED
  BY <1>1, <1>2, <1>3, <1>4, <1>5 DEF ReadTo

\* Operators, and characters that are nothing.
LEMMA OperatorRead ==
  ASSUME IsText(text), NEW k \in 1 .. Len(text), Other(k)
  PROVE  ReadTo(k, LexemeEnd(text, k), OperatorAt(k))
<1> DEFINE n == Len(text)
<1>0. n \in Nat /\ k \in Nat /\ 1 <= k /\ k <= n
  BY DEF IsText
<1>1. /\ Char(k) = text[k]
      /\ IF k + 1 <= n THEN Char(k + 1) = text[k + 1] /\ Char(k + 1) # NUL ELSE Char(k + 1) = NUL
      /\ IF k + 2 <= n THEN Char(k + 2) = text[k + 2] /\ Char(k + 2) # NUL ELSE Char(k + 2) = NUL
  <2>1. k + 1 \in Nat /\ k + 1 > 0 /\ k + 2 \in Nat /\ k + 2 > 0 /\ k > 0
    BY <1>0
  <2>2. IF k <= n THEN Char(k) = text[k] /\ Char(k) # NUL ELSE Char(k) = NUL
    BY <1>0, <2>1, CharIs
  <2>3. IF k + 1 <= n THEN Char(k + 1) = text[k + 1] /\ Char(k + 1) # NUL ELSE Char(k + 1) = NUL
    BY <2>1, CharIs
  <2>4. IF k + 2 <= n THEN Char(k + 2) = text[k + 2] /\ Char(k + 2) # NUL ELSE Char(k + 2) = NUL
    BY <2>1, CharIs
  <2> QED BY <1>0, <2>2, <2>3, <2>4
<1>2. Two(k) = <<Char(k), Char(k + 1)>> /\ Three(k) = <<Char(k), Char(k + 1), Char(k + 2)>>
  BY DEF Two, Three
<1>3. CASE Three(k) \in Operators3
  <2>1. Char(k + 2) \in Operators1
    BY <1>2, <1>3, Triples3
  <2>2. k + 2 \in k .. n /\ k + 1 <= n
    BY <1>0, <1>1, <2>1, Kinds
  <2>3. Three(k) = Part(k, k + 2)
    <3>1. Len(Part(k, k + 2)) = 3 /\ Part(k, k + 2)[1] = text[k] /\ Part(k, k + 2)[2] = text[k + 1]
          /\ Part(k, k + 2)[3] = text[k + 2] /\ Part(k, k + 2) \in Seq(ToSet(text))
      <4>1. (k + 2) - k + 1 = 3 /\ k + 2 >= k + 1 /\ k + 2 >= k + 2
        BY <1>0
      <4> QED BY <2>2, <4>1, PartBegins
    <3> QED BY <1>1, <1>2, <2>2, <3>1, ShortSeq
  <2>4. IsForm(k, k + 2)
    BY <1>1, <1>2, <1>3, <2>2 DEF IsForm
  <2>5. \A j \in (k + 2) + 1 .. n : ~ IsForm(k, j)
    BY <1>0 DEF IsForm
  <2>6. OperatorAt(k) = Scanned(SignOf(Part(k, k + 2)), k + 3, 3)
    BY <1>3, <2>3 DEF OperatorAt
  <2>7. (k + 2) + 1 = k + 3 /\ (k + 2) - k + 1 = 3
    BY <1>0
  <2> QED BY <2>2, <2>4, <2>5, <2>6, <2>7, OperatorReads
<1>4. CASE Three(k) \notin Operators3 /\ Two(k) \in Operators2
  <2>1. Char(k + 1) \in Operators1
    BY <1>2, <1>4, Pairs2
  <2>2. k + 1 \in k .. n
    BY <1>0, <1>1, <2>1, Kinds
  <2>3. Two(k) = Part(k, k + 1)
    <3>1. Len(Part(k, k + 1)) = 2 /\ Part(k, k + 1)[1] = text[k] /\ Part(k, k + 1)[2] = text[k + 1]
          /\ Part(k, k + 1) \in Seq(ToSet(text))
      <4>1. (k + 1) - k + 1 = 2 /\ k + 1 >= k + 1
        BY <1>0
      <4> QED BY <2>2, <4>1, PartBegins
    <3> QED BY <1>1, <1>2, <2>2, <3>1, ShortSeq
  <2>4. IsForm(k, k + 1)
    BY <1>1, <1>2, <1>4, <2>2 DEF IsForm
  <2>5. ASSUME NEW j \in (k + 1) + 1 .. n, IsForm(k, j) PROVE FALSE
    <3>1. j = k + 2 /\ k + 1 <= n /\ k + 2 <= n /\ <<text[k], text[k + 1], text[k + 2]>> \in Operators3
      BY <1>0, <2>5 DEF IsForm
    <3> QED BY <1>1, <1>2, <1>4, <3>1
  <2>6. OperatorAt(k) = Scanned(SignOf(Part(k, k + 1)), k + 2, 2)
    BY <1>4, <2>3 DEF OperatorAt
  <2>7. (k + 1) + 1 = k + 2 /\ (k + 1) - k + 1 = 2
    BY <1>0
  <2> QED BY <2>2, <2>4, <2>5, <2>6, <2>7, OperatorReads
<1>5. CASE Three(k) \notin Operators3 /\ Two(k) \notin Operators2
  <2>1. OperatorAt(k) = OneAt(k)
    BY <1>5 DEF OperatorAt
  <2>2. k \in k .. n /\ k + 1 = k + 1 /\ k - k + 1 = 1
    BY <1>0
  <2>3. Part(k, k) = <<text[k]>>
    <3>1. Len(Part(k, k)) = 1 /\ Part(k, k)[1] = text[k] /\ Part(k, k) \in Seq(ToSet(text))
      BY <2>2, PartBegins
    <3> QED BY <3>1, ShortSeq
  <2>4. ASSUME NEW j \in k + 1 .. n, IsForm(k, j) PROVE FALSE
    <3>1. \/ j = k + 1 /\ k + 1 <= n /\ <<text[k], text[k + 1]>> \in Operators2
          \/ j = k + 2 /\ k + 1 <= n /\ k + 2 <= n /\ <<text[k], text[k + 1], text[k + 2]>> \in Operators3
      BY <1>0, <2>4 DEF IsForm
    <3> QED BY <1>1, <1>2, <1>5, <3>1
  <2>5. CASE text[k] \in Operators1
    <3>1. IsForm(k, k)
      BY <2>5 DEF IsForm
    <3>2. OperatorAt(k) = Scanned(SignOf(Part(k, k)), k + 1, k - k + 1)
      BY <1>1, <2>1, <2>2, <2>3, <2>5 DEF OneAt
    <3> QED BY <2>2, <2>4, <3>1, <3>2, OperatorReads
  <2>6. CASE text[k] \notin Operators1
    <3>1. ~ IsForm(k, k)
      BY <1>0, <2>6 DEF IsForm
    <3>2. \A j \in k .. n : ~ IsForm(k, j)
      <4>1. \A j \in k .. n : j = k \/ j \in k + 1 .. n
        BY <1>0
      <4> QED BY <2>4, <3>1, <4>1
    <3>3. \A j \in k .. n : ~ Lexeme(Part(k, j))
      BY <3>2, OperatorLexeme
    <3>4. LexemeEnd(text, k) = k
      BY <3>3, NoLexeme DEF Other
    <3>5. TokenOf(Part(k, k)) = Spelt("ERROR", Part(k, k))
      <4>1. Part(k, k) \notin OperatorForms
        BY <2>2, <3>1, PartKinds
      <4> QED BY <2>2, <4>1, OperatorLexeme DEF TokenOf
    <3>6. OperatorAt(k) = Scanned(Spelt("ERROR", Part(k, k)), k + 1, 1)
      BY <1>1, <2>1, <2>3, <2>6 DEF OneAt
    <3>7. OperatorAt(k).length = 1 /\ OperatorAt(k).next = k + 1 /\ OperatorAt(k).token = TokenOf(Part(k, k))
      BY <3>5, <3>6 DEF Scanned
    <3>8. Large(Part(k, k)) <=> 1 >= TEXT_SIZE
      BY <2>2, PlainSize DEF Other
    <3>9. ~ (k + 1 > n + 1)
      BY <1>0
    <3> QED BY <2>2, <3>4, <3>7, <3>8, <3>9 DEF ReadTo
  <2> QED BY <2>5, <2>6
<1> QED
  BY <1>3, <1>4, <1>5

\* What follows the first character of a part.
LEMMA BehindQuote ==
  ASSUME IsText(text), NEW k \in 1 .. Len(text), NEW j \in k .. Len(text), NEW b \in k .. j
  PROVE  /\ SubSeq(Part(k, j), 2, b - k + 1) = SubSeq(text, k + 1, b)
         /\ Len(SubSeq(text, k + 1, b)) = b - k
<1> DEFINE n == Len(text)
           p == Part(k, j)
<1>0. n \in Nat /\ text \in Seq(ToSet(text)) /\ k \in 1 .. n + 1 /\ j \in k - 1 .. n /\ k \in Nat /\ j \in Nat /\ b \in Nat
      /\ 1 <= k /\ k <= b /\ b <= j /\ j <= n
  BY DEF IsText
<1>1. p \in Seq(ToSet(text)) /\ Len(p) = j - k + 1 /\ \A i \in 1 .. j - k + 1 : p[i] = text[k + i - 1]
  BY <1>0, PartIs DEF Part
<1>2. k + 1 \in 1 .. n + 1 /\ b \in (k + 1) - 1 .. n
  BY <1>0
<1>3. /\ SubSeq(text, k + 1, b) \in Seq(ToSet(text)) /\ Len(SubSeq(text, k + 1, b)) = b - (k + 1) + 1
      /\ \A i \in 1 .. b - (k + 1) + 1 : SubSeq(text, k + 1, b)[i] = text[(k + 1) + i - 1]
  BY <1>0, <1>2, PartIs
<1> HIDE DEF p
<1>4. 2 \in 1 .. Len(p) + 1 /\ b - k + 1 \in 2 - 1 .. Len(p)
  BY <1>0, <1>1
<1>5. /\ SubSeq(p, 2, b - k + 1) \in Seq(ToSet(text)) /\ Len(SubSeq(p, 2, b - k + 1)) = (b - k + 1) - 2 + 1
      /\ \A i \in 1 .. (b - k + 1) - 2 + 1 : SubSeq(p, 2, b - k + 1)[i] = p[2 + i - 1]
  BY <1>1, <1>4, PartIs
<1>6. (b - k + 1) - 2 + 1 = b - k /\ b - (k + 1) + 1 = b - k
  BY <1>0
<1>7. ASSUME NEW i \in 1 .. b - k PROVE SubSeq(p, 2, b - k + 1)[i] = SubSeq(text, k + 1, b)[i]
  <2>1. 2 + i - 1 \in 1 .. j - k + 1 /\ k + (2 + i - 1) - 1 = (k + 1) + i - 1
    BY <1>0
  <2>2. SubSeq(p, 2, b - k + 1)[i] = p[2 + i - 1] /\ SubSeq(text, k + 1, b)[i] = text[(k + 1) + i - 1]
    BY <1>3, <1>5, <1>6
  <2>3. p[2 + i - 1] = text[k + (2 + i - 1) - 1]
    BY <1>1, <2>1
  <2> QED BY <2>1, <2>2, <2>3
<1>8. SubSeq(p, 2, b - k + 1) = SubSeq(text, k + 1, b)
  BY <1>3, <1>5, <1>6, <1>7, SeqEqual
<1> QED
  BY <1>3, <1>6, <1>8 DEF p

\* No lexeme but a closed string begins with a quote.
LEMMA QuotedLexeme ==
  ASSUME IsText(text), NEW k \in 1 .. Len(text), text[k] \in Quotes, NEW j \in k .. Len(text)
  PROVE  /\ Lexeme(Part(k, j)) <=> Closed(Part(k, j))
         /\ TokenOf(Part(k, j)) = Spelt("STR", Inside(Part(k, j))) /\ Part(k, j)[1] \in Quotes
<1>1. text[k] \notin Digits /\ text[k] \notin Letters /\ text[k] \notin Operators1 /\ text[k] # "."
  BY Kinds
<1>2. ~ IsNumber(k, j) /\ ~ IsWord(k, j)
  BY <1>1 DEF IsNumber, IsWord
<1>3. ~ IsForm(k, j)
  <2>1. ~ (<<text[k], text[k + 1]>> \in Operators2)
    BY <1>1, Pairs2
  <2>2. ~ (<<text[k], text[k + 1], text[k + 2]>> \in Operators3)
    BY <1>1, Triples3
  <2> QED BY <1>1, <2>1, <2>2 DEF IsForm
<1>4. ~ NumberForm(Part(k, j)) /\ ~ Word(Part(k, j)) /\ Part(k, j) \notin OperatorForms
  BY <1>2, <1>3, PartKinds
<1>5. Part(k, j)[1] \in Quotes
  BY PartBegins
<1> QED
  BY <1>4, <1>5 DEF Lexeme, TokenOf

\* Strings.
LEMMA StringRead ==
  ASSUME IsText(text), NEW k \in 1 .. Len(text), text[k] \in Quotes
  PROVE  ReadTo(k, LexemeEnd(text, k), StringAt(k))
<1> DEFINE n == Len(text)
           q == text[k]
           c == StringEnd(k + 1, q)
<1>0. n \in Nat /\ k \in Nat /\ 1 <= k /\ k <= n
  BY DEF IsText
<1>1. EndsFrom(k, k + 1, q, c)
  BY Kinds, StringEndFinds
<1>2. Char(k) = q /\ q # NUL
  BY <1>0, CharIs
<1>3. StringAt(k) = Scanned(Spelt("STR", SubSeq(text, k + 1, Min({c - 1, n}))), IF Char(c) = q THEN c + 1 ELSE c, c - k - 1)
  BY <1>2 DEF StringAt
<1> HIDE DEF c
<1>4. /\ StringAt(k).token = Spelt("STR", SubSeq(text, k + 1, Min({c - 1, n})))
      /\ StringAt(k).next = IF Char(c) = q THEN c + 1 ELSE c
      /\ StringAt(k).length = c - k - 1
  BY <1>3 DEF Scanned
<1>5. c \in k + 1 .. n + 2 /\ \A i \in k + 1 .. c - 1 : i <= n => text[i] # q \/ EscapedIn(k, i)
  BY <1>1 DEF EndsFrom
<1>6. c \in Nat /\ c > 0 /\ c > k
  BY <1>0, <1>5
<1>7. CASE c <= n
  <2>1. text[c] = q /\ ~ EscapedIn(k, c) /\ c \in k .. n /\ c > k
    BY <1>0, <1>1, <1>6, <1>7 DEF EndsFrom
  <2>2. Closed(Part(k, c))
    <3>1. \A i \in k + 1 .. c - 1 : i <= n
      BY <1>0, <1>6, <1>7
    <3> QED BY <1>5, <2>1, <3>1, ClosedIs DEF Part
  <2>3. ASSUME NEW j \in c + 1 .. n, Lexeme(Part(k, j)) PROVE FALSE
    <3>1. j \in k .. n /\ c \in k + 1 .. j - 1
      BY <1>0, <2>1
    <3>2. Closed(Part(k, j))
      BY <2>3, <3>1, QuotedLexeme
    <3> QED BY <2>1, <3>1, <3>2, ClosedIs DEF Part
  <2>4. Lexeme(Part(k, c))
    BY <2>1, <2>2, QuotedLexeme
  <2>5. LexemeEnd(text, k) = c
    BY <2>1, <2>3, <2>4, LongestIs
  <2>6. Len(Part(k, c)) = c - k + 1 /\ Part(k, c)[1] \in Quotes
    BY <2>1, PartBegins
  <2>7. Inside(Part(k, c)) = SubSeq(text, k + 1, c - 1) /\ Len(SubSeq(text, k + 1, c - 1)) = c - k - 1
    <3>1. c - 1 \in k .. c /\ (c - 1) - k + 1 = (c - k + 1) - 1 /\ (c - 1) - k = c - k - 1
      BY <1>0, <1>6
    <3>2. SubSeq(Part(k, c), 2, (c - 1) - k + 1) = SubSeq(text, k + 1, c - 1) /\ Len(SubSeq(text, k + 1, c - 1)) = (c - 1) - k
      BY <2>1, <3>1, BehindQuote
    <3>3. Inside(Part(k, c)) = SubSeq(Part(k, c), 2, Len(Part(k, c)) - 1)
      BY <2>2, <2>6 DEF Inside
    <3> QED BY <2>6, <3>1, <3>2, <3>3
  <2>8. Min({c - 1, n}) = c - 1
    <3>1. {c - 1, n} \in SUBSET Nat /\ c - 1 \in {c - 1, n} /\ \A m \in {c - 1, n} : c - 1 <= m
      BY <1>0, <1>6, <1>7
    <3> QED BY <3>1, MinOf
  <2>9. Char(c) = q
    BY <1>6, <1>7, <2>1, CharIs
  <2>10. Large(Part(k, c)) <=> c - k - 1 >= TEXT_SIZE
    BY <2>2, <2>7 DEF Large
  <2>11. TokenOf(Part(k, c)) = Spelt("STR", SubSeq(text, k + 1, c - 1))
    BY <2>1, <2>7, QuotedLexeme
  <2>12. ~ (c + 1 > n + 1)
    BY <1>0, <1>6, <1>7
  <2> QED BY <1>4, <2>1, <2>5, <2>8, <2>9, <2>10, <2>11, <2>12 DEF ReadTo
<1>8. CASE ~ (c <= n)
  <2>1. n \in k .. n /\ (c = n + 1 \/ c = n + 2) /\ c > n
    BY <1>0, <1>5, <1>8
  <2>2. ASSUME NEW j \in k .. n PROVE ~ Closed(Part(k, j))
    <3>1. j > k => j \in k + 1 .. c - 1 /\ j <= n
      BY <1>0, <2>1
    <3> QED BY <1>5, <3>1, ClosedIs DEF Part
  <2>3. LexemeEnd(text, k) = n
    <3>1. \A j \in k .. n : ~ Lexeme(Part(k, j))
      BY <2>2, QuotedLexeme
    <3> QED BY <3>1, NoLexeme
  <2>4. Len(Part(k, n)) = n - k + 1 /\ Part(k, n)[1] \in Quotes /\ ~ Closed(Part(k, n))
    BY <2>1, <2>2, PartBegins
  <2>5. Inside(Part(k, n)) = SubSeq(text, k + 1, n) /\ Len(SubSeq(text, k + 1, n)) = n - k
    <3>1. SubSeq(Part(k, n), 2, n - k + 1) = SubSeq(text, k + 1, n) /\ Len(SubSeq(text, k + 1, n)) = n - k
      BY <2>1, BehindQuote
    <3> QED BY <2>4, <3>1 DEF Inside
  <2>6. Escaped(Part(k, n), Len(Part(k, n)) + 1) <=> c = n + 2
    <3>1. (n + 1) - k + 1 = (n - k + 1) + 1
      BY <1>0
    <3>2. c = n + 2 <=> EscapedIn(k, n + 1)
      BY <1>1, <2>1 DEF EndsFrom
    <3>3. EscapedIn(k, n + 1) <=> Escaped(Part(k, n), (n + 1) - k + 1)
      BY DEF EscapedIn, Rest, Part
    <3> QED BY <2>4, <3>1, <3>2, <3>3
  <2>7. Large(Part(k, n)) <=> n - k >= TEXT_SIZE \/ c = n + 2
    BY <2>4, <2>5, <2>6 DEF Large
  <2>8. StringAt(k).next = c
    <3>1. Char(c) = NUL
      BY <1>6, <1>8, CharIs
    <3> QED BY <1>2, <1>4, <3>1
  <2>9. CASE c = n + 2
    <3>1. c > n + 1
      BY <1>0, <2>9
    <3> QED BY <2>1, <2>3, <2>7, <2>8, <2>9, <3>1 DEF ReadTo
  <2>10. CASE c = n + 1
    <3>1. Min({c - 1, n}) = n
      <4>1. {c - 1, n} \in SUBSET Nat /\ n \in {c - 1, n} /\ \A m \in {c - 1, n} : n <= m
        BY <1>0, <2>10
      <4> QED BY <4>1, MinOf
    <3>2. StringAt(k).length = n - k /\ ~ (c > n + 1) /\ c # n + 2
      BY <1>0, <1>4, <2>10
    <3>3. TokenOf(Part(k, n)) = Spelt("STR", SubSeq(text, k + 1, n))
      BY <2>1, <2>5, QuotedLexeme
    <3>4. StringAt(k).token = TokenOf(Part(k, n))
      BY <1>4, <3>1, <3>3
    <3> QED BY <2>1, <2>3, <2>7, <2>8, <2>10, <3>2, <3>4 DEF ReadTo
  <2> QED BY <2>1, <2>9, <2>10
<1> QED
  BY <1>7, <1>8

\* Whatever begins at a place.
LEMMA TokenRead ==
  ASSUME IsText(text), NEW k \in 1 .. Len(text)
  PROVE  ReadTo(k, LexemeEnd(text, k), TokenAt(k))
<1>1. Char(k) = text[k]
  <2>1. k \in Nat /\ k > 0 /\ k <= Len(text)
    BY DEF IsText
  <2> QED BY <2>1, CharIs
<1>2. CASE text[k] \in Digits \/ (text[k] = "." /\ Char(k + 1) \in Digits)
  <2>1. text[k] \notin Quotes /\ text[k] \notin Letters
    BY <1>2, Kinds
  <2>2. TokenAt(k) = NumberAt(k)
    BY <1>1, <1>2, <2>1 DEF TokenAt
  <2> QED BY <1>2, <2>2, NumberRead
<1>3. CASE text[k] \in Quotes
  <2>1. text[k] \notin Digits /\ text[k] # "." /\ text[k] \notin Letters
    BY <1>3, Kinds
  <2>2. TokenAt(k) = StringAt(k)
    BY <1>1, <1>3, <2>1 DEF TokenAt
  <2> QED BY <1>3, <2>2, StringRead
<1>4. CASE text[k] \in Letters
  <2>1. text[k] \notin Digits /\ text[k] # "." /\ text[k] \notin Quotes
    BY <1>4, Kinds
  <2>2. TokenAt(k) = WordAt(k)
    BY <1>1, <1>4, <2>1 DEF TokenAt
  <2> QED BY <1>4, <2>2, WordRead
<1>5. CASE Other(k)
  <2>1. TokenAt(k) = OperatorAt(k)
    BY <1>1, <1>5 DEF TokenAt, Other
  <2> QED BY <1>5, <2>1, OperatorRead
<1> QED
  BY <1>2, <1>3, <1>4, <1>5 DEF Other

-----------------------------------------------------------------------------
(* The lexemes from a place on.                                             *)

\* Where a line comment ends, and where a block comment may.
LineEnds(k) == {j \in k .. Len(text) : text[j] = "\n"}
BlockEnds(k) == {j \in k + 3 .. Len(text) : text[j - 1] = "*" /\ text[j] = "/"}

\* Behind what begins at a place.
LEMMA BehindIs ==
  ASSUME IsText(text), NEW k \in 1 .. Len(text)
  PROVE  /\ Behind(text, k) \in k + 1 .. Len(text) + 1
         /\ text[k] \in Blanks \cup {"\n"} => Behind(text, k) = k + 1
         /\ LineComment(text, k) => Behind(text, k) = Min(LineEnds(k) \cup {Len(text) + 1})
         /\ BlockComment(text, k) => Behind(text, k) = Min(BlockEnds(k) \cup {Len(text)}) + 1
         /\ ~ Passed(text, k) => Behind(text, k) = LexemeEnd(text, k) + 1
<1> DEFINE n == Len(text)
<1>0. n \in Nat /\ k \in Nat /\ 1 <= k /\ k <= n
  BY DEF IsText
<1>1. CASE text[k] \in Blanks \cup {"\n"}
  <2>1. text[k] # "/"
    BY <1>1 DEF Blanks
  <2>2. ~ LineComment(text, k) /\ ~ BlockComment(text, k) /\ Passed(text, k)
    BY <1>1, <2>1 DEF LineComment, BlockComment, Passed
  <2>3. Behind(text, k) = k + 1
    BY <1>1, <2>2 DEF Behind
  <2>4. k + 1 \in k + 1 .. n + 1
    BY <1>0
  <2> QED BY <2>2, <2>3, <2>4
<1>2. CASE LineComment(text, k)
  <2>1. text[k] = "/" /\ ~ BlockComment(text, k) /\ Passed(text, k)
    BY <1>2 DEF LineComment, BlockComment, Passed
  <2>2. text[k] \notin Blanks \cup {"\n"}
    BY <2>1 DEF Blanks
  <2>3. Behind(text, k) = Min(LineEnds(k) \cup {n + 1})
    BY <1>2, <2>1, <2>2 DEF Behind, LineEnds
  <2>4. \A j \in LineEnds(k) \cup {n + 1} : j \in k + 1 .. n + 1
    <3>1. k \notin LineEnds(k)
      BY <2>2 DEF LineEnds
    <3>2. \A j \in LineEnds(k) : j \in k .. n
      BY DEF LineEnds
    <3> QED BY <1>0, <3>1, <3>2
  <2>5. LineEnds(k) \cup {n + 1} \in SUBSET Nat
    BY <1>0, <2>4
  <2>6. Min(LineEnds(k) \cup {n + 1}) \in LineEnds(k) \cup {n + 1}
    BY <2>5, MinIs
  <2>7. Min(LineEnds(k) \cup {n + 1}) \in k + 1 .. n + 1
    BY <2>4, <2>6
  <2> QED BY <1>2, <2>1, <2>2, <2>3, <2>7
<1>3. CASE BlockComment(text, k)
  <2>1. text[k] = "/" /\ k < n /\ ~ LineComment(text, k) /\ Passed(text, k)
    BY <1>3 DEF LineComment, BlockComment, Passed
  <2>2. text[k] \notin Blanks \cup {"\n"}
    BY <2>1 DEF Blanks
  <2>3. Behind(text, k) = Min(BlockEnds(k) \cup {n}) + 1
    BY <1>3, <2>1, <2>2 DEF Behind, BlockEnds
  <2>4. \A j \in BlockEnds(k) \cup {n} : j \in k .. n
    <3>1. \A j \in BlockEnds(k) : j \in k + 3 .. n
      BY DEF BlockEnds
    <3> QED BY <1>0, <3>1
  <2>5. BlockEnds(k) \cup {n} \in SUBSET Nat
    BY <1>0, <2>4
  <2>6. Min(BlockEnds(k) \cup {n}) \in BlockEnds(k) \cup {n}
    BY <2>5, MinIs
  <2>7. Min(BlockEnds(k) \cup {n}) + 1 \in k + 1 .. n + 1
    <3>1. Min(BlockEnds(k) \cup {n}) \in k .. n
      BY <2>4, <2>6
    <3> QED BY <1>0, <3>1
  <2> QED BY <1>3, <2>1, <2>2, <2>3, <2>7
<1>4. CASE ~ Passed(text, k)
  <2>1. text[k] \notin Blanks \cup {"\n"} /\ ~ LineComment(text, k) /\ ~ BlockComment(text, k)
    BY <1>4 DEF Passed
  <2>2. Behind(text, k) = LexemeEnd(text, k) + 1
    BY <2>1 DEF Behind
  <2>3. LexemeEnd(text, k) \in k .. n
    BY TokenRead DEF ReadTo
  <2>4. LexemeEnd(text, k) + 1 \in k + 1 .. n + 1
    BY <1>0, <2>3
  <2> QED BY <2>1, <2>2, <2>4
<1> QED
  BY <1>1, <1>2, <1>3, <1>4 DEF Passed

\* Lists of lexemes.
Lists == Seq(Seq(ToSet(text)))

\* What the definition says of a place.
LexemesForm(g, k) ==
  IF k > Len(text) THEN << >>
  ELSE IF Passed(text, k) THEN g[Behind(text, k)]
  ELSE <<SubSeq(text, k, Behind(text, k) - 1)>> \o g[Behind(text, k)]

\* LexemesFrom is as its definition says.
LEMMA LexemesFromIs ==
  ASSUME IsText(text)
  PROVE  \E f \in [1 .. Len(text) + 1 -> Lists] :
           \A k \in 1 .. Len(text) + 1 : f[k] = LexemesForm(f, k) /\ LexemesFrom(text, k) = f[k]
<1> DEFINE n == Len(text)
           S == 1 .. n + 1
           height == [k \in S |-> n + 1 - k]
           Body == [g \in [S -> Lists] |-> [k \in S |-> LexemesForm(g, k)]]
<1>0. n \in Nat
  BY DEF IsText
<1>1. ASSUME NEW k \in S, ~ (k > n) PROVE k \in 1 .. n /\ Behind(text, k) \in S /\ n + 1 - Behind(text, k) < n + 1 - k
  <2>1. k \in 1 .. n
    BY <1>0, <1>1
  <2>2. Behind(text, k) \in k + 1 .. n + 1
    BY <2>1, BehindIs
  <2> QED BY <1>0, <2>1, <2>2
<1>2. height \in [S -> Nat]
  BY <1>0
<1>3. ASSUME NEW g \in [S -> Lists], NEW k \in S PROVE LexemesForm(g, k) \in Lists
  <2>1. CASE k > n
    BY <2>1, EmptySeq DEF LexemesForm, Lists
  <2>2. CASE ~ (k > n)
    <3>1. g[Behind(text, k)] \in Lists
      BY <1>1, <2>2
    <3>2. SubSeq(text, k, Behind(text, k) - 1) \in Seq(ToSet(text))
      <4>1. k \in 1 .. n + 1 /\ Behind(text, k) - 1 \in k - 1 .. n /\ text \in Seq(ToSet(text))
        <5>1. Behind(text, k) \in k + 1 .. n + 1
          BY <1>1, <2>2, BehindIs
        <5> QED BY <1>0, <5>1 DEF IsText
      <4> QED BY <4>1, PartIs
    <3>3. <<SubSeq(text, k, Behind(text, k) - 1)>> \in Lists
      BY <3>2 DEF Lists
    <3>4. <<SubSeq(text, k, Behind(text, k) - 1)>> \o g[Behind(text, k)] \in Lists
      BY <3>1, <3>3, ConcatProperties DEF Lists
    <3> QED BY <2>2, <3>1, <3>4 DEF LexemesForm
  <2> QED BY <2>1, <2>2
<1>4. ASSUME NEW g, NEW h, NEW k \in S, \A i \in S : height[i] < height[k] => g[i] = h[i]
      PROVE  LexemesForm(g, k) = LexemesForm(h, k)
  <2>1. CASE k > n
    BY <2>1 DEF LexemesForm
  <2>2. CASE ~ (k > n)
    <3>1. Behind(text, k) \in S /\ height[Behind(text, k)] < height[k]
      BY <1>1, <2>2
    <3>2. g[Behind(text, k)] = h[Behind(text, k)]
      BY <1>4, <3>1
    <3> QED BY <2>2, <3>2 DEF LexemesForm
  <2> QED BY <2>1, <2>2
<1> HIDE DEF height, S
<1>5. Recursion(S, Lists, height, Body)
  <2>1. Body \in [[S -> Lists] -> [S -> Lists]]
    BY <1>3
  <2>2. \A g, h \in [S -> Lists], k \in S : (\A i \in S : height[i] < height[k] => g[i] = h[i]) => Body[g][k] = Body[h][k]
    BY <1>4
  <2> HIDE DEF Body
  <2> QED BY <1>2, <2>1, <2>2 DEF Recursion
<1>6. PICK f \in [S -> Lists] : f = Body[f]
  <2>1. Lists # {}
    BY EmptySeq DEF Lists
  <2> HIDE DEF Body
  <2> QED BY <1>5, <2>1, SolutionExists
<1>7. \A k \in S : f[k] = LexemesForm(f, k)
  BY <1>6
<1> DEFINE Solution(g) == g = [k \in S |-> LexemesForm(g, k)]
           rest == CHOOSE g : Solution(g)
<1>8. Solution(f)
  <2>1. f = [k \in S |-> f[k]]
    BY <1>6
  <2> QED BY <1>7, <2>1
<1>9. Solution(rest)
  <2> HIDE DEF Solution
  <2> QED BY <1>8
<1>10. \A k \in S : LexemesFrom(text, k) = rest[k]
  BY DEF LexemesFrom, LexemesForm, S
<1>11. S \subseteq {k \in S : rest[k] = f[k]}
  <2> DEFINE T == {k \in S : rest[k] = f[k]}
  <2> HIDE DEF rest
  <2>1. \A k \in S : rest[k] = LexemesForm(rest, k)
    BY <1>9
  <2>2. ASSUME NEW k \in S, \A i \in S : height[i] < height[k] => i \in T PROVE k \in T
    <3>1. \A i \in S : height[i] < height[k] => rest[i] = f[i]
      BY <2>2
    <3>2. LexemesForm(rest, k) = LexemesForm(f, k)
      BY <1>4, <3>1
    <3> QED BY <1>7, <2>1, <3>2
  <2> HIDE DEF T
  <2>3. Climbs(S, height, T)
    BY <1>2, <2>2 DEF Climbs
  <2>4. S \subseteq T
    BY <2>3, HeightInduction
  <2> QED BY <2>4 DEF T
<1>12. \A k \in S : LexemesFrom(text, k) = f[k]
  <2> HIDE DEF rest
  <2> QED BY <1>10, <1>11
<1> QED
  BY <1>6, <1>7, <1>12 DEF S

\* Nothing at the end; nothing but what follows, at a blank or a comment; a lexeme
\* elsewhere.
LEMMA LexemesStep ==
  ASSUME IsText(text)
  PROVE  /\ LexemesFrom(text, Len(text) + 1) = << >>
         /\ \A k \in 1 .. Len(text) + 1 : LexemesFrom(text, k) \in Lists
         /\ \A k \in 1 .. Len(text) : Passed(text, k) => LexemesFrom(text, k) = LexemesFrom(text, Behind(text, k))
         /\ \A k \in 1 .. Len(text) : ~ Passed(text, k) =>
              LexemesFrom(text, k) = <<Part(k, LexemeEnd(text, k))>> \o LexemesFrom(text, LexemeEnd(text, k) + 1)
<1>0. Len(text) \in Nat
  BY DEF IsText
<1>1. PICK f \in [1 .. Len(text) + 1 -> Lists] :
        \A k \in 1 .. Len(text) + 1 : f[k] = LexemesForm(f, k) /\ LexemesFrom(text, k) = f[k]
  BY LexemesFromIs
<1>2. LexemesFrom(text, Len(text) + 1) = << >>
  <2>1. Len(text) + 1 \in 1 .. Len(text) + 1 /\ Len(text) + 1 > Len(text)
    BY <1>0
  <2>2. LexemesFrom(text, Len(text) + 1) = LexemesForm(f, Len(text) + 1)
    BY <1>1, <2>1
  <2> QED BY <2>1, <2>2 DEF LexemesForm
<1>3. ASSUME NEW k \in 1 .. Len(text)
      PROVE  /\ Passed(text, k) => LexemesFrom(text, k) = LexemesFrom(text, Behind(text, k))
             /\ ~ Passed(text, k) =>
                  LexemesFrom(text, k) = <<Part(k, LexemeEnd(text, k))>> \o LexemesFrom(text, LexemeEnd(text, k) + 1)
  <2>1. k \in 1 .. Len(text) + 1 /\ ~ (k > Len(text))
    BY <1>0
  <2>2. Behind(text, k) \in 1 .. Len(text) + 1 /\ (~ Passed(text, k) => Behind(text, k) = LexemeEnd(text, k) + 1)
    <3>1. Behind(text, k) \in k + 1 .. Len(text) + 1 /\ (~ Passed(text, k) => Behind(text, k) = LexemeEnd(text, k) + 1)
      BY BehindIs
    <3> QED BY <1>0, <3>1
  <2>3. LexemesFrom(text, k) = LexemesForm(f, k) /\ LexemesFrom(text, Behind(text, k)) = f[Behind(text, k)]
    BY <1>1, <2>1, <2>2
  <2>4. LexemeEnd(text, k) \in Int
    BY TokenRead DEF ReadTo
  <2>5. ~ Passed(text, k) => SubSeq(text, k, Behind(text, k) - 1) = Part(k, LexemeEnd(text, k))
    <3>1. (LexemeEnd(text, k) + 1) - 1 = LexemeEnd(text, k)
      BY <2>4
    <3> QED BY <2>2, <3>1 DEF Part
  <2>6. Passed(text, k) => LexemesForm(f, k) = f[Behind(text, k)]
    BY <2>1 DEF LexemesForm
  <2>7. ~ Passed(text, k) => LexemesForm(f, k) = <<SubSeq(text, k, Behind(text, k) - 1)>> \o f[Behind(text, k)]
    BY <2>1 DEF LexemesForm
  <2> QED BY <2>2, <2>3, <2>5, <2>6, <2>7
<1> QED
  BY <1>1, <1>2, <1>3

-----------------------------------------------------------------------------
(* The turns of js_tokenize's loop.                                         *)

\* A place in the text or its end.
AtPlace == IsText(text) /\ at \in 1 .. Len(text) + 1

\* The blanks before the token are no lexemes.
LEMMA StartIs ==
  ASSUME AtPlace
  PROVE  /\ Start \in at .. Len(text) + 1 /\ Start \in 1 .. Len(text) + 1
         /\ Start <= Len(text) => text[Start] \notin Blanks
         /\ LexemesFrom(text, at) = LexemesFrom(text, Start)
<1> DEFINE n == Len(text)
<1>0. n \in Nat /\ at \in Nat /\ 1 <= at /\ at <= n + 1 /\ IsText(text) /\ at \in 1 .. n + 1
  BY DEF AtPlace, IsText
<1>1. Start \in at .. n + 1 /\ (Start <= n => text[Start] \notin Blanks) /\ \A j \in at .. Start - 1 : text[j] \in Blanks
  BY <1>0, UntilOther DEF Start
<1>2. Start \in Nat /\ at <= Start /\ Start <= n + 1
  BY <1>0, <1>1
<1> DEFINE T == {d \in Nat : \A j \in at .. Start : Start - j = d => LexemesFrom(text, j) = LexemesFrom(text, Start)}
<1>3. 0 \in T
  <2>1. \A j \in at .. Start : Start - j = 0 => j = Start
    BY <1>0, <1>2
  <2> QED BY <2>1
<1>4. ASSUME NEW d \in T PROVE d + 1 \in T
  <2> SUFFICES ASSUME NEW j \in at .. Start, Start - j = d + 1 PROVE LexemesFrom(text, j) = LexemesFrom(text, Start)
    OBVIOUS
  <2>1. j \in at .. Start - 1 /\ j \in 1 .. n /\ j + 1 \in at .. Start /\ Start - (j + 1) = d
    BY <1>0, <1>2
  <2>2. LexemesFrom(text, j + 1) = LexemesFrom(text, Start)
    BY <2>1
  <2>3. text[j] \in Blanks \cup {"\n"}
    BY <1>1, <2>1
  <2>4. Behind(text, j) = j + 1 /\ Passed(text, j)
    BY <1>0, <2>1, <2>3, BehindIs DEF Passed
  <2>5. LexemesFrom(text, j) = LexemesFrom(text, Behind(text, j))
    BY <1>0, <2>1, <2>4, LexemesStep
  <2> QED BY <2>2, <2>4, <2>5
<1>5. T = Nat
  <2>1. T \in SUBSET Nat
    OBVIOUS
  <2> HIDE DEF T
  <2> QED BY <1>3, <1>4, <2>1, Induction
<1>6. Start - at \in T /\ at \in at .. Start
  <2>1. Start - at \in Nat /\ at \in at .. Start
    BY <1>0, <1>2
  <2> HIDE DEF T
  <2> QED BY <1>5, <2>1
<1>7. Start \in 1 .. n + 1
  BY <1>0, <1>2
<1> QED
  BY <1>1, <1>6, <1>7

\* What the characters at Start tell.
LEMMA StartKinds ==
  ASSUME AtPlace
  PROVE  /\ Char(Start) = NUL <=> Start = Len(text) + 1
         /\ Char(Start) # NUL => Start \in 1 .. Len(text) /\ Char(Start) = text[Start]
         /\ AtLineComment => LineComment(text, Start)
         /\ AtBlockComment => BlockComment(text, Start)
         /\ AtToken => ~ Passed(text, Start)
<1> DEFINE n == Len(text)
<1>0. n \in Nat /\ IsText(text)
  BY DEF AtPlace, IsText
<1>1. Start \in 1 .. n + 1 /\ (Start <= n => text[Start] \notin Blanks)
  BY StartIs
<1>2. Start \in Nat /\ Start > 0 /\ Start + 1 \in Nat /\ Start + 1 > 0
  BY <1>0, <1>1
<1>3. IF Start <= n THEN Char(Start) = text[Start] /\ Char(Start) # NUL ELSE Char(Start) = NUL
  BY <1>0, <1>2, CharIs
<1>4. IF Start + 1 <= n THEN Char(Start + 1) = text[Start + 1] /\ Char(Start + 1) # NUL ELSE Char(Start + 1) = NUL
  BY <1>0, <1>2, CharIs
<1>5. /\ Char(Start) = NUL <=> Start = n + 1
      /\ Char(Start) # NUL => Start \in 1 .. n /\ Char(Start) = text[Start]
  BY <1>0, <1>1, <1>3
<1>6. Start + 1 <= n <=> Start < n
  BY <1>0, <1>2
<1>7. "/" # NUL /\ "*" # NUL
  BY DEF NUL
<1>8. (AtLineComment => LineComment(text, Start)) /\ (AtBlockComment => BlockComment(text, Start))
  BY <1>4, <1>5, <1>6, <1>7 DEF AtLineComment, LineComment, AtBlockComment, BlockComment
<1>9. ASSUME AtToken PROVE ~ Passed(text, Start)
  <2>1. Start \in 1 .. n /\ Char(Start) = text[Start] /\ Char(Start) # "\n" /\ ~ AtLineComment /\ ~ AtBlockComment
    BY <1>5, <1>9 DEF AtToken
  <2>2. Start <= n
    BY <2>1
  <2>3. ~ LineComment(text, Start) /\ ~ BlockComment(text, Start)
    BY <1>4, <1>6, <2>1 DEF LineComment, BlockComment, AtLineComment, AtBlockComment
  <2> QED BY <1>1, <2>1, <2>2, <2>3 DEF Passed
<1> QED
  BY <1>5, <1>8, <1>9

\* A line's end or a comment is passed over.
LEMMA LinePassed ==
  ASSUME AtPlace, SkipLine
  PROVE  at' \in 1 .. Len(text) + 1 /\ LexemesFrom(text, at') = LexemesFrom(text, at)
<1> DEFINE n == Len(text)
<1>0. n \in Nat /\ IsText(text)
  BY DEF AtPlace, IsText
<1>1. Start \in 1 .. n + 1 /\ LexemesFrom(text, at) = LexemesFrom(text, Start)
  BY StartIs
<1>2. Start \in 1 .. n /\ Passed(text, Start) /\ at' = Behind(text, Start)
  <2>1. CASE Char(Start) = "\n" /\ at' = Start + 1
    <3>1. Char(Start) # NUL
      BY <2>1 DEF NUL
    <3>2. Start \in 1 .. n /\ text[Start] \in Blanks \cup {"\n"}
      BY <2>1, <3>1, StartKinds
    <3> QED BY <1>0, <2>1, <3>2, BehindIs DEF Passed
  <2>2. CASE AtLineComment /\ at' = Until(Start, {j \in 1 .. n : text[j] = "\n"})
    <3>1. Char(Start) # NUL
      BY <2>2 DEF NUL, AtLineComment
    <3>2. Start \in 1 .. n /\ LineComment(text, Start)
      BY <2>2, <3>1, StartKinds
    <3>3. {j \in {i \in 1 .. n : text[i] = "\n"} : j >= Start} = LineEnds(Start)
      <4>1. \A j \in 1 .. n : j >= Start => j \in Start .. n
        BY <3>2
      <4>2. \A j \in Start .. n : j \in 1 .. n /\ j >= Start
        BY <3>2
      <4> QED BY <4>1, <4>2 DEF LineEnds
    <3>4. Until(Start, {j \in 1 .. n : text[j] = "\n"}) = Min(LineEnds(Start) \cup {n + 1})
      BY <3>3 DEF Until
    <3> QED BY <1>0, <2>2, <3>2, <3>4, BehindIs DEF Passed
  <2> QED BY <2>1, <2>2 DEF SkipLine
<1>3. LexemesFrom(text, Start) = LexemesFrom(text, Behind(text, Start)) /\ Behind(text, Start) \in Start + 1 .. n + 1
  BY <1>0, <1>2, LexemesStep, BehindIs
<1>4. at' \in 1 .. n + 1
  BY <1>0, <1>2, <1>3
<1> QED
  BY <1>1, <1>2, <1>3, <1>4

\* So is a block comment.
LEMMA BlockPassed ==
  ASSUME AtPlace, SkipBlockComment
  PROVE  at' \in 1 .. Len(text) + 1 /\ LexemesFrom(text, at') = LexemesFrom(text, at)
<1> DEFINE n == Len(text)
           P == {j \in 1 .. n : text[j] = "*" /\ Char(j + 1) = "/"}
           e == Until(Start + 2, P)
<1>0. n \in Nat /\ IsText(text)
  BY DEF AtPlace, IsText
<1>1. Start \in 1 .. n + 1 /\ LexemesFrom(text, at) = LexemesFrom(text, Start)
  BY StartIs
<1>2. at' = IF Char(e) = NUL THEN e ELSE e + 2
  BY DEF SkipBlockComment
<1>3. Start \in 1 .. n /\ BlockComment(text, Start) /\ Start < n /\ Start \in Nat
  <2>1. AtBlockComment /\ Char(Start) # NUL
    BY DEF SkipBlockComment, AtBlockComment, NUL
  <2>2. Start \in 1 .. n /\ BlockComment(text, Start)
    BY <2>1, StartKinds
  <2> QED BY <2>2 DEF BlockComment
<1>4. P \in SUBSET (1 .. n)
  OBVIOUS
<1>5. ASSUME NEW j \in 1 .. n PROVE j \in P <=> j + 1 <= n /\ text[j] = "*" /\ text[j + 1] = "/"
  <2>1. j + 1 \in Nat /\ j + 1 > 0 /\ "/" # NUL
    BY DEF NUL
  <2>2. IF j + 1 <= n THEN Char(j + 1) = text[j + 1] /\ Char(j + 1) # NUL ELSE Char(j + 1) = NUL
    BY <1>0, <2>1, CharIs
  <2> QED BY <2>1, <2>2
<1> HIDE DEF P
<1>6. e \in Start + 2 .. n + 1 /\ (e <= n => e \in P) /\ \A j \in Start + 2 .. e - 1 : j \notin P
  <2>1. Start + 2 \in 1 .. n + 1
    BY <1>0, <1>3
  <2> QED BY <1>0, <1>4, <2>1, UntilIs
<1> HIDE DEF e
<1>7. at' = Behind(text, Start)
  <2>1. Behind(text, Start) = Min(BlockEnds(Start) \cup {n}) + 1
    BY <1>0, <1>3, BehindIs
  <2>2. ASSUME NEW j \in BlockEnds(Start) PROVE j \in Start + 3 .. n /\ j - 1 \in P /\ j - 1 >= e
    <3>1. j \in Start + 3 .. n /\ text[j - 1] = "*" /\ text[j] = "/"
      BY DEF BlockEnds
    <3>2. j - 1 \in 1 .. n /\ (j - 1) + 1 = j /\ j <= n /\ j - 1 \in Start + 2 .. n
      BY <1>0, <1>3, <3>1
    <3>3. j - 1 \in P
      BY <1>5, <3>1, <3>2
    <3>4. ~ (j - 1 \in Start + 2 .. e - 1)
      BY <1>6, <3>3
    <3>5. j - 1 >= e
      BY <1>3, <1>6, <3>2, <3>4
    <3> QED BY <3>1, <3>3, <3>5
  <2>3. e \in Nat /\ e > 0
    BY <1>3, <1>6
  <2>4. CASE e <= n
    <3>1. e \in 1 .. n
      BY <2>3, <2>4
    <3>2. e + 1 <= n /\ text[e] = "*" /\ text[e + 1] = "/"
      BY <1>5, <1>6, <2>4, <3>1
    <3>3. e + 1 \in BlockEnds(Start)
      <4>1. e + 1 \in Start + 3 .. n /\ (e + 1) - 1 = e
        BY <1>0, <1>3, <1>6, <3>2
      <4> QED BY <3>2, <4>1 DEF BlockEnds
    <3>4. ASSUME NEW m \in BlockEnds(Start) \cup {n} PROVE m \in Nat /\ e + 1 <= m
      <4>1. CASE m \in BlockEnds(Start)
        BY <1>3, <2>2, <2>3, <4>1
      <4>2. CASE m = n
        BY <1>0, <3>2, <4>2
      <4> QED BY <4>1, <4>2
    <3>5. Min(BlockEnds(Start) \cup {n}) = e + 1
      BY <3>3, <3>4, MinOf
    <3>6. Char(e) # NUL
      BY <1>0, <2>3, <2>4, CharIs
    <3> QED BY <1>2, <2>1, <2>3, <3>5, <3>6
  <2>5. CASE ~ (e <= n)
    <3>1. e = n + 1
      BY <1>0, <1>3, <1>6, <2>5
    <3>2. BlockEnds(Start) = {}
      <4> SUFFICES ASSUME NEW j \in BlockEnds(Start) PROVE FALSE
        OBVIOUS
      <4>1. j \in Start + 3 .. n /\ j - 1 >= n + 1
        BY <2>2, <3>1
      <4> QED BY <1>0, <1>3, <4>1
    <3>3. Min(BlockEnds(Start) \cup {n}) = n
      <4>1. {n} \in SUBSET Nat /\ n \in {n} /\ \A m \in {n} : n <= m
        BY <1>0
      <4>2. Min({n}) = n
        BY <4>1, MinOf
      <4> QED BY <3>2, <4>2
    <3>4. Char(e) = NUL
      BY <1>0, <2>3, <2>5, CharIs
    <3> QED BY <1>2, <2>1, <3>1, <3>3, <3>4
  <2> QED BY <2>4, <2>5
<1>8. LexemesFrom(text, Start) = LexemesFrom(text, Behind(text, Start)) /\ Behind(text, Start) \in Start + 1 .. n + 1
  BY <1>0, <1>3, LexemesStep, BehindIs DEF Passed
<1>9. at' \in 1 .. n + 1
  BY <1>0, <1>3, <1>7, <1>8
<1> QED
  BY <1>1, <1>7, <1>8, <1>9

-----------------------------------------------------------------------------
(* The tokens.                                                              *)

\* The tokens of lexemes.
TokensOf(list) == [i \in 1 .. Len(list) |-> TokenOf(list[i])]
\* What the list and the result should be.
Verdict(list, verdict, made) ==
  LET early == \E i \in 1 .. Len(list) : i <= MAX_TOKENS /\ Large(list[i])
  IN /\ verdict = IF early \/ Len(list) = MAX_TOKENS THEN "undefined"
                  ELSE IF Len(list) > MAX_TOKENS THEN "too many" ELSE "ok"
     /\ verdict = "ok" => made = Append(TokensOf(list), <<"EOF", "EOF">>)

\* They are what js_tokenize should give.
LEMMA VerdictIs ==
  TokensOfTheText <=> (result # "none" => Verdict(Lexemes(text), result, lexed))
BY DEF TokensOfTheText, Verdict, TokensOf

\* So in the next state.
LEMMA VerdictNext ==
  TokensOfTheText' <=> (result' # "none" => Verdict(Lexemes(text'), result', lexed'))
BY DEF TokensOfTheText, Verdict, TokensOf

\* The lexemes up to the place are scanned, and none of them is too large.
Scanning(list) ==
  /\ list \in Lists /\ Len(list) <= MAX_TOKENS /\ \A i \in 1 .. Len(list) : ~ Large(list[i])
  /\ Lexemes(text) = list \o LexemesFrom(text, at)
  /\ lexed = TokensOf(list)

\* The inductive invariant.
LexInv ==
  /\ IsText(text) /\ at \in 1 .. Len(text) + 1
  /\ result = "none" => \E list : Scanning(list)
  /\ TokensOfTheText

\* One lexeme more is one token more.
LEMMA TokensAppend ==
  ASSUME NEW list \in Lists, NEW x \in Seq(ToSet(text))
  PROVE  /\ Append(list, x) \in Lists /\ Len(Append(list, x)) = Len(list) + 1
         /\ \A i \in 1 .. Len(list) + 1 : Append(list, x)[i] = IF i = Len(list) + 1 THEN x ELSE list[i]
         /\ TokensOf(Append(list, x)) = Append(TokensOf(list), TokenOf(x))
<1> DEFINE n == Len(list)
           longer == Append(list, x)
           S == {TokenOf(y) : y \in Seq(ToSet(text))}
           made == TokensOf(list)
<1>0. n \in Nat
  BY DEF Lists
<1>1. longer \in Lists /\ Len(longer) = n + 1 /\ (\A i \in 1 .. n : longer[i] = list[i]) /\ longer[n + 1] = x
  BY AppendProperties DEF Lists
<1>2. ASSUME NEW i \in 1 .. n + 1 PROVE longer[i] = IF i = n + 1 THEN x ELSE list[i]
  <2>1. i = n + 1 \/ i \in 1 .. n
    BY <1>0
  <2>2. ~ (n + 1 \in 1 .. n)
    BY <1>0
  <2> QED BY <1>1, <2>1, <2>2
<1> HIDE DEF longer
<1>3. \A i \in 1 .. n : TokenOf(list[i]) \in S
  BY ElementOfSeq DEF Lists
<1>4. made \in Seq(S) /\ Len(made) = n /\ \A i \in 1 .. n : made[i] = TokenOf(list[i])
  <2>1. made = [i \in 1 .. n |-> TokenOf(list[i])]
    BY DEF TokensOf
  <2> HIDE DEF S, made
  <2>2. made \in [1 .. n -> S]
    BY <1>3, <2>1
  <2>3. made \in Seq(S)
    BY <1>0, <2>2, SeqDef
  <2>4. Len(made) = n
    BY <1>0, <2>2, <2>3
  <2> QED BY <2>1, <2>3, <2>4
<1>5. TokenOf(x) \in S
  OBVIOUS
<1> HIDE DEF made, S
<1> DEFINE more == Append(made, TokenOf(x))
<1>6. more \in Seq(S) /\ Len(more) = n + 1 /\ (\A i \in 1 .. n : more[i] = made[i]) /\ more[n + 1] = TokenOf(x)
  BY <1>4, <1>5, AppendProperties
<1> HIDE DEF more
<1>7. ASSUME NEW i \in 1 .. n + 1 PROVE more[i] = TokenOf(longer[i])
  <2>1. i = n + 1 \/ i \in 1 .. n
    BY <1>0
  <2> QED BY <1>1, <1>4, <1>6, <2>1
<1>8. DOMAIN more = 1 .. n + 1 /\ more = [i \in DOMAIN more |-> more[i]]
  BY <1>6
<1>9. more = TokensOf(longer)
  BY <1>1, <1>7, <1>8 DEF TokensOf
<1> QED
  BY <1>1, <1>2, <1>9 DEF longer, more, made

\* A token is scanned: it is the next lexeme, or that is too large.
LEMMA ScanStep ==
  ASSUME IsText(text), at \in 1 .. Len(text) + 1, NEW list, Scanning(list), result = "none", Scan
  PROVE  LexInv'
<1> DEFINE n == Len(text)
           e == LexemeEnd(text, Start)
           p == Part(Start, e)
           t == TokenAt(Start)
           after == LexemesFrom(text, e + 1)
<1>0. n \in Nat /\ AtPlace /\ MAX_TOKENS \in Nat
  BY LexerAssumption DEF AtPlace, IsText
<1>1. list \in Lists /\ Len(list) \in Nat /\ Len(list) <= MAX_TOKENS /\ Len(lexed) = Len(list)
  <2>1. list \in Lists /\ Len(list) \in Nat /\ Len(list) <= MAX_TOKENS /\ lexed = [i \in 1 .. Len(list) |-> TokenOf(list[i])]
    BY DEF Scanning, Lists, TokensOf
  <2> QED BY <2>1
<1>2. AtToken /\ Len(list) < MAX_TOKENS /\ text' = text
  BY <1>1 DEF Scan
<1>3. Start \in 1 .. n /\ ~ Passed(text, Start) /\ LexemesFrom(text, at) = LexemesFrom(text, Start)
  <2>1. Char(Start) # NUL
    BY <1>2 DEF AtToken
  <2> QED BY <1>0, <1>2, <2>1, StartIs, StartKinds
<1>4. e \in Start .. n /\ (Large(p) <=> t.length >= TEXT_SIZE \/ t.next > n + 1)
      /\ (~ Large(p) => t.next = e + 1 /\ t.token = TokenOf(p))
  BY <1>3, TokenRead DEF ReadTo
<1>5. e + 1 \in 1 .. n + 1 /\ p \in Seq(ToSet(text))
  <2>1. e + 1 \in 1 .. n + 1
    BY <1>3, <1>4
  <2>2. p \in Seq(ToSet(text))
    BY <1>3, <1>4, PartBegins
  <2> QED BY <2>1, <2>2
<1>6. LexemesFrom(text, at) = <<p>> \o after /\ after \in Lists
  BY <1>3, <1>5, LexemesStep
<1> HIDE DEF e, p, t, after
<1>7. <<p>> \in Lists /\ Len(<<p>>) = 1 /\ <<p>>[1] = p
  BY <1>5 DEF Lists
<1>8. Lexemes(text) = list \o (<<p>> \o after)
  BY <1>6 DEF Scanning
<1>9. CASE Large(p)
  <2>1. result' = "undefined" /\ at' = at /\ lexed' = lexed
    BY <1>4, <1>9 DEF Scan, t
  <2>2. <<p>> \o after \in Lists /\ Len(<<p>> \o after) = 1 + Len(after) /\ Len(after) \in Nat /\ (<<p>> \o after)[1] = p
    BY <1>6, <1>7, ConcatProperties DEF Lists
  <2> DEFINE behind == <<p>> \o after
             all == list \o behind
  <2> HIDE DEF behind
  <2>3. behind \in Lists /\ Len(behind) = 1 + Len(after) /\ Len(after) \in Nat /\ behind[1] = p
    BY <2>2 DEF behind
  <2>4. Len(all) = Len(list) + Len(behind) /\ all[Len(list) + 1] = p
    <3>1. Len(all) = Len(list) + Len(behind)
      BY <1>1, <2>3, ConcatProperties DEF Lists
    <3>2. \A i \in 1 .. Len(list) + Len(behind) : all[i] = IF i <= Len(list) THEN list[i] ELSE behind[i - Len(list)]
      BY <1>1, <2>3, ConcatProperties DEF Lists
    <3>3. Len(list) + 1 \in 1 .. Len(list) + Len(behind) /\ ~ (Len(list) + 1 <= Len(list)) /\ (Len(list) + 1) - Len(list) = 1
      BY <1>1, <2>3
    <3> HIDE DEF all
    <3> QED BY <2>3, <3>1, <3>2, <3>3
  <2>5. Lexemes(text) = all
    BY <1>8 DEF behind
  <2> HIDE DEF all
  <2>6. Len(list) + 1 \in 1 .. Len(all) /\ Len(list) + 1 <= MAX_TOKENS
    BY <1>0, <1>1, <1>2, <2>3, <2>4
  <2>7. \E i \in 1 .. Len(all) : i <= MAX_TOKENS /\ Large(all[i])
    BY <1>9, <2>4, <2>6
  <2>8. Verdict(all, "undefined", lexed)
    BY <2>7 DEF Verdict
  <2>9. TokensOfTheText'
    BY <1>2, <2>1, <2>5, <2>8, VerdictNext
  <2> QED BY <1>2, <2>1, <2>9 DEF LexInv, IsText
<1>10. CASE ~ Large(p)
  <2>1. result' = "none" /\ at' = e + 1 /\ lexed' = Append(lexed, TokenOf(p))
    BY <1>4, <1>10 DEF Scan, t
  <2>a. PICK longer : longer = Append(list, p)
    OBVIOUS
  <2>2. /\ longer \in Lists /\ Len(longer) = Len(list) + 1
        /\ \A i \in 1 .. Len(list) + 1 : longer[i] = IF i = Len(list) + 1 THEN p ELSE list[i]
        /\ TokensOf(longer) = Append(TokensOf(list), TokenOf(p))
    BY <1>1, <1>5, <2>a, TokensAppend
  <2>3. Lexemes(text) = longer \o after
    <3>1. longer = list \o <<p>>
      BY <1>1, <1>5, <2>a, AppendIsConcat DEF Lists
    <3>2. (list \o <<p>>) \o after = list \o (<<p>> \o after)
      BY <1>1, <1>6, <1>7, ConcatAssociative DEF Lists
    <3> QED BY <1>8, <3>1, <3>2
  <2>4. ASSUME NEW i \in 1 .. Len(longer) PROVE ~ Large(longer[i])
    <3>1. i = Len(list) + 1 \/ i \in 1 .. Len(list)
      BY <1>1, <2>2
    <3>2. ~ (Len(list) + 1 \in 1 .. Len(list))
      BY <1>1
    <3>3. i \in 1 .. Len(list) + 1
      BY <2>2
    <3>4. i \in 1 .. Len(list) => ~ Large(list[i])
      BY DEF Scanning
    <3> QED BY <1>10, <2>2, <3>1, <3>2, <3>3, <3>4
  <2>5. Len(longer) <= MAX_TOKENS
    BY <1>0, <1>1, <1>2, <2>2
  <2>6. lexed' = TokensOf(longer)
    BY <2>1, <2>2 DEF Scanning
  <2>7. LexemesFrom(text, at') = after
    BY <2>1 DEF after
  <2>8. Scanning(longer)'
    <3>1. Lexemes(text') = longer \o LexemesFrom(text', at')
      BY <1>2, <2>3, <2>7
    <3> QED BY <1>2, <2>2, <2>4, <2>5, <2>6, <3>1 DEF Scanning, Lists, TokensOf
  <2>9. TokensOfTheText'
    BY <2>1 DEF TokensOfTheText
  <2> QED BY <1>2, <1>5, <2>1, <2>8, <2>9 DEF LexInv, IsText
<1> QED
  BY <1>9, <1>10

\* A text with more lexemes than the table has room for is refused.
LEMMA TooManyStep ==
  ASSUME IsText(text), at \in 1 .. Len(text) + 1, NEW list, Scanning(list), result = "none", TooMany
  PROVE  LexInv'
<1> DEFINE n == Len(text)
           e == LexemeEnd(text, Start)
           p == Part(Start, e)
           after == LexemesFrom(text, e + 1)
           behind == <<p>> \o after
           all == list \o behind
<1>0. n \in Nat /\ AtPlace /\ MAX_TOKENS \in Nat
  BY LexerAssumption DEF AtPlace, IsText
<1>1. list \in Lists /\ Len(list) \in Nat /\ Len(list) <= MAX_TOKENS /\ Len(lexed) = Len(list)
  <2>1. list \in Lists /\ Len(list) \in Nat /\ Len(list) <= MAX_TOKENS /\ lexed = [i \in 1 .. Len(list) |-> TokenOf(list[i])]
    BY DEF Scanning, Lists, TokensOf
  <2> QED BY <2>1
<1>2. AtToken /\ Len(list) = MAX_TOKENS /\ text' = text /\ at' = at /\ lexed' = lexed
  <2>1. AtToken /\ Len(lexed) >= MAX_TOKENS /\ text' = text /\ at' = at /\ lexed' = lexed
    BY DEF TooMany
  <2>2. Len(list) = MAX_TOKENS
    BY <1>0, <1>1, <2>1
  <2> QED BY <2>1, <2>2
<1>3. Start \in 1 .. n /\ ~ Passed(text, Start) /\ LexemesFrom(text, at) = LexemesFrom(text, Start)
  <2>1. Char(Start) # NUL
    BY <1>2 DEF AtToken
  <2> QED BY <1>0, <1>2, <2>1, StartIs, StartKinds
<1>4. e \in Start .. n
  BY <1>3, TokenRead DEF ReadTo
<1>5. e + 1 \in 1 .. n + 1 /\ p \in Seq(ToSet(text))
  <2>1. e + 1 \in 1 .. n + 1
    BY <1>3, <1>4
  <2>2. p \in Seq(ToSet(text))
    BY <1>3, <1>4, PartBegins
  <2> QED BY <2>1, <2>2
<1>6. LexemesFrom(text, at) = behind /\ after \in Lists
  BY <1>3, <1>5, LexemesStep
<1> HIDE DEF e, p, after
<1>7. <<p>> \in Lists /\ Len(<<p>>) = 1
  BY <1>5 DEF Lists
<1>8. behind \in Lists /\ Len(behind) = 1 + Len(after) /\ Len(after) \in Nat
  BY <1>6, <1>7, ConcatProperties DEF Lists
<1>9. Lexemes(text) = all
  BY <1>6 DEF Scanning
<1> HIDE DEF behind
<1>10. /\ Len(all) = Len(list) + Len(behind)
       /\ \A i \in 1 .. Len(list) + Len(behind) : all[i] = IF i <= Len(list) THEN list[i] ELSE behind[i - Len(list)]
  <2>1. Len(all) = Len(list) + Len(behind)
    BY <1>1, <1>8, ConcatProperties DEF Lists
  <2>2. \A i \in 1 .. Len(list) + Len(behind) : all[i] = IF i <= Len(list) THEN list[i] ELSE behind[i - Len(list)]
    BY <1>1, <1>8, ConcatProperties DEF Lists
  <2> QED BY <2>1, <2>2
<1> HIDE DEF all
<1>11. ASSUME NEW i \in 1 .. Len(all), i <= MAX_TOKENS PROVE ~ Large(all[i])
  <2>1. i \in 1 .. Len(list) /\ i \in 1 .. Len(list) + Len(behind) /\ i <= Len(list)
    BY <1>0, <1>1, <1>2, <1>8, <1>11, i \in 1 .. Len(all)
  <2>2. all[i] = list[i]
    BY <1>10, <2>1
  <2> QED BY <2>1, <2>2 DEF Scanning
<1>12. Len(all) > MAX_TOKENS /\ Len(all) # MAX_TOKENS
  BY <1>0, <1>2, <1>8, <1>10
<1>13. Verdict(all, "too many", lexed)
  BY <1>11, <1>12 DEF Verdict
<1>14. result' = "too many"
  BY DEF TooMany
<1>15. TokensOfTheText'
  BY <1>2, <1>9, <1>13, <1>14, VerdictNext
<1>16. result' # "none"
  BY <1>14
<1> QED
  BY <1>2, <1>15, <1>16 DEF LexInv, IsText

\* At the end all lexemes are scanned.
LEMMA EndStep ==
  ASSUME IsText(text), at \in 1 .. Len(text) + 1, NEW list, Scanning(list), result = "none", EndOfText
  PROVE  LexInv'
<1> DEFINE n == Len(text)
<1>0. n \in Nat /\ AtPlace /\ MAX_TOKENS \in Nat
  BY LexerAssumption DEF AtPlace, IsText
<1>1. list \in Lists /\ Len(list) \in Nat /\ Len(list) <= MAX_TOKENS /\ Len(lexed) = Len(list) /\ lexed = TokensOf(list)
  <2>1. list \in Lists /\ Len(list) \in Nat /\ Len(list) <= MAX_TOKENS /\ lexed = [i \in 1 .. Len(list) |-> TokenOf(list[i])]
    BY DEF Scanning, Lists, TokensOf
  <2> QED BY <2>1 DEF TokensOf
<1>2. Char(Start) = NUL /\ text' = text /\ at' = at
  BY DEF EndOfText
<1>3. LexemesFrom(text, at) = << >>
  <2>1. Start = n + 1
    BY <1>0, <1>2, StartKinds
  <2>2. LexemesFrom(text, at) = LexemesFrom(text, Start)
    BY <1>0, StartIs
  <2> QED BY <2>1, <2>2, LexemesStep
<1>4. Lexemes(text) = list
  <2>1. list \o << >> = list
    BY <1>1, ConcatEmptySeq DEF Lists
  <2> QED BY <1>3, <2>1 DEF Scanning
<1>5. \A i \in 1 .. Len(list) : ~ Large(list[i])
  BY DEF Scanning
<1>6. CASE Len(lexed) = MAX_TOKENS
  <2>1. result' = "undefined" /\ lexed' = lexed
    BY <1>6 DEF EndOfText
  <2>2. Verdict(list, "undefined", lexed)
    BY <1>1, <1>6 DEF Verdict
  <2>3. TokensOfTheText'
    BY <1>2, <1>4, <2>1, <2>2, VerdictNext
  <2> QED BY <1>2, <2>1, <2>3 DEF LexInv, IsText
<1>7. CASE Len(lexed) # MAX_TOKENS
  <2>1. result' = "ok" /\ lexed' = Append(lexed, <<"EOF", "EOF">>)
    BY <1>7 DEF EndOfText
  <2>2. ~ (Len(list) > MAX_TOKENS) /\ Len(list) # MAX_TOKENS
    BY <1>0, <1>1, <1>7
  <2>3. Verdict(list, "ok", lexed')
    BY <1>1, <1>5, <2>1, <2>2 DEF Verdict
  <2>4. TokensOfTheText'
    BY <1>2, <1>4, <2>1, <2>3, VerdictNext
  <2> QED BY <1>2, <2>1, <2>4 DEF LexInv, IsText
<1> QED
  BY <1>6, <1>7

\* A turn that scans nothing.
LEMMA PassStep ==
  ASSUME IsText(text), at \in 1 .. Len(text) + 1, NEW list, Scanning(list), result = "none", SkipLine \/ SkipBlockComment
  PROVE  LexInv'
<1>1. AtPlace
  BY DEF AtPlace
<1>2. at' \in 1 .. Len(text) + 1 /\ LexemesFrom(text, at') = LexemesFrom(text, at)
  BY <1>1, LinePassed, BlockPassed
<1>3. text' = text /\ lexed' = lexed /\ result' = result
  BY DEF SkipLine, SkipBlockComment
<1>4. Scanning(list)'
  <2>1. Lexemes(text') = list \o LexemesFrom(text', at')
    BY <1>2, <1>3 DEF Scanning
  <2> QED BY <1>3, <2>1 DEF Scanning, Lists, TokensOf
<1>5. TokensOfTheText'
  BY <1>3 DEF TokensOfTheText
<1> QED
  BY <1>2, <1>3, <1>4, <1>5 DEF LexInv, IsText

\* It holds at the beginning.
LEMMA LexInvInit ==
  ASSUME NEW source \in AnyTexts, LexInit(source)
  PROVE  LexInv
<1>1. text = source /\ at = 1 /\ lexed = << >> /\ result = "none"
  BY DEF LexInit
<1>2. IsText(text)
  BY <1>1, LexerAssumption DEF IsText
<1>3. Len(text) \in Nat /\ at \in 1 .. Len(text) + 1
  BY <1>1, <1>2 DEF IsText
<1>4. Scanning(<< >>)
  <2>1. << >> \in Lists /\ Len(<< >>) = 0 /\ MAX_TOKENS \in Nat
    BY LexerAssumption, EmptySeq DEF Lists
  <2>2. LexemesFrom(text, 1) \in Lists
    <3>1. 1 \in 1 .. Len(text) + 1
      BY <1>3
    <3> QED BY <1>2, <3>1, LexemesStep
  <2>3. Lexemes(text) = << >> \o LexemesFrom(text, at)
    BY <1>1, <2>2, ConcatEmptySeq DEF Lexemes, Lists
  <2>4. lexed = TokensOf(<< >>)
    BY <1>1, <2>1 DEF TokensOf
  <2> QED BY <2>1, <2>3, <2>4 DEF Scanning
<1>5. TokensOfTheText
  BY <1>1 DEF TokensOfTheText
<1> QED
  BY <1>2, <1>3, <1>4, <1>5 DEF LexInv

\* Every turn keeps it.
LEMMA LexInvStep ==
  ASSUME LexInv, [Tokenize]_lexing
  PROVE  LexInv'
<1>1. CASE UNCHANGED lexing
  <2>1. text' = text /\ at' = at /\ lexed' = lexed /\ result' = result
    BY <1>1 DEF lexing
  <2>2. ASSUME NEW list, Scanning(list) PROVE Scanning(list)'
    BY <2>1, <2>2 DEF Scanning, Lists, TokensOf
  <2>3. TokensOfTheText'
    BY <2>1 DEF TokensOfTheText, LexInv
  <2> QED BY <2>1, <2>2, <2>3 DEF LexInv, IsText
<1>2. CASE Tokenize
  <2>1. result = "none" /\ IsText(text) /\ at \in 1 .. Len(text) + 1
    BY <1>2 DEF Tokenize, SkipLine, SkipBlockComment, Scan, TooMany, EndOfText, LexInv
  <2>2. PICK list : Scanning(list)
    BY <2>1 DEF LexInv
  <2>3. CASE SkipLine \/ SkipBlockComment
    BY <2>1, <2>2, <2>3, PassStep
  <2>4. CASE Scan
    BY <2>1, <2>2, <2>4, ScanStep
  <2>5. CASE TooMany
    BY <2>1, <2>2, <2>5, TooManyStep
  <2>6. CASE EndOfText
    BY <2>1, <2>2, <2>6, EndStep
  <2> QED BY <1>2, <2>3, <2>4, <2>5, <2>6 DEF Tokenize
<1> QED
  BY <1>1, <1>2

\* js_tokenize makes the longest lexemes of a text into its tokens, whatever the text:
\* no turn of its loop skips one, splits one or reads one twice, and the limits of
\* the table and of a token's text are met where TokensOfTheText says.
THEOREM TokensCorrect == LexSpec => []TokensOfTheText
<1>1. (\E source \in AnyTexts : LexInit(source)) => LexInv
  BY LexInvInit
<1>2. LexInv /\ [Tokenize]_lexing => LexInv'
  BY LexInvStep
<1>3. LexInv => TokensOfTheText
  BY DEF LexInv
<1> QED
  BY <1>1, <1>2, <1>3, PTL DEF LexSpec

=============================================================================
