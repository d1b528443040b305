-------------------------- MODULE KeyExchangeProofs --------------------------
(***************************************************************************)
(* Theorems about KeyExchange, for any width of words, any hash function,  *)
(* any lengths and any secrets.                                            *)
(*                                                                         *)
(* First big numbers: the induction and the recursion they need (numbers   *)
(* by the well-foundedness of finite sets; a recursion by steps has a      *)
(* solution), then each routine on words against the value of its words    *)
(* (shifting, comparing, subtracting, multiplying, reading bytes, counting *)
(* and taking bits), then the inductive invariant of bn_mod_exp,           *)
(* BigNumInv: the forms of all numbers, the remainder of the division      *)
(* under way, what is divided, and the powers computed so far.             *)
(*                                                                         *)
(* Then the exchange.  What the loop of tls_prf has written is stated by   *)
(* its count of whole blocks (ExpansionInv), and what the two calls of     *)
(* derive_keys are about by the call under way (StageInv);                 *)
(* rsa_decrypt_pkcs1 follows from BigNumInv and from the digits of a       *)
(* number (NumberDetermines, NumberOfBytes).  The loading of a key is      *)
(* stated by the place in the file (LoadInv): how many characters of the   *)
(* body carry bits (Taken) and what those hold of the bytes (Decodes),     *)
(* then how many numbers lie in front of p (Place).                        *)
(***************************************************************************)
EXTENDS KeyExchange, FiniteSetTheorems, SequenceTheorems, TLAPS

-----------------------------------------------------------------------------
(* Induction and recursion over the numbers, with sets for predicates. *)

\* A set of numbers that is not empty has a least one.
LEMMA LeastNumber ==
  ASSUME NEW T \in SUBSET Nat, T # {}
  PROVE  \E n \in T : \A m \in T : n <= m
<1> DEFINE F == {0 .. n : n \in T}
<1>1. F \subseteq FiniteSubsetsOf(Nat)
  <2> SUFFICES ASSUME NEW n \in T PROVE 0 .. n \in SUBSET Nat /\ IsFiniteSet(0 .. n)
    BY DEF FiniteSubsetsOf
  <2> QED BY FS_Interval
<1>2. F # {}
  OBVIOUS
<1>3. PICK x \in F : \A y \in F : ~ (<<y, x>> \in StrictSubsetOrdering(Nat))
  <2> HIDE DEF F
  <2> QED BY <1>1, <1>2, FS_StrictSubsetOrderingWellFounded, WFMin
<1>4. PICK n \in T : x = 0 .. n
  OBVIOUS
<1>5. ASSUME NEW m \in T, m < n PROVE FALSE
  <2>1. 0 .. m \in F /\ 0 .. m \subseteq 0 .. n /\ 0 .. m # 0 .. n
    BY <1>5
  <2>2. 0 .. m \in SUBSET Nat /\ 0 .. n \in SUBSET Nat
    OBVIOUS
  <2>3. <<0 .. m, 0 .. n>> \in StrictSubsetOrdering(Nat)
    BY <2>1, <2>2 DEF StrictSubsetOrdering
  <2> QED BY <2>1, <2>3, <1>3, <1>4
<1> QED
  BY <1>5

\* A set that has 0, and n + 1 with every n, has every number.
LEMMA Induction ==
  ASSUME NEW T \in SUBSET Nat, 0 \in T, \A n \in T : n + 1 \in T
  PROVE  T = Nat
<1> SUFFICES ASSUME Nat \ T # {} PROVE FALSE
  OBVIOUS
<1>1. Nat \ T \in SUBSET Nat
  OBVIOUS
<1>2. PICK n \in Nat \ T : \A m \in Nat \ T : n <= m
  BY <1>1, LeastNumber
<1>3. n - 1 \in Nat /\ n - 1 \notin Nat \ T
  BY <1>2
<1> QED
  BY <1>2, <1>3

\* A set of numbers up to some N has a greatest one.
LEMMA GreatestNumber ==
  ASSUME NEW T \in SUBSET Nat, T # {}, NEW N \in Nat, \A n \in T : n <= N
  PROVE  Max(T) \in T /\ \A n \in T : n <= Max(T)
<1> DEFINE U == {N - n : n \in T}
<1>1. U \in SUBSET Nat /\ U # {}
  <2>1. ASSUME NEW n \in T PROVE N - n \in Nat
    OBVIOUS
  <2>2. ASSUME NEW u \in U PROVE u \in Nat
    BY <2>1
  <2> QED BY <2>2
<1>2. PICK l \in U : \A m \in U : l <= m
  <2> HIDE DEF U
  <2> QED BY <1>1, LeastNumber
<1>3. PICK g \in T : l = N - g
  OBVIOUS
<1>4. \A n \in T : g >= n
  <2> SUFFICES ASSUME NEW n \in T PROVE g >= n
    OBVIOUS
  <2>1. N - n \in U
    OBVIOUS
  <2>2. N - g <= N - n /\ n \in Nat /\ g \in Nat
    BY <1>2, <1>3, <2>1
  <2> QED BY <2>2
<1>5. Max(T) \in T /\ \A n \in T : Max(T) >= n
  BY <1>4 DEF Max
<1> QED
  BY <1>5

\* Induction up to a number.
LEMMA InductionTo ==
  ASSUME NEW N \in Nat, NEW T, 0 \in T, \A n \in 0 .. N - 1 : n \in T => n + 1 \in T
  PROVE  \A n \in 0 .. N : n \in T
<1> DEFINE U == {n \in Nat : n <= N => n \in T}
<1>1. 0 \in U /\ U \in SUBSET Nat
  OBVIOUS
<1>2. ASSUME NEW n \in U PROVE n + 1 \in U
  OBVIOUS
<1>3. U = Nat
  <2> HIDE DEF U
  <2> QED BY <1>1, <1>2, Induction
<1> QED
  BY <1>3

\* The beginnings of the sequence that starts with x and goes on from its k-th
\* element v with F[k][v].
Begins(g, n, x, F) == g[0] = x /\ \A k \in 0 .. n - 1 : g[k + 1] = F[k][g[k]]

\* There is a beginning of each length.
LEMMA BeginningExists ==
  ASSUME NEW S, NEW x \in S, NEW F \in [Nat -> [S -> S]], NEW n \in Nat
  PROVE  \E g \in [0 .. n -> S] : Begins(g, n, x, F)
<1> DEFINE T == {m \in Nat : \E g \in [0 .. m -> S] : Begins(g, m, x, F)}
<1>1. 0 \in T
  <2>1. [k \in 0 .. 0 |-> x] \in [0 .. 0 -> S] /\ Begins([k \in 0 .. 0 |-> x], 0, x, F)
    BY DEF Begins
  <2> QED BY <2>1
<1>2. ASSUME NEW m \in T PROVE m + 1 \in T
  <2>1. PICK g \in [0 .. m -> S] : Begins(g, m, x, F)
    OBVIOUS
  <2> DEFINE h == [k \in 0 .. m + 1 |-> IF k <= m THEN g[k] ELSE F[m][g[m]]]
  <2>2. h \in [0 .. m + 1 -> S]
    OBVIOUS
  <2>3. h[0] = x
    BY <2>1 DEF Begins
  <2>4. ASSUME NEW k \in 0 .. m PROVE h[k + 1] = F[k][h[k]]
    BY <2>1 DEF Begins
  <2> HIDE DEF h
  <2>5. Begins(h, m + 1, x, F)
    BY <2>3, <2>4 DEF Begins
  <2> QED BY <2>2, <2>5
<1> HIDE DEF T
<1>3. T \in SUBSET Nat
  BY DEF T
<1>4. T = Nat
  BY <1>1, <1>2, <1>3, Induction
<1> QED
  BY <1>4 DEF T

\* They agree.
LEMMA BeginningsAgree ==
  ASSUME NEW S, NEW x \in S, NEW F \in [Nat -> [S -> S]], NEW n \in Nat, NEW m \in Nat,
         NEW g, NEW h, Begins(g, n, x, F), Begins(h, m, x, F),
         NEW k \in Nat, k <= n, k <= m
  PROVE  g[k] = h[k]
<1> DEFINE T == {j \in Nat : j <= n /\ j <= m => g[j] = h[j]}
<1>1. 0 \in T
  BY DEF Begins
<1>2. ASSUME NEW j \in T PROVE j + 1 \in T
  BY DEF Begins
<1> HIDE DEF T
<1>3. T \in SUBSET Nat
  BY DEF T
<1>4. T = Nat
  BY <1>1, <1>2, <1>3, Induction
<1> QED
  BY <1>4 DEF T

Follows(f, x, F) == f[0] = x /\ \A n \in Nat : f[n + 1] = F[n][f[n]]

\* So there is the whole sequence.
LEMMA SequenceExists ==
  ASSUME NEW S, NEW x \in S, NEW F \in [Nat -> [S -> S]]
  PROVE  \E f \in [Nat -> S] : Follows(f, x, F)
<1> DEFINE G(n) == CHOOSE g \in [0 .. n -> S] : Begins(g, n, x, F)
           f == [n \in Nat |-> G(n)[n]]
<1>1. ASSUME NEW n \in Nat PROVE G(n) \in [0 .. n -> S] /\ Begins(G(n), n, x, F)
  BY BeginningExists
<1> HIDE DEF G
<1>2. f \in [Nat -> S]
  BY <1>1
<1>3. f[0] = x
  BY <1>1 DEF Begins
<1>4. ASSUME NEW n \in Nat PROVE f[n + 1] = F[n][f[n]]
  <2>1. G(n + 1)[n + 1] = F[n][G(n + 1)[n]]
    BY <1>1 DEF Begins
  <2>2. G(n + 1)[n] = G(n)[n]
    BY <1>1, BeginningsAgree, n + 1 \in Nat
  <2> QED BY <2>1, <2>2
<1> QED
  <2> HIDE DEF f
  <2> QED BY <1>2, <1>3, <1>4 DEF Follows

-----------------------------------------------------------------------------
(* Powers of two. *)

\* The recursion that defines them has a solution.
LEMMA TwoToEquation == TwoTo = [n \in Nat |-> IF n = 0 THEN 1 ELSE 2 * TwoTo[n - 1]]
<1> DEFINE F == [n \in Nat |-> [m \in Nat |-> 2 * m]]
           Solves(f) == f = [n \in Nat |-> IF n = 0 THEN 1 ELSE 2 * f[n - 1]]
<1>1. F \in [Nat -> [Nat -> Nat]]
  OBVIOUS
<1>2. PICK f \in [Nat -> Nat] : f[0] = 1 /\ \A n \in Nat : f[n + 1] = F[n][f[n]]
  <2> HIDE DEF F
  <2>1. 1 \in Nat
    OBVIOUS
  <2>2. \E f \in [Nat -> Nat] : Follows(f, 1, F)
    BY <1>1, <2>1, SequenceExists
  <2> QED BY <2>2 DEF Follows
<1>3. ASSUME NEW n \in Nat PROVE f[n] = IF n = 0 THEN 1 ELSE 2 * f[n - 1]
  <2>1. CASE n = 0
    BY <2>1, <1>2
  <2>2. CASE n # 0
    <3>1. n - 1 \in Nat /\ (n - 1) + 1 = n
      BY <2>2
    <3>2. f[n] = F[n - 1][f[n - 1]]
      BY <3>1, <1>2
    <3> QED BY <2>2, <3>1, <3>2
  <2> QED BY <2>1, <2>2
<1>4. Solves(f)
  BY <1>3
<1>5. Solves(CHOOSE g : Solves(g))
  <2> HIDE DEF Solves
  <2> QED BY <1>4
<1> QED
  BY <1>5 DEF TwoTo

\* They double, and none is zero.
LEMMA TwoToProperties ==
  /\ TwoTo[0] = 1
  /\ \A n \in Nat : TwoTo[n] \in Nat \ {0} /\ TwoTo[n + 1] = 2 * TwoTo[n]
<1> DEFINE T == {n \in Nat : TwoTo[n] \in Nat \ {0}}
<1>1. TwoTo[0] = 1
  BY TwoToEquation
<1>2. ASSUME NEW n \in Nat PROVE TwoTo[n + 1] = 2 * TwoTo[n]
  <2>1. n + 1 \in Nat /\ n + 1 # 0 /\ (n + 1) - 1 = n
    OBVIOUS
  <2> QED BY <2>1, TwoToEquation
<1>3. ASSUME NEW n \in T PROVE n + 1 \in T
  BY <1>2
<1>4. 0 \in T /\ T \in SUBSET Nat
  BY <1>1
<1>5. T = Nat
  <2> HIDE DEF T
  <2> QED BY <1>3, <1>4, Induction
<1> QED
  BY <1>1, <1>2, <1>5

\* The power of a sum.
LEMMA TwoToSum ==
  ASSUME NEW m \in Nat, NEW n \in Nat PROVE TwoTo[m + n] = TwoTo[m] * TwoTo[n]
<1> DEFINE T == {k \in Nat : TwoTo[m + k] = TwoTo[m] * TwoTo[k]}
<1>1. 0 \in T
  <2>1. TwoTo[m] \in Nat /\ TwoTo[0] = 1 /\ m + 0 = m
    BY TwoToProperties
  <2> QED BY <2>1
<1>2. ASSUME NEW k \in T PROVE k + 1 \in T
  <2>1. k \in Nat /\ m + k \in Nat /\ m + (k + 1) = (m + k) + 1
    OBVIOUS
  <2>2. TwoTo[m + (k + 1)] = 2 * TwoTo[m + k] /\ TwoTo[k + 1] = 2 * TwoTo[k]
    BY <2>1, TwoToProperties
  <2>3. PICK u \in Nat, v \in Nat : u = TwoTo[m] /\ v = TwoTo[k]
    BY <2>1, TwoToProperties
  <2>4. TwoTo[m + k] = u * v
    BY <2>3
  <2>5. TwoTo[m + (k + 1)] = u * (2 * v)
    BY <2>2, <2>4
  <2> QED BY <2>1, <2>2, <2>3, <2>5
<1>3. T = Nat
  <2>1. T \in SUBSET Nat
    OBVIOUS
  <2> HIDE DEF T
  <2> QED BY <1>1, <1>2, <2>1, Induction
<1> QED
  BY <1>3

\* They grow.
LEMMA TwoToGrows ==
  ASSUME NEW m \in Nat, NEW n \in Nat, m <= n PROVE TwoTo[m] <= TwoTo[n]
<1>1. PICK k \in Nat : n = m + k
  <2>1. n - m \in Nat /\ n = m + (n - m)
    OBVIOUS
  <2> QED BY <2>1
<1>2. PICK u \in Nat \ {0}, v \in Nat \ {0} : u = TwoTo[m] /\ v = TwoTo[k]
  BY TwoToProperties
<1>3. TwoTo[n] = u * v
  BY <1>1, <1>2, TwoToSum
<1>4. u * v >= u
  OBVIOUS
<1> QED
  BY <1>2, <1>3, <1>4

-----------------------------------------------------------------------------
(* Division. *)

\* A quotient and a remainder are what they look like.
LEMMA DivisionUnique ==
  ASSUME NEW D \in Nat \ {0}, NEW x \in Int, NEW q \in Int, NEW r \in 0 .. D - 1, x = q * D + r
  PROVE  x \div D = q /\ x % D = r
<1>1. PICK u : u = x \div D
  OBVIOUS
<1>2. PICK v : v = x % D
  OBVIOUS
<1>3. u \in Int /\ v \in 0 .. D - 1 /\ x = u * D + v
  BY <1>1, <1>2
<1>4. u = q
  <2>1. CASE u <= q - 1
    <3>1. u * D <= (q - 1) * D
      BY <2>1, <1>3
    <3> QED BY <3>1, <1>3
  <2>2. CASE u >= q + 1
    <3>1. u * D >= (q + 1) * D
      BY <2>2, <1>3
    <3> QED BY <3>1, <1>3
  <2> QED BY <2>1, <2>2, <1>3
<1> QED
  BY <1>1, <1>2, <1>3, <1>4

\* Every integer has a quotient and a remainder.
LEMMA DivisionExists ==
  ASSUME NEW D \in Nat \ {0}, NEW x \in Int
  PROVE  x \div D \in Int /\ x % D \in 0 .. D - 1 /\ x = (x \div D) * D + (x % D)
OBVIOUS

\* The quotient of natural numbers is one.
LEMMA DivisionNat ==
  ASSUME NEW D \in Nat \ {0}, NEW x \in Nat PROVE x \div D \in Nat
OBVIOUS

\* Multiples do not change a remainder.
LEMMA ModOfMultiple ==
  ASSUME NEW D \in Nat \ {0}, NEW x \in Int, NEW c \in Int PROVE (c * D + x) % D = x % D
<1>1. PICK q \in Int, r \in 0 .. D - 1 : r = x % D /\ x = q * D + r
  BY DivisionExists
<1>2. c * D + x = (c + q) * D + r /\ c + q \in Int /\ c * D + x \in Int
  BY <1>1
<1> QED
  BY <1>1, <1>2, DivisionUnique

\* A factor may be reduced before the product.
LEMMA ModOfProduct ==
  ASSUME NEW D \in Nat \ {0}, NEW x \in Int, NEW y \in Int PROVE ((x % D) * y) % D = (x * y) % D
<1>1. PICK q \in Int, r \in 0 .. D - 1 : r = x % D /\ x = q * D + r
  BY DivisionExists
<1>2. x * y = (q * y) * D + r * y
  BY <1>1
<1>3. q * y \in Int /\ r * y \in Int
  BY <1>1
<1>4. ((q * y) * D + r * y) % D = (r * y) % D
  <2>1. PICK c \in Int, z \in Int : c = q * y /\ z = r * y
    BY <1>3
  <2> QED BY <2>1, ModOfMultiple
<1> QED
  BY <1>1, <1>2, <1>4

-----------------------------------------------------------------------------
(* Sums of words. *)

W(k) == TwoTo[WordBits * k]
Words == [Index -> 0 .. WORD - 1]

\* What the assumption on the sizes gives.
LEMMA Sizes ==
  /\ ByteBits \in Nat \ {0} /\ Bytes \in Nat \ {0} /\ WordBits \in Nat \ {0}
  /\ BN_MAX_WORDS \in Nat \ {0} /\ WORD \in Nat /\ WORD >= 2
  /\ BYTE \in Nat /\ BYTE >= 2
<1>1. ByteBits \in Nat \ {0} /\ Bytes \in Nat \ {0} /\ BN_MAX_WORDS \in Nat \ {0}
  BY WordAssumption
<1>2. WordBits \in Nat \ {0}
  BY <1>1 DEF WordBits
<1>3. ASSUME NEW n \in Nat \ {0} PROVE TwoTo[n] \in Nat /\ TwoTo[n] >= 2
  <2>1. TwoTo[1] = 2 * TwoTo[0]
    <3>1. TwoTo[0 + 1] = 2 * TwoTo[0] /\ 0 + 1 = 1
      BY TwoToProperties
    <3> QED BY <3>1
  <2>2. TwoTo[1] <= TwoTo[n]
    BY TwoToGrows
  <2> QED BY <2>1, <2>2, TwoToProperties
<1> QED
  BY <1>1, <1>2, <1>3 DEF WORD, BYTE

\* The weights of the words.
LEMMA Weights ==
  /\ W(0) = 1
  /\ \A k \in Nat : W(k) \in Nat \ {0} /\ W(k + 1) = W(k) * WORD
<1>1. W(0) = 1
  <2>1. WordBits * 0 = 0
    BY Sizes
  <2> QED BY <2>1, TwoToProperties DEF W
<1>2. ASSUME NEW k \in Nat PROVE W(k) \in Nat \ {0} /\ W(k + 1) = W(k) * WORD
  <2>1. WordBits * k \in Nat /\ WordBits \in Nat /\ WordBits * (k + 1) = WordBits * k + WordBits
    BY Sizes
  <2>2. TwoTo[WordBits * k + WordBits] = TwoTo[WordBits * k] * TwoTo[WordBits]
    BY <2>1, TwoToSum
  <2> QED BY <2>1, <2>2, TwoToProperties DEF W, WORD
<1> QED
  BY <1>1, <1>2

\* Higher words weigh more.
LEMMA WeightsGrow ==
  ASSUME NEW j \in Nat, NEW k \in Nat, j <= k PROVE W(j) <= W(k)
<1>1. WordBits * j \in Nat /\ WordBits * k \in Nat /\ WordBits * j <= WordBits * k
  BY Sizes
<1> QED
  BY <1>1, TwoToGrows DEF W

\* The recursive sum obeys its equation.
LEMMA SumsProperties ==
  ASSUME NEW w \in Words
  PROVE  /\ Sums(w)[0] = 0
         /\ \A k \in Index : Sums(w)[k + 1] = Sums(w)[k] + w[k] * W(k)
         /\ \A k \in 0 .. BN_MAX_WORDS : Sums(w)[k] \in Nat
<1> DEFINE N == BN_MAX_WORDS
           F == [k \in Nat |-> [v \in Nat |-> IF k \in Index THEN v + w[k] * W(k) ELSE v]]
           Solves(f) == f = [k \in 0 .. N |-> IF k = 0 THEN 0 ELSE f[k - 1] + w[k - 1] * TwoTo[WordBits * (k - 1)]]
<1>0. N \in Nat /\ Index = 0 .. N - 1 /\ WORD \in Nat
  BY Sizes DEF Index
<1>1. F \in [Nat -> [Nat -> Nat]]
  <2>1. ASSUME NEW k \in Index PROVE w[k] * W(k) \in Nat
    <3>1. w[k] \in Nat /\ k \in Nat
      BY <1>0 DEF Words
    <3> QED BY <3>1, Weights
  <2> QED BY <2>1
<1>2. PICK f \in [0 .. N -> Nat] : f[0] = 0 /\ \A k \in 0 .. N - 1 : f[k + 1] = F[k][f[k]]
  <2> HIDE DEF F, N
  <2>1. 0 \in Nat
    OBVIOUS
  <2>2. \E f \in [0 .. N -> Nat] : Begins(f, N, 0, F)
    BY <1>0, <1>1, <2>1, BeginningExists
  <2> QED BY <2>2 DEF Begins
<1>3. ASSUME NEW k \in 0 .. N - 1 PROVE f[k + 1] = f[k] + w[k] * W(k)
  <2>1. k \in Nat /\ f[k] \in Nat /\ k \in Index
    BY <1>0
  <2> QED BY <1>2, <2>1
<1>4. Solves(f)
  <2>1. ASSUME NEW k \in 0 .. N, k # 0
        PROVE  f[k] = f[k - 1] + w[k - 1] * TwoTo[WordBits * (k - 1)]
    <3>1. k - 1 \in 0 .. N - 1 /\ (k - 1) + 1 = k
      BY <1>0, <2>1
    <3> QED BY <1>3, <3>1 DEF W
  <2> HIDE DEF N
  <2> QED BY <1>2, <2>1
<1>5. Solves(Sums(w))
  <2>1. Sums(w) = CHOOSE g : Solves(g)
    BY DEF Sums
  <2> HIDE DEF Solves
  <2> QED BY <1>4, <2>1
<1> HIDE DEF F
<1>6. Sums(w)[0] = 0
  BY <1>0, <1>5
<1>7. ASSUME NEW k \in Index PROVE Sums(w)[k + 1] = Sums(w)[k] + w[k] * W(k)
  <2>1. k + 1 \in 0 .. N /\ k + 1 # 0 /\ (k + 1) - 1 = k
    BY <1>0
  <2> HIDE DEF N
  <2>2. Sums(w)[k + 1] = Sums(w)[(k + 1) - 1] + w[(k + 1) - 1] * TwoTo[WordBits * ((k + 1) - 1)]
    BY <1>5, <2>1
  <2> QED BY <2>1, <2>2 DEF W
<1>8. \A k \in 0 .. N : k \in {j \in 0 .. N : Sums(w)[j] \in Nat}
  <2> DEFINE T == {j \in 0 .. N : Sums(w)[j] \in Nat}
  <2>1. 0 \in T
    BY <1>0, <1>6
  <2>2. ASSUME NEW n \in 0 .. N - 1, n \in T PROVE n + 1 \in T
    <3>1. n \in Index /\ n \in Nat /\ w[n] \in Nat /\ n + 1 \in 0 .. N
      BY <1>0, <2>2 DEF Words
    <3>2. W(n) \in Nat
      BY <3>1, Weights
    <3>3. w[n] * W(n) \in Nat
      BY <3>1, <3>2
    <3>4. Sums(w)[n + 1] \in Nat
      BY <1>7, <2>2, <3>1, <3>3
    <3> QED BY <3>1, <3>4
  <2> HIDE DEF T
  <2>3. \A n \in 0 .. N : n \in T
    BY <1>0, <2>1, <2>2, InductionTo
  <2> QED BY <2>3 DEF T
<1> QED
  BY <1>6, <1>7, <1>8

\* The first words are less than the weight of the next one.
LEMMA SumsBound ==
  ASSUME NEW w \in Words, NEW l \in 0 .. BN_MAX_WORDS PROVE Sums(w)[l] < W(l)
<1> DEFINE T == {j \in 0 .. BN_MAX_WORDS : Sums(w)[j] < W(j)}
<1>0. BN_MAX_WORDS \in Nat /\ Index = 0 .. BN_MAX_WORDS - 1 /\ WORD \in Nat
  BY Sizes DEF Index
<1>1. 0 \in T
  <2>1. Sums(w)[0] = 0 /\ W(0) = 1
    BY SumsProperties, Weights
  <2> QED BY <1>0, <2>1
<1>2. ASSUME NEW n \in 0 .. BN_MAX_WORDS - 1, n \in T PROVE n + 1 \in T
  <2>1. n \in Index /\ n \in Nat /\ n + 1 \in 0 .. BN_MAX_WORDS /\ n \in 0 .. BN_MAX_WORDS
    BY <1>0
  <2>2. PICK s \in Nat, u \in Nat, v \in 0 .. WORD - 1 : s = Sums(w)[n] /\ u = W(n) /\ v = w[n]
    BY <2>1, SumsProperties, Weights DEF Words
  <2>3. Sums(w)[n + 1] = s + v * u /\ W(n + 1) = u * WORD
    BY <2>1, <2>2, SumsProperties, Weights
  <2>4. s < u
    BY <1>2, <2>2
  <2>5. v * u <= (WORD - 1) * u
    BY <1>0, <2>2
  <2>6. (WORD - 1) * u = u * WORD - u
    BY <1>0, <2>2
  <2>7. s + v * u < u * WORD
    <3>1. PICK x \in Int, y \in Int : x = v * u /\ y = u * WORD
      BY <1>0, <2>2
    <3>2. x <= y - u
      BY <2>5, <2>6, <3>1
    <3> QED BY <2>2, <2>4, <3>1, <3>2
  <2> QED BY <2>1, <2>3, <2>7
<1>3. \A n \in 0 .. BN_MAX_WORDS : n \in T
  <2> HIDE DEF T
  <2> QED BY <1>0, <1>1, <1>2, InductionTo
<1> QED
  BY <1>3

\* The sum depends on the words it is of.
LEMMA SumsAgree ==
  ASSUME NEW w \in Words, NEW v \in Words, NEW l \in 0 .. BN_MAX_WORDS,
         \A k \in 0 .. l - 1 : w[k] = v[k]
  PROVE  Sums(w)[l] = Sums(v)[l]
<1> DEFINE T == {j \in 0 .. BN_MAX_WORDS : j <= l => Sums(w)[j] = Sums(v)[j]}
<1>0. BN_MAX_WORDS \in Nat /\ Index = 0 .. BN_MAX_WORDS - 1
  BY Sizes DEF Index
<1>1. 0 \in T
  BY <1>0, SumsProperties
<1>2. ASSUME NEW n \in 0 .. BN_MAX_WORDS - 1, n \in T PROVE n + 1 \in T
  <2>1. n \in Index /\ n + 1 \in 0 .. BN_MAX_WORDS /\ n \in Nat
    BY <1>0
  <2>2. CASE n + 1 <= l
    <3>1. n \in 0 .. l - 1 /\ n <= l
      BY <2>1, <2>2
    <3>2. Sums(w)[n] = Sums(v)[n] /\ w[n] = v[n]
      BY <1>2, <3>1
    <3>3. Sums(w)[n + 1] = Sums(w)[n] + w[n] * W(n) /\ Sums(v)[n + 1] = Sums(v)[n] + v[n] * W(n)
      BY <2>1, SumsProperties
    <3> QED BY <2>1, <3>2, <3>3
  <2>3. CASE ~ (n + 1 <= l)
    BY <2>1, <2>3
  <2> QED BY <2>2, <2>3
<1>3. \A n \in 0 .. BN_MAX_WORDS : n \in T
  <2> HIDE DEF T
  <2> QED BY <1>0, <1>1, <1>2, InductionTo
<1> QED
  BY <1>3

\* What the higher words add is a multiple of the weight of the next one; zeros
\* add nothing.
LEMMA SumsHigher ==
  ASSUME NEW w \in Words, NEW l \in 0 .. BN_MAX_WORDS, NEW m \in l .. BN_MAX_WORDS
  PROVE  /\ \E h \in Nat : Sums(w)[m] = Sums(w)[l] + h * W(l)
         /\ (\A k \in l .. m - 1 : w[k] = 0) => Sums(w)[m] = Sums(w)[l]
<1> DEFINE High(j) == \E h \in Nat : Sums(w)[j] = Sums(w)[l] + h * W(l) /\ \E g \in Nat \ {0} : W(j) = g * W(l)
           Zeros(j) == (\A k \in l .. j - 1 : w[k] = 0) => Sums(w)[j] = Sums(w)[l]
           T == {j \in 0 .. BN_MAX_WORDS : l <= j => High(j) /\ Zeros(j)}
<1>0. BN_MAX_WORDS \in Nat /\ Index = 0 .. BN_MAX_WORDS - 1 /\ l \in Nat /\ WORD \in Nat \ {0}
  BY Sizes DEF Index
<1>1. High(l) /\ Zeros(l)
  <2>1. PICK s \in Nat, u \in Nat \ {0} : s = Sums(w)[l] /\ u = W(l)
    BY <1>0, SumsProperties, Weights
  <2>2. s = s + 0 * u /\ u = 1 * u
    OBVIOUS
  <2>3. Sums(w)[l] = Sums(w)[l] + 0 * W(l) /\ W(l) = 1 * W(l)
    BY <2>1, <2>2
  <2> QED BY <2>3
<1>2. ASSUME NEW n \in 0 .. BN_MAX_WORDS - 1, l <= n, High(n) /\ Zeros(n)
      PROVE  High(n + 1) /\ Zeros(n + 1)
  <2>1. n \in Index /\ n \in Nat /\ w[n] \in Nat
    BY <1>0 DEF Words
  <2>2. PICK h \in Nat, g \in Nat \ {0} : Sums(w)[n] = Sums(w)[l] + h * W(l) /\ W(n) = g * W(l)
    BY <1>2
  <2>3. PICK s \in Nat, u \in Nat \ {0}, v \in Nat : s = Sums(w)[l] /\ u = W(l) /\ v = w[n]
    BY <1>0, <2>1, SumsProperties, Weights
  <2>4. Sums(w)[n + 1] = Sums(w)[n] + v * W(n) /\ W(n + 1) = W(n) * WORD
    BY <2>1, <2>3, SumsProperties, Weights
  <2>5. Sums(w)[n + 1] = (s + h * u) + v * (g * u)
    BY <2>2, <2>3, <2>4
  <2>6. (s + h * u) + v * (g * u) = s + (h + v * g) * u /\ h + v * g \in Nat
    BY <2>3
  <2>7. W(n + 1) = (g * u) * WORD
    BY <2>2, <2>3, <2>4
  <2>8. (g * u) * WORD = (g * WORD) * u /\ g * WORD \in Nat \ {0}
    BY <1>0, <2>3
  <2>9. High(n + 1)
    BY <2>3, <2>5, <2>6, <2>7, <2>8
  <2>10. Zeros(n + 1)
    <3> SUFFICES ASSUME \A k \in l .. (n + 1) - 1 : w[k] = 0 PROVE Sums(w)[n + 1] = Sums(w)[l]
      OBVIOUS
    <3>1. n \in l .. (n + 1) - 1 /\ \A k \in l .. n - 1 : k \in l .. (n + 1) - 1
      BY <1>0, <1>2, <2>1
    <3>2. v = 0 /\ Sums(w)[n] = s
      BY <1>2, <2>3, <3>1
    <3>3. 0 * W(n) = 0
      BY <2>1, Weights
    <3> QED BY <2>3, <2>4, <3>2, <3>3
  <2> QED BY <2>9, <2>10
<1> HIDE DEF High, Zeros
<1>3. 0 \in T
  BY <1>0, <1>1
<1>4. ASSUME NEW n \in 0 .. BN_MAX_WORDS - 1, n \in T PROVE n + 1 \in T
  <2>1. n \in Nat /\ n + 1 \in 0 .. BN_MAX_WORDS
    BY <1>0
  <2>2. CASE l <= n
    BY <1>2, <1>4, <2>1, <2>2
  <2>3. CASE l = n + 1
    BY <1>1, <2>1, <2>3
  <2>4. CASE l > n + 1
    BY <1>0, <2>1, <2>4
  <2> QED BY <1>0, <2>1, <2>2, <2>3, <2>4
<1>5. \A n \in 0 .. BN_MAX_WORDS : n \in T
  <2> HIDE DEF T
  <2> QED BY <1>0, <1>3, <1>4, InductionTo
<1>6. High(m) /\ Zeros(m)
  BY <1>0, <1>5
<1> QED
  BY <1>6 DEF High, Zeros

-----------------------------------------------------------------------------
(* Numbers and their values. *)

Nums == [words : Words, len : 1 .. BN_MAX_WORDS]
ZeroAbove(n) == \A k \in n.len .. BN_MAX_WORDS - 1 : n.words[k] = 0

\* Zeros above the length add nothing: the value is that of the whole array.
LEMMA ValueOfAll ==
  ASSUME NEW n \in Nums, ZeroAbove(n)
  PROVE  Value(n) = Sums(n.words)[BN_MAX_WORDS] /\ Value(n) \in Nat /\ Value(n) < W(n.len)
<1>1. n.words \in Words /\ n.len \in 1 .. BN_MAX_WORDS /\ BN_MAX_WORDS \in Nat
  BY Sizes DEF Nums
<1>2. n.len \in 0 .. BN_MAX_WORDS /\ BN_MAX_WORDS \in n.len .. BN_MAX_WORDS
  BY <1>1
<1>3. Sums(n.words)[BN_MAX_WORDS] = Sums(n.words)[n.len]
  BY <1>1, <1>2, SumsHigher DEF ZeroAbove
<1> QED
  BY <1>1, <1>2, <1>3, SumsBound, SumsProperties DEF Value

\* The value of a canonical number lies between the weights of its length.
LEMMA CanonicalValue ==
  ASSUME NEW n, Canonical(n)
  PROVE  /\ n \in Nums /\ ZeroAbove(n) /\ n.words \in Words /\ n.len \in 1 .. BN_MAX_WORDS
         /\ Value(n) = Sums(n.words)[BN_MAX_WORDS] /\ Value(n) \in Nat /\ Value(n) < W(n.len)
         /\ n.len > 1 => W(n.len - 1) <= Value(n)
<1>1. n \in Nums /\ ZeroAbove(n)
  BY DEF Canonical, Nums, Words, ZeroAbove
<1>2. n.words \in Words /\ n.len \in 1 .. BN_MAX_WORDS /\ BN_MAX_WORDS \in Nat
  BY <1>1, Sizes DEF Nums
<1>3. ASSUME n.len > 1 PROVE W(n.len - 1) <= Value(n)
  <2>1. PICK t \in Index : t = n.len - 1 /\ t + 1 = n.len /\ t \in Nat /\ t \in 0 .. BN_MAX_WORDS
    BY <1>2, <1>3 DEF Index
  <2>2. n.words[t] # 0 /\ n.words[t] \in 0 .. WORD - 1
    BY <1>2, <1>3, <2>1 DEF Canonical, Words
  <2>3. PICK v \in Nat \ {0}, u \in Nat, s \in Nat : v = n.words[t] /\ u = W(t) /\ s = Sums(n.words)[t]
    <3>1. n.words[t] \in Nat \ {0}
      BY <2>2, Sizes
    <3>2. W(t) \in Nat
      BY <2>1, Weights
    <3>3. Sums(n.words)[t] \in Nat
      BY <1>2, <2>1, SumsProperties
    <3> QED BY <3>1, <3>2, <3>3
  <2>4. Value(n) = s + v * u
    BY <1>2, <2>1, <2>3, SumsProperties DEF Value
  <2>5. v * u >= u
    BY <2>3
  <2>6. PICK x \in Int : x = v * u
    BY <2>3
  <2> QED BY <2>1, <2>3, <2>4, <2>5, <2>6
<1> QED
  BY <1>1, <1>2, <1>3, ValueOfAll

\* The longer number is the greater one.
LEMMA LengthsOrdered ==
  ASSUME NEW x, NEW y, Canonical(x), Canonical(y), Value(x) <= Value(y)
  PROVE  x.len <= y.len
<1> SUFFICES ASSUME ~ (x.len <= y.len) PROVE FALSE
  OBVIOUS
<1>1. x.len \in Nat /\ y.len \in Nat /\ y.len >= 1
  BY CanonicalValue
<1>2. y.len <= x.len - 1 /\ x.len > 1 /\ x.len - 1 \in Nat
  BY <1>1
<1>3. W(y.len) <= W(x.len - 1) /\ W(y.len) \in Nat /\ W(x.len - 1) \in Nat
  BY <1>1, <1>2, WeightsGrow, Weights
<1>4. Value(y) < W(y.len) /\ W(x.len - 1) <= Value(x) /\ Value(x) \in Nat /\ Value(y) \in Nat
  BY <1>2, CanonicalValue
<1> QED
  BY <1>3, <1>4

\* bn_trim makes a number canonical and does not change its value.
LEMMA Trim ==
  ASSUME NEW n \in Nums, ZeroAbove(n)
  PROVE  Canonical(bn_trim(n)) /\ Value(bn_trim(n)) = Value(n)
<1> DEFINE T == {1} \cup {k + 1 : k \in {j \in 0 .. n.len - 1 : n.words[j] # 0}}
           l == Max(T)
           t == bn_trim(n)
<1>1. n.words \in Words /\ n.len \in 1 .. BN_MAX_WORDS /\ BN_MAX_WORDS \in Nat
  BY Sizes DEF Nums
<1>2. l \in T /\ \A m \in T : m <= l
  <2>1. T \in SUBSET Nat /\ T # {} /\ \A m \in T : m <= n.len
    BY <1>1
  <2>2. n.len \in Nat
    BY <1>1
  <2> HIDE DEF T
  <2> QED BY <2>1, <2>2, GreatestNumber
<1>3. l \in 1 .. n.len /\ (l > 1 => n.words[l - 1] # 0)
  BY <1>1, <1>2
<1>4. \A k \in l .. BN_MAX_WORDS - 1 : n.words[k] = 0
  <2> SUFFICES ASSUME NEW k \in l .. BN_MAX_WORDS - 1, n.words[k] # 0 PROVE FALSE
    OBVIOUS
  <2>1. k \in Nat /\ k >= l
    BY <1>1, <1>3
  <2>2. k < n.len
    BY <1>1, <2>1 DEF ZeroAbove
  <2>3. k + 1 \in T
    BY <2>1, <2>2, <1>1
  <2>4. k + 1 <= l
    BY <1>2, <2>3
  <2> HIDE DEF l
  <2> QED BY <1>3, <1>1, <2>1, <2>4
<1>5. t = [n EXCEPT !.len = l]
  BY DEF bn_trim
<1> HIDE DEF l, t
<1>6. t \in Nums /\ t.words = n.words /\ t.len = l
  BY <1>1, <1>3, <1>5 DEF Nums
<1>7. Canonical(t)
  BY <1>3, <1>4, <1>6 DEF Canonical, Nums, Words
<1>8. Value(t) = Sums(n.words)[BN_MAX_WORDS]
  BY <1>6, <1>7, CanonicalValue
<1> QED
  BY <1>7, <1>8, ValueOfAll DEF t

\* bn_from_uint has the value it is given.
LEMMA SmallNumber ==
  ASSUME NEW v \in 0 .. WORD - 1
  PROVE  Canonical(bn_from_uint(v)) /\ Value(bn_from_uint(v)) = v
<1> DEFINE n == bn_from_uint(v)
<1>1. n.words = [k \in Index |-> IF k = 0 THEN v ELSE 0] /\ n.len = 1 /\ n \in Nums
  BY Sizes DEF bn_from_uint, Nums, Words, Index
<1>2. 0 \in Index /\ n.words[0] = v /\ BN_MAX_WORDS \in Nat
  BY <1>1, Sizes DEF Index
<1>3. Canonical(n)
  <2>1. \A k \in 1 .. BN_MAX_WORDS - 1 : n.words[k] = 0
    BY <1>1, <1>2 DEF Index
  <2> HIDE DEF n
  <2> QED BY <1>1, <2>1 DEF Canonical, Nums, Words
<1>4. Value(n) = v
  <2> HIDE DEF n
  <2>1. n.words \in Words /\ v \in Nat
    BY <1>1, Sizes DEF Nums
  <2>2. Sums(n.words)[0 + 1] = 0 + v * W(0) /\ W(0) = 1
    BY <1>2, <2>1, SumsProperties, Weights
  <2> QED BY <1>1, <2>1, <2>2 DEF Value
<1> QED
  BY <1>3, <1>4

-----------------------------------------------------------------------------
(* One word changed; two numbers compared; words with carries. *)

Total(w) == Sums(w)[BN_MAX_WORDS]

\* Words that agree from l on differ by what the first l are worth.
LEMMA SumsTail ==
  ASSUME NEW w \in Words, NEW v \in Words, NEW l \in 0 .. BN_MAX_WORDS,
         \A k \in l .. BN_MAX_WORDS - 1 : w[k] = v[k]
  PROVE  Total(w) - Total(v) = Sums(w)[l] - Sums(v)[l]
<1> DEFINE T == {j \in 0 .. BN_MAX_WORDS : l <= j => Sums(w)[j] - Sums(v)[j] = Sums(w)[l] - Sums(v)[l]}
<1>0. BN_MAX_WORDS \in Nat /\ Index = 0 .. BN_MAX_WORDS - 1 /\ l \in Nat
  BY Sizes DEF Index
<1>1. 0 \in T
  BY <1>0
<1>2. ASSUME NEW n \in 0 .. BN_MAX_WORDS - 1, n \in T PROVE n + 1 \in T
  <2>1. n \in Index /\ n + 1 \in 0 .. BN_MAX_WORDS /\ n \in Nat
    BY <1>0
  <2>2. CASE l <= n
    <3>1. w[n] = v[n] /\ Sums(w)[n] - Sums(v)[n] = Sums(w)[l] - Sums(v)[l]
      BY <1>0, <1>2, <2>1, <2>2
    <3>2. PICK u \in Nat : u = w[n] * W(n)
      <4>1. w[n] \in Nat /\ W(n) \in Nat
        BY <2>1, Sizes, Weights DEF Words
      <4> QED BY <4>1
    <3>3. Sums(w)[n + 1] = Sums(w)[n] + u /\ Sums(v)[n + 1] = Sums(v)[n] + u
      BY <2>1, <3>1, <3>2, SumsProperties
    <3>4. /\ Sums(w)[n] \in Nat /\ Sums(v)[n] \in Nat /\ Sums(w)[l] \in Nat /\ Sums(v)[l] \in Nat
      <4>1. n \in 0 .. BN_MAX_WORDS
        BY <1>0
      <4> QED BY <4>1, SumsProperties
    <3> QED BY <2>1, <3>1, <3>3, <3>4
  <2>3. CASE ~ (l <= n)
    <3>1. l <= n + 1 => l = n + 1
      BY <1>0, <2>1, <2>3
    <3> QED BY <2>1, <3>1
  <2> QED BY <2>2, <2>3
<1>3. \A n \in 0 .. BN_MAX_WORDS : n \in T
  <2> HIDE DEF T
  <2> QED BY <1>0, <1>1, <1>2, InductionTo
<1>4. BN_MAX_WORDS \in T
  BY <1>0, <1>3
<1> QED
  BY <1>0, <1>4 DEF Total

\* A word changed is worth its weight.
LEMMA WordChanged ==
  ASSUME NEW w \in Words, NEW at \in Index, NEW v \in 0 .. WORD - 1
  PROVE  [w EXCEPT ![at] = v] \in Words /\ Total([w EXCEPT ![at] = v]) = Total(w) + (v - w[at]) * W(at)
<1> DEFINE u == [w EXCEPT ![at] = v]
<1>0. BN_MAX_WORDS \in Nat /\ Index = 0 .. BN_MAX_WORDS - 1 /\ at \in Nat
       /\ at \in 0 .. BN_MAX_WORDS /\ at + 1 \in 0 .. BN_MAX_WORDS
  BY Sizes DEF Index
<1>1. u \in Words
  BY DEF Words
<1>2. u[at] = v /\ \A k \in Index : k # at => u[k] = w[k]
  BY DEF Words
<1> HIDE DEF u
<1>3. Sums(u)[at] = Sums(w)[at]
  <2>1. \A k \in 0 .. at - 1 : u[k] = w[k]
    BY <1>0, <1>2
  <2> QED BY <1>0, <1>1, <2>1, SumsAgree
<1>4. Total(u) - Total(w) = Sums(u)[at + 1] - Sums(w)[at + 1]
  <2>1. \A k \in at + 1 .. BN_MAX_WORDS - 1 : u[k] = w[k]
    BY <1>0, <1>2
  <2> QED BY <1>0, <1>1, <2>1, SumsTail
<1>5. Sums(u)[at + 1] = Sums(u)[at] + v * W(at) /\ Sums(w)[at + 1] = Sums(w)[at] + w[at] * W(at)
  BY <1>1, <1>2, SumsProperties
<1>6. Total(u) \in Nat /\ Total(w) \in Nat /\ Sums(w)[at] \in Nat
  BY <1>0, <1>1, SumsProperties DEF Total
<1>7. PICK x \in Int, y \in Int, s \in Int : x = v /\ y = w[at] /\ s = W(at)
  <2>1. v \in Int /\ w[at] \in Int
    BY Sizes DEF Words
  <2>2. W(at) \in Int
    BY <1>0, Weights
  <2> QED BY <2>1, <2>2
<1>8. PICK p1 \in Int, p2 \in Int : p1 = x * s /\ p2 = y * s /\ (x - y) * s = p1 - p2
  BY <1>7
<1>9. Total(u) = Total(w) + (x - y) * s
  BY <1>3, <1>4, <1>5, <1>6, <1>7, <1>8
<1> QED
  BY <1>1, <1>7, <1>9 DEF u

\* Words with carries are worth the sum of their columns.
LEMMA Carrying ==
  ASSUME NEW w \in Words, NEW l \in 0 .. BN_MAX_WORDS,
         NEW c \in [0 .. l -> Int], NEW column \in [0 .. l -> Int],
         c[0] = 0, column[0] = 0,
         \A k \in 0 .. l - 1 : column[k + 1] = column[k] + (w[k] + c[k + 1] * WORD - c[k]) * W(k)
  PROVE  column[l] = Sums(w)[l] + c[l] * W(l)
<1> DEFINE T == {j \in 0 .. l : column[j] = Sums(w)[j] + c[j] * W(j)}
<1>0. BN_MAX_WORDS \in Nat /\ Index = 0 .. BN_MAX_WORDS - 1 /\ l \in Nat /\ WORD \in Int
  BY Sizes DEF Index
<1>1. 0 \in T
  <2>1. Sums(w)[0] = 0 /\ W(0) \in Nat
    BY SumsProperties, Weights
  <2> QED BY <1>0, <2>1
<1>2. ASSUME NEW n \in 0 .. l - 1, n \in T PROVE n + 1 \in T
  <2>1. n \in Index /\ n + 1 \in 0 .. l /\ n \in 0 .. l /\ n \in Nat
    BY <1>0
  <2>2. PICK x \in Int, s \in Int, c1 \in Int, c2 \in Int, t \in Int :
           x = w[n] /\ s = W(n) /\ c1 = c[n] /\ c2 = c[n + 1] /\ t = Sums(w)[n]
    <3>1. w[n] \in Int /\ W(n) \in Int
      BY <2>1, Sizes, Weights DEF Words
    <3>2. n \in 0 .. BN_MAX_WORDS
      BY <1>0
    <3>3. Sums(w)[n] \in Int
      BY <3>2, SumsProperties
    <3> QED BY <2>1, <3>1, <3>3
  <2>3. column[n + 1] = (t + c1 * s) + (x + c2 * WORD - c1) * s
    BY <1>2, <2>1, <2>2
  <2>4. Sums(w)[n + 1] = t + x * s /\ W(n + 1) = s * WORD
    BY <2>1, <2>2, SumsProperties, Weights
  <2>5. (t + c1 * s) + (x + c2 * WORD - c1) * s = (t + x * s) + c2 * (s * WORD)
    BY <1>0
  <2> QED BY <2>1, <2>2, <2>3, <2>4, <2>5
<1>3. \A n \in 0 .. l : n \in T
  <2> HIDE DEF T
  <2> QED BY <1>0, <1>1, <1>2, InductionTo
<1>4. l \in T
  BY <1>0, <1>3
<1> QED
  BY <1>4

\* The highest words that differ decide which number is less.
LEMMA HighestDecides ==
  ASSUME NEW w \in Words, NEW v \in Words, NEW g \in Index,
         \A k \in g + 1 .. BN_MAX_WORDS - 1 : w[k] = v[k], w[g] < v[g]
  PROVE  Total(w) < Total(v)
<1>0. BN_MAX_WORDS \in Nat /\ g \in Nat /\ g \in 0 .. BN_MAX_WORDS /\ g + 1 \in 0 .. BN_MAX_WORDS
  BY Sizes DEF Index
<1>1. Total(w) - Total(v) = Sums(w)[g + 1] - Sums(v)[g + 1]
  BY <1>0, SumsTail
<1>2. PICK x \in Int, y \in Int, s \in Nat, p1 \in Nat, p2 \in Nat :
        x = w[g] /\ y = v[g] /\ s = W(g) /\ p1 = Sums(w)[g] /\ p2 = Sums(v)[g]
  <2>1. w[g] \in Int /\ v[g] \in Int
    BY Sizes DEF Words
  <2>2. W(g) \in Nat
    BY <1>0, Weights
  <2>3. Sums(w)[g] \in Nat /\ Sums(v)[g] \in Nat
    BY <1>0, SumsProperties
  <2> QED BY <2>1, <2>2, <2>3
<1>3. Sums(w)[g + 1] = p1 + x * s /\ Sums(v)[g + 1] = p2 + y * s
  BY <1>2, SumsProperties
<1>4. p1 < s /\ x + 1 <= y
  BY <1>0, <1>2, SumsBound
<1>5. (x + 1) * s <= y * s
  BY <1>2, <1>4
<1>6. PICK q1 \in Int, q2 \in Int : q1 = x * s /\ q2 = y * s /\ (x + 1) * s = q1 + s
  BY <1>2
<1>7. p1 + q1 < p2 + q2
  BY <1>2, <1>4, <1>5, <1>6
<1>8. Total(w) \in Int /\ Total(v) \in Int
  BY <1>0, SumsProperties DEF Total
<1> QED
  BY <1>1, <1>3, <1>6, <1>7, <1>8

-----------------------------------------------------------------------------
(* bn_shl1, bn_cmp and bn_sub. *)

HALF == WORD \div 2

\* A word has two halves.
LEMMA TwoHalves ==
  /\ HALF \in Nat \ {0} /\ WORD = 2 * HALF
  /\ \A x \in 0 .. WORD - 1 : /\ x \div HALF \in 0 .. 1
                              /\ (2 * x) % WORD = 2 * (x % HALF) /\ x = (x \div HALF) * HALF + (x % HALF)
                              /\ x % HALF \in 0 .. HALF - 1
<1>1. PICK h \in Nat \ {0} : WORD = 2 * h /\ HALF = h
  <2>1. WordBits - 1 \in Nat /\ (WordBits - 1) + 1 = WordBits
    BY Sizes
  <2>2. WORD = 2 * TwoTo[WordBits - 1] /\ TwoTo[WordBits - 1] \in Nat \ {0}
    BY <2>1, TwoToProperties DEF WORD
  <2> QED BY <2>2 DEF HALF
<1>2. ASSUME NEW x \in 0 .. WORD - 1
      PROVE  /\ x \div HALF \in 0 .. 1
             /\ (2 * x) % WORD = 2 * (x % HALF) /\ x = (x \div HALF) * HALF + (x % HALF)
             /\ x % HALF \in 0 .. HALF - 1
  <2>1. PICK c \in 0 .. 1, r \in 0 .. h - 1 : x = c * h + r
    <3>1. CASE x < h
      <4>1. x = 0 * h + x /\ x \in 0 .. h - 1
        BY <1>1, <3>1
      <4> QED BY <4>1
    <3>2. CASE x >= h
      <4>1. x = 1 * h + (x - h) /\ x - h \in 0 .. h - 1
        BY <1>1, <3>2
      <4> QED BY <4>1
    <3> QED BY <1>1, <3>1, <3>2
  <2>2. x \in Int /\ c \in Int
    BY <1>1
  <2>3. x \div h = c /\ x % h = r
    BY <2>1, <2>2, DivisionUnique
  <2>4. 2 * x = c * WORD + 2 * r /\ 2 * r \in 0 .. WORD - 1 /\ 2 * x \in Int /\ WORD \in Nat \ {0}
    <3>1. CASE c = 0
      BY <1>1, <2>1, <3>1
    <3>2. CASE c = 1
      BY <1>1, <2>1, <3>2
    <3> QED BY <2>1, <3>1, <3>2
  <2>5. (2 * x) % WORD = 2 * r
    BY <2>2, <2>4, DivisionUnique
  <2> QED BY <1>1, <2>1, <2>3, <2>5
<1> QED
  BY <1>1, <1>2

\* bn_shl1 doubles a number that has room to grow.
LEMMA Doubles ==
  ASSUME NEW n, Canonical(n), n.len < BN_MAX_WORDS
  PROVE  Canonical(bn_shl1(n)) /\ Value(bn_shl1(n)) = 2 * Value(n) /\ bn_shl1(n).words[0] % 2 = 0
<1> DEFINE Carry(k) == IF k = 0 THEN 0 ELSE n.words[k - 1] \div HALF
           grows == Carry(n.len) # 0 /\ n.len < BN_MAX_WORDS
           s == bn_shl1(n)
           l == n.len
<1>0. /\ n.words \in Words /\ l \in 1 .. BN_MAX_WORDS - 1 /\ BN_MAX_WORDS \in Nat /\ Index = 0 .. BN_MAX_WORDS - 1
      /\ n \in Nums /\ Value(n) = Total(n.words) /\ ZeroAbove(n) /\ Value(n) = Sums(n.words)[l]
  BY CanonicalValue, Sizes DEF Index, Total, Value
<1>1. \A k \in 0 .. l : Carry(k) \in 0 .. 1
  <2>1. ASSUME NEW k \in 1 .. l PROVE n.words[k - 1] \div HALF \in 0 .. 1
    <3>1. n.words[k - 1] \in 0 .. WORD - 1
      BY <1>0 DEF Words
    <3> QED BY <3>1, TwoHalves
  <2> QED BY <1>0, <2>1
<1>2. s = [words |-> [k \in Index |->
                   IF k < l THEN ((2 * n.words[k]) % WORD) + Carry(k)
                   ELSE IF k = l /\ grows THEN Carry(k) ELSE n.words[k]],
           len |-> IF grows THEN l + 1 ELSE l]
  BY DEF bn_shl1, HALF
<1>3. Carry(0) = 0
  OBVIOUS
<1>3a. \A k \in 0 .. l - 1 : Carry(k + 1) = n.words[k] \div HALF
  BY <1>0
<1> HIDE DEF Carry, l
<1>4. ASSUME NEW k \in 0 .. l - 1
      PROVE  /\ s.words[k] = 2 * (n.words[k] % HALF) + Carry(k) /\ s.words[k] \in 0 .. WORD - 1
             /\ n.words[k] = Carry(k + 1) * HALF + (n.words[k] % HALF)
             /\ n.words[k] % HALF \in 0 .. HALF - 1
  <2>1. k \in Index /\ k < l /\ n.words[k] \in 0 .. WORD - 1 /\ k \in 0 .. l
    BY <1>0 DEF Words
  <2>2. s.words[k] = ((2 * n.words[k]) % WORD) + Carry(k)
    BY <1>2, <2>1
  <2>3. /\ (2 * n.words[k]) % WORD = 2 * (n.words[k] % HALF)
        /\ n.words[k] = (n.words[k] \div HALF) * HALF + (n.words[k] % HALF)
        /\ n.words[k] % HALF \in 0 .. HALF - 1
    BY <2>1, TwoHalves
  <2>4. Carry(k) \in 0 .. 1
    BY <1>1, <2>1
  <2>5. 2 * (n.words[k] % HALF) + Carry(k) \in 0 .. WORD - 1
    <3>1. PICK h \in Nat, r \in Int, c \in 0 .. 1 :
            h = HALF /\ WORD = 2 * h /\ r \in 0 .. h - 1 /\ r = n.words[k] % HALF /\ c = Carry(k)
      <4>1. HALF \in Nat /\ WORD = 2 * HALF
        BY TwoHalves
      <4>2. n.words[k] % HALF \in 0 .. HALF - 1 /\ n.words[k] % HALF \in Int
        BY <2>3, <4>1
      <4> QED BY <2>4, <4>1, <4>2
    <3>2. 2 * r + c \in 0 .. 2 * h - 1
      BY <3>1
    <3> QED BY <3>1, <3>2
  <2> QED BY <1>3a, <2>2, <2>3, <2>5
<1>5. Carry(l) = 0 \/ Carry(l) = 1
  BY <1>0, <1>1
<1>6. s.len = (IF Carry(l) = 0 THEN l ELSE l + 1) /\ s.words[l] = Carry(l)
      /\ \A k \in l + 1 .. BN_MAX_WORDS - 1 : s.words[k] = 0
  <2>1. l \in Index /\ n.words[l] = 0 /\ \A k \in l + 1 .. BN_MAX_WORDS - 1 : k \in Index /\ n.words[k] = 0
    BY <1>0 DEF ZeroAbove, l
  <2>2. l < BN_MAX_WORDS
    BY <1>0
  <2>3. s.len = IF Carry(l) = 0 THEN l ELSE l + 1
    BY <1>2, <2>2 DEF l
  <2>4. s.words[l] = Carry(l)
    BY <1>2, <1>0, <2>1, <2>2 DEF l
  <2>5. ASSUME NEW k \in l + 1 .. BN_MAX_WORDS - 1 PROVE s.words[k] = 0
    <3>1. k \in Index /\ ~ (k < l) /\ k # l
      BY <1>0, <2>1
    <3> QED BY <1>2, <2>1, <3>1
  <2> QED BY <2>3, <2>4, <2>5
<1>7. s \in Nums
  <2>1. ASSUME NEW k \in Index PROVE s.words[k] \in 0 .. WORD - 1
    <3>1. CASE k < l
      <4>1. k \in 0 .. l - 1
        BY <1>0, <3>1
      <4> QED BY <1>4, <4>1
    <3>2. CASE k = l
      BY <1>5, <1>6, <3>2, Sizes
    <3>3. CASE k > l
      <4>1. k \in l + 1 .. BN_MAX_WORDS - 1
        BY <1>0, <3>3
      <4> QED BY <1>6, <4>1, Sizes
    <3> QED BY <1>0, <3>1, <3>2, <3>3
  <2>2. s.words = [k \in Index |-> s.words[k]] /\ s = [words |-> s.words, len |-> s.len]
    BY <1>2
  <2>3. s.len \in 1 .. BN_MAX_WORDS
    BY <1>0, <1>6
  <2>4. s.words \in Words
    <3> HIDE DEF s
    <3> QED BY <2>1, <2>2 DEF Words
  <2> HIDE DEF s
  <2> QED BY <2>2, <2>3, <2>4 DEF Nums
<1> HIDE DEF s
<1>8. ZeroAbove(s)
  <2>1. CASE Carry(l) = 0
    <3>1. ASSUME NEW k \in l .. BN_MAX_WORDS - 1 PROVE s.words[k] = 0
      BY <1>0, <1>6, <2>1
    <3> QED BY <1>6, <2>1, <3>1 DEF ZeroAbove
  <2>2. CASE Carry(l) # 0
    BY <1>6, <2>2 DEF ZeroAbove
  <2> QED BY <2>1, <2>2
<1>9. Canonical(s)
  <2>1. CASE Carry(l) # 0
    <3>1. s.words[s.len - 1] # 0
      BY <1>0, <1>6, <2>1
    <3> QED BY <1>7, <1>8, <3>1 DEF Canonical, Nums, Words, ZeroAbove
  <2>2. CASE Carry(l) = 0
    <3>1. ASSUME l > 1 PROVE s.words[l - 1] # 0
      <4>1. n.words[l - 1] # 0 /\ l - 1 \in 0 .. l - 1 /\ (l - 1) + 1 = l
        BY <1>0, <3>1 DEF Canonical, l
      <4>2. n.words[l - 1] = 0 * HALF + (n.words[l - 1] % HALF) /\ n.words[l - 1] % HALF \in 0 .. HALF - 1
            /\ s.words[l - 1] = 2 * (n.words[l - 1] % HALF) + Carry(l - 1)
        BY <1>4, <2>2, <4>1
      <4>3. Carry(l - 1) \in 0 .. 1
        BY <1>0, <1>1, <4>1
      <4>4. PICK r \in Int, c \in 0 .. 1 : r = n.words[l - 1] % HALF /\ c = Carry(l - 1)
        BY <4>2, <4>3, TwoHalves
      <4>5. HALF \in Nat /\ r >= 0
        BY <4>2, <4>4, TwoHalves
      <4>6. 0 * HALF = 0
        BY <4>5
      <4>7. n.words[l - 1] = 0 + r
        BY <4>2, <4>4, <4>6
      <4>7a. r # 0
        BY <4>1, <4>4, <4>7
      <4>8. 2 * r + c # 0
        BY <4>4, <4>5, <4>7a
      <4> QED BY <4>2, <4>4, <4>8
    <3> QED BY <1>6, <1>7, <1>8, <2>2, <3>1 DEF Canonical, Nums, Words, ZeroAbove
  <2> QED BY <2>1, <2>2
<1>10. s.words[0] % 2 = 0
  <2>1. 0 \in 0 .. l - 1
    BY <1>0
  <2>2. s.words[0] = 2 * (n.words[0] % HALF) + 0 /\ n.words[0] % HALF \in Int
    BY <1>3, <1>4, <2>1
  <2> QED BY <2>2
<1>11. Value(s) = 2 * Value(n)
  <2> DEFINE c == [k \in 0 .. l |-> Carry(k)]
             column == [k \in 0 .. l |-> 2 * Sums(n.words)[k]]
  <2>1. s.words \in Words /\ l \in 0 .. BN_MAX_WORDS
    BY <1>0, <1>7 DEF Nums
  <2>2. c \in [0 .. l -> Int] /\ c[0] = 0 /\ c[l] = Carry(l)
    BY <1>0, <1>1, <1>3
  <2>3. column \in [0 .. l -> Int] /\ column[0] = 0 /\ column[l] = 2 * Value(n)
    <3>1. \A k \in 0 .. l : Sums(n.words)[k] \in Int
      BY <1>0, SumsProperties
    <3>2. Sums(n.words)[0] = 0
      BY <1>0, SumsProperties
    <3> QED BY <1>0, <3>1, <3>2
  <2>4. ASSUME NEW k \in 0 .. l - 1
        PROVE  column[k + 1] = column[k] + (s.words[k] + c[k + 1] * WORD - c[k]) * W(k)
    <3>1. k \in Index /\ k \in 0 .. l /\ k + 1 \in 0 .. l /\ k \in Nat /\ k \in 0 .. BN_MAX_WORDS
      BY <1>0
    <3>2. PICK c1 \in Int, c2 \in Int, r \in Int, t \in Int, u \in Int, h \in Int :
            /\ c1 = Carry(k) /\ c2 = Carry(k + 1) /\ r = n.words[k] % HALF
            /\ t = Sums(n.words)[k] /\ u = W(k) /\ h = HALF
      <4>1. Carry(k) \in Int /\ Carry(k + 1) \in Int
        BY <1>1, <3>1
      <4>2. n.words[k] % HALF \in Int /\ HALF \in Int
        BY <1>4, TwoHalves
      <4>3. Sums(n.words)[k] \in Int
        BY <1>0, <3>1, SumsProperties
      <4>4. W(k) \in Int
        BY <3>1, Weights
      <4> QED BY <4>1, <4>2, <4>3, <4>4
    <3>3. s.words[k] = 2 * r + c1 /\ n.words[k] = c2 * h + r /\ WORD = 2 * h
      BY <1>4, <3>2, TwoHalves
    <3>4. Sums(n.words)[k + 1] = t + (c2 * h + r) * u
      BY <1>0, <3>1, <3>2, <3>3, SumsProperties
    <3>5. 2 * (t + (c2 * h + r) * u) = 2 * t + ((2 * r + c1) + c2 * (2 * h) - c1) * u
      OBVIOUS
    <3> QED BY <3>1, <3>2, <3>3, <3>4, <3>5
  <2> HIDE DEF c, column
  <2>5. column[l] = Sums(s.words)[l] + c[l] * W(l)
    BY <2>1, <2>2, <2>3, <2>4, Carrying
  <2>6. l \in Index /\ Sums(s.words)[l + 1] = Sums(s.words)[l] + Carry(l) * W(l)
    BY <1>0, <1>6, <2>1, SumsProperties
  <2>7. l + 1 \in 0 .. BN_MAX_WORDS /\ BN_MAX_WORDS \in l + 1 .. BN_MAX_WORDS
    BY <1>0
  <2>8. Sums(s.words)[BN_MAX_WORDS] = Sums(s.words)[l + 1]
    BY <1>6, <2>1, <2>7, SumsHigher
  <2>9. Value(s) = Sums(s.words)[BN_MAX_WORDS]
    BY <1>9, CanonicalValue
  <2> QED BY <2>2, <2>3, <2>5, <2>6, <2>8, <2>9
<1> QED
  BY <1>9, <1>10, <1>11 DEF s

\* The words of a canonical number are those that bn_cmp and bn_sub read.
LEMMA WordsRead ==
  ASSUME NEW n, Canonical(n), NEW k \in Index PROVE Word(n, k) = n.words[k]
<1>1. CASE k < n.len
  BY <1>1 DEF Word
<1>2. CASE ~ (k < n.len)
  <2>1. k \in n.len .. BN_MAX_WORDS - 1
    BY <1>2, CanonicalValue, Sizes DEF Index
  <2> QED BY <1>2, <2>1 DEF Word, Canonical
<1> QED
  BY <1>1, <1>2

\* bn_cmp compares values.
LEMMA Compares ==
  ASSUME NEW x, NEW y, Canonical(x), Canonical(y)
  PROVE  NotLess(x, y) <=> Value(x) >= Value(y)
<1> DEFINE D == {k \in Index : x.words[k] # y.words[k]}
<1>0. /\ x.words \in Words /\ y.words \in Words /\ Value(x) = Total(x.words) /\ Value(y) = Total(y.words)
      /\ BN_MAX_WORDS \in Nat /\ Index = 0 .. BN_MAX_WORDS - 1 /\ Value(x) \in Int /\ Value(y) \in Int
  BY CanonicalValue, Sizes DEF Index, Total
<1>1. \A k \in Index : Word(x, k) = x.words[k] /\ Word(y, k) = y.words[k]
  BY WordsRead
<1>1a. \A k \in Index : x.words[k] \in Int /\ y.words[k] \in Int
  BY <1>0, Sizes DEF Words
<1>2. CASE D = {}
  <2>1. \A k \in 0 .. BN_MAX_WORDS - 1 : x.words[k] = y.words[k]
    BY <1>0, <1>2
  <2>2. Value(x) = Value(y)
    BY <1>0, <2>1, SumsAgree DEF Total
  <2>3. NotLess(x, y)
    BY <1>0, <1>1, <1>1a, <2>1 DEF NotLess
  <2> QED BY <1>0, <2>2, <2>3
<1>3. CASE D # {}
  <2>1. PICK g \in D : \A k \in D : k <= g
    <3>1. D \in SUBSET Nat /\ \A k \in D : k <= BN_MAX_WORDS
      BY <1>0
    <3> HIDE DEF D
    <3> QED BY <1>0, <1>3, <3>1, GreatestNumber
  <2>2. g \in Index /\ g \in Nat /\ \A k \in g + 1 .. BN_MAX_WORDS - 1 : k \in Index /\ x.words[k] = y.words[k]
    BY <1>0, <2>1
  <2>3. CASE x.words[g] < y.words[g]
    <3>1. Value(x) < Value(y)
      BY <1>0, <2>2, <2>3, HighestDecides
    <3>2. ~ NotLess(x, y)
      <4> SUFFICES ASSUME NotLess(x, y) PROVE FALSE
        OBVIOUS
      <4>1. Word(x, g) < Word(y, g)
        BY <1>1, <2>2, <2>3
      <4>2. PICK j \in g + 1 .. BN_MAX_WORDS - 1 : Word(x, j) > Word(y, j)
        BY <2>2, <4>1 DEF NotLess
      <4>3. x.words[j] > y.words[j] /\ x.words[j] = y.words[j] /\ x.words[j] \in Int
        BY <1>1, <1>1a, <2>2, <4>2
      <4> QED BY <4>3
    <3> QED BY <1>0, <3>1, <3>2
  <2>4. CASE x.words[g] > y.words[g]
    <3>1. Value(y) < Value(x)
      <4>1. y.words[g] < x.words[g]
        BY <1>1a, <2>2, <2>4
      <4> QED BY <1>0, <2>2, <4>1, HighestDecides
    <3>2. NotLess(x, y)
      <4> SUFFICES ASSUME NEW k \in Index, Word(x, k) < Word(y, k)
                   PROVE  \E j \in k + 1 .. BN_MAX_WORDS - 1 : Word(x, j) > Word(y, j)
                            /\ \A l \in j + 1 .. BN_MAX_WORDS - 1 : Word(x, l) = Word(y, l)
        BY DEF NotLess
      <4>1. k \in D
        BY <1>1, <1>1a
      <4>2. k # g
        BY <1>1, <1>1a, <2>2, <2>4
      <4>3. g \in k + 1 .. BN_MAX_WORDS - 1
        BY <1>0, <2>1, <2>2, <4>1, <4>2
      <4>4. Word(x, g) > Word(y, g) /\ \A l \in g + 1 .. BN_MAX_WORDS - 1 : Word(x, l) = Word(y, l)
        BY <1>1, <2>2, <2>4
      <4> QED BY <4>3, <4>4
    <3> QED BY <1>0, <3>1, <3>2
  <2> QED BY <1>1a, <2>1, <2>2, <2>3, <2>4
<1> QED
  BY <1>2, <1>3

\* The borrows obey their equation.
LEMMA BorrowsProperties ==
  ASSUME NEW x, NEW y, x.len \in Nat
  PROVE  /\ Borrows(x, y)[0] = 0
         /\ \A k \in 0 .. x.len : Borrows(x, y)[k] \in 0 .. 1
         /\ \A k \in 0 .. x.len - 1 :
              Borrows(x, y)[k + 1] = IF x.words[k] - Borrows(x, y)[k] - Word(y, k) < 0 THEN 1 ELSE 0
<1> DEFINE N == x.len
           F == [k \in Nat |-> [v \in 0 .. 1 |-> IF x.words[k] - v - Word(y, k) < 0 THEN 1 ELSE 0]]
           Solves(f) == f = [k \in 0 .. N |->
             IF k = 0 THEN 0 ELSE IF x.words[k - 1] - f[k - 1] - Word(y, k - 1) < 0 THEN 1 ELSE 0]
           c == Borrows(x, y)
<1>0. N \in Nat
  OBVIOUS
<1>1. F \in [Nat -> [0 .. 1 -> 0 .. 1]]
  <2>1. \A k \in Nat, v \in 0 .. 1 : (IF x.words[k] - v - Word(y, k) < 0 THEN 1 ELSE 0) \in 0 .. 1
    OBVIOUS
  <2> QED BY <2>1
<1>2. PICK f \in [0 .. N -> 0 .. 1] : f[0] = 0 /\ \A k \in 0 .. N - 1 : f[k + 1] = F[k][f[k]]
  <2> HIDE DEF F, N
  <2>1. 0 \in 0 .. 1
    OBVIOUS
  <2>2. \E f \in [0 .. N -> 0 .. 1] : Begins(f, N, 0, F)
    BY <1>0, <1>1, <2>1, BeginningExists
  <2> QED BY <2>2 DEF Begins
<1> HIDE DEF N
<1>3. Solves(f)
  <2>1. ASSUME NEW k \in 0 .. N, k # 0
        PROVE  f[k] = IF x.words[k - 1] - f[k - 1] - Word(y, k - 1) < 0 THEN 1 ELSE 0
    <3>1. k - 1 \in 0 .. N - 1 /\ (k - 1) + 1 = k /\ k - 1 \in Nat /\ k - 1 \in 0 .. N
      BY <1>0, <2>1
    <3>2. f[k - 1] \in 0 .. 1
      BY <3>1
    <3> QED BY <1>2, <3>1, <3>2
  <2> HIDE DEF F
  <2> QED BY <1>2, <2>1
<1>4. Solves(c)
  <2>1. c = CHOOSE g : Solves(g)
    BY DEF Borrows, N
  <2> HIDE DEF Solves, c
  <2> QED BY <1>3, <2>1
<1> HIDE DEF F, c
<1>5. c[0] = 0
  BY <1>0, <1>4
<1>6. ASSUME NEW k \in 0 .. N - 1
      PROVE  c[k + 1] = IF x.words[k] - c[k] - Word(y, k) < 0 THEN 1 ELSE 0
  <2>1. k + 1 \in 0 .. N /\ k + 1 # 0 /\ (k + 1) - 1 = k
    BY <1>0
  <2>2. c[k + 1] = IF x.words[(k + 1) - 1] - c[(k + 1) - 1] - Word(y, (k + 1) - 1) < 0 THEN 1 ELSE 0
    BY <1>4, <2>1
  <2> QED BY <2>1, <2>2
<1>7. ASSUME NEW k \in 0 .. N PROVE c[k] \in 0 .. 1
  <2>1. CASE k = 0
    BY <1>5, <2>1
  <2>2. CASE k # 0
    <3>1. k - 1 \in 0 .. N - 1 /\ (k - 1) + 1 = k
      BY <1>0, <2>2
    <3>2. c[(k - 1) + 1] = 0 \/ c[(k - 1) + 1] = 1
      BY <1>6, <3>1
    <3> QED BY <3>1, <3>2
  <2> QED BY <2>1, <2>2
<1> QED
  BY <1>5, <1>6, <1>7 DEF N, c

\* bn_sub subtracts a number from one that is not less.
LEMMA Subtracts ==
  ASSUME NEW x, NEW y, Canonical(x), Canonical(y), Value(y) <= Value(x)
  PROVE  Canonical(bn_sub(x, y)) /\ Value(bn_sub(x, y)) = Value(x) - Value(y)
<1> DEFINE d == Difference(x, y)
           l == x.len
           borrow == Borrows(x, y)
<1>0. /\ x.words \in Words /\ y.words \in Words /\ l \in 1 .. BN_MAX_WORDS /\ y.len \in 1 .. BN_MAX_WORDS
      /\ BN_MAX_WORDS \in Nat /\ Index = 0 .. BN_MAX_WORDS - 1 /\ ZeroAbove(x) /\ ZeroAbove(y)
      /\ Value(x) \in Int /\ Value(y) \in Int /\ WORD \in Nat \ {0} /\ x \in Nums
  BY CanonicalValue, Sizes DEF Index
<1>1. /\ borrow[0] = 0 /\ \A k \in 0 .. l : borrow[k] \in 0 .. 1
      /\ \A k \in 0 .. l - 1 : borrow[k + 1] = IF x.words[k] - borrow[k] - Word(y, k) < 0 THEN 1 ELSE 0
  BY <1>0, BorrowsProperties
<1>2. d = [x EXCEPT !.words = [k \in Index |->
             IF k < l THEN (x.words[k] - borrow[k] - Word(y, k)) % WORD ELSE x.words[k]]]
  BY DEF Difference
<1>3. y.len <= l
  BY LengthsOrdered
<1> HIDE DEF borrow, d, l
<1>4. d.len = l /\ d.words = [k \in Index |->
             IF k < l THEN (x.words[k] - borrow[k] - Word(y, k)) % WORD ELSE x.words[k]]
      /\ d = [words |-> d.words, len |-> d.len]
  BY <1>0, <1>2 DEF Nums, l
<1>5. ASSUME NEW k \in 0 .. l - 1
      PROVE  d.words[k] \in 0 .. WORD - 1 /\ d.words[k] = x.words[k] - borrow[k] - y.words[k] + borrow[k + 1] * WORD
  <2>1. k \in Index /\ k < l /\ k \in 0 .. l /\ k + 1 \in 0 .. l
    BY <1>0
  <2>2. PICK a \in 0 .. WORD - 1, e \in 0 .. WORD - 1, f \in 0 .. 1 :
          a = x.words[k] /\ e = y.words[k] /\ f = borrow[k]
    BY <1>0, <1>1, <2>1 DEF Words
  <2>3. d.words[k] = (a - f - e) % WORD
    BY <1>4, <2>1, <2>2, WordsRead
  <2>4. borrow[k + 1] = IF a - f - e < 0 THEN 1 ELSE 0
    BY <1>1, <2>1, <2>2, WordsRead
  <2>5. CASE a - f - e < 0
    <3>1. PICK t \in Int, r \in 0 .. WORD - 1 : t = a - f - e /\ r = t + WORD /\ t = (-1) * WORD + r
      BY <1>0, <2>5
    <3>2. t % WORD = r
      BY <1>0, <3>1, -1 \in Int, DivisionUnique
    <3>3. borrow[k + 1] * WORD = WORD
      BY <1>0, <2>4, <2>5
    <3> QED BY <2>2, <2>3, <3>1, <3>2, <3>3
  <2>6. CASE ~ (a - f - e < 0)
    <3>1. PICK t \in Int, r \in 0 .. WORD - 1 : t = a - f - e /\ r = t /\ t = 0 * WORD + r
      BY <1>0, <2>6
    <3>2. t % WORD = r
      BY <1>0, <3>1, 0 \in Int, DivisionUnique
    <3>3. borrow[k + 1] * WORD = 0
      BY <1>0, <2>4, <2>6
    <3> QED BY <2>2, <2>3, <3>1, <3>2, <3>3
  <2> QED BY <2>5, <2>6
<1>6. d \in Nums
  <2>1. ASSUME NEW k \in Index PROVE d.words[k] \in 0 .. WORD - 1
    <3>1. CASE k < l
      <4>1. k \in 0 .. l - 1
        BY <1>0, <3>1
      <4> QED BY <1>5, <4>1
    <3>2. CASE ~ (k < l)
      BY <1>0, <1>4, <3>2 DEF Words
    <3> QED BY <3>1, <3>2
  <2>2. d.words = [k \in Index |-> d.words[k]]
    BY <1>4
  <2>3. d.words \in Words
    BY <2>1, <2>2 DEF Words
  <2> QED BY <1>0, <1>4, <2>3 DEF Nums
<1>7. ZeroAbove(d)
  <2>1. ASSUME NEW k \in l .. BN_MAX_WORDS - 1 PROVE d.words[k] = 0
    <3>1. k \in Index /\ ~ (k < l) /\ x.words[k] = 0
      BY <1>0 DEF ZeroAbove, l
    <3> QED BY <1>4, <3>1
  <2> QED BY <1>4, <2>1 DEF ZeroAbove
<1>8. Value(d) = Value(x) - Value(y)
  <2> DEFINE c == [k \in 0 .. l |-> 0 - borrow[k]]
             column == [k \in 0 .. l |-> Sums(x.words)[k] - Sums(y.words)[k]]
  <2>0. \A k \in 0 .. l : /\ k \in 0 .. BN_MAX_WORDS /\ Sums(x.words)[k] \in Int /\ Sums(y.words)[k] \in Int
                          /\ borrow[k] \in Int
    BY <1>0, <1>1, SumsProperties
  <2>1. d.words \in Words /\ l \in 0 .. BN_MAX_WORDS
    BY <1>0, <1>6 DEF Nums
  <2>2. c \in [0 .. l -> Int] /\ c[0] = 0 /\ c[l] = 0 - borrow[l]
    BY <1>0, <1>1, <2>0
  <2>3. column \in [0 .. l -> Int] /\ column[0] = 0 /\ column[l] = Sums(x.words)[l] - Sums(y.words)[l]
    <3>1. Sums(x.words)[0] = 0 /\ Sums(y.words)[0] = 0
      BY <1>0, SumsProperties
    <3> QED BY <1>0, <2>0, <3>1
  <2>4. ASSUME NEW k \in 0 .. l - 1
        PROVE  column[k + 1] = column[k] + (d.words[k] + c[k + 1] * WORD - c[k]) * W(k)
    <3>1. k \in Index /\ k \in 0 .. l /\ k + 1 \in 0 .. l /\ k \in Nat
      BY <1>0
    <3>2. PICK c1 \in Int, c2 \in Int, a \in Int, e \in Int, s \in Int, t \in Int, u \in Int :
            /\ c1 = borrow[k] /\ c2 = borrow[k + 1] /\ a = x.words[k] /\ e = y.words[k]
            /\ s = Sums(x.words)[k] /\ t = Sums(y.words)[k] /\ u = W(k)
      <4>1. x.words[k] \in Int /\ y.words[k] \in Int
        BY <1>0, <3>1 DEF Words
      <4>2. W(k) \in Int
        BY <3>1, Weights
      <4> QED BY <2>0, <3>1, <4>1, <4>2
    <3>3. Sums(x.words)[k + 1] = s + a * u /\ Sums(y.words)[k + 1] = t + e * u
      BY <1>0, <3>1, <3>2, SumsProperties
    <3>4. d.words[k] = a - c1 - e + c2 * WORD
      BY <1>5, <3>2
    <3>5. (s + a * u) - (t + e * u) = (s - t) + ((a - c1 - e + c2 * WORD) + (0 - c2) * WORD - (0 - c1)) * u
      BY <1>0
    <3> QED BY <3>1, <3>2, <3>3, <3>4, <3>5
  <2> HIDE DEF c, column
  <2>5. column[l] = Sums(d.words)[l] + c[l] * W(l)
    BY <2>1, <2>2, <2>3, <2>4, Carrying
  <2>6. Sums(x.words)[l] = Value(x) /\ Sums(y.words)[l] = Value(y)
    <3>1. \A k \in l .. BN_MAX_WORDS - 1 : y.words[k] = 0
      BY <1>0, <1>3 DEF ZeroAbove
    <3>2. BN_MAX_WORDS \in l .. BN_MAX_WORDS
      BY <1>0
    <3>3. Sums(y.words)[BN_MAX_WORDS] = Sums(y.words)[l]
      BY <1>0, <2>1, <3>1, <3>2, SumsHigher
    <3> QED BY <3>3, CanonicalValue DEF Value, l
  <2>7. Sums(d.words)[l] < W(l) /\ Sums(d.words)[l] \in Nat /\ W(l) \in Nat /\ l \in Nat
    <3>1. l \in Nat
      BY <1>0
    <3> QED BY <2>1, <3>1, SumsBound, SumsProperties, Weights
  <2>8. l \in 0 .. l
    BY <1>0
  <2>9. CASE borrow[l] = 1
    <3>1. c[l] * W(l) = 0 - W(l)
      BY <2>2, <2>7, <2>9
    <3> QED BY <1>0, <2>3, <2>5, <2>6, <2>7, <3>1
  <2>10. CASE borrow[l] = 0
    <3>1. c[l] * W(l) = 0
      BY <2>2, <2>7, <2>10
    <3>2. Value(d) = Sums(d.words)[l]
      BY <1>4 DEF Value
    <3> QED BY <1>0, <2>3, <2>5, <2>6, <2>7, <3>1, <3>2
  <2> QED BY <1>1, <2>8, <2>9, <2>10
<1>9. bn_sub(x, y) = bn_trim(d)
  BY DEF bn_sub, d
<1> QED
  BY <1>6, <1>7, <1>8, <1>9, Trim

-----------------------------------------------------------------------------
(* bn_bit_length and the bits of a number. *)

\* bn_bit_length: no more bits than the words have, and enough for the value.
LEMMA BitLength ==
  ASSUME NEW n, Canonical(n)
  PROVE  /\ bn_bit_length(n) \in Nat /\ bn_bit_length(n) <= WordBits * n.len
         /\ Value(n) < TwoTo[bn_bit_length(n)]
<1>0. /\ n.words \in Words /\ n.len \in 1 .. BN_MAX_WORDS /\ n.len \in Nat /\ n.len - 1 \in Nat /\ n.len - 1 \in Index
      /\ BN_MAX_WORDS \in Nat /\ WordBits \in Nat \ {0} /\ Value(n) \in Nat /\ WORD \in Nat
  BY CanonicalValue, Sizes DEF Index
<1>1. CASE n.len = 1 /\ n.words[0] = 0
  <2>1. bn_bit_length(n) = 0 /\ TwoTo[0] = 1
    BY <1>1, TwoToProperties DEF bn_bit_length
  <2>2. Value(n) = 0
    <3>1. Sums(n.words)[0 + 1] = Sums(n.words)[0] + n.words[0] * W(0) /\ Sums(n.words)[0] = 0 /\ W(0) = 1
      <4>1. 0 \in Index
        BY <1>0 DEF Index
      <4> QED BY <1>0, <4>1, SumsProperties, Weights
    <3> QED BY <1>1, <3>1 DEF Value
  <2>3. WordBits * n.len \in Nat
    BY <1>0
  <2> QED BY <2>1, <2>2, <2>3
<1>2. CASE ~ (n.len = 1 /\ n.words[0] = 0)
  <2> DEFINE t == n.words[n.len - 1]
             K == {k \in 0 .. WordBits - 1 : t >= TwoTo[k]}
             C == Cardinality(K)
  <2>1. t \in 0 .. WORD - 1 /\ t # 0
    BY <1>0, <1>2 DEF Canonical, Words
  <2>2. PICK g \in K : \A k \in K : k <= g
    <3>1. K \in SUBSET Nat /\ \A k \in K : k <= WordBits
      BY <1>0
    <3>2. 0 \in K
      BY <1>0, <2>1, TwoToProperties
    <3> HIDE DEF K
    <3> QED BY <1>0, <3>1, <3>2, GreatestNumber
  <2>3. g \in 0 .. WordBits - 1 /\ g \in Nat
    OBVIOUS
  <2>4. K = 0 .. g
    <3>1. ASSUME NEW k \in 0 .. g PROVE k \in K
      <4>1. TwoTo[k] <= TwoTo[g] /\ TwoTo[k] \in Nat /\ TwoTo[g] \in Nat
        BY <2>3, TwoToGrows, TwoToProperties
      <4> QED BY <1>0, <2>1, <2>3, <4>1
    <3> QED BY <2>2, <2>3, <3>1
  <2>5. C = g + 1
    <3>1. Cardinality(0 .. g) = g + 1
      <4>1. g \in Int /\ 0 \in Int /\ ~ (0 > g)
        BY <2>3
      <4>2. Cardinality(0 .. g) = g - 0 + 1
        BY <4>1, FS_Interval
      <4> QED BY <4>1, <4>2
    <3> HIDE DEF K
    <3> QED BY <2>4, <3>1
  <2>6. t < TwoTo[g + 1]
    <3>1. TwoTo[g + 1] \in Nat
      BY <2>3, TwoToProperties
    <3>2. CASE g + 1 \in 0 .. WordBits - 1
      <4>1. g + 1 \notin K
        BY <2>2, <2>3
      <4> QED BY <2>1, <3>1, <3>2, <4>1
    <3>3. CASE g + 1 = WordBits
      BY <1>0, <2>1, <3>3 DEF WORD
    <3> QED BY <1>0, <2>3, <3>2, <3>3
  <2>7. bn_bit_length(n) = (n.len - 1) * WordBits + (g + 1)
    BY <1>2, <2>5 DEF bn_bit_length
  <2> HIDE DEF t, K
  <2>8. PICK q \in Nat : q = WordBits * (n.len - 1) /\ (n.len - 1) * WordBits = q /\ WordBits * n.len = q + WordBits
    BY <1>0
  <2>9. bn_bit_length(n) \in Nat /\ bn_bit_length(n) <= WordBits * n.len
    BY <1>0, <2>3, <2>7, <2>8
  <2>10. TwoTo[q + (g + 1)] = W(n.len - 1) * TwoTo[g + 1]
    <3>1. g + 1 \in Nat /\ q \in Nat
      BY <2>3
    <3>2. TwoTo[q + (g + 1)] = TwoTo[q] * TwoTo[g + 1]
      BY <3>1, TwoToSum
    <3> QED BY <2>8, <3>2 DEF W
  <2>11. PICK v \in Nat, u \in Nat, z \in Nat, s \in Nat :
           v = t /\ u = W(n.len - 1) /\ z = TwoTo[g + 1] /\ s = Sums(n.words)[n.len - 1]
    <3>1. t \in Nat
      BY <1>0, <2>1
    <3>2. W(n.len - 1) \in Nat
      BY <1>0, Weights
    <3>3. TwoTo[g + 1] \in Nat
      BY <2>3, TwoToProperties
    <3>4. Sums(n.words)[n.len - 1] \in Nat
      <4>1. n.len - 1 \in 0 .. BN_MAX_WORDS
        BY <1>0
      <4> QED BY <1>0, <4>1, SumsProperties
    <3> QED BY <3>1, <3>2, <3>3, <3>4
  <2>12. Value(n) = s + v * u /\ s < u
    <3>1. n.len - 1 \in 0 .. BN_MAX_WORDS /\ (n.len - 1) + 1 = n.len
      BY <1>0
    <3> QED BY <1>0, <2>11, <3>1, SumsProperties, SumsBound DEF Value, t
  <2>13. v + 1 <= z
    BY <2>6, <2>11
  <2>14. (v + 1) * u <= u * z
    BY <2>11, <2>13
  <2>15. PICK p1 \in Int, p2 \in Int : p1 = v * u /\ p2 = u * z /\ (v + 1) * u = p1 + u
    BY <2>11
  <2>16. Value(n) < u * z
    BY <2>11, <2>12, <2>14, <2>15
  <2> QED BY <2>7, <2>8, <2>9, <2>10, <2>11, <2>16
<1> QED
  BY <1>1, <1>2

\* A bit, its word and its place in it.
LEMMA BitDown ==
  ASSUME NEW n, Canonical(n), NEW k \in Nat, k < WordBits * n.len
  PROVE  Value(n) \div TwoTo[k] = 2 * (Value(n) \div TwoTo[k + 1]) + (IF IsSet(n, k) THEN 1 ELSE 0)
<1>0. /\ n.words \in Words /\ n.len \in 1 .. BN_MAX_WORDS /\ n.len \in Nat /\ Value(n) \in Nat
      /\ BN_MAX_WORDS \in Nat /\ WordBits \in Nat \ {0} /\ WORD \in Nat /\ Value(n) = Total(n.words)
  BY CanonicalValue, Sizes DEF Total
<1>1. PICK q \in Nat, r \in Nat : /\ q = k \div WordBits /\ r = k % WordBits
                                   /\ k = q * WordBits + r /\ r <= WordBits - 1
  <2>1. k \div WordBits \in Nat
    BY <1>0, DivisionNat
  <2>2. k % WordBits \in 0 .. WordBits - 1 /\ k = (k \div WordBits) * WordBits + (k % WordBits)
    BY <1>0, k \in Int, DivisionExists
  <2> QED BY <1>0, <2>1, <2>2
<1>2. q <= n.len - 1
  <2> SUFFICES ASSUME q >= n.len PROVE FALSE
    BY <1>0
  <2>1. WordBits * n.len <= q * WordBits
    BY <1>0
  <2>2. PICK p1 \in Int, p2 \in Int : p1 = q * WordBits /\ p2 = WordBits * n.len
    BY <1>0
  <2> QED BY <1>1, <2>1, <2>2
<1>3. q \in Index /\ q \in 0 .. BN_MAX_WORDS /\ q + 1 \in 0 .. BN_MAX_WORDS /\ BN_MAX_WORDS \in q + 1 .. BN_MAX_WORDS
  BY <1>0, <1>2 DEF Index
<1>4. PICK v \in 0 .. WORD - 1, s \in Nat, u \in Nat \ {0}, h \in Nat :
        /\ v = n.words[q] /\ s = Sums(n.words)[q] /\ u = W(q) /\ s < u
        /\ Value(n) = (s + v * u) + h * (u * WORD)
  <2>1. PICK h \in Nat : Sums(n.words)[BN_MAX_WORDS] = Sums(n.words)[q + 1] + h * W(q + 1)
    BY <1>0, <1>3, SumsHigher
  <2>2. Sums(n.words)[q + 1] = Sums(n.words)[q] + n.words[q] * W(q) /\ W(q + 1) = W(q) * WORD /\ W(q) \in Nat \ {0}
    BY <1>0, <1>3, SumsProperties, Weights
  <2>3. n.words[q] \in 0 .. WORD - 1 /\ Sums(n.words)[q] \in Nat /\ Sums(n.words)[q] < W(q)
    BY <1>0, <1>3, SumsProperties, SumsBound DEF Words
  <2> QED BY <1>0, <2>1, <2>2, <2>3 DEF Total
<1>5. PICK z \in Nat \ {0}, y \in Nat : z = TwoTo[r] /\ WORD = z * (2 * y) /\ TwoTo[k] = u * z /\ TwoTo[k + 1] = 2 * (u * z)
  <2>1. PICK m \in Nat : WordBits = r + (m + 1)
    <3>1. WordBits - 1 - r \in Nat /\ WordBits = r + ((WordBits - 1 - r) + 1)
      BY <1>0, <1>1
    <3> QED BY <3>1
  <2>2. WORD = TwoTo[r] * TwoTo[m + 1] /\ TwoTo[m + 1] = 2 * TwoTo[m] /\ TwoTo[m] \in Nat /\ TwoTo[r] \in Nat \ {0}
    <3>1. m + 1 \in Nat
      OBVIOUS
    <3>2. TwoTo[r + (m + 1)] = TwoTo[r] * TwoTo[m + 1]
      BY <3>1, TwoToSum
    <3> QED BY <2>1, <3>2, TwoToProperties DEF WORD
  <2>3. WordBits * q \in Nat /\ k = WordBits * q + r
    BY <1>0, <1>1
  <2>4. TwoTo[k] = W(q) * TwoTo[r]
    BY <2>3, TwoToSum DEF W
  <2>5. TwoTo[k + 1] = 2 * TwoTo[k]
    BY TwoToProperties
  <2> QED BY <1>4, <2>2, <2>4, <2>5
<1>6. PICK a \in Nat, e \in Nat : a = v \div z /\ v = a * z + e /\ e <= z - 1
  <2>1. v \in Nat /\ v \in Int
    BY <1>0
  <2>2. v \div z \in Nat /\ v % z \in 0 .. z - 1 /\ v = (v \div z) * z + (v % z)
    BY <2>1, DivisionNat, DivisionExists
  <2> QED BY <2>2
<1>7. PICK c \in Nat, d \in 0 .. 1 : a = 2 * c + d /\ d = a % 2
  <2>1. a \div 2 \in Nat /\ a % 2 \in 0 .. 1 /\ a = 2 * (a \div 2) + (a % 2)
    OBVIOUS
  <2> QED BY <2>1
<1>8. d = IF IsSet(n, k) THEN 1 ELSE 0
  <2>1. IsSet(n, k) <=> d = 1
    BY <1>1, <1>4, <1>5, <1>6, <1>7 DEF IsSet
  <2> QED BY <2>1
<1>9. PICK K \in Nat \ {0}, low \in Nat, M \in Nat :
        /\ K = u * z /\ low = s + e * u /\ M = c + h * y /\ low <= K - 1
  <2>1. u * z \in Nat \ {0} /\ e * u \in Nat /\ h * y \in Nat
    <3>1. u * z \in Nat \ {0}
      OBVIOUS
    <3>2. e * u \in Nat /\ h * y \in Nat
      OBVIOUS
    <3> QED BY <3>1, <3>2
  <2>2. e * u <= (z - 1) * u
    BY <1>6
  <2>3. (z - 1) * u = u * z - u
    OBVIOUS
  <2>4. PICK p1 \in Int, p2 \in Int : p1 = e * u /\ p2 = u * z
    OBVIOUS
  <2>5. s + e * u \in Nat /\ s + e * u <= u * z - 1
    BY <1>4, <2>1, <2>2, <2>3, <2>4
  <2> QED BY <2>1, <2>5
<1>10. Value(n) = (2 * M + d) * K + low
  <2>1. Value(n) = (s + ((2 * c + d) * z + e) * u) + h * (u * (z * (2 * y)))
    BY <1>4, <1>5, <1>6, <1>7
  <2>2. (s + ((2 * c + d) * z + e) * u) + h * (u * (z * (2 * y))) = (2 * (c + h * y) + d) * (u * z) + (s + e * u)
    OBVIOUS
  <2> QED BY <1>9, <2>1, <2>2
<1>11. Value(n) \div K = 2 * M + d
  <2>1. PICK x \in Int, t \in Int : x = Value(n) /\ t = 2 * M + d
    BY <1>0
  <2>2. low \in 0 .. K - 1 /\ x = t * K + low
    BY <1>9, <1>10, <2>1
  <2>3. x \div K = t
    BY <2>2, DivisionUnique
  <2> QED BY <2>1, <2>3
<1>12. Value(n) \div (2 * K) = M
  <2>1. d * K + low \in 0 .. 2 * K - 1
    <3>1. CASE d = 0
      BY <1>9, <3>1
    <3>2. CASE d = 1
      BY <1>9, <3>2
    <3> QED BY <3>1, <3>2
  <2>2. (2 * M + d) * K + low = M * (2 * K) + (d * K + low)
    OBVIOUS
  <2>3. PICK x \in Int, D \in Nat \ {0}, t \in Int : x = Value(n) /\ D = 2 * K /\ t = d * K + low
    BY <1>0, <2>1
  <2>4. t \in 0 .. D - 1 /\ x = M * D + t /\ M \in Int
    BY <1>10, <2>1, <2>2, <2>3
  <2>5. x \div D = M
    BY <2>4, DivisionUnique
  <2> QED BY <2>3, <2>5
<1> QED
  BY <1>5, <1>8, <1>9, <1>11, <1>12

-----------------------------------------------------------------------------
(* bn_mul. *)

\* The weight of a word of a product.
LEMMA WeightsSum ==
  ASSUME NEW j \in Nat, NEW k \in Nat PROVE W(j + k) = W(j) * W(k)
<1>1. WordBits * j \in Nat /\ WordBits * k \in Nat /\ WordBits * (j + k) = WordBits * j + WordBits * k
  BY Sizes
<1> QED
  BY <1>1, TwoToSum DEF W

\* The product of two words.
LEMMA ProductOfWords ==
  ASSUME NEW v \in 0 .. WORD - 1, NEW u \in 0 .. WORD - 1
  PROVE  v * u \in 0 .. (WORD - 1) * (WORD - 1)
<1>1. PICK c \in Nat : c = WORD - 1
  BY Sizes
<1>2. v \in Nat /\ u \in Nat /\ v <= c /\ u <= c
  BY <1>1
<1>3. v * u <= c * u
  BY <1>2
<1>4. c * u <= c * c
  BY <1>2
<1>5. PICK p1 \in Nat, p2 \in Nat, p3 \in Nat : p1 = v * u /\ p2 = c * u /\ p3 = c * c
  BY <1>2
<1> QED
  BY <1>1, <1>3, <1>4, <1>5

\* A turn of the multiply loop: a product and the carry are added to a word.
Rowing == [words : Words, carry : 0 .. WORD - 1]
Turn(row, product, at) ==
  LET sum == product + row.carry + row.words[at]
  IN [words |-> [row.words EXCEPT ![at] = sum % WORD], carry |-> sum \div WORD]

\* It changes one word, and what it adds is the product.
LEMMA TurnProperties ==
  ASSUME NEW row \in Rowing, NEW product \in 0 .. (WORD - 1) * (WORD - 1), NEW at \in Index
  PROVE  /\ Turn(row, product, at) \in Rowing
         /\ \A k \in Index \ {at} : Turn(row, product, at).words[k] = row.words[k]
         /\ Total(Turn(row, product, at).words) + Turn(row, product, at).carry * W(at + 1)
              = (Total(row.words) + row.carry * W(at)) + product * W(at)
<1> DEFINE sum == product + row.carry + row.words[at]
           turned == Turn(row, product, at)
<1>0. /\ row.words \in Words /\ row.carry \in 0 .. WORD - 1 /\ row.words[at] \in 0 .. WORD - 1
      /\ WORD \in Nat \ {0} /\ at \in Nat /\ (WORD - 1) * (WORD - 1) \in Nat /\ product \in Nat
  BY Sizes DEF Rowing, Words, Index
<1>1. PICK t \in Nat : t = sum /\ t <= WORD * WORD - 1
  <2>1. (WORD - 1) * (WORD - 1) + (WORD - 1) + (WORD - 1) = WORD * WORD - 1
    BY <1>0
  <2>2. PICK p1 \in Int, p2 \in Int : p1 = (WORD - 1) * (WORD - 1) /\ p2 = WORD * WORD
    BY <1>0
  <2> QED BY <1>0, <2>1, <2>2
<1>2. PICK q \in Nat, r \in 0 .. WORD - 1 : q = t \div WORD /\ r = t % WORD /\ t = q * WORD + r
  <2>1. t \div WORD \in Nat /\ t % WORD \in 0 .. WORD - 1 /\ t = (t \div WORD) * WORD + (t % WORD)
    BY <1>0, t \in Int, DivisionNat, DivisionExists
  <2> QED BY <2>1
<1>3. q \in 0 .. WORD - 1
  <2> SUFFICES ASSUME q >= WORD PROVE FALSE
    BY <1>0
  <2>1. q * WORD >= WORD * WORD
    BY <1>0
  <2>2. PICK p1 \in Int, p2 \in Int : p1 = q * WORD /\ p2 = WORD * WORD
    BY <1>0
  <2> QED BY <1>0, <1>1, <1>2, <2>1, <2>2
<1>4. turned = [words |-> [row.words EXCEPT ![at] = r], carry |-> q]
  BY <1>1, <1>2 DEF Turn
<1> HIDE DEF turned, sum
<1>5. turned.words = [row.words EXCEPT ![at] = r] /\ turned.carry = q
  BY <1>4
<1>6. turned.words \in Words /\ Total(turned.words) = Total(row.words) + (r - row.words[at]) * W(at)
  BY <1>0, <1>5, WordChanged
<1>7. turned \in Rowing
  BY <1>3, <1>4, <1>5, <1>6 DEF Rowing
<1>8. \A k \in Index \ {at} : turned.words[k] = row.words[k]
  BY <1>0, <1>5 DEF Words
<1>9. PICK u \in Int, x \in Int, c \in Int, y \in Int, s \in Int :
        u = W(at) /\ x = row.words[at] /\ c = row.carry /\ y = product /\ s = Total(row.words)
  <2>1. W(at) \in Int
    BY <1>0, Weights
  <2>2. Total(row.words) \in Int
    <3>1. BN_MAX_WORDS \in 0 .. BN_MAX_WORDS
      BY Sizes
    <3> QED BY <1>0, <3>1, SumsProperties DEF Total
  <2>3. row.words[at] \in Int /\ row.carry \in Int /\ product \in Int
    BY <1>0
  <2> QED BY <2>1, <2>2, <2>3
<1>10. W(at + 1) = u * WORD
  BY <1>0, <1>9, Weights
<1>11. q * WORD + r = y + c + x
  BY <1>1, <1>2, <1>9 DEF sum
<1>12. (s + (r - x) * u) + q * (u * WORD) = (s + c * u) + y * u
  <2>1. (s + (r - x) * u) + q * (u * WORD) = s + ((q * WORD + r) - x) * u
    BY <1>0
  <2>2. s + ((y + c + x) - x) * u = (s + c * u) + y * u
    OBVIOUS
  <2> QED BY <1>11, <2>1, <2>2
<1> QED
  BY <1>5, <1>6, <1>7, <1>8, <1>9, <1>10, <1>12 DEF turned

\* A row obeys its equation.
LEMMA RowEquation ==
  ASSUME NEW words \in Words, NEW x, NEW y, Canonical(x), Canonical(y), NEW k \in 0 .. x.len - 1,
         k + y.len <= BN_MAX_WORDS - 1
  PROVE  /\ Row(words, x, y, k)[0] = [words |-> words, carry |-> 0]
         /\ \A j \in 0 .. y.len : Row(words, x, y, k)[j] \in Rowing
         /\ \A j \in 0 .. y.len - 1 :
              Row(words, x, y, k)[j + 1] = Turn(Row(words, x, y, k)[j], x.words[k] * y.words[j], k + j)
<1> DEFINE N == y.len
           Product(j) == x.words[k] * y.words[j]
           F == [j \in Nat |-> [row \in Rowing |-> IF j \in 0 .. N - 1 THEN Turn(row, Product(j), k + j) ELSE row]]
           start == [words |-> words, carry |-> 0]
           Solves(f) == f = [j \in 0 .. N |->
             IF j = 0 THEN start
             ELSE LET at == k + j - 1
                      sum == x.words[k] * y.words[j - 1] + f[j - 1].carry + f[j - 1].words[at]
                  IN [words |-> [f[j - 1].words EXCEPT ![at] = sum % WORD], carry |-> sum \div WORD]]
           r == Row(words, x, y, k)
<1>0. N \in Nat /\ N <= BN_MAX_WORDS /\ k \in Nat /\ k \in Index /\ Index = 0 .. BN_MAX_WORDS - 1 /\ BN_MAX_WORDS \in Nat
      /\ x.words \in Words /\ y.words \in Words /\ WORD \in Nat \ {0} /\ k + N <= BN_MAX_WORDS - 1
  BY CanonicalValue, Sizes DEF Index
<1>0a. start \in Rowing
  BY <1>0 DEF Rowing
<1> HIDE DEF N
<1>1. ASSUME NEW j \in 0 .. N - 1 PROVE Product(j) \in 0 .. (WORD - 1) * (WORD - 1) /\ k + j \in Index
  <2>1. j \in Index /\ k + j \in Index
    BY <1>0
  <2>2. x.words[k] \in 0 .. WORD - 1 /\ y.words[j] \in 0 .. WORD - 1
    BY <1>0, <2>1 DEF Words
  <2> QED BY <2>1, <2>2, ProductOfWords
<1> HIDE DEF Product
<1>2. F \in [Nat -> [Rowing -> Rowing]]
  <2>1. ASSUME NEW j \in 0 .. N - 1, NEW row \in Rowing PROVE Turn(row, Product(j), k + j) \in Rowing
    BY <1>1, TurnProperties
  <2> QED BY <2>1
<1>3. PICK f \in [0 .. N -> Rowing] : f[0] = start /\ \A j \in 0 .. N - 1 : f[j + 1] = F[j][f[j]]
  <2> HIDE DEF F, start
  <2>2. \E f \in [0 .. N -> Rowing] : Begins(f, N, start, F)
    BY <1>0, <1>0a, <1>2, BeginningExists
  <2> QED BY <2>2 DEF Begins
<1>4. Solves(f)
  <2>1. ASSUME NEW j \in 0 .. N, j # 0
        PROVE  f[j] = Turn(f[j - 1], x.words[k] * y.words[j - 1], k + j - 1)
    <3>1. j - 1 \in 0 .. N - 1 /\ (j - 1) + 1 = j /\ j - 1 \in Nat /\ j - 1 \in 0 .. N /\ k + (j - 1) = k + j - 1
      BY <1>0, <2>1
    <3>2. f[j - 1] \in Rowing
      BY <3>1
    <3>3. f[j] = Turn(f[j - 1], Product(j - 1), k + (j - 1))
      BY <1>3, <3>1, <3>2
    <3> QED BY <3>1, <3>3 DEF Product
  <2> HIDE DEF F, start
  <2>2. f = [j \in 0 .. N |-> IF j = 0 THEN start ELSE Turn(f[j - 1], x.words[k] * y.words[j - 1], k + j - 1)]
    BY <1>3, <2>1
  <2> QED BY <2>2 DEF Turn
<1>5. Solves(r)
  <2>1. r = CHOOSE g : Solves(g)
    BY DEF Row, N
  <2> HIDE DEF Solves, r
  <2> QED BY <1>4, <2>1
<1>5a. r = [j \in 0 .. N |-> IF j = 0 THEN start ELSE Turn(r[j - 1], x.words[k] * y.words[j - 1], k + j - 1)]
  <2> HIDE DEF r, start
  <2> QED BY <1>5 DEF Turn
<1> HIDE DEF r, F, Solves
<1>6. r[0] = start
  BY <1>0, <1>5a
<1>7. ASSUME NEW j \in 0 .. N - 1 PROVE r[j + 1] = Turn(r[j], x.words[k] * y.words[j], k + j)
  <2>1. j + 1 \in 0 .. N /\ j + 1 # 0 /\ (j + 1) - 1 = j /\ k + (j + 1) - 1 = k + j
    BY <1>0
  <2>2. r[j + 1] = Turn(r[(j + 1) - 1], x.words[k] * y.words[(j + 1) - 1], k + (j + 1) - 1)
    BY <1>5a, <2>1
  <2> QED BY <2>1, <2>2
<1>8. \A j \in 0 .. N : r[j] \in Rowing
  <2> DEFINE T == {j \in 0 .. N : r[j] \in Rowing}
  <2>1. 0 \in T
    BY <1>0, <1>0a, <1>6
  <2>2. ASSUME NEW j \in 0 .. N - 1, j \in T PROVE j + 1 \in T
    <3>1. r[j + 1] = Turn(r[j], Product(j), k + j) /\ r[j] \in Rowing
      BY <1>7, <2>2 DEF Product
    <3>2. r[j + 1] \in Rowing
      BY <1>1, <3>1, TurnProperties
    <3> QED BY <1>0, <3>2
  <2>3. \A j \in 0 .. N : j \in T
    <3> HIDE DEF T
    <3> QED BY <1>0, <2>1, <2>2, InductionTo
  <2> QED BY <2>3
<1> QED
  BY <1>6, <1>7, <1>8 DEF N, r

\* A row adds a word times the number, at the place of the word.
LEMMA RowProperties ==
  ASSUME NEW words \in Words, NEW x, NEW y, Canonical(x), Canonical(y), NEW k \in 0 .. x.len - 1,
         k + y.len <= BN_MAX_WORDS - 1
  PROVE  LET row == Row(words, x, y, k)[y.len] IN
         /\ row \in Rowing
         /\ \A m \in k + y.len .. BN_MAX_WORDS - 1 : row.words[m] = words[m]
         /\ Total(row.words) + row.carry * W(k + y.len) = Total(words) + (x.words[k] * Value(y)) * W(k)
<1> DEFINE N == y.len
           r == Row(words, x, y, k)
           Worth(j) == Total(r[j].words) + r[j].carry * W(k + j) = Total(words) + (x.words[k] * Sums(y.words)[j]) * W(k)
           Upper(j) == \A m \in k + j .. BN_MAX_WORDS - 1 : r[j].words[m] = words[m]
           T == {j \in 0 .. N : Worth(j) /\ Upper(j)}
<1>0. N \in Nat /\ N <= BN_MAX_WORDS /\ k \in Nat /\ k \in Index /\ Index = 0 .. BN_MAX_WORDS - 1 /\ BN_MAX_WORDS \in Nat
      /\ x.words \in Words /\ y.words \in Words /\ WORD \in Nat \ {0} /\ k + N <= BN_MAX_WORDS - 1
      /\ x.words[k] \in Int /\ Value(y) = Sums(y.words)[N]
  <2>1. k \in Index /\ x.words \in Words /\ WORD \in Nat
    BY CanonicalValue, Sizes DEF Index
  <2>2. x.words[k] \in Int
    BY <2>1 DEF Words
  <2> QED BY <2>2, CanonicalValue, Sizes DEF Index, Value
<1>1. /\ r[0] = [words |-> words, carry |-> 0] /\ \A j \in 0 .. N : r[j] \in Rowing
      /\ \A j \in 0 .. N - 1 : r[j + 1] = Turn(r[j], x.words[k] * y.words[j], k + j)
  BY RowEquation
<1> HIDE DEF r, N
<1>2. 0 \in T
  <2>1. Sums(y.words)[0] = 0 /\ W(k) \in Int /\ Total(words) \in Int
    <3>1. BN_MAX_WORDS \in 0 .. BN_MAX_WORDS
      BY <1>0
    <3>2. W(k) \in Int
      BY <1>0, Weights
    <3>3. Sums(y.words)[0] = 0
      BY <1>0, SumsProperties
    <3>4. Total(words) \in Int
      BY <3>1, SumsProperties DEF Total
    <3> QED BY <3>2, <3>3, <3>4
  <2>2. (x.words[k] * 0) * W(k) = 0 /\ 0 * W(k + 0) = 0 /\ k + 0 = k
    BY <1>0, <2>1
  <2>3. r[0].words = words /\ r[0].carry = 0
    BY <1>1
  <2>4. Worth(0)
    BY <2>1, <2>2, <2>3
  <2>5. Upper(0)
    BY <2>3
  <2> HIDE DEF Worth, Upper
  <2> QED BY <1>0, <2>4, <2>5
<1>3. ASSUME NEW j \in 0 .. N - 1, j \in T PROVE j + 1 \in T
  <2>0. j \in Nat /\ j \in 0 .. N /\ j + 1 \in 0 .. N /\ j \in Index /\ k + j \in Index /\ k + j \in Nat
        /\ j \in 0 .. BN_MAX_WORDS /\ k + (j + 1) = (k + j) + 1
    BY <1>0
  <2>1. r[j] \in Rowing /\ r[j + 1] = Turn(r[j], x.words[k] * y.words[j], k + j)
    BY <1>1, <2>0
  <2>2. x.words[k] * y.words[j] \in 0 .. (WORD - 1) * (WORD - 1)
    <3>1. x.words[k] \in 0 .. WORD - 1 /\ y.words[j] \in 0 .. WORD - 1
      BY <1>0, <2>0 DEF Words
    <3> QED BY <3>1, ProductOfWords
  <2>3. /\ r[j + 1] \in Rowing
        /\ \A m \in Index \ {k + j} : r[j + 1].words[m] = r[j].words[m]
        /\ Total(r[j + 1].words) + r[j + 1].carry * W((k + j) + 1)
             = (Total(r[j].words) + r[j].carry * W(k + j)) + (x.words[k] * y.words[j]) * W(k + j)
    BY <2>0, <2>1, <2>2, TurnProperties
  <2>4. Worth(j) /\ Upper(j)
    BY <1>3
  <2>5. Upper(j + 1)
    <3>1. ASSUME NEW m \in k + (j + 1) .. BN_MAX_WORDS - 1 PROVE m \in Index \ {k + j} /\ m \in k + j .. BN_MAX_WORDS - 1
      BY <1>0, <2>0
    <3> QED BY <2>3, <2>4, <3>1
  <2>6. Sums(y.words)[j + 1] = Sums(y.words)[j] + y.words[j] * W(j) /\ W(k + j) = W(k) * W(j)
    BY <1>0, <2>0, SumsProperties, WeightsSum
  <2>7. PICK v \in Int, e \in Int, s \in Int, u \in Int, z \in Int, t \in Int :
          v = x.words[k] /\ e = y.words[j] /\ s = Sums(y.words)[j] /\ u = W(k) /\ z = W(j) /\ t = Total(words)
    <3>1. y.words[j] \in Int
      <4>1. y.words[j] \in 0 .. WORD - 1 /\ WORD \in Nat
        BY <1>0, <2>0 DEF Words
      <4> QED BY <4>1
    <3>2. W(k) \in Int /\ W(j) \in Int
      <4>1. k \in Nat /\ j \in Nat
        BY <1>0, <2>0
      <4>2. W(k) \in Nat \ {0} /\ W(j) \in Nat \ {0}
        BY <4>1, Weights
      <4> QED BY <4>2
    <3>3. Sums(y.words)[j] \in Int
      BY <1>0, <2>0, SumsProperties
    <3>4. Total(words) \in Int
      <4>1. BN_MAX_WORDS \in 0 .. BN_MAX_WORDS
        BY <1>0
      <4> QED BY <4>1, SumsProperties DEF Total
    <3> QED BY <1>0, <3>1, <3>2, <3>3, <3>4
  <2>8. (t + (v * s) * u) + (v * e) * (u * z) = t + (v * (s + e * z)) * u
    OBVIOUS
  <2>9. Total(r[j].words) + r[j].carry * W(k + j) = t + (v * s) * u
    BY <2>4, <2>7
  <2>10. Total(r[j + 1].words) + r[j + 1].carry * W(k + (j + 1)) = (t + (v * s) * u) + (v * e) * (u * z)
    BY <2>0, <2>3, <2>6, <2>7, <2>9
  <2>11. Worth(j + 1)
    BY <2>6, <2>7, <2>8, <2>10
  <2> HIDE DEF Worth, Upper
  <2> QED BY <2>0, <2>5, <2>11
<1> HIDE DEF Worth, Upper
<1>4. \A j \in 0 .. N : j \in T
  <2> HIDE DEF T
  <2> QED BY <1>0, <1>2, <1>3, InductionTo
<1>5. Worth(N) /\ Upper(N) /\ r[N] \in Rowing
  BY <1>0, <1>1, <1>4
<1> QED
  BY <1>0, <1>5 DEF Worth, Upper, r, N

\* AddRow does, and does not reach further than the carry.
LEMMA AddRowProperties ==
  ASSUME NEW words \in Words, NEW x, NEW y, Canonical(x), Canonical(y), NEW k \in 0 .. x.len - 1,
         k + y.len <= BN_MAX_WORDS - 1
  PROVE  /\ AddRow(words, x, y, k) \in Words
         /\ (\A m \in k + y.len .. BN_MAX_WORDS - 1 : words[m] = 0) =>
              /\ \A m \in k + y.len + 1 .. BN_MAX_WORDS - 1 : AddRow(words, x, y, k)[m] = 0
              /\ Total(AddRow(words, x, y, k)) = Total(words) + (x.words[k] * Value(y)) * W(k)
<1> DEFINE row == Row(words, x, y, k)[y.len]
           at == k + y.len
           added == AddRow(words, x, y, k)
<1>0. /\ at \in Index /\ at \in Nat /\ y.len \in Nat /\ k \in Nat /\ BN_MAX_WORDS \in Nat /\ Index = 0 .. BN_MAX_WORDS - 1
      /\ WORD \in Nat \ {0} /\ WORD \in Int /\ Value(y) \in Int /\ x.words[k] \in Int
  <2>1. k \in Index /\ x.words \in Words /\ WORD \in Nat
    BY CanonicalValue, Sizes DEF Index
  <2>2. x.words[k] \in Int
    BY <2>1 DEF Words
  <2> QED BY <2>2, CanonicalValue, Sizes DEF Index
<1>1. /\ row \in Rowing /\ \A m \in at .. BN_MAX_WORDS - 1 : row.words[m] = words[m]
      /\ Total(row.words) + row.carry * W(at) = Total(words) + (x.words[k] * Value(y)) * W(k)
  BY RowProperties
<1>2. added = IF x.words[k] = 0 THEN words
              ELSE IF row.carry = 0 THEN row.words
              ELSE [row.words EXCEPT ![at] = (row.words[at] + row.carry) % WORD]
  BY DEF AddRow
<1> HIDE DEF row, added, at
<1>3. row.words \in Words /\ row.carry \in 0 .. WORD - 1 /\ row.words[at] \in 0 .. WORD - 1
  BY <1>0, <1>1 DEF Rowing, Words
<1>4. PICK v \in 0 .. WORD - 1 : v = (row.words[at] + row.carry) % WORD
  <2>1. row.words[at] + row.carry \in Int
    BY <1>0, <1>3
  <2> QED BY <1>0, <2>1, DivisionExists
<1>5. added \in Words
  BY <1>0, <1>2, <1>3, <1>4, WordChanged
<1>6. ASSUME \A m \in at .. BN_MAX_WORDS - 1 : words[m] = 0
      PROVE  /\ \A m \in at + 1 .. BN_MAX_WORDS - 1 : added[m] = 0
             /\ Total(added) = Total(words) + (x.words[k] * Value(y)) * W(k)
  <2>0. /\ \A m \in at + 1 .. BN_MAX_WORDS - 1 : m \in at .. BN_MAX_WORDS - 1 /\ m \in Index /\ m # at
        /\ at \in at .. BN_MAX_WORDS - 1
    BY <1>0
  <2>1. row.words[at] = 0 /\ v = row.carry
    <3>1. row.words[at] = 0
      BY <1>1, <1>6, <2>0
    <3>2. PICK c \in 0 .. WORD - 1 : c = row.carry
      BY <1>3
    <3>3. c \in Int /\ c = 0 * WORD + c /\ 0 + c = c
      BY <1>0
    <3>4. c % WORD = c
      BY <1>0, <3>3, 0 \in Int, DivisionUnique
    <3> QED BY <1>4, <3>1, <3>2, <3>3, <3>4
  <2>2. Total(words) \in Int /\ Total(row.words) \in Int /\ W(at) \in Int /\ W(k) \in Int
    <3>1. BN_MAX_WORDS \in 0 .. BN_MAX_WORDS
      BY <1>0
    <3>2. W(at) \in Int /\ W(k) \in Int
      <4>1. W(at) \in Nat \ {0} /\ W(k) \in Nat \ {0}
        BY <1>0, Weights
      <4> HIDE DEF W
      <4> QED BY <4>1
    <3>3. Total(words) \in Int /\ Total(row.words) \in Int
      BY <1>3, <3>1, SumsProperties DEF Total
    <3> QED BY <3>2, <3>3
  <2>3. CASE x.words[k] = 0
    <3>1. added = words
      BY <1>2, <2>3
    <3>2. (0 * Value(y)) * W(k) = 0
      BY <1>0, <2>2
    <3> QED BY <1>6, <2>0, <2>2, <2>3, <3>1, <3>2
  <2>4. CASE x.words[k] # 0 /\ row.carry = 0
    <3>1. added = row.words
      BY <1>2, <2>4
    <3>2. 0 * W(at) = 0
      BY <2>2
    <3>3. \A m \in at + 1 .. BN_MAX_WORDS - 1 : added[m] = 0
      BY <1>1, <1>6, <2>0, <3>1
    <3>4. Total(added) = Total(words) + (x.words[k] * Value(y)) * W(k)
      BY <1>1, <2>2, <2>4, <3>1, <3>2
    <3> QED BY <3>3, <3>4
  <2>5. CASE x.words[k] # 0 /\ row.carry # 0
    <3>1. added = [row.words EXCEPT ![at] = v]
      BY <1>2, <1>4, <2>5
    <3>2. Total(added) = Total(row.words) + (v - row.words[at]) * W(at)
      BY <1>0, <1>3, <3>1, WordChanged
    <3>3. v - row.words[at] = row.carry
      BY <1>0, <2>1
    <3>4. \A m \in at + 1 .. BN_MAX_WORDS - 1 : added[m] = 0
      BY <1>1, <1>3, <1>6, <2>0, <3>1 DEF Words
    <3> QED BY <1>1, <3>2, <3>3, <3>4
  <2> QED BY <2>3, <2>4, <2>5
<1> QED
  BY <1>5, <1>6 DEF at, added

\* The rows obey their equation.
LEMMA RowsEquation ==
  ASSUME NEW x, NEW y, Canonical(x), Canonical(y), x.len + y.len <= BN_MAX_WORDS
  PROVE  /\ Rows(x, y)[0] = bn_zero.words
         /\ \A k \in 0 .. x.len : Rows(x, y)[k] \in Words
         /\ \A k \in 0 .. x.len - 1 : Rows(x, y)[k + 1] = AddRow(Rows(x, y)[k], x, y, k)
<1> DEFINE N == x.len
           F == [k \in Nat |-> [w \in Words |-> IF k \in 0 .. N - 1 THEN AddRow(w, x, y, k) ELSE w]]
           start == bn_zero.words
           Solves(f) == f = [k \in 0 .. N |-> IF k = 0 THEN start ELSE AddRow(f[k - 1], x, y, k - 1)]
           r == Rows(x, y)
<1>0. N \in Nat /\ y.len \in Nat /\ BN_MAX_WORDS \in Nat /\ \A k \in 0 .. N - 1 : k + y.len <= BN_MAX_WORDS - 1
  BY CanonicalValue, Sizes
<1>0a. start \in Words
  <2>1. 0 \in 0 .. WORD - 1
    BY Sizes
  <2> QED BY <2>1, SmallNumber, CanonicalValue DEF bn_zero
<1>1. F \in [Nat -> [Words -> Words]]
  <2>1. ASSUME NEW k \in 0 .. N - 1, NEW w \in Words PROVE AddRow(w, x, y, k) \in Words
    BY <1>0, AddRowProperties
  <2> QED BY <2>1
<1> HIDE DEF N, start
<1>3. PICK f \in [0 .. N -> Words] : f[0] = start /\ \A k \in 0 .. N - 1 : f[k + 1] = F[k][f[k]]
  <2> HIDE DEF F
  <2>2. \E f \in [0 .. N -> Words] : Begins(f, N, start, F)
    BY <1>0, <1>0a, <1>1, BeginningExists
  <2> QED BY <2>2 DEF Begins
<1>4. Solves(f)
  <2>1. ASSUME NEW k \in 0 .. N, k # 0 PROVE f[k] = AddRow(f[k - 1], x, y, k - 1)
    <3>1. k - 1 \in 0 .. N - 1 /\ (k - 1) + 1 = k /\ k - 1 \in Nat /\ k - 1 \in 0 .. N
      BY <1>0, <2>1
    <3>2. f[k - 1] \in Words
      BY <3>1
    <3> QED BY <1>3, <3>1, <3>2
  <2> HIDE DEF F
  <2> QED BY <1>3, <2>1
<1>5. Solves(r)
  <2>1. r = CHOOSE g : Solves(g)
    BY DEF Rows, N, start
  <2> HIDE DEF Solves, r
  <2> QED BY <1>4, <2>1
<1> HIDE DEF F, r
<1>6. r[0] = start
  BY <1>0, <1>5
<1>7. ASSUME NEW k \in 0 .. N - 1 PROVE r[k + 1] = AddRow(r[k], x, y, k)
  <2>1. k + 1 \in 0 .. N /\ k + 1 # 0 /\ (k + 1) - 1 = k
    BY <1>0
  <2>2. r[k + 1] = AddRow(r[(k + 1) - 1], x, y, (k + 1) - 1)
    BY <1>5, <2>1
  <2> QED BY <2>1, <2>2
<1>8. \A k \in 0 .. N : r[k] \in Words
  <2> DEFINE T == {k \in 0 .. N : r[k] \in Words}
  <2>1. 0 \in T
    BY <1>0, <1>0a, <1>6
  <2>2. ASSUME NEW k \in 0 .. N - 1, k \in T PROVE k + 1 \in T
    <3>1. r[k + 1] = AddRow(r[k], x, y, k) /\ r[k] \in Words
      BY <1>7, <2>2
    <3>2. k \in 0 .. x.len - 1 /\ k + y.len <= BN_MAX_WORDS - 1
      BY <1>0 DEF N
    <3>3. r[k + 1] \in Words
      BY <3>1, <3>2, AddRowProperties
    <3> QED BY <1>0, <3>3
  <2>3. \A k \in 0 .. N : k \in T
    <3> HIDE DEF T
    <3> QED BY <1>0, <2>1, <2>2, InductionTo
  <2> QED BY <2>3
<1> QED
  BY <1>6, <1>7, <1>8 DEF N, r, start

\* bn_mul multiplies numbers whose product has room.
LEMMA Multiplies ==
  ASSUME NEW x, NEW y, Canonical(x), Canonical(y), x.len + y.len <= BN_MAX_WORDS
  PROVE  Canonical(bn_mul(x, y)) /\ Value(bn_mul(x, y)) = Value(x) * Value(y)
<1> DEFINE N == x.len
           r == Rows(x, y)
           Done(k) == /\ \A m \in k + y.len .. BN_MAX_WORDS - 1 : r[k][m] = 0
                      /\ Total(r[k]) = Sums(x.words)[k] * Value(y)
           T == {k \in 0 .. N : Done(k)}
           product == [words |-> r[N], len |-> N + y.len]
<1>0. /\ N \in 1 .. BN_MAX_WORDS /\ N \in Nat /\ y.len \in 1 .. BN_MAX_WORDS /\ y.len \in Nat
      /\ BN_MAX_WORDS \in Nat /\ Index = 0 .. BN_MAX_WORDS - 1
      /\ \A k \in 0 .. N - 1 : k + y.len <= BN_MAX_WORDS - 1 /\ k \in Index /\ k \in 0 .. x.len - 1
      /\ Value(y) \in Int /\ x.words \in Words /\ Value(x) = Sums(x.words)[N] /\ N + y.len <= BN_MAX_WORDS
  BY CanonicalValue, Sizes DEF Index, Value
<1>1. /\ r[0] = bn_zero.words /\ \A k \in 0 .. N : r[k] \in Words
      /\ \A k \in 0 .. N - 1 : r[k + 1] = AddRow(r[k], x, y, k)
  BY RowsEquation
<1>2. 0 \in T
  <2>1. Canonical(bn_zero) /\ Value(bn_zero) = 0
    <3>1. 0 \in 0 .. WORD - 1
      BY Sizes
    <3> QED BY <3>1, SmallNumber DEF bn_zero
  <2>2. \A m \in Index : bn_zero.words[m] = 0
    BY DEF bn_zero, bn_from_uint
  <2>3. Total(r[0]) = 0
    BY <1>1, <2>1, CanonicalValue DEF Total
  <2>4. Sums(x.words)[0] * Value(y) = 0
    <3>1. Sums(x.words)[0] = 0
      BY <1>0, SumsProperties
    <3>2. 0 * Value(y) = 0
      BY <1>0
    <3> QED BY <3>1, <3>2
  <2>5. \A m \in 0 + y.len .. BN_MAX_WORDS - 1 : m \in Index
    BY <1>0
  <2>6. Done(0)
    BY <1>1, <2>2, <2>3, <2>4, <2>5
  <2> HIDE DEF Done
  <2> QED BY <1>0, <2>6
<1> HIDE DEF r, N
<1>3. ASSUME NEW k \in 0 .. N - 1, k \in T PROVE k + 1 \in T
  <2>0. k \in 0 .. N /\ k + 1 \in 0 .. N /\ k \in Nat /\ k \in 0 .. BN_MAX_WORDS /\ (k + 1) + y.len = k + y.len + 1
    BY <1>0
  <2>1. Done(k) /\ r[k] \in Words /\ r[k + 1] = AddRow(r[k], x, y, k)
    BY <1>1, <1>3, <2>0
  <2>2. k \in 0 .. x.len - 1 /\ k + y.len <= BN_MAX_WORDS - 1 /\ k \in Index
    BY <1>0
  <2>3. /\ \A m \in k + y.len + 1 .. BN_MAX_WORDS - 1 : r[k + 1][m] = 0
        /\ Total(r[k + 1]) = Total(r[k]) + (x.words[k] * Value(y)) * W(k)
    BY <2>1, <2>2, AddRowProperties
  <2>4. PICK s \in Int, v \in Int, u \in Int, z \in Int :
          s = Sums(x.words)[k] /\ v = x.words[k] /\ u = W(k) /\ z = Value(y)
    <3>1. Sums(x.words)[k] \in Int
      BY <1>0, <2>0, SumsProperties
    <3>2. x.words[k] \in 0 .. WORD - 1 /\ WORD \in Nat
      BY <1>0, <2>2, Sizes DEF Words
    <3>3. W(k) \in Int
      BY <2>0, Weights
    <3> QED BY <1>0, <3>1, <3>2, <3>3
  <2>5. Sums(x.words)[k + 1] = s + v * u
    BY <1>0, <2>2, <2>4, SumsProperties
  <2>6. s * z + (v * z) * u = (s + v * u) * z
    OBVIOUS
  <2>7. Total(r[k + 1]) = Sums(x.words)[k + 1] * Value(y)
    BY <2>1, <2>3, <2>4, <2>5, <2>6
  <2>8. Done(k + 1)
    BY <2>0, <2>3, <2>7
  <2> HIDE DEF Done
  <2> QED BY <2>0, <2>8
<1>4. \A k \in 0 .. N : k \in T
  <2> HIDE DEF T
  <2> QED BY <1>0, <1>2, <1>3, InductionTo
<1>5. N \in T /\ r[N] \in Words
  BY <1>0, <1>1, <1>4
<1>6. product \in Nums /\ ZeroAbove(product)
  BY <1>0, <1>5 DEF Nums, ZeroAbove
<1>7. Value(product) = Total(r[N])
  BY <1>6, ValueOfAll DEF Total
<1>8. bn_mul(x, y) = bn_trim(product)
  <2>1. ~ (x.len + y.len > BN_MAX_WORDS)
    BY <1>0 DEF N
  <2> QED BY <2>1 DEF bn_mul, r, N
<1> HIDE DEF product
<1> QED
  BY <1>0, <1>5, <1>6, <1>7, <1>8, Trim

-----------------------------------------------------------------------------
(* Powers modulo a number. *)

\* The powers obey their equation.
LEMMA PowersProperties ==
  ASSUME NEW x \in Nat, NEW m \in Nat, m > 1
  PROVE  /\ Powers(x, m)[0] = 1
         /\ \A n \in Nat : Powers(x, m)[n] \in 0 .. m - 1 /\ Powers(x, m)[n + 1] = (x * Powers(x, m)[n]) % m
<1> DEFINE F == [n \in Nat |-> [v \in 0 .. m - 1 |-> (x * v) % m]]
           Solves(f) == f = [n \in Nat |-> IF n = 0 THEN 1 ELSE (x * f[n - 1]) % m]
           power == Powers(x, m)
<1>1. F \in [Nat -> [0 .. m - 1 -> 0 .. m - 1]]
  <2>1. ASSUME NEW v \in 0 .. m - 1 PROVE (x * v) % m \in 0 .. m - 1
    <3>1. PICK t \in Int : t = x * v
      OBVIOUS
    <3>2. m \in Nat \ {0}
      OBVIOUS
    <3> QED BY <3>1, <3>2, DivisionExists
  <2> QED BY <2>1
<1>2. PICK f \in [Nat -> 0 .. m - 1] : f[0] = 1 /\ \A n \in Nat : f[n + 1] = F[n][f[n]]
  <2> HIDE DEF F
  <2>1. 1 \in 0 .. m - 1
    OBVIOUS
  <2>2. \E f \in [Nat -> 0 .. m - 1] : Follows(f, 1, F)
    BY <1>1, <2>1, SequenceExists
  <2> QED BY <2>2 DEF Follows
<1>3. ASSUME NEW n \in Nat PROVE f[n] = IF n = 0 THEN 1 ELSE (x * f[n - 1]) % m
  <2>1. CASE n = 0
    BY <2>1, <1>2
  <2>2. CASE n # 0
    <3>1. n - 1 \in Nat /\ (n - 1) + 1 = n
      BY <2>2
    <3>2. f[n] = F[n - 1][f[n - 1]]
      BY <3>1, <1>2
    <3> QED BY <2>2, <3>1, <3>2
  <2> QED BY <2>1, <2>2
<1>4. Solves(f)
  BY <1>3
<1>5. Solves(power)
  <2>1. power = CHOOSE g : Solves(g)
    BY DEF Powers
  <2> HIDE DEF Solves, power
  <2> QED BY <1>4, <2>1
<1> HIDE DEF F, power
<1>6. power[0] = 1
  BY <1>5
<1>7. ASSUME NEW n \in Nat PROVE power[n + 1] = (x * power[n]) % m
  <2>1. n + 1 \in Nat /\ n + 1 # 0 /\ (n + 1) - 1 = n
    OBVIOUS
  <2> QED BY <1>5, <2>1
<1>8. ASSUME NEW n \in Nat PROVE power[n] = f[n]
  <2> DEFINE T == {k \in Nat : power[k] = f[k]}
  <2>1. 0 \in T
    BY <1>2, <1>6
  <2>2. ASSUME NEW k \in T PROVE k + 1 \in T
    <3>1. power[k + 1] = (x * power[k]) % m /\ f[k + 1] = F[k][f[k]] /\ f[k] \in 0 .. m - 1 /\ power[k] = f[k]
      BY <1>2, <1>7
    <3>2. F[k][f[k]] = (x * f[k]) % m
      BY <3>1 DEF F
    <3> QED BY <3>1, <3>2
  <2>3. T = Nat
    <3>1. T \in SUBSET Nat
      OBVIOUS
    <3> HIDE DEF T
    <3> QED BY <2>1, <2>2, <3>1, Induction
  <2> QED BY <2>3
<1>9. \A n \in Nat : power[n] \in 0 .. m - 1
  BY <1>2, <1>8
<1> QED
  BY <1>6, <1>7, <1>9 DEF power

\* The product of two powers.
LEMMA PowersProduct ==
  ASSUME NEW x \in Nat, NEW m \in Nat, m > 1, NEW j \in Nat, NEW k \in Nat
  PROVE  PowerMod(x, j + k, m) = (PowerMod(x, j, m) * PowerMod(x, k, m)) % m
<1> DEFINE power == Powers(x, m)
           T == {n \in Nat : power[j + n] = (power[j] * power[n]) % m}
<1>1. power[0] = 1 /\ \A n \in Nat : power[n] \in 0 .. m - 1 /\ power[n + 1] = (x * power[n]) % m
  BY PowersProperties
<1> HIDE DEF power
<1>2. 0 \in T
  <2>1. PICK v \in 0 .. m - 1 : v = power[j]
    BY <1>1
  <2>2. v * 1 = v /\ v = 0 * m + v /\ v \in Int /\ m \in Nat \ {0} /\ j + 0 = j
    OBVIOUS
  <2>3. v % m = v
    BY <2>2, 0 \in Int, DivisionUnique
  <2> QED BY <1>1, <2>1, <2>2, <2>3
<1>3. ASSUME NEW n \in T PROVE n + 1 \in T
  <2>1. PICK u \in Int, v \in Int, y \in Int : u = power[j] /\ v = power[n] /\ y = x
    <3>1. power[j] \in Int /\ power[n] \in Int
      BY <1>1
    <3> QED BY <3>1
  <2>2. j + n \in Nat /\ j + (n + 1) = (j + n) + 1 /\ power[j + n] = (u * v) % m /\ m \in Nat \ {0}
    BY <2>1
  <2>3. power[j + (n + 1)] = (y * ((u * v) % m)) % m
    BY <1>1, <2>1, <2>2
  <2>4. PICK w \in Int, q \in Int : w = u * v /\ q = y * v
    OBVIOUS
  <2>5. (y * (w % m)) % m = (w * y) % m
    <3>1. w % m \in Int
      BY <2>2, DivisionExists
    <3>2. y * (w % m) = (w % m) * y
      BY <3>1
    <3>3. ((w % m) * y) % m = (w * y) % m
      BY <2>2, ModOfProduct
    <3> QED BY <3>2, <3>3
  <2>6. (u * (q % m)) % m = (q * u) % m
    <3>1. q % m \in Int
      BY <2>2, DivisionExists
    <3>2. u * (q % m) = (q % m) * u
      BY <3>1
    <3>3. ((q % m) * u) % m = (q * u) % m
      BY <2>2, ModOfProduct
    <3> QED BY <3>2, <3>3
  <2>7. w * y = q * u
    BY <2>4
  <2>8. power[n + 1] = q % m
    BY <1>1, <2>1, <2>4
  <2>9. power[j + (n + 1)] = (power[j] * power[n + 1]) % m
    BY <2>1, <2>3, <2>4, <2>5, <2>6, <2>7, <2>8
  <2> QED BY <2>9
<1>4. T = Nat
  <2>1. T \in SUBSET Nat
    OBVIOUS
  <2> HIDE DEF T
  <2> QED BY <1>2, <1>3, <2>1, Induction
<1> QED
  BY <1>4 DEF PowerMod, power

-----------------------------------------------------------------------------
(* bn_from_bytes. *)

Buffer == Seq(0 .. BYTE - 1)
Unread(bytes) ==
  LET full == Len(bytes) \div Bytes + 1
  IN [words |-> [k \in Index |-> Shifted(bytes, k)[Bytes]], len |-> IF full > BN_MAX_WORDS THEN BN_MAX_WORDS ELSE full]

\* What bn_from_bytes trims.
LEMMA FromBytesIs == ASSUME NEW bytes PROVE bn_from_bytes(bytes) = bn_trim(Unread(bytes))
BY DEF bn_from_bytes, Unread

\* A byte.
LEMMA LowIsByte ==
  ASSUME NEW bytes \in Buffer, NEW n \in Nat
  PROVE  Low(bytes, n) \in 0 .. BYTE - 1 /\ (n >= Len(bytes) => Low(bytes, n) = 0)
<1>1. Len(bytes) \in Nat /\ BYTE \in Nat /\ BYTE >= 2
  BY Sizes DEF Buffer
<1>2. CASE n < Len(bytes)
  <2>1. PICK k \in 1 .. Len(bytes) : k = Len(bytes) - n
    BY <1>1, <1>2
  <2>2. bytes[k] \in 0 .. BYTE - 1
    <3>1. PICK S : S = 0 .. BYTE - 1
      OBVIOUS
    <3>2. bytes \in Seq(S)
      BY <3>1 DEF Buffer
    <3>3. bytes[k] \in S
      BY <3>2
    <3> QED BY <3>1, <3>3
  <2>3. Low(bytes, n) = bytes[k]
    BY <1>2, <2>1 DEF Low
  <2>4. ~ (n >= Len(bytes))
    BY <1>1, <1>2
  <2> QED BY <2>2, <2>3, <2>4
<1>3. CASE ~ (n < Len(bytes))
  BY <1>1, <1>3 DEF Low
<1> QED
  BY <1>2, <1>3

\* A word of bytes; it is zero if it lies behind them all.
LEMMA ShiftedProperties ==
  ASSUME NEW bytes \in Buffer, NEW k \in Nat
  PROVE  /\ Shifted(bytes, k)[Bytes] \in 0 .. WORD - 1
         /\ k * Bytes >= Len(bytes) => Shifted(bytes, k)[Bytes] = 0
<1> DEFINE N == Bytes
           Add(j) == Low(bytes, k * Bytes + j) * TwoTo[ByteBits * j]
           F == [j \in Nat |-> [v \in Nat |-> v + Add(j)]]
           Solves(f) == f = [j \in 0 .. N |->
             IF j = 0 THEN 0 ELSE f[j - 1] + Low(bytes, k * Bytes + j - 1) * TwoTo[ByteBits * (j - 1)]]
           sum == Shifted(bytes, k)
<1>0. N \in Nat /\ ByteBits \in Nat /\ Bytes \in Nat /\ k * Bytes \in Nat /\ BYTE \in Nat /\ BYTE >= 2 /\ Len(bytes) \in Nat
  BY Sizes DEF Buffer
<1>1. ASSUME NEW j \in Nat
      PROVE  Add(j) \in Nat /\ Low(bytes, k * Bytes + j) \in 0 .. BYTE - 1
             /\ TwoTo[ByteBits * j] \in Nat /\ TwoTo[ByteBits * (j + 1)] = TwoTo[ByteBits * j] * BYTE
             /\ (k * Bytes >= Len(bytes) => Add(j) = 0)
  <2>1. k * Bytes + j \in Nat /\ ByteBits * j \in Nat /\ ByteBits * (j + 1) = ByteBits * j + ByteBits
    BY <1>0
  <2>2. PICK v \in 0 .. BYTE - 1, u \in Nat :
          v = Low(bytes, k * Bytes + j) /\ u = TwoTo[ByteBits * j] /\ (k * Bytes + j >= Len(bytes) => v = 0)
    BY <2>1, LowIsByte, TwoToProperties
  <2>3. TwoTo[ByteBits * j + ByteBits] = TwoTo[ByteBits * j] * TwoTo[ByteBits]
    BY <1>0, <2>1, TwoToSum
  <2>4. v * u \in Nat /\ 0 * u = 0
    BY <1>0
  <2>5. k * Bytes >= Len(bytes) => k * Bytes + j >= Len(bytes)
    BY <1>0
  <2> QED BY <2>1, <2>2, <2>3, <2>4, <2>5 DEF BYTE
<1> HIDE DEF Add, N
<1>2. F \in [Nat -> [Nat -> Nat]]
  <2>1. ASSUME NEW j \in Nat, NEW v \in Nat PROVE v + Add(j) \in Nat
    <3>1. PICK a \in Nat : a = Add(j)
      BY <1>1
    <3> QED BY <3>1
  <2> QED BY <2>1
<1>3. PICK f \in [0 .. N -> Nat] : f[0] = 0 /\ \A j \in 0 .. N - 1 : f[j + 1] = F[j][f[j]]
  <2> HIDE DEF F
  <2>1. 0 \in Nat
    OBVIOUS
  <2>2. \E f \in [0 .. N -> Nat] : Begins(f, N, 0, F)
    BY <1>0, <1>2, <2>1, BeginningExists
  <2> QED BY <2>2 DEF Begins
<1>4. Solves(f)
  <2>1. ASSUME NEW j \in 0 .. N, j # 0
        PROVE  f[j] = f[j - 1] + Low(bytes, k * Bytes + j - 1) * TwoTo[ByteBits * (j - 1)]
    <3>1. j - 1 \in 0 .. N - 1 /\ (j - 1) + 1 = j /\ j - 1 \in Nat /\ j - 1 \in 0 .. N /\ k * Bytes + (j - 1) = k * Bytes + j - 1
      BY <1>0, <2>1
    <3>2. f[j] = f[j - 1] + Add(j - 1)
      <4>1. f[j - 1] \in Nat
        BY <3>1
      <4>2. f[(j - 1) + 1] = F[j - 1][f[j - 1]]
        BY <1>3, <3>1
      <4> QED BY <3>1, <4>1, <4>2
    <3> QED BY <3>1, <3>2 DEF Add
  <2> HIDE DEF F
  <2> QED BY <1>3, <2>1
<1>5. Solves(sum)
  <2>1. sum = CHOOSE g : Solves(g)
    BY DEF Shifted, N
  <2> HIDE DEF Solves, sum
  <2> QED BY <1>4, <2>1
<1> HIDE DEF F, sum
<1>6. sum[0] = 0
  BY <1>0, <1>5
<1>7. ASSUME NEW j \in 0 .. N - 1 PROVE sum[j + 1] = sum[j] + Add(j)
  <2>1. j + 1 \in 0 .. N /\ j + 1 # 0 /\ (j + 1) - 1 = j /\ k * Bytes + (j + 1) - 1 = k * Bytes + j
    BY <1>0
  <2>2. sum[j + 1] = sum[(j + 1) - 1] + Low(bytes, k * Bytes + (j + 1) - 1) * TwoTo[ByteBits * ((j + 1) - 1)]
    BY <1>5, <2>1
  <2> QED BY <2>1, <2>2 DEF Add
<1> DEFINE Small(j) == sum[j] \in Nat /\ sum[j] < TwoTo[ByteBits * j] /\ (k * Bytes >= Len(bytes) => sum[j] = 0)
           T == {j \in 0 .. N : Small(j)}
<1>8. 0 \in T
  <2>1. TwoTo[ByteBits * 0] = 1
    <3>1. ByteBits * 0 = 0
      BY <1>0
    <3> QED BY <3>1, TwoToProperties
  <2>2. Small(0)
    BY <1>6, <2>1
  <2> HIDE DEF Small
  <2> QED BY <1>0, <2>2
<1>9. ASSUME NEW j \in 0 .. N - 1, j \in T PROVE j + 1 \in T
  <2>0. j \in Nat /\ j + 1 \in 0 .. N
    BY <1>0
  <2>1. PICK v \in 0 .. BYTE - 1, u \in Nat, s \in Nat :
          /\ v = Low(bytes, k * Bytes + j) /\ u = TwoTo[ByteBits * j] /\ s = sum[j] /\ s < u
          /\ TwoTo[ByteBits * (j + 1)] = u * BYTE
    BY <1>1, <1>9, <2>0
  <2>2. sum[j + 1] = s + v * u /\ Add(j) = v * u
    BY <1>7, <2>1 DEF Add
  <2>3. PICK c \in Nat : c = BYTE - 1 /\ v <= c /\ v \in Nat
    BY <1>0
  <2>4. v * u <= c * u
    BY <2>3
  <2>5. u * BYTE = c * u + u
    <3>1. BYTE = c + 1
      BY <1>0, <2>3
    <3>2. u * (c + 1) = c * u + u
      OBVIOUS
    <3> QED BY <3>1, <3>2
  <2>6. PICK p1 \in Nat, p2 \in Nat : p1 = v * u /\ p2 = c * u
    BY <2>3
  <2>7. s + p1 \in Nat /\ s + p1 < p2 + u
    <3>1. p1 <= p2 /\ s < u
      BY <2>1, <2>4, <2>6
    <3> QED BY <3>1
  <2>8. ASSUME k * Bytes >= Len(bytes) PROVE sum[j + 1] = 0
    <3>1. sum[j] = 0 /\ Add(j) = 0
      BY <1>1, <1>9, <2>0, <2>8
    <3> QED BY <1>7, <3>1
  <2>9. Small(j + 1)
    BY <2>1, <2>2, <2>5, <2>6, <2>7, <2>8
  <2> HIDE DEF Small
  <2> QED BY <2>0, <2>9
<1>10. \A j \in 0 .. N : j \in T
  <2> HIDE DEF T
  <2> QED BY <1>0, <1>8, <1>9, InductionTo
<1>11. Small(N)
  BY <1>0, <1>10
<1>12. TwoTo[ByteBits * N] = WORD
  BY DEF WORD, WordBits, N
<1> QED
  <2>1. WORD \in Nat
    BY Sizes
  <2> QED BY <1>0, <1>11, <1>12, <2>1 DEF N, sum

\* What is read is a number, with no more words than the bytes fill.
LEMMA FromBytes ==
  ASSUME NEW bytes \in Buffer, BN_MAX_WORDS * Bytes >= Len(bytes)
  PROVE  /\ Canonical(bn_from_bytes(bytes))
         /\ bn_from_bytes(bytes) # bn_zero => bn_from_bytes(bytes).len <= (Len(bytes) + Bytes - 1) \div Bytes
<1> DEFINE u == Unread(bytes)
           t == bn_from_bytes(bytes)
           full == Len(bytes) \div Bytes + 1
<1>0. Len(bytes) \in Nat /\ Bytes \in Nat \ {0} /\ BN_MAX_WORDS \in Nat \ {0} /\ WORD \in Nat /\ WORD >= 2
      /\ Index = 0 .. BN_MAX_WORDS - 1
  BY Sizes DEF Buffer, Index
<1>1. full \in Nat /\ full >= 1 /\ Len(bytes) <= full * Bytes
  <2>1. PICK q \in Nat, r \in 0 .. Bytes - 1 : q = Len(bytes) \div Bytes /\ Len(bytes) = q * Bytes + r
    <3>1. Len(bytes) \div Bytes \in Nat /\ Len(bytes) % Bytes \in 0 .. Bytes - 1
          /\ Len(bytes) = (Len(bytes) \div Bytes) * Bytes + (Len(bytes) % Bytes)
      BY <1>0, Len(bytes) \in Int, DivisionNat, DivisionExists
    <3> QED BY <3>1
  <2>2. (q + 1) * Bytes = q * Bytes + Bytes
    BY <1>0
  <2>3. PICK p1 \in Nat : p1 = q * Bytes
    BY <1>0
  <2> QED BY <1>0, <2>1, <2>2, <2>3
<1>2. u.words = [k \in Index |-> Shifted(bytes, k)[Bytes]]
      /\ u.len = (IF full > BN_MAX_WORDS THEN BN_MAX_WORDS ELSE full) /\ u = [words |-> u.words, len |-> u.len]
  BY DEF Unread
<1> HIDE DEF u, full
<1>3. ASSUME NEW k \in Index PROVE u.words[k] \in 0 .. WORD - 1 /\ (k * Bytes >= Len(bytes) => u.words[k] = 0)
  <2>1. k \in Nat
    BY <1>0
  <2> QED BY <1>2, <2>1, ShiftedProperties
<1>4. u \in Nums
  <2>1. u.words \in Words
    BY <1>2, <1>3 DEF Words
  <2>2. u.len \in 1 .. BN_MAX_WORDS
    BY <1>0, <1>1, <1>2
  <2> QED BY <1>2, <2>1, <2>2 DEF Nums
<1>5. ZeroAbove(u)
  <2> SUFFICES ASSUME NEW k \in u.len .. BN_MAX_WORDS - 1 PROVE u.words[k] = 0
    BY DEF ZeroAbove
  <2>1. u.len = full /\ k \in Index /\ k >= full /\ k \in Nat
    BY <1>0, <1>1, <1>2
  <2>2. full * Bytes <= k * Bytes
    BY <1>0, <1>1, <2>1
  <2>3. PICK p1 \in Nat, p2 \in Nat : p1 = full * Bytes /\ p2 = k * Bytes
    BY <1>0, <1>1, <2>1
  <2>4. k * Bytes >= Len(bytes)
    BY <1>0, <1>1, <2>2, <2>3
  <2> QED BY <1>3, <2>1, <2>4
<1>6. Canonical(t)
  BY <1>4, <1>5, Trim, FromBytesIs DEF u
<1>7. t.words = u.words
  BY <1>2, FromBytesIs DEF bn_trim, u
<1>8. ASSUME t # bn_zero PROVE t.len <= (Len(bytes) + Bytes - 1) \div Bytes
  <2> HIDE DEF t
  <2>0. t.len \in 1 .. BN_MAX_WORDS /\ t.words \in Words /\ t \in Nums
    BY <1>6, CanonicalValue
  <2>1. PICK k \in Index : k = t.len - 1 /\ k \in Nat /\ k + 1 = t.len
    BY <1>0, <2>0
  <2>2. t.words[k] # 0
    <3>1. CASE t.len > 1
      BY <1>6, <2>1, <3>1 DEF Canonical
    <3>2. CASE t.len = 1
      <4> SUFFICES ASSUME t.words[0] = 0 PROVE t = bn_zero
        BY <1>8, <2>1, <3>2
      <4>1. \A m \in Index : t.words[m] = 0
        <5>1. \A m \in 1 .. BN_MAX_WORDS - 1 : t.words[m] = 0
          BY <1>6, <3>2 DEF Canonical
        <5> QED BY <1>0, <5>1
      <4>2. t.words = [m \in Index |-> t.words[m]] /\ t = [words |-> t.words, len |-> t.len]
        BY <2>0 DEF Nums, Words
      <4>3. t.words = [m \in Index |-> IF m = 0 THEN 0 ELSE 0]
        BY <4>1, <4>2
      <4> QED BY <3>2, <4>2, <4>3 DEF bn_zero, bn_from_uint
    <3> QED BY <2>0, <3>1, <3>2
  <2>3. k * Bytes + 1 <= Len(bytes)
    <3>1. k * Bytes \in Nat
      BY <1>0, <2>1
    <3>2. ~ (k * Bytes >= Len(bytes))
      BY <1>3, <1>7, <2>2
    <3> QED BY <1>0, <3>1, <3>2
  <2>4. PICK L \in Nat, q \in Nat, r \in 0 .. Bytes - 1 :
          L = Len(bytes) + Bytes - 1 /\ q = L \div Bytes /\ L = q * Bytes + r
    <3>1. PICK L \in Nat : L = Len(bytes) + Bytes - 1
      BY <1>0
    <3>2. L \div Bytes \in Nat /\ L % Bytes \in 0 .. Bytes - 1 /\ L = (L \div Bytes) * Bytes + (L % Bytes)
      BY <1>0, L \in Int, DivisionNat, DivisionExists
    <3> QED BY <3>1, <3>2
  <2>5. k + 1 <= q
    <3> SUFFICES ASSUME q <= k PROVE FALSE
      BY <2>1
    <3>1. q * Bytes <= k * Bytes
      BY <1>0, <2>1
    <3>2. PICK p1 \in Nat, p2 \in Nat : p1 = q * Bytes /\ p2 = k * Bytes
      <4>1. q * Bytes \in Nat
        BY <1>0
      <4>2. k * Bytes \in Nat
        BY <1>0, <2>1
      <4> QED BY <4>1, <4>2
    <3> QED BY <1>0, <2>3, <2>4, <3>1, <3>2
  <2> QED BY <2>1, <2>4, <2>5
<1> QED
  BY <1>6, <1>8

-----------------------------------------------------------------------------
(* bn_to_bytes. *)

\* The byte m of a number, the lowest first.
ByteOf(n, m) == (Word(n, m \div Bytes) \div TwoTo[ByteBits * (m % Bytes)]) % BYTE

\* Small numbers have no high part.
LEMMA NoQuotient ==
  ASSUME NEW D \in Nat \ {0}, NEW v \in Nat, v < D PROVE v \div D = 0
<1>1. v \in 0 .. D - 1 /\ v = 0 * D + v /\ v \in Int /\ 0 \in Int
  OBVIOUS
<1> QED
  BY <1>1, DivisionUnique

\* bn_to_bytes: behind the bytes below m come the byte m and those above it.
LEMMA ByteDown ==
  ASSUME NEW n, Canonical(n), NEW m \in Nat
  PROVE  /\ ByteOf(n, m) \in 0 .. BYTE - 1
         /\ Value(n) \div TwoTo[ByteBits * m] = BYTE * (Value(n) \div TwoTo[ByteBits * (m + 1)]) + ByteOf(n, m)
<1>0. /\ n.words \in Words /\ n.len \in 1 .. BN_MAX_WORDS /\ n.len \in Nat /\ Value(n) \in Nat /\ BN_MAX_WORDS \in Nat
      /\ WordBits \in Nat \ {0} /\ WORD \in Nat /\ WORD >= 2 /\ Value(n) = Total(n.words) /\ Value(n) < W(n.len)
      /\ ByteBits \in Nat \ {0} /\ Bytes \in Nat \ {0} /\ BYTE \in Nat \ {0} /\ BYTE >= 2
  BY CanonicalValue, Sizes DEF Total
<1>1. PICK q \in Nat, r \in Nat : /\ q = m \div Bytes /\ r = m % Bytes
                                   /\ m = q * Bytes + r /\ r <= Bytes - 1
  <2>1. m \div Bytes \in Nat
    BY <1>0, DivisionNat
  <2>2. m % Bytes \in 0 .. Bytes - 1 /\ m = (m \div Bytes) * Bytes + (m % Bytes)
    BY <1>0, m \in Int, DivisionExists
  <2> QED BY <1>0, <2>1, <2>2
<1>2. PICK z \in Nat \ {0}, u \in Nat \ {0} :
        /\ z = TwoTo[ByteBits * r] /\ u = W(q)
        /\ TwoTo[ByteBits * m] = u * z /\ TwoTo[ByteBits * (m + 1)] = BYTE * (u * z)
  <2>1. ByteBits * r \in Nat /\ WordBits * q \in Nat /\ ByteBits * m \in Nat
    BY <1>0
  <2>2. ByteBits * m = WordBits * q + ByteBits * r
    <3>1. ByteBits * (q * Bytes + r) = (ByteBits * Bytes) * q + ByteBits * r
      BY <1>0
    <3> QED BY <1>1, <3>1 DEF WordBits
  <2>3. ByteBits * (m + 1) = ByteBits * m + ByteBits
    BY <1>0
  <2>4. TwoTo[WordBits * q + ByteBits * r] = TwoTo[WordBits * q] * TwoTo[ByteBits * r]
    BY <2>1, TwoToSum
  <2>5. TwoTo[ByteBits * m + ByteBits] = TwoTo[ByteBits * m] * TwoTo[ByteBits]
    BY <1>0, <2>1, TwoToSum
  <2>6. TwoTo[ByteBits * r] \in Nat \ {0} /\ W(q) \in Nat \ {0}
    BY <2>1, TwoToProperties, Weights
  <2>7. PICK z \in Nat \ {0}, u \in Nat \ {0} : z = TwoTo[ByteBits * r] /\ u = W(q)
    BY <2>6
  <2>8. TwoTo[ByteBits * m] = u * z
    BY <2>2, <2>4, <2>7 DEF W
  <2>9. TwoTo[ByteBits * (m + 1)] = (u * z) * BYTE
    BY <2>3, <2>5, <2>8 DEF BYTE
  <2>10. (u * z) * BYTE = BYTE * (u * z)
    <3>1. PICK p1 \in Nat : p1 = u * z
      OBVIOUS
    <3> QED BY <1>0, <3>1
  <2> QED BY <2>7, <2>8, <2>9, <2>10
<1>3. CASE q >= n.len
  <2>1. ByteOf(n, m) = 0
    <3>1. Word(n, q) = 0
      BY <1>0, <1>3 DEF Word
    <3>2. 0 \div z = 0
      BY NoQuotient
    <3>3. 0 % BYTE = 0
      <4>1. 0 = 0 * BYTE + 0 /\ 0 \in 0 .. BYTE - 1 /\ 0 \in Int
        BY <1>0
      <4> QED BY <1>0, <4>1, DivisionUnique
    <3> QED BY <1>1, <1>2, <3>1, <3>2, <3>3 DEF ByteOf
  <2>2. Value(n) < u
    <3>1. W(n.len) <= W(q) /\ W(n.len) \in Nat
      BY <1>0, <1>3, WeightsGrow, Weights
    <3> QED BY <1>0, <1>2, <3>1
  <2>3. PICK K \in Nat \ {0}, L \in Nat \ {0} : K = u * z /\ L = BYTE * K /\ u <= K /\ K <= L
    <3>1. PICK K \in Nat \ {0} : K = u * z /\ u <= K
      <4>1. u * z >= u /\ u * z \in Nat \ {0}
        OBVIOUS
      <4> QED BY <4>1
    <3>2. BYTE * K >= K /\ BYTE * K \in Nat \ {0}
      BY <1>0
    <3> QED BY <3>1, <3>2
  <2>4. Value(n) < K /\ Value(n) < L
    BY <1>0, <2>2, <2>3
  <2>5. Value(n) \div K = 0 /\ Value(n) \div L = 0
    BY <1>0, <2>4, NoQuotient
  <2>6. BYTE * 0 + 0 = 0 /\ 0 \in 0 .. BYTE - 1
    BY <1>0
  <2> QED BY <1>2, <2>1, <2>3, <2>5, <2>6
<1>4. CASE q < n.len
  <2>0. q \in Index /\ q \in 0 .. BN_MAX_WORDS /\ q + 1 \in 0 .. BN_MAX_WORDS /\ BN_MAX_WORDS \in q + 1 .. BN_MAX_WORDS
    BY <1>0, <1>4 DEF Index
  <2>1. PICK v \in Nat, s \in Nat, h \in Nat :
          v = Word(n, q) /\ s < u /\ Value(n) = (s + v * u) + h * (u * WORD)
    <3>1. PICK h \in Nat : Sums(n.words)[BN_MAX_WORDS] = Sums(n.words)[q + 1] + h * W(q + 1)
      BY <1>0, <2>0, SumsHigher
    <3>2. Sums(n.words)[q + 1] = Sums(n.words)[q] + n.words[q] * W(q) /\ W(q + 1) = W(q) * WORD
      BY <1>0, <1>1, <2>0, SumsProperties, Weights
    <3>3. n.words[q] \in Nat /\ Sums(n.words)[q] \in Nat /\ Sums(n.words)[q] < W(q)
      BY <1>0, <2>0, SumsProperties, SumsBound DEF Words
    <3>4. Word(n, q) = n.words[q]
      BY <1>4 DEF Word
    <3> QED BY <1>0, <1>2, <3>1, <3>2, <3>3, <3>4 DEF Total
  <2>2. PICK y \in Nat : WORD = z * (BYTE * y)
    <3>1. PICK k \in Nat : Bytes = r + 1 + k
      <4>1. Bytes - 1 - r \in Nat /\ Bytes = r + 1 + (Bytes - 1 - r)
        BY <1>0, <1>1
      <4> QED BY <4>1
    <3>2. ByteBits * r \in Nat /\ ByteBits * k \in Nat /\ ByteBits + ByteBits * k \in Nat
      BY <1>0
    <3>3. ByteBits * (r + 1 + k) = ByteBits * r + (ByteBits + ByteBits * k)
      BY <1>0
    <3>4. TwoTo[ByteBits + ByteBits * k] = TwoTo[ByteBits] * TwoTo[ByteBits * k] /\ TwoTo[ByteBits * k] \in Nat
      BY <1>0, <3>2, TwoToSum, TwoToProperties
    <3>5. TwoTo[ByteBits * r + (ByteBits + ByteBits * k)] = TwoTo[ByteBits * r] * TwoTo[ByteBits + ByteBits * k]
      BY <3>2, TwoToSum
    <3>6. WORD = TwoTo[ByteBits * (r + 1 + k)]
      BY <3>1 DEF WORD, WordBits
    <3> QED BY <1>2, <3>3, <3>4, <3>5, <3>6 DEF BYTE
  <2>3. PICK a \in Nat, e \in Nat : a = v \div z /\ v = a * z + e /\ e <= z - 1
    <3>1. v \div z \in Nat /\ v % z \in 0 .. z - 1 /\ v = (v \div z) * z + (v % z)
      BY v \in Int, DivisionNat, DivisionExists
    <3> QED BY <3>1
  <2>4. PICK c \in Nat, d \in Nat : a = BYTE * c + d /\ d = a % BYTE /\ d <= BYTE - 1
    <3>1. a \div BYTE \in Nat /\ a % BYTE \in 0 .. BYTE - 1 /\ a = (a \div BYTE) * BYTE + (a % BYTE)
      BY <1>0, a \in Int, DivisionNat, DivisionExists
    <3>2. PICK c \in Nat, d \in Nat : c = a \div BYTE /\ d = a % BYTE /\ a = c * BYTE + d /\ d <= BYTE - 1
      BY <1>0, <3>1
    <3>3. c * BYTE = BYTE * c
      BY <1>0
    <3> QED BY <3>2, <3>3
  <2>5. ByteOf(n, m) = d /\ d \in 0 .. BYTE - 1
    <3>1. ByteOf(n, m) = (v \div z) % BYTE
      BY <1>1, <1>2, <2>1 DEF ByteOf
    <3>2. (v \div z) % BYTE = d
      BY <2>3, <2>4
    <3>3. d \in 0 .. BYTE - 1
      BY <1>0, <2>4
    <3> QED BY <3>1, <3>2, <3>3
  <2>6. PICK B \in Nat \ {0} : B = BYTE /\ B >= 2
    BY <1>0
  <2>7. PICK K \in Nat \ {0}, low \in Nat, M \in Nat :
          /\ K = u * z /\ low = s + e * u /\ M = c + h * y /\ low <= K - 1
    <3>1. u * z \in Nat \ {0} /\ e * u \in Nat /\ h * y \in Nat
      <4>1. u * z \in Nat \ {0}
        OBVIOUS
      <4>2. e * u \in Nat /\ h * y \in Nat
        OBVIOUS
      <4> QED BY <4>1, <4>2
    <3>2. e * u <= (z - 1) * u
      BY <2>3
    <3>3. (z - 1) * u = u * z - u
      OBVIOUS
    <3>4. PICK p1 \in Int, p2 \in Int : p1 = e * u /\ p2 = u * z
      OBVIOUS
    <3>5. s + e * u \in Nat /\ s + e * u <= u * z - 1
      BY <2>1, <3>1, <3>2, <3>3, <3>4
    <3> QED BY <3>1, <3>5
  <2>8. Value(n) = (B * M + d) * K + low
    <3>1. Value(n) = (s + ((B * c + d) * z + e) * u) + h * (u * (z * (B * y)))
      BY <2>1, <2>2, <2>3, <2>4, <2>6
    <3>2. (s + ((B * c + d) * z + e) * u) + h * (u * (z * (B * y))) = (B * (c + h * y) + d) * (u * z) + (s + e * u)
      OBVIOUS
    <3> QED BY <2>7, <3>1, <3>2
  <2>9. Value(n) \div K = B * M + d
    <3>1. PICK x \in Int, t \in Int : x = Value(n) /\ t = B * M + d
      BY <1>0
    <3>2. low \in 0 .. K - 1 /\ x = t * K + low
      BY <2>7, <2>8, <3>1
    <3>3. x \div K = t
      BY <3>2, DivisionUnique
    <3> QED BY <3>1, <3>3
  <2>10. Value(n) \div (B * K) = M
    <3>1. PICK D \in Nat \ {0}, t \in Nat : D = B * K /\ t = d * K + low /\ t <= D - 1
      <4>1. B * K \in Nat \ {0} /\ d * K \in Nat
        <5>1. B * K \in Nat \ {0}
          OBVIOUS
        <5>2. d * K \in Nat
          OBVIOUS
        <5> QED BY <5>1, <5>2
      <4>2. d * K <= (B - 1) * K
        BY <2>4, <2>6
      <4>3. (B - 1) * K = B * K - K
        OBVIOUS
      <4>4. PICK p1 \in Int, p2 \in Int : p1 = d * K /\ p2 = B * K
        OBVIOUS
      <4> QED BY <2>7, <4>1, <4>2, <4>3, <4>4
    <3>2. (B * M + d) * K + low = M * (B * K) + (d * K + low)
      OBVIOUS
    <3>3. PICK x \in Int : x = Value(n)
      BY <1>0
    <3>4. t \in 0 .. D - 1 /\ x = M * D + t /\ M \in Int
      BY <2>8, <3>1, <3>2, <3>3
    <3>5. x \div D = M
      BY <3>4, DivisionUnique
    <3> QED BY <3>1, <3>3, <3>5
  <2> QED BY <1>2, <2>5, <2>6, <2>7, <2>9, <2>10
<1> QED
  BY <1>0, <1>1, <1>3, <1>4

-----------------------------------------------------------------------------
(* The inductive invariant. *)

\* There is something to divide by, and room for products of what is less.
Sized == 2 * mod.len <= BN_MAX_WORDS /\ Value(mod) > 1

\* What has been computed when the bits below n have been seen, and for which bit
\* the factor is.
ResultFor(n) == Value(result) = PowerMod(Value(base), Value(exp) % TwoTo[n], Value(mod))
FactorFor(n) == Value(b) = PowerMod(Value(base), TwoTo[n], Value(mod))

ExponentInv ==
  /\ pc = "reduce" => i = 0 /\ result = bn_from_uint(1) /\ dividend = base
  /\ pc \in {"loop", "done", "multiply"} => ResultFor(i) /\ FactorFor(i)
  /\ pc = "multiply" => Value(dividend) = Value(result) * Value(b)
  /\ pc = "square" => ResultFor(i + 1) /\ FactorFor(i) /\ Value(dividend) = Value(b) * Value(b)
  /\ pc = "multiply" => IsSet(exp, i)
  /\ pc \in {"multiply", "square"} => i < bn_bit_length(exp)
  /\ pc = "done" => i = bn_bit_length(exp)
  /\ pc = "bytes" => i = 0 /\ result = bn_from_uint(1)
  /\ pc \in {"idle", "bytes", "undefined"} => bit = 0

BigNumInv ==
  /\ NumbersOK /\ ExponentInv /\ RemainderOfWhatCameDown
  /\ pc # "idle" => Sized
  /\ Value(mod) \in Nat \ {0}

\* Zero and one are the numbers with these values.
LEMMA NotZeroNorOne ==
  ASSUME NEW n, Canonical(n), n \notin {bn_zero, bn_from_uint(1)}
  PROVE  Value(n) > 1
<1> SUFFICES ASSUME ~ (Value(n) > 1) PROVE FALSE
  OBVIOUS
<1>0. /\ n \in Nums /\ n.words \in Words /\ n.len \in 1 .. BN_MAX_WORDS /\ Value(n) \in Nat
      /\ BN_MAX_WORDS \in Nat \ {0} /\ Index = 0 .. BN_MAX_WORDS - 1 /\ WORD \in Nat /\ WORD >= 2
  BY CanonicalValue, Sizes DEF Index
<1>1. n.len = 1
  <2> SUFFICES ASSUME n.len > 1 PROVE FALSE
    BY <1>0
  <2>1. W(0 + 1) = W(0) * WORD /\ W(0) = 1
    BY Weights
  <2>2. W(0 + 1) = WORD
    BY <1>0, <2>1
  <2>3. n.len - 1 \in Nat /\ 0 + 1 <= n.len - 1 /\ 0 + 1 \in Nat
    BY <1>0
  <2>4. W(0 + 1) <= W(n.len - 1) /\ W(n.len - 1) \in Nat
    BY <2>3, WeightsGrow, Weights
  <2>5. W(n.len - 1) <= Value(n)
    BY CanonicalValue
  <2> QED BY <1>0, <2>2, <2>4, <2>5
<1>2. Value(n) = n.words[0]
  <2>1. 0 \in Index
    BY <1>0
  <2>2. Sums(n.words)[0 + 1] = Sums(n.words)[0] + n.words[0] * W(0) /\ Sums(n.words)[0] = 0 /\ W(0) = 1
    BY <1>0, <2>1, SumsProperties, Weights
  <2>3. n.words[0] \in Int
    <3>1. n.words[0] \in 0 .. WORD - 1
      BY <1>0, <2>1 DEF Words
    <3> QED BY <1>0, <3>1
  <2> QED BY <1>1, <2>2, <2>3 DEF Value
<1>3. n = bn_from_uint(Value(n))
  <2>1. \A m \in Index : n.words[m] = IF m = 0 THEN Value(n) ELSE 0
    <3>1. \A m \in 1 .. BN_MAX_WORDS - 1 : n.words[m] = 0
      BY <1>1 DEF Canonical
    <3> QED BY <1>0, <1>2, <3>1
  <2>2. n.words = [m \in Index |-> n.words[m]] /\ n = [words |-> n.words, len |-> n.len]
    BY <1>0 DEF Nums, Words
  <2>3. n.words = [m \in Index |-> IF m = 0 THEN Value(n) ELSE 0]
    BY <2>1, <2>2
  <2> QED BY <1>1, <2>2, <2>3 DEF bn_from_uint
<1>4. Value(n) = 0 \/ Value(n) = 1
  BY <1>0
<1> QED
  BY <1>3, <1>4 DEF bn_zero

\* Zero.
LEMMA Zero == Canonical(bn_zero) /\ Value(bn_zero) = 0 /\ bn_bit_length(bn_zero) = 0
<1>1. 0 \in 0 .. WORD - 1 /\ 0 \in Index
  BY Sizes DEF Index
<1>2. bn_zero.len = 1 /\ bn_zero.words[0] = 0
  BY <1>1 DEF bn_zero, bn_from_uint
<1> QED
  BY <1>1, <1>2, SmallNumber DEF bn_zero, bn_bit_length

\* One.
LEMMA Unit == Canonical(bn_from_uint(1)) /\ Value(bn_from_uint(1)) = 1
<1>1. 1 \in 0 .. WORD - 1
  BY Sizes
<1> QED
  BY <1>1, SmallNumber

\* A division starts with nothing brought down.
LEMMA Started ==
  ASSUME NEW x, Canonical(x), NEW m \in Nat \ {0}
  PROVE  Value(bn_zero) = (Value(x) \div TwoTo[bn_bit_length(x)]) % m
         /\ bn_bit_length(x) \in 0 .. bn_bit_length(x)
<1>1. Value(x) \in Nat /\ bn_bit_length(x) \in Nat /\ Value(x) < TwoTo[bn_bit_length(x)]
  BY CanonicalValue, BitLength
<1>2. PICK D \in Nat \ {0} : D = TwoTo[bn_bit_length(x)]
  BY <1>1, TwoToProperties
<1>3. PICK v \in 0 .. D - 1 : v = Value(x)
  BY <1>1, <1>2
<1>4. v = 0 * D + v /\ v \in Int
  OBVIOUS
<1>5. v \div D = 0
  BY <1>4, 0 \in Int, DivisionUnique
<1>6. 0 = 0 * m + 0 /\ 0 \in 0 .. m - 1
  OBVIOUS
<1>7. 0 % m = 0
  BY <1>6, 0 \in Int, DivisionUnique
<1> QED
  BY <1>1, <1>2, <1>3, <1>5, <1>7, Zero

\* The remainder doubled, with a bit behind it.
LEMMA BroughtProperties ==
  ASSUME NEW r, NEW d, NEW k, Canonical(r), r.len < BN_MAX_WORDS
  PROVE  Canonical(Brought(r, d, k)) /\ Value(Brought(r, d, k)) = 2 * Value(r) + (IF IsSet(d, k) THEN 1 ELSE 0)
<1> DEFINE s == bn_shl1(r)
           t == [s EXCEPT !.words[0] = @ + 1]
<1>1. Canonical(s) /\ Value(s) = 2 * Value(r) /\ s.words[0] % 2 = 0 /\ Value(r) \in Nat
  BY Doubles, CanonicalValue
<1> HIDE DEF s
<1>2. /\ s \in Nums /\ s.words \in Words /\ s.len \in 1 .. BN_MAX_WORDS /\ ZeroAbove(s) /\ Value(s) = Total(s.words)
      /\ 0 \in Index /\ BN_MAX_WORDS \in Nat \ {0} /\ Index = 0 .. BN_MAX_WORDS - 1 /\ WORD \in Nat
  BY <1>1, CanonicalValue, Sizes DEF Index, Total
<1>3. PICK v \in 0 .. WORD - 1 : v = s.words[0] + 1
  <2>1. s.words[0] \in 0 .. WORD - 1
    BY <1>2 DEF Words
  <2>2. PICK h \in Nat : WORD = 2 * h
    BY TwoHalves
  <2>3. PICK a \in Nat : a = s.words[0] /\ a % 2 = 0 /\ a <= 2 * h - 1
    BY <1>1, <1>2, <2>1, <2>2
  <2>4. a # 2 * h - 1
    BY <2>3
  <2> QED BY <1>2, <2>2, <2>3, <2>4
<1>4. t = [s EXCEPT !.words = [s.words EXCEPT ![0] = v]]
  BY <1>2, <1>3 DEF Nums
<1>5. t.words = [s.words EXCEPT ![0] = v] /\ t.len = s.len /\ t = [words |-> t.words, len |-> t.len]
  BY <1>2, <1>4 DEF Nums
<1> HIDE DEF t
<1>6. t.words \in Words /\ Total(t.words) = Total(s.words) + (v - s.words[0]) * W(0)
  BY <1>2, <1>5, WordChanged
<1>7. t \in Nums
  BY <1>2, <1>5, <1>6 DEF Nums
<1>8. t.words[0] = v /\ \A m \in Index \ {0} : t.words[m] = s.words[m]
  BY <1>2, <1>5 DEF Words
<1>9. ZeroAbove(t)
  BY <1>2, <1>5, <1>8 DEF ZeroAbove
<1>10. Canonical(t)
  <2>1. t.len > 1 => t.words[t.len - 1] # 0
    <3> SUFFICES ASSUME t.len > 1 PROVE t.words[t.len - 1] # 0
      OBVIOUS
    <3>1. s.words[s.len - 1] # 0 /\ s.len - 1 \in Index \ {0}
      BY <1>1, <1>2, <1>5 DEF Canonical
    <3> QED BY <1>5, <1>8, <3>1
  <2> QED BY <1>7, <1>9, <2>1 DEF Canonical, Nums, Words, ZeroAbove
<1>11. Value(t) = Value(s) + 1
  <2>1. W(0) = 1 /\ v - s.words[0] = 1
    <3>1. s.words[0] \in 0 .. WORD - 1
      BY <1>2 DEF Words
    <3>2. PICK a \in Nat : a = s.words[0]
      BY <1>2, <3>1
    <3>3. (a + 1) - a = 1
      OBVIOUS
    <3>4. W(0) = 1
      BY Weights
    <3> QED BY <1>3, <3>2, <3>3, <3>4
  <2>2. Value(t) = Total(t.words)
    BY <1>10, CanonicalValue DEF Total
  <2> QED BY <1>2, <1>6, <2>1, <2>2
<1>12. CASE IsSet(d, k)
  <2>1. Brought(r, d, k) = t
    BY <1>1, <1>12 DEF Brought, s, t
  <2> QED BY <1>1, <1>10, <1>11, <1>12, <2>1
<1>13. CASE ~ IsSet(d, k)
  <2>1. Brought(r, d, k) = s
    BY <1>13 DEF Brought, s
  <2> QED BY <1>1, <1>13, <2>1
<1> QED
  BY <1>12, <1>13

\* Modulo the divisor, by one subtraction.
LEMMA Reduces ==
  ASSUME NEW x, NEW m, Canonical(x), Canonical(m), Value(x) < 2 * Value(m), Value(m) > 0
  PROVE  LET r == IF NotLess(x, m) THEN bn_sub(x, m) ELSE x
         IN Canonical(r) /\ Value(r) = Value(x) % Value(m)
<1> DEFINE r == IF NotLess(x, m) THEN bn_sub(x, m) ELSE x
<1>1. PICK v \in Nat, D \in Nat \ {0} : v = Value(x) /\ D = Value(m) /\ v < 2 * D
  BY CanonicalValue
<1>2. CASE v >= D
  <2>1. r = bn_sub(x, m)
    BY <1>1, <1>2, Compares
  <2>2. Canonical(r) /\ Value(r) = v - D
    BY <1>1, <1>2, <2>1, Subtracts
  <2>3. v = 1 * D + (v - D) /\ v - D \in 0 .. D - 1 /\ v \in Int
    BY <1>1, <1>2
  <2>4. v % D = v - D
    <3>1. PICK t \in 0 .. D - 1 : t = v - D /\ v = 1 * D + t
      BY <2>3
    <3> QED BY <2>3, <3>1, 1 \in Int, DivisionUnique
  <2> QED BY <1>1, <2>2, <2>4
<1>3. CASE ~ (v >= D)
  <2>1. r = x
    BY <1>1, <1>3, Compares
  <2>2. v = 0 * D + v /\ v \in 0 .. D - 1 /\ v \in Int
    BY <1>1, <1>3
  <2>3. v % D = v
    BY <2>2, 0 \in Int, DivisionUnique
  <2> QED BY <1>1, <2>1, <2>3
<1> QED
  BY <1>2, <1>3

\* n is k with the bit d behind it; r is the remainder of y.
BitBehind(n, k, d) == n = 2 * k + d
RemainderOf(r, y, m) == r = y % m

\* When the next bit has come down, the remainder is that of what has.
LEMMA NextRemainder ==
  ASSUME NEW m \in Nat \ {0}, NEW x \in Nat, NEW y \in Nat, NEW t \in Nat, NEW r, NEW v, NEW d \in 0 .. 1,
         BitBehind(x, y, d), BitBehind(t, r, d), RemainderOf(r, y, m), RemainderOf(v, t, m)
  PROVE  RemainderOf(v, x, m)
<1>1. PICK q \in Int : r \in 0 .. m - 1 /\ y = q * m + r
  BY y \in Int, DivisionExists DEF RemainderOf
<1>2. PICK u \in Int : v \in 0 .. m - 1 /\ t = u * m + v
  BY t \in Int, DivisionExists DEF RemainderOf
<1>3. PICK w \in Int : w = 2 * q + u
  <2>1. 2 * q + u \in Int
    BY <1>1, <1>2
  <2> QED BY <2>1
<1>4. x = w * m + v
  <2>1. x = 2 * (q * m + r) + d /\ t = 2 * r + d
    BY <1>1 DEF BitBehind
  <2>2. w * m = 2 * (q * m) + u * m
    BY <1>3
  <2> QED BY <1>1, <1>2, <2>1, <2>2
<1>5. x % m = v
  BY <1>2, <1>4, x \in Int, DivisionUnique
<1> QED
  BY <1>5 DEF RemainderOf

\* The remainder is less than the divisor, so there is room above it.
LEMMA RemainderIsLess ==
  ASSUME BigNumInv
  PROVE  Value(remainder) < Value(mod) /\ (pc # "idle" => remainder.len < BN_MAX_WORDS)
<1>1. Canonical(remainder) /\ Canonical(mod) /\ Canonical(dividend) /\ bit \in Nat
  BY BitLength DEF BigNumInv, NumbersOK
<1>2. PICK m \in Nat \ {0}, q \in Nat : m = Value(mod) /\ q = Value(dividend) \div TwoTo[bit]
  <2>1. Value(dividend) \in Nat /\ TwoTo[bit] \in Nat \ {0}
    BY <1>1, CanonicalValue, TwoToProperties
  <2>2. Value(dividend) \div TwoTo[bit] \in Nat
    BY <2>1, DivisionNat
  <2> QED BY <2>2 DEF BigNumInv
<1>3. Value(remainder) = q % m /\ q % m \in 0 .. m - 1
  BY <1>2, q \in Int, DivisionExists DEF BigNumInv, RemainderOfWhatCameDown
<1>4. ASSUME pc # "idle" PROVE remainder.len < BN_MAX_WORDS
  <2>1. remainder.len <= mod.len
    BY <1>1, <1>2, <1>3, LengthsOrdered
  <2>2. 2 * mod.len <= BN_MAX_WORDS /\ mod.len \in Nat \ {0} /\ remainder.len \in Nat /\ BN_MAX_WORDS \in Nat
    BY <1>1, <1>4, CanonicalValue, Sizes DEF BigNumInv, Sized
  <2> QED BY <2>1, <2>2
<1> QED
  BY <1>2, <1>3, <1>4

\* A turn of bn_divmod.
LEMMA DivideBitKeeps == ASSUME BigNumInv, DivideBit PROVE BigNumInv'
<1> DEFINE down == Brought(remainder, dividend, bit - 1)
<1>0. /\ bit > 0 /\ bit' = bit - 1 /\ ct' = ct /\ base' = base /\ exp' = exp /\ mod' = mod /\ result' = result /\ b' = b
      /\ i' = i /\ dividend' = dividend /\ pc' = pc
      /\ remainder' = IF NotLess(down, mod) THEN bn_sub(down, mod) ELSE down
  BY DEF DivideBit
<1>1. /\ Canonical(remainder) /\ Canonical(mod) /\ Canonical(dividend) /\ bit \in 0 .. bn_bit_length(dividend)
      /\ bn_bit_length(dividend) \in Nat /\ bn_bit_length(dividend) <= WordBits * dividend.len
  BY BitLength DEF BigNumInv, NumbersOK
<1>2. PICK k \in Nat : k = bit - 1 /\ k + 1 = bit /\ k < WordBits * dividend.len /\ k \in 0 .. bn_bit_length(dividend)
  <2>1. WordBits * dividend.len \in Nat
    BY <1>1, CanonicalValue, Sizes
  <2> QED BY <1>0, <1>1, <2>1
<1>3. pc # "idle"
  <2> SUFFICES ASSUME pc = "idle" PROVE FALSE
    OBVIOUS
  <2> QED BY <1>0, <1>1 DEF BigNumInv, ExponentInv
<1>4. remainder.len < BN_MAX_WORDS /\ Value(remainder) < Value(mod)
  BY <1>3, RemainderIsLess
<1>5. PICK d \in 0 .. 1 : d = IF IsSet(dividend, k) THEN 1 ELSE 0
  OBVIOUS
<1>6. Canonical(down) /\ Value(down) = 2 * Value(remainder) + d
  BY <1>1, <1>2, <1>4, <1>5, BroughtProperties
<1> HIDE DEF down
<1>7. PICK m \in Nat \ {0}, r \in Nat : m = Value(mod) /\ r = Value(remainder) /\ r < m
  BY <1>1, <1>4, CanonicalValue
<1>8. Canonical(remainder') /\ Value(remainder') = (2 * r + d) % m
  <2>1. Value(down) < 2 * Value(mod) /\ Value(mod) > 0
    BY <1>6, <1>7
  <2>2. Canonical(remainder') /\ Value(remainder') = Value(down) % Value(mod)
    BY <1>0, <1>1, <1>6, <2>1, Reduces
  <2> QED BY <1>6, <1>7, <2>2
<1>9. PICK x \in Nat, y \in Nat : x = Value(dividend) \div TwoTo[k] /\ y = Value(dividend) \div TwoTo[k + 1] /\ x = 2 * y + d
  <2>1. Value(dividend) \in Nat /\ TwoTo[k] \in Nat \ {0} /\ TwoTo[k + 1] \in Nat \ {0}
    BY <1>1, CanonicalValue, TwoToProperties
  <2>2. Value(dividend) \div TwoTo[k] \in Nat /\ Value(dividend) \div TwoTo[k + 1] \in Nat
    BY <2>1, DivisionNat
  <2> QED BY <1>1, <1>2, <1>5, <2>2, BitDown
<1>10. r = y % m
  BY <1>2, <1>7, <1>9 DEF BigNumInv, RemainderOfWhatCameDown
<1>11. Value(remainder') = x % m
  <2>1. PICK t \in Nat : t = 2 * r + d
    OBVIOUS
  <2>2. PICK v : v = t % m
    OBVIOUS
  <2>3. BitBehind(x, y, d) /\ BitBehind(t, r, d) /\ RemainderOf(r, y, m) /\ RemainderOf(v, t, m)
    BY <1>9, <1>10, <2>1, <2>2 DEF BitBehind, RemainderOf
  <2>4. RemainderOf(v, x, m)
    BY <2>3, NextRemainder
  <2> QED BY <1>8, <2>1, <2>2, <2>4 DEF RemainderOf
<1>12. RemainderOfWhatCameDown'
  BY <1>0, <1>2, <1>7, <1>9, <1>11 DEF RemainderOfWhatCameDown
<1>13. NumbersOK'
  BY <1>0, <1>2, <1>8 DEF BigNumInv, NumbersOK, TooLong
<1>14. ExponentInv'
  BY <1>0, <1>3 DEF BigNumInv, ExponentInv, ResultFor, FactorFor
<1> QED
  BY <1>0, <1>12, <1>13, <1>14 DEF BigNumInv, Sized

\* When a division has ended, the trimmed remainder is that of the dividend.
LEMMA DividedRemainder ==
  ASSUME BigNumInv, bit = 0
  PROVE  /\ Canonical(bn_trim(remainder)) /\ Value(bn_trim(remainder)) = Value(dividend) % Value(mod)
         /\ Value(dividend) \in Nat /\ Value(mod) \in Nat \ {0}
<1>1. Canonical(remainder) /\ Canonical(dividend) /\ Value(mod) \in Nat \ {0}
  BY DEF BigNumInv, NumbersOK
<1>2. Canonical(bn_trim(remainder)) /\ Value(bn_trim(remainder)) = Value(remainder)
  BY <1>1, CanonicalValue, Trim
<1>3. PICK v \in Nat : v = Value(dividend)
  BY <1>1, CanonicalValue
<1>4. v \div 1 = v
  <2>1. v = v * 1 + 0 /\ v \in Int /\ 0 \in 0 .. 1 - 1 /\ 1 \in Nat \ {0}
    OBVIOUS
  <2> QED BY <2>1, DivisionUnique
<1>5. Value(remainder) = v % Value(mod)
  BY <1>3, <1>4, TwoToProperties DEF BigNumInv, RemainderOfWhatCameDown
<1> QED
  BY <1>1, <1>2, <1>3, <1>5

\* bn_mod_exp is done with the base.
LEMMA ReducedKeeps == ASSUME BigNumInv, Reduced PROVE BigNumInv'
<1>0. /\ pc = "reduce" /\ bit = 0 /\ b' = bn_trim(remainder) /\ pc' = "loop"
      /\ ct' = ct /\ base' = base /\ exp' = exp /\ mod' = mod /\ result' = result /\ i' = i
      /\ dividend' = dividend /\ remainder' = remainder /\ bit' = bit
  BY DEF Reduced, Divided
<1>1. /\ Canonical(base) /\ Canonical(exp) /\ Sized /\ i = 0 /\ result = bn_from_uint(1) /\ dividend = base
  BY <1>0 DEF BigNumInv, NumbersOK, TooLong, ExponentInv
<1>2. PICK x \in Nat, m \in Nat, e \in Nat : x = Value(base) /\ m = Value(mod) /\ e = Value(exp) /\ m > 1
  BY <1>1, CanonicalValue DEF BigNumInv, Sized
<1>3. Canonical(b') /\ Value(b') = x % m
  BY <1>0, <1>1, <1>2, DividedRemainder
<1>4. PowerMod(x, 0, m) = 1 /\ PowerMod(x, 0 + 1, m) = (x * 1) % m
  <2>1. m > 1 /\ 0 \in Nat
    BY <1>2
  <2>2. /\ Powers(x, m)[0] = 1
        /\ \A n \in Nat : Powers(x, m)[n] \in 0 .. m - 1 /\ Powers(x, m)[n + 1] = (x * Powers(x, m)[n]) % m
    BY <2>1, PowersProperties
  <2>3. Powers(x, m)[0 + 1] = (x * Powers(x, m)[0]) % m
    BY <2>1, <2>2
  <2> QED BY <2>2, <2>3 DEF PowerMod
<1>5. e % 1 = 0
  <2>1. e = e * 1 + 0 /\ e \in Int /\ 0 \in 0 .. 1 - 1 /\ 1 \in Nat \ {0}
    OBVIOUS
  <2> QED BY <2>1, DivisionUnique
<1>6. ResultFor(i)'
  <2>1. Value(result) = PowerMod(x, e % TwoTo[0], m)
    BY <1>1, <1>4, <1>5, Unit, TwoToProperties
  <2> QED BY <1>0, <1>1, <1>2, <2>1 DEF ResultFor
<1>7. FactorFor(i)'
  <2>1. x * 1 = x /\ 0 + 1 = 1
    OBVIOUS
  <2>2. Value(b') = PowerMod(x, TwoTo[0], m)
    BY <1>3, <1>4, <2>1, TwoToProperties
  <2> QED BY <1>0, <1>1, <1>2, <2>2 DEF FactorFor
<1>8. ExponentInv'
  BY <1>0, <1>6, <1>7 DEF ExponentInv
<1>9. NumbersOK'
  BY <1>0, <1>3 DEF BigNumInv, NumbersOK, TooLong
<1> QED
  BY <1>0, <1>8, <1>9 DEF BigNumInv, Sized, RemainderOfWhatCameDown

\* One more bit of a number.
LEMMA BitsSeen ==
  ASSUME NEW n, Canonical(n), NEW k \in Nat, k < WordBits * n.len
  PROVE  Value(n) % TwoTo[k + 1] = (Value(n) % TwoTo[k]) + (IF IsSet(n, k) THEN TwoTo[k] ELSE 0)
<1>1. PICK v \in Nat, u \in Nat \ {0} : v = Value(n) /\ u = TwoTo[k] /\ TwoTo[k + 1] = 2 * u
  BY CanonicalValue, TwoToProperties
<1>2. PICK q \in Int, r \in 0 .. u - 1 : r = v % u /\ q = v \div u /\ v = q * u + r
  BY v \in Int, DivisionExists
<1>3. PICK c \in Int, d \in 0 .. 1 : q = 2 * c + d /\ d = IF IsSet(n, k) THEN 1 ELSE 0
  <2>1. q = 2 * (v \div (2 * u)) + (IF IsSet(n, k) THEN 1 ELSE 0)
    BY <1>1, <1>2, BitDown
  <2>2. v \div (2 * u) \in Int
    <3>1. PICK D \in Nat \ {0} : D = 2 * u
      OBVIOUS
    <3> QED BY <3>1, v \in Int, DivisionExists
  <2> QED BY <2>1, <2>2
<1>4. PICK t \in Int, D \in Nat \ {0} : t = d * u + r /\ D = 2 * u
  <2>1. d * u + r \in Int /\ 2 * u \in Nat \ {0}
    OBVIOUS
  <2> QED BY <2>1
<1>5. t \in 0 .. D - 1
  <2>1. CASE d = 0
    BY <1>4, <2>1
  <2>2. CASE d = 1
    BY <1>4, <2>2
  <2> QED BY <2>1, <2>2
<1>6. v = c * D + t
  <2>1. v = (2 * c + d) * u + r
    BY <1>2, <1>3
  <2>2. (2 * c + d) * u + r = c * (2 * u) + (d * u + r)
    OBVIOUS
  <2> QED BY <1>4, <2>1, <2>2
<1>7. v % D = t
  BY <1>5, <1>6, v \in Int, DivisionUnique
<1>8. CASE IsSet(n, k)
  <2>1. t = r + u
    BY <1>3, <1>4, <1>8
  <2> QED BY <1>1, <1>2, <1>4, <1>7, <1>8, <2>1
<1>9. CASE ~ IsSet(n, k)
  <2>1. t = r
    BY <1>3, <1>4, <1>9
  <2>2. r + 0 = r
    OBVIOUS
  <2> QED BY <1>1, <1>2, <1>4, <1>7, <1>9, <2>1, <2>2
<1> QED
  BY <1>8, <1>9

\* Powers are less than the modulus, so their products have room.
LEMMA PowersFit ==
  ASSUME NEW x, NEW y, Canonical(x), Canonical(y), Canonical(mod), Sized,
         Value(x) < Value(mod), Value(y) < Value(mod)
  PROVE  x.len + y.len <= BN_MAX_WORDS
<1>1. Value(x) \in Nat /\ Value(y) \in Nat /\ Value(mod) \in Nat
      /\ x.len \in Nat /\ y.len \in Nat /\ mod.len \in Nat /\ BN_MAX_WORDS \in Nat
  BY CanonicalValue, Sizes
<1>2. x.len <= mod.len /\ y.len <= mod.len
  BY <1>1, LengthsOrdered
<1>3. 2 * mod.len <= BN_MAX_WORDS
  BY DEF Sized
<1> QED
  BY <1>1, <1>2, <1>3

\* What the loop has computed are powers, less than the modulus.
LEMMA PowersAre ==
  ASSUME BigNumInv, pc \in {"loop", "multiply", "square"}
  PROVE  /\ Canonical(result) /\ Canonical(b) /\ Canonical(mod) /\ Canonical(exp) /\ Sized
         /\ Value(base) \in Nat /\ Value(exp) \in Nat /\ Value(mod) \in Nat /\ Value(mod) > 1 /\ i \in Nat
         /\ i <= bn_bit_length(exp) /\ bn_bit_length(exp) \in Nat /\ bn_bit_length(exp) <= WordBits * exp.len
         /\ Value(b) \in Nat /\ Value(b) < Value(mod) /\ Value(result) \in Nat /\ Value(result) < Value(mod)
<1>1. /\ Canonical(result) /\ Canonical(b) /\ Canonical(mod) /\ Canonical(exp) /\ Canonical(base) /\ Sized
      /\ i \in 0 .. bn_bit_length(exp)
  BY DEF BigNumInv, NumbersOK
<1>2. /\ Value(base) \in Nat /\ Value(exp) \in Nat /\ Value(mod) \in Nat /\ Value(mod) > 1
      /\ bn_bit_length(exp) \in Nat /\ bn_bit_length(exp) <= WordBits * exp.len
  BY <1>1, CanonicalValue, BitLength DEF Sized
<1>3. ASSUME NEW n \in Nat PROVE PowerMod(Value(base), n, Value(mod)) \in 0 .. Value(mod) - 1
  BY <1>2, PowersProperties DEF PowerMod
<1>4. ASSUME NEW k \in Nat PROVE TwoTo[k] \in Nat /\ Value(exp) % TwoTo[k] \in Nat
  <2>1. PICK D \in Nat \ {0} : D = TwoTo[k]
    BY TwoToProperties
  <2>2. Value(exp) % D \in 0 .. D - 1
    BY <1>2, Value(exp) \in Int, DivisionExists
  <2> QED BY <2>1, <2>2
<1>5. i \in Nat /\ i + 1 \in Nat /\ i <= bn_bit_length(exp)
  BY <1>1, <1>2
<1>6. Value(b) \in 0 .. Value(mod) - 1
  BY <1>3, <1>4, <1>5 DEF BigNumInv, ExponentInv, FactorFor
<1>7. Value(result) \in 0 .. Value(mod) - 1
  <2>1. CASE pc = "square"
    BY <1>3, <1>4, <1>5, <2>1 DEF BigNumInv, ExponentInv, ResultFor
  <2>2. CASE pc # "square"
    BY <1>3, <1>4, <1>5, <2>2 DEF BigNumInv, ExponentInv, ResultFor
  <2> QED BY <2>1, <2>2
<1> QED
  BY <1>1, <1>2, <1>5, <1>6, <1>7

\* The division of a product begins.
LEMMA ProductToDivide ==
  ASSUME NEW x, NEW y, Canonical(x), Canonical(y), x.len + y.len <= BN_MAX_WORDS, mod' = mod,
         Value(mod) \in Nat \ {0}, StartDivision(bn_mul(x, y))
  PROVE  /\ Canonical(dividend') /\ Value(dividend') = Value(x) * Value(y) /\ Canonical(remainder')
         /\ bit' \in 0 .. bn_bit_length(dividend') /\ RemainderOfWhatCameDown'
<1>1. dividend' = bn_mul(x, y) /\ remainder' = bn_zero /\ bit' = bn_bit_length(dividend')
  BY DEF StartDivision
<1>2. Canonical(dividend') /\ Value(dividend') = Value(x) * Value(y)
  BY <1>1, Multiplies
<1>3. /\ Value(bn_zero) = (Value(dividend') \div TwoTo[bn_bit_length(dividend')]) % Value(mod)
      /\ bn_bit_length(dividend') \in 0 .. bn_bit_length(dividend')
  BY <1>2, Started
<1> QED
  BY <1>1, <1>2, <1>3, Zero DEF RemainderOfWhatCameDown

\* The multiplication of a bit that is set begins.
LEMMA MultiplyKeeps == ASSUME BigNumInv, Multiply PROVE BigNumInv'
<1>0. /\ pc = "loop" /\ i < bn_bit_length(exp) /\ IsSet(exp, i) /\ StartDivision(bn_mul(result, b)) /\ pc' = "multiply"
      /\ ct' = ct /\ base' = base /\ exp' = exp /\ mod' = mod /\ result' = result /\ b' = b /\ i' = i
  BY DEF Multiply
<1>1. result.len + b.len <= BN_MAX_WORDS /\ Canonical(result) /\ Canonical(b) /\ Sized
  BY <1>0, PowersAre, PowersFit
<1>2. /\ Canonical(dividend') /\ Value(dividend') = Value(result) * Value(b) /\ Canonical(remainder')
      /\ bit' \in 0 .. bn_bit_length(dividend') /\ RemainderOfWhatCameDown'
  BY <1>0, <1>1, ProductToDivide DEF BigNumInv
<1>3. NumbersOK'
  BY <1>0, <1>2 DEF BigNumInv, NumbersOK, TooLong
<1>4. ExponentInv'
  BY <1>0, <1>2 DEF BigNumInv, ExponentInv, ResultFor, FactorFor
<1> QED
  BY <1>0, <1>1, <1>2, <1>3, <1>4 DEF BigNumInv, Sized

\* The squaring begins, for a bit that is not set.
LEMMA SquareOnlyKeeps == ASSUME BigNumInv, SquareOnly PROVE BigNumInv'
<1>0. /\ pc = "loop" /\ i < bn_bit_length(exp) /\ ~ IsSet(exp, i) /\ StartDivision(bn_mul(b, b)) /\ pc' = "square"
      /\ ct' = ct /\ base' = base /\ exp' = exp /\ mod' = mod /\ result' = result /\ b' = b /\ i' = i
  BY DEF SquareOnly
<1>1. b.len + b.len <= BN_MAX_WORDS /\ Canonical(b) /\ Sized /\ Canonical(exp) /\ i \in Nat /\ i < WordBits * exp.len
  <2>1. WordBits * exp.len \in Nat
    BY <1>0, PowersAre, CanonicalValue, Sizes
  <2> QED BY <1>0, <2>1, PowersAre, PowersFit
<1>2. /\ Canonical(dividend') /\ Value(dividend') = Value(b) * Value(b) /\ Canonical(remainder')
      /\ bit' \in 0 .. bn_bit_length(dividend') /\ RemainderOfWhatCameDown'
  BY <1>0, <1>1, ProductToDivide DEF BigNumInv
<1>3. ResultFor(i + 1)
  <2>1. Value(exp) % TwoTo[i + 1] = (Value(exp) % TwoTo[i]) + 0
    BY <1>0, <1>1, BitsSeen
  <2>2. Value(exp) % TwoTo[i] \in Int
    <3>1. TwoTo[i] \in Nat \ {0} /\ Value(exp) \in Int
      BY <1>1, CanonicalValue, TwoToProperties
    <3> QED BY <3>1, DivisionExists
  <2>3. Value(exp) % TwoTo[i + 1] = Value(exp) % TwoTo[i]
    BY <2>1, <2>2
  <2> QED BY <1>0, <2>3 DEF BigNumInv, ExponentInv, ResultFor
<1>4. NumbersOK'
  BY <1>0, <1>2 DEF BigNumInv, NumbersOK, TooLong
<1>5. ExponentInv'
  BY <1>0, <1>2, <1>3 DEF BigNumInv, ExponentInv, ResultFor, FactorFor
<1> QED
  BY <1>0, <1>1, <1>2, <1>4, <1>5 DEF BigNumInv, Sized

\* The product is reduced, and the squaring begins.
LEMMA SquareAfterMultiplyKeeps == ASSUME BigNumInv, SquareAfterMultiply PROVE BigNumInv'
<1>0. /\ pc = "multiply" /\ bit = 0 /\ result' = bn_trim(remainder) /\ StartDivision(bn_mul(b, b)) /\ pc' = "square"
      /\ ct' = ct /\ base' = base /\ exp' = exp /\ mod' = mod /\ b' = b /\ i' = i
  BY DEF SquareAfterMultiply, Divided
<1>1. b.len + b.len <= BN_MAX_WORDS /\ Canonical(b) /\ Sized /\ Canonical(exp) /\ i \in Nat
  BY <1>0, PowersAre, PowersFit
<1>1a. i < WordBits * exp.len /\ i < bn_bit_length(exp) /\ IsSet(exp, i)
  <2>1. WordBits * exp.len \in Nat
    BY <1>1, CanonicalValue, Sizes
  <2>2. i < bn_bit_length(exp) /\ IsSet(exp, i)
    BY <1>0 DEF BigNumInv, ExponentInv
  <2> QED BY <1>0, <2>1, <2>2, PowersAre
<1>2. /\ Canonical(dividend') /\ Value(dividend') = Value(b) * Value(b) /\ Canonical(remainder')
      /\ bit' \in 0 .. bn_bit_length(dividend') /\ RemainderOfWhatCameDown'
  BY <1>0, <1>1, ProductToDivide DEF BigNumInv
<1>3. Canonical(result') /\ Value(result') = (Value(result) * Value(b)) % Value(mod)
  BY <1>0, DividedRemainder DEF BigNumInv, ExponentInv
<1>4. PICK x \in Nat, m \in Nat, e \in Nat, t \in Nat :
        /\ x = Value(base) /\ m = Value(mod) /\ m > 1 /\ e = Value(exp) % TwoTo[i] /\ t = TwoTo[i]
  <2>1. PICK D \in Nat \ {0} : D = TwoTo[i]
    BY <1>1, TwoToProperties
  <2>2. Value(exp) \in Int
    BY <1>1, CanonicalValue
  <2>3. Value(exp) % D \in 0 .. D - 1
    BY <2>2, DivisionExists
  <2> QED BY <1>0, <2>1, <2>3, PowersAre
<1>5. Value(result) = PowerMod(x, e, m) /\ Value(b) = PowerMod(x, t, m)
  BY <1>0, <1>4 DEF BigNumInv, ExponentInv, ResultFor, FactorFor
<1>6. Value(result') = PowerMod(x, e + t, m)
  <2>1. m > 1
    BY <1>4
  <2>2. PowerMod(x, e + t, m) = (PowerMod(x, e, m) * PowerMod(x, t, m)) % m
    BY <2>1, PowersProduct
  <2> QED BY <1>3, <1>4, <1>5, <2>2
<1>7. Value(exp) % TwoTo[i + 1] = e + t
  BY <1>1, <1>1a, <1>4, BitsSeen
<1>8. ResultFor(i + 1)'
  BY <1>0, <1>4, <1>6, <1>7 DEF ResultFor
<1>9. NumbersOK'
  BY <1>0, <1>2, <1>3 DEF BigNumInv, NumbersOK, TooLong
<1>10. ExponentInv'
  BY <1>0, <1>1a, <1>2, <1>8 DEF BigNumInv, ExponentInv, FactorFor
<1> QED
  BY <1>0, <1>1, <1>2, <1>9, <1>10 DEF BigNumInv, Sized

\* The square is reduced: the next bit.
LEMMA SquaredKeeps == ASSUME BigNumInv, Squared PROVE BigNumInv'
<1>0. /\ pc = "square" /\ bit = 0 /\ b' = bn_trim(remainder) /\ i' = i + 1 /\ pc' = "loop"
      /\ ct' = ct /\ base' = base /\ exp' = exp /\ mod' = mod /\ result' = result
      /\ dividend' = dividend /\ remainder' = remainder /\ bit' = bit
  BY DEF Squared, Divided
<1>1. Canonical(b') /\ Value(b') = (Value(b) * Value(b)) % Value(mod)
  BY <1>0, DividedRemainder DEF BigNumInv, ExponentInv
<1>2. PICK x \in Nat, m \in Nat, t \in Nat : x = Value(base) /\ m = Value(mod) /\ m > 1 /\ t = TwoTo[i] /\ TwoTo[i + 1] = 2 * t
  <2>1. i \in Nat /\ Value(base) \in Nat /\ Value(mod) \in Nat /\ Value(mod) > 1
    BY <1>0, PowersAre
  <2>2. TwoTo[i] \in Nat /\ TwoTo[i + 1] = 2 * TwoTo[i]
    BY <2>1, TwoToProperties
  <2> QED BY <2>1, <2>2
<1>3. Value(b) = PowerMod(x, t, m)
  BY <1>0, <1>2 DEF BigNumInv, ExponentInv, FactorFor
<1>4. Value(b') = PowerMod(x, t + t, m)
  <2>1. m > 1
    BY <1>2
  <2>2. PowerMod(x, t + t, m) = (PowerMod(x, t, m) * PowerMod(x, t, m)) % m
    BY <2>1, PowersProduct
  <2> QED BY <1>1, <1>2, <1>3, <2>2
<1>5. FactorFor(i)'
  <2>1. t + t = 2 * t
    OBVIOUS
  <2> QED BY <1>0, <1>2, <1>4, <2>1 DEF FactorFor
<1>6. ResultFor(i)'
  BY <1>0 DEF BigNumInv, ExponentInv, ResultFor
<1>7. ExponentInv'
  BY <1>0, <1>5, <1>6 DEF ExponentInv
<1>8. NumbersOK'
  <2>1. i + 1 \in 0 .. bn_bit_length(exp)
    BY <1>0, PowersAre DEF BigNumInv, ExponentInv
  <2> QED BY <1>0, <1>1, <2>1 DEF BigNumInv, NumbersOK, TooLong
<1> QED
  BY <1>0, <1>7, <1>8 DEF BigNumInv, Sized, RemainderOfWhatCameDown

\* All bits have been seen.
LEMMA ReturnKeeps == ASSUME BigNumInv, Return PROVE BigNumInv'
<1>0. /\ pc = "loop" /\ i = bn_bit_length(exp) /\ pc' = "done"
      /\ ct' = ct /\ base' = base /\ exp' = exp /\ mod' = mod /\ result' = result /\ b' = b /\ i' = i
      /\ dividend' = dividend /\ remainder' = remainder /\ bit' = bit
  BY DEF Return
<1>1. ExponentInv'
  BY <1>0 DEF BigNumInv, ExponentInv, ResultFor, FactorFor
<1> QED
  BY <1>0, <1>1 DEF BigNumInv, NumbersOK, TooLong, Sized, RemainderOfWhatCameDown

\* The base is read from bytes that fit the array, or not at all.
LEMMA ReadBaseKeeps == ASSUME BigNumInv, ReadBase PROVE BigNumInv'
<1>0. /\ pc = "bytes" /\ bit = 0 /\ i = 0 /\ result = bn_from_uint(1)
      /\ ct' = ct /\ exp' = exp /\ mod' = mod /\ result' = result /\ b' = b /\ i' = i
  BY DEF ReadBase, BigNumInv, ExponentInv
<1>1. ASSUME TooLong(ct), pc' = "undefined", UNCHANGED <<base, dividend, remainder, bit>> PROVE BigNumInv'
  <2>1. NumbersOK'
    BY <1>0, <1>1 DEF BigNumInv, NumbersOK, TooLong
  <2>2. ExponentInv'
    BY <1>0, <1>1 DEF ExponentInv
  <2>3. RemainderOfWhatCameDown' /\ Sized' /\ (Value(mod) \in Nat \ {0})'
    BY <1>0, <1>1 DEF BigNumInv, Sized, RemainderOfWhatCameDown
  <2> QED BY <1>1, <2>1, <2>2, <2>3 DEF BigNumInv
<1>2. ASSUME ~ TooLong(ct), base' = bn_from_bytes(ct), StartDivision(bn_from_bytes(ct)), pc' = "reduce"
      PROVE BigNumInv'
  <2>1. ct \in Buffer /\ BN_MAX_WORDS * Bytes >= Len(ct)
    <3>1. ct \in Buffer
      BY DEF BigNumInv, NumbersOK, Buffer
    <3>2. PICK l \in Nat, m \in Nat : l = Len(ct) /\ m = BN_MAX_WORDS * Bytes
      BY <3>1, Sizes DEF Buffer
    <3> QED BY <1>2, <3>1, <3>2 DEF TooLong
  <2>2. PICK x : x = bn_from_bytes(ct)
    OBVIOUS
  <2>3. Canonical(x)
    BY <2>1, <2>2, FromBytes
  <2>4. base' = x /\ dividend' = x /\ remainder' = bn_zero /\ bit' = bn_bit_length(x)
    BY <1>2, <2>2 DEF StartDivision
  <2>5. Value(mod) \in Nat \ {0}
    BY DEF BigNumInv
  <2>6. Value(remainder)' = (Value(x) \div TwoTo[bn_bit_length(x)]) % Value(mod) /\ bn_bit_length(x) \in 0 .. bn_bit_length(x)
    BY <2>3, <2>4, <2>5, Started
  <2>7. RemainderOfWhatCameDown'
    BY <1>0, <2>4, <2>6 DEF RemainderOfWhatCameDown
  <2>8. NumbersOK'
    BY <1>0, <1>2, <2>3, <2>4, <2>6, Zero DEF BigNumInv, NumbersOK, TooLong
  <2>9. ExponentInv'
    BY <1>0, <1>2, <2>4 DEF ExponentInv
  <2>10. Sized' /\ (Value(mod) \in Nat \ {0})'
    BY <1>0, <2>5 DEF BigNumInv, Sized
  <2> QED BY <2>7, <2>8, <2>9, <2>10 DEF BigNumInv
<1> QED
  BY <1>1, <1>2 DEF ReadBase

\* Every turn and step of bn_mod_exp preserves the invariant.
LEMMA ModExpKeeps == ASSUME BigNumInv, ModExp PROVE BigNumInv'
BY ReadBaseKeeps, DivideBitKeeps, ReducedKeeps, MultiplyKeeps, SquareAfterMultiplyKeeps, SquareOnlyKeeps, SquaredKeeps,
   ReturnKeeps DEF ModExp

\* So does a step of something else.
LEMMA OthersKeep == ASSUME BigNumInv, UNCHANGED bnVars PROVE BigNumInv'
BY DEF bnVars, BigNumInv, NumbersOK, ExponentInv, Sized, RemainderOfWhatCameDown, ResultFor, FactorFor, TooLong

\* bn_mod_exp begins with numbers that satisfy it.
LEMMA ModExpBegins == ModExpInit \/ ModExpIdle => BigNumInv
<1>1. ASSUME ModExpInit PROVE BigNumInv
  <2>1. PICK o \in Operands : ct = o.base /\ exp = bn_from_bytes(o.exp) /\ mod = bn_from_bytes(o.mod)
    BY <1>1 DEF ModExpInit
  <2>2. /\ o.base \in Buffer /\ o.exp \in Buffer /\ o.mod \in Buffer
        /\ BN_MAX_WORDS >= 2 * ((Len(o.mod) + Bytes - 1) \div Bytes)
        /\ BN_MAX_WORDS * Bytes >= Len(o.exp)
    BY WordAssumption DEF Buffer
  <2>3. BN_MAX_WORDS * Bytes >= Len(o.mod)
    <3>1. PICK l \in Nat, n \in Nat \ {0}, c \in Nat : l = Len(o.mod) /\ n = Bytes /\ c = BN_MAX_WORDS
      BY <2>2, Sizes DEF Buffer
    <3>2. PICK L \in Nat : L = l + n - 1
      OBVIOUS
    <3>3. PICK q \in Nat, r \in 0 .. n - 1 : q = L \div n /\ L = q * n + r
      <4>1. L \div n \in Nat /\ L % n \in 0 .. n - 1 /\ L = (L \div n) * n + (L % n)
        BY L \in Int, DivisionNat, DivisionExists
      <4> QED BY <4>1
    <3>4. c >= 2 * q
      BY <2>2, <3>1, <3>2, <3>3
    <3>5. c * n >= (2 * q) * n
      BY <3>4
    <3>6. PICK p1 \in Nat, p2 \in Nat : p1 = c * n /\ p2 = q * n /\ (2 * q) * n = 2 * p2
      OBVIOUS
    <3>7. c * n >= l
      BY <3>2, <3>3, <3>5, <3>6
    <3> QED BY <3>1, <3>7
  <2>4. Canonical(exp) /\ Canonical(mod) /\ mod \notin {bn_zero, bn_from_uint(1)}
    BY <1>1, <2>1, <2>2, <2>3, FromBytes DEF ModExpInit
  <2>5. Value(mod) > 1 /\ Value(mod) \in Nat
    BY <2>4, NotZeroNorOne, CanonicalValue
  <2>6. mod.len <= (Len(o.mod) + Bytes - 1) \div Bytes
    BY <2>1, <2>2, <2>3, <2>4, FromBytes
  <2>7. 2 * mod.len <= BN_MAX_WORDS
    <3>1. PICK q \in Nat : q = (Len(o.mod) + Bytes - 1) \div Bytes
      <4>1. Len(o.mod) + Bytes - 1 \in Nat
        BY <2>2, Sizes DEF Buffer
      <4> QED BY <4>1, Sizes, DivisionNat
    <3>2. mod.len \in Nat /\ BN_MAX_WORDS \in Nat
      BY <2>4, CanonicalValue, Sizes
    <3> QED BY <2>2, <2>6, <3>1, <3>2
  <2>8. /\ ct = o.base /\ base = bn_zero /\ result = bn_from_uint(1) /\ b = bn_zero /\ i = 0 /\ dividend = bn_zero
        /\ remainder = bn_zero /\ bit = 0 /\ pc = "bytes"
    BY <1>1, <2>1 DEF ModExpInit
  <2>9. RemainderOfWhatCameDown
    <3>1. Value(bn_zero) = (Value(bn_zero) \div TwoTo[bn_bit_length(bn_zero)]) % Value(mod)
      BY <2>5, Zero, Started
    <3> QED BY <2>8, <3>1, Zero DEF RemainderOfWhatCameDown
  <2>10. NumbersOK
    <3>1. i \in 0 .. bn_bit_length(exp) /\ bit \in 0 .. bn_bit_length(dividend)
      BY <2>4, <2>8, BitLength, Zero
    <3>2. ct \in Seq(0 .. BYTE - 1)
      BY <2>2, <2>8 DEF Buffer
    <3> QED BY <2>4, <2>8, <3>1, <3>2, Zero, Unit DEF NumbersOK
  <2>11. ExponentInv
    BY <2>8 DEF ExponentInv
  <2> QED BY <2>5, <2>7, <2>9, <2>10, <2>11 DEF BigNumInv, Sized
<1>2. ASSUME ModExpIdle PROVE BigNumInv
  <2>1. /\ ct = << >> /\ base = bn_zero /\ exp = bn_zero /\ mod = bn_from_uint(1) /\ result = bn_from_uint(1) /\ b = bn_zero /\ i = 0
        /\ dividend = bn_zero /\ remainder = bn_zero /\ bit = 0 /\ pc = "idle"
    BY <1>2 DEF ModExpIdle
  <2>2. 0 \in 0 .. bn_bit_length(bn_zero)
    BY Zero
  <2>3. RemainderOfWhatCameDown
    <3>1. 1 \in Nat \ {0}
      OBVIOUS
    <3>2. Value(bn_zero) = (Value(bn_zero) \div TwoTo[bn_bit_length(bn_zero)]) % 1
      BY <3>1, Zero, Started
    <3> QED BY <2>1, <3>2, Zero, Unit DEF RemainderOfWhatCameDown
  <2>4. NumbersOK
    BY <2>1, <2>2, Zero, Unit DEF NumbersOK
  <2>5. ExponentInv
    BY <2>1 DEF ExponentInv
  <2> QED BY <2>1, <2>3, <2>4, <2>5, Unit DEF BigNumInv
<1> QED
  BY <1>1, <1>2

\* When all bits have been seen, the power is the power.
LEMMA BigNumInvAgrees == BigNumInv => PowerOfTheBitsSeen
<1> SUFFICES ASSUME BigNumInv PROVE PowerOfTheBitsSeen
  OBVIOUS
<1>1. ASSUME pc = "done" PROVE Value(exp) % TwoTo[i] = Value(exp)
  <2>1. Value(exp) \in Nat /\ bn_bit_length(exp) \in Nat /\ Value(exp) < TwoTo[bn_bit_length(exp)] /\ i = bn_bit_length(exp)
    BY <1>1, CanonicalValue, BitLength DEF BigNumInv, NumbersOK, ExponentInv
  <2>2. PICK D \in Nat \ {0} : D = TwoTo[i]
    BY <2>1, TwoToProperties
  <2>3. PICK v \in 0 .. D - 1 : v = Value(exp)
    BY <2>1, <2>2
  <2>4. v = 0 * D + v /\ v \in Int
    OBVIOUS
  <2> QED BY <2>2, <2>3, <2>4, 0 \in Int, DivisionUnique
<1> QED
  BY <1>1 DEF BigNumInv, ExponentInv, PowerOfTheBitsSeen, ResultFor, FactorFor

-----------------------------------------------------------------------------
(* HMAC and the series A(0), A(1), ... of P_hash. *)

\* What is known of the hash function: digests have their size.
Digest == [1 .. DIGEST_SIZE -> Octet]
Hashes == \A text \in Text : sha256(text) \in Digest

\* The bytes HMAC pads with.
LEMMA OctetsOfPads == {0, 54, 92} \subseteq Octet
BY DEF Octet

\* A digest is a text.
LEMMA DigestIsText ==
  ASSUME NEW d \in Digest PROVE d \in Text /\ Len(d) = DIGEST_SIZE
BY PrfAssumption DEF Digest, Text

\* hmac_sha256 is the HMAC of RFC 2104.
LEMMA HmacAsInRfc ==
  ASSUME NEW key, NEW msg PROVE hmac_sha256(key, msg) = Hmac(key, msg)
<1> DEFINE short == IF Len(key) > BLOCK_SIZE THEN sha256(key) ELSE key
           k_padded == [k \in 1 .. BLOCK_SIZE |-> IF k <= Len(short) THEN short[k] ELSE 0]
           Key(byte) == [k \in 1 .. BLOCK_SIZE |-> ByteXor(k_padded[k], byte)]
           Pad(byte) == [k \in 1 .. BLOCK_SIZE |-> IF k > Len(short) THEN byte ELSE ByteXor(short[k], byte)]
<1>1. ASSUME NEW byte \in Octet PROVE Key(byte) = Pad(byte)
  <2>1. ByteXor(0, byte) = byte
    BY PrfAssumption
  <2> QED BY <2>1
<1> QED
  BY <1>1, OctetsOfPads DEF hmac_sha256, Hmac

\* The HMAC of a text is a digest.
LEMMA HmacIsDigest ==
  ASSUME Hashes, NEW key \in Text, NEW msg \in Text
  PROVE  Hmac(key, msg) \in Digest
<1> DEFINE K == IF Len(key) > BLOCK_SIZE THEN sha256(key) ELSE key
           Pad(byte) == [k \in 1 .. BLOCK_SIZE |-> IF k > Len(K) THEN byte ELSE ByteXor(K[k], byte)]
<1>1. K \in Text
  BY DigestIsText DEF Hashes
<1> HIDE DEF K
<1>2. ASSUME NEW byte \in Octet PROVE Pad(byte) \in Text
  <2>1. ASSUME NEW k \in 1 .. BLOCK_SIZE, ~ (k > Len(K)) PROVE ByteXor(K[k], byte) \in Octet
    <3>1. Len(K) \in Nat /\ BLOCK_SIZE \in Nat
      BY <1>1, PrfAssumption DEF Text
    <3>2. k \in 1 .. Len(K)
      BY <2>1, <3>1
    <3>3. K[k] \in Octet
      BY <1>1, <3>2, ElementOfSeq DEF Text
    <3> QED BY <3>3, PrfAssumption
  <2>2. Pad(byte) \in [1 .. BLOCK_SIZE -> Octet]
    BY <2>1
  <2> HIDE DEF Pad
  <2>3. BLOCK_SIZE \in Nat
    BY PrfAssumption
  <2> QED BY <2>2, <2>3 DEF Text
<1> HIDE DEF Pad
<1>3. Pad(54) \in Text /\ Pad(92) \in Text
  BY <1>2, OctetsOfPads
<1>4. Pad(54) \o msg \in Text
  BY <1>3 DEF Text
<1>5. sha256(Pad(54) \o msg) \in Text
  BY <1>4, DigestIsText DEF Hashes
<1>6. Pad(92) \o sha256(Pad(54) \o msg) \in Text
  BY <1>3, <1>5 DEF Text
<1>7. Hmac(key, msg) = sha256(Pad(92) \o sha256(Pad(54) \o msg))
  BY DEF Hmac, Pad, K
<1> QED
  BY <1>6, <1>7 DEF Hashes

\* The equation that defines the series has a solution, so the series obeys it.
LEMMA SeriesEquation ==
  ASSUME Hashes, NEW secret \in Text, NEW seed \in Text
  PROVE  SeriesA(secret, seed) =
           [n \in Nat |-> IF n = 0 THEN seed ELSE Hmac(secret, SeriesA(secret, seed)[n - 1])]
<1> DEFINE F == [n \in Nat |-> [text \in Text |-> Hmac(secret, text)]]
           Solves(f) == f = [n \in Nat |-> IF n = 0 THEN seed ELSE Hmac(secret, f[n - 1])]
<1>1. F \in [Nat -> [Text -> Text]]
  BY HmacIsDigest, DigestIsText
<1>2. PICK f \in [Nat -> Text] : f[0] = seed /\ \A n \in Nat : f[n + 1] = F[n][f[n]]
  <2> HIDE DEF F
  <2>1. \E f \in [Nat -> Text] : Follows(f, seed, F)
    BY <1>1, SequenceExists
  <2> QED BY <2>1 DEF Follows
<1>3. ASSUME NEW n \in Nat PROVE f[n] = IF n = 0 THEN seed ELSE Hmac(secret, f[n - 1])
  <2>1. CASE n = 0
    BY <2>1, <1>2
  <2>2. CASE n # 0
    <3>1. n - 1 \in Nat /\ (n - 1) + 1 = n
      BY <2>2
    <3>2. f[n] = F[n - 1][f[n - 1]]
      BY <3>1, <1>2
    <3> QED BY <2>2, <3>1, <3>2
  <2> QED BY <2>1, <2>2
<1>4. Solves(f)
  BY <1>3
<1>5. Solves(CHOOSE g : Solves(g))
  <2> HIDE DEF Solves
  <2> QED BY <1>4
<1> QED
  BY <1>5 DEF SeriesA

\* Every A(n) is a text, each the HMAC of the one before.
LEMMA SeriesProperties ==
  ASSUME Hashes, NEW secret \in Text, NEW seed \in Text
  PROVE  /\ SeriesA(secret, seed)[0] = seed
         /\ \A n \in Nat : /\ SeriesA(secret, seed)[n] \in Text
                           /\ SeriesA(secret, seed)[n + 1] = Hmac(secret, SeriesA(secret, seed)[n])
<1> DEFINE a == SeriesA(secret, seed)
           T == {n \in Nat : a[n] \in Text}
<1>1. a = [n \in Nat |-> IF n = 0 THEN seed ELSE Hmac(secret, a[n - 1])]
  BY SeriesEquation
<1> HIDE DEF a
<1>2. a[0] = seed /\ \A n \in Nat : a[n + 1] = Hmac(secret, a[n])
  <2>1. a[0] = seed
    BY <1>1
  <2>2. ASSUME NEW n \in Nat PROVE a[n + 1] = Hmac(secret, a[n])
    <3>1. n + 1 \in Nat /\ n + 1 # 0 /\ (n + 1) - 1 = n
      OBVIOUS
    <3> QED BY <1>1, <3>1
  <2> QED BY <2>1, <2>2
<1>3. ASSUME NEW n \in T PROVE n + 1 \in T
  <2>1. n \in Nat /\ a[n] \in Text
    OBVIOUS
  <2>2. a[n + 1] \in Text
    BY <1>2, <2>1, HmacIsDigest, DigestIsText
  <2> QED BY <2>1, <2>2
<1>4. 0 \in T /\ T \in SUBSET Nat
  BY <1>2
<1>5. T = Nat
  <2> HIDE DEF T
  <2> QED BY <1>3, <1>4, Induction
<1> QED
  BY <1>2, <1>5 DEF a

-----------------------------------------------------------------------------
(* What tls_prf has written. *)

\* The place of the byte j of the block m.
LEMMA BlockAndByte ==
  ASSUME NEW D \in Nat \ {0}, NEW m \in Nat, NEW j \in 0 .. D - 1
  PROVE  (m * D + j) \div D = m /\ (m * D + j) % D = j
<1>1. m * D + j \in Int /\ m * D \in Nat
  OBVIOUS
<1>2. PICK q : q = (m * D + j) \div D
  OBVIOUS
<1>3. PICK r : r = (m * D + j) % D
  OBVIOUS
<1>4. q \in Int /\ r \in 0 .. D - 1 /\ m * D + j = q * D + r
  BY <1>1, <1>2, <1>3
<1>5. q = m
  <2>1. CASE q <= m - 1
    <3>1. q * D <= (m - 1) * D
      BY <2>1, <1>4
    <3> QED BY <3>1, <1>4
  <2>2. CASE q >= m + 1
    <3>1. q * D >= (m + 1) * D
      BY <2>2, <1>4
    <3> QED BY <3>1, <1>4
  <2> QED BY <2>1, <2>2, <1>4
<1> QED
  BY <1>2, <1>3, <1>4, <1>5

\* The bytes of P_hash come in blocks, one for each A(m + 1).
LEMMA BlocksOfPHash ==
  ASSUME NEW secret, NEW seed, NEW m \in Nat, NEW j \in 1 .. DIGEST_SIZE
  PROVE  P_hash(secret, seed, m * DIGEST_SIZE + j) = Hmac(secret, SeriesA(secret, seed)[m + 1] \o seed)[j]
<1>1. DIGEST_SIZE \in Nat \ {0} /\ j - 1 \in 0 .. DIGEST_SIZE - 1
  BY PrfAssumption
<1>2. m * DIGEST_SIZE + j - 1 = m * DIGEST_SIZE + (j - 1)
  BY <1>1
<1>3. /\ (m * DIGEST_SIZE + j - 1) \div DIGEST_SIZE = m
      /\ (m * DIGEST_SIZE + j - 1) % DIGEST_SIZE = j - 1
  BY <1>1, <1>2, BlockAndByte
<1> QED
  BY <1>3, <1>1 DEF P_hash

Calls == [secret : Text, full_seed : Text, output_len : Nat]
Expansion(c, n) == PRF(c.secret, << >>, c.full_seed, n)

\* When tls_prf begins, A is A(1).
LEMMA FirstOfSeries ==
  ASSUME Hashes, NEW c \in Calls
  PROVE  hmac_sha256(c.secret, c.full_seed) = SeriesA(c.secret, c.full_seed)[0 + 1]
<1>1. c.secret \in Text /\ c.full_seed \in Text
  BY DEF Calls
<1>2. SeriesA(c.secret, c.full_seed)[0] = c.full_seed
  BY <1>1, SeriesProperties
<1>3. SeriesA(c.secret, c.full_seed)[0 + 1] = Hmac(c.secret, SeriesA(c.secret, c.full_seed)[0])
  BY <1>1, SeriesProperties, 0 \in Nat
<1> QED
  BY <1>2, <1>3, HmacAsInRfc

\* After m blocks, of the n bytes that a turn of its loop takes from the next one.
AtBlock(c, out, m) ==
  /\ out = Expansion(c, Len(out)) /\ Len(out) = m * DIGEST_SIZE /\ Len(out) < c.output_len
NthBytes(c, m, n) ==
  SubSeq(hmac_sha256(c.secret, SeriesA(c.secret, c.full_seed)[m + 1] \o c.full_seed), 1, n)
Extends(c, out, block, n) ==
  /\ out \o block \in Text /\ Len(out \o block) = Len(out) + n
  /\ out \o block = Expansion(c, Len(out) + n)

\* A turn appends the next bytes of P_hash.
LEMMA NextBytes ==
  ASSUME Hashes, NEW c \in Calls, NEW out \in Text, NEW m \in Nat, AtBlock(c, out, m),
         NEW n \in 1 .. DIGEST_SIZE
  PROVE  Extends(c, out, NthBytes(c, m, n), n)
<1>0. PICK block : block = NthBytes(c, m, n)
  OBVIOUS
<1> USE DEF AtBlock, NthBytes
<1> DEFINE digest == Hmac(c.secret, SeriesA(c.secret, c.full_seed)[m + 1] \o c.full_seed)
<1>1. c.secret \in Text /\ c.full_seed \in Text /\ m + 1 \in Nat
  BY DEF Calls
<1>2. digest \in Digest
  <2>1. SeriesA(c.secret, c.full_seed)[m + 1] \in Text
    BY <1>1, SeriesProperties
  <2>2. SeriesA(c.secret, c.full_seed)[m + 1] \o c.full_seed \in Text
    BY <1>1, <2>1 DEF Text
  <2> QED BY <1>1, <2>2, HmacIsDigest
<1>3. /\ block \in Text /\ Len(block) = n
      /\ \A j \in 1 .. n : block[j] = digest[j]
  <2>1. \A j \in 1 .. n : digest[j] \in Octet
    BY <1>2, PrfAssumption DEF Digest
  <2>2. block = SubSeq(digest, 1, n)
    BY <1>0, HmacAsInRfc
  <2>3. n \in Int /\ n >= 1 /\ n - 1 + 1 = n
    BY PrfAssumption
  <2> HIDE DEF digest
  <2>4. /\ SubSeq(digest, 1, n) \in Seq(Octet) /\ Len(SubSeq(digest, 1, n)) = n
        /\ \A j \in 1 .. n : SubSeq(digest, 1, n)[j] = digest[1 + j - 1]
    BY <2>1, <2>3, SubSeqProperties
  <2>5. \A j \in 1 .. n : 1 + j - 1 = j
    BY <2>3
  <2> QED BY <2>2, <2>4, <2>5 DEF Text
<1>4. PICK l : l = Len(out)
  OBVIOUS
<1>5. l \in Nat /\ n \in Nat
  BY <1>4, PrfAssumption DEF Text
<1>6. /\ out \o block \in Text /\ Len(out \o block) = l + n
      /\ \A k \in 1 .. l + n : (out \o block)[k] = IF k <= l THEN out[k] ELSE block[k - l]
  <2> HIDE DEF digest
  <2>1. out \in Seq(Octet) /\ block \in Seq(Octet)
    BY <1>3 DEF Text
  <2>2. /\ out \o block \in Seq(Octet)
        /\ Len(out \o block) = Len(out) + Len(block)
        /\ \A k \in 1 .. Len(out) + Len(block) :
             (out \o block)[k] = IF k <= Len(out) THEN out[k] ELSE block[k - Len(out)]
    BY <2>1, ConcatProperties
  <2> QED BY <2>2, <1>3, <1>4 DEF Text
<1>7. ASSUME NEW k \in 1 .. l + n
      PROVE  (out \o block)[k] = P_hash(c.secret, << >> \o c.full_seed, k)
  <2>1. CASE k <= l
    <3>1. k \in 1 .. l
      BY <2>1, <1>5
    <3>2. out[k] = P_hash(c.secret, << >> \o c.full_seed, k)
      BY <3>1, <1>4 DEF Expansion, PRF
    <3> QED BY <2>1, <3>2, <1>6
  <2>2. CASE ~ (k <= l)
    <3>1. PICK j \in 1 .. n : k = l + j
      BY <2>2, <1>5
    <3>2. j \in 1 .. DIGEST_SIZE
      BY PrfAssumption
    <3>3. P_hash(c.secret, c.full_seed, k) = digest[j]
      BY <3>1, <3>2, <1>4, BlocksOfPHash
    <3>4. << >> \o c.full_seed = c.full_seed
      BY <1>1, ConcatEmptySeq DEF Text
    <3>5. k - l = j
      BY <3>1, <1>5
    <3> QED BY <2>2, <3>3, <3>4, <3>5, <1>3, <1>6
  <2> QED BY <2>1, <2>2
<1>8. out \o block = Expansion(c, l + n)
  <2>1. out \o block = [k \in 1 .. l + n |-> (out \o block)[k]]
    <3> HIDE DEF digest
    <3>1. PICK s : s = out \o block
      OBVIOUS
    <3>2. s \in Seq(Octet) /\ Len(s) = l + n
      BY <3>1, <1>6 DEF Text
    <3>3. s = [k \in 1 .. l + n |-> s[k]]
      BY <3>2, LenProperties
    <3> QED BY <3>1, <3>3
  <2> QED BY <2>1, <1>7 DEF Expansion, PRF
<1> QED
  BY <1>0, <1>4, <1>6, <1>8 DEF Extends

-----------------------------------------------------------------------------
(* derive_keys. *)

Randoms(s) == s.client_random \o s.server_random
Reversed(s) == s.server_random \o s.client_random
KeyBlockSize == 2 * (MAC_SIZE + KEY_SIZE + IV_SIZE)
MasterCall(s) == Arguments(s.pre_master_secret, MasterLabel, Randoms(s), MASTER_SIZE)
KeyCall(s, secret) == Arguments(secret, KeyLabel, Reversed(s), KeyBlockSize)
MasterSecret(s) == PRF(s.pre_master_secret, MasterLabel, Randoms(s), MASTER_SIZE)

\* A label and two randoms.
LEMMA ThreeTexts ==
  ASSUME NEW s \in Text, NEW t \in Text, NEW u \in Text
  PROVE  s \o (t \o u) \in Text /\ Len(s \o (t \o u)) = Len(s) + Len(t) + Len(u)
<1>1. t \o u \in Seq(Octet) /\ Len(t \o u) = Len(t) + Len(u)
  BY ConcatProperties DEF Text
<1>2. s \o (t \o u) \in Seq(Octet) /\ Len(s \o (t \o u)) = Len(s) + Len(t \o u)
  BY <1>1, ConcatProperties DEF Text
<1>3. Len(s) \in Nat /\ Len(t) \in Nat /\ Len(u) \in Nat
  BY DEF Text
<1> QED
  BY <1>1, <1>2, <1>3 DEF Text

\* Both calls of derive_keys are calls whose seeds fit.
LEMMA CallsOfDeriveKeys ==
  ASSUME NEW s \in Sessions, NEW secret \in Text
  PROVE  /\ MasterCall(s) \in Calls /\ Fits(MasterCall(s))
         /\ KeyCall(s, secret) \in Calls /\ Fits(KeyCall(s, secret))
<1>1. /\ s.pre_master_secret \in Text /\ s.client_random \in Text /\ s.server_random \in Text
      /\ MasterLabel \in Text /\ KeyLabel \in Text
  BY PrfAssumption
<1>2. /\ Len(MasterLabel) + Len(s.client_random) + Len(s.server_random) <= SEED_SIZE
      /\ Len(KeyLabel) + Len(s.client_random) + Len(s.server_random) <= SEED_SIZE
  BY PrfAssumption
<1>3. /\ MASTER_SIZE \in Nat /\ KeyBlockSize \in Nat
  BY PrfAssumption DEF KeyBlockSize
<1>4. /\ MasterLabel \o Randoms(s) \in Text
      /\ Len(MasterLabel \o Randoms(s)) = Len(MasterLabel) + Len(s.client_random) + Len(s.server_random)
      /\ KeyLabel \o Reversed(s) \in Text
      /\ Len(KeyLabel \o Reversed(s)) = Len(KeyLabel) + Len(s.client_random) + Len(s.server_random)
  <2>1. Len(s.client_random) \in Nat /\ Len(s.server_random) \in Nat /\ Len(KeyLabel) \in Nat
    BY <1>1 DEF Text
  <2>2. /\ MasterLabel \o Randoms(s) \in Text
        /\ Len(MasterLabel \o Randoms(s)) = Len(MasterLabel) + Len(s.client_random) + Len(s.server_random)
    BY <1>1, ThreeTexts DEF Randoms
  <2>3. /\ KeyLabel \o Reversed(s) \in Text
        /\ Len(KeyLabel \o Reversed(s)) = Len(KeyLabel) + Len(s.server_random) + Len(s.client_random)
    BY <1>1, ThreeTexts DEF Reversed
  <2>4. Len(KeyLabel) + Len(s.server_random) + Len(s.client_random)
          = Len(KeyLabel) + Len(s.client_random) + Len(s.server_random)
    <3>1. PICK a \in Nat, k \in Nat, l \in Nat :
            a = Len(KeyLabel) /\ k = Len(s.client_random) /\ l = Len(s.server_random)
      BY <2>1
    <3>2. a + l + k = a + k + l
      OBVIOUS
    <3> QED BY <3>1, <3>2
  <2> QED BY <2>2, <2>3, <2>4
<1> QED
  BY <1>1, <1>2, <1>3, <1>4 DEF MasterCall, KeyCall, Arguments, Calls, Fits

\* What such a call expands to is the PRF of its label and seed.
LEMMA ExpansionOfArguments ==
  ASSUME NEW secret, NEW label \in Text, NEW seed \in Text, NEW n
  PROVE  Expansion(Arguments(secret, label, seed, n), n) = PRF(secret, label, seed, n)
<1>1. << >> \o (label \o seed) = label \o seed
  BY DEF Text
<1> QED
  BY <1>1 DEF Expansion, Arguments, PRF

\* One slice behind another.
LEMMA NextSlice ==
  ASSUME NEW out \in Text, NEW at \in Nat, NEW size \in Nat, at + size <= Len(out)
  PROVE  /\ SubSeq(out, 1, at) \o SubSeq(out, at + 1, at + size) = SubSeq(out, 1, at + size)
         /\ Len(SubSeq(out, at + 1, at + size)) = size
<1>1. PICK l \in Nat : l = Len(out)
  BY DEF Text
<1>2. 1 \in 1 .. l + 1 /\ at \in 1 - 1 .. l /\ at + size \in at .. l
  BY <1>1
<1>3. SubSeq(out, 1, at) \o SubSeq(out, at + 1, at + size) = SubSeq(out, 1, at + size)
  BY <1>1, <1>2, ConcatAdjacentSubSeq DEF Text
<1>4. \A k \in at + 1 .. at + size : out[k] \in Octet
  <2>1. \A k \in at + 1 .. at + size : k \in 1 .. l
    BY <1>1
  <2> QED BY <1>1, <2>1, ElementOfSeq DEF Text
<1>5. Len(SubSeq(out, at + 1, at + size)) = IF at + 1 <= at + size THEN (at + size) - (at + 1) + 1 ELSE 0
  BY <1>4, SubSeqProperties
<1> QED
  BY <1>3, <1>5

\* The six slices of the key block are the whole of it.
LEMMA SlicesOfKeyBlock ==
  ASSUME NEW out \in Text, Len(out) = KeyBlockSize
  PROVE  LET Slice(pos, size) == SubSeq(out, pos + 1, pos + size)
             key == 2 * MAC_SIZE
             iv == key + 2 * KEY_SIZE
         IN /\ Slice(0, MAC_SIZE) \o Slice(MAC_SIZE, MAC_SIZE)
                 \o Slice(key, KEY_SIZE) \o Slice(key + KEY_SIZE, KEY_SIZE)
                 \o Slice(iv, IV_SIZE) \o Slice(iv + IV_SIZE, IV_SIZE) = out
            /\ Len(Slice(0, MAC_SIZE)) = Len(Slice(MAC_SIZE, MAC_SIZE))
            /\ Len(Slice(key, KEY_SIZE)) = Len(Slice(key + KEY_SIZE, KEY_SIZE))
<1> DEFINE Slice(pos, size) == SubSeq(out, pos + 1, pos + size)
           key == 2 * MAC_SIZE
           iv == key + 2 * KEY_SIZE
<1>1. MAC_SIZE \in Nat /\ KEY_SIZE \in Nat /\ IV_SIZE \in Nat
  BY PrfAssumption
<1>2. Len(out) = iv + 2 * IV_SIZE
  BY <1>1 DEF KeyBlockSize
<1>3. /\ SubSeq(out, 1, MAC_SIZE) \o Slice(MAC_SIZE, MAC_SIZE) = SubSeq(out, 1, key)
      /\ Len(Slice(MAC_SIZE, MAC_SIZE)) = MAC_SIZE
  <2>1. MAC_SIZE + MAC_SIZE <= Len(out) /\ MAC_SIZE + MAC_SIZE = key
    BY <1>1, <1>2
  <2> QED BY <1>1, <2>1, NextSlice
<1>4. SubSeq(out, 1, key) \o Slice(key, KEY_SIZE) = SubSeq(out, 1, key + KEY_SIZE)
      /\ Len(Slice(key, KEY_SIZE)) = KEY_SIZE
  <2>1. key + KEY_SIZE <= Len(out) /\ key \in Nat
    BY <1>1, <1>2
  <2> QED BY <1>1, <2>1, NextSlice
<1>5. SubSeq(out, 1, key + KEY_SIZE) \o Slice(key + KEY_SIZE, KEY_SIZE) = SubSeq(out, 1, iv)
      /\ Len(Slice(key + KEY_SIZE, KEY_SIZE)) = KEY_SIZE
  <2>1. key + KEY_SIZE + KEY_SIZE <= Len(out) /\ key + KEY_SIZE \in Nat /\ key + KEY_SIZE + KEY_SIZE = iv
    BY <1>1, <1>2
  <2> QED BY <1>1, <2>1, NextSlice
<1>6. SubSeq(out, 1, iv) \o Slice(iv, IV_SIZE) = SubSeq(out, 1, iv + IV_SIZE)
  <2>1. iv + IV_SIZE <= Len(out) /\ iv \in Nat
    BY <1>1, <1>2
  <2> QED BY <1>1, <2>1, NextSlice
<1>7. SubSeq(out, 1, iv + IV_SIZE) \o Slice(iv + IV_SIZE, IV_SIZE) = SubSeq(out, 1, Len(out))
  <2>1. iv + IV_SIZE + IV_SIZE = Len(out) /\ iv + IV_SIZE \in Nat
    BY <1>1, <1>2
  <2>2. iv + IV_SIZE + IV_SIZE <= Len(out)
    BY <1>1, <2>1
  <2> QED BY <1>1, <2>1, <2>2, NextSlice
<1>8. SubSeq(out, 1, Len(out)) = out
  BY SubSeqFull DEF Text
<1>9. Slice(0, MAC_SIZE) = SubSeq(out, 1, MAC_SIZE) /\ Len(Slice(0, MAC_SIZE)) = MAC_SIZE
  <2>1. 0 + MAC_SIZE <= Len(out) /\ 0 + 1 = 1 /\ 0 + MAC_SIZE = MAC_SIZE
    BY <1>1, <1>2
  <2>2. Len(SubSeq(out, 0 + 1, 0 + MAC_SIZE)) = MAC_SIZE
    BY <1>1, <2>1, NextSlice
  <2> QED BY <2>1, <2>2
<1>10. Slice(0, MAC_SIZE) \o Slice(MAC_SIZE, MAC_SIZE) \o Slice(key, KEY_SIZE) \o Slice(key + KEY_SIZE, KEY_SIZE)
         \o Slice(iv, IV_SIZE) \o Slice(iv + IV_SIZE, IV_SIZE) = out
  <2> HIDE DEF Slice, key, iv
  <2> QED BY <1>3, <1>4, <1>5, <1>6, <1>7, <1>8, <1>9
<1> QED
  <2> HIDE DEF Slice
  <2>1. Len(Slice(0, MAC_SIZE)) = Len(Slice(MAC_SIZE, MAC_SIZE))
    BY <1>3, <1>9
  <2>2. Len(Slice(key, KEY_SIZE)) = Len(Slice(key + KEY_SIZE, KEY_SIZE))
    BY <1>4, <1>5
  <2> QED BY <1>10, <2>1, <2>2 DEF Slice

-----------------------------------------------------------------------------
(* The inductive invariant. *)

Running == deriving \in {"alone", "master", "keys"}

\* What has been written is the beginning of P_hash; as long as more is asked
\* for, it ends with a block, and A is the A(i) of the next one.
ExpansionInv ==
  /\ call \in Calls /\ output \in Text
  /\ ~ Running => output = << >>
  /\ ~ Fits(call) => output = << >>
  /\ Running /\ Fits(call) =>
       /\ output = Expansion(call, Len(output)) /\ Len(output) <= call.output_len
       /\ Len(output) < call.output_len =>
            \E m \in Nat : Len(output) = m * DIGEST_SIZE
                             /\ A = SeriesA(call.secret, call.full_seed)[m + 1]

\* Which call of derive_keys is running, and what it has got from the first.
StageInv ==
  /\ deriving \in {"idle", "alone", "begin", "master", "keys", "derived"}
  /\ deriving \in {"begin", "master", "keys", "derived"} => session \in Sessions
  /\ deriving = "master" => call = MasterCall(session)
  /\ deriving = "keys" => master \in Text /\ call = KeyCall(session, master) /\ master = MasterSecret(session)

PrfInv == ExpansionInv /\ StageInv /\ DerivesAsInRfc

\* No call asks for nothing.
LEMMA NoCallIsCall == NoCall \in Calls
<1>1. << >> \in Text /\ << >> \o << >> = << >>
  BY DEF Text
<1> QED
  BY <1>1 DEF NoCall, Arguments, Calls

\* The expansion to no bytes.
LEMMA EmptyExpansion ==
  ASSUME NEW c \in Calls
  PROVE  << >> \in Text /\ Len(<< >>) = 0 /\ << >> = Expansion(c, 0) /\ 0 <= c.output_len
<1>1. << >> \in Text /\ Len(<< >>) = 0
  BY DEF Text
<1>2. [k \in 1 .. 0 |-> P_hash(c.secret, << >> \o c.full_seed, k)] = << >>
  OBVIOUS
<1> QED
  BY <1>1, <1>2 DEF Expansion, PRF, Calls

\* A call begins with no output, and A(1).
LEMMA BeginningOfCall ==
  ASSUME Hashes, call \in Calls, output = << >>, deriving \in {"alone", "master", "keys"},
         Fits(call) => A = hmac_sha256(call.secret, call.full_seed)
  PROVE  ExpansionInv
<1>1. << >> \in Text /\ Len(<< >>) = 0 /\ << >> = Expansion(call, 0) /\ 0 <= call.output_len
  BY EmptyExpansion
<1>2. ASSUME Fits(call) PROVE Len(output) = 0 * DIGEST_SIZE /\ A = SeriesA(call.secret, call.full_seed)[0 + 1]
  <2>1. 0 * DIGEST_SIZE = 0
    BY PrfAssumption
  <2> QED BY <1>1, <1>2, <2>1, FirstOfSeries
<1> QED
  BY <1>1, <1>2 DEF ExpansionInv, Running

\* Nothing has been written at first.
LEMMA PrfInitial == ASSUME Hashes, Init PROVE PrfInv
<1>1. CASE PrfIdle
  <2>1. ExpansionInv
    BY <1>1, NoCallIsCall, EmptyExpansion DEF PrfIdle, ExpansionInv, Running
  <2> QED BY <1>1, <2>1 DEF PrfIdle, PrfInv, StageInv, DerivesAsInRfc
<1>2. CASE PrfInit
  <2>1. CASE deriving = "alone" /\ call \in PrfCalls
    <3>1. call \in Calls
      BY <2>1, PrfAssumption DEF Calls
    <3>2. output = << >> /\ (Fits(call) => A = hmac_sha256(call.secret, call.full_seed))
      BY <1>2 DEF PrfInit
    <3>3. ExpansionInv
      BY <2>1, <3>1, <3>2, BeginningOfCall
    <3> QED BY <2>1, <3>3 DEF PrfInv, StageInv, DerivesAsInRfc
  <2>2. CASE session \in Sessions /\ deriving = "begin" /\ call = NoCall
    <3>1. output = << >>
      BY <1>2 DEF PrfInit
    <3>2. ExpansionInv
      BY <2>2, <3>1, NoCallIsCall, EmptyExpansion DEF ExpansionInv, Running
    <3> QED BY <2>2, <3>2 DEF PrfInv, StageInv, DerivesAsInRfc
  <2> QED BY <1>2, <2>1, <2>2 DEF PrfInit
<1> QED
  BY <1>1, <1>2 DEF Init

\* A turn of the loop of tls_prf.
LEMMA ExpandKeeps == ASSUME Hashes, PrfInv, ExpandBlock PROVE PrfInv'
<1>1. /\ Running /\ Fits(call) /\ Len(output) < call.output_len
      /\ A' = hmac_sha256(call.secret, A)
      /\ session' = session /\ call' = call /\ master' = master /\ keys' = keys /\ deriving' = deriving
  BY DEF ExpandBlock, Expanding, Running, NextOfA
<1>2. call \in Calls /\ output \in Text /\ output = Expansion(call, Len(output))
  BY <1>1 DEF PrfInv, ExpansionInv
<1>3. PICK m \in Nat : Len(output) = m * DIGEST_SIZE /\ A = SeriesA(call.secret, call.full_seed)[m + 1]
  BY <1>1 DEF PrfInv, ExpansionInv
<1> DEFINE rest == call.output_len - Len(output)
           n == IF rest > DIGEST_SIZE THEN DIGEST_SIZE ELSE rest
           block == SubSeq(hmac_sha256(call.secret, A \o call.full_seed), 1, n)
<1>4. output' = output \o block
  BY DEF ExpandBlock
<1>5. call.output_len \in Nat /\ Len(output) \in Nat /\ DIGEST_SIZE \in Nat \ {0}
  BY <1>2, PrfAssumption DEF Calls, Text
<1>6. n \in 1 .. DIGEST_SIZE /\ (n = DIGEST_SIZE \/ Len(output) + n = call.output_len)
      /\ Len(output) + n <= call.output_len
  BY <1>1, <1>5
<1> HIDE DEF n
<1>7. block = NthBytes(call, m, n)
  BY <1>3 DEF NthBytes
<1> HIDE DEF block
<1>8. /\ output' \in Text /\ Len(output') = Len(output) + n /\ output' = Expansion(call, Len(output) + n)
  <2>1. AtBlock(call, output, m)
    BY <1>1, <1>2, <1>3 DEF AtBlock
  <2>2. Extends(call, output, block, n)
    BY <1>2, <1>6, <1>7, <2>1, NextBytes
  <2> QED BY <1>4, <2>2 DEF Extends
<1>9. ASSUME Len(output') < call.output_len
      PROVE  Len(output') = (m + 1) * DIGEST_SIZE /\ A' = SeriesA(call.secret, call.full_seed)[(m + 1) + 1]
  <2>1. Len(output') = m * DIGEST_SIZE + DIGEST_SIZE
    BY <1>3, <1>5, <1>6, <1>8, <1>9
  <2>2. m * DIGEST_SIZE + DIGEST_SIZE = (m + 1) * DIGEST_SIZE
    BY <1>5
  <2>3. m + 1 \in Nat /\ call.secret \in Text /\ call.full_seed \in Text
    BY <1>2 DEF Calls
  <2>4. A' = Hmac(call.secret, SeriesA(call.secret, call.full_seed)[m + 1])
    BY <1>1, <1>3, HmacAsInRfc
  <2> QED BY <2>1, <2>2, <2>3, <2>4, SeriesProperties
<1>10. ExpansionInv'
  <2>1. m + 1 \in Nat
    OBVIOUS
  <2>2. Running' /\ Fits(call')
    BY <1>1 DEF Running
  <2> QED BY <1>1, <1>2, <1>6, <1>8, <1>9, <2>1, <2>2 DEF ExpansionInv
<1>11. StageInv' /\ DerivesAsInRfc'
  BY <1>1 DEF PrfInv, StageInv, DerivesAsInRfc, Running
<1> QED
  BY <1>10, <1>11 DEF PrfInv

\* The first call of derive_keys.
LEMMA MasterKeeps == ASSUME Hashes, PrfInv, DeriveMaster PROVE PrfInv'
<1>1. /\ deriving = "begin" /\ deriving' = "master" /\ session' = session /\ session \in Sessions
      /\ call' = MasterCall(session) /\ output' = << >>
      /\ A' = IF Fits(call') THEN hmac_sha256(call'.secret, call'.full_seed) ELSE << >>
  BY DEF DeriveMaster, Begin, MasterCall, Randoms, PrfInv, StageInv
<1>2. MasterCall(session) \in Calls
  <2>1. << >> \in Text
    BY DEF Text
  <2> QED BY <1>1, <2>1, CallsOfDeriveKeys
<1>3. ExpansionInv'
  <2>1. PICK c : c = MasterCall(session)
    OBVIOUS
  <2>2. /\ << >> \in Text /\ Len(<< >>) = 0 /\ << >> = Expansion(c, 0) /\ 0 <= c.output_len
        /\ hmac_sha256(c.secret, c.full_seed) = SeriesA(c.secret, c.full_seed)[0 + 1]
    BY <1>2, <2>1, EmptyExpansion, FirstOfSeries
  <2>3. 0 * DIGEST_SIZE = 0 /\ 0 \in Nat
    BY PrfAssumption
  <2> QED BY <1>1, <1>2, <2>1, <2>2, <2>3 DEF ExpansionInv, Running
<1>4. StageInv' /\ DerivesAsInRfc'
  BY <1>1 DEF StageInv, DerivesAsInRfc
<1> QED
  BY <1>3, <1>4 DEF PrfInv

\* When a call has returned, its output is the whole expansion.
LEMMA ReturnedWhole ==
  ASSUME PrfInv, Returned, Running, Fits(call)
  PROVE  output \in Text /\ Len(output) = call.output_len /\ output = Expansion(call, call.output_len)
BY DEF Returned, PrfInv, ExpansionInv

\* The second call of derive_keys.
LEMMA KeyBlockKeeps == ASSUME Hashes, PrfInv, DeriveKeyBlock PROVE PrfInv'
<1>1. /\ deriving = "master" /\ deriving' = "keys" /\ Returned
      /\ session' = session /\ session \in Sessions /\ call = MasterCall(session)
      /\ master' = output /\ call' = KeyCall(session, output) /\ output' = << >>
      /\ A' = IF Fits(call') THEN hmac_sha256(call'.secret, call'.full_seed) ELSE << >>
  BY DEF DeriveKeyBlock, Begin, KeyCall, Reversed, KeyBlockSize, PrfInv, StageInv
<1>2. Fits(call) /\ call.output_len = MASTER_SIZE
  <2>1. << >> \in Text
    BY DEF Text
  <2>2. Fits(MasterCall(session))
    BY <1>1, <2>1, CallsOfDeriveKeys
  <2> QED BY <1>1, <2>2 DEF MasterCall, Arguments
<1>3. output \in Text /\ output = Expansion(call, MASTER_SIZE)
  BY <1>1, <1>2, ReturnedWhole DEF Running
<1>4. output = MasterSecret(session)
  <2>1. MasterLabel \in Text /\ Randoms(session) \in Text
    <3>1. /\ session.client_random \in Text /\ session.server_random \in Text /\ MasterLabel \in Text
      BY <1>1, PrfAssumption
    <3> QED BY <3>1 DEF Randoms, Text
  <2> QED BY <1>1, <1>3, <2>1, ExpansionOfArguments DEF MasterCall, MasterSecret
<1>5. KeyCall(session, output) \in Calls
  BY <1>1, <1>3, CallsOfDeriveKeys
<1>6. ExpansionInv'
  <2>1. PICK c : c = KeyCall(session, output)
    OBVIOUS
  <2>2. /\ << >> \in Text /\ Len(<< >>) = 0 /\ << >> = Expansion(c, 0) /\ 0 <= c.output_len
        /\ hmac_sha256(c.secret, c.full_seed) = SeriesA(c.secret, c.full_seed)[0 + 1]
    BY <1>5, <2>1, EmptyExpansion, FirstOfSeries
  <2>3. 0 * DIGEST_SIZE = 0 /\ 0 \in Nat
    BY PrfAssumption
  <2> QED BY <1>1, <1>5, <2>1, <2>2, <2>3 DEF ExpansionInv, Running
<1>7. StageInv' /\ DerivesAsInRfc'
  BY <1>1, <1>3, <1>4 DEF StageInv, DerivesAsInRfc
<1> QED
  BY <1>6, <1>7 DEF PrfInv

\* The key block is cut into the six keys.
LEMMA SliceKeeps == ASSUME Hashes, PrfInv, SliceKeyBlock PROVE PrfInv'
<1>1. /\ deriving = "keys" /\ deriving' = "derived" /\ Returned /\ output' = << >>
      /\ session' = session /\ call' = call /\ master' = master
      /\ session \in Sessions /\ master \in Text /\ call = KeyCall(session, master)
      /\ master = MasterSecret(session)
  BY DEF SliceKeyBlock, PrfInv, StageInv
<1>2. Fits(call) /\ call.output_len = KeyBlockSize /\ call \in Calls
  <2>1. Fits(KeyCall(session, master)) /\ KeyCall(session, master) \in Calls
    BY <1>1, CallsOfDeriveKeys
  <2> QED BY <1>1, <2>1 DEF KeyCall, Arguments
<1>3. output \in Text /\ Len(output) = KeyBlockSize /\ output = Expansion(call, KeyBlockSize)
  BY <1>1, <1>2, ReturnedWhole DEF Running
<1>4. output = PRF(master, KeyLabel, Reversed(session), KeyBlockSize)
  <2>1. KeyLabel \in Text /\ Reversed(session) \in Text
    <3>1. /\ session.client_random \in Text /\ session.server_random \in Text /\ KeyLabel \in Text
      BY <1>1, PrfAssumption
    <3> QED BY <3>1 DEF Reversed, Text
  <2> QED BY <1>1, <1>3, <2>1, ExpansionOfArguments DEF KeyCall
<1>5. /\ keys'.client_mac \o keys'.server_mac \o keys'.client_key \o keys'.server_key
           \o keys'.client_iv \o keys'.server_iv = output
      /\ Len(keys'.client_mac) = Len(keys'.server_mac) /\ Len(keys'.client_key) = Len(keys'.server_key)
  BY <1>3, SlicesOfKeyBlock DEF SliceKeyBlock
<1>6. DerivesAsInRfc'
  BY <1>1, <1>4, <1>5 DEF DerivesAsInRfc, MasterSecret, Randoms, Reversed, KeyBlockSize
<1>7. ExpansionInv'
  BY <1>1, <1>2, EmptyExpansion DEF ExpansionInv, Running
<1>8. StageInv'
  BY <1>1 DEF StageInv
<1> QED
  BY <1>6, <1>7, <1>8 DEF PrfInv

\* One turn of tls_prf, or of derive_keys around it.
LEMMA PrfStep == ASSUME Hashes, PrfInv, [Next]_vars PROVE PrfInv'
<1>1. CASE ExpandBlock BY <1>1, ExpandKeeps
<1>2. CASE DeriveMaster BY <1>2, MasterKeeps
<1>3. CASE DeriveKeyBlock BY <1>3, KeyBlockKeeps
<1>4. CASE SliceKeyBlock BY <1>4, SliceKeeps
<1>5. CASE UNCHANGED prfVars
  BY <1>5 DEF prfVars, PrfInv, ExpansionInv, StageInv, DerivesAsInRfc, Running
<1> QED
  BY <1>1, <1>2, <1>3, <1>4, <1>5 DEF Next, vars, Derive

\* What the invariant says of the output is what the RFC says.
LEMMA PrfInvAgrees == ASSUME PrfInv PROVE PrfAsInRfc
<1>1. CASE Running /\ Fits(call)
  BY <1>1 DEF PrfInv, ExpansionInv, PrfAsInRfc, ExpandsAsInRfc, Expansion
<1>2. CASE ~ Running \/ ~ Fits(call)
  <2>1. output = << >> /\ call \in Calls
    BY <1>2 DEF PrfInv, ExpansionInv
  <2>2. << >> = PRF(call.secret, << >>, call.full_seed, Len(<< >>))
    BY <2>1, EmptyExpansion DEF Expansion
  <2> QED BY <2>1, <2>2 DEF PrfInv, PrfAsInRfc, ExpandsAsInRfc
<1> QED
  BY <1>1, <1>2

\* Whatever the hash function, the secrets and the lengths are: tls_prf writes the
\* bytes of P_hash, also where a length ends within a digest, and derive_keys gets
\* from it the master secret and the six keys of RFC 5246 (prf.c:37-77,
\* handshake.c:358-415).
THEOREM Derivation == ASSUME Hashes PROVE Spec => []PrfAsInRfc
<1>1. Init => PrfInv
  BY PrfInitial
<1>2. PrfInv /\ [Next]_vars => PrfInv'
  BY PrfStep
<1>3. PrfInv => PrfAsInRfc
  BY PrfInvAgrees
<1> QED
  BY <1>1, <1>2, <1>3, PTL DEF Spec

-----------------------------------------------------------------------------
(* bn_mod_exp. *)

\* The steps of rsa_decrypt_pkcs1 leave the numbers alone.
LEMMA StripKeeps == ASSUME BigNumInv, Strip PROVE BigNumInv'
<1>1. /\ pc = "done" /\ pc' \in {"accepted", "rejected"}
      /\ ct' = ct /\ base' = base /\ exp' = exp /\ mod' = mod /\ result' = result /\ b' = b /\ i' = i
      /\ dividend' = dividend /\ remainder' = remainder /\ bit' = bit
  BY DEF Strip
<1>2. ExponentInv'
  BY <1>1 DEF ExponentInv
<1> QED
  BY <1>1, <1>2 DEF BigNumInv, NumbersOK, TooLong, Sized, RemainderOfWhatCameDown

\* Every step of the key exchange keeps what bn_mod_exp computes: its own steps,
\* those of rsa_decrypt_pkcs1 and those that leave the numbers alone.
LEMMA BigNumStep == ASSUME BigNumInv, [Next]_vars PROVE BigNumInv'
<1>1. CASE ModExp BY <1>1, ModExpKeeps
<1>2. CASE Strip BY <1>2, StripKeeps
<1>3. CASE UNCHANGED bnVars BY <1>3, OthersKeep
<1> QED
  BY <1>1, <1>2, <1>3 DEF Next, vars, Decrypt, rsaVars

\* The inductive invariant of bn_mod_exp holds of every key exchange.
LEMMA BigNumAlways == Spec => []BigNumInv
<1>1. Init => BigNumInv
  BY ModExpBegins DEF Init, RsaInit, RsaIdle
<1>2. BigNumInv /\ [Next]_vars => BigNumInv'
  BY BigNumStep
<1> QED
  BY <1>1, <1>2, PTL DEF Spec

\* Whatever the width of the words and the operands are: every turn of bn_divmod
\* leaves the remainder of the part of the dividend that has come down
\* (bignum.c:218-265).
THEOREM Division == Spec => []RemainderOfWhatCameDown
<1>1. BigNumInv => RemainderOfWhatCameDown
  BY DEF BigNumInv
<1> QED
  BY <1>1, BigNumAlways, PTL

\* So does every turn of bn_mod_exp leave the power for the bits of the exponent
\* that it has seen, and it returns the power of the base (bignum.c:272-320); the
\* carries of fast_bn_mul_words and bn_shl1 and the borrows of bn_sub are all kept.
THEOREM Exponentiation == Spec => []PowerOfTheBitsSeen
<1> QED
  BY BigNumInvAgrees, BigNumAlways, PTL

-----------------------------------------------------------------------------
(* rsa_decrypt_pkcs1. *)

Byte == 0 .. BYTE - 1

\* Sequences of bytes, as functions.
LEMMA BytesAreSequences ==
  ASSUME NEW n \in Nat, NEW S, NEW s \in [1 .. n -> S]
  PROVE  s \in Seq(S) /\ Len(s) = n
OBVIOUS

\* What the first bytes are worth, from one byte to the next.
LEMMA NumbersProperties ==
  ASSUME NEW n \in Nat, NEW s \in [1 .. n -> Byte]
  PROVE  /\ Numbers(s)[0] = 0 /\ Number(s) = Numbers(s)[n]
         /\ \A k \in 0 .. n - 1 : Numbers(s)[k + 1] = Numbers(s)[k] * BYTE + s[k + 1]
         /\ \A k \in 0 .. n : Numbers(s)[k] \in Nat
<1> DEFINE F == [k \in Nat |-> [v \in Nat |-> IF k \in 0 .. n - 1 THEN v * BYTE + s[k + 1] ELSE v]]
           Solves(f) == f = [k \in 0 .. n |-> IF k = 0 THEN 0 ELSE f[k - 1] * BYTE + s[k]]
           number == Numbers(s)
<1>0. Len(s) = n /\ BYTE \in Nat /\ \A k \in 0 .. n - 1 : s[k + 1] \in Nat
  <2>1. ASSUME NEW k \in 0 .. n - 1 PROVE s[k + 1] \in Byte
    BY k + 1 \in 1 .. n
  <2> QED BY <2>1, BytesAreSequences, Sizes DEF Byte
<1>1. F \in [Nat -> [Nat -> Nat]]
  <2>1. ASSUME NEW k \in 0 .. n - 1, NEW v \in Nat PROVE v * BYTE + s[k + 1] \in Nat
    <3>1. PICK B \in Nat, c \in Nat : B = BYTE /\ c = s[k + 1]
      BY <1>0
    <3> QED BY <3>1
  <2> QED BY <2>1
<1>2. PICK f \in [0 .. n -> Nat] : f[0] = 0 /\ \A k \in 0 .. n - 1 : f[k + 1] = F[k][f[k]]
  <2> HIDE DEF F
  <2>1. \E f \in [0 .. n -> Nat] : Begins(f, n, 0, F)
    BY <1>1, 0 \in Nat, BeginningExists
  <2> QED BY <2>1 DEF Begins
<1>3. ASSUME NEW k \in 0 .. n - 1 PROVE f[k + 1] = f[k] * BYTE + s[k + 1]
  BY <1>2, k \in Nat, f[k] \in Nat
<1> HIDE DEF F
<1>4. Solves(f)
  <2>1. ASSUME NEW k \in 0 .. n, k # 0 PROVE f[k] = f[k - 1] * BYTE + s[k]
    <3>1. k - 1 \in 0 .. n - 1 /\ (k - 1) + 1 = k
      BY <2>1
    <3> QED BY <1>3, <3>1
  <2> QED BY <1>2, <2>1
<1>5. Solves(number)
  <2>1. number = CHOOSE g : Solves(g)
    BY <1>0 DEF Numbers
  <2> HIDE DEF Solves, number
  <2> QED BY <1>4, <2>1
<1> HIDE DEF number
<1>6. number[0] = 0
  BY <1>5
<1>7. ASSUME NEW k \in 0 .. n - 1 PROVE number[k + 1] = number[k] * BYTE + s[k + 1]
  <2>1. k + 1 \in 0 .. n /\ k + 1 # 0 /\ (k + 1) - 1 = k
    OBVIOUS
  <2>2. number[k + 1] = number[(k + 1) - 1] * BYTE + s[k + 1]
    BY <1>5, <2>1
  <2> QED BY <2>1, <2>2
<1>8. \A k \in 0 .. n : number[k] \in Nat
  <2> DEFINE T == {j \in 0 .. n : number[j] \in Nat}
  <2>1. 0 \in T
    BY <1>6
  <2>2. ASSUME NEW k \in 0 .. n - 1, k \in T PROVE k + 1 \in T
    <3>1. PICK B \in Nat, c \in Nat, v \in Nat : B = BYTE /\ c = s[k + 1] /\ v = number[k]
      BY <1>0, <2>2
    <3>2. v * B + c \in Nat
      OBVIOUS
    <3>3. number[k + 1] = number[k] * BYTE + s[k + 1]
      BY <1>7
    <3> QED BY <3>1, <3>2, <3>3
  <2> HIDE DEF T
  <2>3. \A k \in 0 .. n : k \in T
    BY <2>1, <2>2, InductionTo
  <2> QED BY <2>3 DEF T
<1> QED
  BY <1>0, <1>6, <1>7, <1>8 DEF Number, number

\* Bytes are determined by their number.
LEMMA NumberDetermines ==
  ASSUME NEW n \in Nat, NEW s \in [1 .. n -> Byte], NEW t \in [1 .. n -> Byte], Number(s) = Number(t)
  PROVE  s = t
<1>1. ASSUME NEW k \in 0 .. n - 1, Numbers(s)[k + 1] = Numbers(t)[k + 1]
      PROVE  Numbers(s)[k] = Numbers(t)[k] /\ s[k + 1] = t[k + 1]
  <2>1. k + 1 \in 1 .. n /\ k \in 0 .. n
    OBVIOUS
  <2>0. PICK B \in Nat \ {0} : B = BYTE
    BY Sizes
  <2>2. PICK x \in Nat, y \in Nat, c \in 0 .. B - 1, d \in 0 .. B - 1 :
          x = Numbers(s)[k] /\ y = Numbers(t)[k] /\ c = s[k + 1] /\ d = t[k + 1]
    <3>1. BYTE \in Nat \ {0} /\ s[k + 1] \in 0 .. BYTE - 1 /\ t[k + 1] \in 0 .. BYTE - 1
      BY <2>1, Sizes DEF Byte
    <3>2. Numbers(s)[k] \in Nat /\ Numbers(t)[k] \in Nat
      BY <2>1, NumbersProperties
    <3> QED BY <2>0, <3>1, <3>2
  <2>3. x * B + c = y * B + d
    <3>1. Numbers(s)[k + 1] = Numbers(s)[k] * BYTE + s[k + 1]
      BY NumbersProperties
    <3>2. Numbers(t)[k + 1] = Numbers(t)[k] * BYTE + t[k + 1]
      BY NumbersProperties
    <3> QED BY <1>1, <2>0, <2>2, <3>1, <3>2
  <2>4. PICK v \in Int : v = x * B + c
    OBVIOUS
  <2>5. v \div B = x /\ v % B = c
    BY <2>4, x \in Int, DivisionUnique
  <2>6. v \div B = y /\ v % B = d
    BY <2>3, <2>4, y \in Int, DivisionUnique
  <2> QED BY <2>2, <2>5, <2>6
<1> DEFINE T == {j \in 0 .. n : Numbers(s)[n - j] = Numbers(t)[n - j]}
<1>2. 0 \in T
  <2>1. n - 0 = n
    OBVIOUS
  <2> QED BY <2>1, NumbersProperties
<1>3. ASSUME NEW j \in 0 .. n - 1, j \in T PROVE j + 1 \in T
  <2>1. PICK k \in 0 .. n - 1 : k = n - (j + 1) /\ k + 1 = n - j
    OBVIOUS
  <2> QED BY <1>1, <1>3, <2>1
<1>4. \A j \in 0 .. n : j \in T
  <2> HIDE DEF T
  <2> QED BY <1>2, <1>3, InductionTo
<1>5. ASSUME NEW w \in 1 .. n PROVE s[w] = t[w]
  <2>1. PICK j \in 0 .. n : j = n - w
    OBVIOUS
  <2>2. n - j = w /\ w - 1 \in 0 .. n - 1 /\ (w - 1) + 1 = w
    BY <2>1
  <2>3. Numbers(s)[w] = Numbers(t)[w]
    BY <1>4, <2>2
  <2> QED BY <1>1, <2>2, <2>3
<1> QED
  BY <1>5

\* The bytes of a number that fits into them are worth that number (bn_to_bytes).
LEMMA NumberOfBytes ==
  ASSUME NEW num, Canonical(num), NEW n \in Nat, Value(num) < TwoTo[ByteBits * n]
  PROVE  bn_to_bytes(num, n) \in [1 .. n -> Byte] /\ Number(bn_to_bytes(num, n)) = Value(num)
<1> DEFINE s == bn_to_bytes(num, n)
           Rest(w) == Value(num) \div TwoTo[ByteBits * (n - w)]
<1>0. Value(num) \in Nat /\ BYTE \in Nat
  BY CanonicalValue, Sizes
<1>1. ASSUME NEW w \in 1 .. n PROVE s[w] = ByteOf(num, n - w) /\ s[w] \in Byte
  <2>1. n - w \in Nat
    OBVIOUS
  <2>2. s[w] = ByteOf(num, n - w)
    BY DEF bn_to_bytes, ByteOf
  <2> QED BY <2>1, <2>2, ByteDown DEF Byte
<1>2. s \in [1 .. n -> Byte]
  <2>1. s = [w \in 1 .. n |-> s[w]]
    BY DEF bn_to_bytes
  <2> HIDE DEF s
  <2> QED BY <1>1, <2>1
<1> HIDE DEF s
<1> DEFINE T == {w \in 0 .. n : Numbers(s)[w] = Rest(w)}
<1>3. 0 \in T
  <2>1. TwoTo[ByteBits * n] \in Nat \ {0}
    <3>1. ByteBits * n \in Nat
      BY Sizes
    <3> QED BY <3>1, TwoToProperties
  <2>2. Value(num) \div TwoTo[ByteBits * n] = 0
    BY <1>0, <2>1, NoQuotient
  <2>3. n - 0 = n
    OBVIOUS
  <2> QED BY <1>2, <2>2, <2>3, NumbersProperties
<1>4. ASSUME NEW w \in 0 .. n - 1, w \in T PROVE w + 1 \in T
  <2>1. PICK m \in Nat : m = n - (w + 1) /\ m + 1 = n - w
    OBVIOUS
  <2>2. Rest(w + 1) = BYTE * Rest(w) + ByteOf(num, m)
    <3>1. Value(num) \div TwoTo[ByteBits * m] = BYTE * (Value(num) \div TwoTo[ByteBits * (m + 1)]) + ByteOf(num, m)
      BY ByteDown
    <3> QED BY <2>1, <3>1
  <2>3. Numbers(s)[w + 1] = Rest(w) * BYTE + ByteOf(num, m)
    <3>1. w + 1 \in 1 .. n
      OBVIOUS
    <3>2. s[w + 1] = ByteOf(num, m)
      BY <1>1, <2>1, <3>1
    <3> QED BY <1>2, <1>4, <3>2, NumbersProperties
  <2>4. Rest(w) \in Nat
    <3>1. Numbers(s)[w] \in Nat
      BY <1>2, w \in 0 .. n, NumbersProperties
    <3> QED BY <1>4, <3>1
  <2> HIDE DEF Rest
  <2>5. BYTE * Rest(w) = Rest(w) * BYTE
    BY <1>0, <2>4
  <2>6. w + 1 \in 0 .. n
    OBVIOUS
  <2> QED BY <2>2, <2>3, <2>5, <2>6
<1>5. \A w \in 0 .. n : w \in T
  <2> HIDE DEF T
  <2> QED BY <1>3, <1>4, InductionTo
<1>6. Numbers(s)[n] = Value(num) \div TwoTo[ByteBits * (n - n)]
  BY <1>5
<1>7. Value(num) \div TwoTo[ByteBits * (n - n)] = Value(num)
  <2>1. ByteBits * (n - n) = 0 /\ TwoTo[0] = 1
    BY Sizes, TwoToProperties
  <2>2. PICK v \in Nat : v = Value(num)
    BY <1>0
  <2>3. v = v * 1 + 0 /\ v \in Int /\ 0 \in 0 .. 1 - 1 /\ 1 \in Nat \ {0}
    OBVIOUS
  <2>4. v \div 1 = v
    BY <2>3, DivisionUnique
  <2> QED BY <2>1, <2>2, <2>4
<1> QED
  BY <1>2, <1>6, <1>7, NumbersProperties DEF s

\* The first zero behind the block type; Len(s) + 1 if there is none.
LEMMA SeparatorProperties ==
  ASSUME NEW n \in Nat, n >= 2, NEW s \in [1 .. n -> Byte]
  PROVE  /\ Separator(s) \in 3 .. n + 1
         /\ Separator(s) <= n => s[Separator(s)] = 0
         /\ \A j \in 3 .. Separator(s) - 1 : s[j] # 0
<1> DEFINE T == {k \in 3 .. n : s[k] = 0} \cup {n + 1}
<1>1. Separator(s) = Min(T)
  BY BytesAreSequences DEF Separator
<1>2. T \in SUBSET Nat /\ T # {}
  OBVIOUS
<1>3. PICK l \in T : \A m \in T : l <= m
  <2> HIDE DEF T
  <2> QED BY <1>2, LeastNumber
<1>4. Min(T) \in T /\ \A m \in T : Min(T) <= m
  <2> HIDE DEF T
  <2> QED BY <1>3 DEF Min
<1>5. PICK x : x = Separator(s)
  OBVIOUS
<1>6. x \in 3 .. n + 1 /\ (x <= n => s[x] = 0)
  BY <1>1, <1>4, <1>5
<1>7. ASSUME NEW j \in 3 .. x - 1, s[j] = 0 PROVE FALSE
  <2>1. j \in T
    BY <1>6, <1>7
  <2>2. x <= j
    BY <1>1, <1>4, <1>5, <2>1
  <2> QED BY <1>6, <2>2
<1> QED
  BY <1>5, <1>6, <1>7

\* What a sequence made of two has.
LEMMA Joined ==
  ASSUME NEW S, NEW x \in Seq(S), NEW y \in Seq(S)
  PROVE  /\ x \o y \in Seq(S) /\ Len(x \o y) = Len(x) + Len(y)
         /\ \A j \in 1 .. Len(x) : (x \o y)[j] = x[j]
         /\ \A j \in 1 .. Len(y) : (x \o y)[Len(x) + j] = y[j]
<1>1. Len(x) \in Nat /\ Len(y) \in Nat
  OBVIOUS
<1>2. x \o y \in Seq(S) /\ Len(x \o y) = Len(x) + Len(y)
  BY ConcatProperties
<1>3. \A j \in 1 .. Len(x) : (x \o y)[j] = x[j]
  BY <1>1, ConcatProperties
<1>4. ASSUME NEW j \in 1 .. Len(y) PROVE (x \o y)[Len(x) + j] = y[j]
  <2>1. Len(x) + j \in 1 .. Len(x) + Len(y) /\ ~ (Len(x) + j <= Len(x)) /\ (Len(x) + j) - Len(x) = j
    BY <1>1
  <2>2. (x \o y)[Len(x) + j] = IF Len(x) + j <= Len(x) THEN x[Len(x) + j] ELSE y[(Len(x) + j) - Len(x)]
    BY <2>1, ConcatProperties
  <2> QED BY <2>1, <2>2
<1> QED
  BY <1>2, <1>3, <1>4

\* Padding and data of n bytes.
Padding(k) == [1 .. k -> 1 .. BYTE - 1]
Data(k) == [1 .. k -> Byte]

\* Where the parts of a block are.
LEMMA BlockBytes ==
  ASSUME NEW k \in Nat, NEW l \in Nat, NEW padding \in Padding(k), NEW data \in Data(l)
  PROVE  /\ Block(padding, data) \in [1 .. k + l + 3 -> Byte]
         /\ Block(padding, data)[1] = 0 /\ Block(padding, data)[2] = BLOCK_TYPE
         /\ \A j \in 1 .. k : Block(padding, data)[2 + j] = padding[j]
         /\ Block(padding, data)[k + 3] = 0
         /\ \A j \in 1 .. l : Block(padding, data)[k + 3 + j] = data[j]
<1>0. BYTE \in Nat /\ BYTE >= 2 /\ BLOCK_TYPE \in Byte /\ 0 \in Byte
  BY Sizes, RsaAssumption DEF Byte
<1> DEFINE head == <<0, BLOCK_TYPE>>
           zero == <<0>>
           first == head \o padding
           second == first \o zero
           all == second \o data
<1>1. /\ padding \in Seq(Byte) /\ Len(padding) = k /\ data \in Seq(Byte) /\ Len(data) = l
      /\ \A j \in 1 .. k : padding[j] \in Byte
  <2>1. padding \in [1 .. k -> Byte]
    BY <1>0 DEF Padding, Byte
  <2> QED BY <2>1, BytesAreSequences DEF Data
<1>2. head \in Seq(Byte) /\ Len(head) = 2 /\ head[1] = 0 /\ head[2] = BLOCK_TYPE
  BY <1>0
<1>3. zero \in Seq(Byte) /\ Len(zero) = 1 /\ zero[1] = 0
  BY <1>0
<1> HIDE DEF head, zero
<1>4. /\ first \in Seq(Byte) /\ Len(first) = 2 + k
      /\ \A j \in 1 .. 2 : first[j] = head[j]
      /\ \A j \in 1 .. k : first[2 + j] = padding[j]
  <2>1. /\ first \in Seq(Byte) /\ Len(first) = Len(head) + Len(padding)
        /\ \A j \in 1 .. Len(head) : first[j] = head[j]
        /\ \A j \in 1 .. Len(padding) : first[Len(head) + j] = padding[j]
    <3>1. head \in Seq(Byte) /\ padding \in Seq(Byte)
      BY <1>1, <1>2
    <3> HIDE DEF first
    <3>2. first = head \o padding
      BY DEF first
    <3> QED BY <3>1, <3>2, Joined
  <2> HIDE DEF first
  <2> QED BY <1>1, <1>2, <2>1
<1> HIDE DEF first
<1>5. /\ second \in Seq(Byte) /\ Len(second) = 2 + k + 1
      /\ \A j \in 1 .. 2 + k : second[j] = first[j]
      /\ second[k + 3] = 0
  <2>0. /\ second \in Seq(Byte) /\ Len(second) = Len(first) + Len(zero)
        /\ \A j \in 1 .. Len(first) : second[j] = first[j]
        /\ \A j \in 1 .. Len(zero) : second[Len(first) + j] = zero[j]
    <3>1. first \in Seq(Byte) /\ zero \in Seq(Byte)
      BY <1>3, <1>4
    <3> HIDE DEF second
    <3>2. second = first \o zero
      BY DEF second
    <3> QED BY <3>1, <3>2, Joined
  <2> HIDE DEF second
  <2>1. /\ second \in Seq(Byte) /\ Len(second) = (2 + k) + 1
        /\ \A j \in 1 .. 2 + k : second[j] = first[j]
        /\ \A j \in 1 .. 1 : second[(2 + k) + j] = zero[j]
    BY <1>3, <1>4, <2>0
  <2>2. second[(2 + k) + 1] = zero[1]
    BY <2>1, 1 \in 1 .. 1
  <2>3. (2 + k) + 1 = k + 3
    OBVIOUS
  <2> QED BY <1>3, <2>1, <2>2, <2>3
<1> HIDE DEF second
<1>6. /\ all \in Seq(Byte) /\ Len(all) = k + l + 3
      /\ \A j \in 1 .. k + 3 : all[j] = second[j]
      /\ \A j \in 1 .. l : all[k + 3 + j] = data[j]
  <2>1. Len(second) = k + 3 /\ (k + 3) + l = k + l + 3
    BY <1>5
  <2>2. /\ all \in Seq(Byte) /\ Len(all) = Len(second) + Len(data)
        /\ \A j \in 1 .. Len(second) : all[j] = second[j]
        /\ \A j \in 1 .. Len(data) : all[Len(second) + j] = data[j]
    <3>1. second \in Seq(Byte) /\ data \in Seq(Byte)
      BY <1>1, <1>5
    <3> HIDE DEF all
    <3>2. all = second \o data
      BY DEF all
    <3> QED BY <3>1, <3>2, Joined
  <2> HIDE DEF all
  <2> QED BY <1>1, <2>1, <2>2
<1>7. all = Block(padding, data)
  BY DEF Block, all, second, first, head, zero
<1> HIDE DEF all
<1>8. all \in [1 .. k + l + 3 -> Byte]
  BY <1>6
<1>9. all[1] = 0 /\ all[2] = BLOCK_TYPE /\ all[k + 3] = 0
  <2>1. {1, 2} \subseteq 1 .. 2 /\ {1, 2} \subseteq 1 .. 2 + k /\ {1, 2, k + 3} \subseteq 1 .. k + 3
    OBVIOUS
  <2> QED BY <1>2, <1>4, <1>5, <1>6, <2>1
<1>10. ASSUME NEW j \in 1 .. k PROVE all[2 + j] = padding[j]
  <2>1. 2 + j \in 1 .. 2 + k /\ 2 + j \in 1 .. k + 3
    OBVIOUS
  <2> QED BY <1>4, <1>5, <1>6, <2>1
<1> QED
  BY <1>6, <1>7, <1>8, <1>9, <1>10

\* The blocks a client may have encrypted: n bytes, worth v, with data that fits.
BlocksOf(n, v) ==
  {block \in UNION {Padding(k) \X Data(n - 3 - k) : k \in MIN_PADDING .. n - 3} :
     Number(Block(block[1], block[2])) = v /\ Len(block[2]) <= PT_MAX}
DataOf(s, n) == SubSeq(s, Separator(s) + 1, n)

\* The data behind the separator.
LEMMA DataProperties ==
  ASSUME NEW n \in Nat, n >= 2, NEW s \in [1 .. n -> Byte], Separator(s) <= n
  PROVE  /\ DataOf(s, n) \in Data(n - Separator(s)) /\ Len(DataOf(s, n)) = n - Separator(s)
         /\ \A j \in 1 .. n - Separator(s) : DataOf(s, n)[j] = s[Separator(s) + j]
<1>1. PICK m \in 3 .. n : m = Separator(s)
  BY SeparatorProperties
<1>2. DataOf(s, n) = [j \in 1 .. n - m |-> s[m + j]]
  <2>1. DataOf(s, n) = SubSeq(s, m + 1, n)
    BY <1>1 DEF DataOf
  <2>2. s \in Seq(Byte) /\ Len(s) = n
    BY BytesAreSequences
  <2>3. m + 1 \in 1 .. n + 1 /\ n \in m .. n
    OBVIOUS
  <2>4. SubSeq(s, m + 1, n) \in Seq(Byte) /\ Len(SubSeq(s, m + 1, n)) = n - (m + 1) + 1
        /\ \A j \in 1 .. n - (m + 1) + 1 : SubSeq(s, m + 1, n)[j] = s[m + 1 + j - 1]
    BY <2>2, <2>3, SubSeqProperties
  <2>5. PICK t : t = SubSeq(s, m + 1, n)
    OBVIOUS
  <2>6. t \in Seq(Byte) /\ Len(t) = n - m /\ \A j \in 1 .. n - m : t[j] = s[m + j]
    BY <2>4, <2>5
  <2>7. t = [j \in 1 .. n - m |-> t[j]]
    BY <2>6
  <2>8. t = [j \in 1 .. n - m |-> s[m + j]]
    BY <2>6, <2>7
  <2> QED BY <2>1, <2>5, <2>8
<1>3. \A j \in 1 .. n - m : s[m + j] \in Byte
  <2>1. \A j \in 1 .. n - m : m + j \in 1 .. n
    OBVIOUS
  <2> QED BY <2>1
<1>4. DataOf(s, n) \in [1 .. n - m -> Byte] /\ n - m \in Nat
  BY <1>2, <1>3
<1>5. Len(DataOf(s, n)) = n - m
  BY <1>4, BytesAreSequences
<1> QED
  BY <1>1, <1>2, <1>4, <1>5 DEF Data

\* Padded bytes with data that fits are such a block.
LEMMA BlockOfPadded ==
  ASSUME NEW n \in Nat, n >= 3 + MIN_PADDING, NEW s \in [1 .. n -> Byte], Padded(s), Len(DataOf(s, n)) <= PT_MAX
  PROVE  \E block \in BlocksOf(n, Number(s)) : DataOf(s, n) = block[2]
<1>0. MIN_PADDING \in Nat /\ Len(s) = n /\ n >= 2 /\ BYTE \in Nat /\ BYTE >= 2
  BY RsaAssumption, BytesAreSequences, Sizes
<1>1. PICK k \in MIN_PADDING .. n - 3 : k + 3 = Separator(s) /\ k \in Nat
  <2>1. Separator(s) \in 3 + MIN_PADDING .. n
    BY <1>0 DEF Padded
  <2>2. PICK k \in Int : k = Separator(s) - 3
    BY <1>0, <2>1
  <2> QED BY <1>0, <2>1, <2>2
<1>2. /\ s[1] = 0 /\ s[2] = BLOCK_TYPE /\ s[k + 3] = 0
      /\ \A j \in 3 .. (k + 3) - 1 : s[j] # 0
  BY <1>0, <1>1, SeparatorProperties DEF Padded
<1> DEFINE padding == [j \in 1 .. k |-> s[2 + j]]
<1>3. PICK l \in Nat : l = n - 3 - k /\ k + l + 3 = n /\ n - (k + 3) = l
  BY <1>0, <1>1
<1>4. PICK data : data = DataOf(s, n)
  OBVIOUS
<1>5. data \in Data(l) /\ \A j \in 1 .. l : data[j] = s[k + 3 + j]
  <2>1. Separator(s) <= n
    BY <1>0, <1>1
  <2>2. /\ DataOf(s, n) \in Data(n - Separator(s))
        /\ \A j \in 1 .. n - Separator(s) : DataOf(s, n)[j] = s[Separator(s) + j]
    BY <1>0, <2>1, DataProperties
  <2>3. n - Separator(s) = l
    BY <1>1, <1>3
  <2> QED BY <1>1, <1>4, <2>2, <2>3
<1>6. padding \in Padding(k)
  <2>1. ASSUME NEW j \in 1 .. k PROVE s[2 + j] \in 1 .. BYTE - 1
    <3>1. 2 + j \in 1 .. n /\ 2 + j \in 3 .. (k + 3) - 1
      BY <1>0, <1>1
    <3>2. s[2 + j] \in 0 .. BYTE - 1 /\ s[2 + j] # 0
      BY <1>2, <3>1 DEF Byte
    <3> QED BY <1>0, <3>2
  <2> QED BY <2>1 DEF Padding
<1>7. \A j \in 1 .. k : padding[j] = s[2 + j]
  OBVIOUS
<1> HIDE DEF padding
<1>8. PICK t : t = Block(padding, data)
  OBVIOUS
<1>9. /\ t \in [1 .. n -> Byte]
      /\ t[1] = 0 /\ t[2] = BLOCK_TYPE /\ t[k + 3] = 0
      /\ \A j \in 1 .. k : t[2 + j] = padding[j]
      /\ \A j \in 1 .. l : t[k + 3 + j] = data[j]
  <2>1. data \in Data(l)
    BY <1>5
  <2>2. /\ Block(padding, data) \in [1 .. k + l + 3 -> Byte]
        /\ Block(padding, data)[1] = 0 /\ Block(padding, data)[2] = BLOCK_TYPE
        /\ \A j \in 1 .. k : Block(padding, data)[2 + j] = padding[j]
        /\ Block(padding, data)[k + 3] = 0
        /\ \A j \in 1 .. l : Block(padding, data)[k + 3 + j] = data[j]
    BY <1>1, <1>6, <2>1, BlockBytes
  <2> QED BY <1>3, <1>8, <2>2
<1>10. ASSUME NEW w \in 1 .. n PROVE t[w] = s[w]
  <2>1. CASE w \in {1, 2, k + 3}
    BY <1>2, <1>9, <2>1
  <2>2. CASE w \in 3 .. k + 2
    <3>1. PICK j \in 1 .. k : w = 2 + j
      <4>1. w - 2 \in 1 .. k /\ w = 2 + (w - 2)
        BY <2>2
      <4> QED BY <4>1
    <3> QED BY <1>7, <1>9, <3>1
  <2>3. CASE w > k + 3
    <3>1. PICK j \in 1 .. l : w = k + 3 + j
      <4>1. w - (k + 3) \in 1 .. l /\ w = k + 3 + (w - (k + 3))
        BY <1>3, <2>3
      <4> QED BY <4>1
    <3> QED BY <1>5, <1>9, <3>1
  <2> QED BY <2>1, <2>2, <2>3
<1>11. t = s
  BY <1>9, <1>10
<1>12. <<padding, data>> \in BlocksOf(n, Number(s))
  <2>1. <<padding, data>> \in Padding(k) \X Data(n - 3 - k)
    BY <1>3, <1>5, <1>6
  <2>2. <<padding, data>> \in UNION {Padding(j) \X Data(n - 3 - j) : j \in MIN_PADDING .. n - 3}
    BY <2>1
  <2>3. <<padding, data>>[1] = padding /\ <<padding, data>>[2] = data
    OBVIOUS
  <2>4. Number(Block(padding, data)) = Number(s) /\ Len(data) <= PT_MAX
    BY <1>4, <1>8, <1>11
  <2> QED BY <2>2, <2>3, <2>4 DEF BlocksOf
<1> QED
  BY <1>4, <1>12

\* The bytes of such a block are padded, and its data is what is behind the
\* separator.
LEMMA PaddedOfBlock ==
  ASSUME NEW n \in Nat, NEW s \in [1 .. n -> Byte], NEW block \in BlocksOf(n, Number(s))
  PROVE  n >= 3 + MIN_PADDING /\ Padded(s) /\ Len(DataOf(s, n)) <= PT_MAX
<1>0. MIN_PADDING \in Nat /\ Len(s) = n /\ BYTE \in Nat /\ BYTE >= 2
  BY RsaAssumption, BytesAreSequences, Sizes
<1>1. PICK k \in MIN_PADDING .. n - 3 : block \in Padding(k) \X Data(n - 3 - k)
  <2>1. block \in UNION {Padding(k) \X Data(n - 3 - k) : k \in MIN_PADDING .. n - 3}
    BY DEF BlocksOf
  <2> QED BY <2>1
<1>2. PICK padding \in Padding(k), data \in Data(n - 3 - k) : padding = block[1] /\ data = block[2]
  BY <1>1
<1>3. PICK l \in Nat : l = n - 3 - k /\ k + l + 3 = n /\ k \in Nat /\ n >= 3 + MIN_PADDING /\ n >= 2
  BY <1>0, <1>1
<1>4. Number(Block(padding, data)) = Number(s) /\ Len(data) <= PT_MAX
  BY <1>2 DEF BlocksOf
<1>5. PICK t : t = Block(padding, data)
  OBVIOUS
<1>6. /\ t \in [1 .. n -> Byte]
      /\ t[1] = 0 /\ t[2] = BLOCK_TYPE /\ t[k + 3] = 0
      /\ \A j \in 1 .. k : t[2 + j] = padding[j]
  BY <1>3, <1>5, BlockBytes
<1>7. t = s
  BY <1>4, <1>5, <1>6, NumberDetermines
<1>8. Separator(s) = k + 3
  <2>1. PICK m \in 3 .. n + 1 : /\ m = Separator(s) /\ (m <= n => s[m] = 0)
                                 /\ \A j \in 3 .. m - 1 : s[j] # 0
    BY <1>3, SeparatorProperties
  <2>2. ~ (m > k + 3)
    <3> SUFFICES ASSUME m > k + 3 PROVE FALSE
      OBVIOUS
    <3>1. k + 3 \in 3 .. m - 1
      BY <1>3
    <3> QED BY <1>6, <1>7, <2>1, <3>1
  <2>3. ~ (m < k + 3)
    <3> SUFFICES ASSUME m < k + 3 PROVE FALSE
      OBVIOUS
    <3>1. PICK j \in 1 .. k : m = 2 + j
      <4>1. m - 2 \in 1 .. k /\ m = 2 + (m - 2)
        BY <1>3
      <4> QED BY <4>1
    <3>2. padding[j] \in 1 .. BYTE - 1
      BY DEF Padding
    <3>3. s[m] = padding[j] /\ s[m] = 0
      BY <1>3, <1>6, <1>7, <2>1, <3>1
    <3> QED BY <1>0, <3>2, <3>3
  <2> QED BY <1>3, <2>1, <2>2, <2>3
<1>9. Padded(s)
  BY <1>0, <1>1, <1>3, <1>6, <1>7, <1>8 DEF Padded
<1>10. Len(DataOf(s, n)) = l /\ Len(data) = l
  <2>1. Len(DataOf(s, n)) = n - Separator(s)
    <3>1. Separator(s) <= n
      BY <1>3, <1>8
    <3> QED BY <1>3, <3>1, DataProperties
  <2>2. Len(data) = n - 3 - k
    <3>1. data \in [1 .. l -> Byte]
      BY <1>3 DEF Data
    <3> QED BY <1>3, <3>1, BytesAreSequences
  <2> QED BY <1>3, <1>8, <2>1, <2>2
<1> QED
  BY <1>3, <1>4, <1>9, <1>10

\* The size of the key in bytes has room for every number below the modulus.
LEMMA KeyBytes ==
  ASSUME NEW m, Canonical(m), NEW n, n = (bn_bit_length(m) + ByteBits - 1) \div ByteBits
  PROVE  n \in Nat /\ Value(m) < TwoTo[ByteBits * n]
<1>0. /\ ByteBits \in Nat \ {0} /\ bn_bit_length(m) \in Nat /\ Value(m) < TwoTo[bn_bit_length(m)]
      /\ Value(m) \in Nat
  BY Sizes, BitLength, CanonicalValue
<1>1. PICK l \in Nat, t \in Nat : l = bn_bit_length(m) /\ t = l + ByteBits - 1
  BY <1>0
<1>2. n = t \div ByteBits
  BY <1>1
<1>3. PICK q \in Nat, r \in 0 .. ByteBits - 1 : q = n /\ t = q * ByteBits + r
  <2>1. t \div ByteBits \in Nat /\ t % ByteBits \in 0 .. ByteBits - 1 /\ t = (t \div ByteBits) * ByteBits + (t % ByteBits)
    BY <1>0, t \in Int, DivisionNat, DivisionExists
  <2> QED BY <1>2, <2>1
<1>4. PICK k \in Nat : k = ByteBits * q /\ l <= k
  <2>1. ByteBits * q \in Nat /\ ByteBits * q = q * ByteBits
    BY <1>0
  <2>2. PICK k \in Nat : k = ByteBits * q
    BY <2>1
  <2>3. t = k + r /\ t = l + ByteBits - 1
    BY <1>1, <1>3, <2>1, <2>2
  <2>4. l <= k
    BY <1>0, <2>3
  <2> QED BY <2>2, <2>4
<1>5. TwoTo[l] <= TwoTo[k] /\ TwoTo[l] \in Nat /\ TwoTo[k] \in Nat
  BY <1>4, TwoToGrows, TwoToProperties
<1> QED
  BY <1>0, <1>1, <1>3, <1>4, <1>5

\* PaddingDecides, with the blocks named.
Decided ==
  pc \in {"accepted", "rejected"} =>
    /\ ~ TooLong(ct)
    /\ pc = "accepted" <=> BlocksOf(key_bytes, Value(result)) # {} /\ key_bytes <= DECRYPTED_SIZE
    /\ pc = "accepted" => \E block \in BlocksOf(key_bytes, Value(result)) : pt = block[2]

\* The two say the same: a block is what makes Blocks in PaddingDecides.
LEMMA PaddingIsDecided == Decided <=> PaddingDecides
BY DEF Decided, PaddingDecides, BlocksOf, Padding, Data, Byte

\* What bn_mod_exp returns is below the modulus.
LEMMA ResultIsLess ==
  ASSUME BigNumInv, pc = "done"
  PROVE  Canonical(result) /\ Canonical(mod) /\ Value(result) \in Nat /\ Value(mod) \in Nat /\ Value(result) < Value(mod)
<1>1. /\ Canonical(result) /\ Canonical(mod) /\ Canonical(base) /\ Canonical(exp) /\ Sized /\ ResultFor(i)
      /\ i \in 0 .. bn_bit_length(exp)
  BY DEF BigNumInv, NumbersOK, ExponentInv
<1>2. /\ Value(base) \in Nat /\ Value(exp) \in Nat /\ Value(mod) \in Nat /\ Value(mod) > 1 /\ Value(result) \in Nat
      /\ i \in Nat
  BY <1>1, CanonicalValue, BitLength DEF Sized
<1>3. PICK e \in Nat : e = Value(exp) % TwoTo[i]
  <2>1. TwoTo[i] \in Nat \ {0}
    BY <1>2, TwoToProperties
  <2>2. Value(exp) % TwoTo[i] \in 0 .. TwoTo[i] - 1
    BY <1>2, <2>1, Value(exp) \in Int, DivisionExists
  <2> QED BY <2>1, <2>2
<1>4. PICK x \in Nat, m \in Nat : x = Value(base) /\ m = Value(mod) /\ m > 1
  BY <1>2
<1>5. Powers(x, m)[e] \in 0 .. m - 1
  BY <1>4, PowersProperties
<1>6. Value(result) = Powers(x, m)[e]
  BY <1>1, <1>3, <1>4 DEF ResultFor, PowerMod
<1> QED
  BY <1>1, <1>2, <1>4, <1>5, <1>6

\* The scan of the padding decides rightly.
LEMMA StripDecides == ASSUME BigNumInv, Strip PROVE Decided'
<1> DEFINE s == bn_to_bytes(result, key_bytes)
<1>0. pc = "done" /\ ct' = ct /\ result' = result /\ mod' = mod
  BY DEF Strip
<1>0a. ~ TooLong(ct)'
  BY <1>0 DEF BigNumInv, NumbersOK, TooLong
<1>1. Canonical(result) /\ Canonical(mod) /\ Value(result) \in Nat /\ Value(mod) \in Nat /\ Value(result) < Value(mod)
  BY <1>0, ResultIsLess
<1>2. PICK n : n = key_bytes
  OBVIOUS
<1>3. n \in Nat /\ Value(mod) < TwoTo[ByteBits * n]
  BY <1>1, <1>2, KeyBytes DEF key_bytes
<1>4. Value(result) < TwoTo[ByteBits * n]
  <2>1. TwoTo[ByteBits * n] \in Nat
    <3>1. ByteBits * n \in Nat
      BY <1>3, Sizes
    <3> QED BY <3>1, TwoToProperties
  <2> QED BY <1>1, <1>3, <2>1
<1>5. s \in [1 .. n -> Byte] /\ Number(s) = Value(result)
  BY <1>1, <1>2, <1>3, <1>4, NumberOfBytes
<1>6. PICK ok \in BOOLEAN :
        /\ ok <=> (n \in 3 + MIN_PADDING .. DECRYPTED_SIZE /\ Padded(s) /\ Len(DataOf(s, n)) <= PT_MAX)
        /\ ok => pc' = "accepted" /\ pt' = DataOf(s, n)
        /\ ~ ok => pc' = "rejected"
  BY <1>2 DEF Strip, DataOf
<1> HIDE DEF s
<1>7. n \in 3 + MIN_PADDING .. DECRYPTED_SIZE <=> n >= 3 + MIN_PADDING /\ n <= DECRYPTED_SIZE
  <2>1. MIN_PADDING \in Nat /\ DECRYPTED_SIZE \in Nat
    BY RsaAssumption
  <2> QED BY <1>3, <2>1
<1>8. ok <=> BlocksOf(n, Value(result)) # {} /\ n <= DECRYPTED_SIZE
  <2>1. ASSUME ok PROVE BlocksOf(n, Value(result)) # {} /\ n <= DECRYPTED_SIZE
    <3>1. n >= 3 + MIN_PADDING /\ n <= DECRYPTED_SIZE /\ Padded(s) /\ Len(DataOf(s, n)) <= PT_MAX
      BY <1>6, <1>7, <2>1
    <3> QED BY <1>3, <1>5, <3>1, BlockOfPadded
  <2>2. ASSUME BlocksOf(n, Value(result)) # {}, n <= DECRYPTED_SIZE PROVE ok
    <3>1. PICK block : block \in BlocksOf(n, Number(s))
      BY <1>5, <2>2
    <3>2. n >= 3 + MIN_PADDING /\ Padded(s) /\ Len(DataOf(s, n)) <= PT_MAX
      BY <1>3, <1>5, <3>1, PaddedOfBlock
    <3> QED BY <1>6, <1>7, <2>2, <3>2
  <2> QED BY <2>1, <2>2
<1>9. ASSUME ok PROVE \E block \in BlocksOf(n, Value(result)) : pt' = block[2]
  <2>1. n >= 3 + MIN_PADDING /\ Padded(s) /\ Len(DataOf(s, n)) <= PT_MAX
    BY <1>6, <1>7, <1>9
  <2> QED BY <1>3, <1>5, <1>6, <1>9, <2>1, BlockOfPadded
<1>10. key_bytes' = n /\ Value(result)' = Value(result)
  BY <1>0, <1>2 DEF key_bytes
<1>11. pc' = "accepted" <=> ok
  BY <1>6
<1> QED
  BY <1>0a, <1>8, <1>9, <1>10, <1>11 DEF Decided

\* Whatever the key is, and for every ciphertext that fits the array of words: the
\* caller gets the data of a padded block exactly if the power is one, and the rest
\* is refused (rsa.c:101-163).  No longer ciphertext gets as far: TypeCorrect says
\* that it ends as undefined.
THEOREM Decryption == Spec => []PaddingDecides
<1>1. Init => Decided
  BY DEF Init, RsaInit, RsaIdle, ModExpInit, ModExpIdle, Decided
<1>2. BigNumInv /\ Decided /\ [Next]_vars => Decided'
  <2> SUFFICES ASSUME BigNumInv, Decided, [Next]_vars PROVE Decided'
    OBVIOUS
  <2>1. CASE Strip
    BY <2>1, StripDecides
  <2>2. CASE UNCHANGED <<pc, ct, pt, mod, result>>
    <3>1. key_bytes' = key_bytes
      BY <2>2 DEF key_bytes
    <3> QED BY <2>2, <3>1 DEF Decided, TooLong
  <2>3. CASE ReadBase \/ Reduced \/ Multiply \/ SquareAfterMultiply \/ SquareOnly \/ Squared \/ Return
    <3>1. pc' \notin {"accepted", "rejected"}
      BY <2>3 DEF ReadBase, Reduced, Multiply, SquareAfterMultiply, SquareOnly, Squared, Return
    <3> QED BY <3>1 DEF Decided
  <2>4. CASE DivideBit /\ UNCHANGED pt
    BY <2>2, <2>4 DEF DivideBit
  <2> QED BY <2>1, <2>2, <2>3, <2>4 DEF Next, vars, rsaVars, bnVars, Decrypt, ModExp
<1> QED
  BY <1>1, <1>2, BigNumAlways, PaddingIsDecided, PTL DEF Spec

-----------------------------------------------------------------------------
(* rsa_load_private_key: how key files are made. *)

\* Three sequences in a row.
LEMMA ThreeParts ==
  ASSUME NEW S, NEW s \in Seq(S), NEW t \in Seq(S), NEW u \in Seq(S)
  PROVE  /\ s \o t \o u \in Seq(S) /\ Len(s \o t \o u) = Len(s) + Len(t) + Len(u)
         /\ \A j \in 1 .. Len(s) : (s \o t \o u)[j] = s[j]
         /\ \A j \in 1 .. Len(t) : (s \o t \o u)[Len(s) + j] = t[j]
         /\ \A j \in 1 .. Len(u) : (s \o t \o u)[Len(s) + Len(t) + j] = u[j]
<1>1. PICK v \in Seq(S) : v = s \o t
  BY ConcatProperties
<1>2. Len(v) = Len(s) + Len(t) /\ \A j \in 1 .. Len(s) + Len(t) : v[j] = IF j <= Len(s) THEN s[j] ELSE t[j - Len(s)]
  BY <1>1, ConcatProperties
<1>3. PICK w \in Seq(S) : w = v \o u
  BY ConcatProperties
<1>4. Len(w) = Len(v) + Len(u) /\ \A j \in 1 .. Len(v) + Len(u) : w[j] = IF j <= Len(v) THEN v[j] ELSE u[j - Len(v)]
  BY <1>3, ConcatProperties
<1>5. Len(s) \in Nat /\ Len(t) \in Nat /\ Len(u) \in Nat
  OBVIOUS
<1>6. ASSUME NEW j \in 1 .. Len(s) PROVE w[j] = s[j]
  <2>1. j \in 1 .. Len(v) + Len(u) /\ j <= Len(v) /\ j \in 1 .. Len(s) + Len(t) /\ j <= Len(s)
    BY <1>2, <1>5
  <2>2. w[j] = v[j] /\ v[j] = s[j]
    BY <1>2, <1>4, <2>1
  <2> QED BY <2>2
<1>7. ASSUME NEW j \in 1 .. Len(t) PROVE w[Len(s) + j] = t[j]
  <2>1. PICK k \in Nat : k = Len(s) + j
    BY <1>5
  <2>2. k \in 1 .. Len(v) /\ k \in 1 .. Len(v) + Len(u) /\ ~ (k <= Len(s)) /\ k - Len(s) = j /\ k <= Len(v)
    BY <1>2, <1>5, <2>1
  <2>3. w[k] = v[k] /\ v[k] = t[k - Len(s)]
    BY <1>2, <1>4, <2>2
  <2> QED BY <2>1, <2>2, <2>3
<1>8. ASSUME NEW j \in 1 .. Len(u) PROVE w[Len(s) + Len(t) + j] = u[j]
  <2>1. PICK k \in Nat : k = Len(s) + Len(t) + j
    BY <1>5
  <2>2. k \in 1 .. Len(v) + Len(u) /\ ~ (k <= Len(v)) /\ k - Len(v) = j
    BY <1>2, <1>5, <2>1
  <2>3. w[k] = u[k - Len(v)]
    BY <1>4, <2>2
  <2> QED BY <2>1, <2>2, <2>3
<1>9. w = s \o t \o u
  BY <1>1, <1>3
<1>10. Len(w) = Len(s) + Len(t) + Len(u)
  BY <1>2, <1>4
<1> QED
  BY <1>6, <1>7, <1>8, <1>9, <1>10

\* A bound like any other, for all but this.
LEMMA TwoBytesIsNat == TwoBytes \in Nat
BY DEF TwoBytes

\* Lengths take one to three bytes.
LEMMA DerLengthProperties ==
  ASSUME NEW n \in Nat
  PROVE  /\ DerLength(n) \in Seq(Nat) /\ Len(DerLength(n)) \in 1 .. 3
         /\ n < TwoBytes => DerLength(n) \in Seq(Octet)
<1>1. CASE n < 128
  <2>1. DerLength(n) = <<n>> /\ n \in Octet /\ Octet \subseteq Nat
    BY <1>1 DEF DerLength, Octet
  <2> QED BY <2>1
<1>2. CASE n >= 128 /\ n < 256
  <2>1. DerLength(n) = <<129, n>> /\ 129 \in Octet /\ n \in Octet /\ Octet \subseteq Nat
    BY <1>2 DEF DerLength, Octet
  <2> QED BY <2>1
<1>3. CASE n >= 256
  <2>1. n \div 256 \in Nat /\ n % 256 \in Octet
    BY DEF Octet
  <2>2. n < TwoBytes => n \div 256 \in Octet
    BY DEF Octet, TwoBytes
  <2>3. DerLength(n) = <<130, n \div 256, n % 256>>
    BY <1>3 DEF DerLength
  <2>4. 130 \in Octet /\ Octet \subseteq Nat
    BY DEF Octet
  <2> QED BY <2>1, <2>2, <2>3, <2>4
<1> QED
  BY <1>1, <1>2, <1>3

\* A number as its bytes, without leading zeros.
Magnitude == {x \in Seq(Octet) : x # << >> => x[1] # 0}
Content(x) == IF x = << >> \/ x[1] >= 128 THEN <<0>> \o x ELSE x

\* What is left of the content without one leading zero is the number.
LEMMA ContentProperties ==
  ASSUME NEW x \in Magnitude
  PROVE  /\ Content(x) \in Seq(Octet) /\ Len(Content(x)) >= 1
         /\ (IF Len(Content(x)) > 0 /\ Content(x)[1] = 0 THEN Tail(Content(x)) ELSE Content(x)) = x
<1>0. x \in Seq(Octet) /\ (x # << >> => x[1] # 0 /\ x[1] \in Octet /\ Len(x) >= 1)
  BY DEF Magnitude
<1>1. CASE x = << >> \/ x[1] >= 128
  <2>1. PICK c : c = <<0>> \o x
    OBVIOUS
  <2>2. <<0>> \in Seq(Octet) /\ Len(<<0>>) = 1 /\ <<0>>[1] = 0
    BY DEF Octet
  <2>3. c \in Seq(Octet) /\ Len(c) = 1 + Len(x) /\ \A j \in 1 .. 1 + Len(x) : c[j] = IF j <= 1 THEN <<0>>[j] ELSE x[j - 1]
    <3>1. PICK z : z = <<0>>
      OBVIOUS
    <3>2. z \in Seq(Octet) /\ Len(z) = 1
      BY <2>2, <3>1
    <3>3. z \o x \in Seq(Octet) /\ Len(z \o x) = Len(z) + Len(x)
          /\ \A j \in 1 .. Len(z) + Len(x) : (z \o x)[j] = IF j <= Len(z) THEN z[j] ELSE x[j - Len(z)]
      BY <1>0, <3>2, ConcatProperties
    <3> QED BY <2>1, <3>1, <3>2, <3>3
  <2>4. c[1] = 0 /\ c # << >> /\ Len(x) \in Nat
    BY <1>0, <2>2, <2>3
  <2>5. PICK t : t = Tail(c)
    OBVIOUS
  <2>6. t \in Seq(Octet) /\ Len(t) = Len(c) - 1 /\ \A j \in 1 .. Len(t) : t[j] = c[j + 1]
    BY <2>3, <2>4, <2>5, HeadTailProperties
  <2>7. Len(t) = Len(x) /\ \A j \in 1 .. Len(t) : t[j] = x[j]
    <3>1. Len(t) = Len(x)
      BY <2>3, <2>4, <2>6
    <3>2. ASSUME NEW j \in 1 .. Len(t) PROVE t[j] = x[j]
      <4>1. j + 1 \in 1 .. 1 + Len(x) /\ ~ (j + 1 <= 1) /\ (j + 1) - 1 = j
        BY <2>4, <3>1
      <4>2. c[j + 1] = x[(j + 1) - 1]
        BY <2>3, <4>1
      <4> QED BY <2>6, <4>1, <4>2
    <3> QED BY <3>1, <3>2
  <2>8. t = x
    BY <1>0, <2>6, <2>7, SeqEqual
  <2>9. Content(x) = c
    BY <1>1, <2>1 DEF Content
  <2> QED BY <2>3, <2>4, <2>5, <2>8, <2>9
<1>2. CASE ~ (x = << >> \/ x[1] >= 128)
  BY <1>0, <1>2 DEF Content
<1> QED
  BY <1>1, <1>2

\* An encoded number: its tag, the length and the content.
LEMMA DerIntegerProperties ==
  ASSUME NEW x \in Magnitude
  PROVE  LET length == DerLength(Len(Content(x)))
             e == DerInteger(x)
         IN /\ e \in Seq(Nat) /\ Len(e) = 1 + Len(length) + Len(Content(x))
            /\ Len(e) < TwoBytes => e \in Seq(Octet)
            /\ e[1] = INTEGER
            /\ \A j \in 1 .. Len(length) : e[1 + j] = length[j]
            /\ \A j \in 1 .. Len(Content(x)) : e[1 + Len(length) + j] = Content(x)[j]
<1>1. PICK c \in Seq(Octet) : c = Content(x)
  BY ContentProperties
<1>2. PICK l \in Seq(Nat) : l = DerLength(Len(c)) /\ (Len(c) < TwoBytes => l \in Seq(Octet))
  BY DerLengthProperties
<1>3. PICK z : z = <<INTEGER>>
  OBVIOUS
<1>4. z \in Seq(Nat) /\ z \in Seq(Octet) /\ Len(z) = 1 /\ z[1] = INTEGER
  BY <1>3 DEF INTEGER, Octet
<1>5. c \in Seq(Nat)
  <2>1. Octet \subseteq Nat
    BY DEF Octet
  <2> QED BY <2>1, SeqMonotonic
<1>6. PICK e : e = z \o l \o c
  OBVIOUS
<1>7. /\ e \in Seq(Nat) /\ Len(e) = Len(z) + Len(l) + Len(c)
      /\ \A j \in 1 .. Len(z) : e[j] = z[j]
      /\ \A j \in 1 .. Len(l) : e[Len(z) + j] = l[j]
      /\ \A j \in 1 .. Len(c) : e[Len(z) + Len(l) + j] = c[j]
  <2>1. /\ z \o l \o c \in Seq(Nat) /\ Len(z \o l \o c) = Len(z) + Len(l) + Len(c)
        /\ \A j \in 1 .. Len(z) : (z \o l \o c)[j] = z[j]
        /\ \A j \in 1 .. Len(l) : (z \o l \o c)[Len(z) + j] = l[j]
        /\ \A j \in 1 .. Len(c) : (z \o l \o c)[Len(z) + Len(l) + j] = c[j]
    <3>1. z \in Seq(Nat) /\ l \in Seq(Nat) /\ c \in Seq(Nat)
      BY <1>4, <1>5
    <3> QED BY <3>1, ThreeParts
  <2> QED BY <1>6, <2>1
<1>8. ASSUME Len(e) < TwoBytes PROVE e \in Seq(Octet)
  <2>1. Len(c) < TwoBytes
    BY <1>4, <1>7, <1>8, TwoBytesIsNat
  <2>2. l \in Seq(Octet)
    BY <1>2, <2>1
  <2> QED BY <1>1, <1>4, <1>6, <2>2, ThreeParts
<1>9. e = DerInteger(x)
  BY <1>1, <1>2, <1>3, <1>6 DEF DerInteger, Content
<1>10. e[1] = INTEGER
  BY <1>4, <1>7
<1>11. DerLength(Len(Content(x))) = l
  BY <1>1, <1>2
<1>12. \A j \in 1 .. Len(l) : e[1 + j] = l[j]
  BY <1>4, <1>7
<1>13. \A j \in 1 .. Len(c) : e[1 + Len(l) + j] = c[j]
  BY <1>4, <1>7
<1>14. Len(e) = 1 + Len(l) + Len(c)
  BY <1>4, <1>7
<1> QED
  BY <1>1, <1>7, <1>8, <1>9, <1>10, <1>11, <1>12, <1>13, <1>14

\* The encodings of the first numbers: each begins with those before it.
LEMMA DerNumbersProperties ==
  ASSUME NEW s \in Seq(Magnitude)
  PROVE  /\ DerNumbers(s)[0] = << >>
         /\ \A k \in 0 .. Len(s) : DerNumbers(s)[k] \in Seq(Nat)
         /\ \A k \in 0 .. Len(s) - 1 : DerNumbers(s)[k + 1] = DerNumbers(s)[k] \o DerInteger(s[k + 1])
<1>a. PICK n \in Nat : n = Len(s)
  OBVIOUS
<1> DEFINE F == [k \in Nat |-> [v \in Seq(Nat) |-> IF k \in 0 .. n - 1 THEN v \o DerInteger(s[k + 1]) ELSE v]]
           Solves(f) == f = [k \in 0 .. n |-> IF k = 0 THEN << >> ELSE f[k - 1] \o DerInteger(s[k])]
           body == DerNumbers(s)
<1>0. ASSUME NEW k \in 0 .. n - 1 PROVE DerInteger(s[k + 1]) \in Seq(Nat)
  <2>1. k + 1 \in 1 .. Len(s)
    BY <1>a
  <2>2. s[k + 1] \in Magnitude
    BY <2>1, ElementOfSeq
  <2> QED BY <2>2, DerIntegerProperties
<1>1. F \in [Nat -> [Seq(Nat) -> Seq(Nat)]]
  BY <1>0
<1>2. PICK f \in [0 .. n -> Seq(Nat)] : f[0] = << >> /\ \A k \in 0 .. n - 1 : f[k + 1] = F[k][f[k]]
  <2>1. << >> \in Seq(Nat)
    OBVIOUS
  <2> HIDE DEF F
  <2>2. \E f \in [0 .. n -> Seq(Nat)] : Begins(f, n, << >>, F)
    BY <1>0, <1>1, <2>1, BeginningExists
  <2> QED BY <2>2 DEF Begins
<1>3. ASSUME NEW k \in 0 .. n - 1 PROVE f[k + 1] = f[k] \o DerInteger(s[k + 1])
  <2>1. k \in Nat /\ k \in 0 .. n
    OBVIOUS
  <2>2. f[k] \in Seq(Nat)
    BY <1>2, <2>1
  <2> QED BY <1>0, <1>2, <2>1, <2>2
<1> HIDE DEF F
<1>4. Solves(f)
  <2>1. ASSUME NEW k \in 0 .. n, k # 0 PROVE f[k] = f[k - 1] \o DerInteger(s[k])
    <3>1. k - 1 \in 0 .. n - 1 /\ (k - 1) + 1 = k
      BY <1>0, <2>1
    <3> QED BY <1>3, <3>1
  <2> QED BY <1>2, <2>1
<1>5. Solves(body)
  <2>1. body = CHOOSE g : Solves(g)
    BY <1>a DEF DerNumbers
  <2> HIDE DEF Solves, body
  <2> QED BY <1>4, <2>1
<1> HIDE DEF body
<1>6. body[0] = << >>
  BY <1>0, <1>5
<1>7. ASSUME NEW k \in 0 .. n - 1 PROVE body[k + 1] = body[k] \o DerInteger(s[k + 1])
  <2>1. k + 1 \in 0 .. n /\ k + 1 # 0 /\ (k + 1) - 1 = k
    BY <1>0
  <2>2. body[k + 1] = body[(k + 1) - 1] \o DerInteger(s[k + 1])
    BY <1>5, <2>1
  <2> QED BY <2>1, <2>2
<1>8. \A k \in 0 .. n : body[k] \in Seq(Nat)
  <2> DEFINE T == {k \in 0 .. n : body[k] \in Seq(Nat)}
  <2>1. 0 \in T
    <3>1. << >> \in Seq(Nat) /\ 0 \in 0 .. n
      OBVIOUS
    <3> QED BY <1>6, <3>1
  <2>2. ASSUME NEW k \in 0 .. n - 1, k \in T PROVE k + 1 \in T
    <3>1. DerInteger(s[k + 1]) \in Seq(Nat)
      BY <1>0
    <3>2. body[k] \o DerInteger(s[k + 1]) \in Seq(Nat)
      BY <2>2, <3>1, ConcatProperties
    <3>3. body[k + 1] = body[k] \o DerInteger(s[k + 1])
      BY <1>7
    <3>4. k + 1 \in 0 .. n
      OBVIOUS
    <3> QED BY <3>2, <3>3, <3>4
  <2> HIDE DEF T
  <2>3. \A k \in 0 .. n : k \in T
    BY <2>1, <2>2, InductionTo
  <2> QED BY <2>3 DEF T
<1> QED
  BY <1>6, <1>7, <1>8, <1>a DEF body

\* In particular they grow, and what is written stays.
LEMMA DerNumbersGrow ==
  ASSUME NEW s \in Seq(Magnitude), NEW m \in 0 .. Len(s)
  PROVE  \A k \in 0 .. m : /\ Len(DerNumbers(s)[k]) <= Len(DerNumbers(s)[m])
                           /\ \A j \in 1 .. Len(DerNumbers(s)[k]) : DerNumbers(s)[m][j] = DerNumbers(s)[k][j]
<1> DEFINE Holds(m_) == \A k \in 0 .. m_ : /\ Len(DerNumbers(s)[k]) <= Len(DerNumbers(s)[m_])
                           /\ \A j \in 1 .. Len(DerNumbers(s)[k]) : DerNumbers(s)[m_][j] = DerNumbers(s)[k][j]
           T == {n \in 0 .. Len(s) : Holds(n)}
<1>0. Len(s) \in Nat
  OBVIOUS
<1>1. 0 \in T
  <2>1. \A k \in 0 .. 0 : k = 0
    OBVIOUS
  <2>2. Len(DerNumbers(s)[0]) \in Int
    BY DerNumbersProperties, <1>0
  <2> QED BY <1>0, <2>1, <2>2
<1>2. ASSUME NEW n \in 0 .. Len(s) - 1, n \in T PROVE n + 1 \in T
  <2>0. n \in 0 .. Len(s)
    OBVIOUS
  <2>1. PICK v \in Seq(Nat) : v = DerNumbers(s)[n]
    BY <2>0, DerNumbersProperties
  <2>2. PICK w : w = DerNumbers(s)[n + 1]
    OBVIOUS
  <2>3. PICK e \in Seq(Nat) : e = DerInteger(s[n + 1])
    <3>1. s[n + 1] \in Magnitude
      BY <1>0, n + 1 \in 1 .. Len(s), ElementOfSeq
    <3> QED BY <3>1, DerIntegerProperties
  <2>4. w = v \o e
    BY <2>1, <2>2, <2>3, DerNumbersProperties
  <2>5. /\ Len(w) = Len(v) + Len(e)
        /\ \A j \in 1 .. Len(v) + Len(e) : w[j] = IF j <= Len(v) THEN v[j] ELSE e[j - Len(v)]
    BY <2>4, ConcatProperties
  <2>6. Len(v) \in Nat /\ Len(e) \in Nat
    OBVIOUS
  <2>7. Len(v) <= Len(w) /\ \A j \in 1 .. Len(v) : w[j] = v[j]
    BY <2>5, <2>6
  <2>8. ASSUME NEW k \in 0 .. n + 1
        PROVE  /\ Len(DerNumbers(s)[k]) <= Len(w)
               /\ \A j \in 1 .. Len(DerNumbers(s)[k]) : w[j] = DerNumbers(s)[k][j]
    <3>1. CASE k = n + 1
      BY <2>2, <2>5, <2>6, <3>1
    <3>2. CASE k <= n
      <4>0. k \in 0 .. Len(s)
        BY <3>2
      <4>1. PICK u \in Seq(Nat) : u = DerNumbers(s)[k]
        BY <4>0, DerNumbersProperties
      <4>2. k \in 0 .. n
        BY <3>2
      <4>3. Len(u) <= Len(v) /\ \A j \in 1 .. Len(u) : v[j] = u[j]
        BY <1>2, <2>1, <4>1, <4>2
      <4>4. Len(u) \in Nat
        OBVIOUS
      <4> QED BY <2>5, <2>6, <2>7, <4>1, <4>3, <4>4
    <3> QED BY <3>1, <3>2
  <2>9. n + 1 \in 0 .. Len(s)
    BY <1>0
  <2> QED BY <2>2, <2>8, <2>9
<1> HIDE DEF T
<1>3. \A n \in 0 .. Len(s) : n \in T
  BY <1>0, <1>1, <1>2, InductionTo
<1> QED
  BY <1>3 DEF T

Whole(s) == DerNumbers(s)[Len(s)]
Short(s) == Len(Whole(s)) < TwoBytes

\* Where an encoded number lies in the whole.
LEMMA NumberInWhole ==
  ASSUME NEW s \in Seq(Magnitude), NEW m \in 0 .. Len(s) - 1
  PROVE  /\ s[m + 1] \in Magnitude
         /\ DerNumbers(s)[m + 1] = DerNumbers(s)[m] \o DerInteger(s[m + 1])
         /\ Len(DerNumbers(s)[m + 1]) = Len(DerNumbers(s)[m]) + Len(DerInteger(s[m + 1]))
         /\ Len(DerNumbers(s)[m + 1]) <= Len(Whole(s))
         /\ \A j \in 1 .. Len(DerInteger(s[m + 1])) : Whole(s)[Len(DerNumbers(s)[m]) + j] = DerInteger(s[m + 1])[j]
<1>1. s[m + 1] \in Magnitude
  <2>1. m + 1 \in 1 .. Len(s)
    OBVIOUS
  <2> QED BY <2>1, ElementOfSeq
<1>2. PICK v \in Seq(Nat) : v = DerNumbers(s)[m]
  <2>1. m \in 0 .. Len(s)
    OBVIOUS
  <2> QED BY <2>1, DerNumbersProperties
<1>3. PICK e \in Seq(Nat) : e = DerInteger(s[m + 1])
  BY <1>1, DerIntegerProperties
<1>4. DerNumbers(s)[m + 1] = v \o e
  BY <1>2, <1>3, DerNumbersProperties
<1>5. PICK w : w = v \o e
  OBVIOUS
<1>6. /\ Len(w) = Len(v) + Len(e)
      /\ \A j \in 1 .. Len(v) + Len(e) : w[j] = IF j <= Len(v) THEN v[j] ELSE e[j - Len(v)]
  BY <1>5, ConcatProperties
<1>7. Len(v) \in Nat /\ Len(e) \in Nat
  OBVIOUS
<1>8. /\ Len(w) <= Len(Whole(s))
      /\ \A j \in 1 .. Len(w) : Whole(s)[j] = w[j]
  <2>1. Len(s) \in 0 .. Len(s) /\ m + 1 \in 0 .. Len(s)
    OBVIOUS
  <2>2. DerNumbers(s)[m + 1] = w
    BY <1>4, <1>5
  <2>3. \A k \in 0 .. Len(s) : /\ Len(DerNumbers(s)[k]) <= Len(DerNumbers(s)[Len(s)])
                               /\ \A j \in 1 .. Len(DerNumbers(s)[k]) : DerNumbers(s)[Len(s)][j] = DerNumbers(s)[k][j]
    BY <2>1, DerNumbersGrow
  <2> QED BY <2>1, <2>2, <2>3 DEF Whole
<1>9. ASSUME NEW j \in 1 .. Len(e) PROVE Whole(s)[Len(v) + j] = e[j]
  <2>1. PICK k \in Nat : k = Len(v) + j
    BY <1>7
  <2>2. k \in 1 .. Len(w) /\ ~ (k <= Len(v)) /\ k - Len(v) = j /\ k \in 1 .. Len(v) + Len(e)
    BY <1>6, <1>7, <2>1
  <2>3. Whole(s)[k] = w[k] /\ w[k] = e[k - Len(v)]
    BY <1>6, <1>8, <2>2
  <2> QED BY <2>1, <2>2, <2>3
<1> QED
  BY <1>1, <1>2, <1>3, <1>4, <1>5, <1>6, <1>8, <1>9

\* What is encoded are octets, as long as no length takes more than two.
LEMMA WholeIsOctets ==
  ASSUME NEW s \in Seq(Magnitude), Short(s)
  PROVE  Whole(s) \in Seq(Octet)
<1> DEFINE T == {m \in 0 .. Len(s) : DerNumbers(s)[m] \in Seq(Octet)}
<1>0. Len(s) \in Nat
  OBVIOUS
<1>1. 0 \in T
  <2>1. << >> \in Seq(Octet) /\ 0 \in 0 .. Len(s)
    BY <1>0
  <2>2. DerNumbers(s)[0] = << >>
    BY DerNumbersProperties
  <2> QED BY <2>1, <2>2
<1>2. ASSUME NEW m \in 0 .. Len(s) - 1, m \in T PROVE m + 1 \in T
  <2>1. PICK v \in Seq(Octet) : v = DerNumbers(s)[m]
    BY <1>2
  <2>2. PICK e \in Seq(Nat) : e = DerInteger(s[m + 1]) /\ (Len(e) < TwoBytes => e \in Seq(Octet))
    <3>1. s[m + 1] \in Magnitude
      BY NumberInWhole
    <3> QED BY <3>1, DerIntegerProperties
  <2>3. Len(e) < TwoBytes
    <3>0. Len(DerNumbers(s)[m + 1]) = Len(DerNumbers(s)[m]) + Len(DerInteger(s[m + 1])) /\ Len(DerNumbers(s)[m + 1]) <= Len(Whole(s))
      BY NumberInWhole
    <3>1. Len(DerNumbers(s)[m + 1]) = Len(v) + Len(e) /\ Len(DerNumbers(s)[m + 1]) <= Len(Whole(s))
      BY <2>1, <2>2, <3>0
    <3>2. Len(v) \in Nat /\ Len(e) \in Nat
      OBVIOUS
    <3>3. Len(Whole(s)) \in Nat
      <4>1. Len(s) \in 0 .. Len(s)
        BY <1>0
      <4>2. Whole(s) \in Seq(Nat)
        BY <4>1, DerNumbersProperties DEF Whole
      <4> QED BY <4>2
    <3> QED BY <3>1, <3>2, <3>3, TwoBytesIsNat DEF Short
  <2>4. v \o e \in Seq(Octet)
    BY <2>2, <2>3, ConcatProperties
  <2>5. DerNumbers(s)[m + 1] = v \o e
    <3>1. DerNumbers(s)[m + 1] = DerNumbers(s)[m] \o DerInteger(s[m + 1])
      BY NumberInWhole
    <3> QED BY <2>1, <2>2, <3>1
  <2>6. m + 1 \in 0 .. Len(s)
    OBVIOUS
  <2> QED BY <2>4, <2>5, <2>6
<1> HIDE DEF T
<1>3. \A m \in 0 .. Len(s) : m \in T
  BY <1>0, <1>1, <1>2, InductionTo
<1>4. Len(s) \in 0 .. Len(s)
  BY <1>0
<1> QED
  BY <1>3, <1>4 DEF T, Whole

\* Where the m-th number of a key begins.
Place(s, m) == 1 + Len(DerLength(Len(Whole(s)))) + Len(DerNumbers(s)[m])

\* A key's encoding: the tag, the length, and the numbers at their places.
LEMMA DerKeyProperties ==
  ASSUME NEW s \in Seq(Magnitude), Short(s)
  PROVE  /\ DerKey(s) \in Seq(Octet) /\ DerKey(s)[1] = SEQUENCE
         /\ Len(Whole(s)) \in Nat /\ Len(DerKey(s)) = 1 + Len(DerLength(Len(Whole(s)))) + Len(Whole(s))
         /\ \A j \in 1 .. Len(DerLength(Len(Whole(s)))) : DerKey(s)[1 + j] = DerLength(Len(Whole(s)))[j]
         /\ \A m \in 0 .. Len(s) : Place(s, m) \in Nat /\ Place(s, m) <= Len(DerKey(s))
         /\ \A m \in 0 .. Len(s) - 1 : \A j \in 1 .. Len(DerInteger(s[m + 1])) :
              DerKey(s)[Place(s, m) + j] = DerInteger(s[m + 1])[j]
<1>1. PICK w \in Seq(Octet) : w = Whole(s)
  BY WholeIsOctets
<1>2. Len(w) \in Nat /\ Len(w) < TwoBytes
  BY <1>1 DEF Short
<1>3. PICK l \in Seq(Octet) : l = DerLength(Len(w)) /\ Len(l) \in 1 .. 3
  BY <1>2, DerLengthProperties
<1>4. PICK z : z = <<SEQUENCE>>
  OBVIOUS
<1>5. z \in Seq(Octet) /\ Len(z) = 1 /\ z[1] = SEQUENCE
  BY <1>4 DEF SEQUENCE, Octet
<1>6. PICK e : e = z \o l \o w
  OBVIOUS
<1>7. /\ e \in Seq(Octet) /\ Len(e) = Len(z) + Len(l) + Len(w)
      /\ \A j \in 1 .. Len(z) : e[j] = z[j]
      /\ \A j \in 1 .. Len(l) : e[Len(z) + j] = l[j]
      /\ \A j \in 1 .. Len(w) : e[Len(z) + Len(l) + j] = w[j]
  <2>1. /\ z \o l \o w \in Seq(Octet) /\ Len(z \o l \o w) = Len(z) + Len(l) + Len(w)
        /\ \A j \in 1 .. Len(z) : (z \o l \o w)[j] = z[j]
        /\ \A j \in 1 .. Len(l) : (z \o l \o w)[Len(z) + j] = l[j]
        /\ \A j \in 1 .. Len(w) : (z \o l \o w)[Len(z) + Len(l) + j] = w[j]
    <3>1. z \in Seq(Octet) /\ l \in Seq(Octet) /\ w \in Seq(Octet)
      BY <1>5
    <3> QED BY <3>1, ThreeParts
  <2> QED BY <1>6, <2>1
<1>8. e = DerKey(s)
  BY <1>1, <1>3, <1>4, <1>6 DEF DerKey, Whole
<1>9. /\ Len(e) = 1 + Len(l) + Len(w) /\ e[1] = SEQUENCE
      /\ \A j \in 1 .. Len(l) : e[1 + j] = l[j]
      /\ \A j \in 1 .. Len(w) : e[1 + Len(l) + j] = w[j]
  BY <1>5, <1>7
<1>10. ASSUME NEW m \in 0 .. Len(s)
       PROVE  Place(s, m) = 1 + Len(l) + Len(DerNumbers(s)[m]) /\ Len(DerNumbers(s)[m]) \in Nat /\ Len(DerNumbers(s)[m]) <= Len(w)
  <2>1. Place(s, m) = 1 + Len(l) + Len(DerNumbers(s)[m])
    BY <1>1, <1>3 DEF Place
  <2>2. DerNumbers(s)[m] \in Seq(Nat)
    BY DerNumbersProperties
  <2>3. Len(DerNumbers(s)[m]) <= Len(DerNumbers(s)[Len(s)])
    <3>1. Len(s) \in 0 .. Len(s)
      OBVIOUS
    <3> QED BY <3>1, DerNumbersGrow
  <2> QED BY <1>1, <2>1, <2>2, <2>3 DEF Whole
<1>11. ASSUME NEW m \in 0 .. Len(s) PROVE Place(s, m) \in Nat /\ Place(s, m) <= Len(e)
  <2>1. PICK k \in Nat : k = Len(DerNumbers(s)[m])
    BY <1>10
  <2>2. Place(s, m) = 1 + Len(l) + k /\ k <= Len(w)
    BY <1>10, <2>1
  <2> QED BY <1>2, <1>3, <1>9, <2>2
<1>12. ASSUME NEW m \in 0 .. Len(s) - 1, NEW j \in 1 .. Len(DerInteger(s[m + 1]))
       PROVE  e[Place(s, m) + j] = DerInteger(s[m + 1])[j]
  <2>0. m \in 0 .. Len(s)
    OBVIOUS
  <2>1. PICK k \in Nat : k = Len(DerNumbers(s)[m])
    BY <1>10, <2>0
  <2>2. Place(s, m) = 1 + Len(l) + k
    BY <1>10, <2>0, <2>1
  <2>3. PICK g \in Seq(Nat) : g = DerInteger(s[m + 1])
    <3>1. s[m + 1] \in Magnitude
      BY NumberInWhole
    <3> QED BY <3>1, DerIntegerProperties
  <2>4. k + Len(g) <= Len(w) /\ \A h \in 1 .. Len(g) : w[k + h] = g[h]
    <3>1. /\ Len(DerNumbers(s)[m + 1]) = Len(DerNumbers(s)[m]) + Len(DerInteger(s[m + 1]))
          /\ Len(DerNumbers(s)[m + 1]) <= Len(Whole(s))
          /\ \A h \in 1 .. Len(DerInteger(s[m + 1])) : Whole(s)[Len(DerNumbers(s)[m]) + h] = DerInteger(s[m + 1])[h]
      BY NumberInWhole
    <3> QED BY <1>1, <2>1, <2>3, <3>1
  <2>5. PICK h \in 1 .. Len(w) : h = k + j
    <3>1. j \in 1 .. Len(g) /\ Len(g) \in Nat
      BY <2>3
    <3>2. k + j \in 1 .. Len(w)
      BY <1>2, <2>1, <2>4, <3>1
    <3> QED BY <3>2
  <2>6. e[1 + Len(l) + h] = w[h]
    BY <1>9
  <2>7. 1 + Len(l) + h = Place(s, m) + j
    BY <1>3, <2>2, <2>5
  <2>8. w[h] = g[j]
    BY <2>3, <2>4, <2>5
  <2> QED BY <2>3, <2>6, <2>7, <2>8
<1> QED
  BY <1>1, <1>2, <1>3, <1>7, <1>8, <1>9, <1>11, <1>12

-----------------------------------------------------------------------------
(* rsa_load_private_key: reading the numbers. *)

\* One byte, or two.
LEMMA BytesFromIs ==
  ASSUME der \in Seq(Octet), NEW k \in Nat, NEW size \in {1, 2}, k + size <= Len(der)
  PROVE  BytesFrom(k, size) = IF size = 1 THEN der[k + 1] ELSE der[k + 1] * 256 + der[k + 2]
<1>1. PICK x \in Nat : x = der[k + 1]
  <2>1. k + 1 \in 1 .. Len(der)
    OBVIOUS
  <2> QED BY <2>1, ElementOfSeq DEF Octet
<1>2. PICK y \in Nat : size = 2 => y = der[k + 2]
  <2>1. CASE size = 2
    <3>1. k + 2 \in 1 .. Len(der)
      BY <2>1
    <3>2. der[k + 2] \in Octet
      BY <3>1, ElementOfSeq
    <3>3. der[k + 2] \in Nat
      <4>1. Octet \subseteq Nat
        BY DEF Octet
      <4> QED BY <3>2, <4>1
    <3> QED BY <3>3
  <2>2. CASE size = 1
    <3>1. 0 \in Nat /\ size # 2
      BY <2>2
    <3> QED BY <3>1
  <2> QED BY <2>1, <2>2
<1> DEFINE Solves(f) == f = [j \in 0 .. size |-> IF j = 0 THEN 0 ELSE f[j - 1] * 256 + der[k + j]]
           f == [j \in 0 .. size |-> IF j = 0 THEN 0 ELSE IF j = 1 THEN x ELSE x * 256 + y]
           length == CHOOSE g : Solves(g)
<1>3. Solves(f)
  <2>1. ASSUME NEW j \in 0 .. size, j # 0 PROVE f[j] = f[j - 1] * 256 + der[k + j]
    <3>1. CASE j = 1
      <4>1. f[1] = x /\ f[0] = 0 /\ 1 - 1 = 0
        OBVIOUS
      <4> QED BY <1>1, <3>1, <4>1
    <3>2. CASE j = 2
      <4>1. size = 2 /\ f[2] = x * 256 + y /\ f[1] = x /\ 2 - 1 = 1
        BY <3>2
      <4> QED BY <1>2, <3>2, <4>1
    <3> QED BY <2>1, <3>1, <3>2
  <2>2. f[0] = 0 /\ f = [j \in 0 .. size |-> f[j]]
    OBVIOUS
  <2> HIDE DEF f
  <2> QED BY <2>1, <2>2
<1>4. Solves(length)
  <2> HIDE DEF Solves, f
  <2> QED BY <1>3
<1>5. BytesFrom(k, size) = length[size]
  BY DEF BytesFrom
<1> HIDE DEF length
<1>6. length[0] = 0 /\ length[1] = length[0] * 256 + der[k + 1]
  BY <1>4
<1>7. size = 2 => length[2] = length[1] * 256 + der[k + 2]
  BY <1>4
<1>8. length[1] = x
  BY <1>1, <1>6
<1>9. size = 2 => length[2] = x * 256 + y
  BY <1>2, <1>7, <1>8
<1> QED
  BY <1>1, <1>2, <1>5, <1>8, <1>9

\* The length of what is decoded is read, or it is not all there.
LEMMA LengthRead ==
  ASSUME NEW n \in Nat, n < TwoBytes, der \in Seq(Octet), NEW k \in Nat \ {0}, k - 1 <= Len(der),
         \A j \in 1 .. Len(DerLength(n)) : k - 1 + j <= Len(der) => der[k - 1 + j] = DerLength(n)[j]
  PROVE  asn1_read_length(k) =
           IF k - 1 + Len(DerLength(n)) <= Len(der) THEN {[length |-> n, read |-> k - 1 + Len(DerLength(n))]} ELSE {}
<1>0. PICK N \in Nat : N = Len(der)
  OBVIOUS
<1>1. CASE k > N
  <2>1. asn1_read_length(k) = {}
    BY <1>0, <1>1 DEF asn1_read_length
  <2>2. Len(DerLength(n)) \in 1 .. 3
    BY DerLengthProperties
  <2>3. ~ (k - 1 + Len(DerLength(n)) <= Len(der))
    <3>1. PICK d \in 1 .. 3 : d = Len(DerLength(n))
      BY <2>2
    <3>2. ~ (k - 1 + d <= N)
      BY <1>1
    <3> QED BY <1>0, <3>1, <3>2
  <2> QED BY <2>1, <2>3
<1>2. CASE k <= N
  <2>0. k - 1 + 1 = k /\ 1 \in 1 .. Len(DerLength(n))
    <3>1. PICK d \in 1 .. 3 : d = Len(DerLength(n))
      BY DerLengthProperties
    <3>2. k - 1 + 1 = k /\ 1 \in 1 .. d
      OBVIOUS
    <3> QED BY <3>1, <3>2
  <2>1. der[k] = DerLength(n)[1]
    BY <1>0, <1>2, <2>0
  <2>2. CASE n < 128
    <3>1. DerLength(n) = <<n>>
      BY <2>2 DEF DerLength
    <3>2. der[k] = n /\ Len(DerLength(n)) = 1
      BY <2>1, <3>1
    <3>3. asn1_read_length(k) = {[length |-> n, read |-> k]}
      BY <1>0, <1>2, <2>2, <3>2 DEF asn1_read_length
    <3>4. k - 1 + Len(DerLength(n)) = k
      BY <3>2
    <3> QED BY <1>0, <1>2, <3>3, <3>4
  <2>3. ASSUME NEW size \in {1, 2}, Len(DerLength(n)) = 1 + size, DerLength(n)[1] = 128 + size,
               size = 1 => n = DerLength(n)[2], size = 2 => n = DerLength(n)[2] * 256 + DerLength(n)[3]
        PROVE  asn1_read_length(k) = IF k + size <= N THEN {[length |-> n, read |-> k + size]} ELSE {}
    <3>1. der[k] - 128 = size
      BY <2>1, <2>3
    <3>2. asn1_read_length(k) = IF size > N - k THEN {} ELSE {[length |-> BytesFrom(k, size), read |-> k + size]}
      <4>1. ~ (k > Len(der)) /\ ~ (size < 0) /\ ~ (size > 4)
        BY <1>0, <1>2
      <4>2. asn1_read_length(k) =
              IF k > Len(der) THEN {}
              ELSE IF size < 0 THEN {[length |-> der[k], read |-> k]}
              ELSE IF size > 4 \/ size > Len(der) - k THEN {}
              ELSE {[length |-> BytesFrom(k, size), read |-> k + size]}
        BY <3>1, Zenon DEF asn1_read_length
      <4> QED BY <1>0, <4>1, <4>2
    <3>3. ASSUME k + size <= N PROVE BytesFrom(k, size) = n
      <4>1. der[k + 1] = DerLength(n)[2]
        <5>1. k - 1 + 2 = k + 1 /\ 2 \in 1 .. Len(DerLength(n)) /\ k + 1 <= Len(der)
          BY <1>0, <2>3, <3>3
        <5> QED BY <5>1
      <4>2. size = 2 => der[k + 2] = DerLength(n)[3]
        <5> SUFFICES ASSUME size = 2 PROVE der[k + 2] = DerLength(n)[3]
          OBVIOUS
        <5>1. k - 1 + 3 = k + 2 /\ 3 \in 1 .. Len(DerLength(n)) /\ k + 2 <= Len(der)
          BY <1>0, <2>3, <3>3
        <5> QED BY <5>1
      <4>3. BytesFrom(k, size) = IF size = 1 THEN der[k + 1] ELSE der[k + 1] * 256 + der[k + 2]
        BY <1>0, <3>3, BytesFromIs
      <4> QED BY <2>3, <4>1, <4>2, <4>3
    <3>4. size \in Nat
      OBVIOUS
    <3>5. size > N - k <=> ~ (k + size <= N)
      BY <1>0, <3>4
    <3> QED BY <3>2, <3>3, <3>5
  <2>4. CASE n >= 128
    <3>1. PICK size \in {1, 2} : /\ Len(DerLength(n)) = 1 + size /\ DerLength(n)[1] = 128 + size
                                 /\ size = 1 => n = DerLength(n)[2]
                                 /\ size = 2 => n = DerLength(n)[2] * 256 + DerLength(n)[3]
      <4>1. CASE n < 256
        <5>1. DerLength(n) = <<129, n>>
          BY <2>4, <4>1 DEF DerLength
        <5> QED BY <5>1
      <4>2. CASE n >= 256
        <5>1. DerLength(n) = <<130, n \div 256, n % 256>>
          BY <4>2 DEF DerLength
        <5>2. n = (n \div 256) * 256 + (n % 256)
          OBVIOUS
        <5> QED BY <5>1, <5>2
      <4> QED BY <4>1, <4>2
    <3>2. asn1_read_length(k) = IF k + size <= N THEN {[length |-> n, read |-> k + size]} ELSE {}
      BY <2>3, <3>1
    <3>3. k - 1 + Len(DerLength(n)) = k + size
      BY <3>1
    <3> QED BY <1>0, <3>2, <3>3
  <2> QED BY <2>2, <2>4
<1> QED
  BY <1>0, <1>1, <1>2

\* What KeyFileAssumption says of a file.
LEMMA KeyFileProperties ==
  ASSUME NEW f \in KeyFiles
  PROVE  /\ f.numbers \in Seq(Magnitude) /\ Short(f.numbers) /\ f.lost \in Nat /\ f.width \in Nat \ {0}
         /\ f.missing \in {"nothing", "file", "begin", "newline", "end"}
<1>1. /\ f.numbers \in Seq(Seq(Octet)) /\ f.lost \in Nat /\ f.width \in Nat \ {0}
      /\ f.missing \in {"nothing", "file", "begin", "newline", "end"}
      /\ \A k \in 1 .. Len(f.numbers) : f.numbers[k] # << >> => f.numbers[k][1] # 0
      /\ Short(f.numbers)
  BY KeyFileAssumption DEF Octet, Short, Whole
<1>2. PICK s \in Seq(Seq(Octet)) : s = f.numbers
  BY <1>1
<1>3. PICK n \in Nat : n = Len(s)
  OBVIOUS
<1>4. ASSUME NEW k \in 1 .. n PROVE s[k] \in Magnitude
  <2>1. s[k] \in Seq(Octet)
    BY <1>3, ElementOfSeq
  <2>2. s[k] # << >> => s[k][1] # 0
    BY <1>1, <1>2, <1>3
  <2> QED BY <2>1, <2>2 DEF Magnitude
<1>5. s = [k \in 1 .. n |-> s[k]]
  BY <1>3
<1>6. s \in [1 .. n -> Magnitude]
  BY <1>4, <1>5
<1>7. s \in Seq(Magnitude)
  BY <1>6, BytesAreSequences
<1> QED
  BY <1>1, <1>2, <1>7

\* The buffers of rsa_load_private_key have their sizes.
LEMMA SizesAreNumbers == DER_MAX \in Nat /\ VER_MAX \in Nat /\ INT_MAX \in Nat
BY KeyFileAssumption

\* What is left of an encoding whose last bytes have been lost.
LEMMA EncodedProperties ==
  ASSUME NEW f \in KeyFiles
  PROVE  /\ Encoded(f) \in Seq(Octet) /\ Len(Encoded(f)) \in Nat /\ Len(Encoded(f)) <= Len(DerKey(f.numbers))
         /\ Len(Encoded(f)) = IF f.lost <= Len(DerKey(f.numbers)) THEN Len(DerKey(f.numbers)) - f.lost ELSE 0
         /\ \A j \in 1 .. Len(Encoded(f)) : Encoded(f)[j] = DerKey(f.numbers)[j]
<1>1. PICK e \in Seq(Octet) : e = DerKey(f.numbers)
  BY KeyFileProperties, DerKeyProperties
<1>2. PICK n \in Nat : n = Len(e)
  OBVIOUS
<1>3. PICK lost \in Nat : lost = f.lost
  BY KeyFileProperties
<1>4. PICK x : x = SubSeq(e, 1, n - lost)
  OBVIOUS
<1>5. \A j \in 1 .. n - lost : e[j] \in Octet
  <2> SUFFICES ASSUME NEW j \in 1 .. n - lost PROVE e[j] \in Octet
    OBVIOUS
  <2>1. j \in 1 .. Len(e)
    BY <1>2
  <2> QED BY <2>1, ElementOfSeq
<1>6. /\ x \in Seq(Octet) /\ Len(x) = IF 1 <= n - lost THEN n - lost - 1 + 1 ELSE 0
      /\ \A j \in 1 .. n - lost - 1 + 1 : x[j] = e[1 + j - 1]
  <2>1. n - lost \in Int /\ 1 \in Int
    OBVIOUS
  <2>2. PICK r \in Int : r = n - lost
    BY <2>1
  <2>3. \A j \in 1 .. r : e[j] \in Octet
    BY <1>5, <2>2
  <2>4. /\ SubSeq(e, 1, r) \in Seq(Octet) /\ Len(SubSeq(e, 1, r)) = IF 1 <= r THEN r - 1 + 1 ELSE 0
        /\ \A j \in 1 .. r - 1 + 1 : SubSeq(e, 1, r)[j] = e[1 + j - 1]
    BY <2>3, SubSeqProperties
  <2> QED BY <1>4, <2>2, <2>4
<1>7. Len(x) = (IF lost <= n THEN n - lost ELSE 0) /\ \A j \in 1 .. Len(x) : x[j] = e[j]
  BY <1>6
<1>8. Encoded(f) = x
  BY <1>1, <1>2, <1>3, <1>4 DEF Encoded
<1>9. Len(x) \in Nat /\ Len(x) <= n
  BY <1>7
<1> QED
  BY <1>1, <1>2, <1>3, <1>6, <1>7, <1>8, <1>9

\* The size of the buffer for the k-th number, and which files can be read: what
\* KeyAsWritten says of them.
Room(k) == IF k = 1 THEN VER_MAX ELSE INT_MAX
Readable(f) ==
  /\ f.missing = "nothing" /\ Len(f.numbers) >= 6
  /\ f.lost <= Len(Whole(f.numbers)) - Len(DerNumbers(f.numbers)[6])
  /\ Len(DerKey(f.numbers)) - f.lost <= DER_MAX
  /\ \A k \in 1 .. 6 : Len(f.numbers[k]) <= Room(k)

\* A file that can be read has its first six numbers whole.
LEMMA ReadableHolds ==
  ASSUME NEW f \in KeyFiles, Readable(f), NEW m \in 0 .. 6
  PROVE  /\ m <= Len(f.numbers) /\ Place(f.numbers, m) <= Len(Encoded(f))
         /\ f.lost <= Len(DerKey(f.numbers))
         /\ Len(Encoded(f)) <= DER_MAX
<1>1. PICK s \in Seq(Magnitude) : s = f.numbers
  BY KeyFileProperties
<1>2. Short(s)
  BY <1>1, KeyFileProperties
<1>3. PICK w \in Nat : w = Len(Whole(s))
  BY <1>2, DerKeyProperties
<1>4. PICK h \in Nat : h = 1 + Len(DerLength(Len(Whole(s))))
  BY <1>3, DerLengthProperties
<1>5. Len(DerKey(s)) = h + w
  BY <1>2, <1>3, <1>4, DerKeyProperties
<1>6. 6 \in 0 .. Len(s) /\ m \in 0 .. Len(s)
  BY <1>1 DEF Readable
<1>7. PICK d \in Nat, g \in Nat : d = Len(DerNumbers(s)[6]) /\ g = Len(DerNumbers(s)[m]) /\ g <= d
  <2>1. DerNumbers(s)[6] \in Seq(Nat) /\ DerNumbers(s)[m] \in Seq(Nat)
    BY <1>6, DerNumbersProperties
  <2>2. Len(DerNumbers(s)[m]) <= Len(DerNumbers(s)[6])
    BY <1>6, DerNumbersGrow
  <2> QED BY <2>1, <2>2
<1>8. PICK lost \in Nat : lost = f.lost
  BY KeyFileProperties
<1>9. lost <= w - d /\ h + w - lost <= DER_MAX
  <2>1. f.lost <= Len(Whole(f.numbers)) - Len(DerNumbers(f.numbers)[6]) /\ Len(DerKey(f.numbers)) - f.lost <= DER_MAX
    BY DEF Readable
  <2>2. lost <= Len(Whole(s)) - Len(DerNumbers(s)[6]) /\ Len(DerKey(s)) - lost <= DER_MAX
    BY <1>1, <1>8, <2>1
  <2>3. lost <= w - d
    BY <1>3, <1>7, <2>2
  <2>4. h + w - lost <= DER_MAX
    BY <1>5, <2>2
  <2> QED BY <2>3, <2>4
<1>10. Len(Encoded(f)) = h + w - lost /\ lost <= h + w
  <2>1. lost <= h + w
    BY <1>9
  <2>2. Len(Encoded(f)) = IF lost <= h + w THEN h + w - lost ELSE 0
    BY <1>1, <1>5, <1>8, EncodedProperties
  <2> QED BY <2>1, <2>2
<1>11. Place(s, m) = h + g
  BY <1>4, <1>7 DEF Place
<1>12. h + g <= h + w - lost
  BY <1>7, <1>9
<1> QED
  BY <1>1, <1>5, <1>6, <1>8, <1>9, <1>10, <1>11, <1>12

\* How many of the first m characters of a body are no line ends.
Taken(width, m) == m - m \div (width + 1)

\* The k-th byte, or a zero behind the end.
ByteAt(bytes, k) == IF k <= Len(bytes) THEN bytes[k] ELSE 0

\* After c characters of base64: the bytes that are complete, and the bits of the
\* next one that have come.
Decodes(bytes, c) ==
  /\ c \in 0 .. Len(Sextets(bytes))
  /\ der = SubSeq(bytes, 1, (3 * c) \div 4)
  /\ bits = (6 * c) % 8 /\ buf \in Nat
  /\ c % 4 = 1 => buf % 64 = ByteAt(bytes, 3 * (c \div 4) + 1) \div 4
  /\ c % 4 = 2 => buf % 16 = ByteAt(bytes, 3 * (c \div 4) + 2) \div 16
  /\ c % 4 = 3 => buf % 4 = ByteAt(bytes, 3 * (c \div 4) + 3) \div 64

\* What stays within its bounds, whatever becomes of the loading.
Bounded ==
  /\ Len(der) <= DER_MAX /\ p \in 0 .. Len(der) /\ bits \in 0 .. 7
  /\ next \in 0 .. Len(pem) + 1
  /\ \A k \in DOMAIN numbers : Len(numbers[k]) <= Room(k)

\* The inductive invariant of the loading, by where it is.
Begun == loading # "idle" => source \in KeyFiles /\ pem = Written(source)
NothingRead ==
  loading \in {"idle", "open"} =>
    next = 0 /\ end = 0 /\ buf = 0 /\ bits = 0 /\ der = << >> /\ p = 0 /\ numbers = << >>
Decoding ==
  loading = "decode" =>
    /\ source.missing = "nothing" /\ p = 0 /\ numbers = << >>
    /\ end = 6 + Len(Body(source)) /\ next \in 6 .. end
    /\ Decodes(Encoded(source), Taken(source.width, next - 6))
Decoded ==
  /\ loading \in {"sequence", "integers", "loaded"} => source.missing = "nothing" /\ der = Encoded(source)
  /\ loading = "sequence" => p = 0 /\ numbers = << >>
  /\ loading \in {"integers", "loaded"} =>
       /\ Len(numbers) \in 0 .. 6 /\ Len(numbers) <= Len(source.numbers)
       /\ numbers = SubSeq(source.numbers, 1, Len(numbers))
       /\ p = Place(source.numbers, Len(numbers))
  /\ loading = "loaded" => Len(numbers) = 6
Refused == loading = "failed" => ~ Readable(source)
LoadInv ==
  /\ loading \in {"idle", "open", "decode", "sequence", "integers", "loaded", "failed"}
  /\ Begun /\ NothingRead /\ Decoding /\ Decoded /\ Refused /\ Bounded

\* What the reading of an integer looks for, and its value.
Found == {l \in IF Tagged(INTEGER) THEN asn1_read_length(p + 2) ELSE {} : l.length <= Len(der) - l.read}
ContentAt(l) == SubSeq(der, l.read + 1, l.read + l.length)
ValueAt(l) == IF l.length > 0 /\ ContentAt(l)[1] = 0 THEN Tail(ContentAt(l)) ELSE ContentAt(l)

\* A file that cannot be read may be refused at any place.
LEMMA Refuses ==
  ASSUME Begun, loading # "idle", loading' = "failed", source' = source, pem' = pem, ~ Readable(source), Bounded'
  PROVE  LoadInv'
<1>1. Begun'
  BY DEF Begun
<1>2. NothingRead' /\ Decoding' /\ Decoded'
  BY DEF NothingRead, Decoding, Decoded
<1>3. Refused'
  <2>1. ~ Readable(source)'
    BY DEF Readable
  <2> QED BY <2>1 DEF Refused
<1> QED
  BY <1>1, <1>2, <1>3 DEF LoadInv

\* The sequence's header is read if it is there.
LEMMA ReadSequenceKeeps == ASSUME LoadInv, ReadSequence PROVE LoadInv'
<1> DEFINE found == IF Tagged(SEQUENCE) THEN asn1_read_length(p + 2) ELSE {}
<1>0. PICK f \in KeyFiles : f = source
  BY DEF LoadInv, Begun, ReadSequence
<1>1. PICK s \in Seq(Magnitude) : s = f.numbers /\ Short(s)
  BY KeyFileProperties
<1>2. /\ der = Encoded(f) /\ p = 0 /\ numbers = << >> /\ f.missing = "nothing" /\ Len(der) <= DER_MAX
  BY <1>0 DEF LoadInv, Decoded, Bounded, ReadSequence
<1>3. PICK N \in Nat : N = Len(der) /\ der \in Seq(Octet)
  BY <1>2, EncodedProperties
<1>4. PICK w \in Nat, L \in 1 .. 3 : w = Len(Whole(s)) /\ L = Len(DerLength(w)) /\ w < TwoBytes
  <2>1. Len(Whole(s)) \in Nat /\ Len(Whole(s)) < TwoBytes
    BY <1>1, DerKeyProperties DEF Short
  <2> QED BY <2>1, DerLengthProperties
<1>5. /\ DerKey(s)[1] = SEQUENCE /\ Len(DerKey(s)) = 1 + L + w
      /\ \A j \in 1 .. L : DerKey(s)[1 + j] = DerLength(w)[j]
  BY <1>1, <1>4, DerKeyProperties
<1>6. \A j \in 1 .. N : der[j] = DerKey(s)[j]
  BY <1>1, <1>2, <1>3, EncodedProperties
<1>7. found = IF 1 + L <= N THEN {[length |-> w, read |-> 1 + L]} ELSE {}
  <2>1. CASE N = 0
    <3>1. ~ Tagged(SEQUENCE) /\ ~ (1 + L <= N)
      BY <1>2, <1>3, <2>1 DEF Tagged
    <3> QED BY <3>1
  <2>2. CASE N > 0
    <3>1. Tagged(SEQUENCE)
      <4>1. 0 + 1 = 1 /\ 1 \in 1 .. N
        BY <2>2
      <4>2. der[1] = SEQUENCE
        BY <1>5, <1>6, <4>1
      <4> QED BY <1>2, <1>3, <2>2, <4>1, <4>2 DEF Tagged
    <3>2. asn1_read_length(2) = IF 2 - 1 + Len(DerLength(w)) <= Len(der) THEN {[length |-> w, read |-> 2 - 1 + Len(DerLength(w))]} ELSE {}
      <4>1. ASSUME NEW j \in 1 .. Len(DerLength(w)), 2 - 1 + j <= Len(der) PROVE der[2 - 1 + j] = DerLength(w)[j]
        <5>1. 2 - 1 + j = 1 + j /\ 1 + j \in 1 .. N /\ j \in 1 .. L
          BY <1>3, <1>4, <4>1
        <5> QED BY <1>5, <1>6, <5>1
      <4>2. 2 \in Nat \ {0} /\ 2 - 1 <= Len(der)
        BY <1>3, <2>2
      <4> QED BY <1>3, <1>4, <4>1, <4>2, LengthRead
    <3>3. 2 - 1 + L = 1 + L /\ p + 2 = 2
      BY <1>2
    <3> QED BY <1>3, <1>4, <3>1, <3>2, <3>3
  <2> QED BY <2>1, <2>2
<1>8. \/ found = {} /\ loading' = "failed" /\ UNCHANGED <<p, numbers>>
      \/ \E l \in found : p' = l.read /\ loading' = "integers" /\ UNCHANGED numbers
  BY Zenon DEF ReadSequence, Fail
<1>9. UNCHANGED <<source, pem, next, end, buf, bits, der>>
  BY DEF ReadSequence
<1> HIDE DEF found
<1>10. CASE 1 + L <= N
  <2>0. found = {[length |-> w, read |-> 1 + L]}
    BY <1>7, <1>10
  <2>1. p' = 1 + L /\ loading' = "integers" /\ numbers' = numbers
    <3>1. PICK l \in found : p' = l.read /\ loading' = "integers" /\ UNCHANGED numbers
      BY <1>8, <2>0
    <3>2. l.read = 1 + L
      BY <2>0, <3>1
    <3> QED BY <3>1, <3>2
  <2>2. Place(s, 0) = 1 + L
    <3>1. DerNumbers(s)[0] = << >> /\ Len(<< >>) = 0
      BY DerNumbersProperties
    <3> QED BY <1>4, <3>1 DEF Place
  <2>3. numbers' = SubSeq(s, 1, Len(numbers')) /\ Len(numbers') = 0 /\ 0 <= Len(s)
    <3>1. SubSeq(s, 1, 0) = << >>
      BY SubSeqEmpty
    <3> QED BY <1>1, <1>2, <2>1, <3>1
  <2>4. Decoded'
    BY <1>0, <1>1, <1>2, <1>9, <2>1, <2>2, <2>3 DEF Decoded
  <2>5. Bounded'
    BY <1>2, <1>3, <1>9, <1>10, <2>1 DEF LoadInv, Bounded, Room
  <2>6. Begun' /\ NothingRead' /\ Decoding' /\ Refused'
    <3>1. Begun /\ loading # "idle"
      BY DEF LoadInv, ReadSequence
    <3>2. Begun'
      BY <1>9, <3>1 DEF Begun
    <3>3. NothingRead'
      BY <2>1 DEF NothingRead
    <3>4. Decoding'
      BY <2>1 DEF Decoding
    <3>5. Refused'
      BY <2>1 DEF Refused
    <3> QED BY <3>2, <3>3, <3>4, <3>5
  <2> QED BY <2>1, <2>4, <2>5, <2>6 DEF LoadInv
<1>11. CASE ~ (1 + L <= N)
  <2>1. loading' = "failed" /\ UNCHANGED <<p, numbers>>
    BY <1>7, <1>8, <1>11
  <2>2. ~ Readable(f)
    <3> SUFFICES ASSUME Readable(f) PROVE FALSE
      OBVIOUS
    <3>1. Place(s, 0) <= N
      BY <1>1, <1>2, <1>3, ReadableHolds, 0 \in 0 .. 6
    <3>2. Place(s, 0) = 1 + L
      <4>1. DerNumbers(s)[0] = << >> /\ Len(<< >>) = 0
        BY DerNumbersProperties
      <4> QED BY <1>4, <4>1 DEF Place
    <3> QED BY <1>11, <3>1, <3>2
  <2>3. Begun /\ Bounded /\ loading # "idle"
    BY DEF LoadInv, ReadSequence
  <2>4. Bounded'
    BY <1>9, <2>1, <2>3 DEF Bounded
  <2> QED BY <1>0, <1>9, <2>1, <2>2, <2>3, <2>4, Refuses
<1> QED
  BY <1>10, <1>11

\* What is found at the place of a number: the number, if all of it is there.
LEMMA NumberFound ==
  ASSUME LoadInv, loading = "integers", NEW m \in 0 .. 5, m = Len(numbers), m < Len(source.numbers)
  PROVE  LET x == source.numbers[m + 1]
             l == [length |-> Len(Content(x)), read |-> p + 1 + Len(DerLength(Len(Content(x))))]
         IN /\ x \in Magnitude /\ m + 1 \in 0 .. Len(source.numbers)
            /\ Found = IF Place(source.numbers, m + 1) <= Len(der) THEN {l} ELSE {}
            /\ Place(source.numbers, m + 1) <= Len(der) => ValueAt(l) = x
            /\ Place(source.numbers, m + 1) = l.read + l.length
<1>0. PICK f \in KeyFiles : f = source
  BY DEF LoadInv, Begun
<1>1. PICK s \in Seq(Magnitude) : s = f.numbers /\ Short(s)
  BY KeyFileProperties
<1>2. /\ der = Encoded(f) /\ p = Place(s, m) /\ p \in 0 .. Len(der) /\ m \in 0 .. Len(s) - 1
  <2>1. Len(s) \in Nat
    OBVIOUS
  <2> QED BY <1>0, <1>1, <2>1 DEF LoadInv, Decoded, Bounded
<1>3. PICK N \in Nat : N = Len(der) /\ der \in Seq(Octet)
  BY <1>2, EncodedProperties
<1>4. PICK x \in Magnitude : x = s[m + 1]
  BY <1>2, NumberInWhole
<1>5. PICK c \in Seq(Octet) : c = Content(x) /\ Len(c) >= 1
  BY ContentProperties
<1>6. PICK C \in Nat : C = Len(c)
  OBVIOUS
<1>7. PICK L \in 1 .. 3 : L = Len(DerLength(C))
  BY DerLengthProperties
<1>8. PICK e \in Seq(Nat) : /\ e = DerInteger(x) /\ Len(e) = 1 + L + C /\ e[1] = INTEGER
                            /\ \A j \in 1 .. L : e[1 + j] = DerLength(C)[j]
                            /\ \A j \in 1 .. C : e[1 + L + j] = c[j]
  BY <1>5, <1>6, <1>7, DerIntegerProperties
<1>9. PICK P \in Nat : P = p /\ P <= N
  BY <1>2, <1>3
<1>10. \A j \in 1 .. Len(e) : P + j <= N => der[P + j] = e[j]
  <2> SUFFICES ASSUME NEW j \in 1 .. Len(e), P + j <= N PROVE der[P + j] = e[j]
    OBVIOUS
  <2>1. j \in 1 .. Len(DerInteger(s[m + 1]))
    BY <1>4, <1>8
  <2>2. DerKey(s)[Place(s, m) + j] = DerInteger(s[m + 1])[j]
    BY <1>1, <1>2, <2>1, DerKeyProperties
  <2>3. DerKey(s)[P + j] = e[j]
    BY <1>2, <1>4, <1>8, <1>9, <2>2
  <2>4. P + j \in 1 .. N
    BY <1>8
  <2>5. der[P + j] = DerKey(s)[P + j]
    BY <1>1, <1>2, <1>3, <2>4, EncodedProperties
  <2> QED BY <2>3, <2>5
<1>11. Place(s, m + 1) = P + 1 + L + C
  <2>1. /\ Len(DerNumbers(s)[m + 1]) = Len(DerNumbers(s)[m]) + Len(DerInteger(s[m + 1]))
        /\ Len(DerNumbers(s)[m + 1]) <= Len(Whole(s))
    BY <1>2, NumberInWhole
  <2>2. PICK d \in Nat : d = Len(DerNumbers(s)[m])
    <3>1. m \in 0 .. Len(s)
      BY <1>2
    <3>2. DerNumbers(s)[m] \in Seq(Nat)
      BY <3>1, DerNumbersProperties
    <3> QED BY <3>2
  <2>3. Len(DerNumbers(s)[m + 1]) = d + 1 + L + C
    <3>1. Len(DerNumbers(s)[m + 1]) = d + Len(e)
      BY <1>4, <1>8, <2>1, <2>2
    <3>2. Len(e) = 1 + L + C
      BY <1>8
    <3> QED BY <3>1, <3>2
  <2>4. PICK h \in Nat : h = 1 + Len(DerLength(Len(Whole(s))))
    <3>1. Len(Whole(s)) \in Nat
      BY <1>1, DerKeyProperties
    <3> QED BY <3>1, DerLengthProperties
  <2>5. Place(s, m + 1) = h + (d + 1 + L + C) /\ P = h + d
    BY <1>2, <1>9, <2>2, <2>3, <2>4 DEF Place
  <2> QED BY <2>5
<1>12. C < TwoBytes
  <2>1. Len(DerNumbers(s)[m + 1]) <= Len(Whole(s)) /\ Len(DerNumbers(s)[m + 1]) = Len(DerNumbers(s)[m]) + Len(DerInteger(s[m + 1]))
    BY <1>2, NumberInWhole
  <2>2. PICK w \in Nat : w = Len(Whole(s)) /\ w < TwoBytes
    BY <1>1, DerKeyProperties DEF Short
  <2>3. PICK d \in Nat : d = Len(DerNumbers(s)[m])
    <3>1. m \in 0 .. Len(s)
      BY <1>2
    <3>2. DerNumbers(s)[m] \in Seq(Nat)
      BY <3>1, DerNumbersProperties
    <3> QED BY <3>2
  <2>4. d + (1 + L + C) <= w
    BY <1>4, <1>8, <2>1, <2>2, <2>3
  <2> QED BY <2>2, <2>4, TwoBytesIsNat
<1>13. (IF Tagged(INTEGER) THEN asn1_read_length(p + 2) ELSE {})
         = IF P + 1 + L <= N THEN {[length |-> C, read |-> P + 1 + L]} ELSE {}
  <2>1. CASE P = N
    <3>1. ~ Tagged(INTEGER) /\ ~ (P + 1 + L <= N)
      BY <1>3, <1>9, <2>1 DEF Tagged
    <3> QED BY <3>1
  <2>2. CASE P < N
    <3>1. Tagged(INTEGER)
      <4>1. 1 \in 1 .. Len(e) /\ P + 1 <= N
        BY <1>8, <2>2
      <4>2. der[P + 1] = INTEGER
        BY <1>8, <1>10, <4>1
      <4> QED BY <1>3, <1>9, <2>2, <4>2 DEF Tagged
    <3>2. PICK k \in Nat \ {0} : k = P + 2 /\ k - 1 = P + 1
      OBVIOUS
    <3>3. asn1_read_length(k) = IF k - 1 + Len(DerLength(C)) <= Len(der) THEN {[length |-> C, read |-> k - 1 + Len(DerLength(C))]} ELSE {}
      <4>1. ASSUME NEW j \in 1 .. Len(DerLength(C)), k - 1 + j <= Len(der) PROVE der[k - 1 + j] = DerLength(C)[j]
        <5>1. j \in 1 .. L
          BY <1>7
        <5>2. k - 1 + j = P + (1 + j) /\ 1 + j \in 1 .. Len(e) /\ P + (1 + j) <= N
          BY <1>3, <1>8, <3>2, <4>1, <5>1
        <5>3. der[P + (1 + j)] = e[1 + j]
          BY <1>10, <5>2
        <5> QED BY <1>8, <5>1, <5>2, <5>3
      <4>2. k - 1 <= Len(der)
        BY <1>3, <2>2, <3>2
      <4> QED BY <1>3, <1>12, <4>1, <4>2, LengthRead
    <3>4. k - 1 + L = P + 1 + L /\ p + 2 = k
      BY <1>9, <3>2
    <3> QED BY <1>3, <1>7, <3>1, <3>3, <3>4
  <2> QED BY <1>9, <2>1, <2>2
<1>14. PICK l : l = [length |-> C, read |-> P + 1 + L]
  OBVIOUS
<1>15. l.length = C /\ l.read = P + 1 + L
  BY <1>14
<1>16. Found = IF P + 1 + L + C <= N THEN {l} ELSE {}
  <2>1. Found = {r \in IF P + 1 + L <= N THEN {l} ELSE {} : r.length <= N - r.read}
    BY <1>3, <1>13, <1>14 DEF Found
  <2>2. C <= N - (P + 1 + L) <=> P + 1 + L + C <= N
    OBVIOUS
  <2>3. P + 1 + L + C <= N => P + 1 + L <= N
    OBVIOUS
  <2>4. l.length <= N - l.read <=> P + 1 + L + C <= N
    BY <1>15, <2>2
  <2> QED BY <2>1, <2>3, <2>4
<1>17. ASSUME P + 1 + L + C <= N PROVE ValueAt(l) = x
  <2>1. PICK h \in Nat : h = P + 1 + L
    OBVIOUS
  <2>2. ASSUME NEW j \in 1 .. C PROVE h + j \in 1 .. N /\ der[h + j] = c[j]
    <3>1. h + j = P + (1 + L + j) /\ 1 + L + j \in 1 .. Len(e) /\ P + (1 + L + j) <= N
      BY <1>8, <1>17, <2>1
    <3>2. der[P + (1 + L + j)] = e[1 + L + j]
      BY <1>10, <3>1
    <3>3. e[1 + L + j] = c[j]
      BY <1>8
    <3>4. h + j \in 1 .. N
      BY <3>1
    <3> QED BY <3>1, <3>2, <3>3, <3>4
  <2>3. PICK t : t = SubSeq(der, h + 1, h + C)
    OBVIOUS
  <2>4. t \in Seq(Octet) /\ Len(t) = C /\ \A j \in 1 .. C : t[j] = der[h + j]
    <3>1. PICK m1 \in Int, n1 \in Int : m1 = h + 1 /\ n1 = h + C
      OBVIOUS
    <3>2. \A j \in m1 .. n1 : der[j] \in Octet
      <4> SUFFICES ASSUME NEW j \in m1 .. n1 PROVE der[j] \in Octet
        OBVIOUS
      <4>1. j \in 1 .. Len(der)
        BY <1>3, <1>17, <2>1, <3>1
      <4> QED BY <1>3, <4>1, ElementOfSeq
    <3>3. /\ SubSeq(der, m1, n1) \in Seq(Octet) /\ Len(SubSeq(der, m1, n1)) = IF m1 <= n1 THEN n1 - m1 + 1 ELSE 0
          /\ \A j \in 1 .. n1 - m1 + 1 : SubSeq(der, m1, n1)[j] = der[m1 + j - 1]
      BY <3>2, SubSeqProperties
    <3>4. t = SubSeq(der, m1, n1)
      BY <2>3, <3>1
    <3>5. Len(t) = C
      <4>1. Len(t) = IF m1 <= n1 THEN n1 - m1 + 1 ELSE 0
        BY <3>3, <3>4
      <4>2. n1 - m1 + 1 = C /\ (~ (m1 <= n1) => C = 0)
        BY <3>1
      <4> QED BY <4>1, <4>2
    <3>6. ASSUME NEW j \in 1 .. C PROVE t[j] = der[h + j]
      <4>1. j \in 1 .. n1 - m1 + 1 /\ m1 + j - 1 = h + j
        BY <3>1
      <4> QED BY <3>3, <3>4, <4>1
    <3> QED BY <3>3, <3>4, <3>5, <3>6
  <2>5. t = c
    <3>1. \A j \in 1 .. Len(t) : t[j] = c[j]
      BY <2>2, <2>4
    <3>2. Len(t) = Len(c)
      BY <1>6, <2>4
    <3> QED BY <2>4, <3>1, <3>2, SeqEqual
  <2>6. ContentAt(l) = c
    <3>1. l.read + 1 = h + 1 /\ l.read + l.length = h + C
      BY <1>15, <2>1
    <3> QED BY <2>3, <2>5, <3>1 DEF ContentAt
  <2>7. (IF Len(c) > 0 /\ c[1] = 0 THEN Tail(c) ELSE c) = x
    BY <1>5, ContentProperties
  <2> QED BY <1>6, <1>15, <2>6, <2>7 DEF ValueAt
<1>18. m + 1 \in 0 .. Len(s)
  BY <1>2
<1>19. l = [length |-> Len(Content(x)), read |-> p + 1 + Len(DerLength(Len(Content(x))))]
  BY <1>5, <1>6, <1>7, <1>9, <1>14
<1>20. x = source.numbers[m + 1] /\ s = source.numbers
  BY <1>0, <1>1, <1>4
<1>21. Place(s, m + 1) = l.read + l.length
  BY <1>11, <1>15
<1>22. Place(s, m + 1) <= Len(der) <=> P + 1 + L + C <= N
  BY <1>3, <1>11
<1> QED
  BY <1>16, <1>17, <1>18, <1>19, <1>20, <1>21, <1>22

\* A number is read if it is all there and has room.
LEMMA ReadIntegerKeeps == ASSUME LoadInv, ReadInteger PROVE LoadInv'
<1>0. PICK f \in KeyFiles : f = source
  BY DEF LoadInv, Begun, ReadInteger
<1>1. PICK s \in Seq(Magnitude) : s = f.numbers /\ Short(s)
  BY KeyFileProperties
<1>2. /\ der = Encoded(f) /\ Len(numbers) \in 0 .. 6 /\ Len(numbers) <= Len(s) /\ numbers = SubSeq(s, 1, Len(numbers))
      /\ p = Place(s, Len(numbers)) /\ f.missing = "nothing" /\ Len(numbers) < 6 /\ loading = "integers"
  BY <1>0, <1>1 DEF LoadInv, Decoded, ReadInteger
<1>3. PICK m \in 0 .. 5 : m = Len(numbers)
  BY <1>2
<1>4. PICK N \in Nat : N = Len(der) /\ p \in 0 .. N
  BY <1>2, EncodedProperties DEF LoadInv, Bounded
<1>5. Begun /\ Bounded /\ loading # "idle"
  BY <1>2 DEF LoadInv
<1>6. UNCHANGED <<source, pem, next, end, buf, bits, der>>
  BY DEF ReadInteger
<1>7. numbers = << >> <=> m + 1 = 1
  <2>1. numbers \in Seq(Magnitude)
    <3>1. \A j \in 1 .. m : s[j] \in Magnitude
      BY <1>2, <1>3, ElementOfSeq
    <3>2. 1 \in Int /\ m \in Int
      OBVIOUS
    <3>3. SubSeq(s, 1, m) \in Seq(Magnitude)
      BY <3>1, <3>2, SubSeqProperties
    <3> QED BY <1>2, <1>3, <3>3
  <2> QED BY <1>3, <2>1
<1>8. (IF numbers = << >> THEN VER_MAX ELSE INT_MAX) = Room(m + 1)
  BY <1>7 DEF Room
<1>9. \/ (\A l \in Found : Len(ValueAt(l)) > Room(m + 1)) /\ Fail
      \/ \E l \in Found :
           /\ Len(ValueAt(l)) <= Room(m + 1)
           /\ numbers' = Append(numbers, ValueAt(l)) /\ p' = Behind(l, ValueAt(l))
           /\ UNCHANGED loading
  <2>1. \/ (\A l \in Found : Len(ValueAt(l)) > (IF numbers = << >> THEN VER_MAX ELSE INT_MAX)) /\ Fail
        \/ \E l \in Found :
             /\ Len(ValueAt(l)) <= (IF numbers = << >> THEN VER_MAX ELSE INT_MAX)
             /\ numbers' = Append(numbers, ValueAt(l)) /\ p' = Behind(l, ValueAt(l))
             /\ UNCHANGED loading
    BY Zenon DEF ReadInteger, Found, ValueAt, ContentAt
  <2> QED BY <1>8, <2>1
<1>10. CASE m < Len(s) /\ Place(s, m + 1) <= N /\ Len(s[m + 1]) <= Room(m + 1)
  <2>1. PICK x \in Magnitude : x = s[m + 1]
    BY <1>10, ElementOfSeq
  <2>2. PICK l : l = [length |-> Len(Content(x)), read |-> p + 1 + Len(DerLength(Len(Content(x))))]
    OBVIOUS
  <2>3. Found = {l} /\ ValueAt(l) = x /\ Place(s, m + 1) = l.read + l.length /\ m + 1 \in 0 .. Len(s)
    BY <1>0, <1>1, <1>2, <1>3, <1>4, <1>10, <2>1, <2>2, NumberFound
  <2>4. numbers' = Append(numbers, x) /\ p' = Place(s, m + 1) /\ loading' = "integers"
    <3>1. Len(x) <= Room(m + 1) /\ Len(x) \in Nat /\ Room(m + 1) \in Nat
      BY <1>10, <2>1, SizesAreNumbers DEF Room, Magnitude
    <3>2. ~ (\A h \in Found : Len(ValueAt(h)) > Room(m + 1))
      BY <2>3, <3>1
    <3>3. PICK h \in Found : numbers' = Append(numbers, ValueAt(h)) /\ p' = Behind(h, ValueAt(h)) /\ UNCHANGED loading
      BY <1>9, <3>2
    <3>4. h = l
      BY <2>3, <3>3
    <3> QED BY <1>2, <2>3, <3>3, <3>4 DEF Behind
  <2>5. numbers' = SubSeq(s, 1, m + 1) /\ Len(numbers') = m + 1
    <3>1. PICK k \in 1 .. Len(s) : k = m + 1
      BY <1>10
    <3>2. 1 \in 1 .. Len(s) /\ k \in 1 .. Len(s) /\ k - 1 = m
      BY <3>1
    <3>3. SubSeq(s, 1, k) = SubSeq(s, 1, k - 1) \o <<s[k]>>
      BY <3>2, SubSeqRecursiveSecond
    <3>4. \A j \in 1 .. m : s[j] \in Magnitude
      BY <1>10, ElementOfSeq
    <3>5. 1 \in Int /\ m \in Int
      OBVIOUS
    <3>6. SubSeq(s, 1, m) \in Seq(Magnitude)
      BY <3>4, <3>5, SubSeqProperties
    <3>7. PICK t \in Seq(Magnitude) : t = numbers /\ t = SubSeq(s, 1, m) /\ Len(t) = m
      BY <1>2, <1>3, <3>6
    <3>8. Append(t, x) = t \o <<x>> /\ Len(Append(t, x)) = m + 1
      BY <3>7, AppendIsConcat, AppendProperties
    <3>9. SubSeq(s, 1, k - 1) = t
      BY <3>2, <3>7
    <3> QED BY <2>1, <2>4, <3>1, <3>3, <3>7, <3>8, <3>9
  <2>6. Decoded'
    <3>1. source'.missing = "nothing" /\ der' = Encoded(source') /\ source'.numbers = s
      BY <1>0, <1>1, <1>2, <1>6
    <3>2. Len(numbers') \in 0 .. 6 /\ Len(numbers') <= Len(source'.numbers)
      BY <1>10, <2>5, <3>1
    <3> QED BY <2>4, <2>5, <3>1, <3>2 DEF Decoded
  <2>7. Bounded'
    <3>1. Len(der') = N /\ p' \in 0 .. N
      <4>1. Place(s, m + 1) \in Nat
        BY <1>1, <2>3, DerKeyProperties
      <4> QED BY <1>4, <1>6, <1>10, <2>4, <4>1
    <3>2. ASSUME NEW k \in DOMAIN numbers' PROVE Len(numbers'[k]) <= Room(k)
      <4>1. s \in Seq(Magnitude) /\ numbers' = SubSeq(s, 1, m + 1) /\ Len(numbers') = m + 1
        BY <2>5
      <4>2. numbers' = Append(numbers, x)
        BY <2>4
      <4>3. numbers \in Seq(Magnitude) /\ Len(numbers) = m
        <5>1. \A j \in 1 .. m : s[j] \in Magnitude
          BY <1>10, ElementOfSeq
        <5>2. 1 \in Int /\ m \in Int
          OBVIOUS
        <5>3. SubSeq(s, 1, m) \in Seq(Magnitude)
          BY <5>1, <5>2, SubSeqProperties
        <5> QED BY <1>2, <1>3, <5>3
      <4>4. \A j \in 1 .. m : numbers'[j] = numbers[j]
        BY <4>2, <4>3, AppendProperties
      <4>5. numbers'[m + 1] = x
        BY <4>2, <4>3, AppendProperties
      <4>6. k \in 1 .. m + 1
        BY <4>2, <4>3
      <4>7. CASE k = m + 1
        BY <1>10, <2>1, <4>5, <4>7
      <4>8. CASE k \in 1 .. m
        <5>1. k \in DOMAIN numbers
          BY <4>3, <4>8
        <5> QED BY <1>5, <4>4, <4>8, <5>1 DEF Bounded
      <4> QED BY <4>6, <4>7, <4>8
    <3> QED BY <1>4, <1>5, <1>6, <3>1, <3>2 DEF Bounded, Room
  <2>8. Begun'
    BY <1>5, <1>6 DEF Begun
  <2>9. NothingRead' /\ Decoding' /\ Refused'
    BY <2>4 DEF NothingRead, Decoding, Refused
  <2> QED BY <2>4, <2>6, <2>7, <2>8, <2>9 DEF LoadInv
<1>11. CASE ~ (m < Len(s) /\ Place(s, m + 1) <= N /\ Len(s[m + 1]) <= Room(m + 1))
  <2>1. ~ Readable(f)
    <3> SUFFICES ASSUME Readable(f) PROVE FALSE
      OBVIOUS
    <3>1. PICK k \in 1 .. 6 : k = m + 1
      OBVIOUS
    <3>2. k <= Len(s) /\ Place(s, k) <= N
      BY <1>1, <1>2, <1>4, ReadableHolds
    <3>3. Len(s[k]) <= Room(k)
      BY <1>1 DEF Readable
    <3> QED BY <1>11, <3>1, <3>2, <3>3
  <2>2. \A l \in Found : Len(ValueAt(l)) > Room(m + 1)
    <3>1. CASE m < Len(s)
      <4>1. PICK x \in Magnitude : x = s[m + 1]
        BY <3>1, ElementOfSeq
      <4>2. PICK l : l = [length |-> Len(Content(x)), read |-> p + 1 + Len(DerLength(Len(Content(x))))]
        OBVIOUS
      <4>3. Found = (IF Place(s, m + 1) <= N THEN {l} ELSE {}) /\ (Place(s, m + 1) <= N => ValueAt(l) = x)
        BY <1>0, <1>1, <1>2, <1>3, <1>4, <3>1, <4>1, <4>2, NumberFound
      <4>4. Len(x) \in Nat /\ Room(m + 1) \in Nat
        BY SizesAreNumbers DEF Room, Magnitude
      <4>5. Place(s, m + 1) <= N => Len(x) > Room(m + 1)
        BY <1>11, <3>1, <4>1, <4>4
      <4> QED BY <4>3, <4>5
    <3>2. CASE ~ (m < Len(s))
      <4>1. m = Len(s)
        BY <1>2, <1>3, <3>2
      <4>2. Place(s, m) = Len(DerKey(s))
        BY <1>1, <4>1, DerKeyProperties DEF Place, Whole
      <4>3. N <= Len(DerKey(s)) /\ Len(DerKey(s)) \in Nat
        BY <1>1, <1>2, <1>4, EncodedProperties, DerKeyProperties
      <4>4. ~ (p < Len(der))
        BY <1>2, <1>3, <1>4, <4>2, <4>3
      <4>5. Found = {}
        BY <4>4 DEF Found, Tagged
      <4> QED BY <4>5
    <3> QED BY <3>1, <3>2
  <2>3. Room(m + 1) \in Nat
    BY SizesAreNumbers DEF Room
  <2>4. loading' = "failed" /\ p' = p /\ numbers' = numbers
    <3>1. ~ \E l \in Found : Len(ValueAt(l)) <= Room(m + 1)
      <4> SUFFICES ASSUME NEW l \in Found, Len(ValueAt(l)) <= Room(m + 1) PROVE FALSE
        OBVIOUS
      <4>1. Len(ValueAt(l)) > Room(m + 1)
        BY <2>2
      <4>2. Len(ValueAt(l)) \in Int
        <5>1. m < Len(s)
          <6> SUFFICES ASSUME ~ (m < Len(s)) PROVE FALSE
            OBVIOUS
          <6>1. m = Len(s)
            BY <1>2, <1>3
          <6>2. Place(s, m) = Len(DerKey(s))
            BY <1>1, <6>1, DerKeyProperties DEF Place, Whole
          <6>3. N <= Len(DerKey(s)) /\ Len(DerKey(s)) \in Nat
            BY <1>1, <1>2, <1>4, EncodedProperties, DerKeyProperties
          <6>4. ~ (p < Len(der))
            BY <1>2, <1>3, <1>4, <6>2, <6>3
          <6> QED BY <6>4 DEF Found, Tagged
        <5>2. ValueAt(l) \in Magnitude
          BY <1>0, <1>1, <1>2, <1>3, <1>4, <5>1, NumberFound
        <5> QED BY <5>2 DEF Magnitude
      <4> QED BY <2>3, <4>1, <4>2
    <3> QED BY <1>9, <3>1 DEF Fail
  <2>5. Bounded'
    BY <1>5, <1>6, <2>4 DEF Bounded
  <2> QED BY <1>0, <1>5, <1>6, <2>1, <2>4, <2>5, Refuses
<1> QED
  BY <1>10, <1>11

\* All six have been read.
LEMMA LoadedKeeps == ASSUME LoadInv, Loaded PROVE LoadInv'
<1>1. UNCHANGED <<source, pem, next, end, buf, bits, der, p, numbers>> /\ loading = "integers" /\ loading' = "loaded" /\ Len(numbers) = 6
  BY DEF Loaded
<1>2. Begun /\ Decoded /\ Bounded
  BY DEF LoadInv
<1>3. Begun' /\ NothingRead' /\ Decoding' /\ Refused'
  BY <1>1, <1>2 DEF Begun, NothingRead, Decoding, Refused
<1>4. Decoded'
  BY <1>1, <1>2 DEF Decoded
<1>5. Bounded'
  BY <1>1, <1>2 DEF Bounded
<1> QED
  BY <1>1, <1>3, <1>4, <1>5 DEF LoadInv

-----------------------------------------------------------------------------
(* rsa_load_private_key: base64. *)

\* A remainder of 12 bits.
LEMMA LowestTwelve ==
  ASSUME NEW c \in Int, NEW k \in Nat, k < 4096
  PROVE  (4096 * c + k) % 4096 = k
<1>1. PICK m \in Nat \ {0} : m = 4096
  OBVIOUS
<1>2. PICK d \in Int : d = c * m + k
  OBVIOUS
<1>3. d % m = k
  BY <1>1, <1>2, k \in 0 .. m - 1, DivisionUnique
<1>4. d = 4096 * c + k
  BY <1>1, <1>2
<1> QED
  BY <1>1, <1>3, <1>4

\* The twelve bits that base64_decode keeps, when six have come.
Filled(u, v) == (u * 64 + v) % 4096

\* Four characters of base64 give three bytes: each new character completes a
\* byte x and leaves the first bits of the next, y.
LEMMA FirstSextet ==
  ASSUME NEW u \in Nat, NEW x \in Octet, NEW v, v = x \div 4
  PROVE  /\ v \in 0 .. 63 /\ Filled(u, v) \in Nat /\ Filled(u, v) % 64 = x \div 4
<1>1. v \in 0 .. 63
  BY DEF Octet
<1>2. PICK a \in Nat, g \in 0 .. 63 : u = 64 * a + g
  <2>1. u \div 64 \in Nat /\ u % 64 \in 0 .. 63 /\ u = 64 * (u \div 64) + (u % 64)
    OBVIOUS
  <2> QED BY <2>1
<1>3. PICK k \in Nat : k = 64 * g + v
  BY <1>1, <1>2
<1>4. k < 4096 /\ k % 64 = v
  BY <1>1, <1>2, <1>3
<1>5. (4096 * a + k) % 4096 = k
  BY <1>2, <1>3, <1>4, LowestTwelve
<1>6. u * 64 + v = 4096 * a + k
  BY <1>2, <1>3
<1> QED
  BY <1>1, <1>3, <1>4, <1>5, <1>6 DEF Filled

\* The second one ends the first byte.
LEMMA SecondSextet ==
  ASSUME NEW u \in Nat, NEW x \in Octet, NEW y \in Octet, NEW v, v = (x % 4) * 16 + (y \div 16), u % 64 = x \div 4
  PROVE  /\ v \in 0 .. 63 /\ Filled(u, v) \in Nat
         /\ (Filled(u, v) \div 16) % 256 = x /\ Filled(u, v) % 16 = y \div 16
<1>1. PICK a \in Nat, g \in 0 .. 63, h \in 0 .. 3 : u = 64 * a + g /\ x = 4 * g + h /\ x \div 4 = g /\ x % 4 = h
  <2>1. u \div 64 \in Nat /\ x \div 4 \in 0 .. 63 /\ x % 4 \in 0 .. 3
    BY DEF Octet
  <2>2. u = 64 * (u \div 64) + (u % 64) /\ x = 4 * (x \div 4) + (x % 4)
    BY DEF Octet
  <2> QED BY <2>1, <2>2
<1>2. PICK k \in 0 .. 15 : k = y \div 16
  BY DEF Octet
<1>3. v = h * 16 + k
  BY <1>1, <1>2
<1>4. v \in 0 .. 63
  BY <1>3
<1>5. u * 64 + v = 4096 * a + (64 * g + v) /\ 64 * g + v \in 0 .. 4095
  BY <1>1, <1>4
<1>6. (u * 64 + v) % 4096 = 64 * g + v
  <2>1. PICK f \in Nat : f = 64 * g + v /\ f < 4096
    BY <1>1, <1>4, <1>5
  <2>2. (4096 * a + f) % 4096 = f
    BY <1>1, <1>4, <1>5, <2>1, LowestTwelve
  <2>3. u * 64 + v = 4096 * a + f
    BY <1>1, <1>4, <1>5, <2>1
  <2> QED BY <2>1, <2>2, <2>3
<1>7. 64 * g + v = 16 * x + k /\ x \in 0 .. 255
  BY <1>1, <1>3 DEF Octet
<1>8. (16 * x + k) \div 16 = x /\ (16 * x + k) % 16 = k
  BY <1>7
<1>9. x % 256 = x
  BY <1>7
<1> QED
  BY <1>2, <1>4, <1>6, <1>7, <1>8, <1>9 DEF Filled

\* The third one ends the second byte.
LEMMA ThirdSextet ==
  ASSUME NEW u \in Nat, NEW x \in Octet, NEW y \in Octet, NEW v, v = (x % 16) * 4 + (y \div 64), u % 16 = x \div 16
  PROVE  /\ v \in 0 .. 63 /\ Filled(u, v) \in Nat
         /\ (Filled(u, v) \div 4) % 256 = x /\ Filled(u, v) % 4 = y \div 64
<1>1. PICK a \in Nat, g \in 0 .. 15, h \in 0 .. 15 : u = 16 * a + g /\ x = 16 * g + h /\ x \div 16 = g /\ x % 16 = h
  <2>1. u \div 16 \in Nat /\ x \div 16 \in 0 .. 15 /\ x % 16 \in 0 .. 15
    BY DEF Octet
  <2>2. u = 16 * (u \div 16) + (u % 16) /\ x = 16 * (x \div 16) + (x % 16)
    BY DEF Octet
  <2> QED BY <2>1, <2>2
<1>2. PICK k \in 0 .. 3 : k = y \div 64
  BY DEF Octet
<1>3. v = h * 4 + k
  BY <1>1, <1>2
<1>4. v \in 0 .. 63
  BY <1>3
<1>5. PICK q \in Nat, t \in 0 .. 3 : a = 4 * q + t
  <2>1. a \div 4 \in Nat /\ a % 4 \in 0 .. 3 /\ a = 4 * (a \div 4) + (a % 4)
    OBVIOUS
  <2> QED BY <2>1
<1>6. 64 * g + v = 4 * x + k /\ x \in 0 .. 255
  BY <1>1, <1>3 DEF Octet
<1>7. u * 64 + v = 4096 * q + (1024 * t + 4 * x + k) /\ 1024 * t + 4 * x + k \in 0 .. 4095
  BY <1>1, <1>5, <1>6
<1>8. (u * 64 + v) % 4096 = 1024 * t + 4 * x + k
  <2>1. PICK f \in Nat : f = 1024 * t + 4 * x + k /\ f < 4096
    BY <1>1, <1>2, <1>4, <1>5, <1>7
  <2>2. (4096 * q + f) % 4096 = f
    BY <1>1, <1>2, <1>4, <1>5, <1>7, <2>1, LowestTwelve
  <2>3. u * 64 + v = 4096 * q + f
    BY <1>1, <1>2, <1>4, <1>5, <1>7, <2>1
  <2> QED BY <2>1, <2>2, <2>3
<1>9. (1024 * t + 4 * x + k) \div 4 = 256 * t + x /\ (1024 * t + 4 * x + k) % 4 = k
  BY <1>6
<1>10. (256 * t + x) % 256 = x
  BY <1>6
<1> QED
  BY <1>2, <1>4, <1>6, <1>8, <1>9, <1>10 DEF Filled

\* The fourth one is the rest of the third byte.
LEMMA FourthSextet ==
  ASSUME NEW u \in Nat, NEW x \in Octet, NEW v, v = x % 64, u % 4 = x \div 64
  PROVE  /\ v \in 0 .. 63 /\ Filled(u, v) \in Nat /\ Filled(u, v) % 256 = x
<1>1. PICK a \in Nat, g \in 0 .. 3 : u = 4 * a + g /\ x = 64 * g + v /\ v \in 0 .. 63
  <2>1. u \div 4 \in Nat /\ x \div 64 \in 0 .. 3 /\ v \in 0 .. 63
    BY DEF Octet
  <2>2. u = 4 * (u \div 4) + (u % 4) /\ x = 64 * (x \div 64) + (x % 64)
    BY DEF Octet
  <2> QED BY <2>1, <2>2
<1>2. u * 64 + v = 256 * a + x /\ x \in 0 .. 255
  BY <1>1 DEF Octet
<1>3. PICK q \in Nat, t \in 0 .. 15 : a = 16 * q + t
  <2>1. a \div 16 \in Nat /\ a % 16 \in 0 .. 15 /\ a = 16 * (a \div 16) + (a % 16)
    OBVIOUS
  <2> QED BY <2>1
<1>4. u * 64 + v = 4096 * q + (256 * t + x) /\ 256 * t + x \in 0 .. 4095
  BY <1>2, <1>3
<1>5. (u * 64 + v) % 4096 = 256 * t + x
  <2>1. PICK f \in Nat : f = 256 * t + x /\ f < 4096
    BY <1>1, <1>2, <1>3, <1>4
  <2>2. (4096 * q + f) % 4096 = f
    BY <1>1, <1>2, <1>3, <1>4, <2>1, LowestTwelve
  <2>3. u * 64 + v = 4096 * q + f
    BY <1>1, <1>2, <1>3, <1>4, <2>1
  <2> QED BY <2>1, <2>2, <2>3
<1>6. (256 * t + x) % 256 = x
  BY <1>2
<1> QED
  BY <1>1, <1>4, <1>5, <1>6 DEF Filled

\* A first character leaves its bits for the second.
FirstBits(u, x, v) ==
  /\ u \in Nat /\ x \in Octet
  /\ v = x \div 4
FirstByte(u, x, v) ==
  /\ Filled(u, v) \in Nat
  /\ Filled(u, v) % 64 = x \div 4

\* The first character of four keeps six bits of the first byte.
LEMMA FirstCompletes ==
  ASSUME NEW u, NEW x, NEW v, FirstBits(u, x, v)
  PROVE  FirstByte(u, x, v)
<1>1. u \in Nat /\ x \in Octet /\ v = x \div 4
  BY DEF FirstBits
<1>2. Filled(u, v) \in Nat
  BY <1>1, FirstSextet
<1>3. Filled(u, v) % 64 = x \div 4
  BY <1>1, FirstSextet
<1> QED
  BY <1>2, <1>3 DEF FirstByte

\* A second one completes a byte, and leaves the rest.
SecondBits(u, x, y, v) ==
  /\ u \in Nat /\ x \in Octet /\ y \in Octet
  /\ v = (x % 4) * 16 + (y \div 16)
  /\ u % 64 = x \div 4
SecondByte(u, x, y, v) ==
  /\ Filled(u, v) \in Nat
  /\ (Filled(u, v) \div 16) % 256 = x
  /\ Filled(u, v) % 16 = y \div 16

\* The second one completes the first byte and keeps four bits of the second.
LEMMA SecondCompletes ==
  ASSUME NEW u, NEW x, NEW y, NEW v, SecondBits(u, x, y, v)
  PROVE  SecondByte(u, x, y, v)
<1>1. u \in Nat /\ x \in Octet /\ y \in Octet /\ v = (x % 4) * 16 + (y \div 16) /\ u % 64 = x \div 4
  BY DEF SecondBits
<1>2. Filled(u, v) \in Nat
  BY <1>1, SecondSextet
<1>3. (Filled(u, v) \div 16) % 256 = x
  BY <1>1, SecondSextet
<1>4. Filled(u, v) % 16 = y \div 16
  BY <1>1, SecondSextet
<1> QED
  BY <1>2, <1>3, <1>4 DEF SecondByte

\* So does a third one.
ThirdBits(u, x, y, v) ==
  /\ u \in Nat /\ x \in Octet /\ y \in Octet
  /\ v = (x % 16) * 4 + (y \div 64)
  /\ u % 16 = x \div 16
ThirdByte(u, x, y, v) ==
  /\ Filled(u, v) \in Nat
  /\ (Filled(u, v) \div 4) % 256 = x
  /\ Filled(u, v) % 4 = y \div 64

\* The third one completes the second byte and keeps two bits of the third.
LEMMA ThirdCompletes ==
  ASSUME NEW u, NEW x, NEW y, NEW v, ThirdBits(u, x, y, v)
  PROVE  ThirdByte(u, x, y, v)
<1>1. u \in Nat /\ x \in Octet /\ y \in Octet /\ v = (x % 16) * 4 + (y \div 64) /\ u % 16 = x \div 16
  BY DEF ThirdBits
<1>2. Filled(u, v) \in Nat
  BY <1>1, ThirdSextet
<1>3. (Filled(u, v) \div 4) % 256 = x
  BY <1>1, ThirdSextet
<1>4. Filled(u, v) % 4 = y \div 64
  BY <1>1, ThirdSextet
<1> QED
  BY <1>2, <1>3, <1>4 DEF ThirdByte

\* A fourth one leaves nothing.
FourthBits(u, x, v) ==
  /\ u \in Nat /\ x \in Octet
  /\ v = x % 64
  /\ u % 4 = x \div 64
FourthByte(u, x, v) ==
  /\ Filled(u, v) \in Nat
  /\ Filled(u, v) % 256 = x

\* The fourth one completes the third byte.
LEMMA FourthCompletes ==
  ASSUME NEW u, NEW x, NEW v, FourthBits(u, x, v)
  PROVE  FourthByte(u, x, v)
<1>1. u \in Nat /\ x \in Octet /\ v = x % 64 /\ u % 4 = x \div 64
  BY DEF FourthBits
<1>2. Filled(u, v) \in Nat
  BY <1>1, FourthSextet
<1>3. Filled(u, v) % 256 = x
  BY <1>1, FourthSextet
<1> QED
  BY <1>2, <1>3 DEF FourthByte

\* Characters without their line ends: a line end leaves their number, any other
\* character is the next one.
LEMMA TakenNext ==
  ASSUME NEW w \in Nat \ {0}, NEW m \in Nat
  PROVE  /\ Taken(w, m) \in 0 .. m
         /\ (m + 1) % (w + 1) = 0 => Taken(w, m + 1) = Taken(w, m)
         /\ (m + 1) % (w + 1) # 0 => Taken(w, m + 1) = Taken(w, m) + 1
<1>1. PICK LW \in Nat \ {0} : LW = w + 1 /\ LW >= 2
  OBVIOUS
<1>2. PICK q \in Nat, r \in 0 .. LW - 1 : m = q * LW + r /\ m \div LW = q /\ q <= m
  <2>1. PICK q \in Int, r \in 0 .. LW - 1 : m = q * LW + r /\ m \div LW = q
    BY DivisionExists, DivisionUnique
  <2>2. q >= 0
    <3> SUFFICES ASSUME q <= -1 PROVE FALSE
      BY <2>1
    <3>1. q * LW <= -LW
      BY <1>1
    <3> QED BY <2>1, <3>1
  <2>3. q <= q * LW
    BY <1>1, <2>2
  <2> QED BY <2>1, <2>2, <2>3
<1>3. CASE r + 1 = LW
  <2>1. m + 1 = (q + 1) * LW + 0
    BY <1>2, <1>3
  <2>2. PICK v \in Int, g \in Int : v = m + 1 /\ g = q + 1 /\ v = g * LW + 0
    BY <2>1
  <2>3. v \div LW = g /\ v % LW = 0
    BY <2>2, 0 \in 0 .. LW - 1, DivisionUnique
  <2>4. Taken(w, m) = m - q /\ Taken(w, m + 1) = v - g
    BY <1>1, <1>2, <2>2, <2>3 DEF Taken
  <2>5. (m + 1) % (w + 1) = 0
    BY <1>1, <2>2, <2>3
  <2>6. v - g = m - q /\ m - q \in 0 .. m
    BY <1>2, <2>2
  <2> QED BY <2>4, <2>5, <2>6
<1>4. CASE r + 1 < LW
  <2>1. m + 1 = q * LW + (r + 1)
    BY <1>2
  <2>2. PICK v \in Int, h \in 1 .. LW - 1 : v = m + 1 /\ h = r + 1 /\ v = q * LW + h
    BY <1>4, <2>1
  <2>3. v \div LW = q /\ v % LW = h
    BY <2>2, h \in 0 .. LW - 1, DivisionUnique
  <2>4. Taken(w, m) = m - q /\ Taken(w, m + 1) = v - q
    BY <1>1, <1>2, <2>2, <2>3 DEF Taken
  <2>5. (m + 1) % (w + 1) = h /\ h # 0
    BY <1>1, <2>2, <2>3
  <2>6. v - q = (m - q) + 1 /\ m - q \in 0 .. m
    BY <1>2, <2>2
  <2> QED BY <2>4, <2>5, <2>6
<1> QED
  BY <1>2, <1>3, <1>4

\* All of them have been taken at the end of the lines.
LEMMA TakenAll ==
  ASSUME NEW w \in Nat \ {0}, NEW n \in Nat
  PROVE  n + (n \div w) \in Nat /\ Taken(w, n + (n \div w)) = n
<1>1. PICK q \in Nat, r \in 0 .. w - 1 : n = q * w + r /\ n \div w = q
  <2>1. PICK q \in Int, r \in 0 .. w - 1 : n = q * w + r /\ n \div w = q
    BY DivisionExists, DivisionUnique
  <2>2. q >= 0
    <3> SUFFICES ASSUME q <= -1 PROVE FALSE
      BY <2>1
    <3>1. q * w <= -w
      OBVIOUS
    <3> QED BY <2>1, <3>1
  <2> QED BY <2>1, <2>2
<1>2. PICK LW \in Nat \ {0} : LW = w + 1
  OBVIOUS
<1>3. PICK v \in Nat : v = n + q
  OBVIOUS
<1>4. v = q * LW + r /\ r \in 0 .. LW - 1
  BY <1>1, <1>2, <1>3
<1>5. v \div LW = q
  BY <1>4, v \in Int, q \in Int, DivisionUnique
<1> QED
  BY <1>1, <1>2, <1>3, <1>5 DEF Taken

\* The value of the character behind c others.
SextetAt(bytes, c) ==
  LET x == ByteAt(bytes, 3 * (c \div 4) + 1)
      y == ByteAt(bytes, 3 * (c \div 4) + 2)
      z == ByteAt(bytes, 3 * (c \div 4) + 3)
  IN CASE c % 4 = 0 -> x \div 4
       [] c % 4 = 1 -> (x % 4) * 16 + (y \div 16)
       [] c % 4 = 2 -> (y % 16) * 4 + (z \div 64)
       [] c % 4 = 3 -> z % 64

\* Behind the end, zeros are taken.
LEMMA ByteAtIsByte == ASSUME NEW bytes \in Seq(Octet), NEW k \in Nat \ {0} PROVE ByteAt(bytes, k) \in Octet
<1>1. CASE k <= Len(bytes)
  BY <1>1, ElementOfSeq DEF ByteAt
<1>2. CASE ~ (k <= Len(bytes))
  BY <1>2 DEF ByteAt, Octet
<1> QED
  BY <1>1, <1>2

\* The parts of a byte that go into characters.
LEMMA ByteParts ==
  ASSUME NEW x \in Octet
  PROVE  x \div 4 \in Nat /\ x % 4 \in Nat /\ x \div 16 \in Nat /\ x % 16 \in Nat /\ x \div 64 \in Nat /\ x % 64 \in Nat
BY DEF Octet

\* The place of a character among the four of its three bytes.
LEMMA Quarters ==
  ASSUME NEW q \in Nat, NEW r \in 0 .. 3
  PROVE  (4 * q + r) \div 4 = q /\ (4 * q + r) % 4 = r
OBVIOUS

\* The values of the four characters of three bytes.
LEMMA SextetValues ==
  ASSUME NEW bytes \in Seq(Octet), NEW q \in Nat, NEW x, NEW y, NEW z,
         x = ByteAt(bytes, 3 * q + 1), y = ByteAt(bytes, 3 * q + 2), z = ByteAt(bytes, 3 * q + 3)
  PROVE  /\ SextetAt(bytes, 4 * q + 0) = x \div 4
         /\ SextetAt(bytes, 4 * q + 1) = (x % 4) * 16 + (y \div 16)
         /\ SextetAt(bytes, 4 * q + 2) = (y % 16) * 4 + (z \div 64)
         /\ SextetAt(bytes, 4 * q + 3) = z % 64
<1>1. ASSUME NEW c, c \div 4 = q
      PROVE  SextetAt(bytes, c) =
               CASE c % 4 = 0 -> x \div 4
                 [] c % 4 = 1 -> (x % 4) * 16 + (y \div 16)
                 [] c % 4 = 2 -> (y % 16) * 4 + (z \div 64)
                 [] c % 4 = 3 -> z % 64
  BY <1>1 DEF SextetAt
<1>2. SextetAt(bytes, 4 * q + 0) = x \div 4
  <2>1. PICK c \in Nat : c = 4 * q + 0
    OBVIOUS
  <2>2. c \div 4 = q /\ c % 4 = 0
    BY <2>1, 0 \in 0 .. 3, Quarters
  <2>3. SextetAt(bytes, c) = x \div 4
    BY <1>1, <2>2
  <2> QED BY <2>1, <2>3
<1>3. SextetAt(bytes, 4 * q + 1) = (x % 4) * 16 + (y \div 16)
  <2>1. PICK c \in Nat : c = 4 * q + 1
    OBVIOUS
  <2>2. c \div 4 = q /\ c % 4 = 1
    BY <2>1, 1 \in 0 .. 3, Quarters
  <2>3. SextetAt(bytes, c) = (x % 4) * 16 + (y \div 16)
    BY <1>1, <2>2
  <2> QED BY <2>1, <2>3
<1>4. SextetAt(bytes, 4 * q + 2) = (y % 16) * 4 + (z \div 64)
  <2>1. PICK c \in Nat : c = 4 * q + 2
    OBVIOUS
  <2>2. c \div 4 = q /\ c % 4 = 2
    BY <2>1, 2 \in 0 .. 3, Quarters
  <2>3. SextetAt(bytes, c) = (y % 16) * 4 + (z \div 64)
    BY <1>1, <2>2
  <2> QED BY <2>1, <2>3
<1>5. SextetAt(bytes, 4 * q + 3) = z % 64
  <2>1. PICK c \in Nat : c = 4 * q + 3
    OBVIOUS
  <2>2. c \div 4 = q /\ c % 4 = 3
    BY <2>1, 3 \in 0 .. 3, Quarters
  <2>3. SextetAt(bytes, c) = z % 64
    BY <1>1, <2>2
  <2> QED BY <2>1, <2>3
<1> QED
  BY <1>2, <1>3, <1>4, <1>5

\* The value of every character is a number.
LEMMA SextetIsNumber == ASSUME NEW bytes \in Seq(Octet), NEW c \in Nat PROVE SextetAt(bytes, c) \in Nat
<1>1. PICK q \in Nat, r \in 0 .. 3 : c = 4 * q + r
  <2>1. c \div 4 \in Nat /\ c % 4 \in 0 .. 3 /\ c = 4 * (c \div 4) + (c % 4)
    OBVIOUS
  <2> QED BY <2>1
<1>2. PICK x \in Octet : x = ByteAt(bytes, 3 * q + 1)
  BY <1>1, 3 * q + 1 \in Nat \ {0}, ByteAtIsByte
<1>3. PICK y \in Octet : y = ByteAt(bytes, 3 * q + 2)
  BY <1>1, 3 * q + 2 \in Nat \ {0}, ByteAtIsByte
<1>4. PICK z \in Octet : z = ByteAt(bytes, 3 * q + 3)
  BY <1>1, 3 * q + 3 \in Nat \ {0}, ByteAtIsByte
<1>5. /\ SextetAt(bytes, 4 * q + 0) = x \div 4
      /\ SextetAt(bytes, 4 * q + 1) = (x % 4) * 16 + (y \div 16)
      /\ SextetAt(bytes, 4 * q + 2) = (y % 16) * 4 + (z \div 64)
      /\ SextetAt(bytes, 4 * q + 3) = z % 64
  BY <1>1, <1>2, <1>3, <1>4, SextetValues
<1>6. x \div 4 \in Nat /\ (x % 4) * 16 + (y \div 16) \in Nat /\ (y % 16) * 4 + (z \div 64) \in Nat /\ z % 64 \in Nat
  <2>1. x \div 4 \in Nat /\ x % 4 \in Nat
    BY <1>2, ByteParts
  <2>2. y \div 16 \in Nat /\ y % 16 \in Nat
    BY <1>3, ByteParts
  <2>3. z \div 64 \in Nat /\ z % 64 \in Nat
    BY <1>4, ByteParts
  <2> QED BY <2>1, <2>2, <2>3
<1>7. r = 0 \/ r = 1 \/ r = 2 \/ r = 3
  BY <1>1
<1> QED
  BY <1>1, <1>5, <1>6, <1>7

\* Characters, as a reader of the file sees them.
Character == {"base64", "-----BEGIN", "-----END", "newline", "=", "label"} \X Nat
Plain == {"base64", "="} \X Nat

\* What pem_read_file looks for is none of what base64 is made of.
LEMMA Markers ==
  /\ {BEGIN, END, NEWLINE, PAD, LABEL} \subseteq Character /\ Plain \subseteq Character
  /\ \A c \in Plain : c \notin {BEGIN, END, NEWLINE, LABEL}
  /\ PAD \in Plain /\ PAD[1] # "base64" /\ NEWLINE[1] # "base64" /\ NEWLINE # PAD /\ END # PAD
  /\ NEWLINE \notin {BEGIN, END} /\ LABEL \notin {BEGIN, END, NEWLINE} /\ BEGIN \notin {NEWLINE, END} /\ END # NEWLINE
BY DEF BEGIN, END, NEWLINE, PAD, LABEL, Other, Character, Plain

\* The characters of bytes, one by one.
LEMMA SextetsProperties ==
  ASSUME NEW bytes \in Seq(Octet), NEW n \in Nat, n = Len(bytes), NEW S \in Nat, S = (4 * n + 2) \div 3
  PROVE  /\ Sextets(bytes) \in Seq(Plain) /\ Len(Sextets(bytes)) = S
         /\ \A c \in 0 .. S - 1 : Sextets(bytes)[c + 1] = <<"base64", SextetAt(bytes, c)>>
<1>1. Sextets(bytes) = [k \in 1 .. S |-> <<"base64", SextetAt(bytes, k - 1)>>]
  BY DEF Sextets, SextetAt, ByteAt
<1>2. ASSUME NEW k \in 1 .. S PROVE <<"base64", SextetAt(bytes, k - 1)>> \in Plain
  <2>1. SextetAt(bytes, k - 1) \in Nat
    BY k - 1 \in Nat, SextetIsNumber
  <2> QED BY <2>1 DEF Plain
<1>3. Sextets(bytes) \in [1 .. S -> Plain]
  BY <1>1, <1>2
<1>4. Sextets(bytes) \in Seq(Plain) /\ Len(Sextets(bytes)) = S
  BY <1>3, SeqDef, LenProperties
<1>5. ASSUME NEW c \in 0 .. S - 1 PROVE Sextets(bytes)[c + 1] = <<"base64", SextetAt(bytes, c)>>
  <2>1. c + 1 \in 1 .. S /\ (c + 1) - 1 = c
    OBVIOUS
  <2> QED BY <1>1, <2>1
<1> QED
  BY <1>4, <1>5

\* Base64: a sextet for every six bits, and padding behind them.
LEMMA Base64Properties ==
  ASSUME NEW bytes \in Seq(Octet), NEW n \in Nat, n = Len(bytes), NEW S \in Nat, S = (4 * n + 2) \div 3
  PROVE  /\ Base64(bytes) \in Seq(Plain) /\ Len(Base64(bytes)) \in Nat /\ S <= Len(Base64(bytes))
         /\ \A c \in 0 .. S - 1 : Base64(bytes)[c + 1] = <<"base64", SextetAt(bytes, c)>>
         /\ \A c \in S .. Len(Base64(bytes)) - 1 : Base64(bytes)[c + 1] = PAD
<1>1. PICK s \in Seq(Plain) : s = Sextets(bytes) /\ Len(s) = S
  BY SextetsProperties
<1>2. PICK h \in Nat : h = (3 - (n % 3)) % 3
  <2>1. n % 3 \in 0 .. 2
    OBVIOUS
  <2>2. (3 - (n % 3)) % 3 \in 0 .. 2
    BY <2>1
  <2> QED BY <2>2
<1>3. PICK t : t = [k \in 1 .. h |-> PAD]
  OBVIOUS
<1>4. t \in Seq(Plain) /\ Len(t) = h
  <2>1. t \in [1 .. h -> Plain]
    BY <1>3, Markers
  <2> QED BY <1>2, <2>1, SeqDef, LenProperties
<1>5. Base64(bytes) = s \o t
  BY <1>1, <1>2, <1>3 DEF Base64
<1>6. PICK u \in Seq(Plain) : u = s \o t
  BY <1>1, <1>4, ConcatProperties
<1>7. Len(u) = S + h /\ \A j \in 1 .. S + h : u[j] = IF j <= S THEN s[j] ELSE t[j - S]
  <2>1. Len(u) = Len(s) + Len(t) /\ \A j \in 1 .. Len(s) + Len(t) : u[j] = IF j <= Len(s) THEN s[j] ELSE t[j - Len(s)]
    BY <1>4, <1>6, ConcatProperties
  <2> QED BY <1>1, <1>4, <2>1
<1>8. ASSUME NEW c \in 0 .. S - 1 PROVE u[c + 1] = <<"base64", SextetAt(bytes, c)>>
  <2>1. PICK j \in 1 .. S + h : j = c + 1 /\ j <= S
    BY <1>2
  <2>2. s[c + 1] = <<"base64", SextetAt(bytes, c)>>
    BY <1>1, SextetsProperties
  <2> QED BY <1>7, <2>1, <2>2
<1>9. ASSUME NEW c \in S .. S + h - 1 PROVE u[c + 1] = PAD
  <2>1. PICK j \in 1 .. S + h : j = c + 1 /\ ~ (j <= S) /\ j - S \in 1 .. h
    BY <1>2
  <2>2. t[j - S] = PAD
    BY <1>3, <2>1
  <2> QED BY <1>7, <2>1, <2>2
<1>10. S + h \in Nat /\ S <= S + h
  BY <1>2
<1>11. Base64(bytes) = u /\ Len(u) = S + h
  BY <1>5, <1>6, <1>7
<1>12. /\ u \in Seq(Plain) /\ Len(u) \in Nat /\ S <= Len(u)
       /\ \A c \in S .. Len(u) - 1 : u[c + 1] = PAD
  BY <1>6, <1>9, <1>10, <1>11
<1> QED
  BY <1>8, <1>11, <1>12

\* The more characters, the more of them are no line ends.
LEMMA TakenMonotone ==
  ASSUME NEW w \in Nat \ {0}, NEW k \in Nat, NEW m \in Nat, k <= m
  PROVE  Taken(w, k) <= Taken(w, m)
<1>1. PICK LW \in Nat \ {0} : LW = w + 1
  OBVIOUS
<1>2. PICK q \in Int, r \in 0 .. LW - 1 : k = q * LW + r /\ k \div LW = q
  <2>1. k \in Int
    OBVIOUS
  <2>2. k \div LW \in Int /\ k % LW \in 0 .. LW - 1 /\ k = (k \div LW) * LW + (k % LW)
    BY <1>1, <2>1, DivisionExists
  <2> QED BY <2>2
<1>3. PICK g \in Int, h \in 0 .. LW - 1 : m = g * LW + h /\ m \div LW = g
  <2>1. m \in Int
    OBVIOUS
  <2>2. m \div LW \in Int /\ m % LW \in 0 .. LW - 1 /\ m = (m \div LW) * LW + (m % LW)
    BY <1>1, <2>1, DivisionExists
  <2> QED BY <2>2
<1>4. Taken(w, k) = q * w + r
  <2>1. Taken(w, k) = k - q
    BY <1>1, <1>2 DEF Taken
  <2>2. q * LW = q * w + q /\ q * w \in Int
    BY <1>1, <1>2
  <2> QED BY <1>2, <2>1, <2>2
<1>5. Taken(w, m) = g * w + h
  <2>1. Taken(w, m) = m - g
    BY <1>1, <1>3 DEF Taken
  <2>2. g * LW = g * w + g /\ g * w \in Int
    BY <1>1, <1>3
  <2> QED BY <1>3, <2>1, <2>2
<1>6. CASE q = g
  <2>1. PICK e \in Int, d \in Int : e = g * LW /\ d = g * w
    BY <1>3
  <2>2. r <= h
    BY <1>2, <1>3, <1>6, <2>1
  <2> QED BY <1>2, <1>3, <1>4, <1>5, <1>6, <2>1, <2>2
<1>7. CASE q >= g + 1
  <2>1. PICK e \in Int, d \in Int, c \in Int : e = q * LW /\ d = g * LW /\ c = (g + 1) * LW
    BY <1>2, <1>3
  <2>2. c = d + LW
    BY <1>1, <1>3, <2>1
  <2>3. PICK j \in Nat : q = g + 1 + j
    <3>1. q - (g + 1) \in Nat
      BY <1>2, <1>3, <1>7
    <3> QED BY <1>2, <1>3, <3>1
  <2>4. e = c + j * LW /\ j * LW \in Nat
    BY <1>1, <1>3, <2>1, <2>3
  <2>5. k >= m + 1
    BY <1>1, <1>2, <1>3, <2>1, <2>2, <2>4
  <2> QED BY <2>5
<1>8. CASE g >= q + 1
  <2>1. PICK e \in Int, d \in Int : e = q * w /\ d = g * w
    BY <1>2, <1>3
  <2>2. PICK j \in Nat : g = q + 1 + j
    <3>1. g - (q + 1) \in Nat
      BY <1>2, <1>3, <1>8
    <3> QED BY <1>2, <1>3, <3>1
  <2>3. d = e + w + j * w /\ j * w \in Nat
    BY <1>2, <2>1, <2>2
  <2> QED BY <1>1, <1>2, <1>3, <1>4, <1>5, <2>1, <2>3
<1> QED
  BY <1>2, <1>3, <1>6, <1>7, <1>8

\* What follows the first m characters of the lines.
OnLine(chars, w, m) ==
  /\ Taken(w, m) \in 0 .. Len(chars)
  /\ (m + 1) % (w + 1) = 0 => Lines(chars, w)[m + 1] = NEWLINE
  /\ (m + 1) % (w + 1) # 0 => Taken(w, m) < Len(chars) /\ Lines(chars, w)[m + 1] = chars[Taken(w, m) + 1]

\* Lines: behind every line's characters its end.
LEMMA LinesProperties ==
  ASSUME NEW chars \in Seq(Plain), NEW w \in Nat \ {0}, NEW L \in Nat, L = Len(chars), NEW N, N = L + (L \div w)
  PROVE  /\ N \in Nat /\ Taken(w, N) = L
         /\ Lines(chars, w) \in Seq(Plain \cup {NEWLINE}) /\ Len(Lines(chars, w)) = N
         /\ \A m \in 0 .. N - 1 : OnLine(chars, w, m)
<1>1. N \in Nat /\ Taken(w, N) = L
  BY TakenAll
<1>2. Lines(chars, w) = [k \in 1 .. N |-> IF k % (w + 1) = 0 THEN NEWLINE ELSE chars[Taken(w, k)]]
  BY DEF Lines, Taken
<1>3. ASSUME NEW m \in 0 .. N - 1
      PROVE  /\ Taken(w, m) \in 0 .. L /\ m + 1 \in 1 .. N
             /\ (m + 1) % (w + 1) # 0 => Taken(w, m) < L /\ Taken(w, m + 1) = Taken(w, m) + 1
  <2>1. PICK M \in Nat : M = m + 1 /\ M <= N /\ m <= N /\ m \in Nat
    BY <1>1
  <2>2. Taken(w, m) <= L /\ Taken(w, M) <= L
    BY <1>1, <2>1, TakenMonotone
  <2>3. /\ Taken(w, m) \in 0 .. m
        /\ (m + 1) % (w + 1) # 0 => Taken(w, m + 1) = Taken(w, m) + 1
    BY <2>1, TakenNext
  <2>4. Taken(w, M) = Taken(w, m + 1)
    BY <2>1
  <2> QED BY <1>1, <2>1, <2>2, <2>3, <2>4
<1>4. ASSUME NEW k \in 1 .. N PROVE (IF k % (w + 1) = 0 THEN NEWLINE ELSE chars[Taken(w, k)]) \in Plain \cup {NEWLINE}
  <2>1. CASE k % (w + 1) = 0
    BY <2>1
  <2>2. CASE k % (w + 1) # 0
    <3>1. PICK m \in 0 .. N - 1 : k = m + 1
      <4>1. k - 1 \in 0 .. N - 1 /\ k = (k - 1) + 1
        BY <1>1
      <4> QED BY <4>1
    <3>2. Taken(w, m) \in 0 .. L /\ Taken(w, m) < L /\ Taken(w, k) = Taken(w, m) + 1
      BY <1>3, <2>2, <3>1
    <3>3. Taken(w, k) \in 1 .. L
      BY <3>2
    <3>4. chars[Taken(w, k)] \in Plain
      BY <3>3, ElementOfSeq
    <3> QED BY <2>2, <3>4
  <2> QED BY <2>1, <2>2
<1>5. Lines(chars, w) \in Seq(Plain \cup {NEWLINE}) /\ Len(Lines(chars, w)) = N
  <2>1. Lines(chars, w) \in [1 .. N -> Plain \cup {NEWLINE}]
    BY <1>2, <1>4
  <2> QED BY <1>1, <2>1, SeqDef, LenProperties
<1>6. ASSUME NEW m \in 0 .. N - 1
      PROVE  /\ (m + 1) % (w + 1) = 0 => Lines(chars, w)[m + 1] = NEWLINE
             /\ (m + 1) % (w + 1) # 0 => Lines(chars, w)[m + 1] = chars[Taken(w, m) + 1]
  <2>1. PICK k \in 1 .. N : k = m + 1
    BY <1>3
  <2>2. Lines(chars, w)[k] = IF k % (w + 1) = 0 THEN NEWLINE ELSE chars[Taken(w, k)]
    BY <1>2
  <2>3. (m + 1) % (w + 1) # 0 => Taken(w, k) = Taken(w, m) + 1
    BY <1>3, <2>1
  <2> QED BY <2>1, <2>2, <2>3
<1>7. ASSUME NEW m \in 0 .. N - 1 PROVE OnLine(chars, w, m)
  BY <1>3, <1>6 DEF OnLine
<1> QED
  BY <1>1, <1>5, <1>7

\* The body has no markers, and no line ends where it lacks them.
LEMMA BodyProperties ==
  ASSUME NEW f \in KeyFiles, NEW N, N = Len(Body(f))
  PROVE  /\ Body(f) \in Seq(Plain \cup {NEWLINE}) /\ N \in Nat
         /\ f.missing = "newline" => \A j \in 1 .. N : Body(f)[j] \in Plain
<1>1. PICK e \in Seq(Octet) : e = Encoded(f)
  BY EncodedProperties
<1>2. PICK n \in Nat : n = Len(e)
  OBVIOUS
<1>3. PICK S \in Nat : S = (4 * n + 2) \div 3
  BY <1>2
<1>4. PICK chars \in Seq(Plain) : chars = Base64(e)
  BY <1>1, <1>2, <1>3, Base64Properties
<1>5. PICK L \in Nat : L = Len(chars)
  OBVIOUS
<1>6. PICK w \in Nat \ {0} : w = f.width
  BY KeyFileProperties
<1>7. Lines(chars, w) \in Seq(Plain \cup {NEWLINE})
  BY <1>4, <1>5, <1>6, LinesProperties
<1>8. Body(f) = IF f.missing = "newline" THEN chars ELSE Lines(chars, w)
  BY <1>1, <1>4, <1>6 DEF Body
<1>9. chars \in Seq(Plain \cup {NEWLINE})
  BY <1>4, SeqMonotonic
<1>10. Body(f) \in Seq(Plain \cup {NEWLINE})
  BY <1>7, <1>8, <1>9
<1>11. N \in Nat
  BY <1>10, LenProperties
<1>12. f.missing = "newline" => \A j \in 1 .. N : Body(f)[j] \in Plain
  BY <1>4, <1>8, ElementOfSeq
<1> QED
  BY <1>10, <1>11, <1>12

\* The file: five characters, the body, and two more.
LEMMA WrittenProperties ==
  ASSUME NEW f \in KeyFiles, f.missing # "file", NEW N, N = Len(Body(f))
  PROVE  /\ Written(f) \in Seq(Character) /\ N \in Nat /\ Len(Written(f)) = 7 + N
         /\ Written(f)[1] = LABEL /\ Written(f)[2] = NEWLINE
         /\ Written(f)[3] = IF f.missing = "begin" THEN LABEL ELSE BEGIN
         /\ Written(f)[4] = LABEL
         /\ Written(f)[5] = IF f.missing = "newline" THEN LABEL ELSE NEWLINE
         /\ \A j \in 1 .. N : Written(f)[5 + j] = Body(f)[j]
         /\ Written(f)[6 + N] = IF f.missing = "end" THEN LABEL ELSE END
         /\ Written(f)[7 + N] = LABEL
<1>1. PICK h : h = Header(f.missing)
  OBVIOUS
<1>2. /\ h \in Seq(Character) /\ Len(h) = 5 /\ h[1] = LABEL /\ h[2] = NEWLINE
      /\ h[3] = (IF f.missing = "begin" THEN LABEL ELSE BEGIN) /\ h[4] = LABEL
      /\ h[5] = IF f.missing = "newline" THEN LABEL ELSE NEWLINE
  BY <1>1, Markers DEF Header
<1>3. PICK t : t = Footer(f.missing)
  OBVIOUS
<1>4. /\ t \in Seq(Character) /\ Len(t) = 2 /\ t[1] = (IF f.missing = "end" THEN LABEL ELSE END) /\ t[2] = LABEL
  BY <1>3, Markers DEF Footer
<1>5. PICK body : body = Body(f)
  OBVIOUS
<1>6. body \in Seq(Character) /\ Len(body) = N /\ N \in Nat
  <2>1. body \in Seq(Plain \cup {NEWLINE}) /\ Len(body) = N /\ N \in Nat
    BY <1>5, BodyProperties
  <2>2. Plain \cup {NEWLINE} \subseteq Character
    BY Markers
  <2> QED BY <2>1, <2>2, SeqMonotonic
<1>7. PICK x : x = h \o body \o t
  OBVIOUS
<1>8. /\ x \in Seq(Character) /\ Len(x) = Len(h) + Len(body) + Len(t)
      /\ \A j \in 1 .. Len(h) : x[j] = h[j]
      /\ \A j \in 1 .. Len(body) : x[Len(h) + j] = body[j]
      /\ \A j \in 1 .. Len(t) : x[Len(h) + Len(body) + j] = t[j]
  <2>1. h \in Seq(Character) /\ body \in Seq(Character) /\ t \in Seq(Character)
    BY <1>2, <1>4, <1>6
  <2> QED BY <1>7, <2>1, ThreeParts
<1>9. /\ Len(x) = 7 + N /\ x[1] = h[1] /\ x[2] = h[2] /\ x[3] = h[3] /\ x[4] = h[4] /\ x[5] = h[5]
  BY <1>2, <1>4, <1>6, <1>8
<1>10. \A j \in 1 .. N : x[5 + j] = body[j]
  BY <1>2, <1>6, <1>8
<1>11. x[6 + N] = t[1] /\ x[7 + N] = t[2]
  <2>1. x[Len(h) + Len(body) + 1] = t[1] /\ x[Len(h) + Len(body) + 2] = t[2]
    BY <1>4, <1>8
  <2>2. Len(h) + Len(body) + 1 = 6 + N /\ Len(h) + Len(body) + 2 = 7 + N
    BY <1>2, <1>6
  <2> QED BY <2>1, <2>2
<1>12. Written(f) = x
  BY <1>1, <1>3, <1>5, <1>7 DEF Written
<1> QED
  BY <1>2, <1>4, <1>5, <1>6, <1>8, <1>9, <1>10, <1>11, <1>12

\* strstr and strchr find the first such character, or none.
LEMMA FindFirst ==
  ASSUME NEW c, NEW k \in Nat, NEW m \in Nat, k <= m, m <= Len(pem), pem[m] = c, Len(pem) \in Nat,
         \A j \in k .. m - 1 : pem[j] # c
  PROVE  Find(c, k) = m
<1> DEFINE T == {j \in k .. Len(pem) : pem[j] = c} \cup {Len(pem) + 1}
<1>1. m \in T /\ T \subseteq Nat
  OBVIOUS
<1>2. \A j \in T : m <= j
  OBVIOUS
<1>3. \A j \in T : (\A g \in T : j <= g) => j = m
  <2> SUFFICES ASSUME NEW j \in T, \A g \in T : j <= g PROVE j = m
    OBVIOUS
  <2>1. j <= m /\ m <= j /\ j \in Nat
    BY <1>1, <1>2
  <2> QED BY <2>1
<1> HIDE DEF T
<1>4. (CHOOSE j \in T : \A g \in T : j <= g) = m
  BY <1>1, <1>2, <1>3
<1>5. Min(T) = m
  BY <1>4 DEF Min
<1> QED
  BY <1>5 DEF Find, T

\* strstr and strchr do not find what is not there.
LEMMA FindNone ==
  ASSUME NEW c, NEW k \in Nat, Len(pem) \in Nat, \A j \in k .. Len(pem) : pem[j] # c
  PROVE  Find(c, k) = Len(pem) + 1
<1>1. {j \in k .. Len(pem) : pem[j] = c} \cup {Len(pem) + 1} = {Len(pem) + 1}
  OBVIOUS
<1>2. PICK e : e = Len(pem) + 1
  OBVIOUS
<1>3. e <= e
  BY <1>2
<1>4. (CHOOSE j \in {e} : \A g \in {e} : j <= g) = e
  BY <1>3
<1>5. Min({e}) = e
  BY <1>4 DEF Min
<1> QED
  BY <1>1, <1>2, <1>5 DEF Find

-----------------------------------------------------------------------------
(* rsa_load_private_key: the file is read. *)

\* The body is found if all that is around it is there.
LEMMA FindBodyKeeps == ASSUME LoadInv, FindBody PROVE LoadInv'
<1> DEFINE begin == Find(BEGIN, 1)
           newline == Find(NEWLINE, begin)
           stop == Find(END, newline + 1)
<1>0. PICK f \in KeyFiles : f = source
  BY DEF LoadInv, Begun, FindBody
<1>1. /\ pem = Written(f) /\ loading = "open" /\ Bounded /\ Begun
      /\ next = 0 /\ end = 0 /\ buf = 0 /\ bits = 0 /\ der = << >> /\ p = 0 /\ numbers = << >>
  BY <1>0 DEF LoadInv, Begun, NothingRead, FindBody
<1>2. UNCHANGED <<source, pem, buf, bits, der, p, numbers>>
  BY DEF FindBody
<1>3. IF pem = Absent \/ stop > Len(pem)
        THEN loading' = "failed" /\ UNCHANGED <<next, end>>
        ELSE loading' = "decode" /\ next' = newline + 1 /\ end' = stop
  BY Zenon DEF FindBody
<1>4. PICK N : N = Len(Body(f))
  OBVIOUS
<1> HIDE DEF begin, newline, stop
<1>5. f.missing = "file" => pem = Absent
  BY <1>1 DEF Written
<1>6. ASSUME f.missing # "file"
      PROVE  /\ pem \in Seq(Character) /\ N \in Nat /\ Len(pem) = 7 + N /\ pem # Absent
             /\ f.missing = "nothing" => begin = 3 /\ newline = 5 /\ stop = 6 + N
             /\ f.missing # "nothing" => stop = 8 + N
  <2>1. /\ pem \in Seq(Character) /\ N \in Nat /\ Len(pem) = 7 + N
        /\ pem[1] = LABEL /\ pem[2] = NEWLINE
        /\ pem[3] = (IF f.missing = "begin" THEN LABEL ELSE BEGIN)
        /\ pem[4] = LABEL
        /\ pem[5] = (IF f.missing = "newline" THEN LABEL ELSE NEWLINE)
        /\ \A j \in 1 .. N : pem[5 + j] = Body(f)[j]
        /\ pem[6 + N] = (IF f.missing = "end" THEN LABEL ELSE END)
        /\ pem[7 + N] = LABEL
    BY <1>1, <1>4, <1>6, WrittenProperties
  <2>2. ASSUME NEW j \in 6 .. 5 + N
        PROVE  pem[j] \in Plain \cup {NEWLINE} /\ (f.missing = "newline" => pem[j] \in Plain)
    <3>1. PICK m \in 1 .. N : j = 5 + m
      <4>1. j - 5 \in 1 .. N /\ j = 5 + (j - 5)
        BY <2>1
      <4> QED BY <4>1
    <3>2. pem[j] = Body(f)[m]
      BY <2>1, <3>1
    <3>3. Body(f)[m] \in Plain \cup {NEWLINE} /\ (f.missing = "newline" => Body(f)[m] \in Plain)
      BY <1>4, BodyProperties, ElementOfSeq
    <3> QED BY <3>2, <3>3
  <2>3. \A j \in 6 .. 5 + N : pem[j] # BEGIN /\ pem[j] # END /\ (f.missing = "newline" => pem[j] # NEWLINE)
    BY <2>2, Markers
  <2>4. ASSUME NEW j \in 1 .. 7 + N
        PROVE  j = 1 \/ j = 2 \/ j = 3 \/ j = 4 \/ j = 5 \/ j \in 6 .. 5 + N \/ j = 6 + N \/ j = 7 + N
    BY <2>1
  <2>5. pem # Absent
    BY <2>1 DEF Absent
  <2>6. CASE f.missing = "begin"
    <3>1. ASSUME NEW j \in 1 .. Len(pem) PROVE pem[j] # BEGIN
      BY <2>1, <2>3, <2>4, <2>6, Markers
    <3>2. begin = 8 + N
      <4>1. Find(BEGIN, 1) = Len(pem) + 1
        BY <2>1, <3>1, FindNone
      <4> QED BY <2>1, <4>1 DEF begin
    <3>3. newline = 8 + N
      <4>1. 8 + N \in Nat /\ \A j \in 8 + N .. Len(pem) : pem[j] # NEWLINE
        BY <2>1
      <4>2. Find(NEWLINE, 8 + N) = Len(pem) + 1
        BY <2>1, <4>1, FindNone
      <4> QED BY <2>1, <3>2, <4>2 DEF newline
    <3>4. stop = 8 + N
      <4>1. 9 + N \in Nat /\ \A j \in 9 + N .. Len(pem) : pem[j] # END
        BY <2>1
      <4>2. Find(END, 9 + N) = Len(pem) + 1
        BY <2>1, <4>1, FindNone
      <4>3. newline + 1 = 9 + N
        BY <2>1, <3>3
      <4> QED BY <2>1, <4>2, <4>3 DEF stop
    <3> QED BY <2>1, <2>5, <2>6, <3>4
  <2>7. CASE f.missing # "begin"
    <3>1. begin = 3
      <4>1. \A j \in 1 .. 3 - 1 : pem[j] # BEGIN
        <5>1. \A j \in 1 .. 3 - 1 : j = 1 \/ j = 2
          OBVIOUS
        <5> QED BY <2>1, <5>1, Markers
      <4>2. 1 \in Nat /\ 3 \in Nat /\ 1 <= 3 /\ 3 <= Len(pem) /\ pem[3] = BEGIN /\ Len(pem) \in Nat
        BY <2>1, <2>7
      <4>3. Find(BEGIN, 1) = 3
        BY <4>1, <4>2, FindFirst
      <4> QED BY <4>3 DEF begin
    <3>2. CASE f.missing = "newline"
      <4>1. ASSUME NEW j \in 3 .. Len(pem) PROVE pem[j] # NEWLINE
        BY <2>1, <2>3, <2>4, <2>7, <3>2, Markers
      <4>2. newline = 8 + N
        <5>1. Find(NEWLINE, 3) = Len(pem) + 1
          BY <2>1, <4>1, FindNone
        <5> QED BY <2>1, <3>1, <5>1 DEF newline
      <4>3. stop = 8 + N
        <5>1. 9 + N \in Nat /\ \A j \in 9 + N .. Len(pem) : pem[j] # END
          BY <2>1
        <5>2. Find(END, 9 + N) = Len(pem) + 1
          BY <2>1, <5>1, FindNone
        <5>3. newline + 1 = 9 + N
          BY <2>1, <4>2
        <5> QED BY <2>1, <5>2, <5>3 DEF stop
      <4> QED BY <2>1, <2>5, <3>2, <4>3
    <3>3. CASE f.missing # "newline"
      <4>1. newline = 5
        <5>1. \A j \in 3 .. 5 - 1 : pem[j] # NEWLINE
          <6>1. \A j \in 3 .. 5 - 1 : j = 3 \/ j = 4
            OBVIOUS
          <6> QED BY <2>1, <2>7, <6>1, Markers
        <5>2. 3 \in Nat /\ 5 \in Nat /\ 3 <= 5 /\ 5 <= Len(pem) /\ pem[5] = NEWLINE /\ Len(pem) \in Nat
          BY <2>1, <3>3
        <5>3. Find(NEWLINE, 3) = 5
          BY <5>1, <5>2, FindFirst
        <5> QED BY <3>1, <5>3 DEF newline
      <4>2. CASE f.missing = "end"
        <5>1. ASSUME NEW j \in 6 .. Len(pem) PROVE pem[j] # END
          <6>1. j \in 6 .. 5 + N \/ j = 6 + N \/ j = 7 + N
            BY <2>1
          <6> QED BY <2>1, <2>3, <4>2, <6>1, Markers
        <5>2. Find(END, 6) = Len(pem) + 1
          BY <2>1, <5>1, FindNone
        <5>3. stop = 8 + N
          BY <2>1, <4>1, <5>2 DEF stop
        <5> QED BY <2>1, <2>5, <4>2, <5>3
      <4>3. CASE f.missing # "end"
        <5>1. \A j \in 6 .. (6 + N) - 1 : pem[j] # END
          <6>1. (6 + N) - 1 = 5 + N
            BY <2>1
          <6> QED BY <2>3, <6>1
        <5>2. 6 \in Nat /\ 6 + N \in Nat /\ 6 <= 6 + N /\ 6 + N <= Len(pem) /\ pem[6 + N] = END /\ Len(pem) \in Nat
          BY <2>1, <4>3
        <5>3. Find(END, 6) = 6 + N
          BY <5>1, <5>2, FindFirst
        <5>4. stop = 6 + N
          BY <4>1, <5>3 DEF stop
        <5>5. f.missing = "nothing"
          BY <1>6, <2>7, <3>3, <4>3, KeyFileProperties
        <5> QED BY <2>1, <2>5, <3>1, <4>1, <5>4, <5>5
      <4> QED BY <4>2, <4>3
    <3> QED BY <3>2, <3>3
  <2> QED BY <2>6, <2>7
<1>7. CASE f.missing # "nothing"
  <2>1. pem = Absent \/ stop > Len(pem)
    <3>1. CASE f.missing = "file"
      BY <1>5, <3>1
    <3>2. CASE f.missing # "file"
      <4>1. N \in Nat /\ Len(pem) = 7 + N /\ stop = 8 + N
        BY <1>6, <1>7, <3>2
      <4> QED BY <4>1
    <3> QED BY <3>1, <3>2
  <2>2. loading' = "failed" /\ next' = next /\ end' = end
    BY <1>3, <2>1
  <2>3. ~ Readable(source)
    BY <1>0, <1>7 DEF Readable
  <2>4. Bounded'
    BY <1>1, <1>2, <2>2 DEF Bounded
  <2> QED BY <1>1, <1>2, <2>2, <2>3, <2>4, Refuses
<1>8. CASE f.missing = "nothing"
  <2>1. /\ pem \in Seq(Character) /\ N \in Nat /\ Len(pem) = 7 + N /\ pem # Absent
        /\ newline = 5 /\ stop = 6 + N
    BY <1>6, <1>8
  <2>2. loading' = "decode" /\ next' = 6 /\ end' = 6 + N
    <3>1. ~ (pem = Absent \/ stop > Len(pem))
      BY <2>1
    <3> QED BY <1>3, <2>1, <3>1
  <2>3. PICK e \in Seq(Octet) : e = Encoded(f)
    BY EncodedProperties
  <2>4. PICK n \in Nat, S \in Nat : n = Len(e) /\ S = (4 * n + 2) \div 3
    <3>1. Len(e) \in Nat /\ (4 * Len(e) + 2) \div 3 \in Nat
      OBVIOUS
    <3> QED BY <3>1
  <2>5. Decodes(e, 0)'
    <3>1. Len(Sextets(e)) = S /\ S \in Nat
      BY <2>3, <2>4, SextetsProperties
    <3>2. SubSeq(e, 1, 0) = << >>
      BY SubSeqEmpty
    <3>3. (3 * 0) \div 4 = 0 /\ (6 * 0) % 8 = 0 /\ 0 % 4 = 0
      OBVIOUS
    <3>4. der' = << >> /\ bits' = 0 /\ buf' = 0
      BY <1>1, <1>2
    <3>5. 0 \in 0 .. Len(Sextets(e))
      BY <3>1
    <3> QED BY <3>2, <3>3, <3>4, <3>5 DEF Decodes
  <2>6. Taken(f.width, 6 - 6) = 0
    <3>1. PICK w \in Nat \ {0} : w = f.width
      BY KeyFileProperties
    <3>2. 0 \div (w + 1) = 0
      BY <3>1
    <3>3. Taken(w, 0) = 0
      BY <3>2 DEF Taken
    <3> QED BY <3>1, <3>3
  <2>7. Decoding'
    <3>1. source'.missing = "nothing" /\ p' = 0 /\ numbers' = << >>
      BY <1>0, <1>1, <1>2, <1>8
    <3>2. end' = 6 + Len(Body(source')) /\ next' \in 6 .. end'
      BY <1>0, <1>2, <1>4, <2>1, <2>2
    <3>3. Decodes(Encoded(source), Taken(source.width, next - 6))'
      <4>1. Taken(source'.width, next' - 6) = 0 /\ Encoded(source') = e
        BY <1>0, <1>2, <2>2, <2>3, <2>6
      <4> QED BY <2>5, <4>1 DEF Decodes
    <3> QED BY <3>1, <3>2, <3>3 DEF Decoding
  <2>8. Bounded'
    BY <1>1, <1>2, <2>1, <2>2 DEF Bounded
  <2>9. Begun' /\ NothingRead' /\ Decoded' /\ Refused'
    <3>1. Begun'
      BY <1>0, <1>1, <1>2 DEF Begun
    <3>2. NothingRead' /\ Decoded' /\ Refused'
      BY <2>2 DEF NothingRead, Decoded, Refused
    <3> QED BY <3>1, <3>2
  <2> QED BY <2>2, <2>7, <2>8, <2>9 DEF LoadInv
<1> QED
  BY <1>7, <1>8

\* One more byte of a beginning.
LEMMA OneMore ==
  ASSUME NEW e \in Seq(Octet), NEW d \in Nat, d < Len(e)
  PROVE  /\ SubSeq(e, 1, d) \in Seq(Octet) /\ Len(SubSeq(e, 1, d)) = d /\ e[d + 1] \in Octet
         /\ Append(SubSeq(e, 1, d), e[d + 1]) = SubSeq(e, 1, d + 1)
<1>1. PICK k \in 1 .. Len(e) : k = d + 1
  OBVIOUS
<1>2. 1 \in 1 .. Len(e) /\ k \in 1 .. Len(e) /\ k - 1 = d
  BY <1>1
<1>3. SubSeq(e, 1, k) = SubSeq(e, 1, k - 1) \o <<e[k]>>
  BY <1>2, SubSeqRecursiveSecond
<1>4. \A j \in 1 .. d : e[j] \in Octet
  BY <1>2, ElementOfSeq
<1>5. 1 \in Int /\ d \in Int
  OBVIOUS
<1>6. SubSeq(e, 1, d) \in Seq(Octet) /\ Len(SubSeq(e, 1, d)) = IF 1 <= d THEN d - 1 + 1 ELSE 0
  BY <1>4, <1>5, SubSeqProperties
<1>7. e[k] \in Octet
  BY <1>2, ElementOfSeq
<1>8. PICK t \in Seq(Octet) : t = SubSeq(e, 1, d)
  BY <1>6
<1>9. Append(t, e[k]) = t \o <<e[k]>>
  BY <1>7, AppendIsConcat
<1>10. SubSeq(e, 1, k - 1) = t
  BY <1>2, <1>8
<1> QED
  BY <1>1, <1>3, <1>6, <1>7, <1>8, <1>9, <1>10

\* How many sextets hold n bytes.
SextetCount(n) == (4 * n + 2) \div 3

\* The first character of four leaves its bits for the second.
LEMMA FirstOfFour ==
  ASSUME NEW e \in Seq(Octet), NEW n \in Nat, n = Len(e), NEW S \in Nat, S = SextetCount(n), Len(Sextets(e)) = S,
         NEW q \in Nat, NEW c, c = 4 * q, c < S, Decodes(e, c)
  PROVE  /\ bits = 0
         /\ LET filled == Filled(buf, SextetAt(e, c))
            IN  buf' = filled /\ bits' = 6 /\ der' = der => Decodes(e, c + 1)'
<1>1. /\ der = SubSeq(e, 1, (3 * c) \div 4) /\ bits = (6 * c) % 8 /\ buf \in Nat
  BY DEF Decodes
<1>2. (3 * c) \div 4 = 3 * q /\ (6 * c) % 8 = 0 /\ (3 * (c + 1)) \div 4 = 3 * q /\ (6 * (c + 1)) % 8 = 6
  OBVIOUS
<1>3. (c + 1) % 4 = 1 /\ (c + 1) \div 4 = q /\ c + 1 \in 0 .. S
  BY DEF SextetCount
<1>4. PICK x \in Octet : x = ByteAt(e, 3 * q + 1)
  BY 3 * q + 1 \in Nat \ {0}, ByteAtIsByte
<1>5. SextetAt(e, c) = x \div 4
  <2>1. SextetAt(e, 4 * q + 0) = x \div 4
    BY <1>4, SextetValues
  <2>2. 4 * q + 0 = c
    OBVIOUS
  <2> QED BY <2>1, <2>2
<1>6. PICK u \in Nat : u = buf
  BY <1>1
<1>6a. PICK v : v = x \div 4
  OBVIOUS
<1>7. Filled(u, v) \in Nat /\ Filled(u, v) % 64 = x \div 4
  <2>1. FirstBits(u, x, v)
    BY <1>4, <1>6, <1>6a DEF FirstBits
  <2>2. FirstByte(u, x, v)
    BY <2>1, FirstCompletes
  <2> QED BY <2>2, <1>6a DEF FirstByte
<1>8. ASSUME buf' = Filled(buf, SextetAt(e, c)), bits' = 6, der' = der PROVE Decodes(e, c + 1)'
  <2>1. buf' \in Nat /\ buf' % 64 = x \div 4
    BY <1>5, <1>6, <1>6a, <1>7, <1>8
  <2>2. ByteAt(e, 3 * ((c + 1) \div 4) + 1) = x
    BY <1>3, <1>4
  <2>3. der' = SubSeq(e, 1, (3 * (c + 1)) \div 4) /\ bits' = (6 * (c + 1)) % 8
    BY <1>1, <1>2, <1>8
  <2>4. c + 1 \in 0 .. Len(Sextets(e))
    BY <1>3
  <2>5. (c + 1) % 4 # 2 /\ (c + 1) % 4 # 3
    BY <1>3
  <2> QED BY <2>1, <2>2, <2>3, <2>4, <2>5 DEF Decodes
<1> QED
  BY <1>1, <1>2, <1>8

\* Every other one completes a byte.
LEMMA SecondOfFour ==
  ASSUME NEW e \in Seq(Octet), NEW n \in Nat, n = Len(e), NEW S \in Nat, S = SextetCount(n), Len(Sextets(e)) = S,
         NEW q \in Nat, NEW c, c = 4 * q + 1, c < S, Decodes(e, c)
  PROVE  /\ bits = 6 /\ Len(der) \in Nat /\ Len(der) < n
         /\ LET filled == Filled(buf, SextetAt(e, c))
            IN  buf' = filled /\ bits' = 4 /\ der' = Append(der, (filled \div 16) % 256) => Decodes(e, c + 1)'
<1>1. /\ der = SubSeq(e, 1, (3 * c) \div 4) /\ bits = (6 * c) % 8 /\ buf \in Nat
      /\ c % 4 = 1 => buf % 64 = ByteAt(e, 3 * (c \div 4) + 1) \div 4
  BY DEF Decodes
<1>2. (3 * c) \div 4 = 3 * q /\ (6 * c) % 8 = 6 /\ (3 * (c + 1)) \div 4 = 3 * q + 1 /\ (6 * (c + 1)) % 8 = 4
  OBVIOUS
<1>3. c % 4 = 1 /\ c \div 4 = q /\ (c + 1) % 4 = 2 /\ (c + 1) \div 4 = q /\ c + 1 \in 0 .. S /\ 3 * q < n
  BY DEF SextetCount
<1>4. PICK x \in Octet : x = ByteAt(e, 3 * q + 1)
  BY 3 * q + 1 \in Nat \ {0}, ByteAtIsByte
<1>5. PICK y \in Octet : y = ByteAt(e, 3 * q + 2)
  BY 3 * q + 2 \in Nat \ {0}, ByteAtIsByte
<1>6. PICK v : v = (x % 4) * 16 + (y \div 16)
  OBVIOUS
<1>7. SextetAt(e, c) = v
  BY <1>4, <1>5, <1>6, SextetValues
<1>8. PICK u \in Nat : u = buf /\ u % 64 = x \div 4
  BY <1>1, <1>3, <1>4
<1>9. /\ Filled(u, v) \in Nat /\ (Filled(u, v) \div 16) % 256 = x
      /\ Filled(u, v) % 16 = y \div 16
  <2>1. SecondBits(u, x, y, v)
    BY <1>4, <1>5, <1>6, <1>8 DEF SecondBits
  <2>2. SecondByte(u, x, y, v)
    BY <2>1, SecondCompletes
  <2> QED BY <2>2 DEF SecondByte
<1>10. PICK d \in Nat : d = 3 * q /\ d < n
  BY <1>3
<1>11. Len(der) = d /\ e[d + 1] = x /\ Append(der, x) = SubSeq(e, 1, d + 1)
  <2>1. der = SubSeq(e, 1, d)
    BY <1>1, <1>2, <1>10
  <2>2. Len(SubSeq(e, 1, d)) = d /\ Append(SubSeq(e, 1, d), e[d + 1]) = SubSeq(e, 1, d + 1)
    BY <1>10, OneMore
  <2>3. e[d + 1] = x
    BY <1>4, <1>10 DEF ByteAt
  <2> QED BY <2>1, <2>2, <2>3
<1>12. ASSUME NEW filled, filled = Filled(buf, SextetAt(e, c)),
              buf' = filled, bits' = 4, der' = Append(der, (filled \div 16) % 256)
       PROVE  Decodes(e, c + 1)'
  <2>0. filled = Filled(u, v)
    BY <1>7, <1>8, <1>12
  <2>1. buf' \in Nat /\ buf' % 16 = y \div 16 /\ der' = Append(der, x)
    BY <1>9, <1>12, <2>0
  <2>2. ByteAt(e, 3 * ((c + 1) \div 4) + 2) = y
    BY <1>3, <1>5
  <2>3. der' = SubSeq(e, 1, (3 * (c + 1)) \div 4) /\ bits' = (6 * (c + 1)) % 8
    BY <1>2, <1>10, <1>11, <1>12, <2>1
  <2>4. c + 1 \in 0 .. Len(Sextets(e))
    BY <1>3
  <2>5. (c + 1) % 4 # 1 /\ (c + 1) % 4 # 3
    BY <1>3
  <2> QED BY <2>1, <2>2, <2>3, <2>4, <2>5 DEF Decodes
<1> QED
  BY <1>1, <1>2, <1>10, <1>11, <1>12

\* As the second one.
LEMMA ThirdOfFour ==
  ASSUME NEW e \in Seq(Octet), NEW n \in Nat, n = Len(e), NEW S \in Nat, S = SextetCount(n), Len(Sextets(e)) = S,
         NEW q \in Nat, NEW c, c = 4 * q + 2, c < S, Decodes(e, c)
  PROVE  /\ bits = 4 /\ Len(der) \in Nat /\ Len(der) < n
         /\ LET filled == Filled(buf, SextetAt(e, c))
            IN  buf' = filled /\ bits' = 2 /\ der' = Append(der, (filled \div 4) % 256) => Decodes(e, c + 1)'
<1>1. /\ der = SubSeq(e, 1, (3 * c) \div 4) /\ bits = (6 * c) % 8 /\ buf \in Nat
      /\ c % 4 = 2 => buf % 16 = ByteAt(e, 3 * (c \div 4) + 2) \div 16
  BY DEF Decodes
<1>2. (3 * c) \div 4 = 3 * q + 1 /\ (6 * c) % 8 = 4 /\ (3 * (c + 1)) \div 4 = 3 * q + 2 /\ (6 * (c + 1)) % 8 = 2
  OBVIOUS
<1>3. c % 4 = 2 /\ c \div 4 = q /\ (c + 1) % 4 = 3 /\ (c + 1) \div 4 = q /\ c + 1 \in 0 .. S /\ 3 * q + 1 < n
  BY DEF SextetCount
<1>4. PICK x \in Octet : x = ByteAt(e, 3 * q + 2)
  BY 3 * q + 2 \in Nat \ {0}, ByteAtIsByte
<1>5. PICK y \in Octet : y = ByteAt(e, 3 * q + 3)
  BY 3 * q + 3 \in Nat \ {0}, ByteAtIsByte
<1>6. PICK v : v = (x % 16) * 4 + (y \div 64)
  OBVIOUS
<1>7. SextetAt(e, c) = v
  BY <1>4, <1>5, <1>6, SextetValues
<1>8. PICK u \in Nat : u = buf /\ u % 16 = x \div 16
  BY <1>1, <1>3, <1>4
<1>9. /\ Filled(u, v) \in Nat /\ (Filled(u, v) \div 4) % 256 = x
      /\ Filled(u, v) % 4 = y \div 64
  <2>1. ThirdBits(u, x, y, v)
    BY <1>4, <1>5, <1>6, <1>8 DEF ThirdBits
  <2>2. ThirdByte(u, x, y, v)
    BY <2>1, ThirdCompletes
  <2> QED BY <2>2 DEF ThirdByte
<1>10. PICK d \in Nat : d = 3 * q + 1 /\ d < n
  BY <1>3
<1>11. Len(der) = d /\ e[d + 1] = x /\ Append(der, x) = SubSeq(e, 1, d + 1)
  <2>1. der = SubSeq(e, 1, d)
    BY <1>1, <1>2, <1>10
  <2>2. Len(SubSeq(e, 1, d)) = d /\ Append(SubSeq(e, 1, d), e[d + 1]) = SubSeq(e, 1, d + 1)
    BY <1>10, OneMore
  <2>3. e[d + 1] = x
    <3>1. d + 1 = 3 * q + 2 /\ d + 1 <= Len(e)
      BY <1>10
    <3> QED BY <1>4, <3>1 DEF ByteAt
  <2> QED BY <2>1, <2>2, <2>3
<1>12. ASSUME NEW filled, filled = Filled(buf, SextetAt(e, c)),
              buf' = filled, bits' = 2, der' = Append(der, (filled \div 4) % 256)
       PROVE  Decodes(e, c + 1)'
  <2>0. filled = Filled(u, v)
    BY <1>7, <1>8, <1>12
  <2>1. buf' \in Nat /\ buf' % 4 = y \div 64 /\ der' = Append(der, x)
    BY <1>9, <1>12, <2>0
  <2>2. ByteAt(e, 3 * ((c + 1) \div 4) + 3) = y
    BY <1>3, <1>5
  <2>3. der' = SubSeq(e, 1, (3 * (c + 1)) \div 4) /\ bits' = (6 * (c + 1)) % 8
    <3>1. d + 1 = 3 * q + 2
      BY <1>10
    <3> QED BY <1>2, <1>11, <1>12, <2>1, <3>1
  <2>4. c + 1 \in 0 .. Len(Sextets(e))
    BY <1>3
  <2>5. (c + 1) % 4 # 1 /\ (c + 1) % 4 # 2
    BY <1>3
  <2> QED BY <2>1, <2>2, <2>3, <2>4, <2>5 DEF Decodes
<1> QED
  BY <1>1, <1>2, <1>10, <1>11, <1>12

\* As the second one.
LEMMA FourthOfFour ==
  ASSUME NEW e \in Seq(Octet), NEW n \in Nat, n = Len(e), NEW S \in Nat, S = SextetCount(n), Len(Sextets(e)) = S,
         NEW q \in Nat, NEW c, c = 4 * q + 3, c < S, Decodes(e, c)
  PROVE  /\ bits = 2 /\ Len(der) \in Nat /\ Len(der) < n
         /\ LET filled == Filled(buf, SextetAt(e, c))
            IN  buf' = filled /\ bits' = 0 /\ der' = Append(der, (filled \div 1) % 256) => Decodes(e, c + 1)'
<1>1. /\ der = SubSeq(e, 1, (3 * c) \div 4) /\ bits = (6 * c) % 8 /\ buf \in Nat
      /\ c % 4 = 3 => buf % 4 = ByteAt(e, 3 * (c \div 4) + 3) \div 64
  BY DEF Decodes
<1>2. (3 * c) \div 4 = 3 * q + 2 /\ (6 * c) % 8 = 2 /\ (3 * (c + 1)) \div 4 = 3 * q + 3 /\ (6 * (c + 1)) % 8 = 0
  OBVIOUS
<1>3. c % 4 = 3 /\ c \div 4 = q /\ (c + 1) % 4 = 0 /\ c + 1 \in 0 .. S /\ 3 * q + 2 < n
  BY DEF SextetCount
<1>4. PICK x \in Octet : x = ByteAt(e, 3 * q + 3)
  BY 3 * q + 3 \in Nat \ {0}, ByteAtIsByte
<1>6. PICK v : v = x % 64
  OBVIOUS
<1>7. SextetAt(e, c) = v
  BY <1>4, <1>6, SextetValues
<1>8. PICK u \in Nat : u = buf /\ u % 4 = x \div 64
  BY <1>1, <1>3, <1>4
<1>9. /\ Filled(u, v) \in Nat /\ Filled(u, v) % 256 = x
  <2>1. FourthBits(u, x, v)
    BY <1>4, <1>6, <1>8 DEF FourthBits
  <2>2. FourthByte(u, x, v)
    BY <2>1, FourthCompletes
  <2> QED BY <2>2 DEF FourthByte
<1>10. PICK d \in Nat : d = 3 * q + 2 /\ d < n
  BY <1>3
<1>11. Len(der) = d /\ e[d + 1] = x /\ Append(der, x) = SubSeq(e, 1, d + 1)
  <2>1. der = SubSeq(e, 1, d)
    BY <1>1, <1>2, <1>10
  <2>2. Len(SubSeq(e, 1, d)) = d /\ Append(SubSeq(e, 1, d), e[d + 1]) = SubSeq(e, 1, d + 1)
    BY <1>10, OneMore
  <2>3. e[d + 1] = x
    <3>1. d + 1 = 3 * q + 3 /\ d + 1 <= Len(e)
      BY <1>10
    <3> QED BY <1>4, <3>1 DEF ByteAt
  <2> QED BY <2>1, <2>2, <2>3
<1>12. ASSUME NEW filled, filled = Filled(buf, SextetAt(e, c)),
              buf' = filled, bits' = 0, der' = Append(der, (filled \div 1) % 256)
       PROVE  Decodes(e, c + 1)'
  <2>0. filled = Filled(u, v)
    BY <1>7, <1>8, <1>12
  <2>1. buf' \in Nat /\ der' = Append(der, x)
    <3>1. filled \in Nat /\ filled % 256 = x
      BY <1>9, <2>0
    <3>2. filled \div 1 = filled
      BY <3>1
    <3> QED BY <1>12, <3>1, <3>2
  <2>3. der' = SubSeq(e, 1, (3 * (c + 1)) \div 4) /\ bits' = (6 * (c + 1)) % 8
    <3>1. d + 1 = 3 * q + 3
      BY <1>10
    <3> QED BY <1>2, <1>11, <1>12, <2>1, <3>1
  <2>4. c + 1 \in 0 .. Len(Sextets(e))
    BY <1>3
  <2>5. (c + 1) % 4 # 1 /\ (c + 1) % 4 # 2 /\ (c + 1) % 4 # 3
    BY <1>3
  <2> QED BY <2>1, <2>3, <2>4, <2>5 DEF Decodes
<1> QED
  BY <1>1, <1>2, <1>10, <1>11, <1>12

\* Where base64_decode is: behind m characters of the body, of which c are no
\* line ends; and what the next one is.
Reads(e, n, S, w, m, c) ==
  /\ e \in Seq(Octet) /\ e = Encoded(source) /\ n \in Nat /\ n = Len(e) /\ S \in Nat /\ S = SextetCount(n)
  /\ Len(Sextets(e)) = S /\ w \in Nat \ {0} /\ w = source.width
  /\ m \in Nat /\ next = 6 + m /\ c \in 0 .. S /\ c = Taken(w, m) /\ Decodes(e, c)
  /\ end \in Nat /\ next <= end /\ end < Len(pem) /\ Len(pem) \in Nat
  /\ next = end => c = S
  /\ next < end =>
       \/ pem[next] = NEWLINE /\ Taken(w, m + 1) = c
       \/ /\ Taken(w, m + 1) = c + 1
          /\ c < S => pem[next] = <<"base64", SextetAt(e, c)>>
          /\ ~ (c < S) => pem[next] = PAD

\* A decoding that goes on is at a place of a body made as Base64 and Lines say.
LEMMA Reading ==
  ASSUME LoadInv, loading = "decode"
  PROVE  \E e, n, S, w, m, c : Reads(e, n, S, w, m, c)
<1>0. PICK f \in KeyFiles : f = source
  BY DEF LoadInv, Begun
<1>1. PICK N, w, e, chars : N = Len(Body(f)) /\ w = f.width /\ e = Encoded(f) /\ chars = Base64(e)
  OBVIOUS
<1>2. /\ f.missing = "nothing" /\ p = 0 /\ numbers = << >> /\ end = 6 + N /\ next \in 6 .. end
      /\ Decodes(e, Taken(w, next - 6)) /\ pem = Written(f)
  BY <1>0, <1>1 DEF LoadInv, Decoding, Begun
<1>3. w \in Nat \ {0} /\ e \in Seq(Octet)
  BY <1>1, KeyFileProperties, EncodedProperties
<1>4. PICK n \in Nat, S \in Nat : n = Len(e) /\ S = (4 * n + 2) \div 3
  <2>1. Len(e) \in Nat /\ (4 * Len(e) + 2) \div 3 \in Nat
    BY <1>3
  <2> QED BY <2>1
<1>5. Len(Sextets(e)) = S
  BY <1>3, <1>4, SextetsProperties
<1>6. PICK L \in Nat : /\ chars \in Seq(Plain) /\ L = Len(chars) /\ S <= L
                       /\ \A c \in 0 .. S - 1 : chars[c + 1] = <<"base64", SextetAt(e, c)>>
                       /\ \A c \in S .. L - 1 : chars[c + 1] = PAD
  <2>1. /\ chars \in Seq(Plain) /\ Len(chars) \in Nat /\ S <= Len(chars)
        /\ \A c \in 0 .. S - 1 : chars[c + 1] = <<"base64", SextetAt(e, c)>>
        /\ \A c \in S .. Len(chars) - 1 : chars[c + 1] = PAD
    <3>1. /\ Base64(e) \in Seq(Plain) /\ Len(Base64(e)) \in Nat /\ S <= Len(Base64(e))
          /\ \A c \in 0 .. S - 1 : Base64(e)[c + 1] = <<"base64", SextetAt(e, c)>>
          /\ \A c \in S .. Len(Base64(e)) - 1 : Base64(e)[c + 1] = PAD
      BY <1>3, <1>4, Base64Properties
    <3> QED BY <1>1, <3>1
  <2> QED BY <2>1
<1>7. PICK M : M = L + (L \div w)
  OBVIOUS
<1>8. Body(f) = Lines(chars, w)
  BY <1>1, <1>2 DEF Body
<1>9. /\ M \in Nat /\ Taken(w, M) = L /\ Len(Lines(chars, w)) = M
      /\ \A m \in 0 .. M - 1 : OnLine(chars, w, m)
  <2>1. chars \in Seq(Plain) /\ w \in Nat \ {0} /\ L \in Nat /\ L = Len(chars) /\ M = L + (L \div w)
    BY <1>3, <1>6, <1>7
  <2>2. M \in Nat /\ Taken(w, M) = L
    BY <2>1, LinesProperties
  <2>3. Len(Lines(chars, w)) = M
    BY <2>1, LinesProperties
  <2>4. \A m \in 0 .. M - 1 : OnLine(chars, w, m)
    BY <2>1, LinesProperties
  <2> QED BY <2>2, <2>3, <2>4
<1>10. N = M
  BY <1>1, <1>8, <1>9
<1>11. /\ Len(pem) = 7 + N /\ \A j \in 1 .. N : pem[5 + j] = Body(f)[j]
  BY <1>1, <1>2, WrittenProperties
<1>12. PICK m \in 0 .. N : next = 6 + m
  <2>1. next - 6 \in 0 .. N /\ next = 6 + (next - 6)
    BY <1>2, <1>9, <1>10
  <2> QED BY <2>1
<1>13. PICK c : c = Taken(w, m)
  OBVIOUS
<1>14. Decodes(e, c)
  <2>1. next - 6 = m
    BY <1>12
  <2> QED BY <1>2, <1>13, <2>1
<1>15. c \in 0 .. S
  BY <1>5, <1>14 DEF Decodes
<1>16. next = end => c = S
  <2> SUFFICES ASSUME next = end PROVE c = S
    OBVIOUS
  <2>1. m = M
    BY <1>2, <1>9, <1>10, <1>12
  <2>2. c = L
    BY <1>9, <1>13, <2>1
  <2> QED BY <1>6, <1>15, <2>2
<1>17. next < end =>
         \/ pem[next] = NEWLINE /\ Taken(w, m + 1) = c
         \/ /\ Taken(w, m + 1) = c + 1
            /\ c < S => pem[next] = <<"base64", SextetAt(e, c)>>
            /\ ~ (c < S) => pem[next] = PAD
  <2> SUFFICES ASSUME next < end
               PROVE  \/ pem[next] = NEWLINE /\ Taken(w, m + 1) = c
                      \/ /\ Taken(w, m + 1) = c + 1
                         /\ c < S => pem[next] = <<"base64", SextetAt(e, c)>>
                         /\ ~ (c < S) => pem[next] = PAD
    OBVIOUS
  <2>1. m \in 0 .. M - 1 /\ m \in Nat
    BY <1>2, <1>9, <1>10, <1>12
  <2>2. pem[next] = Lines(chars, w)[m + 1]
    <3>1. PICK j \in 1 .. N : j = m + 1 /\ next = 5 + j
      BY <1>9, <1>10, <1>12, <2>1
    <3> QED BY <1>8, <1>11, <3>1
  <2>3. /\ (m + 1) % (w + 1) = 0 => Taken(w, m + 1) = Taken(w, m)
        /\ (m + 1) % (w + 1) # 0 => Taken(w, m + 1) = Taken(w, m) + 1
    BY <1>3, <2>1, TakenNext
  <2>4. CASE (m + 1) % (w + 1) = 0
    <3>1. Lines(chars, w)[m + 1] = NEWLINE
      BY <1>9, <2>1, <2>4 DEF OnLine
    <3> QED BY <1>13, <2>2, <2>3, <2>4, <3>1
  <2>5. CASE (m + 1) % (w + 1) # 0
    <3>1. c < L /\ Lines(chars, w)[m + 1] = chars[c + 1]
      BY <1>6, <1>9, <1>13, <2>1, <2>5 DEF OnLine
    <3>2. Taken(w, m + 1) = c + 1
      BY <1>13, <2>3, <2>5
    <3>3. c < S => chars[c + 1] = <<"base64", SextetAt(e, c)>>
      <4>1. c < S => c \in 0 .. S - 1
        BY <1>15
      <4> QED BY <1>6, <4>1
    <3>4. ~ (c < S) => chars[c + 1] = PAD
      <4>1. ~ (c < S) => c \in S .. L - 1
        BY <1>6, <1>15, <3>1
      <4> QED BY <1>6, <4>1
    <3> QED BY <2>2, <3>1, <3>2, <3>3, <3>4
  <2> QED BY <2>4, <2>5
<1>18. S = SextetCount(n)
  BY <1>4 DEF SextetCount
<1>19. end \in Nat /\ next <= end /\ end < Len(pem) /\ Len(pem) \in Nat /\ m \in Nat
  BY <1>2, <1>9, <1>10, <1>11, <1>12
<1>20. e = Encoded(source) /\ w = source.width
  BY <1>0, <1>1
<1>21. Reads(e, n, S, w, m, c)
  BY <1>3, <1>4, <1>5, <1>12, <1>13, <1>14, <1>15, <1>16, <1>17, <1>18, <1>19, <1>20 DEF Reads
<1> QED
  BY <1>21

\* What a character does: it only leaves bits, or completes one more byte.
Advances(e, n, c, filled, left) ==
  \/ left = -2 /\ bits + 6 = 6 /\ (buf' = filled /\ bits' = 6 /\ der' = der => Decodes(e, c + 1)')
  \/ /\ left \in {0, 2, 4} /\ Len(der) \in Nat /\ Len(der) < n
     /\ buf' = filled /\ bits' = left /\ der' = Append(der, ShiftedRight(filled, left) % 256) => Decodes(e, c + 1)'

\* What base64_decode makes of the next of the characters that carry bits.
LEMMA NextSextet ==
  ASSUME NEW e, NEW n, NEW S, NEW w, NEW m, NEW c, Reads(e, n, S, w, m, c), c < S,
         NEW filled, filled = Filled(buf, SextetAt(e, c)), NEW left, left = (bits + 6) - 8
  PROVE  Advances(e, n, c, filled, left)
<1>1. /\ e \in Seq(Octet) /\ n \in Nat /\ n = Len(e) /\ S \in Nat /\ S = SextetCount(n) /\ Len(Sextets(e)) = S
      /\ c \in Nat /\ Decodes(e, c)
  BY DEF Reads
<1>2. PICK q \in Nat, r \in 0 .. 3 : c = 4 * q + r
  <2>1. c \div 4 \in Nat /\ c % 4 \in 0 .. 3 /\ c = 4 * (c \div 4) + (c % 4)
    BY <1>1
  <2> QED BY <2>1
<1>3. /\ ShiftedRight(filled, 4) = filled \div 16 /\ ShiftedRight(filled, 2) = filled \div 4
      /\ ShiftedRight(filled, 0) = filled \div 1
  BY DEF ShiftedRight
<1>4. CASE r = 0
  <2>1. c = 4 * q
    BY <1>2, <1>4
  <2>2. bits = 0 /\ (buf' = filled /\ bits' = 6 /\ der' = der => Decodes(e, c + 1)')
    BY <1>1, <1>2, <2>1, FirstOfFour
  <2>3. left = -2 /\ bits + 6 = 6
    BY <2>2
  <2> QED BY <2>2, <2>3 DEF Advances
<1>5. CASE r = 1
  <2>1. c = 4 * q + 1
    BY <1>2, <1>5
  <2>2. /\ bits = 6 /\ Len(der) \in Nat /\ Len(der) < n
        /\ buf' = filled /\ bits' = 4 /\ der' = Append(der, (filled \div 16) % 256) => Decodes(e, c + 1)'
    BY <1>1, <1>2, <2>1, SecondOfFour
  <2>3. left = 4
    BY <2>2
  <2> QED BY <1>3, <2>2, <2>3 DEF Advances
<1>6. CASE r = 2
  <2>1. c = 4 * q + 2
    BY <1>2, <1>6
  <2>2. /\ bits = 4 /\ Len(der) \in Nat /\ Len(der) < n
        /\ buf' = filled /\ bits' = 2 /\ der' = Append(der, (filled \div 4) % 256) => Decodes(e, c + 1)'
    BY <1>1, <1>2, <2>1, ThirdOfFour
  <2>3. left = 2
    BY <2>2
  <2> QED BY <1>3, <2>2, <2>3 DEF Advances
<1>7. CASE r = 3
  <2>1. c = 4 * q + 3
    BY <1>2, <1>7
  <2>2. /\ bits = 2 /\ Len(der) \in Nat /\ Len(der) < n
        /\ buf' = filled /\ bits' = 0 /\ der' = Append(der, (filled \div 1) % 256) => Decodes(e, c + 1)'
    BY <1>1, <1>2, <2>1, FourthOfFour
  <2>3. left = 0
    BY <2>2
  <2> QED BY <1>3, <2>2, <2>3 DEF Advances
<1> QED
  BY <1>2, <1>4, <1>5, <1>6, <1>7

\* The next place in the body, with what has been decoded there.
LEMMA DecodingGoes ==
  ASSUME LoadInv, loading = "decode", NEW e, NEW n, NEW S, NEW w, NEW m, NEW c, Reads(e, n, S, w, m, c),
         next < end, next' = next + 1, UNCHANGED <<source, pem, end, p, numbers, loading>>,
         Decodes(e, Taken(w, m + 1))', Len(der') <= DER_MAX, Len(der') \in Nat, bits' \in 0 .. 7
  PROVE  LoadInv'
<1>1. /\ source.missing = "nothing" /\ p = 0 /\ numbers = << >> /\ end = 6 + Len(Body(source)) /\ Begun /\ Bounded
  BY DEF LoadInv, Decoding
<1>2. /\ m \in Nat /\ next = 6 + m /\ e = Encoded(source) /\ w = source.width /\ end \in Nat /\ next <= end
      /\ end < Len(pem) /\ Len(pem) \in Nat
  BY DEF Reads
<1>3. Decoding'
  <2>1. source'.missing = "nothing" /\ p' = 0 /\ numbers' = << >> /\ end' = 6 + Len(Body(source'))
    BY <1>1
  <2>2. next' \in 6 .. end'
    BY <1>2
  <2>3. Decodes(Encoded(source), Taken(source.width, next - 6))'
    <3>1. next' - 6 = m + 1
      BY <1>2
    <3>2. Encoded(source') = e /\ Taken(source'.width, next' - 6) = Taken(w, m + 1)
      BY <1>2, <3>1
    <3> QED BY <3>2 DEF Decodes
  <2> QED BY <2>1, <2>2, <2>3 DEF Decoding
<1>4. Bounded'
  <2>1. p' \in 0 .. Len(der')
    BY <1>1
  <2>2. next' \in 0 .. Len(pem') + 1
    BY <1>2
  <2>3. \A k \in DOMAIN numbers' : Len(numbers'[k]) <= Room(k)
    BY <1>1 DEF Bounded
  <2> QED BY <2>1, <2>2, <2>3 DEF Bounded, Room
<1>5. Begun'
  BY <1>1 DEF Begun
<1>6. NothingRead' /\ Decoded' /\ Refused'
  BY DEF NothingRead, Decoded, Refused
<1> QED
  BY <1>3, <1>4, <1>5, <1>6 DEF LoadInv

\* Character by character, base64_decode comes to the bytes that were encoded; or
\* it has no room for them.
LEMMA DecodeCharKeeps == ASSUME LoadInv, DecodeChar PROVE LoadInv'
<1> DEFINE filled == (buf * 64 + pem[next][2]) % 4096
           left == (bits + 6) - 8
<1>1. /\ loading = "decode" /\ next < end /\ pem[next] # PAD /\ next' = next + 1
      /\ UNCHANGED <<source, pem, end, p, numbers>>
  BY DEF DecodeChar
<1>2. (CASE pem[next][1] # "base64" -> UNCHANGED <<buf, bits, der, loading>>
         [] pem[next][1] = "base64" /\ left < 0 ->
              buf' = filled /\ bits' = bits + 6 /\ UNCHANGED <<der, loading>>
         [] OTHER ->
              /\ buf' = filled /\ bits' = left
              /\ IF Len(der) >= DER_MAX THEN loading' = "failed" /\ UNCHANGED der
                 ELSE der' = Append(der, ShiftedRight(filled, left) % 256) /\ UNCHANGED loading)
  BY Zenon DEF DecodeChar
<1> HIDE DEF filled, left
<1>3. PICK e, n, S, w, m, c : Reads(e, n, S, w, m, c)
  BY <1>1, Reading
<1>4. Begun /\ Bounded
  BY DEF LoadInv
<1>5. /\ e \in Seq(Octet) /\ e = Encoded(source) /\ n \in Nat /\ n = Len(e) /\ Decodes(e, c) /\ c \in 0 .. S /\ S \in Nat
      /\ \/ pem[next] = NEWLINE /\ Taken(w, m + 1) = c
         \/ /\ Taken(w, m + 1) = c + 1
            /\ c < S => pem[next] = <<"base64", SextetAt(e, c)>>
            /\ ~ (c < S) => pem[next] = PAD
      /\ next + 1 \in 0 .. Len(pem) + 1
  BY <1>1, <1>3 DEF Reads
<1>6. der \in Seq(Octet) /\ Len(der) \in Nat /\ DER_MAX \in Nat /\ Len(der) <= DER_MAX /\ bits \in 0 .. 7
  <2>1. Len(der) <= DER_MAX /\ p \in 0 .. Len(der) /\ bits \in 0 .. 7
    BY <1>4 DEF Bounded
  <2>2. der = SubSeq(e, 1, (3 * c) \div 4)
    BY <1>5 DEF Decodes
  <2>3. der \in Seq(Octet)
    <3>1. PICK d \in Nat : d = (3 * c) \div 4
      BY <1>5
    <3>2. CASE d <= n
      <4>1. \A j \in 1 .. d : e[j] \in Octet
        BY <1>5, <3>1, <3>2, ElementOfSeq
      <4>2. 1 \in Int /\ d \in Int
        BY <3>1
      <4> QED BY <2>2, <3>1, <4>1, <4>2, SubSeqProperties
    <3>3. CASE ~ (d <= n)
      <4>1. S = (4 * n + 2) \div 3
        BY <1>3 DEF Reads, SextetCount
      <4> QED BY <1>5, <3>1, <3>3, <4>1
    <3> QED BY <3>2, <3>3
  <2> QED BY <2>1, <2>3, SizesAreNumbers
<1>7. CASE pem[next] = NEWLINE /\ Taken(w, m + 1) = c
  <2>1. UNCHANGED <<buf, bits, der, loading>>
    <3>1. pem[next][1] # "base64"
      BY <1>7, Markers
    <3> QED BY <1>2, <3>1
  <2>2. Decodes(e, Taken(w, m + 1))'
    BY <1>5, <1>7, <2>1 DEF Decodes
  <2> QED BY <1>1, <1>3, <1>6, <2>1, <2>2, DecodingGoes
<1>8. CASE /\ Taken(w, m + 1) = c + 1
           /\ c < S => pem[next] = <<"base64", SextetAt(e, c)>>
           /\ ~ (c < S) => pem[next] = PAD
  <2>1. c < S /\ pem[next] = <<"base64", SextetAt(e, c)>>
    BY <1>1, <1>8
  <2>2. pem[next][1] = "base64" /\ filled = Filled(buf, SextetAt(e, c)) /\ left = (bits + 6) - 8
    BY <2>1 DEF filled, left, Filled
  <2>3. Advances(e, n, c, filled, left)
    BY <1>3, <2>1, <2>2, NextSextet
  <2>4. CASE left = -2 /\ bits + 6 = 6 /\ (buf' = filled /\ bits' = 6 /\ der' = der => Decodes(e, c + 1)')
    <3>1. left < 0
      BY <2>4
    <3>2. buf' = filled /\ bits' = bits + 6 /\ UNCHANGED <<der, loading>>
      BY <1>2, <2>2, <3>1
    <3>3. Decodes(e, c + 1)'
      BY <2>4, <3>2
    <3>4. Decodes(e, Taken(w, m + 1))'
      BY <1>8, <3>3 DEF Decodes
    <3> QED BY <1>1, <1>3, <1>6, <2>4, <3>2, <3>4, DecodingGoes
  <2>5. CASE /\ left \in {0, 2, 4} /\ Len(der) \in Nat /\ Len(der) < n
             /\ buf' = filled /\ bits' = left /\ der' = Append(der, ShiftedRight(filled, left) % 256) => Decodes(e, c + 1)'
    <3>1. ~ (left < 0) /\ left \in 0 .. 7
      BY <2>5
    <3>2. /\ buf' = filled /\ bits' = left
          /\ IF Len(der) >= DER_MAX THEN loading' = "failed" /\ UNCHANGED der
             ELSE der' = Append(der, ShiftedRight(filled, left) % 256) /\ UNCHANGED loading
      BY <1>2, <2>2, <3>1
    <3>3. CASE Len(der) >= DER_MAX
      <4>1. loading' = "failed" /\ der' = der
        BY <3>2, <3>3
      <4>2. ~ Readable(source)
        <5> SUFFICES ASSUME Readable(source) PROVE FALSE
          OBVIOUS
        <5>1. source \in KeyFiles
          BY <1>1, <1>4 DEF Begun
        <5>2. Len(Encoded(source)) <= DER_MAX
          BY <5>1, 0 \in 0 .. 6, ReadableHolds
        <5> QED BY <1>5, <1>6, <2>5, <3>3, <5>2
      <4>3. Bounded'
        <5>1. next' \in 0 .. Len(pem') + 1
          BY <1>1, <1>5
        <5> QED BY <1>1, <1>4, <3>1, <3>2, <4>1, <5>1 DEF Bounded, Room
      <4> QED BY <1>1, <1>4, <4>1, <4>2, <4>3, Refuses
    <3>4. CASE ~ (Len(der) >= DER_MAX)
      <4>1. der' = Append(der, ShiftedRight(filled, left) % 256) /\ UNCHANGED loading
        BY <3>2, <3>4
      <4>2. Decodes(e, c + 1)'
        BY <2>5, <3>2, <4>1
      <4>3. Decodes(e, Taken(w, m + 1))'
        BY <1>8, <4>2 DEF Decodes
      <4>4. Len(der') = Len(der) + 1
        BY <1>6, <4>1
      <4>5. Len(der') <= DER_MAX /\ Len(der') \in Nat /\ bits' \in 0 .. 7
        BY <1>6, <3>1, <3>2, <3>4, <4>4
      <4> QED BY <1>1, <1>3, <4>1, <4>3, <4>5, DecodingGoes
    <3> QED BY <3>3, <3>4
  <2> QED BY <2>3, <2>4, <2>5 DEF Advances
<1> QED
  BY <1>5, <1>7, <1>8

\* At the end of the body, or at its padding, every byte has been decoded.
LEMMA DecodeEndKeeps == ASSUME LoadInv, DecodeEnd PROVE LoadInv'
<1>1. /\ loading = "decode" /\ (next >= end \/ pem[next] = PAD) /\ loading' = "sequence"
      /\ UNCHANGED <<source, pem, next, end, buf, bits, der, p, numbers>>
  BY DEF DecodeEnd
<1>2. PICK e, n, S, w, m, c : Reads(e, n, S, w, m, c)
  BY <1>1, Reading
<1>3. /\ source.missing = "nothing" /\ p = 0 /\ numbers = << >> /\ Begun /\ Bounded
  BY <1>1 DEF LoadInv, Decoding
<1>4. /\ e \in Seq(Octet) /\ e = Encoded(source) /\ n \in Nat /\ n = Len(e) /\ S = (4 * n + 2) \div 3
      /\ der = SubSeq(e, 1, (3 * c) \div 4) /\ c \in 0 .. S /\ next \in Nat /\ end \in Nat /\ next <= end
      /\ next = end => c = S
      /\ next < end =>
           \/ pem[next] = NEWLINE
           \/ /\ c < S => pem[next] = <<"base64", SextetAt(e, c)>>
              /\ ~ (c < S) => pem[next] = PAD
  <2>1. /\ e \in Seq(Octet) /\ e = Encoded(source) /\ n \in Nat /\ n = Len(e) /\ c \in 0 .. S
        /\ end \in Nat /\ next <= end /\ (next = end => c = S)
    BY <1>2 DEF Reads
  <2>2. S = (4 * n + 2) \div 3
    BY <1>2 DEF Reads, SextetCount
  <2>3. der = SubSeq(e, 1, (3 * c) \div 4)
    BY <1>2 DEF Reads, Decodes
  <2>4. next \in Nat
    BY <1>2 DEF Reads
  <2>5. next < end =>
           \/ pem[next] = NEWLINE
           \/ /\ c < S => pem[next] = <<"base64", SextetAt(e, c)>>
              /\ ~ (c < S) => pem[next] = PAD
    BY <1>2 DEF Reads
  <2> QED BY <2>1, <2>2, <2>3, <2>4, <2>5
<1>5. c = S
  <2>1. CASE next = end
    BY <1>4, <2>1
  <2>2. CASE next # end
    <3>1. next < end /\ pem[next] = PAD
      BY <1>1, <1>4, <2>2
    <3>2. ~ (c < S)
      <4> SUFFICES ASSUME c < S PROVE FALSE
        OBVIOUS
      <4>1. pem[next] = NEWLINE \/ pem[next] = <<"base64", SextetAt(e, c)>>
        BY <1>4, <3>1
      <4>2. pem[next] # <<"base64", SextetAt(e, c)>>
        BY <3>1, Markers
      <4> QED BY <3>1, <4>1, <4>2, Markers
    <3> QED BY <1>4, <3>2
  <2> QED BY <2>1, <2>2
<1>6. (3 * c) \div 4 = n
  BY <1>4, <1>5
<1>7. der = e
  BY <1>4, <1>6, SubSeqFull
<1>8. Decoded'
  <2>1. source'.missing = "nothing" /\ der' = Encoded(source') /\ p' = 0 /\ numbers' = << >>
    BY <1>1, <1>3, <1>4, <1>7
  <2> QED BY <1>1, <2>1 DEF Decoded
<1>9. Begun' /\ Bounded' /\ NothingRead' /\ Decoding' /\ Refused'
  <2>1. Begun'
    BY <1>1, <1>3 DEF Begun
  <2>2. Bounded'
    BY <1>1, <1>3 DEF Bounded
  <2>3. NothingRead' /\ Decoding' /\ Refused'
    BY <1>1 DEF NothingRead, Decoding, Refused
  <2> QED BY <2>1, <2>2, <2>3
<1> QED
  BY <1>1, <1>8, <1>9 DEF LoadInv

\* Nothing has been read of the file at first.
LEMMA LoadingBegins == LoadInit \/ LoadIdle => LoadInv
<1>0. DER_MAX \in Nat /\ Len(<< >>) = 0 /\ DOMAIN << >> = {}
  BY SizesAreNumbers
<1>1. ASSUME LoadInit PROVE LoadInv
  <2>1. /\ source \in KeyFiles /\ pem = Written(source) /\ loading = "open"
        /\ next = 0 /\ end = 0 /\ buf = 0 /\ bits = 0 /\ der = << >> /\ p = 0 /\ numbers = << >>
    BY <1>1 DEF LoadInit
  <2>2. Begun /\ NothingRead /\ Decoding /\ Decoded /\ Refused
    BY <2>1 DEF Begun, NothingRead, Decoding, Decoded, Refused
  <2>3. Len(pem) \in Nat
    <3>1. CASE source.missing = "file"
      BY <1>0, <2>1, <3>1 DEF Written, Absent
    <3>2. CASE source.missing # "file"
      BY <2>1, <3>2, WrittenProperties
    <3> QED BY <3>1, <3>2
  <2>4. Bounded
    BY <1>0, <2>1, <2>3 DEF Bounded
  <2> QED BY <2>1, <2>2, <2>4 DEF LoadInv
<1>2. ASSUME LoadIdle PROVE LoadInv
  <2>1. /\ pem = << >> /\ loading = "idle"
        /\ next = 0 /\ end = 0 /\ buf = 0 /\ bits = 0 /\ der = << >> /\ p = 0 /\ numbers = << >>
    BY <1>2 DEF LoadIdle
  <2>2. Begun /\ NothingRead /\ Decoding /\ Decoded /\ Refused
    BY <2>1 DEF Begun, NothingRead, Decoding, Decoded, Refused
  <2>3. Bounded
    BY <1>0, <2>1 DEF Bounded
  <2> QED BY <2>1, <2>2, <2>3 DEF LoadInv
<1> QED
  BY <1>1, <1>2

\* What else the exchange does leaves the loading alone.
LEMMA LoadUnchanged == ASSUME LoadInv, UNCHANGED loadVars PROVE LoadInv'
<1>1. UNCHANGED <<source, pem, next, end, buf, bits, der, p, numbers, loading>>
  BY DEF loadVars
<1>2. Begun' /\ NothingRead' /\ Refused'
  BY <1>1 DEF LoadInv, Begun, NothingRead, Refused, Readable
<1>3. Decoding'
  BY <1>1 DEF LoadInv, Decoding, Decodes
<1>4. Decoded'
  BY <1>1 DEF LoadInv, Decoded
<1>5. Bounded'
  BY <1>1 DEF LoadInv, Bounded
<1> QED
  BY <1>1, <1>2, <1>3, <1>4, <1>5 DEF LoadInv

\* The inductive invariant of the loading holds always.
LEMMA LoadAlways == Spec => []LoadInv
<1>1. Init => LoadInv
  BY LoadingBegins DEF Init
<1>2. LoadInv /\ [Next]_vars => LoadInv'
  <2> SUFFICES ASSUME LoadInv, [Next]_vars PROVE LoadInv'
    OBVIOUS
  <2>1. CASE FindBody BY <2>1, FindBodyKeeps
  <2>2. CASE DecodeChar BY <2>2, DecodeCharKeeps
  <2>3. CASE DecodeEnd BY <2>3, DecodeEndKeeps
  <2>4. CASE ReadSequence BY <2>4, ReadSequenceKeeps
  <2>5. CASE ReadInteger BY <2>5, ReadIntegerKeeps
  <2>6. CASE Loaded BY <2>6, LoadedKeeps
  <2>7. CASE UNCHANGED loadVars BY <2>7, LoadUnchanged
  <2> QED BY <2>1, <2>2, <2>3, <2>4, <2>5, <2>6, <2>7 DEF Next, vars, Load
<1> QED
  BY <1>1, <1>2, PTL DEF Spec

\* What being read says of how much has been lost: w bytes of numbers behind 1 + L,
\* d of them of the first six, n of all these left.
Left(lost, w, L, d, n) ==
  n = (IF lost <= 1 + L + w THEN 1 + L + w - lost ELSE 0) /\ 1 + L + d <= n /\ n <= DER_MAX
Lost(lost, w, L, d) == lost <= w - d /\ (1 + L + w) - lost <= DER_MAX

\* Something of the encoding is left, so that no more was lost than it has.
LEMMA LostFromTheEnd ==
  ASSUME NEW lost \in Nat, NEW w \in Nat, NEW L \in Nat, NEW d \in Nat, NEW n \in Nat, Left(lost, w, L, d, n)
  PROVE  Lost(lost, w, L, d)
BY SizesAreNumbers DEF Left, Lost

\* A loading that has ended has ended as the file says.
LEMMA LoadInvAgrees == ASSUME LoadInv PROVE KeyAsWritten
<1> SUFFICES ASSUME loading \in {"loaded", "failed"}
             PROVE  /\ loading = "loaded" <=> Readable(source)
                    /\ loading = "loaded" => numbers = SubSeq(source.numbers, 1, 6)
  BY DEF KeyAsWritten, Readable, Room, Whole
<1>0. PICK f \in KeyFiles : f = source
  BY DEF LoadInv, Begun
<1>1. loading = "failed" => ~ Readable(source)
  BY DEF LoadInv, Refused
<1>2. ASSUME loading = "loaded"
      PROVE  Readable(source) /\ numbers = SubSeq(source.numbers, 1, 6)
  <2>1. /\ f.missing = "nothing" /\ der = Encoded(f) /\ Len(numbers) = 6 /\ 6 <= Len(f.numbers)
        /\ numbers = SubSeq(f.numbers, 1, 6) /\ p = Place(f.numbers, 6)
    BY <1>0, <1>2 DEF LoadInv, Decoded
  <2>2. Len(der) <= DER_MAX /\ p <= Len(der) /\ \A k \in DOMAIN numbers : Len(numbers[k]) <= Room(k)
    BY DEF LoadInv, Bounded
  <2>3. PICK s \in Seq(Magnitude) : s = f.numbers /\ Short(s)
    BY KeyFileProperties
  <2>4. PICK lost \in Nat, w \in Nat, L \in Nat, d \in Nat, N \in Nat :
          /\ lost = f.lost /\ w = Len(Whole(s)) /\ L = Len(DerLength(w)) /\ d = Len(DerNumbers(s)[6]) /\ N = Len(Encoded(f))
    <3>1. f.lost \in Nat /\ Len(Whole(s)) \in Nat /\ Len(Encoded(f)) \in Nat
      BY <2>3, KeyFileProperties, DerKeyProperties, EncodedProperties
    <3>2. Len(DerLength(Len(Whole(s)))) \in Nat
      BY <3>1, DerLengthProperties
    <3>3. 6 \in 0 .. Len(s)
      BY <2>1, <2>3
    <3>4. Len(DerNumbers(s)[6]) \in Nat
      BY <3>3, DerNumbersProperties
    <3> QED BY <3>1, <3>2, <3>4
  <2>5. Len(DerKey(s)) = 1 + L + w
    BY <2>3, <2>4, DerKeyProperties
  <2>6. Left(lost, w, L, d, N)
    <3>1. p = 1 + L + d
      BY <2>1, <2>3, <2>4 DEF Place
    <3>2. 1 + L + d <= N
      BY <2>1, <2>2, <2>4, <3>1
    <3>3. N <= DER_MAX
      BY <2>1, <2>2, <2>4
    <3>4. N = IF lost <= Len(DerKey(s)) THEN Len(DerKey(s)) - lost ELSE 0
      BY <2>3, <2>4, EncodedProperties
    <3>5. N = IF lost <= 1 + L + w THEN 1 + L + w - lost ELSE 0
      BY ONLY <2>5, <3>4
    <3> QED BY ONLY <3>2, <3>3, <3>5 DEF Left
  <2>7. Lost(lost, w, L, d)
    <3>1. lost \in Nat /\ w \in Nat /\ L \in Nat /\ d \in Nat /\ N \in Nat
      BY <2>4
    <3> QED BY ONLY <2>6, <3>1, LostFromTheEnd
  <2>8. ASSUME NEW k \in 1 .. 6 PROVE Len(s[k]) <= Room(k)
    <3>1. \A j \in 1 .. 6 : s[j] \in Magnitude
      BY <2>1, <2>3, ElementOfSeq
    <3>2. 1 \in Int /\ 6 \in Int
      OBVIOUS
    <3>3. /\ SubSeq(s, 1, 6) \in Seq(Magnitude) /\ Len(SubSeq(s, 1, 6)) = IF 1 <= 6 THEN 6 - 1 + 1 ELSE 0
          /\ \A j \in 1 .. 6 - 1 + 1 : SubSeq(s, 1, 6)[j] = s[1 + j - 1]
      BY <3>1, <3>2, SubSeqProperties
    <3>4. numbers = SubSeq(s, 1, 6)
      BY <2>1, <2>3
    <3>5. k \in DOMAIN numbers /\ numbers[k] = s[k]
      BY <3>3, <3>4
    <3> QED BY <2>2, <3>5
  <2>9. Readable(f)
    <3>1. f.lost <= Len(Whole(f.numbers)) - Len(DerNumbers(f.numbers)[6])
      BY <2>3, <2>4, <2>7 DEF Lost
    <3>2. Len(DerKey(s)) - lost <= DER_MAX
      BY <2>5, <2>7 DEF Lost
    <3>3. Len(DerKey(f.numbers)) - f.lost <= DER_MAX
      BY <2>3, <2>4, <3>2
    <3> QED BY <2>1, <2>3, <2>8, <3>1, <3>3 DEF Readable
  <2> QED BY <1>0, <2>1, <2>9
<1> QED
  BY <1>1, <1>2

\* Whatever the numbers of a key, the lengths they have, the lines of the file and
\* the bytes lost from it: a file that lacks nothing is read and gives the numbers it
\* was made from, any other is refused (rsa.c:13-99, pem.c).
THEOREM KeyLoading == Spec => []KeyAsWritten
<1> QED
  BY LoadInvAgrees, LoadAlways, PTL

-----------------------------------------------------------------------------

\* What the caller of rsa_decrypt_pkcs1 gets has room, and A is computed only for a
\* seed that fits.
LEMMA ResultsFit == Spec => [](Len(pt) <= PT_MAX /\ (Fits(call) \/ A = << >>))
<1> DEFINE I == Len(pt) <= PT_MAX /\ (Fits(call) \/ A = << >>)
<1>1. Init => I
  <2>1. Init => Len(pt) <= PT_MAX
    <3>1. Len(<< >>) = 0 /\ PT_MAX \in Nat
      BY RsaAssumption
    <3> QED BY <3>1 DEF Init, RsaInit, RsaIdle
  <2>2. Init => Fits(call) \/ A = << >>
    BY DEF Init, PrfInit, PrfIdle
  <2> QED BY <2>1, <2>2
<1>2. I /\ [Next]_vars => I'
  <2> SUFFICES ASSUME I, [Next]_vars PROVE I'
    OBVIOUS
  <2>1. (Len(pt) <= PT_MAX)'
    <3>1. CASE Strip
      BY <3>1 DEF Strip
    <3>2. CASE UNCHANGED pt
      BY <3>2
    <3> QED BY <3>1, <3>2 DEF Next, vars, rsaVars, Decrypt
  <2>2. (Fits(call) \/ A = << >>)'
    <3>1. CASE DeriveMaster
      BY <3>1 DEF DeriveMaster, Begin, Fits
    <3>2. CASE DeriveKeyBlock
      BY <3>2 DEF DeriveKeyBlock, Begin, Fits
    <3>3. CASE ExpandBlock
      BY <3>3 DEF ExpandBlock, Expanding, Fits
    <3>4. CASE UNCHANGED <<call, A>>
      BY <3>4 DEF Fits
    <3> QED BY <3>1, <3>2, <3>3, <3>4 DEF Next, vars, prfVars, Derive, SliceKeyBlock
  <2> QED BY <2>1, <2>2
<1> QED
  BY <1>1, <1>2, PTL DEF Spec

\* The numbers of bignum.c keep their form and their lengths, and nothing that is read
\* from the key file or written for the caller passes the end of its buffer.  A
\* ciphertext passes that of the array of words exactly if it has more bytes than fit
\* there (bignum.c:56-63, from handshake.c:329-336): then, and only then, the run ends
\* as undefined.
THEOREM TypeCorrect == Spec => []TypeOK
<1>1. ASSUME BigNumInv, LoadInv, Len(pt) <= PT_MAX /\ (Fits(call) \/ A = << >>) PROVE TypeOK
  <2>1. NumbersOK
    BY <1>1 DEF BigNumInv
  <2>2. /\ Len(der) <= DER_MAX /\ p \in 0 .. Len(der) /\ bits \in 0 .. 7 /\ next \in 0 .. Len(pem) + 1
        /\ \A k \in DOMAIN numbers : Len(numbers[k]) <= (IF k = 1 THEN VER_MAX ELSE INT_MAX)
    BY <1>1 DEF LoadInv, Bounded, Room
  <2> QED BY <1>1, <2>1, <2>2 DEF TypeOK
<1> QED
  BY <1>1, BigNumAlways, LoadAlways, ResultsFit, PTL
=============================================================================
