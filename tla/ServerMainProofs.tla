--------------------------- MODULE ServerMainProofs ---------------------------
(***************************************************************************)
(* Proofs about ServerMain: its type invariant, when the server listens    *)
(* wherever its banner said, and that the loop over argv leaves every      *)
(* setting as its option's last use gave it.  The last needs an invariant  *)
(* of the loop, ReadTo: what has been read so far decides the settings,    *)
(* and the next position is never a value.  Which positions are values is  *)
(* stated by a parity (IsValue); that it obeys the recurrence the loop     *)
(* follows is the lemma ValueNext.                                         *)
(***************************************************************************)
EXTENDS ServerMain, FiniteSetTheorems, TLAPS

\* What the uses of some options before position n come to.
UsesBefore(options, n) == {k \in Uses(options) : k < n}
ModeOf(modes) ==
  IF modes = {} THEN "both" ELSE IF argv[LastOf(modes)] = "--http" THEN "http" ELSE "https"
PortOf(o, uses) == IF uses = {} THEN DefaultPort[o] ELSE Port(argv[LastOf(uses) + 1])
PathOf(o, uses) == IF uses = {} THEN Default ELSE argv[LastOf(uses) + 1]

\* The invariant of the loop: everything before position n has been obeyed, and
\* m, po and pa are the mode, the ports and the paths that makes.
ReadTo(n, m, po, pa) ==
  /\ n \in 1 .. Len(argv) => ~ IsValue[n]
  /\ m = ModeOf(UsesBefore({"--http", "--https"}, n))
  /\ \A o \in PortOptions : po[o] = PortOf(o, UsesBefore({o}, n) \ {Len(argv)})
  /\ \A o \in ValueOptions \ PortOptions :
       pa[o] = PathOf(o, UsesBefore({o}, n) \ {Len(argv)})
  /\ UsesBefore({"--help"}, n) = {}

\* What the banner names, and where the socket listens.
Banners ==
  /\ phase \in {"announced", "serving"} =>
       /\ arg = Len(argv) + 1
       /\ announced = (IF mode # "http" THEN {<<"https", port["--port"]>>} ELSE {})
                 \cup (IF mode # "https" THEN {<<"http", port["--http-port"]>>} ELSE {})
  /\ phase = "serving" =>
       listening = (IF mode = "http" THEN {<<"http", port["--http-port"]>>}
                    ELSE {<<"https", port["--port"]>>})

Inv ==
  /\ MainTypeOK
  /\ phase # "exited" => ReadTo(arg, mode, port, path)
  /\ Banners

-----------------------------------------------------------------------------
(* The types. *)

\* (uint16_t)atoi(text) is a port, whatever the text.
LEMMA PortIsAPort == \A text : Port(text) \in 0 .. MaxPort
<1> TAKE text
<1>1. (IF text \in Texts THEN Atoi[text] ELSE 0) \in Int
  BY MainAssumption
<1>2. MaxPort \in Nat
  BY DEF MaxPort
<1> QED
  BY <1>1, <1>2 DEF Port

\* The program starts with well-typed settings.
LEMMA TypeInit == MainInit => MainTypeOK
<1> SUFFICES ASSUME MainInit PROVE MainTypeOK
  OBVIOUS
<1>1. argv \in Seq(Words)
  BY MainAssumption DEF MainInit, BoundedSeq, SeqOf
<1>2. 4443 \in 0 .. MaxPort /\ 8080 \in 0 .. MaxPort
  BY DEF MaxPort
<1>3. port \in [PortOptions -> 0 .. MaxPort]
  BY <1>2 DEF MainInit, DefaultPort
<1> QED
  BY <1>1, <1>3 DEF MainInit, MainTypeOK

\* Every step of main keeps the settings well-typed.
LEMMA TypeNext == MainTypeOK /\ [MainNext]_mainVars => MainTypeOK'
<1> SUFFICES ASSUME MainTypeOK, [MainNext]_mainVars PROVE MainTypeOK'
  OBVIOUS
<1>1. CASE ModeFlag
  BY <1>1 DEF ModeFlag, MainTypeOK
<1>2. CASE ValueOption
  <2>1. argv' = argv /\ mode' = mode /\ phase' = phase /\ announced' = announced /\ listening' = listening
    BY <1>2 DEF ValueOption
  <2>2. arg' \in 1 .. Len(argv) + 1
    BY <1>2 DEF ValueOption, MainTypeOK
  <2>3. argv[arg + 1] \in Words
    BY <1>2 DEF ValueOption, MainTypeOK
  <2>4. port' \in [PortOptions -> 0 .. MaxPort] /\ path' \in [ValueOptions \ PortOptions -> Words \cup {Default}]
    <3>1. CASE argv[arg] \in PortOptions
      BY <1>2, <3>1, PortIsAPort DEF ValueOption, MainTypeOK
    <3>2. CASE argv[arg] \notin PortOptions
      BY <1>2, <3>2, <2>3 DEF ValueOption, MainTypeOK
    <3> QED
      BY <3>1, <3>2
  <2> QED
    BY <2>1, <2>2, <2>4 DEF MainTypeOK
<1>3. CASE Help
  BY <1>3 DEF Help, MainTypeOK
<1>4. CASE Ignored
  BY <1>4 DEF Ignored, MainTypeOK
<1>5. CASE Banner
  <2>1. port["--port"] \in 0 .. MaxPort /\ port["--http-port"] \in 0 .. MaxPort
    BY DEF MainTypeOK, PortOptions
  <2> QED
    BY <1>5, <2>1 DEF Banner, MainTypeOK
<1>6. CASE Listen
  <2>1. port["--port"] \in 0 .. MaxPort /\ port["--http-port"] \in 0 .. MaxPort
    BY DEF MainTypeOK, PortOptions
  <2> QED
    BY <1>6, <2>1 DEF Listen, MainTypeOK
<1>7. CASE UNCHANGED mainVars
  BY <1>7 DEF mainVars, MainTypeOK
<1> QED
  BY <1>1, <1>2, <1>3, <1>4, <1>5, <1>6, <1>7 DEF MainNext

\* Type correctness: the arguments are read inside their bounds, and a port has
\* 16 bits whatever number was given for it.
THEOREM TypeCorrect == MainSpec => []MainTypeOK
  BY TypeInit, TypeNext, PTL DEF MainSpec

-----------------------------------------------------------------------------
(* Which positions are values, and what has been used. *)

\* The options that stand in a row just before position k.
Row(k) == {j \in 1 .. k - 1 : \A l \in j .. k - 1 : argv[l] \in ValueOptions}

\* A position is a value if that row is of odd length; before the first
\* argument there is none.
LEMMA ValueByRow ==
  ASSUME argv \in Seq(Words), NEW k \in 1 .. Len(argv)
  PROVE  IsValue[k] <=> Cardinality(Row(k)) % 2 = 1
<1>1. CASE k = 1
  <2>1. Row(k) = {}
    BY <1>1 DEF Row
  <2>2. Cardinality(Row(k)) = 0
    BY <2>1, FS_EmptySet
  <2>3. ~ IsValue[k]
    BY <1>1 DEF IsValue
  <2> QED
    BY <2>2, <2>3
<1>2. CASE k # 1
  BY <1>2 DEF IsValue, Row
<1> QED
  BY <1>1, <1>2

\* What follows an option that is no value is a value, and nothing else is.
LEMMA ValueNext ==
  ASSUME argv \in Seq(Words), NEW k \in 1 .. Len(argv), k + 1 \in 1 .. Len(argv)
  PROVE  IsValue[k + 1] <=> (argv[k] \in ValueOptions /\ ~ IsValue[k])
<1>1. CASE argv[k] \notin ValueOptions
  <2>1. Row(k + 1) = {}
    BY <1>1 DEF Row
  <2>2. Cardinality(Row(k + 1)) = 0
    BY <2>1, FS_EmptySet
  <2>3. ~ IsValue[k + 1]
    BY <2>2, ValueByRow
  <2> QED
    BY <1>1, <2>3
<1>2. CASE argv[k] \in ValueOptions
  <2>1. Row(k + 1) = Row(k) \cup {k} /\ k \notin Row(k)
    BY <1>2 DEF Row
  <2>2. IsFiniteSet(Row(k)) /\ Cardinality(Row(k)) \in Nat
    <3>1. IsFiniteSet(1 .. k - 1)
      BY FS_Interval
    <3>2. Row(k) \in SUBSET (1 .. k - 1)
      BY DEF Row
    <3>3. IsFiniteSet(Row(k))
      BY <3>1, <3>2, FS_Subset
    <3> QED
      BY <3>3, FS_CardinalityType
  <2>3. Cardinality(Row(k + 1)) = Cardinality(Row(k)) + 1
    BY <2>1, <2>2, FS_AddElement
  <2>4. Cardinality(Row(k + 1)) % 2 = 1 <=> ~ (Cardinality(Row(k)) % 2 = 1)
    BY <2>2, <2>3
  <2>5. IsValue[k] <=> Cardinality(Row(k)) % 2 = 1
    BY ValueByRow
  <2>6. IsValue[k + 1] <=> Cardinality(Row(k + 1)) % 2 = 1
    BY ValueByRow
  <2> QED
    BY <1>2, <2>4, <2>5, <2>6
<1> QED
  BY <1>1, <1>2

\* Reading a position that is no value adds at most that position to the uses.
LEMMA UsesOne ==
  ASSUME argv \in Seq(Words), NEW n \in 1 .. Len(argv), ~ IsValue[n], NEW options
  PROVE  /\ argv[n] \in options => UsesBefore(options, n + 1) = UsesBefore(options, n) \cup {n}
         /\ argv[n] \notin options => UsesBefore(options, n + 1) = UsesBefore(options, n)
  BY DEF UsesBefore, Uses

\* Reading an option with its value adds at most the option.
LEMMA UsesTwo ==
  ASSUME argv \in Seq(Words), NEW n \in 1 .. Len(argv) - 1, ~ IsValue[n],
         argv[n] \in ValueOptions, NEW options
  PROVE  /\ argv[n] \in options => UsesBefore(options, n + 2) = UsesBefore(options, n) \cup {n}
         /\ argv[n] \notin options => UsesBefore(options, n + 2) = UsesBefore(options, n)
<1>1. IsValue[n + 1]
  BY ValueNext
<1> QED
  BY <1>1 DEF UsesBefore, Uses

\* The last of a set of positions, when they lie before another one.
LEMMA LastAdded ==
  ASSUME NEW n \in Int, NEW S, \A k \in S : k \in Int /\ k < n
  PROVE  LastOf(S \cup {n}) = n
<1>1. n \in S \cup {n} /\ \A l \in S \cup {n} : l <= n
  OBVIOUS
<1>2. \A k \in S \cup {n} : (\A l \in S \cup {n} : l <= k) => k = n
  OBVIOUS
<1> QED
  BY <1>1, <1>2 DEF LastOf

\* Nothing has been used before the first argument.
LEMMA NothingUsed == \A options : UsesBefore(options, 1) = {}
  BY DEF UsesBefore, Uses

-----------------------------------------------------------------------------
(* One iteration of the loop. *)

\* What a set of uses comes to when a use is added to it.
LEMMA UseAdded ==
  ASSUME argv \in Seq(Words), NEW n \in 1 .. Len(argv), NEW options
  PROVE  LET before == UsesBefore(options, n) IN
           /\ LastOf(before \cup {n}) = n
           /\ LastOf((before \ {Len(argv)}) \cup {n}) = n
<1>1. n \in Int /\ \A k \in UsesBefore(options, n) : k \in Int /\ k < n
  BY DEF UsesBefore, Uses
<1>2. LastOf(UsesBefore(options, n) \cup {n}) = n
  BY <1>1, LastAdded
<1>3. LastOf((UsesBefore(options, n) \ {Len(argv)}) \cup {n}) = n
  BY <1>1, LastAdded
<1> QED
  BY <1>2, <1>3

\* --http or --https: it becomes the mode, and nothing else has changed.
LEMMA ReadFlag ==
  ASSUME argv \in Seq(Words), NEW n \in 1 .. Len(argv), NEW m, NEW po, NEW pa,
         ReadTo(n, m, po, pa), argv[n] \in {"--http", "--https"}
  PROVE  ReadTo(n + 1, IF argv[n] = "--http" THEN "http" ELSE "https", po, pa)
<1>1. argv[n] \notin ValueOptions /\ argv[n] # "--help"
  BY DEF ValueOptions, PortOptions
<1>2. ~ IsValue[n]
  BY DEF ReadTo
<1>3. n + 1 \in 1 .. Len(argv) => ~ IsValue[n + 1]
  BY <1>1, ValueNext
<1>4. UsesBefore({"--http", "--https"}, n + 1) = UsesBefore({"--http", "--https"}, n) \cup {n}
  BY <1>2, UsesOne
<1>5. \A o \in ValueOptions \cup {"--help"} : UsesBefore({o}, n + 1) = UsesBefore({o}, n)
  BY <1>1, <1>2, UsesOne
<1>6. ModeOf(UsesBefore({"--http", "--https"}, n + 1)) = IF argv[n] = "--http" THEN "http" ELSE "https"
  BY <1>4, UseAdded DEF ModeOf
<1>7. PortOptions \subseteq ValueOptions
  BY DEF ValueOptions
<1> QED
  BY <1>3, <1>5, <1>6, <1>7 DEF ReadTo

\* The settings are po2 and pa2 after the option at position n, po and pa before.
SetBy(n, po, pa, po2, pa2) ==
  /\ \A o \in PortOptions : po2[o] = IF o = argv[n] THEN Port(argv[n + 1]) ELSE po[o]
  /\ \A o \in ValueOptions \ PortOptions : pa2[o] = IF o = argv[n] THEN argv[n + 1] ELSE pa[o]

\* An option and its value: it becomes that option's setting, and what it was
\* given is not looked at again.
LEMMA ReadOption ==
  ASSUME argv \in Seq(Words), NEW n \in 1 .. Len(argv) - 1, NEW m, NEW po, NEW pa, NEW po2, NEW pa2,
         ReadTo(n, m, po, pa), argv[n] \in ValueOptions, SetBy(n, po, pa, po2, pa2)
  PROVE  ReadTo(n + 2, m, po2, pa2)
<1>1. argv[n] \notin {"--http", "--https", "--help"} /\ n \in 1 .. Len(argv) /\ n # Len(argv)
  BY DEF ValueOptions, PortOptions
<1>2. ~ IsValue[n] /\ IsValue[n + 1]
  BY ValueNext DEF ReadTo
<1>3. n + 2 \in 1 .. Len(argv) => ~ IsValue[n + 2]
  <2> SUFFICES ASSUME n + 2 \in 1 .. Len(argv) PROVE ~ IsValue[n + 2]
    OBVIOUS
  <2>1. n + 1 \in 1 .. Len(argv) /\ (n + 1) + 1 \in 1 .. Len(argv) /\ (n + 1) + 1 = n + 2
    OBVIOUS
  <2> QED
    BY <1>2, <2>1, ValueNext
<1>4. UsesBefore({"--http", "--https"}, n + 2) = UsesBefore({"--http", "--https"}, n)
  BY <1>1, <1>2, UsesTwo
<1>5. UsesBefore({"--help"}, n + 2) = UsesBefore({"--help"}, n)
  BY <1>1, <1>2, UsesTwo
<1>6. ASSUME NEW o \in ValueOptions, o # argv[n]
      PROVE  UsesBefore({o}, n + 2) = UsesBefore({o}, n)
  BY <1>2, <1>6, UsesTwo
<1>7. LET uses == UsesBefore({argv[n]}, n + 2) \ {Len(argv)} IN uses # {} /\ LastOf(uses) = n
  <2>1. UsesBefore({argv[n]}, n + 2) = UsesBefore({argv[n]}, n) \cup {n}
    BY <1>2, UsesTwo
  <2>2. UsesBefore({argv[n]}, n + 2) \ {Len(argv)} = (UsesBefore({argv[n]}, n) \ {Len(argv)}) \cup {n}
    BY <1>1, <2>1
  <2> QED
    BY <1>1, <2>2, UseAdded
<1>8. ASSUME NEW o \in PortOptions
      PROVE  po2[o] = PortOf(o, UsesBefore({o}, n + 2) \ {Len(argv)})
  <2>1. o \in ValueOptions
    BY DEF ValueOptions
  <2>2. CASE o = argv[n]
    BY <1>7, <2>2 DEF PortOf, SetBy
  <2>3. CASE o # argv[n]
    BY <1>6, <2>1, <2>3 DEF ReadTo, SetBy
  <2> QED
    BY <2>2, <2>3
<1>9. ASSUME NEW o \in ValueOptions \ PortOptions
      PROVE  pa2[o] = PathOf(o, UsesBefore({o}, n + 2) \ {Len(argv)})
  <2>1. CASE o = argv[n]
    BY <1>7, <2>1 DEF PathOf, SetBy
  <2>2. CASE o # argv[n]
    BY <1>6, <2>2 DEF ReadTo, SetBy
  <2> QED
    BY <2>1, <2>2
<1> QED
  BY <1>3, <1>4, <1>5, <1>8, <1>9 DEF ReadTo

\* Anything else, or an option without a value: no setting changes.
LEMMA ReadIgnored ==
  ASSUME argv \in Seq(Words), NEW n \in 1 .. Len(argv), NEW m, NEW po, NEW pa,
         ReadTo(n, m, po, pa),
         argv[n] \in Texts \/ (argv[n] \in ValueOptions /\ n = Len(argv))
  PROVE  ReadTo(n + 1, m, po, pa)
<1>1. argv[n] \notin {"--http", "--https", "--help"}
  BY MainAssumption DEF ValueOptions, PortOptions, Flags
<1>2. ~ IsValue[n]
  BY DEF ReadTo
<1>3. n + 1 \in 1 .. Len(argv) => ~ IsValue[n + 1]
  <2>1. n + 1 \in 1 .. Len(argv) => argv[n] \notin ValueOptions
    BY MainAssumption
  <2> QED
    BY <2>1, ValueNext
<1>4. UsesBefore({"--http", "--https"}, n + 1) = UsesBefore({"--http", "--https"}, n)
  BY <1>1, <1>2, UsesOne
<1>5. UsesBefore({"--help"}, n + 1) = UsesBefore({"--help"}, n)
  BY <1>1, <1>2, UsesOne
<1>6. ASSUME NEW o \in ValueOptions
      PROVE  UsesBefore({o}, n + 1) \ {Len(argv)} = UsesBefore({o}, n) \ {Len(argv)}
  <2>1. /\ argv[n] \in {o} => UsesBefore({o}, n + 1) = UsesBefore({o}, n) \cup {n}
        /\ argv[n] \notin {o} => UsesBefore({o}, n + 1) = UsesBefore({o}, n)
    BY <1>2, UsesOne
  <2>2. argv[n] \in {o} => n = Len(argv)
    BY MainAssumption
  <2> QED
    BY <2>1, <2>2
<1>7. PortOptions \subseteq ValueOptions
  BY DEF ValueOptions
<1> QED
  BY <1>3, <1>4, <1>5, <1>6, <1>7 DEF ReadTo

\* Before the first argument every setting is its default.
LEMMA ReadNothing ==
  ASSUME MainInit
  PROVE  ReadTo(1, mode, port, path)
<1>1. 1 \in 1 .. Len(argv) => ~ IsValue[1]
  BY DEF IsValue
<1>2. \A options : UsesBefore(options, 1) \ {Len(argv)} = {}
  BY NothingUsed
<1> QED
  BY <1>1, <1>2, NothingUsed DEF MainInit, ReadTo, ModeOf, PortOf, PathOf

\* The invariant of the loop speaks of the arguments alone, and those stay.
LEMMA ArgumentsStay ==
  ASSUME NEW n, NEW m, NEW po, NEW pa, ReadTo(n, m, po, pa), argv' = argv
  PROVE  ReadTo(n, m, po, pa)'
<1>1. IsValue' = IsValue
  BY DEF IsValue
<1>2. \A options : Uses(options)' = Uses(options)
  BY <1>1 DEF Uses
<1>3. \A options : UsesBefore(options, n)' = UsesBefore(options, n)
  BY <1>2 DEF UsesBefore
<1>4. ModeOf(UsesBefore({"--http", "--https"}, n))' = ModeOf(UsesBefore({"--http", "--https"}, n))
  BY SMT DEF ModeOf, LastOf, UsesBefore, Uses, IsValue
<1>5. \A o : PortOf(o, UsesBefore({o}, n) \ {Len(argv)})' = PortOf(o, UsesBefore({o}, n) \ {Len(argv)})
  BY SMT DEF PortOf, LastOf, Port, DefaultPort, UsesBefore, Uses, IsValue
<1>6. \A o : PathOf(o, UsesBefore({o}, n) \ {Len(argv)})' = PathOf(o, UsesBefore({o}, n) \ {Len(argv)})
  BY SMT DEF PathOf, LastOf, UsesBefore, Uses, IsValue
<1> QED
  BY <1>1, <1>3, <1>4, <1>5, <1>6 DEF ReadTo

-----------------------------------------------------------------------------
(* The inductive invariant. *)

\* It holds when main starts.
LEMMA InvInit == MainInit => Inv
<1> SUFFICES ASSUME MainInit PROVE Inv
  OBVIOUS
<1>1. arg = 1 /\ phase = "arguments" /\ announced = {} /\ listening = {}
  BY DEF MainInit
<1>2. ReadTo(arg, mode, port, path)
  BY <1>1, ReadNothing
<1> QED
  BY <1>1, <1>2, TypeInit DEF Inv, Banners

\* Every step of the loop obeys the argument it reads.
LEMMA ReadNext ==
  ASSUME Inv, ModeFlag \/ ValueOption \/ Ignored
  PROVE  ReadTo(arg, mode, port, path)'
<1>1. argv \in Seq(Words) /\ ReadTo(arg, mode, port, path) /\ argv' = argv
  <2>1. phase = "arguments" /\ argv' = argv
    BY DEF ModeFlag, ValueOption, Ignored
  <2> QED
    BY <2>1 DEF Inv, MainTypeOK
<1>2. PICK n, m, po, pa : n = arg' /\ m = mode' /\ po = port' /\ pa = path'
  OBVIOUS
<1>3. ReadTo(n, m, po, pa)
  <2>1. CASE ModeFlag
    <3>1. arg \in 1 .. Len(argv) /\ argv[arg] \in {"--http", "--https"}
      BY <2>1 DEF ModeFlag, Inv, MainTypeOK
    <3>2. ReadTo(arg + 1, IF argv[arg] = "--http" THEN "http" ELSE "https", port, path)
      BY <1>1, <3>1, ReadFlag
    <3>3. n = arg + 1 /\ m = (IF argv[arg] = "--http" THEN "http" ELSE "https") /\ po = port /\ pa = path
      BY <1>2, <2>1 DEF ModeFlag
    <3> QED
      BY <3>2, <3>3
  <2>2. CASE ValueOption
    <3>1. arg \in 1 .. Len(argv) - 1 /\ argv[arg] \in ValueOptions
      BY <2>2 DEF ValueOption, Inv, MainTypeOK
    <3>2. n = arg + 2 /\ m = mode
      BY <1>2, <2>2 DEF ValueOption
    <3>3. DOMAIN port = PortOptions /\ DOMAIN path = ValueOptions \ PortOptions
      BY DEF Inv, MainTypeOK
    <3>4. \A o \in PortOptions : po[o] = IF o = argv[arg] THEN Port(argv[arg + 1]) ELSE port[o]
      <4>1. CASE argv[arg] \in PortOptions
        BY <1>2, <2>2, <3>3, <4>1 DEF ValueOption
      <4>2. CASE argv[arg] \notin PortOptions
        BY <1>2, <2>2, <3>3, <4>2 DEF ValueOption
      <4> QED
        BY <4>1, <4>2
    <3>5. \A o \in ValueOptions \ PortOptions : pa[o] = IF o = argv[arg] THEN argv[arg + 1] ELSE path[o]
      <4>1. CASE argv[arg] \in PortOptions
        BY <1>2, <2>2, <3>3, <4>1 DEF ValueOption
      <4>2. CASE argv[arg] \notin PortOptions
        BY <1>2, <2>2, <3>1, <3>3, <4>2 DEF ValueOption
      <4> QED
        BY <4>1, <4>2
    <3>6. ReadTo(arg + 2, mode, po, pa)
      <4>1. SetBy(arg, port, path, po, pa)
        BY <3>4, <3>5 DEF SetBy
      <4> QED
        BY <1>1, <3>1, <4>1, ReadOption
    <3> QED
      BY <3>2, <3>6
  <2>3. CASE Ignored
    <3>1. arg \in 1 .. Len(argv) /\ (argv[arg] \in Texts \/ (argv[arg] \in ValueOptions /\ arg = Len(argv)))
      BY <2>3 DEF Ignored, Inv, MainTypeOK
    <3>2. ReadTo(arg + 1, mode, port, path)
      BY <1>1, <3>1, ReadIgnored
    <3>3. n = arg + 1 /\ m = mode /\ po = port /\ pa = path
      BY <1>2, <2>3 DEF Ignored
    <3> QED
      BY <3>2, <3>3
  <2> QED
    BY <2>1, <2>2, <2>3
<1>4. ReadTo(n, m, po, pa)'
  BY <1>1, <1>3, ArgumentsStay
<1> QED
  BY <1>2, <1>4 DEF ReadTo

\* A step that leaves the arguments and the settings leaves what they say.
LEMMA ReadStays ==
  ASSUME ReadTo(arg, mode, port, path), UNCHANGED <<argv, arg, mode, port, path>>
  PROVE  ReadTo(arg, mode, port, path)'
<1>1. PICK n, m, po, pa : n = arg /\ m = mode /\ po = port /\ pa = path
  OBVIOUS
<1>2. ReadTo(n, m, po, pa)'
  BY <1>1, ArgumentsStay
<1>3. n = arg' /\ m = mode' /\ po = port' /\ pa = path'
  BY <1>1
<1> QED
  BY <1>2, <1>3 DEF ReadTo

\* Every step of main preserves the invariant.
LEMMA InvNext == Inv /\ [MainNext]_mainVars => Inv'
<1> SUFFICES ASSUME Inv, [MainNext]_mainVars PROVE Inv'
  OBVIOUS
<1>1. MainTypeOK'
  BY TypeNext DEF Inv
<1>2. CASE ModeFlag \/ ValueOption \/ Ignored
  <2>1. phase = "arguments" /\ phase' = phase /\ announced' = announced /\ listening' = listening
    BY <1>2 DEF ModeFlag, ValueOption, Ignored
  <2>2. Banners'
    BY <2>1 DEF Inv, Banners
  <2> QED
    BY <1>1, <1>2, <2>2, ReadNext DEF Inv
<1>3. CASE Help
  <2>1. phase' = "exited" /\ listening' = listening /\ phase = "arguments"
    BY <1>3 DEF Help
  <2> QED
    BY <1>1, <2>1 DEF Inv, Banners
<1>4. CASE Banner
  <2>1. ReadTo(arg, mode, port, path)'
    BY <1>4, ReadStays DEF Banner, Inv
  <2>2. arg' = Len(argv)' + 1
    BY <1>4 DEF Banner, Inv, MainTypeOK
  <2>3. Banners'
    BY <1>4, <2>2 DEF Banner, Inv, Banners
  <2> QED
    BY <1>1, <2>1, <2>3 DEF Inv
<1>5. CASE Listen
  <2>1. ReadTo(arg, mode, port, path)'
    BY <1>5, ReadStays DEF Listen, Inv
  <2>2. Banners'
    BY <1>5 DEF Listen, Inv, Banners
  <2> QED
    BY <1>1, <2>1, <2>2 DEF Inv
<1>6. CASE UNCHANGED mainVars
  <2>1. phase # "exited" => ReadTo(arg, mode, port, path)'
    BY <1>6, ReadStays DEF mainVars, Inv
  <2>2. phase' = phase /\ Banners'
    BY <1>6 DEF mainVars, Inv, Banners
  <2> QED
    BY <1>1, <2>1, <2>2 DEF Inv
<1> QED
  BY <1>2, <1>3, <1>4, <1>5, <1>6 DEF MainNext

\* The invariant holds in every state main reaches.
LEMMA Invariant == MainSpec => []Inv
  BY InvInit, InvNext, PTL DEF MainSpec

-----------------------------------------------------------------------------
(* What follows. *)

\* When the loop has ended, what has been read is everything.
LEMMA AllRead ==
  ASSUME argv \in Seq(Words), ReadTo(Len(argv) + 1, mode, port, path)
  PROVE  SettingsAsGiven
<1>1. \A options : UsesBefore(options, Len(argv) + 1) = Uses(options)
  BY DEF UsesBefore, Uses
<1>2. mode = ModeOf(Uses({"--http", "--https"}))
  BY <1>1 DEF ReadTo
<1>3. \A o \in PortOptions : port[o] = PortOf(o, Uses({o}) \ {Len(argv)})
  BY <1>1 DEF ReadTo
<1>4. \A o \in ValueOptions \ PortOptions : path[o] = PathOf(o, Uses({o}) \ {Len(argv)})
  BY <1>1 DEF ReadTo
<1>5. Uses({"--help"}) = {}
  BY <1>1 DEF ReadTo
<1> QED
  BY <1>2, <1>3, <1>4, <1>5 DEF SettingsAsGiven, ModeOf, PortOf, PathOf

\* The settings are those of the last use of each option: the loop of main
\* neither reads a value as an option nor an option as a value, for any number
\* of arguments.
THEOREM Settings == MainSpec => []SettingsAsGiven
<1>1. Inv => SettingsAsGiven
  <2> SUFFICES ASSUME Inv, phase \in {"announced", "serving"} PROVE SettingsAsGiven
    BY DEF SettingsAsGiven
  <2> QED
    BY AllRead DEF Inv, MainTypeOK, Banners
<1> QED
  BY <1>1, Invariant, PTL

\* The one socket is always among those announced, and it is all of them exactly
\* when the command line names a protocol: the default announces two and opens
\* one, whatever else is given.
THEOREM Announced ==
  MainSpec => [](phase = "serving" =>
                   /\ listening \subseteq announced
                   /\ ServesAllThatIsAnnounced <=> Uses({"--http", "--https"}) # {})
<1>1. Inv /\ phase = "serving" =>
        /\ listening \subseteq announced
        /\ ServesAllThatIsAnnounced <=> Uses({"--http", "--https"}) # {}
  <2> SUFFICES ASSUME Inv, phase = "serving"
               PROVE  /\ listening \subseteq announced
                      /\ ServesAllThatIsAnnounced <=> Uses({"--http", "--https"}) # {}
    OBVIOUS
  <2>1. mode = "both" <=> Uses({"--http", "--https"}) = {}
    <3>1. mode = ModeOf(Uses({"--http", "--https"}))
      BY AllRead DEF Inv, MainTypeOK, Banners, SettingsAsGiven, ModeOf
    <3> QED
      BY <3>1 DEF ModeOf
  <2>2. /\ announced = (IF mode # "http" THEN {<<"https", port["--port"]>>} ELSE {})
                  \cup (IF mode # "https" THEN {<<"http", port["--http-port"]>>} ELSE {})
        /\ listening = (IF mode = "http" THEN {<<"http", port["--http-port"]>>}
                        ELSE {<<"https", port["--port"]>>})
        /\ mode \in {"http", "https", "both"}
    BY DEF Inv, Banners, MainTypeOK
  <2>3. announced \subseteq listening <=> mode # "both"
    <3> DEFINE secure == <<"https", port["--port"]>>
               plain == <<"http", port["--http-port"]>>
    <3>1. secure # plain
      OBVIOUS
    <3>2. /\ announced = (IF mode # "http" THEN {secure} ELSE {}) \cup (IF mode # "https" THEN {plain} ELSE {})
          /\ listening = (IF mode = "http" THEN {plain} ELSE {secure})
      BY <2>2
    <3> HIDE DEF secure, plain
    <3> QED
      BY <2>2, <3>1, <3>2
  <2>4. listening \subseteq announced
    BY <2>2
  <2> QED
    BY <2>1, <2>3, <2>4 DEF ServesAllThatIsAnnounced
<1> QED
  BY <1>1, Invariant, PTL
=============================================================================
