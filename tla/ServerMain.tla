------------------------------ MODULE ServerMain ------------------------------
(***************************************************************************)
(* The start of the server, main of src/src/main.c: the arguments are read *)
(* one per iteration, the banner says what will be served, and one         *)
(* listening socket is opened.  The loop that accepts its clients is       *)
(* HttpServer or TlsServer.                                                *)
(***************************************************************************)
EXTENDS Integers, Sequences, SequencesExt, FiniteSets

CONSTANTS
  Texts,    \* arguments that are no option
  Atoi,   \* what atoi reads in each of them
  MaxArgs   \* bound: arguments given

Flags == {"--http", "--https", "--help"}
PortOptions == {"--port", "--http-port"}
ValueOptions == PortOptions \cup {"--www", "--cert", "--key"}
Words == Flags \cup ValueOptions \cup Texts

ASSUME MainAssumption ==
  /\ Atoi \in [Texts -> Int] /\ MaxArgs \in Nat
  /\ Texts \cap (Flags \cup ValueOptions) = {}

VARIABLES
  argv,        \* the arguments
  arg,           \* the next one to read
  mode,        \* "http", "https" or "both" (0, 1, 2)
  port,        \* https_port and http_port
  path,        \* www_root, cert_path and key_path
  phase,       \* what main is doing
  announced,   \* what the banner names: pairs <<protocol, port>>
  listening    \* what the socket serves, or nothing

mainVars == <<argv, arg, mode, port, path, phase, announced, listening>>

Default == "default"
DefaultPort == [o \in PortOptions |-> IF o = "--port" THEN 4443 ELSE 8080]

MainInit ==
  /\ argv \in BoundedSeq(Words, MaxArgs) /\ arg = 1
  /\ mode = "both"
  /\ port = DefaultPort
  /\ path = [o \in ValueOptions \ PortOptions |-> Default]
  /\ phase = "arguments" /\ announced = {} /\ listening = {}

MaxPort == 65535

\* Variant: the range is not reduced.
PortUnbounded(text) == IF text \in Texts THEN Atoi[text] ELSE 0

\* (uint16_t)atoi(text)
Port(text) == (IF text \in Texts THEN Atoi[text] ELSE 0) % (MaxPort + 1)

\* Variant: the value is looked at again as an option.
ValueOptionRescanned ==
  /\ phase = "arguments" /\ arg < Len(argv) /\ argv[arg] \in ValueOptions
  /\ \/ /\ argv[arg] \in PortOptions
        /\ port' = [port EXCEPT ![argv[arg]] = Port(argv[arg + 1])] /\ UNCHANGED path
     \/ /\ argv[arg] \notin PortOptions
        /\ path' = [path EXCEPT ![argv[arg]] = argv[arg + 1]] /\ UNCHANGED port
  /\ arg' = arg + 1
  /\ UNCHANGED <<argv, mode, phase, announced, listening>>

\* One iteration of the loop over argv: --http or --https,
ModeFlag ==
  /\ phase = "arguments" /\ arg <= Len(argv) /\ argv[arg] \in {"--http", "--https"}
  /\ mode' = IF argv[arg] = "--http" THEN "http" ELSE "https"
  /\ arg' = arg + 1
  /\ UNCHANGED <<argv, port, path, phase, announced, listening>>

\* an option and its value, whatever that looks like,
ValueOption ==
  /\ phase = "arguments" /\ arg < Len(argv) /\ argv[arg] \in ValueOptions
  /\ \/ /\ argv[arg] \in PortOptions
        /\ port' = [port EXCEPT ![argv[arg]] = Port(argv[arg + 1])] /\ UNCHANGED path
     \/ /\ argv[arg] \notin PortOptions
        /\ path' = [path EXCEPT ![argv[arg]] = argv[arg + 1]] /\ UNCHANGED port
  /\ arg' = arg + 2
  /\ UNCHANGED <<argv, mode, phase, announced, listening>>

\* --help, which ends the program,
Help ==
  /\ phase = "arguments" /\ arg <= Len(argv) /\ argv[arg] = "--help"
  /\ phase' = "exited"
  /\ UNCHANGED <<argv, arg, mode, port, path, announced, listening>>

\* anything else, an option whose value is missing included, which is ignored.
Ignored ==
  /\ phase = "arguments" /\ arg <= Len(argv)
  /\ argv[arg] \in Texts \/ (argv[arg] \in ValueOptions /\ arg = Len(argv))
  /\ arg' = arg + 1
  /\ UNCHANGED <<argv, mode, port, path, phase, announced, listening>>

\* The banner (and, before it, cache_index_response: see HttpServer).
Banner ==
  /\ phase = "arguments" /\ arg > Len(argv)
  /\ announced' = (IF mode # "http" THEN {<<"https", port["--port"]>>} ELSE {})
              \cup (IF mode # "https" THEN {<<"http", port["--http-port"]>>} ELSE {})
  /\ phase' = "announced"
  /\ UNCHANGED <<argv, arg, mode, port, path, listening>>

\* tcp_listen and the loop that follows it; no socket, no server.
Listen ==
  /\ phase = "announced"
  /\ \/ /\ listening' = IF mode = "http" THEN {<<"http", port["--http-port"]>>}
                        ELSE {<<"https", port["--port"]>>}
        /\ phase' = "serving"
     \/ phase' = "exited" /\ UNCHANGED listening
  /\ UNCHANGED <<argv, arg, mode, port, path, announced>>

MainNext == ModeFlag \/ ValueOption \/ Help \/ Ignored \/ Banner \/ Listen

MainSpec == MainInit /\ [][MainNext]_mainVars

-----------------------------------------------------------------------------
(* Properties. *)

MainTypeOK ==
  /\ argv \in Seq(Words) /\ arg \in 1 .. Len(argv) + 1
  /\ mode \in {"http", "https", "both"}
  /\ port \in [PortOptions -> 0 .. MaxPort]
  /\ path \in [ValueOptions \ PortOptions -> Words \cup {Default}]
  /\ phase \in {"arguments", "announced", "serving", "exited"}
  /\ announced \subseteq {"http", "https"} \X (0 .. MaxPort)
  /\ listening \subseteq {"http", "https"} \X (0 .. MaxPort)

\* The positions taken as values: an option that is no value itself takes the
\* next position.
IsValue == [k \in 0 .. Len(argv) |->
              IF k < 2 THEN FALSE ELSE
                Cardinality({j \in 1 .. k - 1 : \A l \in j .. k - 1 : argv[l] \in ValueOptions}) % 2 = 1]

\* The occurrences of the options in a set.
Uses(options) == {k \in 1 .. Len(argv) : argv[k] \in options /\ ~ IsValue[k]}
LastOf(S) == CHOOSE k \in S : \A l \in S : l <= k

\* When the arguments have been read, every setting is that of its option's
\* last use with a value, or the default, and options given as values set
\* nothing (the loop of main reads from left to right with ++i).
SettingsAsGiven ==
  phase \in {"announced", "serving"} =>
    /\ LET modes == Uses({"--http", "--https"}) IN
         mode = CASE modes = {} -> "both"
                  [] OTHER -> IF argv[LastOf(modes)] = "--http" THEN "http" ELSE "https"
    /\ \A o \in ValueOptions :
         LET uses == Uses({o}) \ {Len(argv)}
             value == argv[LastOf(uses) + 1]
         IN IF o \in PortOptions
              THEN port[o] = IF uses = {} THEN DefaultPort[o] ELSE Port(value)
              ELSE path[o] = IF uses = {} THEN Default ELSE value
    /\ Uses({"--help"}) = {}

\* The usage text's "default: both" and the banner: what is announced is served.
ServesAllThatIsAnnounced == phase = "serving" => announced \subseteq listening
=============================================================================
