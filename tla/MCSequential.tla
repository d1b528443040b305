----------------------------- MODULE MCSequential -----------------------------
(***************************************************************************)
(* The parts that run alone: the arguments of main, the streaming hash and *)
(* what the handshake computes with keys.  They share no state, so each    *)
(* behaviour runs one of them and leaves the others where they start.      *)
(* Below the model, values for them that are small enough for TLC.         *)
(***************************************************************************)
EXTENDS MCServerMain, Sha256Stream, KeyExchange, Bitwise

VARIABLE part

KeysIdle == LoadIdle /\ RsaIdle /\ PrfIdle

PartsInit ==
  \/ part = "arguments" /\ MainInit /\ HashInit /\ KeysIdle
  \/ part = "hash" /\ MainInit /\ argv = << >> /\ HashInit /\ KeysIdle
  \/ part = "keys" /\ MainInit /\ argv = << >> /\ HashInit /\ Init

PartsNext ==
  \/ part = "arguments" /\ MainNext /\ UNCHANGED <<part, hashVars, vars>>
  \/ part = "hash" /\ HashNext /\ UNCHANGED <<part, mainVars, vars>>
  \/ part = "keys" /\ Next /\ UNCHANGED <<part, mainVars, hashVars>>

PartsSpec == PartsInit /\ [][PartsNext]_<<part, mainVars, hashVars, vars>>

Bits(n) == [1 .. n -> 0 .. 1]
Bit6(n) == [k \in 1 .. 6 |-> (n \div 2 ^ (6 - k)) % 2]
One == <<1>>
Ones(n) == [k \in 1 .. n |-> 1]

\* Every base, exponent and modulus of up to four bits; and RSA keys of six and
\* seven bits with every ciphertext, and with every block for the exponent 1.
\* And ciphertexts that just fit the array of words, and that do not.
MCOperands ==
  [base : Bits(4), exp : Bits(3), mod : Bits(4)]
    \cup UNION {[base : Bits(6), exp : {One, <<k[2], k[3], k[4], k[5]>>}, mod : {Bit6(k[1])}] :
                  k \in {<<33, 0, 1, 1, 1>>, <<35, 0, 1, 0, 1>>, <<51, 1, 0, 1, 1>>, <<63, 0, 0, 1, 1>>}}
    \cup [base : {Ones(n) : n \in {15, 16, 17, 20}}, exp : {<<1, 1, 1>>}, mod : {Bit6(33)}]
    \cup [base : {<<0, 0>> \o low : low \in Bits(5)}, exp : {One}, mod : {<<1, 0, 1, 0, 1, 0, 1>>}]

\* Key files: numbers of lengths around the limits of DER and of the buffers, in
\* lines of several widths; and short keys with something lost.
High(n) == [k \in 1 .. n |-> IF k = 1 THEN 200 ELSE (7 * k) % 256]
Key(n, d) == << << >>, n, <<3>>, d, <<13>>, High(2), <<5>>, High(1), << >> >>
File(all, lost, width, missing) == [numbers |-> all, lost |-> lost, width |-> width, missing |-> missing]
MCKeyFiles ==
  {File(Key(n, Ones(2)), 0, 64, "nothing") : n \in {Ones(127), High(127), Ones(128), High(128), High(255), High(256), High(257)}}
    \cup {File(Key(High(2), d), 0, 5, "nothing") : d \in {<<1>>, <<128>>, <<127, 0>>, << >>, <<255, 255, 255>>}}
    \cup {File(Key(Ones(3), High(1)), lost, width, missing) :
            lost \in 0 .. 12, width \in {4, 7, 99}, missing \in {"nothing", "file", "begin", "newline", "end"}}
    \cup {File([Key(<<1>>, <<1>>) EXCEPT ![1] = Ones(n)], 0, 9, "nothing") : n \in {1, 8, 9}}
    \cup {File(Key(High(256), High(100)), 0, 64, "nothing")}

Octets(n, from) == [k \in 1 .. n |-> (from + 37 * k) % 256]
MCsha256(s) ==
  [k \in 1 .. DIGEST_SIZE |-> FoldLeft(LAMBDA h, byte : (h * (byte + 31) + byte * (k + 2) + 7) % 251, k, s)]
MCByteXor(x, y) == x ^^ y
MCPrfCalls ==
  {[secret |-> Octets(s, 5), full_seed |-> Octets(f, 90), output_len |-> n] :
     s \in {0, 3, 4, 5}, f \in {0, 2, 6, 7}, n \in 0 .. 10}
MCSessions ==
  {[pre_master_secret |-> Octets(5, 1), client_random |-> Octets(2, c), server_random |-> Octets(2, s)] :
     c \in {3, 4}, s \in {4, 9}}
MCMasterLabel == <<1>>
MCKeyLabel == <<2, 2>>
=============================================================================
