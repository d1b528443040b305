--------------------------------- MODULE Prf ---------------------------------
(***************************************************************************)
(* hmac_sha256 (src/src/crypto/hmac.c), tls_prf (src/src/tls/prf.c), and   *)
(* derive_keys (src/src/tls/handshake.c), which calls it twice.  Texts are *)
(* sequences of octets; the hash function and ^ on octets are given.       *)
(***************************************************************************)
EXTENDS Integers, Sequences

CONSTANTS
  sha256(_), DIGEST_SIZE, BLOCK_SIZE,         \* the hash function, its digests and blocks
  ByteXor(_, _),                              \* ^ of two octets
  SEED_SIZE,                                  \* the size of full_seed
  MASTER_SIZE, MAC_SIZE, KEY_SIZE, IV_SIZE,   \* of the secrets derived
  MasterLabel, KeyLabel,                      \* "master secret" and "key expansion"
  PrfCalls,                                   \* any arguments of tls_prf
  Sessions                                    \* pre-master secrets and randoms

Octet == 0 .. 255
Text == Seq(Octet)

ASSUME PrfAssumption ==
  /\ DIGEST_SIZE \in Nat \ {0}
  /\ {BLOCK_SIZE, SEED_SIZE, MASTER_SIZE, MAC_SIZE, KEY_SIZE, IV_SIZE} \subseteq Nat
  /\ \A x, y \in Octet : ByteXor(x, y) \in Octet
  /\ \A y \in Octet : ByteXor(0, y) = y
  /\ {MasterLabel, KeyLabel} \subseteq Text
  /\ PrfCalls \subseteq [secret : Text, full_seed : Text, output_len : Nat]
  /\ Sessions \subseteq [pre_master_secret : Text, client_random : Text, server_random : Text]
  /\ \A s \in Sessions, label \in {MasterLabel, KeyLabel} :   \* tls_prf: "shouldn't happen"
       Len(label) + Len(s.client_random) + Len(s.server_random) <= SEED_SIZE

VARIABLES
  session,                 \* one of Sessions
  call,                    \* the arguments of tls_prf
  A, output,               \* of tls_prf
  master, keys,            \* what derive_keys has derived
  deriving                 \* which call it is in

prfVars == <<session, call, A, output, master, keys, deriving>>

\* hmac_sha256: a long key is hashed, a short one padded with zeros.
hmac_sha256(key, msg) ==
  LET short == IF Len(key) > BLOCK_SIZE THEN sha256(key) ELSE key
      k_padded == [k \in 1 .. BLOCK_SIZE |-> IF k <= Len(short) THEN short[k] ELSE 0]
      inner_key == [k \in 1 .. BLOCK_SIZE |-> ByteXor(k_padded[k], 54)]
      outer_key == [k \in 1 .. BLOCK_SIZE |-> ByteXor(k_padded[k], 92)]
  IN sha256(outer_key \o sha256(inner_key \o msg))

\* tls_prf begins; it returns at once if the seed does not fit.
Arguments(secret, label, seed, output_len) ==
  [secret |-> secret, full_seed |-> label \o seed, output_len |-> output_len]
Fits(args) == Len(args.full_seed) <= SEED_SIZE
Begin(args) ==
  /\ call' = args /\ output' = << >>
  /\ A' = IF Fits(args) THEN hmac_sha256(args.secret, args.full_seed) ELSE << >>

NoCall == Arguments(<< >>, << >>, << >>, 0)
NoKeys == [client_mac |-> << >>, server_mac |-> << >>, client_key |-> << >>, server_key |-> << >>,
           client_iv |-> << >>, server_iv |-> << >>]

PrfInit ==
  /\ output = << >> /\ master = << >> /\ keys = NoKeys
  /\ \/ session = << >> /\ deriving = "alone" /\ call \in PrfCalls
     \/ session \in Sessions /\ deriving = "begin" /\ call = NoCall
  /\ A = IF Fits(call) THEN hmac_sha256(call.secret, call.full_seed) ELSE << >>
PrfIdle ==
  /\ session = << >> /\ call = NoCall /\ A = << >> /\ output = << >>
  /\ master = << >> /\ keys = NoKeys /\ deriving = "idle"

Expanding == deriving \in {"alone", "master", "keys"} /\ Fits(call) /\ Len(output) < call.output_len
Returned == ~ Fits(call) \/ Len(output) = call.output_len

\* Variant: A(i) is hashed with the seed.
NextWithSeed(secret, a, seed) == hmac_sha256(secret, a \o seed)

\* A(i + 1), written where A(i) is read.
NextOfA(secret, a, seed) == hmac_sha256(secret, a)

\* A turn of tls_prf's loop.
ExpandBlock ==
  /\ Expanding
  /\ LET hmac_out == hmac_sha256(call.secret, A \o call.full_seed)
         rest == call.output_len - Len(output)
     IN output' = output \o SubSeq(hmac_out, 1, IF rest > DIGEST_SIZE THEN DIGEST_SIZE ELSE rest)
  /\ A' = NextOfA(call.secret, A, call.full_seed)
  /\ UNCHANGED <<session, call, master, keys, deriving>>

\* derive_keys.
DeriveMaster ==
  /\ deriving = "begin"
  /\ Begin(Arguments(session.pre_master_secret, MasterLabel,
                     session.client_random \o session.server_random, MASTER_SIZE))
  /\ deriving' = "master"
  /\ UNCHANGED <<session, master, keys>>

DeriveKeyBlock ==
  /\ deriving = "master" /\ Returned
  /\ master' = output
  /\ Begin(Arguments(output, KeyLabel, session.server_random \o session.client_random,
                     2 * (MAC_SIZE + KEY_SIZE + IV_SIZE)))
  /\ deriving' = "keys"
  /\ UNCHANGED <<session, keys>>

SliceKeyBlock ==
  /\ deriving = "keys" /\ Returned
  /\ LET Slice(pos, size) == SubSeq(output, pos + 1, pos + size)
         key == 2 * MAC_SIZE
         iv == key + 2 * KEY_SIZE
     IN keys' = [client_mac |-> Slice(0, MAC_SIZE), server_mac |-> Slice(MAC_SIZE, MAC_SIZE),
                 client_key |-> Slice(key, KEY_SIZE), server_key |-> Slice(key + KEY_SIZE, KEY_SIZE),
                 client_iv |-> Slice(iv, IV_SIZE), server_iv |-> Slice(iv + IV_SIZE, IV_SIZE)]
  /\ deriving' = "derived" /\ output' = << >>
  /\ UNCHANGED <<session, call, A, master>>

Derive == ExpandBlock \/ DeriveMaster \/ DeriveKeyBlock \/ SliceKeyBlock

-----------------------------------------------------------------------------
(* RFC 2104 and RFC 5246, sections 5, 6.3 and 8.1. *)

Hmac(key, text) ==
  LET K == IF Len(key) > BLOCK_SIZE THEN sha256(key) ELSE key
      Pad(byte) == [k \in 1 .. BLOCK_SIZE |-> IF k > Len(K) THEN byte ELSE ByteXor(K[k], byte)]
  IN sha256(Pad(92) \o sha256(Pad(54) \o text))

\* A(0), A(1), ..., and the k-th byte of P_hash.
SeriesA(secret, seed) ==
  LET a[n \in Nat] == IF n = 0 THEN seed ELSE Hmac(secret, a[n - 1]) IN a
P_hash(secret, seed, k) ==
  LET blockNo == (k - 1) \div DIGEST_SIZE + 1
  IN Hmac(secret, SeriesA(secret, seed)[blockNo] \o seed)[((k - 1) % DIGEST_SIZE) + 1]
PRF(secret, label, seed, n) == [k \in 1 .. n |-> P_hash(secret, label \o seed, k)]

\* What tls_prf has written is the beginning of P_hash, as long as the seed fits.
ExpandsAsInRfc ==
  /\ Fits(call) => output = PRF(call.secret, << >>, call.full_seed, Len(output))
  /\ ~ Fits(call) => output = << >>

\* The master secret and the six keys are those parts of the PRF that both ends
\* have to agree on.
DerivesAsInRfc ==
  deriving = "derived" =>
    LET block == keys.client_mac \o keys.server_mac \o keys.client_key \o keys.server_key
                   \o keys.client_iv \o keys.server_iv
        randoms == session.client_random \o session.server_random
        reversed == session.server_random \o session.client_random
    IN /\ master = PRF(session.pre_master_secret, MasterLabel, randoms, MASTER_SIZE)
       /\ block = PRF(master, KeyLabel, reversed, 2 * (MAC_SIZE + KEY_SIZE + IV_SIZE))
       /\ Len(keys.client_mac) = Len(keys.server_mac) /\ Len(keys.client_key) = Len(keys.server_key)

\* The secrets are those of the RFCs, whatever the lengths (tls_prf, derive_keys).
PrfAsInRfc == ExpandsAsInRfc /\ DerivesAsInRfc
=============================================================================
