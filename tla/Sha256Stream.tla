---------------------------- MODULE Sha256Stream ----------------------------
(***************************************************************************)
(* The streaming interface of src/src/crypto/sha256.c: sha256_init,        *)
(* sha256_update with pieces of any length, and sha256_final, as the TLS   *)
(* handshake uses it: one running context (hash_handshake) of which copies *)
(* are finished on the way.                                                *)
(*                                                                         *)
(* The compression function is not evaluated: state is the sequence of     *)
(* blocks it was given.  The k-th byte of the message is the number k.     *)
(***************************************************************************)
EXTENDS Integers, Sequences

CONSTANTS
  Pieces,   \* the lengths sha256_update is called with
  Longest   \* bound: the total length of the message

ASSUME StreamAssumption == Pieces \subseteq Nat /\ Longest \in Nat

SHA256_BLOCK_SIZE == 64
Positions == 0 .. SHA256_BLOCK_SIZE - 1

VARIABLES
  state,       \* the blocks sha256_transform has been applied to
  buffer,      \* bytes kept for the next call
  buffer_len,  \* how many of them count
  total_len,   \* length of the message so far
  digest       \* the last result: the message's length and the blocks hashed

hashVars == <<state, buffer, buffer_len, total_len, digest>>

\* Bytes that are not bytes of the message: the 1 bit and its seven zeros,
\* zeros, and the k-th of eight bytes of the length n in bits.
OneBit == -1
Zeros == 0
LengthByte(n, k) == -2 - 8 * n - k

\* sha256_init; the buffer is not initialised.
HashInit ==
  /\ state = << >> /\ buffer = [i \in Positions |-> Zeros]
  /\ buffer_len = 0 /\ total_len = 0
  /\ digest = [length |-> 0, blocks |-> << >>]

\* Bytes p + 1, p + 2, ... of the message as a block.
BlockAt(p) == [i \in Positions |-> p + i + 1]

\* Variant: a full buffer is hashed by the next call.
UpdateLazy(len) ==
  /\ buffer_len = SHA256_BLOCK_SIZE \/ buffer_len + len <= SHA256_BLOCK_SIZE
  /\ total_len' = total_len + len
  /\ state' = IF buffer_len = SHA256_BLOCK_SIZE THEN Append(state, buffer) ELSE state
  /\ LET from == buffer_len % SHA256_BLOCK_SIZE IN
       /\ buffer' = [i \in Positions |->
                       IF i \in from .. from + len - 1 THEN total_len + i - from + 1 ELSE buffer[i]]
       /\ buffer_len' = from + len
  /\ UNCHANGED digest

\* Variant: what the last call left over is not completed.
UpdateForgetful(len) ==
  LET whole == len \div SHA256_BLOCK_SIZE
      rest == len % SHA256_BLOCK_SIZE
  IN /\ total_len' = total_len + len
     /\ state' = state \o [b \in 1 .. whole |-> BlockAt(total_len + (b - 1) * SHA256_BLOCK_SIZE)]
     /\ buffer' = [i \in Positions |->
                     IF i < rest THEN total_len + whole * SHA256_BLOCK_SIZE + i + 1 ELSE buffer[i]]
     /\ buffer_len' = IF rest > 0 THEN rest ELSE buffer_len
     /\ UNCHANGED digest

\* sha256_update(ctx, data, len): fill the buffer and hash it if it is full,
\* hash whole blocks of the input, keep the rest.
Update(len) ==
  LET room == SHA256_BLOCK_SIZE - buffer_len
      to_copy == IF buffer_len = 0 THEN 0 ELSE IF len < room THEN len ELSE room
      filled == [i \in Positions |->
                   IF i \in buffer_len .. buffer_len + to_copy - 1
                     THEN total_len + i - buffer_len + 1 ELSE buffer[i]]
      full == buffer_len + to_copy = SHA256_BLOCK_SIZE
      from == total_len + to_copy
      whole == (len - to_copy) \div SHA256_BLOCK_SIZE
      rest == (len - to_copy) % SHA256_BLOCK_SIZE
  IN /\ total_len' = total_len + len
     /\ state' = state \o (IF full THEN <<filled>> ELSE << >>)
                       \o [b \in 1 .. whole |-> BlockAt(from + (b - 1) * SHA256_BLOCK_SIZE)]
     /\ buffer' = [i \in Positions |->
                     IF i < rest THEN from + whole * SHA256_BLOCK_SIZE + i + 1 ELSE filled[i]]
     /\ buffer_len' = IF rest > 0 THEN rest ELSE IF full THEN 0 ELSE buffer_len + to_copy
     /\ UNCHANGED digest

\* sha256_final's one or two blocks: the buffer, the 1 bit, zeros up to the
\* last eight bytes, the length.
FinalBlocks ==
  LET pad_len == IF buffer_len + 1 > 56 THEN 2 ELSE 1
      last == pad_len * SHA256_BLOCK_SIZE - 8
  IN [b \in 1 .. pad_len |->
        [i \in Positions |->
           LET p == (b - 1) * SHA256_BLOCK_SIZE + i IN
             IF p < buffer_len THEN buffer[p]
             ELSE IF p = buffer_len THEN OneBit
             ELSE IF p < last THEN Zeros ELSE LengthByte(total_len, p - last)]]

\* Variant: no copy is made, the context itself is finished.
FinishContext ==
  /\ digest' = [length |-> total_len, blocks |-> state \o FinalBlocks]
  /\ state' = state \o FinalBlocks
  /\ UNCHANGED <<buffer, buffer_len, total_len>>

\* A copy of the context is finished; the context goes on.
FinishCopy ==
  /\ digest' = [length |-> total_len, blocks |-> state \o FinalBlocks]
  /\ UNCHANGED <<state, buffer, buffer_len, total_len>>

HashNext ==
  \/ \E len \in Pieces : total_len + len <= Longest /\ Update(len)
  \/ FinishCopy

HashSpec == HashInit /\ [][HashNext]_hashVars

-----------------------------------------------------------------------------
(* Properties. *)

HashTypeOK ==
  /\ state \in Seq([Positions -> Int]) /\ buffer \in [Positions -> Int]
  /\ buffer_len \in 0 .. SHA256_BLOCK_SIZE - 1 /\ total_len \in Nat
  /\ digest \in [length : Nat, blocks : Seq([Positions -> Int])]

\* FIPS 180-4: the message of n bytes, padded to whole blocks.
PaddedCount(n) == (n + 9 + SHA256_BLOCK_SIZE - 1) \div SHA256_BLOCK_SIZE
PaddedMessage(n) ==
  LET last == PaddedCount(n) * SHA256_BLOCK_SIZE - 8 IN
    [b \in 1 .. PaddedCount(n) |->
       [i \in Positions |->
          LET p == (b - 1) * SHA256_BLOCK_SIZE + i IN
            IF p < n THEN p + 1
            ELSE IF p = n THEN OneBit
            ELSE IF p < last THEN Zeros ELSE LengthByte(n, p - last)]]

\* Whatever the pieces and whatever was finished before, a digest is that of
\* the padded whole message: the blocks hashed are those of FIPS 180-4.  The
\* handshake hash and both HMAC passes rest on this.
DigestOfWholeMessage ==
  digest.blocks # << >> => digest.blocks = PaddedMessage(digest.length)

\* Every byte hashed so far is in the blocks or in the buffer, in its place.
NothingLost ==
  /\ total_len = Len(state) * SHA256_BLOCK_SIZE + buffer_len
  /\ \A b \in 1 .. Len(state) : state[b] = BlockAt((b - 1) * SHA256_BLOCK_SIZE)
  /\ \A i \in 0 .. buffer_len - 1 : buffer[i] = Len(state) * SHA256_BLOCK_SIZE + i + 1
=============================================================================
