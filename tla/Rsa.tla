--------------------------------- MODULE Rsa ---------------------------------
(***************************************************************************)
(* rsa_decrypt_pkcs1 (src/src/crypto/rsa.c): the power of the ciphertext,  *)
(* as bytes, is stripped of its padding.                                   *)
(***************************************************************************)
EXTENDS BigNum

CONSTANTS
  BLOCK_TYPE, MIN_PADDING,  \* 2 and 8 in the code
  DECRYPTED_SIZE, PT_MAX    \* the buffers of the block and of the caller

ASSUME RsaAssumption == {BLOCK_TYPE, MIN_PADDING, DECRYPTED_SIZE, PT_MAX} \subseteq Nat /\ BLOCK_TYPE < BYTE

VARIABLE pt   \* what the caller gets

\* The bytes of the modulus: key->bits rounded up.
key_bytes == (bn_bit_length(mod) + ByteBits - 1) \div ByteBits

\* The first zero behind the block type, or the end.
Separator(decrypted) == Min({k \in 3 .. Len(decrypted) : decrypted[k] = 0} \cup {Len(decrypted) + 1})

\* Variant: a byte too few of padding is accepted.
PaddedShort(decrypted) ==
  /\ decrypted[1] = 0 /\ decrypted[2] = BLOCK_TYPE
  /\ Separator(decrypted) \in 2 + MIN_PADDING .. Len(decrypted)

Padded(decrypted) ==
  /\ decrypted[1] = 0 /\ decrypted[2] = BLOCK_TYPE
  /\ Separator(decrypted) \in 3 + MIN_PADDING .. Len(decrypted)

Strip ==
  /\ pc = "done"
  /\ LET decrypted == bn_to_bytes(result, key_bytes)
         data == SubSeq(decrypted, Separator(decrypted) + 1, key_bytes)
         accepted == key_bytes \in 3 + MIN_PADDING .. DECRYPTED_SIZE /\ Padded(decrypted) /\ Len(data) <= PT_MAX
     IN IF accepted THEN pc' = "accepted" /\ pt' = data
                    ELSE pc' = "rejected" /\ UNCHANGED pt
  /\ UNCHANGED <<ct, base, exp, mod, result, b, i, dividend, remainder, bit>>

Decrypt == (ModExp /\ UNCHANGED pt) \/ Strip
rsaVars == <<bnVars, pt>>
RsaInit == ModExpInit /\ pt = << >>
RsaIdle == ModExpIdle /\ pt = << >>

\* What a client pads and encrypts (RFC 8017, 7.2.1): data that fits, behind as
\* much padding as fills the modulus.
Block(padding, data) == <<0, BLOCK_TYPE>> \o padding \o <<0>> \o data
Numbers(bytes) ==
  LET number[k \in 0 .. Len(bytes)] == IF k = 0 THEN 0 ELSE number[k - 1] * BYTE + bytes[k]
  IN number
Number(bytes) == Numbers(bytes)[Len(bytes)]

\* The caller gets exactly the data of a padded block that is as long as the
\* modulus, with enough padding and data that fits (rsa_decrypt_pkcs1).
PaddingDecides ==
  LET Blocks == {block \in
                   UNION {[1 .. n -> 1 .. BYTE - 1] \X [1 .. key_bytes - 3 - n -> 0 .. BYTE - 1] : n \in MIN_PADDING .. key_bytes - 3} :
                   Number(Block(block[1], block[2])) = Value(result) /\ Len(block[2]) <= PT_MAX}
  IN pc \in {"accepted", "rejected"} =>
       /\ ~ TooLong(ct)
       /\ pc = "accepted" <=> Blocks # {} /\ key_bytes <= DECRYPTED_SIZE
       /\ pc = "accepted" => \E block \in Blocks : pt = block[2]
=============================================================================
