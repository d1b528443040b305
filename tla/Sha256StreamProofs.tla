------------------------- MODULE Sha256StreamProofs -------------------------
(***************************************************************************)
(* Proofs about Sha256Stream, for pieces of every length.  The inductive   *)
(* invariant says where every byte of the message is: NothingLost, with    *)
(* the types; the digests follow from it by counting blocks.               *)
(***************************************************************************)
EXTENDS Sha256Stream, SequenceTheorems, TLAPS

DigestInv == digest.blocks = << >> \/ digest.blocks = PaddedMessage(digest.length)

Inv == HashTypeOK /\ NothingLost /\ DigestInv

USE DEF SHA256_BLOCK_SIZE, Positions

\* sha256_init establishes the invariant.
LEMMA InitInv == HashInit => Inv
  BY DEF HashInit, Inv, HashTypeOK, NothingLost, DigestInv, Zeros

\* How an update of len bytes divides into c bytes that go to the buffer, w
\* whole blocks and r bytes that are kept.
LEMMA Division ==
  ASSUME NEW bl \in 0 .. 63, NEW len \in Nat, NEW total \in Nat, NEW L \in Nat,
         total = L * 64 + bl,
         NEW c, c = IF bl = 0 THEN 0 ELSE IF len < 64 - bl THEN len ELSE 64 - bl,
         NEW w, w = (len - c) \div 64, NEW r, r = (len - c) % 64
  PROVE  /\ c \in 0 .. 64 /\ c <= len /\ bl + c <= 64
         /\ w \in Nat /\ r \in 0 .. 63 /\ len - c = w * 64 + r
         /\ bl + c = 64 => total + c = (L + 1) * 64
         /\ bl + c # 64 => \/ bl = 0 /\ c = 0 /\ total + c = L * 64
                           \/ bl > 0 /\ c = len /\ w = 0 /\ r = 0
  <1>1. c \in 0 .. 64 /\ c <= len /\ bl + c <= 64 OBVIOUS
  <1>2. len - c \in Nat BY <1>1
  <1>3. w \in Nat /\ r \in 0 .. 63 /\ len - c = w * 64 + r BY <1>2
  <1>4. bl + c = 64 => total + c = (L + 1) * 64 OBVIOUS
  <1>5. bl + c # 64 => (bl = 0 /\ c = 0) \/ (bl > 0 /\ c = len) OBVIOUS
  <1>6. c = len => w = 0 /\ r = 0 BY <1>3
  <1> QED BY <1>1, <1>2, <1>3, <1>4, <1>5, <1>6

\* Three sequences, the second of length at most one, laid end to end.
LEMMA Joined ==
  ASSUME NEW S, NEW s \in Seq(S), NEW f \in Seq(S), NEW d \in Seq(S), NEW t, t = s \o f \o d
  PROVE  /\ t \in Seq(S) /\ Len(t) = Len(s) + Len(f) + Len(d)
         /\ \A b \in 1 .. Len(s) : t[b] = s[b]
         /\ \A b \in 1 .. Len(f) : t[Len(s) + b] = f[b]
         /\ \A b \in 1 .. Len(d) : t[Len(s) + Len(f) + b] = d[b]
  OBVIOUS

\* The bytes of the buffer and of the blocks after an update.
LEMMA UpdateInv ==
  ASSUME Inv, NEW len \in Nat, Update(len)
  PROVE  Inv'
  <1> DEFINE L == Len(state)
             c == IF buffer_len = 0 THEN 0
                  ELSE IF len < 64 - buffer_len THEN len ELSE 64 - buffer_len
             filled == [i \in 0 .. 63 |->
                          IF i \in buffer_len .. buffer_len + c - 1
                            THEN total_len + i - buffer_len + 1 ELSE buffer[i]]
             from == total_len + c
             w == (len - c) \div 64
             r == (len - c) % 64
             first == IF buffer_len + c = 64 THEN <<filled>> ELSE << >>
             direct == [b \in 1 .. w |-> BlockAt(from + (b - 1) * 64)]
  <1>1. /\ total_len' = total_len + len
        /\ state' = state \o first \o direct
        /\ buffer' = [i \in 0 .. 63 |-> IF i < r THEN from + w * 64 + i + 1 ELSE filled[i]]
        /\ buffer_len' = IF r > 0 THEN r ELSE IF buffer_len + c = 64 THEN 0 ELSE buffer_len + c
        /\ digest' = digest
    BY DEF Update
  <1>2. /\ buffer_len \in 0 .. 63 /\ total_len \in Nat /\ L \in Nat
        /\ total_len = L * 64 + buffer_len
    BY DEF Inv, HashTypeOK, NothingLost
  <1>3. state \in Seq([0 .. 63 -> Int]) /\ buffer \in [0 .. 63 -> Int]
    BY DEF Inv, HashTypeOK
  <1>4. /\ \A b \in 1 .. L : state[b] = BlockAt((b - 1) * 64)
        /\ \A i \in 0 .. buffer_len - 1 : buffer[i] = L * 64 + i + 1
    BY DEF Inv, NothingLost
  <1>5. /\ c \in 0 .. 64 /\ c <= len /\ buffer_len + c <= 64
        /\ w \in Nat /\ r \in 0 .. 63 /\ len - c = w * 64 + r
        /\ buffer_len + c = 64 => from = (L + 1) * 64
        /\ buffer_len + c # 64 => \/ buffer_len = 0 /\ c = 0 /\ from = L * 64
                                  \/ buffer_len > 0 /\ c = len /\ w = 0 /\ r = 0
    <2> HIDE DEF L, c, w, r
    <2>1. c = IF buffer_len = 0 THEN 0
              ELSE IF len < 64 - buffer_len THEN len ELSE 64 - buffer_len
      BY DEF c
    <2>2. w = (len - c) \div 64 /\ r = (len - c) % 64
      BY DEF w, r
    <2> QED BY <1>2, <2>1, <2>2, Division
  <1> HIDE DEF L, c, w, r
  <1>6. from \in Nat
    BY <1>2, <1>5
  <1>7. filled \in [0 .. 63 -> Int]
    <2>1. ASSUME NEW i \in 0 .. 63
          PROVE  (IF i \in buffer_len .. buffer_len + c - 1
                    THEN total_len + i - buffer_len + 1 ELSE buffer[i]) \in Int
      <3>1. total_len + i - buffer_len + 1 \in Int BY <1>2
      <3>2. buffer[i] \in Int BY <1>3
      <3> QED BY <3>1, <3>2
    <2> QED BY <2>1
  <1>8. ASSUME buffer_len + c = 64 PROVE filled = BlockAt(L * 64)
    <2>1. ASSUME NEW i \in 0 .. 63 PROVE filled[i] = L * 64 + i + 1
      <3>1. CASE i < buffer_len
        <4>1. i \in 0 .. buffer_len - 1 /\ i \notin buffer_len .. buffer_len + c - 1
          BY <3>1, <1>2, <1>5
        <4> QED BY <4>1, <1>4
      <3>2. CASE i >= buffer_len
        <4>1. i \in buffer_len .. buffer_len + c - 1
          BY <3>2, <1>2, <1>5, <1>8
        <4> QED BY <4>1, <1>2
      <3> QED BY <3>1, <3>2, <1>2
    <2> HIDE DEF filled
    <2>2. filled = [i \in 0 .. 63 |-> L * 64 + i + 1]
      BY <1>7, <2>1
    <2> QED BY <2>2 DEF BlockAt
  <1>9. \A i \in 0 .. 63 : filled[i] = IF i \in buffer_len .. buffer_len + c - 1
                                       THEN total_len + i - buffer_len + 1 ELSE buffer[i]
    OBVIOUS
  <1> HIDE DEF filled, from
  <1>10. direct \in Seq([0 .. 63 -> Int]) /\ Len(direct) = w
    <2>1. ASSUME NEW b \in 1 .. w PROVE BlockAt(from + (b - 1) * 64) \in [0 .. 63 -> Int]
      <3>1. from + (b - 1) * 64 \in Int BY <1>5, <1>6
      <3> QED BY <3>1 DEF BlockAt
    <2> QED BY <2>1, <1>5
  <1>11. \A b \in 1 .. w : direct[b] = BlockAt(from + (b - 1) * 64)
    OBVIOUS
  <1> HIDE DEF direct
  <1> DEFINE k == IF buffer_len + c = 64 THEN 1 ELSE 0
  <1>12. /\ first \in Seq([0 .. 63 -> Int]) /\ Len(first) = k
         /\ buffer_len + c = 64 => first[1] = filled
    <2>1. CASE buffer_len + c = 64
      <3>1. first = <<filled>> BY <2>1
      <3> QED BY <2>1, <3>1, <1>7
    <2>2. CASE buffer_len + c # 64
      <3>1. first = << >> BY <2>2
      <3> QED BY <2>2, <3>1
    <2> QED BY <2>1, <2>2
  <1> HIDE DEF first
  <1>13. /\ state' \in Seq([0 .. 63 -> Int]) /\ Len(state') = L + k + w
         /\ \A b \in 1 .. L : state'[b] = state[b]
         /\ \A b \in 1 .. k : state'[L + b] = first[b]
         /\ \A b \in 1 .. w : state'[L + k + b] = direct[b]
    <2> HIDE DEF k
    <2>1. /\ state' \in Seq([0 .. 63 -> Int])
          /\ Len(state') = Len(state) + Len(first) + Len(direct)
          /\ \A b \in 1 .. Len(state) : state'[b] = state[b]
          /\ \A b \in 1 .. Len(first) : state'[Len(state) + b] = first[b]
          /\ \A b \in 1 .. Len(direct) : state'[Len(state) + Len(first) + b] = direct[b]
      <3> DEFINE B == [0 .. 63 -> Int]
      <3>1. state \in Seq(B) /\ first \in Seq(B) /\ direct \in Seq(B)
        BY <1>3, <1>10, <1>12
      <3>2. state' = state \o first \o direct BY <1>1
      <3> HIDE DEF B
      <3>3. state' \in Seq(B) BY <3>1, <3>2, Joined
      <3>4. /\ Len(state') = Len(state) + Len(first) + Len(direct)
            /\ \A b \in 1 .. Len(state) : state'[b] = state[b]
            /\ \A b \in 1 .. Len(first) : state'[Len(state) + b] = first[b]
            /\ \A b \in 1 .. Len(direct) : state'[Len(state) + Len(first) + b] = direct[b]
        BY <3>1, <3>2, Joined
      <3> QED BY <3>3, <3>4 DEF B
    <2> QED BY <2>1, <1>10, <1>12 DEF L
  <1>14. \A b \in 1 .. L + k + w : state'[b] = BlockAt((b - 1) * 64)
    <2> TAKE b \in 1 .. L + k + w
    <2>1. CASE b <= L
      <3>1. b \in 1 .. L BY <2>1, <1>2
      <3> QED BY <3>1, <1>13, <1>4
    <2>2. CASE b = L + 1 /\ buffer_len + c = 64
      <3>1. state'[L + 1] = filled BY <2>2, <1>12, <1>13
      <3>2. (b - 1) * 64 = L * 64 BY <2>2, <1>2
      <3> QED BY <2>2, <3>1, <3>2, <1>8
    <2>3. CASE b > L + k
      <3> DEFINE d == b - L - k
      <3>1. d \in 1 .. w /\ b = L + k + d BY <2>3, <1>2, <1>5
      <3> HIDE DEF d, k
      <3>2. state'[b] = BlockAt(from + (d - 1) * 64) BY <3>1, <1>13, <1>11
      <3>3. from = (L + k) * 64 BY <1>5, <3>1, <1>2 DEF k
      <3>4. from + (d - 1) * 64 = (b - 1) * 64 BY <3>1, <3>3, <1>2, <1>5 DEF k
      <3> QED BY <3>2, <3>4
    <2> QED BY <2>1, <2>2, <2>3, <1>2, <1>5
  <1>15. buffer_len' \in 0 .. 63 /\ total_len' = (L + k + w) * 64 + buffer_len'
    <2>1. total_len' = from + w * 64 + r
      BY <1>1, <1>2, <1>5 DEF from
    <2>2. CASE buffer_len + c = 64
      <3>1. buffer_len' = r BY <2>2, <1>1, <1>5
      <3>2. from = (L + k) * 64 BY <2>2, <1>5
      <3> QED BY <2>1, <3>1, <3>2, <1>2, <1>5
    <2>3. CASE buffer_len + c # 64 /\ r > 0
      <3>1. buffer_len' = r BY <2>3, <1>1
      <3>2. from = (L + k) * 64 BY <2>3, <1>5, <1>2
      <3> QED BY <2>1, <3>1, <3>2, <1>2, <1>5
    <2>4. CASE buffer_len + c # 64 /\ r = 0
      <3>1. buffer_len' = buffer_len + c BY <2>4, <1>1
      <3>2. k = 0 BY <2>4
      <3>3. CASE buffer_len = 0 /\ c = 0 /\ from = L * 64
        <4>1. buffer_len' = 0 BY <3>1, <3>3
        <4>2. total_len' = L * 64 + w * 64 BY <2>1, <2>4, <3>3, <1>2, <1>5
        <4> HIDE DEF k
        <4> QED BY <3>2, <4>1, <4>2, <1>2, <1>5
      <3>4. CASE buffer_len > 0 /\ c = len /\ w = 0 /\ r = 0
        <4>1. total_len' = L * 64 + buffer_len + c BY <2>1, <3>4, <1>2, <1>5 DEF from
        <4> HIDE DEF k
        <4> QED BY <2>4, <3>1, <3>2, <3>4, <4>1, <1>2, <1>5
      <3> QED BY <2>4, <3>3, <3>4, <1>5
    <2> QED BY <2>2, <2>3, <2>4, <1>5
  <1>16. \A i \in 0 .. 63 : buffer'[i] = IF i < r THEN from + w * 64 + i + 1 ELSE filled[i]
    BY <1>1
  <1>17. ASSUME NEW i \in 0 .. buffer_len' - 1 PROVE buffer'[i] = (L + k + w) * 64 + i + 1
    <2> HIDE DEF k
    <2> DEFINE m == buffer_len'
    <2>a. m \in 0 .. 63 BY <1>15
    <2>b. i \in 0 .. m - 1 OBVIOUS
    <2> HIDE DEF m
    <2>0. i \in 0 .. 63 BY <2>a, <2>b
    <2> USE DEF m
    <2>1. CASE r > 0
      <3>1. buffer_len' = r BY <2>1, <1>1
      <3>2. i < r BY <3>1, <2>0, <1>5
      <3>3. buffer'[i] = from + w * 64 + i + 1 BY <2>0, <3>2, <1>16
      <3>4. from = (L + k) * 64 BY <2>1, <1>5, <1>2 DEF k
      <3> QED BY <3>3, <3>4, <1>2, <1>5 DEF k
    <2>2. CASE r = 0
      <3>1. buffer_len + c # 64 /\ buffer_len' = buffer_len + c BY <2>2, <1>1, <2>0
      <3>2. buffer_len > 0 /\ c = len /\ w = 0 BY <3>1, <2>0, <1>5, <1>2
      <3>3. buffer'[i] = filled[i] BY <2>0, <2>2, <1>16
      <3>4. CASE i < buffer_len
        <4>1. i \in 0 .. buffer_len - 1 /\ i \notin buffer_len .. buffer_len + c - 1
          BY <3>4, <2>0, <1>2, <1>5
        <4>2. buffer'[i] = L * 64 + i + 1 BY <4>1, <2>0, <3>3, <1>9, <1>4
        <4> QED BY <4>2, <3>1, <3>2, <1>2 DEF k
      <3>5. CASE i >= buffer_len
        <4>1. i \in buffer_len .. buffer_len + c - 1
          BY <3>5, <3>1, <2>0, <1>2, <1>5
        <4>2. buffer'[i] = total_len + i - buffer_len + 1 BY <4>1, <2>0, <3>3, <1>9
        <4> QED BY <4>2, <3>1, <3>2, <1>2 DEF k
      <3> QED BY <3>4, <3>5, <2>0, <1>2
    <2> QED BY <2>1, <2>2, <1>5
  <1>18. buffer' \in [0 .. 63 -> Int]
    <2>1. ASSUME NEW i \in 0 .. 63
          PROVE  (IF i < r THEN from + w * 64 + i + 1 ELSE filled[i]) \in Int
      BY <1>5, <1>6, <1>7
    <2> QED BY <2>1, <1>1
  <1>19. HashTypeOK'
    BY <1>1, <1>2, <1>13, <1>15, <1>18 DEF Inv, HashTypeOK
  <1>20. NothingLost'
    <2> HIDE DEF k
    <2> QED BY <1>13, <1>14, <1>15, <1>17 DEF NothingLost, BlockAt
  <1>21. DigestInv'
    BY <1>1 DEF Inv, DigestInv, PaddedMessage, PaddedCount, LengthByte, OneBit, Zeros
  <1> QED BY <1>19, <1>20, <1>21 DEF Inv

\* sha256_final on a copy delivers the digest and leaves the context alone.
LEMMA FinishInv ==
  ASSUME Inv, FinishCopy
  PROVE  Inv'
  <1> DEFINE L == Len(state)
             n == total_len
             k == IF buffer_len + 1 > 56 THEN 2 ELSE 1
             B == [0 .. 63 -> Int]
             Byte(p) == IF p < buffer_len THEN buffer[p]
                        ELSE IF p = buffer_len THEN OneBit
                        ELSE IF p < k * 64 - 8 THEN Zeros
                        ELSE LengthByte(n, p - (k * 64 - 8))
             final == FinalBlocks
             all == state \o final
  <1>1. /\ buffer_len \in 0 .. 63 /\ n \in Nat /\ L \in Nat
        /\ n = L * 64 + buffer_len
    BY DEF Inv, HashTypeOK, NothingLost
  <1>2. state \in Seq(B) /\ buffer \in B
    BY DEF Inv, HashTypeOK
  <1>3. /\ \A b \in 1 .. L : state[b] = BlockAt((b - 1) * 64)
        /\ \A i \in 0 .. buffer_len - 1 : buffer[i] = L * 64 + i + 1
    BY DEF Inv, NothingLost
  <1> HIDE DEF L, n
  <1>4. k \in {1, 2} /\ PaddedCount(n) = L + k
    <2>1. CASE buffer_len + 1 > 56 BY <2>1, <1>1 DEF PaddedCount
    <2>2. CASE buffer_len + 1 <= 56 BY <2>2, <1>1 DEF PaddedCount
    <2> QED BY <2>1, <2>2, <1>1
  <1>5. final = [b \in 1 .. k |-> [i \in 0 .. 63 |-> Byte((b - 1) * 64 + i)]]
    BY DEF FinalBlocks, n
  <1> HIDE DEF k
  <1>6. \A p \in Int : p >= 0 => Byte(p) \in Int
    <2> TAKE p \in Int
    <2> HAVE p >= 0
    <2>1. ASSUME p < buffer_len PROVE buffer[p] \in Int
      <3>1. p \in 0 .. 63 BY <2>1, <1>1
      <3> QED BY <3>1, <1>2
    <2>2. OneBit \in Int /\ Zeros \in Int /\ LengthByte(n, p - (k * 64 - 8)) \in Int
      BY <1>1, <1>4 DEF OneBit, Zeros, LengthByte
    <2> QED BY <2>1, <2>2
  <1> HIDE DEF Byte
  <1>7. final \in Seq(B) /\ Len(final) = k
    <2>1. ASSUME NEW b \in 1 .. k PROVE [i \in 0 .. 63 |-> Byte((b - 1) * 64 + i)] \in B
      <3>1. ASSUME NEW i \in 0 .. 63 PROVE Byte((b - 1) * 64 + i) \in Int
        <4>1. (b - 1) * 64 + i \in Int /\ (b - 1) * 64 + i >= 0 BY <1>4
        <4> QED BY <4>1, <1>6
      <3> QED BY <3>1
    <2> HIDE DEF B, final
    <2> QED BY <2>1, <1>4, <1>5
  <1>8. \A b \in 1 .. k : final[b] = [i \in 0 .. 63 |-> Byte((b - 1) * 64 + i)]
    BY <1>5
  <1> HIDE DEF final, B
  <1>9. /\ all \in Seq(B) /\ Len(all) = L + k
        /\ \A b \in 1 .. L : all[b] = state[b]
        /\ \A b \in 1 .. k : all[L + b] = final[b]
    BY <1>1, <1>2, <1>7 DEF L
  <1> HIDE DEF all
  <1> DEFINE last == (L + k) * 64 - 8
             At(p) == IF p < n THEN p + 1 ELSE IF p = n THEN OneBit
                      ELSE IF p < last THEN Zeros ELSE LengthByte(n, p - last)
  <1>10. PaddedMessage(n) = [b \in 1 .. L + k |-> [i \in 0 .. 63 |-> At((b - 1) * 64 + i)]]
    BY <1>4 DEF PaddedMessage
  <1>11. \A q \in Int : q < L * 64 => At(q) = q + 1
    BY <1>1
  <1>12. \A q \in Int : ~ (q < n) /\ q # n =>
                 At(q) = IF q < last THEN Zeros ELSE LengthByte(n, q - last)
    OBVIOUS
  <1>13. \A p \in Int : p >= 0 => At(L * 64 + p) = Byte(p)
    <2> TAKE p \in Int
    <2> HAVE p >= 0
    <2>1. /\ p < buffer_len <=> L * 64 + p < n
          /\ p = buffer_len <=> L * 64 + p = n
          /\ p < k * 64 - 8 <=> L * 64 + p < last
          /\ p - (k * 64 - 8) = (L * 64 + p) - last
      BY <1>1, <1>4
    <2>2. p < buffer_len => buffer[p] = L * 64 + p + 1 BY <1>1, <1>3
    <2> HIDE DEF last
    <2>3. CASE p < buffer_len BY <2>1, <2>2, <2>3 DEF Byte
    <2>4. CASE p = buffer_len
      <3>1. At(L * 64 + p) = OneBit BY <2>1, <2>4, <1>1
      <3>2. Byte(p) = OneBit BY <2>4, <1>1 DEF Byte
      <3> QED BY <3>1, <3>2
    <2>5. CASE ~ (p < buffer_len) /\ p # buffer_len
      <3>1. At(L * 64 + p) = IF L * 64 + p < last THEN Zeros ELSE LengthByte(n, (L * 64 + p) - last)
        <4>1. ~ (L * 64 + p < n) /\ L * 64 + p # n BY <2>1, <2>5
        <4>2. L * 64 + p \in Int BY <1>1
        <4> HIDE DEF At
        <4> QED BY <4>1, <4>2, <1>12
      <3>2. Byte(p) = IF p < k * 64 - 8 THEN Zeros ELSE LengthByte(n, p - (k * 64 - 8))
        BY <2>5 DEF Byte
      <3> HIDE DEF At
      <3> QED BY <2>1, <3>1, <3>2
    <2> HIDE DEF At
    <2> QED BY <2>3, <2>4, <2>5
  <1> HIDE DEF At
  <1>14. \A b \in 1 .. L + k : all[b] = [i \in 0 .. 63 |-> At((b - 1) * 64 + i)]
    <2> TAKE b \in 1 .. L + k
    <2>1. CASE b <= L
      <3>1. all[b] = BlockAt((b - 1) * 64) BY <2>1, <1>1, <1>3, <1>9
      <3>2. ASSUME NEW i \in 0 .. 63 PROVE At((b - 1) * 64 + i) = (b - 1) * 64 + i + 1
        <4>1. (b - 1) * 64 + i \in Int /\ (b - 1) * 64 + i < L * 64 BY <2>1, <1>1
        <4> QED BY <4>1, <1>11
      <3> QED BY <3>1, <3>2 DEF BlockAt
    <2>2. CASE b > L
      <3> DEFINE d == b - L
      <3>1. d \in 1 .. k /\ b = L + d BY <2>2, <1>1, <1>4
      <3> HIDE DEF d
      <3>2. all[b] = [i \in 0 .. 63 |-> Byte((d - 1) * 64 + i)] BY <3>1, <1>8, <1>9
      <3>3. ASSUME NEW i \in 0 .. 63 PROVE At((b - 1) * 64 + i) = Byte((d - 1) * 64 + i)
        <4>1. /\ (d - 1) * 64 + i \in Int /\ (d - 1) * 64 + i >= 0
              /\ (b - 1) * 64 + i = L * 64 + ((d - 1) * 64 + i)
          BY <3>1, <1>1, <1>4
        <4> QED BY <4>1, <1>13
      <3> QED BY <3>2, <3>3
    <2> QED BY <2>1, <2>2, <1>1, <1>4
  <1>15. all = PaddedMessage(n)
    <2>1. all = [b \in 1 .. L + k |-> all[b]] BY <1>9
    <2> QED BY <2>1, <1>10, <1>14
  <1>16. /\ digest' = [length |-> n, blocks |-> all]
         /\ UNCHANGED <<state, buffer, buffer_len, total_len>>
    BY DEF FinishCopy, all, final, n
  <1>17. HashTypeOK'
    BY <1>1, <1>9, <1>16 DEF Inv, HashTypeOK, B
  <1>18. NothingLost'
    BY <1>16 DEF Inv, NothingLost, BlockAt
  <1>19. DigestInv'
    BY <1>15, <1>16 DEF DigestInv, PaddedMessage, PaddedCount, LengthByte, OneBit, Zeros
  <1> QED BY <1>17, <1>18, <1>19 DEF Inv

\* Every call of an update or of a final on a copy keeps the invariant.
LEMMA NextInv == Inv /\ [HashNext]_hashVars => Inv'
  <1> SUFFICES ASSUME Inv, [HashNext]_hashVars PROVE Inv' OBVIOUS
  <1>1. ASSUME NEW len \in Pieces, Update(len) PROVE Inv'
    BY <1>1, UpdateInv, StreamAssumption
  <1>2. CASE FinishCopy BY <1>2, FinishInv
  <1>3. CASE UNCHANGED hashVars
    <2>1. HashTypeOK' BY <1>3 DEF hashVars, Inv, HashTypeOK
    <2>2. NothingLost' BY <1>3 DEF hashVars, Inv, NothingLost, BlockAt
    <2>3. DigestInv'
      BY <1>3 DEF hashVars, Inv, DigestInv, PaddedMessage, PaddedCount, LengthByte, OneBit, Zeros
    <2> QED BY <2>1, <2>2, <2>3 DEF Inv
  <1> QED BY <1>1, <1>2, <1>3 DEF HashNext

\* sha256_update and sha256_final keep their fields in range (sha256.h's
\* sha256_ctx), whatever the lengths of the pieces.
THEOREM TypeCorrect == HashSpec => []HashTypeOK
  BY InitInv, NextInv, PTL DEF HashSpec, Inv

\* No byte given to sha256_update is lost, doubled or moved: it is in the block
\* and at the position it belongs, or waits in the buffer.
THEOREM Complete == HashSpec => []NothingLost
  BY InitInv, NextInv, PTL DEF HashSpec, Inv

\* Every digest sha256_final delivers is that of the whole message, padded as
\* FIPS 180-4 says, however it was cut and whatever copies were finished before.
THEOREM DigestCorrect == HashSpec => []DigestOfWholeMessage
  <1>1. Inv => DigestOfWholeMessage BY DEF Inv, DigestInv, DigestOfWholeMessage
  <1> QED BY <1>1, InitInv, NextInv, PTL DEF HashSpec
=============================================================================
