-------------------------------- MODULE BigNum --------------------------------
(***************************************************************************)
(* The multi-word arithmetic of src/src/crypto/bignum.c and the multiply   *)
(* loop of crypto/fast/crypto_ops.asm as bn_mod_exp uses them: one step    *)
(* per bit of the exponent, and within it one step per bit of a division.  *)
(* RSA decrypts with it.  Words have Bytes bytes, so that the boundaries   *)
(* of words are met with numbers of a few bits.                            *)
(***************************************************************************)
EXTENDS Integers, FiniteSets, FiniteSetsExt, Sequences, SequencesExt

\* 2 ^ n, recursively, as ^ is unknown to the provers.
TwoTo[n \in Nat] == IF n = 0 THEN 1 ELSE 2 * TwoTo[n - 1]

CONSTANTS
  ByteBits, Bytes,   \* the bits of a byte, the bytes of a word
  BN_MAX_WORDS,
  Operands           \* bases, exponents and moduli, as bytes

BYTE == TwoTo[ByteBits]
WordBits == ByteBits * Bytes
WORD == TwoTo[WordBits]

ASSUME WordAssumption ==
  /\ {ByteBits, Bytes, BN_MAX_WORDS} \subseteq Nat \ {0}
  /\ LET Buffer == Seq(0 .. BYTE - 1) IN Operands \subseteq [base : Buffer, exp : Buffer, mod : Buffer]
  /\ \A o \in Operands :
       /\ BN_MAX_WORDS >= 2 * ((Len(o.mod) + Bytes - 1) \div Bytes)   \* bignum.h: products fit
       /\ BN_MAX_WORDS * Bytes >= Len(o.exp)   \* asn1_read_integer: int_buf

Index == 0 .. BN_MAX_WORDS - 1

VARIABLES
  ct,               \* the bytes the base is read from, as a client sent them
  base, exp, mod,   \* the arguments
  result, b,        \* of bn_mod_exp
  i,                \* the bit of the exponent
  dividend, remainder, bit,   \* of bn_divmod: bit counts down
  pc                \* what is computed

bnVars == <<ct, base, exp, mod, result, b, i, dividend, remainder, bit, pc>>

\* A number: its words, the lowest first, and how many count.
bn_from_uint(val) == [words |-> [k \in Index |-> IF k = 0 THEN val ELSE 0], len |-> 1]
bn_zero == bn_from_uint(0)
Word(n, k) == IF k < n.len THEN n.words[k] ELSE 0

\* bn_trim: zero words at the top do not count, the lowest always does.
bn_trim(n) == [n EXCEPT !.len = Max({1} \cup {k + 1 : k \in {j \in 0 .. n.len - 1 : n.words[j] # 0}})]

\* The n-th byte from the end of buf, and the first bytes of the word k.
Low(buf, n) == IF n < Len(buf) THEN buf[Len(buf) - n] ELSE 0
Shifted(buf, k) ==
  LET sum[j \in 0 .. Bytes] ==
        IF j = 0 THEN 0 ELSE sum[j - 1] + Low(buf, k * Bytes + j - 1) * TwoTo[ByteBits * (j - 1)]
  IN sum

\* bn_from_bytes: buf has the most significant byte first.
bn_from_bytes(buf) ==
  LET full == Len(buf) \div Bytes + 1
  IN bn_trim([words |-> [k \in Index |-> Shifted(buf, k)[Bytes]],
              len |-> IF full > BN_MAX_WORDS THEN BN_MAX_WORDS ELSE full])

\* Variant: the bytes of a word the other way round.
bn_to_bytes_swapped(num, n) ==
  [p \in 1 .. n |-> (Word(num, (n - p) \div Bytes) \div TwoTo[ByteBits * ((Bytes - 1) - ((n - p) % Bytes))]) % BYTE]

\* bn_to_bytes, padded or cut to n bytes.
bn_to_bytes(num, n) ==
  [p \in 1 .. n |-> (Word(num, (n - p) \div Bytes) \div TwoTo[ByteBits * ((n - p) % Bytes)]) % BYTE]

bn_bit_length(n) ==
  IF n.len = 1 /\ n.words[0] = 0 THEN 0
  ELSE (n.len - 1) * WordBits + Cardinality({k \in 0 .. WordBits - 1 : n.words[n.len - 1] >= TwoTo[k]})

IsSet(n, k) == (n.words[k \div WordBits] \div TwoTo[k % WordBits]) % 2 = 1

\* bn_cmp(x, y) >= 0: the highest words that differ decide.
NotLess(x, y) ==
  \A k \in Index : Word(x, k) < Word(y, k) =>
     \E j \in k + 1 .. BN_MAX_WORDS - 1 : Word(x, j) > Word(y, j)
       /\ \A l \in j + 1 .. BN_MAX_WORDS - 1 : Word(x, l) = Word(y, l)

\* Variant: the number does not grow by a word.
bn_shl1_short(n) ==
  [n EXCEPT !.words = [k \in Index |->
     IF k >= n.len THEN n.words[k]
     ELSE ((2 * n.words[k]) % WORD) + (IF k = 0 THEN 0 ELSE n.words[k - 1] \div (WORD \div 2))]]

\* bn_shl1: carries move up, the last one into a new word.
bn_shl1(n) ==
  LET Carry(k) == IF k = 0 THEN 0 ELSE n.words[k - 1] \div (WORD \div 2)
      grows == Carry(n.len) # 0 /\ n.len < BN_MAX_WORDS
  IN [words |-> [k \in Index |->
                   IF k < n.len THEN ((2 * n.words[k]) % WORD) + Carry(k)
                   ELSE IF k = n.len /\ grows THEN Carry(k) ELSE n.words[k]],
      len |-> IF grows THEN n.len + 1 ELSE n.len]

\* x - y by words, for x not less than y: the borrows, and the words.
Borrows(x, y) ==
  LET borrow[k \in 0 .. x.len] ==
        IF k = 0 THEN 0 ELSE IF x.words[k - 1] - borrow[k - 1] - Word(y, k - 1) < 0 THEN 1 ELSE 0
  IN borrow
Difference(x, y) ==
  [x EXCEPT !.words = [k \in Index |->
     IF k < x.len THEN (x.words[k] - Borrows(x, y)[k] - Word(y, k)) % WORD ELSE x.words[k]]]

\* Variant: the length stays that of the first operand.
bn_sub_untrimmed(x, y) == Difference(x, y)

\* bn_sub(x, x, y)
bn_sub(x, y) == bn_trim(Difference(x, y))

\* A row of fast_bn_mul_words, words + x[k] * y * WORD^k, after each of its turns.
Row(words, x, y, k) ==
  LET row[j \in 0 .. y.len] ==
        IF j = 0 THEN [words |-> words, carry |-> 0]
        ELSE LET at == k + j - 1
                 sum == x.words[k] * y.words[j - 1] + row[j - 1].carry + row[j - 1].words[at]
             IN [words |-> [row[j - 1].words EXCEPT ![at] = sum % WORD], carry |-> sum \div WORD]
  IN row

\* Variant: the last carry of a row is lost.
AddRowFlushless(words, x, y, k) == Row(words, x, y, k)[y.len].words

\* The row of a zero word is skipped; the last carry goes to the next word.
AddRow(words, x, y, k) ==
  LET row == Row(words, x, y, k)[y.len] IN
    IF x.words[k] = 0 THEN words
    ELSE IF row.carry = 0 THEN row.words
    ELSE [row.words EXCEPT ![k + y.len] = (@ + row.carry) % WORD]

Rows(x, y) ==
  LET rows[k \in 0 .. x.len] == IF k = 0 THEN bn_zero.words ELSE AddRow(rows[k - 1], x, y, k - 1)
  IN rows
bn_mul(x, y) ==
  LET len == x.len + y.len
  IN bn_trim([words |-> Rows(x, y)[x.len], len |-> IF len > BN_MAX_WORDS THEN BN_MAX_WORDS ELSE len])
-----------------------------------------------------------------------------

\* bn_mod(target, x, mod) begins.
StartDivision(x) == dividend' = x /\ remainder' = bn_zero /\ bit' = bn_bit_length(x)

ModExpInit ==
  /\ \E o \in Operands : ct = o.base /\ exp = bn_from_bytes(o.exp) /\ mod = bn_from_bytes(o.mod)
  /\ mod \notin {bn_zero, bn_from_uint(1)}
  /\ base = bn_zero /\ result = bn_from_uint(1) /\ b = bn_zero /\ i = 0
  /\ dividend = bn_zero /\ remainder = bn_zero /\ bit = 0
  /\ pc = "bytes"

\* Nothing to compute.
ModExpIdle ==
  /\ ct = << >> /\ base = bn_zero /\ exp = bn_zero /\ mod = bn_from_uint(1)
  /\ result = bn_from_uint(1) /\ b = bn_zero /\ i = 0
  /\ dividend = bn_zero /\ remainder = bn_zero /\ bit = 0 /\ pc = "idle"

\* More bytes than the array of words has room for: bn_from_bytes writes the rest
\* behind it.  Nothing before it limits the length a client gives.
TooLong(buf) == Len(buf) > BN_MAX_WORDS * Bytes

\* The base is read, and bn_mod(b, base, mod) begins.
ReadBase ==
  /\ pc = "bytes"
  /\ \/ /\ TooLong(ct)
        /\ pc' = "undefined" /\ UNCHANGED <<base, dividend, remainder, bit>>
     \/ /\ ~ TooLong(ct)
        /\ base' = bn_from_bytes(ct) /\ StartDivision(bn_from_bytes(ct)) /\ pc' = "reduce"
  /\ UNCHANGED <<ct, exp, mod, result, b, i>>

\* One iteration of bn_divmod's loop: the bit k of d comes down, to the remainder r.
Brought(r, d, k) ==
  LET shifted == bn_shl1(r)
  IN IF IsSet(d, k) /\ shifted.words[0] % 2 = 0 THEN [shifted EXCEPT !.words[0] = @ + 1] ELSE shifted
DivideBit ==
  /\ bit > 0
  /\ LET down == Brought(remainder, dividend, bit - 1)
     IN remainder' = IF NotLess(down, mod) THEN bn_sub(down, mod) ELSE down
  /\ bit' = bit - 1
  /\ UNCHANGED <<ct, base, exp, mod, result, b, i, dividend, pc>>

\* The division has ended: what was computed is the trimmed remainder.
Divided == pc \in {"reduce", "multiply", "square"} /\ bit = 0

Reduced ==
  /\ Divided /\ pc = "reduce"
  /\ b' = bn_trim(remainder) /\ pc' = "loop"
  /\ UNCHANGED <<ct, base, exp, mod, result, i, dividend, remainder, bit>>

\* An iteration of bn_mod_exp's loop: result * b if the bit is set,
Multiply ==
  /\ pc = "loop" /\ i < bn_bit_length(exp) /\ IsSet(exp, i)
  /\ StartDivision(bn_mul(result, b)) /\ pc' = "multiply"
  /\ UNCHANGED <<ct, base, exp, mod, result, b, i>>

\* then b * b.
SquareAfterMultiply ==
  /\ Divided /\ pc = "multiply"
  /\ result' = bn_trim(remainder)
  /\ StartDivision(bn_mul(b, b)) /\ pc' = "square"
  /\ UNCHANGED <<ct, base, exp, mod, b, i>>
SquareOnly ==
  /\ pc = "loop" /\ i < bn_bit_length(exp) /\ ~ IsSet(exp, i)
  /\ StartDivision(bn_mul(b, b)) /\ pc' = "square"
  /\ UNCHANGED <<ct, base, exp, mod, result, b, i>>

Squared ==
  /\ Divided /\ pc = "square"
  /\ b' = bn_trim(remainder) /\ i' = i + 1 /\ pc' = "loop"
  /\ UNCHANGED <<ct, base, exp, mod, result, dividend, remainder, bit>>

Return ==
  /\ pc = "loop" /\ i = bn_bit_length(exp)
  /\ pc' = "done"
  /\ UNCHANGED <<ct, base, exp, mod, result, b, i, dividend, remainder, bit>>

ModExp == ReadBase \/ DivideBit \/ Reduced \/ Multiply \/ SquareAfterMultiply \/ SquareOnly \/ Squared \/ Return

-----------------------------------------------------------------------------
(* Properties. *)

\* The value of the first words, up to each, and of a number.
Sums(words) ==
  LET sum[k \in 0 .. BN_MAX_WORDS] ==
        IF k = 0 THEN 0 ELSE sum[k - 1] + words[k - 1] * TwoTo[WordBits * (k - 1)]
  IN sum
Value(n) == Sums(n.words)[n.len]

\* A number has no zero word at its top and nothing above it: bn_bit_length and
\* the lengths of products rely on the one, copies of the whole array on the
\* other.
Canonical(n) ==
  /\ n \in [words : [Index -> 0 .. WORD - 1], len : 1 .. BN_MAX_WORDS]
  /\ n.len > 1 => n.words[n.len - 1] # 0
  /\ \A k \in n.len .. BN_MAX_WORDS - 1 : n.words[k] = 0

NumbersOK ==
  /\ \A n \in {base, exp, mod, result, b, dividend, remainder} : Canonical(n)
  /\ i \in 0 .. bn_bit_length(exp) /\ bit \in 0 .. bn_bit_length(dividend)
  /\ ct \in Seq(0 .. BYTE - 1)
  /\ pc \notin {"idle", "bytes"} => (pc = "undefined" <=> TooLong(ct))
  /\ pc \in {"idle", "bytes", "undefined", "reduce", "loop", "multiply", "square", "done", "accepted", "rejected"}

\* While bits come down, the remainder is that of the part of the dividend that
\* has come down (bn_divmod: binary long division).
RemainderOfWhatCameDown ==
  Value(remainder) = (Value(dividend) \div TwoTo[bit]) % Value(mod)

\* x ^ n modulo m, by n multiplications.
Powers(x, m) == LET power[k \in Nat] == IF k = 0 THEN 1 ELSE (x * power[k - 1]) % m IN power
PowerMod(x, n, m) == Powers(x, m)[n]

\* At every turn of bn_mod_exp's loop, result is the power for the bits of the
\* exponent it has seen, and b the factor for the next one; at the end, the
\* power.
PowerOfTheBitsSeen ==
  /\ pc \in {"loop", "done"} =>
       /\ Value(result) = PowerMod(Value(base), Value(exp) % TwoTo[i], Value(mod))
       /\ Value(b) = PowerMod(Value(base), TwoTo[i], Value(mod))
  /\ pc = "done" => Value(result) = PowerMod(Value(base), Value(exp), Value(mod))

=============================================================================
