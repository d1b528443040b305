------------------------------- MODULE KeyFile -------------------------------
(***************************************************************************)
(* rsa_load_private_key (src/src/crypto/rsa.c) with the reader of PEM,     *)
(* base64 and ASN.1 in src/src/crypto/pem.c.  A character of a file is     *)
(* what it is to base64_decode, and its value; each of the two markers     *)
(* counts as one character.                                                *)
(***************************************************************************)
EXTENDS Integers, Sequences, FiniteSetsExt

CONSTANTS
  KeyFiles,                   \* what the key file was made from, see Written
  DER_MAX, VER_MAX, INT_MAX   \* the sizes of der, ver_buf and int_buf

Other(c) == <<c, 0>>
BEGIN == Other("-----BEGIN")
END == Other("-----END")
NEWLINE == Other("newline")
PAD == Other("=")
LABEL == Other("label")
Absent == << >>
SEQUENCE == 48
INTEGER == 2

VARIABLES
  source,      \* one of KeyFiles
  pem, next, end,   \* the file, the place in it, the end of the body
  buf, bits,   \* of base64_decode: bits not yet written
  der, p,      \* what was decoded, and how much of it has been read
  numbers,     \* the integers read: version, n, e, d, p and q
  loading      \* where the loading is

loadVars == <<source, pem, next, end, buf, bits, der, p, numbers, loading>>

-----------------------------------------------------------------------------
(* How such files are made: X.690 and RFC 7468.  A number is its bytes, the *)
(* most significant first, none for 0.                                      *)

TwoBytes == 65536
DerLength(n) ==
  IF n < 128 THEN <<n>> ELSE IF n < 256 THEN <<129, n>> ELSE <<130, n \div 256, n % 256>>
DerInteger(number) ==
  LET content == IF number = << >> \/ number[1] >= 128 THEN <<0>> \o number ELSE number
  IN <<INTEGER>> \o DerLength(Len(content)) \o content
\* The encodings of the first k numbers, one behind the other.
DerNumbers(all) ==
  LET body[k \in 0 .. Len(all)] == IF k = 0 THEN << >> ELSE body[k - 1] \o DerInteger(all[k])
  IN body
DerKey(all) ==
  LET body == DerNumbers(all)[Len(all)]
  IN <<SEQUENCE>> \o DerLength(Len(body)) \o body

\* Three bytes are four characters of six bits; zeros are taken behind the end.
Sextets(bytes) ==
  LET At(k) == IF k <= Len(bytes) THEN bytes[k] ELSE 0
      Sextet(k) ==
        LET x == At(3 * (k \div 4) + 1)
            y == At(3 * (k \div 4) + 2)
            z == At(3 * (k \div 4) + 3)
        IN CASE k % 4 = 0 -> x \div 4
             [] k % 4 = 1 -> (x % 4) * 16 + (y \div 16)
             [] k % 4 = 2 -> (y % 16) * 4 + (z \div 64)
             [] k % 4 = 3 -> z % 64
  IN [k \in 1 .. (4 * Len(bytes) + 2) \div 3 |-> <<"base64", Sextet(k - 1)>>]
Base64(bytes) == Sextets(bytes) \o [k \in 1 .. (3 - (Len(bytes) % 3)) % 3 |-> PAD]

\* Lines of this width, each with its end.
Lines(chars, width) ==
  [k \in 1 .. Len(chars) + Len(chars) \div width |->
     IF k % (width + 1) = 0 THEN NEWLINE ELSE chars[k - k \div (width + 1)]]

\* A key's numbers, of which the last bytes of the encoding may have been lost;
\* with everything around the body, or without a part of it.
Encoded(f) == SubSeq(DerKey(f.numbers), 1, Len(DerKey(f.numbers)) - f.lost)
Header(missing) ==
  <<LABEL, NEWLINE, IF missing = "begin" THEN LABEL ELSE BEGIN, LABEL,
    IF missing = "newline" THEN LABEL ELSE NEWLINE>>
Body(f) == IF f.missing = "newline" THEN Base64(Encoded(f)) ELSE Lines(Base64(Encoded(f)), f.width)
Footer(missing) == <<IF missing = "end" THEN LABEL ELSE END, LABEL>>
Written(f) ==
  IF f.missing = "file" THEN Absent ELSE Header(f.missing) \o Body(f) \o Footer(f.missing)

\* Numbers have no leading zeros; the lengths take two bytes at most.
ASSUME KeyFileAssumption ==
  /\ {DER_MAX, VER_MAX, INT_MAX} \subseteq Nat
  /\ \A f \in KeyFiles :
       /\ f.numbers \in Seq(Seq(0 .. 255)) /\ f.lost \in Nat /\ f.width \in Nat \ {0}
       /\ f.missing \in {"nothing", "file", "begin", "newline", "end"}
       /\ \A k \in 1 .. Len(f.numbers) : f.numbers[k] # << >> => f.numbers[k][1] # 0
       /\ Len(DerNumbers(f.numbers)[Len(f.numbers)]) < TwoBytes

-----------------------------------------------------------------------------

LoadInit ==
  /\ source \in KeyFiles /\ pem = Written(source)
  /\ next = 0 /\ end = 0 /\ buf = 0 /\ bits = 0 /\ der = << >> /\ p = 0 /\ numbers = << >>
  /\ loading = "open"
LoadIdle ==
  /\ source = << >> /\ pem = << >> /\ loading = "idle"
  /\ next = 0 /\ end = 0 /\ buf = 0 /\ bits = 0 /\ der = << >> /\ p = 0 /\ numbers = << >>

\* strstr and strchr: the first such character from k on, or none.
Find(c, k) == Min({j \in k .. Len(pem) : pem[j] = c} \cup {Len(pem) + 1})

\* pem_read_file up to the decoding.
FindBody ==
  /\ loading = "open"
  /\ LET begin == Find(BEGIN, 1)
         newline == Find(NEWLINE, begin)
         stop == Find(END, newline + 1)
     IN IF pem = Absent \/ stop > Len(pem)
          THEN loading' = "failed" /\ UNCHANGED <<next, end>>
          ELSE loading' = "decode" /\ next' = newline + 1 /\ end' = stop
  /\ UNCHANGED <<source, pem, buf, bits, der, p, numbers>>

\* A shift to the right, by less than a byte.
ShiftedRight(n, left) == n \div <<1, 2, 4, 8, 16, 32, 64, 128>>[left + 1]

\* base64_decode's loop.  buf keeps 32 bits in the code; no more than twelve are used.
DecodeChar ==
  /\ loading = "decode" /\ next < end /\ pem[next] # PAD
  /\ LET filled == (buf * 64 + pem[next][2]) % 4096
         left == (bits + 6) - 8
     IN CASE pem[next][1] # "base64" -> UNCHANGED <<buf, bits, der, loading>>
          [] pem[next][1] = "base64" /\ left < 0 ->
               buf' = filled /\ bits' = bits + 6 /\ UNCHANGED <<der, loading>>
          [] OTHER ->
               /\ buf' = filled /\ bits' = left
               /\ IF Len(der) >= DER_MAX THEN loading' = "failed" /\ UNCHANGED der
                  ELSE der' = Append(der, ShiftedRight(filled, left) % 256) /\ UNCHANGED loading
  /\ next' = next + 1
  /\ UNCHANGED <<source, pem, end, p, numbers>>

DecodeEnd ==
  /\ loading = "decode" /\ (next >= end \/ pem[next] = PAD)
  /\ loading' = "sequence"
  /\ UNCHANGED <<source, pem, next, end, buf, bits, der, p, numbers>>

\* The number in this many bytes behind the k-th.
BytesFrom(k, size) ==
  LET length[n \in 0 .. size] == IF n = 0 THEN 0 ELSE length[n - 1] * 256 + der[k + n]
  IN length[size]

\* asn1_read_length, from the k-th byte on: the length, and how many bytes have
\* been read then; or nothing.
asn1_read_length(k) ==
  LET size == der[k] - 128 IN
    IF k > Len(der) THEN {}
    ELSE IF size < 0 THEN {[length |-> der[k], read |-> k]}
    ELSE IF size > 4 \/ size > Len(der) - k THEN {}
    ELSE {[length |-> BytesFrom(k, size), read |-> k + size]}

Fail == loading' = "failed" /\ UNCHANGED <<p, numbers>>
Tagged(tag) == p < Len(der) /\ der[p + 1] = tag

\* asn1_read_sequence; the length is not used.
ReadSequence ==
  /\ loading = "sequence"
  /\ LET found == IF Tagged(SEQUENCE) THEN asn1_read_length(p + 2) ELSE {} IN
       \/ found = {} /\ Fail
       \/ \E l \in found : p' = l.read /\ loading' = "integers" /\ UNCHANGED numbers
  /\ UNCHANGED <<source, pem, next, end, buf, bits, der>>

\* Variant: the place behind an integer is counted without its leading zero.
BehindShort(l, value) == l.read + Len(value)

Behind(l, value) == l.read + l.length

\* asn1_read_integer, six times: one leading zero byte is left out.
ReadInteger ==
  /\ loading = "integers" /\ Len(numbers) < 6
  /\ LET found == {l \in IF Tagged(INTEGER) THEN asn1_read_length(p + 2) ELSE {} : l.length <= Len(der) - l.read}
         Content(l) == SubSeq(der, l.read + 1, l.read + l.length)
         Value(l) == IF l.length > 0 /\ Content(l)[1] = 0 THEN Tail(Content(l)) ELSE Content(l)
         room == IF numbers = << >> THEN VER_MAX ELSE INT_MAX
     IN \/ (\A l \in found : Len(Value(l)) > room) /\ Fail
        \/ \E l \in found :
             /\ Len(Value(l)) <= room
             /\ numbers' = Append(numbers, Value(l)) /\ p' = Behind(l, Value(l))
             /\ UNCHANGED loading
  /\ UNCHANGED <<source, pem, next, end, buf, bits, der>>

Loaded ==
  /\ loading = "integers" /\ Len(numbers) = 6
  /\ loading' = "loaded"
  /\ UNCHANGED <<source, pem, next, end, buf, bits, der, p, numbers>>

Load == FindBody \/ DecodeChar \/ DecodeEnd \/ ReadSequence \/ ReadInteger \/ Loaded

-----------------------------------------------------------------------------

\* A file that lacks nothing in front of the seventh number is read, and gives
\* the numbers it was made from, whatever their lengths and wherever its lines
\* end; any other file is refused (rsa_load_private_key).
KeyAsWritten ==
  loading \in {"loaded", "failed"} =>
    LET all == source.numbers
        readable ==
          /\ source.missing = "nothing" /\ Len(all) >= 6
          /\ source.lost <= Len(DerNumbers(all)[Len(all)]) - Len(DerNumbers(all)[6])
          /\ Len(DerKey(all)) - source.lost <= DER_MAX
          /\ \A k \in 1 .. 6 : Len(all[k]) <= (IF k = 1 THEN VER_MAX ELSE INT_MAX)
    IN /\ loading = "loaded" <=> readable
       /\ loading = "loaded" => numbers = SubSeq(all, 1, 6)
=============================================================================
