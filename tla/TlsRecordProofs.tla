--------------------------- MODULE TlsRecordProofs ---------------------------
(***************************************************************************)
(* Theorems about TlsRecord, for payloads, overheads and block sizes of    *)
(* every length and for every way TCP may cut the stream.  The inductive   *)
(* invariant says where the records lie in the stream and that the reader  *)
(* is always at the start of a record or inside the one whose header it    *)
(* has read.                                                               *)
(***************************************************************************)
EXTENDS TlsRecord, TLAPS

(***************************************************************************)
(* Type correctness.                                                       *)
(***************************************************************************)

RecordType ==
  [start : Nat, plain : Nat, enc : BOOLEAN, pad : 0 .. Block - 1, size : Nat, field : 0 .. Field - 1]

\* The padding byte stays below the block length.
LEMMA PadType == ASSUME NEW n \in Nat PROVE PadLength(n) \in 0 .. Block - 1
  <1>1. Block \in Nat \ {0} /\ n + Mac \in Nat
    BY RecordAssumption
  <1>2. (n + Mac) % Block \in 0 .. Block - 1
    BY <1>1
  <1> QED BY <1>1, <1>2 DEF PadLength

\* What may be written next.
Contents == IF encrypted THEN Payloads ELSE Messages

\* The lengths of contents are numbers.
LEMMA ContentsType == Contents \subseteq Nat
  <1>1. MaxRecordSize \in Nat /\ Messages \subseteq 0 .. MaxRecordSize /\ Payloads \subseteq Nat
    BY RecordAssumption
  <1> QED BY <1>1 DEF Contents

\* What tls_write_record puts on the wire is a record.
LEMMA NewRecordType ==
  ASSUME TypeOK, NEW n \in Contents
  PROVE  NewRecord(n) \in RecordType
  <1>1. n \in Nat /\ end \in Nat /\ encrypted \in BOOLEAN
    BY ContentsType DEF TypeOK
  <1>2. PadLength(n) \in 0 .. Block - 1
    BY <1>1, PadType
  <1>3. Wrapped(encrypted, n) \in Nat
    BY <1>1, <1>2, RecordAssumption DEF Wrapped
  <1>4. Field \in Nat \ {0}
    BY RecordAssumption
  <1>5. Wrapped(encrypted, n) % Field \in 0 .. Field - 1
    BY <1>3, <1>4
  <1> QED BY <1>1, <1>2, <1>3, <1>5 DEF NewRecord, RecordType

\* The records written are numbered from 1 and have the fields of a record.
LEMMA RecordFacts ==
  ASSUME TypeOK
  PROVE  /\ records \in Seq(RecordType) /\ Len(records) \in Nat
         /\ DOMAIN records = 1 .. Len(records)
         /\ \A i \in DOMAIN records :
              /\ records[i].start \in Nat /\ records[i].plain \in Nat /\ records[i].size \in Nat
              /\ records[i].pad \in Nat /\ records[i].field \in 0 .. Field - 1
  <1>1. records \in Seq(RecordType)
    BY DEF TypeOK, RecordType
  <1>2. Len(records) \in Nat /\ DOMAIN records = 1 .. Len(records)
    BY <1>1
  <1>3. ASSUME NEW i \in DOMAIN records PROVE records[i] \in RecordType
    BY <1>1, <1>2
  <1>4. ASSUME NEW r \in RecordType
        PROVE  /\ r.start \in Nat /\ r.plain \in Nat /\ r.size \in Nat
               /\ r.pad \in Nat /\ r.field \in 0 .. Field - 1
    BY RecordAssumption DEF RecordType
  <1> QED BY <1>1, <1>2, <1>3, <1>4

\* What tls_read returns, if it returns, is a length.
LEMMA CopiedType ==
  ASSUME NEW found, found.enc \in BOOLEAN, found.pad \in 0 .. MaxPad,
         NEW size \in Nat, ~TooShort(found, size)
  PROVE  Copied(found, size) \in Nat
  <1>1. CASE ~found.enc BY <1>1 DEF Copied
  <1>2. CASE found.enc
    <2> DEFINE n == PlaintextLen(found, size)
    <2>1. n = size - Iv - (found.pad + 1) - Mac /\ ~(n < 0)
      BY <1>2 DEF PlaintextLen, TooShort
    <2>2. Iv \in Nat /\ Mac \in Nat /\ MaxPad \in Nat /\ BufLen \in Nat
      BY RecordAssumption
    <2>3. Copied(found, size) = IF n < BufLen THEN n ELSE BufLen
      BY <1>2 DEF Copied
    <2> HIDE DEF n
    <2>4. n \in Nat
      BY <2>1, <2>2
    <2> QED BY <2>2, <2>3, <2>4
  <1> QED BY <1>1, <1>2

\* Every step of writer, network and reader keeps the types.
LEMMA TypeStep == TypeOK /\ [Next]_vars => TypeOK'
  <1> SUFFICES ASSUME TypeOK, [Next]_vars PROVE TypeOK'
    OBVIOUS
  <1>0. records \in Seq(RecordType)
    BY DEF TypeOK, RecordType
  <1> USE DEF TypeOK, writerVars, readerVars
  <1>1. CASE Write
    <2>1. PICK n \in Contents :
            /\ records' = Append(records, NewRecord(n))
            /\ \/ end' = end + Header + NewRecord(n).size /\ UNCHANGED finished
               \/ end' \in end .. end + Header + NewRecord(n).size - 1 /\ finished' = TRUE
      BY <1>1 DEF Write, Contents
    <2>2. NewRecord(n) \in RecordType /\ NewRecord(n).size \in Nat
      BY NewRecordType DEF RecordType
    <2>3. records' \in Seq(RecordType)
      BY <1>0, <2>1, <2>2
    <2>4. end' \in Nat /\ end' >= end
      <3> DEFINE size == NewRecord(n).size
      <3>1. size \in Nat /\ Header \in Nat /\ end \in Nat
        BY <2>2, RecordAssumption
      <3>2. end' = end + Header + size \/ end' \in end .. end + Header + size - 1
        BY <2>1
      <3> HIDE DEF size, TypeOK
      <3> QED BY <3>1, <3>2
    <2>5. finished' \in BOOLEAN
      BY <2>1
    <2> QED BY <1>1, <2>3, <2>4, <2>5 DEF Write, RecordType
  <1>2. CASE Encrypt BY <1>2 DEF Encrypt
  <1>3. CASE Finish BY <1>3 DEF Finish
  <1>4. CASE Arrive BY <1>4 DEF Arrive
  <1>5. CASE Recv BY <1>5 DEF Recv
  <1>6. CASE RecvEnd BY <1>6 DEF RecvEnd
  <1>7. CASE HeaderRead
    <2>1. FieldAt(pos) \subseteq Nat
      <3>1. \A i \in DOMAIN records : records[i].field \in 0 .. Field - 1
        BY RecordFacts
      <3>2. 0 .. Field - 1 \subseteq Nat
        BY RecordAssumption
      <3> QED BY <3>1, <3>2 DEF FieldAt, At
    <2> QED BY <1>7, <2>1 DEF HeaderRead
  <1>8. CASE PayloadRead
    <2>0. pos - need \in Nat /\ need \in Nat
      <3>1. pos \in Nat /\ need \in Nat /\ need <= pos
        BY <1>8 DEF PayloadRead
      <3> QED BY <3>1
    <2>1. PICK found \in FoundAt(pos - need, need) :
            IF TooShort(found, need) THEN phase' = "failed" /\ UNCHANGED <<need, total, got>>
            ELSE /\ got' = Append(got, [at |-> pos - need, length |-> Copied(found, need)])
                 /\ phase' = "header" /\ need' = Header /\ total' = 0
      BY <1>8 DEF PayloadRead
    <2>2. UNCHANGED <<records, encrypted, end, finished, arrived, pos>>
      BY <1>8 DEF PayloadRead
    <2>3. CASE TooShort(found, need) BY <2>1, <2>2, <2>3
    <2>4. CASE ~TooShort(found, need)
      <3>1. found.enc \in BOOLEAN /\ found.pad \in 0 .. MaxPad
        BY DEF FoundAt
      <3>2. Copied(found, need) \in Nat
        BY <2>0, <2>4, <3>1, CopiedType
      <3>3. got' \in Seq([at : Nat, length : Nat])
        <4> DEFINE e == [at |-> pos - need, length |-> Copied(found, need)]
        <4>1. e \in [at : Nat, length : Nat]
          BY <2>0, <3>2
        <4>2. got' = Append(got, e)
          BY <2>1, <2>4
        <4> HIDE DEF e
        <4> QED BY <4>1, <4>2
      <3>4. phase' = "header" /\ need' = Header /\ total' = 0 /\ Header \in Nat
        BY <2>1, <2>4, RecordAssumption
      <3> QED BY <2>2, <3>3, <3>4
    <2> QED BY <2>3, <2>4
  <1>9. CASE UNCHANGED vars BY <1>9 DEF vars
  <1> QED BY <1>1, <1>2, <1>3, <1>4, <1>5, <1>6, <1>7, <1>8, <1>9 DEF Next, Reader

\* The initial state is well typed.
LEMMA InitType == Init => TypeOK
  <1> SUFFICES ASSUME Init PROVE TypeOK
    OBVIOUS
  <1>1. records = << >> /\ got = << >> /\ Header \in Nat
    BY RecordAssumption DEF Init
  <1>2. end \in Nat /\ arrived \in 0 .. end /\ pos \in 0 .. arrived /\ need \in Nat /\ total \in 0 .. need /\ total <= pos
    BY <1>1 DEF Init
  <1>3. encrypted \in BOOLEAN /\ finished \in BOOLEAN /\ phase \in {"header", "payload", "failed"}
    BY DEF Init
  <1>4. records \in Seq(RecordType) /\ got \in Seq([at : Nat, length : Nat])
    BY <1>1
  <1> QED BY <1>2, <1>3, <1>4 DEF TypeOK, RecordType

\* Every reachable state is well typed, whatever the payloads are: neither the
\* reader nor TCP runs ahead of what was written (read_exact, record.c:53-66).
THEOREM TypeCorrect == Safety => []TypeOK
  BY InitType, TypeStep, PTL DEF Safety

(***************************************************************************)
(* Where the records lie.                                                  *)
(***************************************************************************)

\* The position behind record i; before the first record, the beginning.
Boundary(i) == IF i = 0 THEN 0 ELSE records[i].start + Header + records[i].size

\* Each record begins where the one before it ends; only the last may be cut
\* off, and then the writer has finished.
Contiguous ==
  /\ \A i \in 1 .. Len(records) : records[i].start = Boundary(i - 1)
  /\ \A i, j \in 1 .. Len(records) : i < j => Boundary(i) <= records[j].start
  /\ end <= Boundary(Len(records))
  /\ ~finished => end = Boundary(Len(records))
  /\ \A i \in 1 .. Len(records) : records[i].start <= end

\* The length field and the padding byte of a record fit its content.
Fitting(r) ==
  /\ r.size <= MaxFragment /\ r.field = r.size /\ r.pad \in 0 .. MaxPad /\ r.enc \in BOOLEAN
  /\ r.enc => /\ PlaintextLen(r, r.size) = r.plain /\ r.size >= Iv + Block
              /\ (r.size - Iv) % Block = 0
  /\ ~r.enc => r.size = r.plain

WellFormed == \A i \in 1 .. Len(records) : Fitting(records[i])

\* The reader has read Len(got) records and is at the end of them or inside the
\* next one, of which it knows the length once the header is read.
InStep ==
  /\ phase = "header" => need = Header /\ pos = Boundary(Len(got)) + total
  /\ phase = "payload" =>
       /\ Len(got) < Len(records) /\ need = records[Len(got) + 1].size
       /\ pos = records[Len(got) + 1].start + Header + total

RecordInv ==
  TypeOK /\ Contiguous /\ WellFormed /\ InStep /\ ReadsWhatWasWritten /\ FailsOnlyAtTheEnd

\* Every payload of tls_write, wrapped, is a fragment that tls_read_record accepts.  It is if
\* the callers of tls_write keep to tls.h:67 (PayloadsFit).
Fits == \A n \in Payloads : Wrapped(TRUE, n) <= MaxFragment

\* Fits follows from the limit that tls.h:67 states.
LEMMA PayloadsFit == (\A n \in Payloads : n <= MaxRecordSize) => Fits
  <1> SUFFICES ASSUME NEW n \in Payloads, n <= MaxRecordSize PROVE Wrapped(TRUE, n) <= MaxFragment
    BY DEF Fits
  <1>1. n \in Nat /\ PadLength(n) \in 0 .. Block - 1
    BY PadType, RecordAssumption
  <1>2. Wrapped(TRUE, n) = Iv + n + Mac + PadLength(n) + 1
    BY DEF Wrapped
  <1>3. Iv \in Nat /\ Mac \in Nat /\ Block \in Nat /\ MaxRecordSize \in Nat /\ MaxFragment \in Nat
        /\ MaxRecordSize + Iv + Mac + Block <= MaxFragment
    BY RecordAssumption
  <1> DEFINE w == Wrapped(TRUE, n)
             pad == PadLength(n)
  <1> HIDE DEF w, pad
  <1>4. w <= MaxFragment
    <2>1. pad \in 0 .. Block - 1 /\ w = Iv + n + Mac + pad + 1
      BY <1>1, <1>2 DEF w, pad
    <2> QED BY <1>1, <1>3, <2>1
  <1> QED BY <1>4 DEF w

\* Division of a number by a length.
LEMMA Division ==
  ASSUME NEW D \in Nat \ {0}, NEW x \in Nat
  PROVE  x \div D \in Nat /\ x % D \in 0 .. D - 1 /\ x = (x \div D) * D + (x % D)
  OBVIOUS

\* A number is a multiple of the block length if it is a quotient times it.
LEMMA MultipleOfBlock ==
  ASSUME NEW D \in Nat \ {0}, NEW x \in Nat, NEW q \in Nat, x = q * D
  PROVE  x % D = 0
  <1>1. PICK u \in Int, v \in 0 .. D - 1 : v = x % D /\ x = u * D + v
    OBVIOUS
  <1>2. u = q
    <2>1. CASE u <= q - 1
      <3>1. u * D <= (q - 1) * D
        BY <2>1, <1>1
      <3> QED BY <3>1, <1>1
    <2>2. CASE u >= q + 1
      <3>1. u * D >= (q + 1) * D
        BY <2>2, <1>1
      <3> QED BY <3>1, <1>1
    <2> QED BY <2>1, <2>2, <1>1
  <1>3. PICK p \in Int : p = q * D /\ p = u * D
    BY <1>1, <1>2
  <1>4. p = p + v
    BY <1>1, <1>3
  <1> QED BY <1>1, <1>3, <1>4

\* The content, MAC and padding of a record fill whole blocks, at least one.
LEMMA FillsBlocks ==
  ASSUME NEW n \in Nat
  PROVE  /\ n + Mac + PadLength(n) + 1 >= Block
         /\ (n + Mac + PadLength(n) + 1) % Block = 0
  <1>1. n + Mac \in Nat /\ Block \in Nat \ {0}
    BY RecordAssumption
  <1>2. PICK c \in Nat : c = n + Mac
    BY <1>1
  <1>3. PICK q \in Nat, m \in 0 .. Block - 1 : m = c % Block /\ c = q * Block + m
    <2>1. c \div Block \in Nat /\ c % Block \in 0 .. Block - 1
          /\ c = (c \div Block) * Block + (c % Block)
      BY <1>1, <1>2, Division
    <2> QED BY <2>1
  <1>4. PadLength(n) = Block - 1 - m
    BY <1>2, <1>3 DEF PadLength
  <1>5. PICK x \in Int : x = n + Mac + PadLength(n) + 1
    BY <1>1, <1>3, <1>4, RecordAssumption
  <1>6. x = c - m + Block
    BY <1>1, <1>2, <1>3, <1>4, <1>5, RecordAssumption
  <1>7. x = (q + 1) * Block /\ x >= Block
    <2>1. (q + 1) * Block = q * Block + Block /\ q * Block >= 0 /\ q * Block \in Nat
      BY <1>1, <1>3
    <2> QED BY <1>1, <1>3, <1>6, <2>1
  <1>8. x % Block = 0
    BY <1>1, <1>7, MultipleOfBlock
  <1> QED BY <1>5, <1>7, <1>8

\* The length field of a new record says its length and the unwrapped payload is
\* the content (tls_write_record and tls_read agree on IV, MAC and padding).
LEMMA NewRecordFits ==
  ASSUME Fits, TypeOK, NEW n \in Contents, NEW r, r = NewRecord(n)
  PROVE  r.start = end /\ r.plain = n /\ r.size \in Nat /\ Fitting(r)
  <1>1. n \in Nat /\ PadLength(n) \in 0 .. Block - 1 /\ encrypted \in BOOLEAN
    BY PadType, ContentsType DEF TypeOK
  <1>2. Iv \in Nat /\ Mac \in Nat /\ Block \in Nat \ {0} /\ Field \in Nat /\ MaxFragment \in Nat
        /\ MaxFragment < Field /\ MaxPad \in Nat /\ Block <= MaxPad + 1
    BY RecordAssumption
  <1>3. /\ r.start = end /\ r.plain = n /\ r.enc = encrypted /\ r.pad = PadLength(n)
        /\ r.size = Wrapped(encrypted, n) /\ r.field = Wrapped(encrypted, n) % Field
    BY DEF NewRecord
  <1>4. r.pad \in 0 .. MaxPad
    BY <1>1, <1>2, <1>3
  <1>5. CASE encrypted
    <2>1. r.size = Iv + n + Mac + PadLength(n) + 1
      BY <1>3, <1>5 DEF Wrapped
    <2>2. PlaintextLen(r, r.size) = r.size - Iv - (PadLength(n) + 1) - Mac
      BY <1>3 DEF PlaintextLen
    <2>3. Iv + n + Mac + PadLength(n) + 1 <= MaxFragment
      BY <1>5 DEF Fits, Wrapped, Contents
    <2>4. n + Mac + PadLength(n) + 1 >= Block
      BY <1>1, FillsBlocks
    <2>41. (r.size - Iv) % Block = 0
      <3>1. r.size - Iv = n + Mac + PadLength(n) + 1
        BY <1>1, <1>2, <2>1
      <3>2. (n + Mac + PadLength(n) + 1) % Block = 0
        BY <1>1, FillsBlocks
      <3> QED BY <3>1, <3>2
    <2>5. r.size \in Nat /\ r.size <= MaxFragment /\ PlaintextLen(r, r.size) = n
          /\ r.size >= Iv + Block
      BY <1>1, <1>2, <2>1, <2>2, <2>3, <2>4
    <2>6. r.field = r.size % Field
      BY <1>3
    <2>7. r.field = r.size
      BY <1>2, <2>5, <2>6
    <2>8. Fitting(r)
      BY <1>1, <1>3, <1>4, <1>5, <2>5, <2>7, <2>41 DEF Fitting
    <2> QED BY <1>3, <2>5, <2>8
  <1>6. CASE ~encrypted
    <2>1. r.size = n
      BY <1>3, <1>6 DEF Wrapped
    <2>2. n \in 0 .. MaxRecordSize
      BY <1>6, RecordAssumption DEF Contents
    <2>3. MaxRecordSize \in Nat /\ MaxRecordSize + Iv + Mac + Block <= MaxFragment
      BY RecordAssumption
    <2>4. r.size \in Nat /\ r.size <= MaxFragment
      BY <1>2, <2>1, <2>2, <2>3
    <2>5. r.field = r.size % Field
      BY <1>3
    <2>6. r.field = r.size
      BY <1>2, <2>4, <2>5
    <2>7. ~r.enc /\ r.plain = n /\ r.start = end /\ r.enc \in BOOLEAN
      BY <1>1, <1>3, <1>6
    <2>8. Fitting(r)
      BY <1>4, <2>1, <2>4, <2>6, <2>7 DEF Fitting
    <2> QED BY <2>4, <2>7, <2>8
  <1> QED BY <1>1, <1>5, <1>6

\* Writing keeps the records end to end and well formed.
LEMMA WriterStep ==
  ASSUME Fits, TypeOK, Contiguous, WellFormed, Write
  PROVE  /\ Contiguous' /\ WellFormed'
         /\ Len(records') = Len(records) + 1
         /\ \A i \in 1 .. Len(records) : records'[i] = records[i]
  <1>1. PICK n \in Contents :
          /\ records' = Append(records, NewRecord(n))
          /\ \/ end' = end + Header + NewRecord(n).size /\ UNCHANGED finished
             \/ end' \in end .. end + Header + NewRecord(n).size - 1 /\ finished' = TRUE
    BY DEF Write, Contents
  <1> DEFINE r == NewRecord(n)
  <1>0. PICK L \in Nat : L = Len(records)
    BY RecordFacts
  <1>2. r.start = end /\ r.plain = n /\ r.size \in Nat /\ Fitting(r)
    BY NewRecordFits
  <1>3. records \in Seq(RecordType) /\ r \in RecordType /\ L \in Nat
    BY <1>0, RecordFacts, NewRecordType
  <1>4. /\ Len(records') = L + 1 /\ records'[L + 1] = r
        /\ \A i \in 1 .. L : records'[i] = records[i]
    <2> HIDE DEF r
    <2>1. records' = Append(records, r)
      BY <1>1 DEF r
    <2> QED BY <1>0, <1>3, <2>1
  <1>5. end \in Nat /\ Header \in Nat \ {0} /\ ~finished
    BY RecordAssumption DEF TypeOK, Write
  <1>6. \A i \in 1 .. L : records[i].start \in Nat /\ records[i].size \in Nat
    BY <1>0, RecordFacts
  <1> HIDE DEF r
  <1>7. (end' = end + Header + r.size /\ finished' = finished)
          \/ (end' \in end .. end + Header + r.size - 1 /\ finished' = TRUE)
    BY <1>1 DEF r
  <1>8. end' \in Nat /\ end <= end' /\ end' <= end + Header + r.size
    <2>1. end' = end + Header + r.size \/ end' \in end .. end + Header + r.size - 1
      BY <1>7
    <2> QED BY <1>2, <1>5, <2>1
  <1>9. /\ \A i \in 0 .. L : Boundary(i)' = Boundary(i) /\ Boundary(i) \in Nat
        /\ Boundary(L + 1)' = end + Header + r.size
    <2>1. ASSUME NEW i \in 0 .. L PROVE Boundary(i)' = Boundary(i) /\ Boundary(i) \in Nat
      <3>1. CASE i = 0 BY <3>1 DEF Boundary
      <3>2. CASE i # 0
        <4>1. i \in 1 .. L
          BY <3>2, <1>3
        <4>2. records'[i] = records[i] /\ records[i].start \in Nat /\ records[i].size \in Nat
          BY <4>1, <1>4, <1>6
        <4> QED BY <4>2, <3>2, <1>5 DEF Boundary
      <3> QED BY <3>1, <3>2
    <2>2. Boundary(L + 1)' = end + Header + r.size
      BY <1>2, <1>3, <1>4 DEF Boundary
    <2> QED BY <2>1, <2>2
  <1>10. /\ \A i \in 1 .. L : records[i].start = Boundary(i - 1) /\ records[i].start <= end
         /\ \A i, j \in 1 .. L : i < j => Boundary(i) <= records[j].start
         /\ end = Boundary(L)
    BY <1>0, <1>5 DEF Contiguous
  <1>11. \A i \in 0 .. L : Boundary(i) <= end
    <2>1. ASSUME NEW i \in 0 .. L PROVE Boundary(i) <= end
      <3>1. CASE i = L BY <3>1, <1>5, <1>10
      <3>2. CASE i = 0 BY <3>2, <1>5 DEF Boundary
      <3>3. CASE i # L /\ i # 0
        <4>1. i \in 1 .. L /\ L \in 1 .. L /\ i < L
          BY <3>3, <1>3
        <4>2. Boundary(i) <= records[L].start /\ records[L].start <= end
          BY <4>1, <1>10
        <4> QED BY <4>1, <4>2, <1>5, <1>6, <1>9
      <3> QED BY <3>1, <3>2, <3>3
    <2> QED BY <2>1
  <1>12. Contiguous'
    <2>1. ASSUME NEW i \in 1 .. L + 1
          PROVE  records'[i].start = Boundary(i - 1)' /\ records'[i].start <= end'
      <3>1. CASE i = L + 1
        <4>1. L \in 0 .. L /\ i - 1 = L
          BY <3>1, <1>3
        <4> QED BY <4>1, <3>1, <1>2, <1>4, <1>8, <1>9, <1>10
      <3>2. CASE i # L + 1
        <4>1. i \in 1 .. L /\ i - 1 \in 0 .. L
          BY <3>2, <1>3
        <4>2. records'[i].start = Boundary(i - 1)'
          BY <4>1, <1>4, <1>9, <1>10
        <4>3. records'[i].start <= end /\ records'[i].start \in Nat
          BY <4>1, <1>4, <1>6, <1>10
        <4> QED BY <4>2, <4>3, <1>5, <1>8
      <3> QED BY <3>1, <3>2
    <2>2. ASSUME NEW i \in 1 .. L + 1, NEW j \in 1 .. L + 1, i < j
          PROVE  Boundary(i)' <= records'[j].start
      <3>1. i \in 1 .. L /\ i \in 0 .. L
        BY <2>2, <1>3
      <3>2. CASE j = L + 1
        BY <3>1, <3>2, <1>2, <1>4, <1>9, <1>11
      <3>3. CASE j # L + 1
        <4>1. j \in 1 .. L
          BY <3>3, <1>3
        <4> QED BY <2>2, <3>1, <4>1, <1>4, <1>9, <1>10
      <3> QED BY <3>2, <3>3
    <2>3. end' <= Boundary(L + 1)'
      BY <1>8, <1>9
    <2>4. ~finished' => end' = Boundary(L + 1)'
      BY <1>7, <1>9
    <2> QED BY <2>1, <2>2, <2>3, <2>4, <1>4 DEF Contiguous
  <1>13. WellFormed'
    <2> SUFFICES ASSUME NEW i \in 1 .. L + 1
                 PROVE  Fitting(records'[i])
      BY <1>4 DEF WellFormed
    <2>1. CASE i = L + 1
      BY <2>1, <1>2, <1>4
    <2>2. CASE i # L + 1
      <3>1. i \in 1 .. L
        BY <2>2, <1>3
      <3> QED BY <1>0, <3>1, <1>4 DEF WellFormed
    <2> QED BY <2>1, <2>2
  <1> QED BY <1>0, <1>4, <1>12, <1>13

(***************************************************************************)
(* The reader stays in step.                                               *)
(***************************************************************************)

\* How many contents were returned and records written are numbers.
LEMMA Counts == ASSUME TypeOK PROVE Len(got) \in Nat /\ Len(records) \in Nat /\ DOMAIN records = 1 .. Len(records)
  <1>1. Len(got) \in Nat
    BY DEF TypeOK
  <1> QED BY <1>1, RecordFacts

\* No two records begin at the same position.
LEMMA AtRecord ==
  ASSUME TypeOK, Contiguous, NEW k \in 1 .. Len(records)
  PROVE  At(records[k].start + Header) = {k}
  <1>1. /\ DOMAIN records = 1 .. Len(records) /\ Len(records) \in Nat
        /\ \A i \in 1 .. Len(records) : records[i].start \in Nat /\ records[i].size \in Nat
    BY RecordFacts
  <1>2. Header \in Nat \ {0}
    BY RecordAssumption
  <1>3. ASSUME NEW i \in 1 .. Len(records), NEW j \in 1 .. Len(records), i < j
        PROVE  records[i].start < records[j].start
    <2>1. Boundary(i) <= records[j].start
      BY <1>3 DEF Contiguous
    <2>2. Boundary(i) = records[i].start + Header + records[i].size
      BY <1>1 DEF Boundary
    <2> QED BY <1>1, <1>2, <2>1, <2>2
  <1>4. ASSUME NEW i \in 1 .. Len(records), records[i].start + Header = records[k].start + Header
        PROVE  i = k
    <2>1. records[i].start = records[k].start
      BY <1>1, <1>2, <1>4
    <2>2. ~(i < k) /\ ~(k < i)
      BY <1>1, <1>3, <2>1
    <2> QED BY <1>1, <2>2
  <1> QED BY <1>1, <1>4 DEF At

\* With a header read there is a record, the one the reader is in.
LEMMA HeaderAt ==
  ASSUME RecordInv, phase = "header", total = need
  PROVE  /\ Len(got) < Len(records)
         /\ pos = records[Len(got) + 1].start + Header
  <1>1. TypeOK /\ Contiguous
    BY DEF RecordInv
  <1> DEFINE k == Len(got)
             L == Len(records)
  <1>2. k \in Nat /\ L \in Nat /\ k <= L
    BY <1>1, RecordFacts DEF RecordInv, TypeOK, ReadsWhatWasWritten
  <1>3. pos = Boundary(k) + Header
    BY DEF RecordInv, InStep
  <1>4. pos \in Nat /\ end \in Nat /\ pos <= end /\ Header \in Nat \ {0}
    BY <1>1, RecordAssumption DEF TypeOK
  <1>5. end <= Boundary(L)
    BY <1>1 DEF Contiguous
  <1>6. Boundary(L) \in Nat
    <2>1. CASE L = 0 BY <2>1 DEF Boundary
    <2>2. CASE L # 0
      <3>1. L \in 1 .. L /\ DOMAIN records = 1 .. L
        BY <1>1, <1>2, <2>2, RecordFacts
      <3>2. records[L].start \in Nat /\ records[L].size \in Nat
        BY <1>1, <3>1, RecordFacts
      <3> QED BY <2>2, <3>2, <1>4 DEF Boundary
    <2> QED BY <2>1, <2>2
  <1> HIDE DEF k, L
  <1>7. k # L
    BY <1>3, <1>4, <1>5, <1>6
  <1>8. k + 1 \in 1 .. L /\ (k + 1) - 1 = k
    BY <1>2, <1>7
  <1>9. records[k + 1].start = Boundary(k)
    BY <1>1, <1>8 DEF Contiguous, L
  <1> QED BY <1>2, <1>3, <1>7, <1>9 DEF k, L

\* Reading a header tells the length of the next record and no other.
LEMMA HeaderStep == ASSUME Fits, RecordInv, HeaderRead PROVE RecordInv'
  <1>1. Len(got) < Len(records) /\ pos = records[Len(got) + 1].start + Header
    BY HeaderAt DEF HeaderRead
  <1> DEFINE k == Len(got) + 1
  <1>2. k \in 1 .. Len(records)
    BY <1>1, Counts DEF RecordInv
  <1>3. At(pos) = {k}
    BY <1>1, <1>2, AtRecord DEF RecordInv
  <1>4. FieldAt(pos) = {records[k].size} /\ records[k].size <= MaxFragment
    BY <1>2, <1>3 DEF FieldAt, RecordInv, WellFormed, Fitting
  <1>5. records[k].size \in Nat /\ MaxFragment \in Nat
    BY <1>2, RecordFacts, RecordAssumption DEF RecordInv
  <1>6. /\ phase' = "payload" /\ need' = records[k].size /\ total' = 0
        /\ UNCHANGED <<writerVars, arrived, pos, got>>
    BY <1>4, <1>5 DEF HeaderRead
  <1>7. TypeOK'
    BY TypeStep DEF RecordInv, Next, Reader
  <1>8. Contiguous' /\ WellFormed'
    BY <1>6 DEF RecordInv, Contiguous, WellFormed, Boundary, writerVars
  <1>9. InStep'
    <2>1. /\ got' = got /\ records' = records /\ pos' = pos /\ phase' = "payload"
          /\ need' = records[Len(got) + 1].size /\ total' = 0
      BY <1>6 DEF writerVars
    <2>2. pos' = records'[Len(got') + 1].start + Header + total'
      <3>1. records[k].start \in Nat /\ Header \in Nat
        BY <1>2, RecordFacts, RecordAssumption DEF RecordInv
      <3> QED BY <1>1, <2>1, <3>1
    <2> QED BY <1>1, <2>1, <2>2 DEF InStep
  <1>10. ReadsWhatWasWritten' /\ FailsOnlyAtTheEnd'
    BY <1>6 DEF RecordInv, ReadsWhatWasWritten, FailsOnlyAtTheEnd, writerVars
  <1> QED BY <1>7, <1>8, <1>9, <1>10 DEF RecordInv

\* Of a fitting record tls_read returns the content, or what the buffer holds.
LEMMA ReturnsTheContent ==
  ASSUME NEW r, NEW found, found.enc = r.enc, r.enc => found.pad = r.pad,
         Fitting(r), r.size \in Nat, r.plain \in Nat
  PROVE  /\ ~TooShort(found, r.size) /\ Copied(found, r.size) \in Nat
         /\ \/ Copied(found, r.size) = r.plain
            \/ r.enc /\ r.plain > BufLen /\ Copied(found, r.size) = BufLen
  <1>1. BufLen \in Nat /\ Iv \in Nat /\ Block \in Nat
    BY RecordAssumption
  <1>2. CASE r.enc
    <2>1. PlaintextLen(found, r.size) = r.plain /\ r.size >= Iv + Block
      BY <1>2 DEF Fitting, PlaintextLen
    <2>2. ~TooShort(found, r.size)
      BY <1>1, <2>1 DEF TooShort
    <2>3. Copied(found, r.size) = IF r.plain < BufLen THEN r.plain ELSE BufLen
      BY <1>2, <2>1 DEF Copied
    <2> QED BY <1>1, <1>2, <2>2, <2>3
  <1>3. CASE ~r.enc
    <2>1. ~TooShort(found, r.size) /\ Copied(found, r.size) = r.size /\ r.size = r.plain
      BY <1>3 DEF TooShort, Copied, Fitting
    <2> QED BY <2>1
  <1> QED BY <1>2, <1>3

\* What tls_read returns is the content of the record the reader is in.
LEMMA PayloadStep == ASSUME RecordInv, PayloadRead PROVE RecordInv'
  <1> DEFINE k == Len(got) + 1
  <1>1. /\ k - 1 < Len(records) /\ need = records[k].size
        /\ pos = records[k].start + Header + need
    BY DEF RecordInv, InStep, PayloadRead
  <1>2. k \in 1 .. Len(records) /\ Len(got) \in Nat
    BY <1>1, Counts DEF RecordInv
  <1>3. records[k].start \in Nat /\ records[k].size \in Nat /\ Header \in Nat
    BY <1>2, RecordFacts, RecordAssumption DEF RecordInv
  <1>4. pos - need = records[k].start + Header
    BY <1>1, <1>3
  <1>5. At(pos - need) = {k}
    BY <1>2, <1>4, AtRecord DEF RecordInv
  <1> DEFINE r == records[k]
  <1>6. PICK found \in FoundAt(r.start + Header, r.size) :
          IF TooShort(found, r.size) THEN phase' = "failed" /\ UNCHANGED <<need, total, got>>
          ELSE /\ got' = Append(got, [at |-> r.start + Header, length |-> Copied(found, r.size)])
               /\ phase' = "header" /\ need' = Header /\ total' = 0
    BY <1>1, <1>4 DEF PayloadRead
  <1>61. Fitting(r) /\ r.plain \in Nat
    BY <1>2, RecordFacts DEF RecordInv, WellFormed
  <1>62. found.enc = r.enc /\ (r.enc => found.pad = r.pad)
    <2>1. r.enc => (r.size - Iv) % Block = 0
      BY <1>61 DEF Fitting
    <2> QED BY <1>4, <1>5, <2>1 DEF FoundAt
  <1> DEFINE length == Copied(found, r.size)
  <1>63. /\ ~TooShort(found, r.size) /\ length \in Nat
         /\ \/ length = r.plain
            \/ r.enc /\ r.plain > BufLen /\ length = BufLen
    BY <1>3, <1>61, <1>62, ReturnsTheContent
  <1>7. /\ got' = Append(got, [at |-> records[k].start + Header, length |-> length])
        /\ phase' = "header" /\ need' = Header /\ total' = 0
        /\ UNCHANGED <<writerVars, arrived, pos>>
    BY <1>6, <1>63 DEF PayloadRead
  <1> HIDE DEF length
  <1>8. TypeOK'
    BY TypeStep DEF RecordInv, Next, Reader
  <1>9. Contiguous' /\ WellFormed' /\ FailsOnlyAtTheEnd'
    BY <1>7 DEF RecordInv, Contiguous, WellFormed, Boundary, FailsOnlyAtTheEnd, writerVars
  <1>10. /\ Len(got') = k /\ DOMAIN got' = 1 .. k /\ DOMAIN got = 1 .. k - 1
         /\ got'[k] = [at |-> records[k].start + Header, length |-> length]
         /\ \A i \in 1 .. k - 1 : got'[i] = got[i]
    <2> DEFINE e == [at |-> records[k].start + Header, length |-> length]
               S == [at : Nat, length : Nat]
    <2>1. got \in Seq(S)
      BY DEF RecordInv, TypeOK
    <2>2. e \in S
      BY <1>3, <1>63
    <2> HIDE DEF e, S
    <2>3. got' = Append(got, e)
      BY <1>7 DEF e
    <2>4. /\ Len(got') = Len(got) + 1 /\ DOMAIN got' = 1 .. Len(got) + 1 /\ DOMAIN got = 1 .. Len(got)
          /\ got'[Len(got) + 1] = e
          /\ \A i \in 1 .. Len(got) : got'[i] = got[i]
      BY <2>1, <2>2, <2>3
    <2>5. Len(got) = k - 1
      BY <1>2
    <2> QED BY <2>4, <2>5 DEF e
  <1>11. ReadsWhatWasWritten'
    <2> DEFINE Is(g, i) ==
                 /\ g.at = records[i].start + Header
                 /\ \/ g.length = records[i].plain
                    \/ records[i].enc /\ records[i].plain > BufLen /\ g.length = BufLen
    <2>1. \A i \in 1 .. k - 1 : Is(got[i], i)
      BY <1>10 DEF RecordInv, ReadsWhatWasWritten
    <2>11. Is(got'[k], k)
      BY <1>10, <1>63
    <2>12. \A i \in 1 .. k : i = k \/ i \in 1 .. k - 1
      BY <1>2
    <2> HIDE DEF Is
    <2>2. \A i \in 1 .. k : Is(got'[i], i)
      BY <1>10, <2>1, <2>11, <2>12
    <2>3. k <= Len(records) /\ records' = records
      BY <1>2, <1>7 DEF writerVars
    <2> HIDE DEF k
    <2> QED BY <1>10, <2>2, <2>3 DEF ReadsWhatWasWritten, Is
  <1>12. InStep'
    <2>1. pos' = Boundary(k)
      <3>1. Boundary(k) = records[k].start + Header + records[k].size
        BY <1>2 DEF Boundary
      <3> QED BY <1>1, <1>7, <3>1
    <2>2. Boundary(Len(got))' = Boundary(k) /\ Boundary(k) \in Nat
      BY <1>2, <1>3, <1>7, <1>10 DEF Boundary, writerVars
    <2> HIDE DEF k
    <2> QED BY <1>7, <2>1, <2>2 DEF InStep
  <1> QED BY <1>8, <1>9, <1>11, <1>12 DEF RecordInv

\* Writing behind the reader does not disturb it.
LEMMA WriteStep == ASSUME Fits, RecordInv, Write PROVE RecordInv'
  <1>1. /\ Contiguous' /\ WellFormed' /\ Len(records') = Len(records) + 1
        /\ \A i \in 1 .. Len(records) : records'[i] = records[i]
    BY WriterStep DEF RecordInv
  <1>2. UNCHANGED <<arrived, pos, phase, need, total, got>> /\ ~finished
    BY DEF Write, readerVars
  <1>3. TypeOK'
    BY TypeStep DEF RecordInv, Next
  <1>4. Len(got) \in Nat /\ Len(records) \in Nat /\ Len(got) <= Len(records) /\ DOMAIN got = 1 .. Len(got)
    BY RecordFacts DEF RecordInv, TypeOK, ReadsWhatWasWritten
  <1>5. phase # "failed"
    BY <1>2 DEF RecordInv, FailsOnlyAtTheEnd
  <1>6. FailsOnlyAtTheEnd'
    BY <1>2, <1>5 DEF FailsOnlyAtTheEnd
  <1>7. ReadsWhatWasWritten'
    <2>1. \A i \in DOMAIN got : records'[i] = records[i]
      BY <1>1, <1>4
    <2> QED BY <1>1, <1>2, <1>4, <2>1 DEF RecordInv, ReadsWhatWasWritten
  <1>8. InStep'
    <2>1. Boundary(Len(got))' = Boundary(Len(got))
      <3>1. CASE Len(got) = 0 BY <1>2, <3>1 DEF Boundary
      <3>2. CASE Len(got) # 0
        <4>1. Len(got) \in 1 .. Len(records)
          BY <1>4, <3>2
        <4> QED BY <1>1, <1>2, <4>1 DEF Boundary
      <3> QED BY <3>1, <3>2
    <2>2. phase = "header" => need' = Header /\ pos' = Boundary(Len(got))' + total'
      BY <1>2, <2>1 DEF RecordInv, InStep
    <2>3. phase = "payload" =>
            /\ Len(got') < Len(records') /\ need' = records'[Len(got') + 1].size
            /\ pos' = records'[Len(got') + 1].start + Header + total'
      <3> SUFFICES ASSUME phase = "payload"
                   PROVE  /\ Len(got') < Len(records') /\ need' = records'[Len(got') + 1].size
                          /\ pos' = records'[Len(got') + 1].start + Header + total'
        OBVIOUS
      <3>1. Len(got) + 1 \in 1 .. Len(records)
        BY <1>4 DEF RecordInv, InStep
      <3>2. records'[Len(got) + 1] = records[Len(got) + 1]
        BY <1>1, <3>1
      <3> QED BY <1>1, <1>2, <1>4, <3>1, <3>2 DEF RecordInv, InStep
    <2> QED BY <1>2, <2>2, <2>3 DEF InStep
  <1> QED BY <1>1, <1>3, <1>6, <1>7, <1>8 DEF RecordInv

\* recv() moves the reader on inside what it reads.
LEMMA RecvStep == ASSUME RecordInv, Recv PROVE RecordInv'
  <1>1. PICK n \in 1 .. (need - total) : pos' = pos + n /\ total' = total + n
    BY DEF Recv
  <1>2. UNCHANGED <<records, encrypted, end, finished, arrived, phase, need, got>> /\ phase # "failed"
    BY DEF Recv, writerVars
  <1>3. TypeOK'
    BY TypeStep DEF RecordInv, Next, Reader
  <1>4. Contiguous' /\ WellFormed' /\ ReadsWhatWasWritten' /\ FailsOnlyAtTheEnd'
    BY <1>2 DEF RecordInv, Contiguous, WellFormed, Boundary, ReadsWhatWasWritten, FailsOnlyAtTheEnd
  <1>5. Boundary(Len(got))' = Boundary(Len(got)) /\ Header \in Nat
    BY <1>2, RecordAssumption DEF Boundary
  <1>6. pos \in Nat /\ total \in Nat /\ need \in Nat
    BY DEF RecordInv, TypeOK
  <1>7. Boundary(Len(got)) \in Nat
    <2>1. CASE Len(got) = 0 BY <2>1 DEF Boundary
    <2>2. CASE Len(got) # 0
      <3>1. Len(got) \in DOMAIN records
        BY <2>2, RecordFacts DEF RecordInv, TypeOK, ReadsWhatWasWritten
      <3>2. records[Len(got)].start \in Nat /\ records[Len(got)].size \in Nat
        BY <3>1, RecordFacts DEF RecordInv
      <3> QED BY <2>2, <3>2, <1>5 DEF Boundary
    <2> QED BY <2>1, <2>2
  <1>8. InStep'
    <2>1. CASE phase = "header"
      <3>1. pos = Boundary(Len(got)) + total /\ need = Header
        BY <2>1 DEF RecordInv, InStep
      <3>2. pos' = Boundary(Len(got)) + total'
        BY <1>1, <1>6, <1>7, <3>1
      <3> QED BY <2>1, <1>2, <1>5, <3>1, <3>2 DEF InStep
    <2>2. CASE phase = "payload"
      <3> DEFINE s == records[Len(got) + 1].start
      <3>1. Len(got) + 1 \in DOMAIN records
        BY <2>2, Counts DEF RecordInv, InStep
      <3>2. s \in Nat
        BY <3>1, RecordFacts DEF RecordInv
      <3>3. pos = s + Header + total
        BY <2>2 DEF RecordInv, InStep
      <3> HIDE DEF s
      <3>4. pos' = s + Header + total'
        BY <1>1, <1>5, <1>6, <3>2, <3>3
      <3> QED BY <2>2, <1>2, <3>4 DEF RecordInv, InStep, s
    <2> QED BY <1>2, <2>1, <2>2 DEF InStep
  <1> QED BY <1>3, <1>4, <1>8 DEF RecordInv

\* Every step keeps writer and reader in step.
LEMMA RecordStep == Fits /\ RecordInv /\ [Next]_vars => RecordInv'
  <1> SUFFICES ASSUME Fits, RecordInv, [Next]_vars PROVE RecordInv'
    OBVIOUS
  <1>1. CASE Write BY <1>1, WriteStep
  <1>2. CASE Encrypt \/ Finish \/ Arrive \/ RecvEnd \/ UNCHANGED vars
    <2>1. TypeOK'
      BY TypeStep DEF RecordInv
    <2>2. UNCHANGED <<records, end, pos, need, total, got>>
      BY <1>2 DEF Encrypt, Finish, Arrive, RecvEnd, vars, writerVars, readerVars
    <2>3. finished => finished'
      BY <1>2 DEF Encrypt, Finish, Arrive, RecvEnd, vars, writerVars, readerVars
    <2>4. phase' = phase \/ (phase' = "failed" /\ finished /\ pos = end)
      BY <1>2 DEF Encrypt, Finish, Arrive, RecvEnd, vars, writerVars, readerVars
    <2>5. Contiguous' /\ WellFormed' /\ ReadsWhatWasWritten'
      BY <2>2, <2>3 DEF RecordInv, Contiguous, WellFormed, Boundary, ReadsWhatWasWritten
    <2>6. InStep' /\ FailsOnlyAtTheEnd'
      BY <2>2, <2>3, <2>4 DEF RecordInv, InStep, FailsOnlyAtTheEnd, Boundary
    <2> QED BY <2>1, <2>5, <2>6 DEF RecordInv
  <1>3. CASE Recv BY <1>3, RecvStep
  <1>4. CASE HeaderRead BY <1>4, HeaderStep
  <1>5. CASE PayloadRead BY <1>5, PayloadStep
  <1> QED BY <1>1, <1>2, <1>3, <1>4, <1>5 DEF Next, Reader

\* Before anything is written the reader is at the first boundary.
LEMMA RecordInit == Init => RecordInv
  <1> SUFFICES ASSUME Init PROVE RecordInv
    OBVIOUS
  <1>1. TypeOK
    BY InitType
  <1>2. /\ records = << >> /\ end = 0 /\ got = << >> /\ pos = 0 /\ phase = "header"
        /\ need = Header /\ total = 0
    BY DEF Init
  <1>3. Len(records) = 0 /\ Len(got) = 0 /\ DOMAIN got = {}
    BY <1>2
  <1> QED BY <1>1, <1>2, <1>3 DEF RecordInv, Contiguous, WellFormed, InStep, Boundary,
                                  ReadsWhatWasWritten, FailsOnlyAtTheEnd

\* If every wrapped payload is within the limit of a fragment, what tls_read
\* returns is what tls_write_record was given, in order, once and whole, however
\* TCP cuts the stream (tls_read_record, read_exact, tls_read).
THEOREM RecordsAreRead == ASSUME Fits PROVE Safety => []ReadsWhatWasWritten
  <1>1. RecordInv /\ [Next]_vars => RecordInv'
    BY Fits, RecordStep
  <1>2. RecordInv => ReadsWhatWasWritten
    BY DEF RecordInv
  <1> QED BY <1>1, <1>2, RecordInit, PTL DEF Safety

\* Under the same condition the reader gives up only where the stream ends: it
\* mistakes no short recv() for the end and refuses no record.
THEOREM FailureMeansEnd == ASSUME Fits PROVE Safety => []FailsOnlyAtTheEnd
  <1>1. RecordInv /\ [Next]_vars => RecordInv'
    BY Fits, RecordStep
  <1>2. RecordInv => FailsOnlyAtTheEnd
    BY DEF RecordInv
  <1> QED BY <1>1, <1>2, RecordInit, PTL DEF Safety
=============================================================================
