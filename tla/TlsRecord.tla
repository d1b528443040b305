----------------------------- MODULE TlsRecord -----------------------------
(***************************************************************************)
(* The record layer of src/src/tls/record.c over a TCP byte stream:        *)
(* tls_write_record at one end, read_exact, tls_read_record and the        *)
(* unwrapping of tls_read at the other.  TCP may deliver the bytes in      *)
(* pieces of any size and the writer may break off inside a record.        *)
(*                                                                         *)
(* A byte is known by its position in the stream; of the contents only     *)
(* the lengths matter: the 16-bit length field and the padding byte.       *)
(***************************************************************************)
EXTENDS Integers, Sequences

CONSTANTS
  Messages,       \* lengths of handshake messages, which go before ChangeCipherSpec
  Payloads,       \* lengths of what tls_write is called with
  BufLen,         \* buf_len of tls_read
  Header,         \* TLS_RECORD_HEADER_SIZE
  Iv, Mac, Block, \* lengths of the explicit IV, the MAC and a cipher block
  MaxPad,         \* 255: what the padding byte can say
  Field,          \* 2^16: the length field counts modulo Field
  MaxRecordSize,  \* TLS_MAX_RECORD_SIZE
  MaxFragment,    \* TLS_MAX_FRAGMENT
  MaxRecords      \* bound: how many records are written

\* A handshake message is far shorter than a record (its buffers have 4 KB); room
\* for the overhead, and for the largest fragment in the length field.
ASSUME RecordAssumption ==
  /\ Messages \subseteq 0 .. MaxRecordSize /\ Payloads \subseteq Nat /\ BufLen \in Nat
  /\ Header \in Nat \ {0} /\ MaxPad \in Nat /\ Block <= MaxPad + 1
  /\ Iv \in Nat /\ Mac \in Nat /\ Block \in Nat \ {0}
  /\ Field \in Nat /\ MaxRecordSize \in Nat /\ MaxFragment \in Nat
  /\ MaxRecordSize + Iv + Mac + Block <= MaxFragment /\ MaxFragment < Field
  /\ MaxRecords \in Nat

VARIABLES
  records,    \* the records written, with the position each one starts at
  encrypted,  \* server_encrypted
  end,        \* how many bytes have been written
  finished,   \* the writer has closed the connection
  arrived,    \* how many bytes TCP has delivered
  pos,        \* how many bytes the reader has received
  phase,      \* what the reader reads: "header", "payload"; "failed"
  need, total,\* read_exact's len and total
  got         \* what the reader returned: position and length of the content

writerVars == <<records, encrypted, end, finished>>
readerVars == <<pos, phase, need, total, got>>
vars == <<writerVars, arrived, readerVars>>

\* Variant: the padding byte counts all bytes added, as in PKCS #7.
PadLengthPkcs7(n) == Block - ((n + Mac) % Block)

\* The padding byte: one less than the bytes added to fill the last block.
PadLength(n) == Block - 1 - ((n + Mac) % Block)
\* The payload of a record for n bytes of content.
Wrapped(enc, n) == IF enc THEN Iv + n + Mac + PadLength(n) + 1 ELSE n

Init ==
  /\ records = << >> /\ encrypted = FALSE /\ end = 0 /\ finished = FALSE
  /\ arrived = 0
  /\ pos = 0 /\ phase = "header" /\ need = Header /\ total = 0 /\ got = << >>

-----------------------------------------------------------------------------
(* The writer. *)

\* The record for n bytes of content, and its length as the header states it.
NewRecord(n) ==
  [start |-> end, plain |-> n, enc |-> encrypted, pad |-> PadLength(n),
   size |-> Wrapped(encrypted, n), field |-> Wrapped(encrypted, n) % Field]

\* tls_write_record; it returns -1 if memory or the connection is lost after
\* any number of bytes, and its caller gives the connection up.
Write ==
  /\ ~finished /\ Len(records) < MaxRecords
  /\ \E n \in IF encrypted THEN Payloads ELSE Messages :
       LET r == NewRecord(n) IN
         /\ records' = Append(records, r)
         /\ \/ end' = end + Header + r.size /\ UNCHANGED finished
            \/ end' \in end .. end + Header + r.size - 1 /\ finished' = TRUE
  /\ UNCHANGED <<encrypted, arrived, readerVars>>

\* ChangeCipherSpec has been sent.
Encrypt ==
  /\ ~finished /\ encrypted' = TRUE
  /\ UNCHANGED <<records, end, finished, arrived, readerVars>>

Finish ==
  /\ ~finished /\ finished' = TRUE
  /\ UNCHANGED <<records, encrypted, end, arrived, readerVars>>

(* The network. *)

Arrive ==
  /\ arrived' \in arrived + 1 .. end
  /\ UNCHANGED <<writerVars, readerVars>>

(* The reader. *)

\* Variant: read_exact takes the first recv() for the whole.
RecvShort ==
  /\ phase # "failed" /\ total < need
  /\ \E n \in 1 .. (need - total) :
       /\ pos + n <= arrived
       /\ pos' = pos + n /\ total' = need
  /\ UNCHANGED <<writerVars, arrived, phase, need, got>>

\* One recv() of read_exact's loop.
Recv ==
  /\ phase # "failed" /\ total < need
  /\ \E n \in 1 .. (need - total) :
       /\ pos + n <= arrived
       /\ pos' = pos + n /\ total' = total + n
  /\ UNCHANGED <<writerVars, arrived, phase, need, got>>

\* Variant: recv() with nothing to return is an error.
RecvImpatient ==
  /\ phase # "failed" /\ total < need
  /\ pos = arrived
  /\ phase' = "failed"
  /\ UNCHANGED <<writerVars, arrived, pos, need, total, got>>

\* recv() returns 0 at the end of the stream.
RecvEnd ==
  /\ phase # "failed" /\ total < need
  /\ finished /\ pos = end
  /\ phase' = "failed"
  /\ UNCHANGED <<writerVars, arrived, pos, need, total, got>>

\* The record whose payload begins at position p, if the reader is in step.
At(p) == {i \in DOMAIN records : records[i].start + Header = p}

\* What the length field before position p says; out of step, whatever the
\* bytes happen to be.
FieldAt(p) == IF At(p) = {} THEN 0 .. Field - 1 ELSE {records[i].field : i \in At(p)}

\* tls_read_record, between its two reads.
HeaderRead ==
  /\ phase = "header" /\ total = need
  /\ \E length \in FieldAt(pos) :
       IF length > MaxFragment THEN phase' = "failed" /\ UNCHANGED <<need, total>>
       ELSE phase' = "payload" /\ need' = length /\ total' = 0
  /\ UNCHANGED <<writerVars, arrived, pos, got>>

\* What a payload of size bytes at position p may be: whether it is protected,
\* and what its padding byte says.  The byte is the writer's if the payload ends
\* where the writer's ends and consists of whole blocks; if not, or out of step,
\* it is any byte (the rest of the last block is whatever lies behind the payload).
FoundAt(p, size) ==
  {found \in [enc : BOOLEAN, pad : 0 .. MaxPad] :
     \A i \in At(p) :
       /\ found.enc = records[i].enc
       /\ size = records[i].size /\ (size - Iv) % Block = 0 => found.pad = records[i].pad}

\* decrypted_len without the MAC: what remains without IV, padding and MAC.
PlaintextLen(found, size) == size - Iv - (found.pad + 1) - Mac

\* tls_read refuses a payload without a block, and one that is used up by padding
\* and MAC (if decrypted_len wraps below zero, no such memory can be had).
TooShort(found, size) ==
  found.enc /\ (size < Iv + Block \/ PlaintextLen(found, size) < 0)

\* What the caller gets: of a handshake message all, of a request what buf holds.
Copied(found, size) ==
  IF ~ found.enc THEN size
  ELSE IF PlaintextLen(found, size) < BufLen THEN PlaintextLen(found, size) ELSE BufLen

\* Variant: an empty payload is waited for.
PayloadReadNonEmpty ==
  /\ phase = "payload" /\ total = need /\ need > 0
  /\ \E found \in FoundAt(pos - need, need) :
       IF TooShort(found, need) THEN phase' = "failed" /\ UNCHANGED <<need, total, got>>
       ELSE /\ got' = Append(got, [at |-> pos - need, length |-> Copied(found, need)])
            /\ phase' = "header" /\ need' = Header /\ total' = 0
  /\ UNCHANGED <<writerVars, arrived, pos>>

\* tls_read_record returns and, if it is protected, tls_read unwraps the content
\* (the memory it asks for is had here: see TlsServer).
PayloadRead ==
  /\ phase = "payload" /\ total = need
  /\ \E found \in FoundAt(pos - need, need) :
       IF TooShort(found, need) THEN phase' = "failed" /\ UNCHANGED <<need, total, got>>
       ELSE /\ got' = Append(got, [at |-> pos - need, length |-> Copied(found, need)])
            /\ phase' = "header" /\ need' = Header /\ total' = 0
  /\ UNCHANGED <<writerVars, arrived, pos>>

Reader == Recv \/ RecvEnd \/ HeaderRead \/ PayloadRead

Next == Write \/ Encrypt \/ Finish \/ Arrive \/ Reader

\* TCP delivers what was written, the reader reads on.
Fairness == WF_vars(Arrive) /\ WF_vars(Reader)

Safety == Init /\ [][Next]_vars
Spec == Safety /\ Fairness

-----------------------------------------------------------------------------
(* Properties. *)

TypeOK ==
  /\ records \in Seq([start : Nat, plain : Nat, enc : BOOLEAN, pad : 0 .. Block - 1,
                      size : Nat, field : 0 .. Field - 1])
  /\ encrypted \in BOOLEAN /\ finished \in BOOLEAN
  /\ end \in Nat /\ arrived \in 0 .. end /\ pos \in 0 .. arrived
  /\ phase \in {"header", "payload", "failed"}
  /\ need \in Nat /\ total \in 0 .. need /\ total <= pos
  /\ got \in Seq([at : Nat, length : Nat])

\* The reader never loses step with the writer: however TCP cuts the stream,
\* what is read are the contents that were written, in order, each once and whole
\* (read_exact, the length field and the padding agree); only tls_read's caller
\* loses what is beyond its buffer.
ReadsWhatWasWritten ==
  /\ Len(got) <= Len(records)
  /\ \A i \in DOMAIN got :
       /\ got[i].at = records[i].start + Header
       /\ \/ got[i].length = records[i].plain
          \/ records[i].enc /\ records[i].plain > BufLen /\ got[i].length = BufLen

\* The reader gives up at the end of the stream only: a slow stream, a short
\* recv() or the limit on the length never make it refuse a record.
FailsOnlyAtTheEnd == phase = "failed" => finished /\ pos = end

\* A record of which every byte was written is read in the end.
EveryRecordIsRead ==
  \A i \in 1 .. MaxRecords :
    (i <= Len(records) /\ records[i].start + Header + records[i].size <= end) ~> Len(got) >= i

\* tls.h:67 "Max plaintext in one record: 2^14".
PlaintextWithinLimit == \A i \in DOMAIN records : records[i].plain <= MaxRecordSize
=============================================================================
