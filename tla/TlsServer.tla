----------------------------- MODULE TlsServer -----------------------------
(***************************************************************************)
(* The HTTPS server: main's accept loop in modes 1 and 2,                  *)
(* handle_https_client (src/src/main.c), tls_handshake and its eight steps *)
(* (src/src/tls/handshake.c), tls_read and tls_write (src/src/tls/tls_io.c)*)
(* with the record and session functions of src/src/tls/record.c; against  *)
(* clients that follow RFC 5246 but may give up at any point.              *)
(*                                                                         *)
(* Cryptography is symbolic: a PRF output is the tuple of its inputs, a    *)
(* record carries the key and sequence number it was protected with, the   *)
(* handshake hash is the sequence of messages hashed.  Records travel      *)
(* whole; TlsRecord looks at their bytes.                                  *)
(***************************************************************************)
EXTENDS Integers, Sequences

CONSTANTS
  Last,       \* the connections are 1 .. Last, in the order they are accepted
  Seconds,    \* the values time() takes, which server_random is made from
  Blank       \* zeroed memory, no key, no value

ASSUME TlsAssumption == Last \in Nat \ {0} /\ Seconds # {}

Sessions == 1 .. Last

VARIABLES
  pc,         \* where the server is in handle_https_client
  cur,        \* the session being served, 0 before the first
  sess,       \* the tls_session on the server's stack
  heap,       \* which of recv_buf, send_buf, file_buf are allocated
  heard,      \* heard[s]: the request the server read in session s
  mismatch,   \* history: a MAC or verify_data comparison has failed
  closed,     \* closed[s]: the server has closed the connection
  toServer,   \* toServer[s]: records under way to the server
  wire,       \* wire[s]: every record the server has sent, in order
  client      \* client[s]: the client's end

serverVars == <<pc, cur, sess, heap, heard, mismatch, closed>>
vars == <<serverVars, toServer, wire, client>>

Buffers == {"recv_buf", "send_buf", "file_buf"}

\* tls_session_init's memset.
ZeroSession ==
  [client_random |-> Blank, server_random |-> Blank, pms |-> Blank, master |-> Blank,
   client_key |-> Blank, server_key |-> Blank, ivs |-> Blank, client_seq |-> 0, server_seq |-> 0,
   client_encrypted |-> FALSE, server_encrypted |-> FALSE, hash |-> << >>, key |-> Blank]

\* What rsa_load_private_key reads from the key file.
PrivateKey == <<"private key">>

Master(pms, cr, sr) == <<"master secret", pms, cr, sr>>
ClientKey(master) == <<"client write", master>>
ServerKey(master) == <<"server write", master>>
WriteIvs(master) == <<"write IVs", master>>
VerifyData(label, master, hash) == <<label, master, hash>>

\* A record as it travels; key is Blank for plaintext.
Record(ct, key, seq, body) == [ct |-> ct, key |-> key, seq |-> seq, body |-> body]
Message(type, content) == [type |-> type, content |-> content]

\* A client before its ClientHello: what it waits for, whether it offers the
\* server's cipher suite, the server_random it was told, its handshake hash, how
\* many records it has read and how many of them under the server's key.
NewClient(suite) ==
  [at |-> "start", suite |-> suite, server_random |-> Blank, hash |-> << >>, read |-> 0,
   server_seq |-> 0, alarm |-> FALSE, asked |-> Blank, answer |-> Blank]

Init ==
  /\ pc = "accept" /\ cur = 0 /\ sess = ZeroSession /\ heap = {}
  /\ heard = [s \in Sessions |-> Blank]
  /\ mismatch = FALSE
  /\ closed = [s \in Sessions |-> FALSE]
  /\ toServer = [s \in Sessions |-> << >>]
  /\ wire = [s \in Sessions |-> << >>]
  /\ client \in [Sessions -> {NewClient(suite) : suite \in BOOLEAN}]

-----------------------------------------------------------------------------
(* The record layer as the handlers use it. *)

Gone(s) == client[s].at = "gone"

\* Variant: read_exact goes on after recv() has returned 0.
EndOfStreamOverlooked == FALSE

\* tls_read_record has a record to return; it fails at the end of the stream.
Incoming == toServer[cur] # << >>
FirstRecord == Head(toServer[cur])
EndOfStream == toServer[cur] = << >> /\ Gone(cur)
Consume == toServer' = [toServer EXCEPT ![cur] = Tail(@)]

\* tls_write_record: plaintext until server_encrypted, then protected with the
\* server's key and sequence number.
Outgoing(ct, body) ==
  IF sess.server_encrypted THEN Record(ct, sess.server_key, sess.server_seq, body)
                           ELSE Record(ct, Blank, 0, body)
Transmit(ct, body) == wire' = [wire EXCEPT ![cur] = Append(@, Outgoing(ct, body))]
\* Variant: server_seq++ is missing.
SeqNotCounted == sess.server_seq

SeqAfterWrite == IF sess.server_encrypted THEN sess.server_seq + 1 ELSE sess.server_seq

-----------------------------------------------------------------------------
(* handle_https_client up to the handshake. *)

Accept ==
  /\ pc = "accept" /\ cur + 1 \in Sessions
  /\ cur' = cur + 1 /\ pc' = "alloc"
  /\ UNCHANGED <<sess, heap, heard, mismatch, closed, toServer, wire, client>>

\* Three mallocs; if one fails the handler frees what it got.
Alloc ==
  /\ pc = "alloc"
  /\ heap' \in SUBSET Buffers
  /\ pc' = IF heap' = Buffers THEN "init" ELSE "free"
  /\ UNCHANGED <<cur, sess, heard, mismatch, closed, toServer, wire, client>>

\* tls_session_init: loading the certificate may fail, or loading the key, before
\* or after the private exponent is read; then there is no tls_session_cleanup.
SessionInit ==
  /\ pc = "init"
  /\ \E key \in {Blank, PrivateKey} :
       /\ sess' = [ZeroSession EXCEPT !.key = key]
       /\ pc' = "free" \/ (key = PrivateKey /\ pc' = "hello")
  /\ UNCHANGED <<cur, heap, heard, mismatch, closed, toServer, wire, client>>

(* tls_handshake. *)

\* Variant: a failed read goes straight to the label cleanup.
ReadFailsUnwiped ==
  /\ pc \in {"hello", "keyExchange", "changeCipher", "finished", "request"}
  /\ EndOfStream
  /\ pc' = "free"
  /\ UNCHANGED <<cur, sess, heap, heard, mismatch, closed, toServer, wire, client>>

\* Every read of the handshake fails at the end of the stream.
ReadFails ==
  /\ pc \in {"hello", "keyExchange", "changeCipher", "finished", "request"}
  /\ EndOfStream
  /\ pc' = "cleanup"
  /\ UNCHANGED <<cur, sess, heap, heard, mismatch, closed, toServer, wire, client>>

\* Variant: client_random is copied from the start of the message.
ReadClientHelloFromStart ==
  /\ pc = "hello" /\ Incoming
  /\ sess' = [sess EXCEPT !.hash = Append(@, FirstRecord.body), !.client_random = <<FirstRecord.body.type, cur>>]
  /\ pc' = "serverHello"
  /\ Consume
  /\ UNCHANGED <<cur, heap, heard, mismatch, closed, wire, client>>

\* Step 1, handle_client_hello: the payload is hashed before it is looked at;
\* a missing cipher suite is overlooked.
ReadClientHello ==
  /\ pc = "hello" /\ Incoming
  /\ LET m == FirstRecord.body IN
       IF m.type # "ClientHello"
         THEN pc' = "cleanup" /\ sess' = [sess EXCEPT !.hash = Append(@, m)]
         ELSE /\ sess' = [sess EXCEPT !.hash = Append(@, m), !.client_random = m.content]
              /\ pc' = "serverHello"
  /\ Consume
  /\ UNCHANGED <<cur, heap, heard, mismatch, closed, wire, client>>

\* Steps 2 to 4: hash the message, write it in a plaintext record.  A write to a
\* client that has gone may fail or go unnoticed, here and below.
Send(at, type, content, next) ==
  /\ pc = at
  /\ LET m == Message(type, content) IN
       \/ Gone(cur) /\ pc' = "cleanup" /\ UNCHANGED wire
       \/ pc' = next /\ Transmit("handshake", m)
  /\ UNCHANGED <<cur, heap, heard, mismatch, closed, toServer, client>>

\* server_random is the time in seconds and rand() seeded with it: connections
\* of the same second share it.
SendServerHello ==
  \E t \in Seconds :
    LET random == <<"server random", t>> IN
      /\ Send("serverHello", "ServerHello", random, "certificate")
      /\ sess' = [sess EXCEPT !.server_random = random,
                              !.hash = Append(@, Message("ServerHello", random)),
                              !.server_seq = SeqAfterWrite]

\* The message is built in memory of its own, which may not be had.
SendCertificate ==
  \/ /\ pc = "certificate" /\ pc' = "cleanup"
     /\ UNCHANGED <<cur, sess, heap, heard, mismatch, closed, toServer, wire, client>>
  \/ /\ Send("certificate", "Certificate", Blank, "helloDone")
     /\ sess' = [sess EXCEPT !.hash = Append(@, Message("Certificate", Blank)),
                             !.server_seq = SeqAfterWrite]

SendServerHelloDone ==
  /\ Send("helloDone", "ServerHelloDone", Blank, "keyExchange")
  /\ sess' = [sess EXCEPT !.hash = Append(@, Message("ServerHelloDone", Blank)),
                          !.server_seq = SeqAfterWrite]

\* Step 5, handle_client_key_exchange: wrong type or a secret that RSA cannot
\* open (the key file is not the certificate's) ends the handshake.
ReadKeyExchange ==
  /\ pc = "keyExchange" /\ Incoming
  /\ LET m == FirstRecord.body IN
       \/ m.type # "ClientKeyExchange" /\ pc' = "cleanup" /\ UNCHANGED sess
       \/ /\ m.type = "ClientKeyExchange"
          /\ \/ pc' = "cleanup" /\ sess' = [sess EXCEPT !.hash = Append(@, m)]
             \/ pc' = "derive" /\ sess' = [sess EXCEPT !.hash = Append(@, m), !.pms = m.content]
  /\ Consume
  /\ UNCHANGED <<cur, heap, heard, mismatch, closed, wire, client>>

\* Step 6, derive_keys.
DeriveKeys ==
  /\ pc = "derive"
  /\ LET master == Master(sess.pms, sess.client_random, sess.server_random) IN
       sess' = [sess EXCEPT !.master = master, !.client_key = ClientKey(master),
                            !.server_key = ServerKey(master), !.ivs = WriteIvs(master)]
  /\ pc' = "changeCipher"
  /\ UNCHANGED <<cur, heap, heard, mismatch, closed, toServer, wire, client>>

\* Step 7, first half: a ChangeCipherSpec and nothing else.
ReadChangeCipher ==
  /\ pc = "changeCipher" /\ Incoming
  /\ IF FirstRecord.ct # "change_cipher_spec"
       THEN pc' = "cleanup" /\ UNCHANGED sess
       ELSE /\ sess' = [sess EXCEPT !.client_encrypted = TRUE, !.client_seq = 0]
            /\ pc' = "finished"
  /\ Consume
  /\ UNCHANGED <<cur, heap, heard, mismatch, closed, wire, client>>

\* What the client's MAC and verify_data are compared with.
MacMatches(rec) == rec.key = sess.client_key /\ rec.seq = sess.client_seq

\* Variant: the snapshot of the hash is taken too late.
ExpectedTooLate == VerifyData("client finished", sess.master, Append(sess.hash, FirstRecord.body))

ExpectedVerifyData == VerifyData("client finished", sess.master, sess.hash)

\* Step 7, second half: the expected verify_data stems from the hash before
\* this message; the two comparisons are logged, neither ends the handshake.
\* A record under another key decrypts to noise, which is no Finished.
ReadFinished ==
  /\ pc = "finished" /\ Incoming
  /\ LET rec == FirstRecord
         fin == rec.key = sess.client_key /\ rec.body.type = "Finished" IN
       IF rec.ct # "handshake" THEN pc' = "cleanup" /\ UNCHANGED <<sess, mismatch>>
       ELSE /\ mismatch' = (mismatch \/ ~MacMatches(rec)
                                     \/ (fin /\ rec.body.content # ExpectedVerifyData))
            /\ sess' = [sess EXCEPT !.client_seq = @ + 1,
                                    !.hash = IF fin THEN Append(@, rec.body) ELSE @]
            /\ pc' = IF fin THEN "sendChangeCipher" ELSE "cleanup"
  /\ Consume
  /\ UNCHANGED <<cur, heap, heard, closed, wire, client>>

\* Step 8, first half: ChangeCipherSpec in the clear, then encryption is on.
SendChangeCipher ==
  /\ pc = "sendChangeCipher"
  /\ \/ Gone(cur) /\ pc' = "cleanup" /\ UNCHANGED <<sess, wire>>
     \/ /\ Transmit("change_cipher_spec", Message("ChangeCipherSpec", Blank))
        /\ sess' = [sess EXCEPT !.server_encrypted = TRUE, !.server_seq = 0]
        /\ pc' = "sendFinished"
  /\ UNCHANGED <<cur, heap, heard, mismatch, closed, toServer, client>>

\* Step 8, second half: the verify_data covers the client's Finished.  The first
\* protected record: tls_write_record needs memory for it and fails without.
SendFinished ==
  /\ pc = "sendFinished"
  /\ \/ pc' = "cleanup" /\ UNCHANGED <<sess, wire>>
     \/ /\ Transmit("handshake",
              Message("Finished", VerifyData("server finished", sess.master, sess.hash)))
        /\ sess' = [sess EXCEPT !.server_seq = SeqAfterWrite]
        /\ pc' = "request"
  /\ UNCHANGED <<cur, heap, heard, mismatch, closed, toServer, client>>

(* handle_https_client after the handshake. *)

\* tls_read: one application data record; anything else, an alert included,
\* is an error, and so is no memory for the plaintext or the MAC's input.  The
\* MAC comparison is logged only; noise is not a request, no bytes are none.
ReadRequest ==
  /\ pc = "request" /\ Incoming
  /\ LET rec == FirstRecord IN
       \/ pc' = "cleanup" /\ UNCHANGED <<sess, heard, mismatch>>
       \/ /\ rec.ct = "application_data"
          /\ mismatch' = (mismatch \/ ~MacMatches(rec))
          /\ sess' = [sess EXCEPT !.client_seq = @ + 1]
          /\ IF rec.key = sess.client_key /\ rec.body.content # Blank
               THEN pc' = "respond" /\ heard' = [heard EXCEPT ![cur] = rec.body.content]
               ELSE pc' = "cleanup" /\ UNCHANGED heard
  /\ Consume
  /\ UNCHANGED <<cur, heap, closed, wire, client>>

\* Variant: the handler serves further records of the connection.
RespondAgain ==
  /\ pc = "respond"
  /\ Transmit("application_data", Message("Data", <<"response", heard[cur]>>))
  /\ sess' = [sess EXCEPT !.server_seq = SeqAfterWrite]
  /\ pc' = "request"
  /\ UNCHANGED <<cur, heap, heard, mismatch, closed, toServer, client>>

\* The request is parsed and routed, the response built and written with
\* tls_write, whose failure (no memory, no client) is logged only.  Parsing may fail.
Respond ==
  /\ pc = "respond"
  /\ \/ UNCHANGED <<sess, wire>>
     \/ /\ Transmit("application_data", Message("Data", <<"response", heard[cur]>>))
        /\ sess' = [sess EXCEPT !.server_seq = SeqAfterWrite]
  /\ pc' = "cleanup"
  /\ UNCHANGED <<cur, heap, heard, mismatch, closed, toServer, client>>

\* tls_session_cleanup zeroes the secrets and keys of the connection and nothing
\* else: the IVs, the randoms and the server's private key stay.
SessionCleanup ==
  /\ pc = "cleanup"
  /\ sess' = [sess EXCEPT !.pms = Blank, !.master = Blank,
                          !.client_key = Blank, !.server_key = Blank]
  /\ pc' = "free"
  /\ UNCHANGED <<cur, heap, heard, mismatch, closed, toServer, wire, client>>

\* The label cleanup: three frees and tcp_close.
FreeAndClose ==
  /\ pc = "free"
  /\ heap' = {} /\ closed' = [closed EXCEPT ![cur] = TRUE]
  /\ pc' = "accept"
  /\ UNCHANGED <<cur, sess, heard, mismatch, toServer, wire, client>>

ServerStep ==
  \/ Accept \/ Alloc \/ SessionInit \/ ReadFails \/ ReadClientHello \/ SendServerHello
  \/ SendCertificate \/ SendServerHelloDone \/ ReadKeyExchange \/ DeriveKeys
  \/ ReadChangeCipher \/ ReadFinished \/ SendChangeCipher \/ SendFinished
  \/ ReadRequest \/ Respond \/ SessionCleanup \/ FreeAndClose

-----------------------------------------------------------------------------
(* The clients, which follow RFC 5246. *)

ClientRandom(s) == <<"client random", s>>
PreMaster(s) == <<"pre-master secret", s>>
ClientMaster(s) == Master(PreMaster(s), ClientRandom(s), client[s].server_random)

\* Blank is no value: no request and no key.
ASSUME BlankAssumption ==
  \A s \in Sessions :
    /\ Blank \notin {<<"request", s>>, <<"whole", "request", s>>, <<"head", "request", s>>}
    /\ \A t \in Seconds :
         Blank # ServerKey(Master(PreMaster(s), ClientRandom(s), <<"server random", t>>))

Plain(ct, type, content) == Record(ct, Blank, 0, Message(type, content))

\* The server looks at no more than the type of an alert.
Alert == Plain("alert", "Alert", Blank)

\* The client's next record from the server.
Unread(s) == client[s].read < Len(wire[s])
Reply(s) == wire[s][client[s].read + 1]
Become(s, c) == client' = [client EXCEPT ![s] = c]

\* A record the client cannot accept: it raises the alarm and leaves.
Refuse(s) == Become(s, [client[s] EXCEPT !.at = "gone", !.alarm = TRUE]) /\ UNCHANGED toServer

SendClientHello(s) ==
  /\ client[s].at = "start"
  /\ LET m == Message("ClientHello", ClientRandom(s)) IN
       /\ toServer' = [toServer EXCEPT ![s] = <<Record("handshake", Blank, 0, m)>>]
       /\ Become(s, [client[s] EXCEPT !.at = "ServerHello", !.hash = <<m>>])

\* The server's plaintext flight; a client that did not offer the suite sends
\* an alert and leaves.
ReadFlight(s) ==
  /\ client[s].at \in {"ServerHello", "Certificate", "ServerHelloDone"} /\ Unread(s)
  /\ LET m == Reply(s).body
         c == [client[s] EXCEPT !.read = @ + 1, !.hash = Append(@, m)] IN
       IF Reply(s).key # Blank \/ m.type # client[s].at THEN Refuse(s)
       ELSE IF m.type = "ServerHello" /\ ~client[s].suite
         THEN /\ toServer' = [toServer EXCEPT ![s] = Append(@, Alert)]
              /\ Become(s, [c EXCEPT !.at = "gone"])
       ELSE /\ UNCHANGED toServer
            /\ Become(s, IF m.type = "ServerHello"
                           THEN [c EXCEPT !.at = "Certificate", !.server_random = m.content]
                         ELSE IF m.type = "Certificate" THEN [c EXCEPT !.at = "ServerHelloDone"]
                         ELSE [c EXCEPT !.at = "keyExchange"])

\* ClientKeyExchange, ChangeCipherSpec and Finished; the client may give up
\* after any of them, with an alert or without.
SendKeys(s) ==
  /\ client[s].at = "keyExchange"
  /\ LET cke == Message("ClientKeyExchange", PreMaster(s))
         hash == Append(client[s].hash, cke)
         fin == Message("Finished", VerifyData("client finished", ClientMaster(s), hash))
         flight == <<Record("handshake", Blank, 0, cke),
                     Plain("change_cipher_spec", "ChangeCipherSpec", Blank),
                     Record("handshake", ClientKey(ClientMaster(s)), 0, fin)>> IN
       \E n \in 1 .. 3 : \E alert \in {<< >>, <<Alert>>} :
         /\ toServer' = [toServer EXCEPT ![s] =
                           @ \o SubSeq(flight, 1, n) \o IF n = 3 THEN << >> ELSE alert]
         /\ Become(s, [client[s] EXCEPT !.at = IF n = 3 THEN "ChangeCipherSpec" ELSE "gone",
                                        !.hash = Append(hash, fin)])

ReadCcs(s) ==
  /\ client[s].at = "ChangeCipherSpec" /\ Unread(s)
  /\ IF Reply(s) # Plain("change_cipher_spec", "ChangeCipherSpec", Blank) THEN Refuse(s)
     ELSE /\ Become(s, [client[s] EXCEPT !.at = "Finished", !.read = @ + 1])
          /\ UNCHANGED toServer

\* A record under the server's key, in sequence.
Authentic(s, ct) ==
  /\ Reply(s).ct = ct /\ Reply(s).key = ServerKey(ClientMaster(s))
  /\ Reply(s).seq = client[s].server_seq

ReadServerFinished(s) ==
  /\ client[s].at = "Finished" /\ Unread(s)
  /\ IF ~Authentic(s, "handshake") \/ Reply(s).body #
          Message("Finished", VerifyData("server finished", ClientMaster(s), client[s].hash))
       THEN Refuse(s)
     ELSE /\ Become(s, [client[s] EXCEPT !.at = "ask", !.read = @ + 1, !.server_seq = @ + 1])
          /\ UNCHANGED toServer

\* The request, in one record, in two, or behind a record of no bytes.
SendRequest(s) ==
  /\ client[s].at = "ask"
  /\ LET Part(seq, content) == Record("application_data", ClientKey(ClientMaster(s)), seq,
                                      Message("Data", content))
         whole == <<"whole", "request", s>>
         head == <<"head", "request", s>>
         tail == <<"tail", "request", s>> IN
       \E parts \in {<<Part(1, whole)>>, <<Part(1, head), Part(2, tail)>>,
                      <<Part(1, Blank), Part(2, whole)>>} :
         toServer' = [toServer EXCEPT ![s] = @ \o parts]
  /\ Become(s, [client[s] EXCEPT !.at = "answer", !.asked = <<"request", s>>])

ReadAnswer(s) ==
  /\ client[s].at = "answer" /\ Unread(s)
  /\ IF ~Authentic(s, "application_data") THEN Refuse(s)
     ELSE /\ Become(s, [client[s] EXCEPT !.at = "over", !.read = @ + 1, !.server_seq = @ + 1,
                                         !.answer = Reply(s).body.content])
          /\ UNCHANGED toServer

\* The client closes the connection at any time, with an alert or without.
Leave(s) ==
  /\ client[s].at # "gone"
  /\ Become(s, [client[s] EXCEPT !.at = "gone"])
  /\ toServer' \in {toServer, [toServer EXCEPT ![s] = Append(@, Alert)]}

ClientStep(s) ==
  /\ \/ SendClientHello(s) \/ ReadFlight(s) \/ SendKeys(s) \/ ReadCcs(s)
     \/ ReadServerFinished(s) \/ SendRequest(s) \/ ReadAnswer(s) \/ Leave(s)
  /\ UNCHANGED <<serverVars, wire>>

Next == ServerStep \/ \E s \in Sessions : ClientStep(s)

\* The server runs whenever it is not blocked; a client goes on or leaves.
Fairness == WF_vars(ServerStep) /\ \A s \in Sessions : WF_vars(ClientStep(s))

Safety == Init /\ [][Next]_vars
Spec == Safety /\ Fairness

-----------------------------------------------------------------------------
(* Properties. *)

Labels == {"accept", "alloc", "init", "hello", "serverHello", "certificate", "helloDone",
           "keyExchange", "derive", "changeCipher", "finished", "sendChangeCipher",
           "sendFinished", "request", "respond", "cleanup", "free"}

TypeOK ==
  /\ pc \in Labels /\ cur \in 0 .. Last /\ heap \subseteq Buffers
  /\ sess.client_random \in {Blank} \cup {ClientRandom(s) : s \in Sessions}
  /\ sess.pms \in {Blank} \cup {PreMaster(s) : s \in Sessions}
  /\ sess.server_random \in {Blank} \cup {<<"server random", t>> : t \in Seconds}
  /\ sess.client_seq \in 0 .. 2 /\ sess.server_seq \in 0 .. 2
  /\ mismatch \in BOOLEAN /\ closed \in [Sessions -> BOOLEAN]

\* The two ends agree: with a client that follows the RFC no comparison of MAC
\* or verify_data ever fails, on either side.  This is what the order of
\* hash_handshake calls, the snapshot taken before the client's Finished, the
\* seed orders of derive_keys and the resets of the sequence numbers are for.
EndsAgree == ~mismatch /\ \A s \in Sessions : ~client[s].alarm

\* Of what a connection's handshake made, no secret is left in the session on the
\* stack when the next is accepted, and no buffer is left allocated, whichever step
\* of handle_https_client failed.  One secret does stay, and from the first message
\* sent on: the server's own private key, which tls_session_cleanup does not zero.
OnlyTheKeyStays ==
  pc = "accept" =>
    /\ heap = {}
    /\ \A f \in {"pms", "master", "client_key", "server_key"} : sess[f] = Blank
    /\ \A s \in Sessions : s = cur /\ wire[s] # << >> => sess.key = PrivateKey

\* What the server sends before ChangeCipherSpec is in the clear, everything
\* after it is protected, application data always; and no two records of all
\* connections share key and sequence number, although connections of one
\* second share their server_random.
ProtectedOnce ==
  \A s \in Sessions : \A i \in DOMAIN wire[s] :
    /\ wire[s][i].key # Blank <=> \E j \in 1 .. i - 1 : wire[s][j].ct = "change_cipher_spec"
    /\ wire[s][i].ct = "application_data" => wire[s][i].key # Blank
    /\ \A z \in Sessions : \A j \in DOMAIN wire[z] :
         wire[s][i].key # Blank /\ wire[s][i].key = wire[z][j].key
           /\ wire[s][i].seq = wire[z][j].seq => s = z /\ i = j

Abstract == INSTANCE SecureExchange WITH
  Nothing <- Blank,
  asked <- [s \in Sessions |-> client[s].asked],
  answer <- [s \in Sessions |-> client[s].answer]

\* Each exchange is private to its ends: the server hears what this client
\* asked (at least the first record of it), the client takes as the answer what
\* the server said to that, each once.
RefinesSecureExchange == Abstract!Exchange

\* Every connection main accepts is closed in the end, whatever fails.
EveryConnectionIsClosed == \A s \in Sessions : cur = s ~> closed[s]
=============================================================================
