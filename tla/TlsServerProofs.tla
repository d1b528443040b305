--------------------------- MODULE TlsServerProofs ---------------------------
(***************************************************************************)
(* Theorems about TlsServer, for any number of connections and any clock.  *)
(* The inductive invariant says what each end has sent and knows at each   *)
(* step of the handshake: WireContent and WireLength what the server has   *)
(* written, SessInv what its session holds, QueueInv what is under way to  *)
(* it, ClientInv what the client has read and hashed.                      *)
(***************************************************************************)
EXTENDS TlsServer, SequenceTheorems, TLAPS

(***************************************************************************)
(* The messages of session s when its server_random is r, and the secrets. *)
(***************************************************************************)

ServerRandoms == {<<"server random", t>> : t \in Seconds}
Secret(s, r) == Master(PreMaster(s), ClientRandom(s), r)

Hello(s) == Message("ClientHello", ClientRandom(s))
ServerHello(r) == Message("ServerHello", r)
Certificate == Message("Certificate", Blank)
HelloDone == Message("ServerHelloDone", Blank)
KeyMessage(s) == Message("ClientKeyExchange", PreMaster(s))

\* The handshake hash after the first, second, ... message.
Hash1(s) == Append(<< >>, Hello(s))
Hash2(s, r) == Append(Hash1(s), ServerHello(r))
Hash3(s, r) == Append(Hash2(s, r), Certificate)
Hash4(s, r) == Append(Hash3(s, r), HelloDone)
Hash5(s, r) == Append(Hash4(s, r), KeyMessage(s))

ClientFinished(s, r) ==
  Message("Finished", VerifyData("client finished", Secret(s, r), Hash5(s, r)))
Hash6(s, r) == Append(Hash5(s, r), ClientFinished(s, r))
ServerFinished(s, r) ==
  Message("Finished", VerifyData("server finished", Secret(s, r), Hash6(s, r)))

Ccs == Plain("change_cipher_spec", "ChangeCipherSpec", Blank)
Request(s, r, seq, content) ==
  Record("application_data", ClientKey(Secret(s, r)), seq, Message("Data", content))
FirstParts(s) == {<<"whole", "request", s>>, <<"head", "request", s>>, Blank}
SecondParts(s) == {<<"whole", "request", s>>, <<"tail", "request", s>>}
Requests(s) == {<<"whole", "request", s>>, <<"head", "request", s>>}
Response(s, r, h) ==
  Record("application_data", ServerKey(Secret(s, r)), 1, Message("Data", <<"response", h>>))

(***************************************************************************)
(* The steps of handle_https_client from a label on.                       *)
(***************************************************************************)

FromRespond == {"respond"}
FromRequest == {"request"} \cup FromRespond
FromSendFinished == {"sendFinished"} \cup FromRequest
FromSendCipher == {"sendChangeCipher"} \cup FromSendFinished
FromFinished == {"finished"} \cup FromSendCipher
FromCipher == {"changeCipher"} \cup FromFinished
FromDerive == {"derive"} \cup FromCipher
FromKeys == {"keyExchange"} \cup FromDerive
FromDone == {"helloDone"} \cup FromKeys
FromCertificate == {"certificate"} \cup FromDone
FromServerHello == {"serverHello"} \cup FromCertificate
FromHello == {"hello"} \cup FromServerHello
Unserved == {"alloc", "init"}

(***************************************************************************)
(* The invariant.                                                          *)
(***************************************************************************)

\* A sequence, whatever its elements are.
IsSequence(q) == q \in Seq({q[i] : i \in DOMAIN q})

\* The fields of tls_session and of a client.
Fields == {"client_random", "server_random", "pms", "master", "client_key", "server_key",
           "ivs", "client_seq", "server_seq", "client_encrypted", "server_encrypted", "hash", "key"}
ClientFields == {"at", "suite", "server_random", "hash", "read", "server_seq", "alarm",
                 "asked", "answer"}
Shapes ==
  /\ DOMAIN sess = Fields
  /\ DOMAIN heard = Sessions /\ DOMAIN wire = Sessions
  /\ DOMAIN toServer = Sessions /\ DOMAIN client = Sessions
  /\ \A s \in Sessions :
       DOMAIN client[s] = ClientFields /\ IsSequence(wire[s]) /\ IsSequence(toServer[s])

\* The server_random that went out in session s.
Told(s) == wire[s][1].body.content

\* What the server has written in session s, record by record.
WireAt(s) ==
  LET r == Told(s)
      n == Len(wire[s]) IN
    /\ n <= 6
    /\ n >= 1 => wire[s][1] = Record("handshake", Blank, 0, ServerHello(r)) /\ r \in ServerRandoms
    /\ n >= 2 => wire[s][2] = Record("handshake", Blank, 0, Certificate)
    /\ n >= 3 => wire[s][3] = Record("handshake", Blank, 0, HelloDone)
    /\ n >= 4 => wire[s][4] = Ccs
    /\ n >= 5 => wire[s][5] = Record("handshake", ServerKey(Secret(s, r)), 0, ServerFinished(s, r))
    /\ n >= 6 => wire[s][6] = Response(s, r, heard[s]) /\ heard[s] \in Requests(s)

WireContent ==
  /\ \A s \in Sessions : WireAt(s)
  /\ \A s \in Sessions : s > cur => Len(wire[s]) = 0 /\ heard[s] = Blank

\* How much it has written to the client it serves, and what it has heard.
WireLength ==
  /\ pc # "accept" => cur \in Sessions
  /\ pc \in Unserved \cup {"hello", "serverHello"} => Len(wire[cur]) = 0
  /\ pc = "certificate" => Len(wire[cur]) = 1
  /\ pc = "helloDone" => Len(wire[cur]) = 2
  /\ pc \in FromKeys \ FromSendFinished => Len(wire[cur]) = 3
  /\ pc = "sendFinished" => Len(wire[cur]) = 4
  /\ pc \in FromRequest => Len(wire[cur]) = 5
  /\ pc \in (Unserved \cup FromHello) \ FromRespond => heard[cur] = Blank
  /\ pc = "respond" => heard[cur] \in Requests(cur)

\* What the session on the stack holds.
SessInv ==
  LET r == Told(cur)
      secret == Secret(cur, r) IN
    /\ pc = "hello" => sess.hash = << >>
    /\ pc \in FromServerHello => sess.client_random = ClientRandom(cur)
    /\ pc \in FromCertificate => sess.server_random = r
    /\ pc \in FromDerive => sess.pms = PreMaster(cur)
    /\ pc \in FromCipher => /\ sess.master = secret
                            /\ sess.client_key = ClientKey(secret)
                            /\ sess.server_key = ServerKey(secret)
    /\ pc \in FromHello \ FromSendCipher => sess.client_seq = 0
    /\ pc \in FromSendCipher \ FromRespond => sess.client_seq = 1
    /\ pc \in FromHello \ FromRequest => sess.server_seq = 0
    /\ pc \in FromRequest => sess.server_seq = 1
    /\ pc \in FromHello \ FromSendFinished => sess.server_encrypted = FALSE
    /\ pc \in FromSendFinished => sess.server_encrypted = TRUE
    /\ pc = "serverHello" => sess.hash = Hash1(cur)
    /\ pc = "certificate" => sess.hash = Hash2(cur, r)
    /\ pc = "helloDone" => sess.hash = Hash3(cur, r)
    /\ pc = "keyExchange" => sess.hash = Hash4(cur, r)
    /\ pc \in FromDerive \ FromSendCipher => sess.hash = Hash5(cur, r)
    /\ pc \in FromSendCipher \ FromRequest => sess.hash = Hash6(cur, r)

\* Outside the handler's use of the session its secrets are zero.
Wiped == sess.pms = Blank /\ sess.master = Blank /\ sess.client_key = Blank /\ sess.server_key = Blank
WipedInv ==
  /\ pc \in {"accept", "free"} \cup Unserved => Wiped
  /\ pc = "accept" => heap = {}

\* Sessions whose records the server has yet to read, and how many it has read.
Reading(s) == s > cur \/ (s = cur /\ pc \in Unserved \cup FromHello)
Consumed(s) ==
  IF s > cur \/ pc \in Unserved \cup {"hello"} THEN 0
  ELSE IF pc \in FromServerHello \ FromDerive THEN 1
  ELSE IF pc \in {"derive", "changeCipher"} THEN 2
  ELSE IF pc = "finished" THEN 3
  ELSE IF pc # "respond" THEN 4 ELSE 5

\* The n-th record of a client.
Expected(s, n, rec) ==
  LET r == Told(s) IN
    \/ n = 1 /\ rec = Record("handshake", Blank, 0, Hello(s))
    \/ /\ Len(wire[s]) >= 3
       /\ \/ n = 2 /\ rec = Record("handshake", Blank, 0, KeyMessage(s))
          \/ n = 3 /\ rec = Ccs
          \/ n = 4 /\ rec = Record("handshake", ClientKey(Secret(s, r)), 0, ClientFinished(s, r))
          \/ /\ n = 5 /\ \E content \in FirstParts(s) : rec = Request(s, r, 1, content)
             /\ client[s].asked = <<"request", s>>
          \/ n = 6 /\ \E content \in SecondParts(s) : rec = Request(s, r, 2, content)

\* How many records a client has sent.
Sent(at) ==
  IF at = "start" THEN {0}
  ELSE IF at \in {"ServerHello", "Certificate", "ServerHelloDone", "keyExchange"} THEN {1}
  ELSE IF at \in {"ChangeCipherSpec", "Finished", "ask"} THEN {4} ELSE {5, 6}

QueueAt(s) ==
  /\ \A j \in 1 .. Len(toServer[s]) :
       \/ Expected(s, Consumed(s) + j, toServer[s][j])
       \/ toServer[s][j] = Alert /\ j = Len(toServer[s]) /\ Gone(s)
  /\ ~Gone(s) => Consumed(s) + Len(toServer[s]) \in Sent(client[s].at)

QueueInv == \A s \in Sessions : Reading(s) => QueueAt(s)

\* What a client has read, hashed and asked.
Places == {"start", "ServerHello", "Certificate", "ServerHelloDone", "keyExchange",
           "ChangeCipherSpec", "Finished", "ask", "answer", "over", "gone"}
ClientAt(s) ==
  LET c == client[s]
      r == Told(s)
      n == Len(wire[s]) IN
    /\ c.at \in Places /\ c.alarm = FALSE
    /\ c.asked \in {Blank, <<"request", s>>}
    /\ c.at \in Places \ {"answer", "over", "gone"} => c.asked = Blank
    /\ c.at \in {"answer", "over"} => c.asked = <<"request", s>>
    /\ c.at \in Places \ {"over", "gone"} => c.answer = Blank
    /\ c.at \in Places \ {"start", "ServerHello", "gone"} => n >= 1 /\ c.server_random = r
    /\ c.at \in {"start", "ServerHello"} => c.read = 0
    /\ c.at = "Certificate" => c.read = 1
    /\ c.at = "ServerHelloDone" => c.read = 2 /\ n >= 2
    /\ c.at \in {"keyExchange", "ChangeCipherSpec"} => c.read = 3 /\ n >= 3
    /\ c.at = "Finished" => c.read = 4 /\ n >= 4
    /\ c.at \in {"ask", "answer"} => c.read = 5 /\ n >= 5
    /\ c.at \in Places \ {"ask", "answer", "over", "gone"} => c.server_seq = 0
    /\ c.at \in {"ask", "answer"} => c.server_seq = 1
    /\ c.at = "ServerHello" => c.hash = Hash1(s)
    /\ c.at = "Certificate" => c.hash = Hash2(s, r)
    /\ c.at = "ServerHelloDone" => c.hash = Hash3(s, r)
    /\ c.at = "keyExchange" => c.hash = Hash4(s, r)
    /\ c.at \in {"ChangeCipherSpec", "Finished"} => c.hash = Hash6(s, r)

ClientInv == \A s \in Sessions : ClientAt(s)

ServerInv == WireContent /\ WireLength /\ SessInv /\ WipedInv /\ mismatch = FALSE

Inv == TypeOK /\ Shapes /\ ServerInv /\ QueueInv /\ ClientInv

(***************************************************************************)
(* Sequences and records.                                                  *)
(***************************************************************************)

\* A sequence grows by one at its end.
LEMMA Appended ==
  ASSUME NEW q, IsSequence(q), NEW e
  PROVE  /\ IsSequence(Append(q, e)) /\ Len(q) \in Nat /\ Len(Append(q, e)) = Len(q) + 1
         /\ Append(q, e)[Len(q) + 1] = e
         /\ \A i \in 1 .. Len(q) : Append(q, e)[i] = q[i]
  <1> DEFINE S == {q[i] : i \in DOMAIN q}
             t == Append(q, e)
             T == {t[i] : i \in DOMAIN t}
  <1>1. q \in Seq(S)
    BY DEF IsSequence
  <1> HIDE DEF S
  <1>2. q \in Seq(S \cup {e})
    BY <1>1
  <1>3. /\ t \in Seq(S \cup {e}) /\ Len(q) \in Nat /\ Len(t) = Len(q) + 1 /\ t[Len(q) + 1] = e
        /\ \A i \in 1 .. Len(q) : t[i] = q[i]
    BY <1>2
  <1> HIDE DEF t
  <1>4. t \in Seq(T)
    BY <1>3
  <1> QED BY <1>3, <1>4 DEF IsSequence, t

\* A sequence loses its first element.
LEMMA Tailed ==
  ASSUME NEW q, IsSequence(q), q # << >>
  PROVE  /\ IsSequence(Tail(q)) /\ Len(q) \in Nat \ {0} /\ Len(Tail(q)) = Len(q) - 1
         /\ \A i \in 1 .. Len(q) - 1 : Tail(q)[i] = q[i + 1]
         /\ Head(q) = q[1]
  <1> DEFINE S == {q[i] : i \in DOMAIN q}
             t == Tail(q)
             T == {t[i] : i \in DOMAIN t}
  <1>1. q \in Seq(S)
    BY DEF IsSequence
  <1> HIDE DEF S
  <1>2. /\ t \in Seq(S) /\ Len(q) \in Nat \ {0} /\ Len(t) = Len(q) - 1
        /\ \A i \in 1 .. Len(q) - 1 : t[i] = q[i + 1]
        /\ Head(q) = q[1]
    BY <1>1
  <1> HIDE DEF t
  <1>3. t \in Seq(T)
    BY <1>2
  <1> QED BY <1>2, <1>3 DEF IsSequence, t

\* The fields of a record and of a message.
LEMMA RecordFields ==
  ASSUME NEW ct, NEW key, NEW seq, NEW body
  PROVE  /\ Record(ct, key, seq, body).ct = ct /\ Record(ct, key, seq, body).key = key
         /\ Record(ct, key, seq, body).seq = seq /\ Record(ct, key, seq, body).body = body
  BY DEF Record

\* The fields of a message.
LEMMA MessageFields ==
  ASSUME NEW type, NEW content
  PROVE  Message(type, content).type = type /\ Message(type, content).content = content
  BY DEF Message

(***************************************************************************)
(* What a step of the server leaves alone.                                 *)
(***************************************************************************)

USE DEF FromRespond, FromRequest, FromSendFinished, FromSendCipher, FromFinished, FromCipher,
        FromDerive, FromKeys, FromDone, FromCertificate, FromServerHello, FromHello, Unserved

\* The server only ever adds records to what it has written.
WireExtends ==
  \A s \in Sessions :
    /\ Len(wire[s]) \in Nat /\ Len(wire'[s]) \in Nat /\ Len(wire[s]) <= Len(wire'[s])
    /\ \A i \in 1 .. Len(wire[s]) : wire'[s][i] = wire[s][i]

\* Writing a record.
LEMMA WireGrows ==
  ASSUME Shapes, cur \in Sessions, NEW ct, NEW body, Transmit(ct, body)
  PROVE  /\ WireExtends /\ DOMAIN wire' = Sessions
         /\ \A s \in Sessions : IsSequence(wire'[s]) /\ (s # cur => wire'[s] = wire[s])
         /\ Len(wire'[cur]) = Len(wire[cur]) + 1
         /\ wire'[cur][Len(wire[cur]) + 1] = Outgoing(ct, body)
  <1>1. DOMAIN wire = Sessions /\ \A s \in Sessions : IsSequence(wire[s])
    BY DEF Shapes
  <1>2. wire' = [wire EXCEPT ![cur] = Append(wire[cur], Outgoing(ct, body))]
    BY DEF Transmit
  <1>3. /\ DOMAIN wire' = Sessions /\ wire'[cur] = Append(wire[cur], Outgoing(ct, body))
        /\ \A s \in Sessions : s # cur => wire'[s] = wire[s]
    BY <1>1, <1>2
  <1>4. ASSUME NEW s \in Sessions
        PROVE  /\ Len(wire[s]) \in Nat /\ Len(wire'[s]) \in Nat /\ Len(wire[s]) <= Len(wire'[s])
               /\ \A i \in 1 .. Len(wire[s]) : wire'[s][i] = wire[s][i]
               /\ IsSequence(wire'[s])
    <2>1. IsSequence(wire[s])
      BY <1>1
    <2>2. Len(wire[s]) \in Nat
      BY <2>1, Appended
    <2>3. CASE s = cur
      <3>1. wire'[s] = Append(wire[s], Outgoing(ct, body))
        BY <1>3, <2>3
      <3> QED BY <2>1, <2>2, <3>1, Appended
    <2>4. CASE s # cur
      <3>1. wire'[s] = wire[s]
        BY <1>3, <2>4
      <3> QED BY <2>1, <2>2, <3>1
    <2> QED BY <2>3, <2>4
  <1>5. Len(wire'[cur]) = Len(wire[cur]) + 1 /\ wire'[cur][Len(wire[cur]) + 1] = Outgoing(ct, body)
    <2>1. IsSequence(wire[cur])
      BY <1>1
    <2> QED BY <1>3, <2>1, Appended
  <1> QED BY <1>3, <1>4, <1>5 DEF WireExtends

\* A wire that stays as it is extends itself.
LEMMA WireStays == ASSUME Shapes, wire' = wire PROVE WireExtends
  <1>1. \A s \in Sessions : IsSequence(wire[s])
    BY DEF Shapes
  <1>2. \A s \in Sessions : Len(wire[s]) \in Nat
    BY <1>1, Appended
  <1> QED BY <1>2 DEF WireExtends

\* What was told in a session stays told.
LEMMA ToldStays ==
  ASSUME WireExtends, NEW s \in Sessions, Len(wire[s]) >= 1
  PROVE  Told(s)' = Told(s)
  <1>1. 1 \in 1 .. Len(wire[s])
    BY DEF WireExtends
  <1> QED BY <1>1 DEF WireExtends, Told

\* A client that takes no step still has read what was written.
LEMMA ClientStays ==
  ASSUME WireExtends, NEW s \in Sessions, client'[s] = client[s], ClientAt(s)
  PROVE  ClientAt(s)'
  <1>1. Len(wire[s]) \in Nat /\ Len(wire'[s]) \in Nat /\ Len(wire[s]) <= Len(wire'[s])
    BY DEF WireExtends
  <1>2. Len(wire[s]) >= 1 => Told(s)' = Told(s)
    BY ToldStays
  <1> QED BY <1>1, <1>2 DEF ClientAt

\* What is under way from a client is still what was expected of it.
LEMMA ExpectedStays ==
  ASSUME WireExtends, NEW s \in Sessions, NEW n, NEW rec, Expected(s, n, rec),
         client'[s].asked \in {client[s].asked, <<"request", s>>}
  PROVE  Expected(s, n, rec)'
  <1>1. Len(wire[s]) \in Nat /\ Len(wire'[s]) \in Nat /\ Len(wire[s]) <= Len(wire'[s])
    BY DEF WireExtends
  <1>2. Len(wire[s]) >= 1 => Told(s)' = Told(s)
    BY ToldStays
  <1> QED BY <1>1, <1>2 DEF Expected

\* A step of the server that reads nothing keeps the invariants of the clients.
LEMMA ServerFrame ==
  ASSUME QueueInv, ClientInv, WireExtends, UNCHANGED <<toServer, client>>,
         \A s \in Sessions : Reading(s)' => Reading(s) /\ Consumed(s)' = Consumed(s)
  PROVE  QueueInv' /\ ClientInv'
  <1>1. ASSUME NEW s \in Sessions PROVE ClientAt(s)'
    BY ClientStays DEF ClientInv
  <1>2. ASSUME NEW s \in Sessions, Reading(s)' PROVE QueueAt(s)'
    <2>1. QueueAt(s) /\ Consumed(s)' = Consumed(s)
      BY <1>2 DEF QueueInv
    <2>2. ASSUME NEW j \in 1 .. Len(toServer[s])
          PROVE  \/ Expected(s, Consumed(s) + j, toServer[s][j])'
                 \/ (toServer[s][j] = Alert /\ j = Len(toServer[s]) /\ Gone(s))'
      <3>1. CASE Expected(s, Consumed(s) + j, toServer[s][j])
        <4>1. PICK n : n = Consumed(s) + j
          OBVIOUS
        <4>2. PICK rec : rec = toServer[s][j]
          OBVIOUS
        <4>3. Expected(s, n, rec)
          BY <3>1, <4>1, <4>2
        <4>4. Expected(s, n, rec)'
          BY <4>3, ExpectedStays
        <4> QED BY <2>1, <4>1, <4>2, <4>4
      <3>2. CASE toServer[s][j] = Alert /\ j = Len(toServer[s]) /\ Gone(s)
        BY <3>2 DEF Gone, Alert, Plain
      <3> QED BY <2>1, <3>1, <3>2 DEF QueueAt
    <2>3. (~Gone(s) => Consumed(s) + Len(toServer[s]) \in Sent(client[s].at))'
      BY <2>1 DEF QueueAt, Gone, Sent
    <2> QED BY <2>2, <2>3 DEF QueueAt
  <1> QED BY <1>1, <1>2 DEF QueueInv, ClientInv

\* The session served is a number up to the last.
LEMMA CurType == TypeOK => cur \in Nat /\ cur \in 0 .. Last
  <1>1. TypeOK => cur \in 0 .. Last
    BY DEF TypeOK
  <1> QED BY <1>1, TlsAssumption

\* How many records the server has read is a number.
LEMMA ConsumedType == \A s \in Sessions : Consumed(s) \in 0 .. 5 /\ s \in Nat
  <1>1. \A s \in Sessions : s \in Nat
    BY TlsAssumption DEF Sessions
  <1>2. \A s : Consumed(s) \in 0 .. 5
    BY DEF Consumed
  <1> QED BY <1>1, <1>2

\* What the server reads next is what it expects of the client, or an alert.
LEMMA NextRecord ==
  ASSUME Shapes, QueueInv, cur \in Sessions, Incoming, Reading(cur)
  PROVE  Expected(cur, Consumed(cur) + 1, FirstRecord) \/ FirstRecord = Alert
  <1>1. IsSequence(toServer[cur]) /\ toServer[cur] # << >>
    BY DEF Shapes, Incoming
  <1>2. FirstRecord = toServer[cur][1] /\ 1 \in 1 .. Len(toServer[cur])
    BY <1>1, Tailed DEF FirstRecord
  <1>3. QueueAt(cur)
    BY DEF QueueInv
  <1> QED BY <1>2, <1>3 DEF QueueAt

\* Reading a record moves the expectation on by one.
LEMMA ConsumeFrame ==
  ASSUME Shapes, QueueInv, ClientInv, cur \in Sessions, Incoming, Consume, Reading(cur),
         UNCHANGED <<cur, wire, client>>,
         Reading(cur)' => Consumed(cur)' = Consumed(cur) + 1
  PROVE  /\ QueueInv' /\ ClientInv' /\ DOMAIN toServer' = Sessions
         /\ \A s \in Sessions : IsSequence(toServer'[s])
  <1>1. DOMAIN toServer = Sessions /\ \A s \in Sessions : IsSequence(toServer[s])
    BY DEF Shapes
  <1>2. /\ toServer'[cur] = Tail(toServer[cur]) /\ DOMAIN toServer' = Sessions
        /\ \A s \in Sessions : s # cur => toServer'[s] = toServer[s]
    BY <1>1 DEF Consume
  <1>3. /\ IsSequence(toServer'[cur]) /\ Len(toServer[cur]) \in Nat \ {0}
        /\ Len(toServer'[cur]) = Len(toServer[cur]) - 1
        /\ \A i \in 1 .. Len(toServer[cur]) - 1 : toServer'[cur][i] = toServer[cur][i + 1]
    BY <1>1, <1>2, Tailed DEF Incoming
  <1>4. \A s \in Sessions : IsSequence(toServer'[s])
    BY <1>1, <1>2, <1>3
  <1>5. WireExtends
    BY WireStays
  <1>6. ClientInv'
    BY <1>5, ClientStays DEF ClientInv
  <1>7. ASSUME NEW s \in Sessions, Reading(s)' PROVE QueueAt(s)'
    <2>1. CASE s = cur
      <3>1. QueueAt(s) /\ Consumed(s) \in Nat /\ Consumed(s)' = Consumed(s) + 1
        BY <1>7, <2>1, ConsumedType DEF QueueInv
      <3>2. ASSUME NEW j \in 1 .. Len(toServer'[s])
            PROVE  \/ Expected(s, Consumed(s) + j, toServer[s][j])'
                   \/ (toServer[s][j] = Alert /\ j = Len(toServer[s]) /\ Gone(s))'
        <4>1. /\ j + 1 \in 1 .. Len(toServer[s]) /\ toServer'[s][j] = toServer[s][j + 1]
              /\ j + 1 = Len(toServer[s]) => j = Len(toServer'[s])
          BY <1>3, <2>1
        <4>2. PICK n : n = Consumed(s)' + j
          OBVIOUS
        <4>3. PICK rec : rec = toServer'[s][j]
          OBVIOUS
        <4>4. n = Consumed(s) + (j + 1)
          BY <3>1, <4>2
        <4>5. Expected(s, n, rec) \/ (rec = Alert /\ j + 1 = Len(toServer[s]) /\ Gone(s))
          BY <3>1, <4>1, <4>3, <4>4 DEF QueueAt
        <4>6. Expected(s, n, rec) => Expected(s, n, rec)'
          BY <1>5, ExpectedStays
        <4>7. CASE Expected(s, n, rec)'
          BY <4>2, <4>3, <4>7
        <4>8. CASE rec = Alert /\ j + 1 = Len(toServer[s]) /\ Gone(s)
          BY <4>1, <4>3, <4>8 DEF Gone, Alert, Plain
        <4> QED BY <4>5, <4>6, <4>7, <4>8
      <3>3. (~Gone(s) => Consumed(s) + Len(toServer[s]) \in Sent(client[s].at))'
        <4>0. Len(toServer[s]) \in Nat /\ Len(toServer'[s]) = Len(toServer[s]) - 1
          BY <1>3, <2>1
        <4>1. Consumed(s)' + Len(toServer'[s]) = Consumed(s) + Len(toServer[s])
          BY <3>1, <4>0
        <4>2. ~Gone(s) => Consumed(s) + Len(toServer[s]) \in Sent(client[s].at)
          BY <3>1 DEF QueueAt
        <4> QED BY <4>1, <4>2 DEF Gone, Sent
      <3> QED BY <3>2, <3>3 DEF QueueAt
    <2>2. CASE s # cur
      <3>1. s > cur
        BY <1>7, <2>2 DEF Reading
      <3>2. QueueAt(s) /\ Consumed(s) = 0 /\ Consumed(s)' = 0 /\ toServer'[s] = toServer[s]
        BY <1>2, <2>2, <3>1 DEF QueueInv, Reading, Consumed
      <3>3. ASSUME NEW j \in 1 .. Len(toServer[s])
            PROVE  \/ Expected(s, Consumed(s) + j, toServer[s][j])'
                   \/ (toServer[s][j] = Alert /\ j = Len(toServer[s]) /\ Gone(s))'
        <4>1. PICK n : n = Consumed(s) + j
          OBVIOUS
        <4>2. PICK rec : rec = toServer[s][j]
          OBVIOUS
        <4>3. Expected(s, n, rec) \/ (rec = Alert /\ j = Len(toServer[s]) /\ Gone(s))
          BY <3>2, <4>1, <4>2 DEF QueueAt
        <4>4. Expected(s, n, rec) => Expected(s, n, rec)'
          BY <1>5, ExpectedStays
        <4>5. CASE Expected(s, n, rec)'
          BY <3>2, <4>1, <4>2, <4>5
        <4>6. CASE rec = Alert /\ j = Len(toServer[s]) /\ Gone(s)
          BY <3>2, <4>2, <4>6 DEF Gone, Alert, Plain
        <4> QED BY <4>3, <4>4, <4>5, <4>6
      <3>4. (~Gone(s) => Consumed(s) + Len(toServer[s]) \in Sent(client[s].at))'
        BY <3>2 DEF QueueAt, Gone, Sent
      <3> QED BY <3>2, <3>3, <3>4 DEF QueueAt
    <2> QED BY <2>1, <2>2
  <1> QED BY <1>2, <1>4, <1>6, <1>7 DEF QueueInv

(***************************************************************************)
(* The steps of the server.                                                *)
(***************************************************************************)

\* What was written stays as it was if nothing is written or heard.
LEMMA ContentStays ==
  ASSUME WireContent, UNCHANGED <<cur, wire, heard>>
  PROVE  WireContent'
  BY DEF WireContent, WireAt, Told

\* Only the session served has a new record.
LEMMA ContentGrows ==
  ASSUME WireContent, Shapes, cur \in Sessions, NEW ct, NEW body, Transmit(ct, body),
         UNCHANGED <<cur, heard>>, WireAt(cur)'
  PROVE  WireContent'
  <1>1. \A s \in Sessions : s # cur => wire'[s] = wire[s]
    BY WireGrows
  <1>2. \A s \in Sessions : s # cur => WireAt(s)'
    BY <1>1 DEF WireContent, WireAt, Told
  <1> QED BY <1>1, <1>2, ConsumedType DEF WireContent

\* The types of the session's fields.
SessType ==
  /\ sess.client_random \in {Blank} \cup {ClientRandom(s) : s \in Sessions}
  /\ sess.pms \in {Blank} \cup {PreMaster(s) : s \in Sessions}
  /\ sess.server_random \in {Blank} \cup ServerRandoms
  /\ sess.client_seq \in {0, 1, 2} /\ sess.server_seq \in {0, 1, 2}

\* They are part of TypeOK.
LEMMA SessTypes == TypeOK => SessType
  <1>1. 0 .. 2 = {0, 1, 2}
    OBVIOUS
  <1> QED BY <1>1 DEF TypeOK, SessType, ServerRandoms

\* What else is.
LEMMA TypeParts ==
  ASSUME SessType', pc' \in Labels, cur' \in 0 .. Last, heap' \subseteq Buffers,
         mismatch' \in BOOLEAN, closed' \in [Sessions -> BOOLEAN]
  PROVE  TypeOK'
  <1>1. 0 .. 2 = {0, 1, 2}
    OBVIOUS
  <1> QED BY <1>1 DEF TypeOK, SessType, ServerRandoms

\* The server's own part of the invariant.
Local == /\ TypeOK /\ DOMAIN sess = Fields /\ DOMAIN heard = Sessions
         /\ WireLength /\ SessInv /\ WipedInv /\ mismatch = FALSE

\* A step that neither reads nor writes.
LEMMA QuietStep ==
  ASSUME Inv, Local', UNCHANGED <<cur, heard, toServer, wire, client>>,
         \A s \in Sessions : Reading(s)' => Reading(s) /\ Consumed(s)' = Consumed(s)
  PROVE  Inv'
  <1>1. QueueInv' /\ ClientInv'
    BY WireStays, ServerFrame DEF Inv
  <1>2. WireContent'
    BY ContentStays DEF Inv, ServerInv
  <1>3. Shapes'
    BY DEF Inv, Shapes, Local
  <1> QED BY <1>1, <1>2, <1>3 DEF Inv, ServerInv, Local

\* A step that writes one record.
LEMMA WritingStep ==
  ASSUME Inv, Local', cur \in Sessions, UNCHANGED <<cur, heard, toServer, client>>,
         NEW ct, NEW body, Transmit(ct, body), WireAt(cur)',
         \A s \in Sessions : Reading(s)' => Reading(s) /\ Consumed(s)' = Consumed(s)
  PROVE  Inv'
  <1>1. WireExtends /\ DOMAIN wire' = Sessions /\ \A s \in Sessions : IsSequence(wire'[s])
    BY WireGrows DEF Inv
  <1>2. QueueInv' /\ ClientInv'
    BY <1>1, ServerFrame DEF Inv
  <1>3. WireContent'
    BY ContentGrows DEF Inv, ServerInv
  <1>4. Shapes'
    BY <1>1 DEF Inv, Shapes, Local
  <1> QED BY <1>2, <1>3, <1>4 DEF Inv, ServerInv, Local

\* A step that reads one record.
LEMMA ReadingStep ==
  ASSUME Inv, Local', cur \in Sessions, Incoming, Consume, Reading(cur),
         UNCHANGED <<cur, wire, client>>,
         \A s \in Sessions : s # cur => heard'[s] = heard[s],
         Len(wire[cur]) < 6,
         Reading(cur)' => Consumed(cur)' = Consumed(cur) + 1
  PROVE  Inv'
  <1>1. /\ QueueInv' /\ ClientInv' /\ DOMAIN toServer' = Sessions
        /\ \A s \in Sessions : IsSequence(toServer'[s])
    BY ConsumeFrame DEF Inv
  <1>2. WireContent'
    <2>1. ASSUME NEW s \in Sessions PROVE WireAt(s)'
      <3>1. CASE s = cur
        BY <3>1, WireStays DEF Inv, ServerInv, WireContent, WireAt, Told, WireExtends
      <3>2. CASE s # cur
        BY <3>2 DEF Inv, ServerInv, WireContent, WireAt, Told
      <3> QED BY <3>1, <3>2
    <2>2. \A s \in Sessions : s > cur => s # cur
      BY ConsumedType
    <2> QED BY <2>1, <2>2 DEF Inv, ServerInv, WireContent
  <1>3. Shapes'
    BY <1>1 DEF Inv, Shapes, Local
  <1> QED BY <1>1, <1>2, <1>3 DEF Inv, ServerInv, Local

\* accept() turns to the next client; nothing was written or heard there.
LEMMA AcceptStep == ASSUME Inv, Accept PROVE Inv'
  <1>1. /\ TypeOK /\ Shapes /\ WireContent /\ WireLength /\ SessInv /\ WipedInv /\ mismatch = FALSE
        /\ QueueInv /\ ClientInv
    BY DEF Inv, ServerInv
  <1>2. /\ pc = "accept" /\ pc' = "alloc" /\ cur' = cur + 1 /\ cur' \in Sessions
        /\ UNCHANGED <<sess, heap, heard, mismatch, closed, toServer, wire, client>>
    BY DEF Accept
  <1>3. cur \in Nat /\ cur' \in 0 .. Last
    BY <1>1, <1>2, CurType, TlsAssumption DEF Sessions
  <1>4. TypeOK'
    BY <1>1, <1>2, <1>3 DEF TypeOK, Labels
  <1>5. Shapes'
    BY <1>1, <1>2 DEF Shapes
  <1>6. WireContent' /\ WireLength'
    <2>1. cur' > cur /\ \A s \in Sessions : s > cur' => s > cur
      BY <1>2, <1>3, ConsumedType
    <2>2. Len(wire'[cur']) = 0 /\ heard'[cur'] = Blank
      BY <1>1, <1>2, <2>1 DEF WireContent
    <2>3. WireContent'
      BY <1>1, <1>2, <2>1 DEF WireContent, WireAt, Told
    <2> QED BY <1>2, <2>2, <2>3 DEF WireLength
  <1>7. SessInv' /\ WipedInv'
    BY <1>1, <1>2 DEF SessInv, WipedInv, Wiped
  <1>8. QueueInv' /\ ClientInv'
    <2>1. \A s \in Sessions : Reading(s)' => Reading(s) /\ Consumed(s)' = Consumed(s)
      BY <1>2, <1>3, ConsumedType DEF Reading, Consumed
    <2> QED BY <1>1, <1>2, <2>1, WireStays, ServerFrame
  <1> QED BY <1>1, <1>2, <1>4, <1>5, <1>6, <1>7, <1>8 DEF Inv, ServerInv

\* What tls_session_init leaves in the session.
FreshSessions == {[ZeroSession EXCEPT !.key = key] : key \in {Blank, PrivateKey}}

\* Its fields.
LEMMA FreshFields ==
  ASSUME NEW x \in FreshSessions
  PROVE  /\ DOMAIN x = Fields /\ x.client_random = Blank /\ x.server_random = Blank
         /\ x.pms = Blank /\ x.master = Blank /\ x.client_key = Blank /\ x.server_key = Blank
         /\ x.client_seq = 0 /\ x.server_seq = 0 /\ x.server_encrypted = FALSE /\ x.hash = << >>
         /\ x.key \in {Blank, PrivateKey}
  BY DEF FreshSessions, ZeroSession, Fields

\* malloc, tls_session_init, a read that fails, the wiping and the closing.
LEMMA PlainSteps ==
  ASSUME Inv, Alloc \/ SessionInit \/ ReadFails \/ SessionCleanup \/ FreeAndClose
  PROVE  Inv'
  <1>1. /\ TypeOK /\ DOMAIN sess = Fields /\ DOMAIN heard = Sessions
        /\ WireLength /\ SessInv /\ WipedInv /\ mismatch = FALSE
    BY DEF Inv, ServerInv, Shapes
  <1>2. UNCHANGED <<cur, heard, mismatch, toServer, wire, client>>
    BY DEF Alloc, SessionInit, ReadFails, SessionCleanup, FreeAndClose
  <1>3. pc # "accept" /\ cur \in Sessions /\ cur \in Nat
    BY <1>1, CurType DEF Alloc, SessionInit, ReadFails, SessionCleanup, FreeAndClose, WireLength
  <1>4. \/ pc = "alloc" /\ pc' \in {"init", "free"} /\ sess' = sess
        \/ pc = "init" /\ pc' \in {"hello", "free"} /\ sess' \in FreshSessions
        \/ pc \in FromHello /\ pc' = "cleanup" /\ sess' = sess
        \/ pc = "cleanup" /\ pc' = "free"
             /\ sess' = [sess EXCEPT !.pms = Blank, !.master = Blank,
                                     !.client_key = Blank, !.server_key = Blank]
        \/ pc = "free" /\ pc' = "accept" /\ sess' = sess /\ heap' = {}
    BY DEF Alloc, SessionInit, ReadFails, SessionCleanup, FreeAndClose, FreshSessions
  <1>5. DOMAIN sess' = Fields
    BY <1>1, <1>4, FreshFields DEF Fields
  <1>6. WireLength'
    BY <1>1, <1>2, <1>3, <1>4 DEF WireLength
  <1>7. SessInv'
    BY <1>4, FreshFields DEF SessInv
  <1>8. \/ pc # "cleanup" /\ sess' = sess
        \/ pc = "init" /\ sess' \in FreshSessions
        \/ /\ pc = "cleanup"
           /\ sess'.pms = Blank /\ sess'.master = Blank
           /\ sess'.client_key = Blank /\ sess'.server_key = Blank
           /\ sess'.client_random = sess.client_random /\ sess'.server_random = sess.server_random
           /\ sess'.client_seq = sess.client_seq /\ sess'.server_seq = sess.server_seq
    <2>1. CASE pc = "cleanup"
      <3>1. sess' = [sess EXCEPT !.pms = Blank, !.master = Blank,
                                 !.client_key = Blank, !.server_key = Blank]
        BY <1>4, <2>1
      <3> QED BY <1>1, <2>1, <3>1 DEF Fields
    <2> QED BY <1>4, <2>1
  <1>9. WipedInv'
    <2>1. pc' \in {"free", "accept"} \cup Unserved => Wiped'
      <3>1. CASE sess' = sess
        <4>1. pc' \in {"free", "accept"} \cup Unserved => pc \in {"accept", "free"} \cup Unserved \/ pc = "cleanup"
          BY <1>4
        <4>2. pc # "cleanup" => (pc' \in {"free", "accept"} \cup Unserved => Wiped)
          BY <1>1, <4>1 DEF WipedInv
        <4>3. pc # "cleanup" \/ Wiped'
          BY <1>4, <1>8, <3>1 DEF Wiped
        <4> QED BY <3>1, <4>1, <4>2, <4>3 DEF Wiped
      <3>2. CASE sess' \in FreshSessions
        BY <3>2, FreshFields DEF Wiped
      <3> QED BY <1>8, <3>1, <3>2 DEF Wiped
    <2>2. pc' = "accept" => heap' = {}
      BY <1>4
    <2> QED BY <2>1, <2>2 DEF WipedInv
  <1>10. TypeOK'
    <2>1. heap' \subseteq Buffers
      BY <1>1 DEF Alloc, SessionInit, ReadFails, SessionCleanup, FreeAndClose, TypeOK
    <2>2. closed' \in [Sessions -> BOOLEAN]
      BY <1>1 DEF Alloc, SessionInit, ReadFails, SessionCleanup, FreeAndClose, TypeOK
    <2>3. /\ sess'.client_random \in {Blank, sess.client_random} /\ sess'.pms \in {Blank, sess.pms}
          /\ sess'.server_random \in {Blank, sess.server_random}
          /\ sess'.client_seq \in {0, sess.client_seq} /\ sess'.server_seq \in {0, sess.server_seq}
      <3>1. CASE sess' \in FreshSessions BY <3>1, FreshFields
      <3> QED BY <1>8, <3>1
    <2>4. pc' \in Labels
      BY <1>4 DEF Labels
    <2>5. SessType'
      BY <1>1, <2>3, SessTypes DEF SessType
    <2>6. cur' \in 0 .. Last /\ mismatch' \in BOOLEAN
      BY <1>1, <1>2 DEF TypeOK
    <2> QED BY <2>1, <2>2, <2>4, <2>5, <2>6, TypeParts
  <1>11. \A s \in Sessions : Reading(s)' => Reading(s) /\ Consumed(s)' = Consumed(s)
    BY <1>2, <1>3, <1>4 DEF Reading, Consumed
  <1>12. Local'
    BY <1>1, <1>2, <1>5, <1>6, <1>7, <1>9, <1>10 DEF Local
  <1> QED BY <1>2, <1>11, <1>12, QuietStep

\* While the handshake is under way there is a session, well typed.
LEMMA InSession ==
  ASSUME Inv, pc \in FromHello
  PROVE  /\ cur \in Sessions /\ cur \in Nat /\ IsSequence(wire[cur]) /\ Len(wire[cur]) \in Nat
         /\ DOMAIN sess = Fields /\ DOMAIN heard = Sessions /\ DOMAIN wire = Sessions
         /\ Shapes /\ WireLength /\ SessInv /\ WireAt(cur) /\ SessType /\ TypeOK /\ mismatch = FALSE
         /\ Reading(cur)
  <1>1. TypeOK /\ Shapes /\ WireLength /\ SessInv /\ WireContent /\ mismatch = FALSE
    BY DEF Inv, ServerInv
  <1>2. cur \in Sessions
    BY <1>1 DEF WireLength
  <1>3. IsSequence(wire[cur]) /\ DOMAIN sess = Fields /\ DOMAIN heard = Sessions /\ DOMAIN wire = Sessions
    BY <1>1, <1>2 DEF Shapes
  <1>4. Len(wire[cur]) \in Nat
    BY <1>3, Appended
  <1>5. Reading(cur)
    BY DEF Reading
  <1> QED BY <1>1, <1>2, <1>3, <1>4, <1>5, CurType, SessTypes DEF WireContent

\* Before ChangeCipherSpec records go out in the clear.
LEMMA InTheClear ==
  ASSUME Inv, pc \in FromHello \ FromSendFinished, NEW ct, NEW body
  PROVE  Outgoing(ct, body) = Record(ct, Blank, 0, body) /\ SeqAfterWrite = 0
  BY InSession DEF SessInv, Outgoing, SeqAfterWrite

\* The fields of the session after a step that changes the hash and server_seq.
LEMMA HashAndSeq ==
  ASSUME DOMAIN sess = Fields, NEW h, NEW n, sess' = [sess EXCEPT !.hash = h, !.server_seq = n]
  PROVE  /\ DOMAIN sess' = Fields /\ sess'.hash = h /\ sess'.server_seq = n
         /\ sess'.client_random = sess.client_random /\ sess'.server_random = sess.server_random
         /\ sess'.pms = sess.pms /\ sess'.master = sess.master
         /\ sess'.client_key = sess.client_key /\ sess'.server_key = sess.server_key
         /\ sess'.client_seq = sess.client_seq
         /\ sess'.client_encrypted = sess.client_encrypted
         /\ sess'.server_encrypted = sess.server_encrypted
  BY DEF Fields

\* A handshake that is given up leaves nothing to be said but the types.
LEMMA GivenUp ==
  ASSUME Inv, pc \in FromHello, pc' = "cleanup", SessType', DOMAIN sess' = Fields, DOMAIN heard' = Sessions,
         cur' = cur, heap' = heap, closed' = closed, mismatch' = FALSE
  PROVE  Local'
  <1>1. cur \in Sessions /\ TypeOK
    BY InSession
  <1>2. TypeOK'
    <2>1. /\ heap' \subseteq Buffers /\ cur' \in 0 .. Last /\ mismatch' \in BOOLEAN
          /\ closed' \in [Sessions -> BOOLEAN]
      BY <1>1 DEF TypeOK
    <2>2. pc' \in Labels
      BY DEF Labels
    <2> QED BY <2>1, <2>2, TypeParts
  <1>3. WireLength' /\ SessInv' /\ WipedInv'
    BY <1>1 DEF WireLength, SessInv, WipedInv
  <1> QED BY <1>2, <1>3 DEF Local

\* What is left to show when the handshake goes on.
LEMMA GoesOn ==
  ASSUME Inv, pc \in FromHello, pc' \in FromHello \ {"hello"}, SessType', DOMAIN sess' = Fields,
         DOMAIN heard' = Sessions, cur' = cur, heap' = heap, closed' = closed, mismatch' = FALSE,
         WireLength', SessInv'
  PROVE  Local'
  <1>1. TypeOK
    BY InSession
  <1>2. TypeOK'
    <2>1. /\ heap' \subseteq Buffers /\ cur' \in 0 .. Last /\ mismatch' \in BOOLEAN
          /\ closed' \in [Sessions -> BOOLEAN]
      BY <1>1 DEF TypeOK
    <2>2. pc' \in Labels
      BY DEF Labels
    <2> QED BY <2>1, <2>2, TypeParts
  <1>3. WipedInv'
    BY DEF WipedInv
  <1> QED BY <1>2, <1>3 DEF Local

\* Step 2: ServerHello tells the client the server_random that the session keeps.
LEMMA SendServerHelloStep == ASSUME Inv, SendServerHello PROVE Inv'
  <1>1. PICK t \in Seconds :
          LET random == <<"server random", t>> IN
            /\ Send("serverHello", "ServerHello", random, "certificate")
            /\ sess' = [sess EXCEPT !.server_random = random,
                                    !.hash = Append(@, Message("ServerHello", random)),
                                    !.server_seq = SeqAfterWrite]
    BY DEF SendServerHello
  <1>2. PICK random \in ServerRandoms : random = <<"server random", t>>
    BY DEF ServerRandoms
  <1>3. /\ pc = "serverHello"
        /\ UNCHANGED <<cur, heap, heard, mismatch, closed, toServer, client>>
        /\ \/ pc' = "cleanup" /\ wire' = wire
           \/ pc' = "certificate" /\ Transmit("handshake", ServerHello(random))
    BY <1>1, <1>2 DEF Send, ServerHello
  <1>4. /\ cur \in Sessions /\ Len(wire[cur]) = 0 /\ DOMAIN sess = Fields /\ DOMAIN heard = Sessions
        /\ Shapes /\ WireLength /\ SessInv /\ SessType /\ mismatch = FALSE
    BY <1>3, InSession DEF WireLength
  <1>5. SeqAfterWrite = 0 /\ sess.hash = Hash1(cur) /\ sess.server_encrypted = FALSE
        /\ sess.client_seq = 0 /\ sess.client_random = ClientRandom(cur)
    BY <1>3, <1>4, InTheClear DEF SessInv
  <1>6. sess' = [sess EXCEPT !.server_random = random, !.hash = Hash2(cur, random), !.server_seq = 0]
    BY <1>1, <1>2, <1>5 DEF Hash2, ServerHello
  <1>7. /\ DOMAIN sess' = Fields /\ sess'.server_random = random /\ sess'.hash = Hash2(cur, random)
        /\ sess'.server_seq = 0 /\ sess'.client_random = sess.client_random /\ sess'.pms = sess.pms
        /\ sess'.client_seq = 0 /\ sess'.server_encrypted = FALSE
    BY <1>4, <1>5, <1>6 DEF Fields
  <1>8. SessType'
    BY <1>4, <1>7 DEF SessType
  <1>9. \A s \in Sessions : Reading(s)' => Reading(s) /\ Consumed(s)' = Consumed(s)
    BY <1>3 DEF Reading, Consumed
  <1>10. CASE pc' = "cleanup" /\ wire' = wire
    <2>1. Local'
      BY <1>3, <1>4, <1>7, <1>8, <1>10, GivenUp
    <2> QED BY <1>3, <1>9, <1>10, <2>1, QuietStep
  <1>11. CASE pc' = "certificate" /\ Transmit("handshake", ServerHello(random))
    <2>1. Len(wire'[cur]) = 1 /\ wire'[cur][1] = Record("handshake", Blank, 0, ServerHello(random))
      BY <1>3, <1>4, <1>11, WireGrows, InTheClear
    <2>2. Told(cur)' = random
      BY <1>3, <2>1, RecordFields, MessageFields DEF Told, ServerHello
    <2>3. WireAt(cur)'
      BY <1>3, <2>1, <2>2 DEF WireAt
    <2>4. WireLength'
      BY <1>3, <1>4, <1>11, <2>1 DEF WireLength
    <2>5. SessInv'
      BY <1>3, <1>5, <1>7, <1>11, <2>2 DEF SessInv
    <2>6. Local'
      BY <1>3, <1>4, <1>7, <1>8, <1>11, <2>4, <2>5, GoesOn
    <2> QED BY <1>3, <1>4, <1>9, <1>11, <2>3, <2>6, WritingStep
  <1> QED BY <1>3, <1>10, <1>11


\* One more record of the right kind.
LEMMA WireAtGrows ==
  ASSUME WireExtends, cur \in Sessions, WireAt(cur), UNCHANGED <<cur, heard>>,
         NEW n \in 1 .. 5, Len(wire[cur]) = n, Len(wire'[cur]) = n + 1,
         NEW r, r = Told(cur), NEW rec, wire'[cur][n + 1] = rec,
         n = 1 => rec = Record("handshake", Blank, 0, Certificate),
         n = 2 => rec = Record("handshake", Blank, 0, HelloDone),
         n = 3 => rec = Ccs,
         n = 4 => rec = Record("handshake", ServerKey(Secret(cur, r)), 0, ServerFinished(cur, r)),
         n = 5 => rec = Response(cur, r, heard[cur]) /\ heard[cur] \in Requests(cur)
  PROVE  Told(cur)' = r /\ WireAt(cur)'
  <1>1. \A i \in 1 .. n : wire'[cur][i] = wire[cur][i]
    BY DEF WireExtends
  <1>2. Told(cur)' = r
    BY <1>1 DEF Told
  <1> DEFINE w == wire'[cur]
  <1>3. /\ w[1] = Record("handshake", Blank, 0, ServerHello(r)) /\ r \in ServerRandoms
        /\ n + 1 >= 2 => w[2] = Record("handshake", Blank, 0, Certificate)
        /\ n + 1 >= 3 => w[3] = Record("handshake", Blank, 0, HelloDone)
        /\ n + 1 >= 4 => w[4] = Ccs
    BY <1>1 DEF WireAt
  <1>4. /\ n + 1 >= 5 => w[5] = Record("handshake", ServerKey(Secret(cur, r)), 0, ServerFinished(cur, r))
        /\ n + 1 >= 6 => w[6] = Response(cur, r, heard[cur]) /\ heard[cur] \in Requests(cur)
    BY <1>1 DEF WireAt
  <1>5. w = wire'[cur'] /\ Len(w) = n + 1 /\ n + 1 <= 6
    OBVIOUS
  <1> HIDE DEF w
  <1> QED BY <1>2, <1>3, <1>4, <1>5 DEF WireAt

\* Step 3: Certificate.
LEMMA SendCertificateStep == ASSUME Inv, SendCertificate PROVE Inv'
  <1> DEFINE Hashed == sess' = [sess EXCEPT !.hash = Append(@, Certificate), !.server_seq = SeqAfterWrite]
  <1>1. /\ pc = "certificate"
        /\ UNCHANGED <<cur, heap, heard, mismatch, closed, toServer, client>>
        /\ \/ pc' = "cleanup" /\ wire' = wire /\ (sess' = sess \/ Hashed)
           \/ pc' = "helloDone" /\ Transmit("handshake", Certificate) /\ Hashed
    BY DEF SendCertificate, Send, Certificate
  <1>2. /\ cur \in Sessions /\ Len(wire[cur]) = 1 /\ DOMAIN sess = Fields /\ DOMAIN heard = Sessions
        /\ Shapes /\ WireLength /\ SessInv /\ SessType /\ mismatch = FALSE /\ WireAt(cur)
    BY <1>1, InSession DEF WireLength
  <1>3. PICK r : r = Told(cur)
    OBVIOUS
  <1>4. SeqAfterWrite = 0 /\ sess.hash = Hash2(cur, r) /\ sess.server_encrypted = FALSE
        /\ sess.client_seq = 0 /\ sess.client_random = ClientRandom(cur) /\ sess.server_random = r
    BY <1>1, <1>2, <1>3, InTheClear DEF SessInv
  <1>5. Hashed => sess' = [sess EXCEPT !.hash = Hash3(cur, r), !.server_seq = 0]
    BY <1>4 DEF Hash3
  <1>6. ASSUME Hashed
        PROVE  /\ DOMAIN sess' = Fields /\ sess'.hash = Hash3(cur, r) /\ sess'.server_seq = 0
               /\ sess'.client_random = sess.client_random /\ sess'.server_random = sess.server_random
               /\ sess'.pms = sess.pms /\ sess'.client_seq = 0 /\ sess'.server_encrypted = FALSE
    BY <1>2, <1>4, <1>5, <1>6, HashAndSeq
  <1>7. DOMAIN sess' = Fields /\ SessType'
    BY <1>1, <1>2, <1>6 DEF SessType
  <1>8. \A s \in Sessions : Reading(s)' => Reading(s) /\ Consumed(s)' = Consumed(s)
    BY <1>1 DEF Reading, Consumed
  <1>9. CASE pc' = "cleanup" /\ wire' = wire
    <2>1. Local'
      BY <1>1, <1>2, <1>7, <1>9, GivenUp
    <2> QED BY <1>1, <1>8, <1>9, <2>1, QuietStep
  <1>10. CASE pc' = "helloDone" /\ Transmit("handshake", Certificate) /\ Hashed
    <2>1. /\ WireExtends /\ Len(wire'[cur]) = 1 + 1
          /\ wire'[cur][1 + 1] = Record("handshake", Blank, 0, Certificate)
      BY <1>1, <1>2, <1>10, WireGrows, InTheClear
    <2>2. Told(cur)' = r /\ WireAt(cur)'
      BY <1>1, <1>2, <1>3, <2>1, WireAtGrows
    <2>4. WireLength'
      BY <1>1, <1>2, <1>10, <2>1 DEF WireLength
    <2>5. SessInv'
      BY <1>1, <1>4, <1>6, <1>10, <2>2 DEF SessInv
    <2>6. Local'
      BY <1>1, <1>2, <1>6, <1>7, <1>10, <2>4, <2>5, GoesOn
    <2> QED BY <1>1, <1>2, <1>8, <1>10, <2>2, <2>6, WritingStep
  <1> QED BY <1>1, <1>9, <1>10

\* Step 4: ServerHelloDone.
LEMMA SendServerHelloDoneStep == ASSUME Inv, SendServerHelloDone PROVE Inv'
  <1>1. /\ pc = "helloDone"
        /\ UNCHANGED <<cur, heap, heard, mismatch, closed, toServer, client>>
        /\ \/ pc' = "cleanup" /\ wire' = wire
           \/ pc' = "keyExchange" /\ Transmit("handshake", HelloDone)
        /\ sess' = [sess EXCEPT !.hash = Append(@, HelloDone), !.server_seq = SeqAfterWrite]
    BY DEF SendServerHelloDone, Send, HelloDone
  <1>2. /\ cur \in Sessions /\ Len(wire[cur]) = 2 /\ DOMAIN sess = Fields /\ DOMAIN heard = Sessions
        /\ Shapes /\ WireLength /\ SessInv /\ SessType /\ mismatch = FALSE /\ WireAt(cur)
    BY <1>1, InSession DEF WireLength
  <1>3. PICK r : r = Told(cur)
    OBVIOUS
  <1>4. SeqAfterWrite = 0 /\ sess.hash = Hash3(cur, r) /\ sess.server_encrypted = FALSE
        /\ sess.client_seq = 0 /\ sess.client_random = ClientRandom(cur) /\ sess.server_random = r
    BY <1>1, <1>2, <1>3, InTheClear DEF SessInv
  <1>5. sess' = [sess EXCEPT !.hash = Hash4(cur, r), !.server_seq = 0]
    BY <1>1, <1>4 DEF Hash4
  <1>6. /\ DOMAIN sess' = Fields /\ sess'.hash = Hash4(cur, r) /\ sess'.server_seq = 0
        /\ sess'.client_random = sess.client_random /\ sess'.server_random = sess.server_random
        /\ sess'.pms = sess.pms /\ sess'.client_seq = 0 /\ sess'.server_encrypted = FALSE
    BY <1>2, <1>4, <1>5, HashAndSeq
  <1>7. SessType'
    BY <1>2, <1>6 DEF SessType
  <1>8. \A s \in Sessions : Reading(s)' => Reading(s) /\ Consumed(s)' = Consumed(s)
    BY <1>1 DEF Reading, Consumed
  <1>9. CASE pc' = "cleanup" /\ wire' = wire
    <2>1. Local'
      BY <1>1, <1>2, <1>6, <1>7, <1>9, GivenUp
    <2> QED BY <1>1, <1>8, <1>9, <2>1, QuietStep
  <1>10. CASE pc' = "keyExchange" /\ Transmit("handshake", HelloDone)
    <2>1. /\ WireExtends /\ Len(wire'[cur]) = 2 + 1
          /\ wire'[cur][2 + 1] = Record("handshake", Blank, 0, HelloDone)
      BY <1>1, <1>2, <1>10, WireGrows, InTheClear
    <2>2. Told(cur)' = r /\ WireAt(cur)'
      BY <1>1, <1>2, <1>3, <2>1, WireAtGrows
    <2>4. WireLength'
      BY <1>1, <1>2, <1>10, <2>1 DEF WireLength
    <2>5. SessInv'
      BY <1>1, <1>4, <1>6, <1>10, <2>2 DEF SessInv
    <2>6. Local'
      BY <1>1, <1>2, <1>6, <1>7, <1>10, <2>4, <2>5, GoesOn
    <2> QED BY <1>1, <1>2, <1>8, <1>10, <2>2, <2>6, WritingStep
  <1> QED BY <1>1, <1>9, <1>10

\* Step 6: the keys of this client and no other.
LEMMA DeriveKeysStep == ASSUME Inv, DeriveKeys PROVE Inv'
  <1>1. /\ pc = "derive" /\ pc' = "changeCipher"
        /\ UNCHANGED <<cur, heap, heard, mismatch, closed, toServer, wire, client>>
        /\ sess' = [sess EXCEPT !.master = Master(sess.pms, sess.client_random, sess.server_random),
                 !.client_key = ClientKey(Master(sess.pms, sess.client_random, sess.server_random)),
                 !.server_key = ServerKey(Master(sess.pms, sess.client_random, sess.server_random)),
                 !.ivs = WriteIvs(Master(sess.pms, sess.client_random, sess.server_random))]
    BY DEF DeriveKeys
  <1>2. /\ cur \in Sessions /\ Len(wire[cur]) = 3 /\ DOMAIN sess = Fields /\ DOMAIN heard = Sessions
        /\ Shapes /\ WireLength /\ SessInv /\ SessType /\ mismatch = FALSE /\ WireAt(cur)
    BY <1>1, InSession DEF WireLength
  <1>3. PICK r : r = Told(cur)
    OBVIOUS
  <1>4. /\ sess.hash = Hash5(cur, r) /\ sess.server_encrypted = FALSE
        /\ sess.client_seq = 0 /\ sess.client_random = ClientRandom(cur) /\ sess.server_random = r
        /\ sess.pms = PreMaster(cur) /\ sess.server_seq = 0
    BY <1>1, <1>2, <1>3 DEF SessInv
  <1>5. sess' = [sess EXCEPT !.master = Secret(cur, r), !.client_key = ClientKey(Secret(cur, r)),
                             !.server_key = ServerKey(Secret(cur, r)), !.ivs = WriteIvs(Secret(cur, r))]
    BY <1>1, <1>4 DEF Secret
  <1>6. /\ DOMAIN sess' = Fields /\ sess'.hash = sess.hash /\ sess'.server_seq = sess.server_seq
        /\ sess'.client_random = sess.client_random /\ sess'.server_random = sess.server_random
        /\ sess'.pms = sess.pms /\ sess'.client_seq = sess.client_seq
        /\ sess'.server_encrypted = FALSE /\ sess'.master = Secret(cur, r)
        /\ sess'.client_key = ClientKey(Secret(cur, r)) /\ sess'.server_key = ServerKey(Secret(cur, r))
    BY <1>2, <1>4, <1>5 DEF Fields
  <1>7. SessType'
    BY <1>2, <1>6 DEF SessType
  <1>8. \A s \in Sessions : Reading(s)' => Reading(s) /\ Consumed(s)' = Consumed(s)
    BY <1>1 DEF Reading, Consumed
  <1>9. WireLength'
    BY <1>1, <1>2 DEF WireLength
  <1>10. Told(cur)' = r
    BY <1>1, <1>3 DEF Told
  <1>11. SessInv'
    BY <1>1, <1>4, <1>6, <1>10 DEF SessInv
  <1>12. Local'
    BY <1>1, <1>2, <1>6, <1>7, <1>9, <1>11, GoesOn
  <1> QED BY <1>1, <1>8, <1>12, QuietStep

\* Step 8, first half: from here on server_encrypted and sequence numbers from 0.
LEMMA SendChangeCipherStep == ASSUME Inv, SendChangeCipher PROVE Inv'
  <1>1. /\ pc = "sendChangeCipher"
        /\ UNCHANGED <<cur, heap, heard, mismatch, closed, toServer, client>>
        /\ \/ pc' = "cleanup" /\ wire' = wire /\ sess' = sess
           \/ /\ pc' = "sendFinished"
              /\ Transmit("change_cipher_spec", Message("ChangeCipherSpec", Blank))
              /\ sess' = [sess EXCEPT !.server_encrypted = TRUE, !.server_seq = 0]
    BY DEF SendChangeCipher
  <1>2. /\ cur \in Sessions /\ Len(wire[cur]) = 3 /\ DOMAIN sess = Fields /\ DOMAIN heard = Sessions
        /\ Shapes /\ WireLength /\ SessInv /\ SessType /\ mismatch = FALSE /\ WireAt(cur)
    BY <1>1, InSession DEF WireLength
  <1>3. PICK r : r = Told(cur)
    OBVIOUS
  <1>4. /\ sess.hash = Hash6(cur, r) /\ sess.client_seq = 1 /\ sess.client_random = ClientRandom(cur)
        /\ sess.server_random = r /\ sess.pms = PreMaster(cur) /\ sess.master = Secret(cur, r)
        /\ sess.client_key = ClientKey(Secret(cur, r)) /\ sess.server_key = ServerKey(Secret(cur, r))
    BY <1>1, <1>2, <1>3 DEF SessInv
  <1>5. \A s \in Sessions : Reading(s)' => Reading(s) /\ Consumed(s)' = Consumed(s)
    BY <1>1 DEF Reading, Consumed
  <1>6. CASE pc' = "cleanup" /\ wire' = wire /\ sess' = sess
    <2>1. SessType'
      BY <1>2, <1>6 DEF SessType
    <2>2. Local'
      BY <1>1, <1>2, <1>6, <2>1, GivenUp
    <2> QED BY <1>1, <1>5, <1>6, <2>2, QuietStep
  <1>7. CASE /\ pc' = "sendFinished"
             /\ Transmit("change_cipher_spec", Message("ChangeCipherSpec", Blank))
             /\ sess' = [sess EXCEPT !.server_encrypted = TRUE, !.server_seq = 0]
    <2>1. /\ DOMAIN sess' = Fields /\ sess'.hash = sess.hash /\ sess'.server_seq = 0
          /\ sess'.client_random = sess.client_random /\ sess'.server_random = sess.server_random
          /\ sess'.pms = sess.pms /\ sess'.client_seq = sess.client_seq
          /\ sess'.server_encrypted = TRUE /\ sess'.master = sess.master
          /\ sess'.client_key = sess.client_key /\ sess'.server_key = sess.server_key
      BY <1>2, <1>7 DEF Fields
    <2>2. SessType'
      BY <1>2, <2>1 DEF SessType
    <2>3. /\ WireExtends /\ Len(wire'[cur]) = 4 /\ wire'[cur][4] = Ccs
      <3>1. Outgoing("change_cipher_spec", Message("ChangeCipherSpec", Blank)) = Ccs
        BY <1>1, InTheClear DEF Ccs, Plain
      <3> QED BY <1>2, <1>7, <3>1, WireGrows
    <2>4. Told(cur)' = r /\ WireAt(cur)'
      BY <1>1, <1>2, <1>3, <2>3, WireAtGrows
    <2>6. WireLength'
      BY <1>1, <1>2, <1>7, <2>3 DEF WireLength
    <2>7. SessInv'
      BY <1>1, <1>4, <1>7, <2>1, <2>4 DEF SessInv
    <2>8. Local'
      BY <1>1, <1>2, <1>7, <2>1, <2>2, <2>6, <2>7, GoesOn
    <2> QED BY <1>1, <1>2, <1>5, <1>7, <2>4, <2>8, WritingStep
  <1> QED BY <1>1, <1>6, <1>7

\* Step 8, second half: the Finished the client of this session waits for.
LEMMA SendFinishedStep == ASSUME Inv, SendFinished PROVE Inv'
  <1> DEFINE fin == Message("Finished", VerifyData("server finished", sess.master, sess.hash))
  <1>1. /\ pc = "sendFinished"
        /\ UNCHANGED <<cur, heap, heard, mismatch, closed, toServer, client>>
        /\ \/ pc' = "cleanup" /\ wire' = wire /\ sess' = sess
           \/ /\ pc' = "request" /\ Transmit("handshake", fin)
              /\ sess' = [sess EXCEPT !.server_seq = SeqAfterWrite]
    BY DEF SendFinished
  <1>2. /\ cur \in Sessions /\ Len(wire[cur]) = 4 /\ DOMAIN sess = Fields /\ DOMAIN heard = Sessions
        /\ Shapes /\ WireLength /\ SessInv /\ SessType /\ mismatch = FALSE /\ WireAt(cur)
    BY <1>1, InSession DEF WireLength
  <1>3. PICK r : r = Told(cur)
    OBVIOUS
  <1>4. /\ sess.hash = Hash6(cur, r) /\ sess.client_seq = 1 /\ sess.client_random = ClientRandom(cur)
        /\ sess.server_random = r /\ sess.pms = PreMaster(cur) /\ sess.master = Secret(cur, r)
        /\ sess.client_key = ClientKey(Secret(cur, r)) /\ sess.server_key = ServerKey(Secret(cur, r))
        /\ sess.server_seq = 0 /\ sess.server_encrypted = TRUE
    BY <1>1, <1>2, <1>3 DEF SessInv
  <1>5. \A s \in Sessions : Reading(s)' => Reading(s) /\ Consumed(s)' = Consumed(s)
    BY <1>1 DEF Reading, Consumed
  <1>6. fin = ServerFinished(cur, r)
    BY <1>4 DEF ServerFinished
  <1> HIDE DEF fin
  <1>7. CASE pc' = "cleanup" /\ wire' = wire /\ sess' = sess
    <2>1. SessType'
      BY <1>2, <1>7 DEF SessType
    <2>2. Local'
      BY <1>1, <1>2, <1>7, <2>1, GivenUp
    <2> QED BY <1>1, <1>5, <1>7, <2>2, QuietStep
  <1>8. CASE /\ pc' = "request" /\ Transmit("handshake", fin)
             /\ sess' = [sess EXCEPT !.server_seq = SeqAfterWrite]
    <2>0. /\ SeqAfterWrite = 1
          /\ Outgoing("handshake", fin) = Record("handshake", ServerKey(Secret(cur, r)), 0, ServerFinished(cur, r))
      BY <1>4, <1>6 DEF SeqAfterWrite, Outgoing
    <2>1. /\ DOMAIN sess' = Fields /\ sess'.hash = sess.hash /\ sess'.server_seq = 1
          /\ sess'.client_random = sess.client_random /\ sess'.server_random = sess.server_random
          /\ sess'.pms = sess.pms /\ sess'.client_seq = sess.client_seq
          /\ sess'.server_encrypted = sess.server_encrypted /\ sess'.master = sess.master
          /\ sess'.client_key = sess.client_key /\ sess'.server_key = sess.server_key
      BY <1>2, <1>8, <2>0 DEF Fields
    <2>2. SessType'
      BY <1>2, <2>1 DEF SessType
    <2>3. /\ WireExtends /\ Len(wire'[cur]) = 5
          /\ wire'[cur][5] = Record("handshake", ServerKey(Secret(cur, r)), 0, ServerFinished(cur, r))
      BY <1>2, <1>8, <2>0, WireGrows
    <2>4. Told(cur)' = r /\ WireAt(cur)'
      BY <1>1, <1>2, <1>3, <2>3, WireAtGrows
    <2>6. WireLength'
      BY <1>1, <1>2, <1>8, <2>3 DEF WireLength
    <2>7. SessInv'
      BY <1>1, <1>4, <1>8, <2>1, <2>4 DEF SessInv
    <2>8. Local'
      BY <1>1, <1>2, <1>8, <2>1, <2>2, <2>6, <2>7, GoesOn
    <2> QED BY <1>1, <1>2, <1>5, <1>8, <2>4, <2>8, WritingStep
  <1> QED BY <1>1, <1>7, <1>8

\* The response answers the request this session heard, under its own key.
LEMMA RespondStep == ASSUME Inv, Respond PROVE Inv'
  <1> DEFINE data == Message("Data", <<"response", heard[cur]>>)
  <1>1. /\ pc = "respond" /\ pc' = "cleanup"
        /\ UNCHANGED <<cur, heap, heard, mismatch, closed, toServer, client>>
        /\ \/ wire' = wire /\ sess' = sess
           \/ /\ Transmit("application_data", data)
              /\ sess' = [sess EXCEPT !.server_seq = SeqAfterWrite]
    BY DEF Respond
  <1>2. /\ cur \in Sessions /\ Len(wire[cur]) = 5 /\ DOMAIN sess = Fields /\ DOMAIN heard = Sessions
        /\ Shapes /\ WireLength /\ SessInv /\ SessType /\ mismatch = FALSE /\ WireAt(cur)
        /\ heard[cur] \in Requests(cur)
    BY <1>1, InSession DEF WireLength
  <1>3. PICK r : r = Told(cur)
    OBVIOUS
  <1>4. /\ sess.server_key = ServerKey(Secret(cur, r)) /\ sess.server_seq = 1
        /\ sess.server_encrypted = TRUE
    BY <1>1, <1>2, <1>3 DEF SessInv
  <1>5. \A s \in Sessions : Reading(s)' => Reading(s) /\ Consumed(s)' = Consumed(s)
    BY <1>1 DEF Reading, Consumed
  <1>6. /\ SeqAfterWrite = 2
        /\ Outgoing("application_data", data) = Response(cur, r, heard[cur])
    BY <1>4 DEF SeqAfterWrite, Outgoing, Response
  <1> HIDE DEF data
  <1>7. DOMAIN sess' = Fields /\ SessType'
    <2>1. CASE sess' = sess
      BY <1>2, <2>1 DEF SessType
    <2>2. CASE sess' = [sess EXCEPT !.server_seq = SeqAfterWrite]
      <3>1. /\ DOMAIN sess' = Fields /\ sess'.server_seq = 2
            /\ sess'.client_random = sess.client_random /\ sess'.server_random = sess.server_random
            /\ sess'.pms = sess.pms /\ sess'.client_seq = sess.client_seq
        BY <1>2, <1>6, <2>2 DEF Fields
      <3> QED BY <1>2, <3>1 DEF SessType
    <2> QED BY <1>1, <2>1, <2>2
  <1>8. Local'
    BY <1>1, <1>2, <1>7, GivenUp
  <1>9. CASE wire' = wire
    BY <1>1, <1>5, <1>8, <1>9, QuietStep
  <1>10. CASE Transmit("application_data", data)
    <2>1. /\ WireExtends /\ Len(wire'[cur]) = 6
          /\ wire'[cur][6] = Response(cur, r, heard[cur])
      BY <1>2, <1>6, <1>10, WireGrows
    <2>2. Told(cur)' = r /\ WireAt(cur)'
      BY <1>1, <1>2, <1>3, <2>1, WireAtGrows
    <2> QED BY <1>1, <1>2, <1>5, <1>8, <1>10, <2>2, WritingStep
  <1> QED BY <1>1, <1>9, <1>10


\* Step 1: the hash starts with the client's own ClientHello.
LEMMA ReadClientHelloStep == ASSUME Inv, ReadClientHello PROVE Inv'
  <1> DEFINE m == FirstRecord.body
  <1>1. /\ pc = "hello" /\ Incoming /\ Consume
        /\ UNCHANGED <<cur, heap, heard, mismatch, closed, wire, client>>
        /\ \/ m.type # "ClientHello" /\ pc' = "cleanup" /\ sess' = [sess EXCEPT !.hash = Append(@, m)]
           \/ /\ m.type = "ClientHello" /\ pc' = "serverHello"
              /\ sess' = [sess EXCEPT !.hash = Append(@, m), !.client_random = m.content]
    BY DEF ReadClientHello
  <1>2. /\ cur \in Sessions /\ Len(wire[cur]) = 0 /\ DOMAIN sess = Fields /\ DOMAIN heard = Sessions
        /\ Shapes /\ WireLength /\ SessInv /\ SessType /\ mismatch = FALSE /\ Reading(cur)
    BY <1>1, InSession DEF WireLength
  <1>3. sess.hash = << >> /\ sess.client_seq = 0 /\ sess.server_seq = 0 /\ sess.server_encrypted = FALSE
    BY <1>1, <1>2 DEF SessInv
  <1>4. Reading(cur)' => Consumed(cur)' = Consumed(cur) + 1
    BY <1>1, <1>2, ConsumedType DEF Reading, Consumed
  <1>5. FirstRecord = Record("handshake", Blank, 0, Hello(cur)) \/ FirstRecord = Alert
    <2>1. Consumed(cur) + 1 = 1
      BY <1>1, <1>2 DEF Consumed
    <2>2. Expected(cur, 1, FirstRecord) \/ FirstRecord = Alert
      BY <1>1, <1>2, <2>1, NextRecord DEF Inv
    <2> QED BY <2>2 DEF Expected
  <1>6. m = Hello(cur) \/ m.type = "Alert"
    BY <1>5, RecordFields, MessageFields DEF Alert, Plain
  <1>7. m = Hello(cur) => m.type = "ClientHello" /\ m.content = ClientRandom(cur)
    BY MessageFields DEF Hello
  <1> HIDE DEF m
  <1>8. CASE m.type # "ClientHello"
    <2>1. pc' = "cleanup" /\ sess' = [sess EXCEPT !.hash = Append(@, m)]
      BY <1>1, <1>8
    <2>2. /\ DOMAIN sess' = Fields /\ sess'.server_seq = sess.server_seq
          /\ sess'.client_random = sess.client_random /\ sess'.server_random = sess.server_random
          /\ sess'.pms = sess.pms /\ sess'.client_seq = sess.client_seq
      BY <1>2, <2>1 DEF Fields
    <2>3. SessType'
      BY <1>2, <2>2 DEF SessType
    <2>4. Local'
      BY <1>1, <1>2, <2>1, <2>2, <2>3, GivenUp
    <2> QED BY <1>1, <1>2, <1>4, <2>4, ReadingStep
  <1>9. CASE m.type = "ClientHello"
    <2>1. m = Hello(cur) /\ m.content = ClientRandom(cur)
      BY <1>6, <1>7, <1>9
    <2>2. pc' = "serverHello" /\ sess' = [sess EXCEPT !.hash = Hash1(cur), !.client_random = ClientRandom(cur)]
      BY <1>1, <1>3, <1>9, <2>1 DEF Hash1
    <2>3. /\ DOMAIN sess' = Fields /\ sess'.hash = Hash1(cur) /\ sess'.client_random = ClientRandom(cur)
          /\ sess'.server_seq = sess.server_seq /\ sess'.server_random = sess.server_random
          /\ sess'.pms = sess.pms /\ sess'.client_seq = sess.client_seq
          /\ sess'.server_encrypted = sess.server_encrypted
      BY <1>2, <2>2 DEF Fields
    <2>4. SessType'
      BY <1>2, <2>3 DEF SessType
    <2>5. WireLength'
      BY <1>1, <1>2, <2>2 DEF WireLength
    <2>6. SessInv'
      BY <1>1, <1>3, <2>2, <2>3 DEF SessInv
    <2>7. Local'
      BY <1>1, <1>2, <2>2, <2>3, <2>4, <2>5, <2>6, GoesOn
    <2> QED BY <1>1, <1>2, <1>4, <2>7, ReadingStep
  <1> QED BY <1>8, <1>9

\* Step 5: the secret is the one this client chose.
LEMMA ReadKeyExchangeStep == ASSUME Inv, ReadKeyExchange PROVE Inv'
  <1> DEFINE m == FirstRecord.body
  <1>1. /\ pc = "keyExchange" /\ Incoming /\ Consume
        /\ UNCHANGED <<cur, heap, heard, mismatch, closed, wire, client>>
        /\ \/ pc' = "cleanup" /\ sess' = sess
           \/ pc' = "cleanup" /\ sess' = [sess EXCEPT !.hash = Append(@, m)]
           \/ /\ m.type = "ClientKeyExchange" /\ pc' = "derive"
              /\ sess' = [sess EXCEPT !.hash = Append(@, m), !.pms = m.content]
    BY DEF ReadKeyExchange
  <1>2. /\ cur \in Sessions /\ Len(wire[cur]) = 3 /\ DOMAIN sess = Fields /\ DOMAIN heard = Sessions
        /\ Shapes /\ WireLength /\ SessInv /\ SessType /\ mismatch = FALSE /\ Reading(cur)
    BY <1>1, InSession DEF WireLength
  <1>3. PICK r : r = Told(cur)
    OBVIOUS
  <1>4. /\ sess.hash = Hash4(cur, r) /\ sess.client_seq = 0 /\ sess.server_seq = 0
        /\ sess.server_encrypted = FALSE /\ sess.client_random = ClientRandom(cur)
        /\ sess.server_random = r
    BY <1>1, <1>2, <1>3 DEF SessInv
  <1>5. Reading(cur)' => Consumed(cur)' = Consumed(cur) + 1
    BY <1>1, <1>2, ConsumedType DEF Reading, Consumed
  <1>6. FirstRecord = Record("handshake", Blank, 0, KeyMessage(cur)) \/ FirstRecord = Alert
    <2>1. Consumed(cur) + 1 = 2
      BY <1>1, <1>2, ConsumedType DEF Consumed
    <2>2. Expected(cur, 2, FirstRecord) \/ FirstRecord = Alert
      BY <1>1, <1>2, <2>1, NextRecord DEF Inv
    <2> QED BY <2>2 DEF Expected
  <1>7. m = KeyMessage(cur) \/ m.type = "Alert"
    BY <1>6, RecordFields, MessageFields DEF Alert, Plain
  <1>8. m = KeyMessage(cur) => m.content = PreMaster(cur)
    BY MessageFields DEF KeyMessage
  <1> HIDE DEF m
  <1>9. CASE pc' = "cleanup"
    <2>1. sess' = sess \/ sess' = [sess EXCEPT !.hash = Append(@, m)]
      BY <1>1, <1>9
    <2>2. /\ DOMAIN sess' = Fields /\ sess'.server_seq = sess.server_seq
          /\ sess'.client_random = sess.client_random /\ sess'.server_random = sess.server_random
          /\ sess'.pms = sess.pms /\ sess'.client_seq = sess.client_seq
      BY <1>2, <2>1 DEF Fields
    <2>3. SessType'
      BY <1>2, <2>2 DEF SessType
    <2>4. Local'
      BY <1>1, <1>2, <1>9, <2>2, <2>3, GivenUp
    <2> QED BY <1>1, <1>2, <1>5, <2>4, ReadingStep
  <1>10. CASE pc' = "derive"
    <2>1. m = KeyMessage(cur) /\ m.content = PreMaster(cur)
          /\ sess' = [sess EXCEPT !.hash = Append(@, m), !.pms = m.content]
      BY <1>1, <1>7, <1>8, <1>10
    <2>2. sess' = [sess EXCEPT !.hash = Hash5(cur, r), !.pms = PreMaster(cur)]
      BY <1>4, <2>1 DEF Hash5
    <2>3. /\ DOMAIN sess' = Fields /\ sess'.hash = Hash5(cur, r) /\ sess'.pms = PreMaster(cur)
          /\ sess'.server_seq = sess.server_seq /\ sess'.server_random = sess.server_random
          /\ sess'.client_random = sess.client_random /\ sess'.client_seq = sess.client_seq
          /\ sess'.server_encrypted = sess.server_encrypted
      BY <1>2, <2>2 DEF Fields
    <2>4. SessType'
      BY <1>2, <2>3 DEF SessType
    <2>5. WireLength'
      BY <1>1, <1>2, <1>10 DEF WireLength
    <2>6. Told(cur)' = r
      BY <1>1, <1>3 DEF Told
    <2>7. SessInv'
      BY <1>1, <1>4, <1>10, <2>3, <2>6 DEF SessInv
    <2>8. Local'
      BY <1>1, <1>2, <1>10, <2>3, <2>4, <2>5, <2>7, GoesOn
    <2> QED BY <1>1, <1>2, <1>5, <2>8, ReadingStep
  <1> QED BY <1>1, <1>9, <1>10

\* Step 7, first half: client_seq starts from 0.
LEMMA ReadChangeCipherStep == ASSUME Inv, ReadChangeCipher PROVE Inv'
  <1>1. /\ pc = "changeCipher" /\ Incoming /\ Consume
        /\ UNCHANGED <<cur, heap, heard, mismatch, closed, wire, client>>
        /\ \/ pc' = "cleanup" /\ sess' = sess
           \/ pc' = "finished" /\ sess' = [sess EXCEPT !.client_encrypted = TRUE, !.client_seq = 0]
    BY DEF ReadChangeCipher
  <1>2. /\ cur \in Sessions /\ Len(wire[cur]) = 3 /\ DOMAIN sess = Fields /\ DOMAIN heard = Sessions
        /\ Shapes /\ WireLength /\ SessInv /\ SessType /\ mismatch = FALSE /\ Reading(cur)
    BY <1>1, InSession DEF WireLength
  <1>3. Reading(cur)' => Consumed(cur)' = Consumed(cur) + 1
    BY <1>1, <1>2, ConsumedType DEF Reading, Consumed
  <1>4. CASE pc' = "cleanup" /\ sess' = sess
    <2>1. SessType'
      BY <1>2, <1>4 DEF SessType
    <2>2. Local'
      BY <1>1, <1>2, <1>4, <2>1, GivenUp
    <2> QED BY <1>1, <1>2, <1>3, <2>2, ReadingStep
  <1>5. CASE pc' = "finished" /\ sess' = [sess EXCEPT !.client_encrypted = TRUE, !.client_seq = 0]
    <2>1. /\ DOMAIN sess' = Fields /\ sess'.hash = sess.hash /\ sess'.pms = sess.pms
          /\ sess'.server_seq = sess.server_seq /\ sess'.server_random = sess.server_random
          /\ sess'.client_random = sess.client_random /\ sess'.client_seq = 0
          /\ sess'.server_encrypted = sess.server_encrypted /\ sess'.master = sess.master
          /\ sess'.client_key = sess.client_key /\ sess'.server_key = sess.server_key
      BY <1>2, <1>5 DEF Fields
    <2>2. SessType'
      BY <1>2, <2>1 DEF SessType
    <2>3. WireLength'
      BY <1>1, <1>2, <1>5 DEF WireLength
    <2>4. Told(cur)' = Told(cur)
      BY <1>1 DEF Told
    <2>5. SessInv'
      BY <1>1, <1>2, <1>5, <2>1, <2>4 DEF SessInv
    <2>6. Local'
      BY <1>1, <1>2, <1>5, <2>1, <2>2, <2>3, <2>5, GoesOn
    <2> QED BY <1>1, <1>2, <1>3, <2>6, ReadingStep
  <1> QED BY <1>1, <1>4, <1>5

\* Step 7, second half: MAC and verify_data are what the server expects, and the
\* hash goes on with the client's Finished.
LEMMA ReadFinishedStep == ASSUME Inv, ReadFinished PROVE Inv'
  <1> DEFINE rec == FirstRecord
             fin == rec.key = sess.client_key /\ rec.body.type = "Finished"
  <1>1. /\ pc = "finished" /\ Incoming /\ Consume
        /\ UNCHANGED <<cur, heap, heard, closed, wire, client>>
        /\ \/ rec.ct # "handshake" /\ pc' = "cleanup" /\ sess' = sess /\ mismatch' = mismatch
           \/ /\ rec.ct = "handshake"
              /\ mismatch' = (mismatch \/ ~MacMatches(rec)
                                       \/ (fin /\ rec.body.content # ExpectedVerifyData))
              /\ sess' = [sess EXCEPT !.client_seq = @ + 1,
                                      !.hash = IF fin THEN Append(@, rec.body) ELSE @]
              /\ pc' = IF fin THEN "sendChangeCipher" ELSE "cleanup"
    BY DEF ReadFinished
  <1>2. /\ cur \in Sessions /\ Len(wire[cur]) = 3 /\ DOMAIN sess = Fields /\ DOMAIN heard = Sessions
        /\ Shapes /\ WireLength /\ SessInv /\ SessType /\ mismatch = FALSE /\ Reading(cur)
    BY <1>1, InSession DEF WireLength
  <1>3. PICK r : r = Told(cur)
    OBVIOUS
  <1>4. /\ sess.hash = Hash5(cur, r) /\ sess.client_seq = 0 /\ sess.server_seq = 0
        /\ sess.server_encrypted = FALSE /\ sess.client_random = ClientRandom(cur)
        /\ sess.server_random = r /\ sess.pms = PreMaster(cur) /\ sess.master = Secret(cur, r)
        /\ sess.client_key = ClientKey(Secret(cur, r)) /\ sess.server_key = ServerKey(Secret(cur, r))
    BY <1>1, <1>2, <1>3 DEF SessInv
  <1>5. Reading(cur)' => Consumed(cur)' = Consumed(cur) + 1
    BY <1>1, <1>2, ConsumedType DEF Reading, Consumed
  <1>6. \/ FirstRecord = Record("handshake", ClientKey(Secret(cur, r)), 0, ClientFinished(cur, r))
        \/ FirstRecord = Alert
    <2>1. Consumed(cur) + 1 = 4
      BY <1>1, <1>2, ConsumedType DEF Consumed
    <2>2. Expected(cur, 4, FirstRecord) \/ FirstRecord = Alert
      BY <1>1, <1>2, <2>1, NextRecord DEF Inv
    <2> QED BY <1>3, <2>2 DEF Expected
  <1>7. CASE rec.ct # "handshake"
    <2>1. pc' = "cleanup" /\ sess' = sess /\ mismatch' = mismatch
      BY <1>1, <1>7
    <2>2. SessType'
      BY <1>2, <2>1 DEF SessType
    <2>3. Local'
      BY <1>1, <1>2, <2>1, <2>2, GivenUp
    <2> QED BY <1>1, <1>2, <1>5, <2>3, ReadingStep
  <1>8. CASE rec.ct = "handshake"
    <2>1. rec = Record("handshake", ClientKey(Secret(cur, r)), 0, ClientFinished(cur, r))
      BY <1>6, <1>8, RecordFields DEF Alert, Plain
    <2>2. /\ rec.key = ClientKey(Secret(cur, r)) /\ rec.seq = 0 /\ rec.body = ClientFinished(cur, r)
          /\ rec.body.type = "Finished"
          /\ rec.body.content = VerifyData("client finished", Secret(cur, r), Hash5(cur, r))
      <3>1. rec.key = ClientKey(Secret(cur, r)) /\ rec.seq = 0 /\ rec.body = ClientFinished(cur, r)
        BY <2>1, RecordFields
      <3>2. /\ ClientFinished(cur, r).type = "Finished"
            /\ ClientFinished(cur, r).content
                 = VerifyData("client finished", Secret(cur, r), Hash5(cur, r))
        BY MessageFields DEF ClientFinished
      <3> QED BY <3>1, <3>2
    <2>3. fin /\ MacMatches(rec) /\ rec.body.content = ExpectedVerifyData
      BY <1>4, <2>2 DEF MacMatches, ExpectedVerifyData
    <2>4. mismatch' = FALSE /\ pc' = "sendChangeCipher"
      BY <1>1, <1>2, <1>8, <2>3
    <2>5. sess' = [sess EXCEPT !.client_seq = 1, !.hash = Hash6(cur, r)]
      <3>1. sess' = [sess EXCEPT !.client_seq = sess.client_seq + 1,
                                 !.hash = IF fin THEN Append(sess.hash, rec.body) ELSE sess.hash]
        BY <1>1, <1>8
      <3>2. sess.client_seq + 1 = 1
        BY <1>4
      <3>3. Append(sess.hash, rec.body) = Hash6(cur, r)
        BY <1>4, <2>2 DEF Hash6
      <3> HIDE DEF fin, rec
      <3> QED BY <2>3, <3>1, <3>2, <3>3
    <2>6. /\ DOMAIN sess' = Fields /\ sess'.hash = Hash6(cur, r) /\ sess'.pms = sess.pms
          /\ sess'.server_seq = sess.server_seq /\ sess'.server_random = sess.server_random
          /\ sess'.client_random = sess.client_random /\ sess'.client_seq = 1
          /\ sess'.server_encrypted = sess.server_encrypted /\ sess'.master = sess.master
          /\ sess'.client_key = sess.client_key /\ sess'.server_key = sess.server_key
      BY <1>2, <2>5 DEF Fields
    <2>7. SessType'
      BY <1>2, <2>6 DEF SessType
    <2>8. WireLength'
      BY <1>1, <1>2, <2>4 DEF WireLength
    <2>9. Told(cur)' = r
      BY <1>1, <1>3 DEF Told
    <2>10. SessInv'
      BY <1>1, <1>4, <2>4, <2>6, <2>9 DEF SessInv
    <2>11. Local'
      BY <1>1, <1>2, <2>4, <2>6, <2>7, <2>8, <2>10, GoesOn
    <2> QED BY <1>1, <1>2, <1>5, <2>11, ReadingStep
  <1> QED BY <1>7, <1>8

\* tls_read: the request is this client's, under its key and in sequence.
LEMMA ReadRequestStep == ASSUME Inv, ReadRequest PROVE Inv'
  <1> DEFINE rec == FirstRecord
  <1>1. /\ pc = "request" /\ pc' \in {"respond", "cleanup"} /\ Incoming /\ Consume
        /\ UNCHANGED <<cur, heap, closed, wire, client>>
    BY DEF ReadRequest
  <1> DEFINE Refused == pc' = "cleanup" /\ sess' = sess /\ heard' = heard /\ mismatch' = mismatch
             Decrypted ==
               /\ rec.ct = "application_data"
               /\ mismatch' = (mismatch \/ ~MacMatches(rec))
               /\ sess' = [sess EXCEPT !.client_seq = @ + 1]
               /\ IF rec.key = sess.client_key /\ rec.body.content # Blank
                    THEN pc' = "respond" /\ heard' = [heard EXCEPT ![cur] = rec.body.content]
                    ELSE pc' = "cleanup" /\ heard' = heard
  <1>11. Refused \/ Decrypted
    BY DEF ReadRequest
  <1>2. /\ cur \in Sessions /\ Len(wire[cur]) = 5 /\ DOMAIN sess = Fields /\ DOMAIN heard = Sessions
        /\ Shapes /\ WireLength /\ SessInv /\ SessType /\ mismatch = FALSE /\ Reading(cur)
    BY <1>1, InSession DEF WireLength
  <1>3. PICK r : r = Told(cur)
    OBVIOUS
  <1>4. /\ sess.client_seq = 1 /\ sess.server_seq = 1
        /\ sess.server_encrypted = TRUE /\ sess.client_random = ClientRandom(cur)
        /\ sess.server_random = r /\ sess.pms = PreMaster(cur) /\ sess.master = Secret(cur, r)
        /\ sess.client_key = ClientKey(Secret(cur, r)) /\ sess.server_key = ServerKey(Secret(cur, r))
    BY <1>1, <1>2, <1>3 DEF SessInv
  <1>5. Reading(cur)' => Consumed(cur)' = Consumed(cur) + 1
    BY <1>1, <1>2, ConsumedType DEF Reading, Consumed
  <1>6. \/ \E content \in FirstParts(cur) : FirstRecord = Request(cur, r, 1, content)
        \/ FirstRecord = Alert
    <2>1. Consumed(cur) + 1 = 5
      BY <1>1, <1>2, ConsumedType DEF Consumed
    <2>2. Expected(cur, 5, FirstRecord) \/ FirstRecord = Alert
      BY <1>1, <1>2, <2>1, NextRecord DEF Inv
    <2> QED BY <1>3, <2>2 DEF Expected
  <1>7. CASE Refused
    <2>1. pc' = "cleanup" /\ sess' = sess /\ mismatch' = mismatch /\ heard' = heard
      BY <1>7
    <2>2. SessType'
      BY <1>2, <2>1 DEF SessType
    <2>3. Local'
      BY <1>1, <1>2, <2>1, <2>2, GivenUp
    <2> QED BY <1>1, <1>2, <1>5, <2>1, <2>3, ReadingStep
  <1>8. CASE Decrypted
    <2>1. PICK content \in FirstParts(cur) : rec = Request(cur, r, 1, content)
      BY <1>6, <1>8, RecordFields DEF Alert, Plain
    <2>2. rec.key = ClientKey(Secret(cur, r)) /\ rec.seq = 1 /\ rec.body.content = content
      BY <2>1, RecordFields, MessageFields DEF Request
    <2>3. MacMatches(rec)
      BY <1>4, <2>2 DEF MacMatches
    <2>4. /\ mismatch' = FALSE
          /\ \/ content = Blank /\ pc' = "cleanup" /\ heard' = heard
             \/ content # Blank /\ pc' = "respond" /\ heard' = [heard EXCEPT ![cur] = content]
      BY <1>2, <1>4, <1>8, <2>2, <2>3
    <2>6. sess' = [sess EXCEPT !.client_seq = 2]
      BY <1>4, <1>8
    <2>7. /\ DOMAIN sess' = Fields /\ sess'.pms = sess.pms
          /\ sess'.server_seq = sess.server_seq /\ sess'.server_random = sess.server_random
          /\ sess'.client_random = sess.client_random /\ sess'.client_seq = 2
          /\ sess'.server_encrypted = sess.server_encrypted /\ sess'.master = sess.master
          /\ sess'.client_key = sess.client_key /\ sess'.server_key = sess.server_key
      BY <1>2, <2>6 DEF Fields
    <2>8. SessType'
      BY <1>2, <2>7 DEF SessType
    <2>9. CASE content = Blank
      <3>1. Local'
        BY <1>1, <1>2, <2>4, <2>7, <2>8, <2>9, GivenUp
      <3> QED BY <1>1, <1>2, <1>5, <2>4, <2>9, <3>1, ReadingStep
    <2>10. CASE content # Blank
      <3>1. content \in Requests(cur)
        BY <2>10 DEF FirstParts, Requests
      <3>2. /\ DOMAIN heard' = Sessions /\ heard'[cur] \in Requests(cur)
            /\ \A s \in Sessions : s # cur => heard'[s] = heard[s]
        BY <1>2, <2>4, <2>10, <3>1
      <3>3. pc' = "respond"
        BY <2>4, <2>10
      <3>4. WireLength'
        BY <1>1, <1>2, <3>2, <3>3 DEF WireLength
      <3>5. Told(cur)' = r
        BY <1>1, <1>3 DEF Told
      <3>6. SessInv'
        BY <1>1, <1>4, <2>7, <3>3, <3>5 DEF SessInv
      <3>7. Local'
        BY <1>1, <1>2, <2>4, <2>7, <2>8, <3>2, <3>3, <3>4, <3>6, GoesOn
      <3> QED BY <1>1, <1>2, <1>5, <3>2, <3>7, ReadingStep
    <2> QED BY <2>9, <2>10
  <1> QED BY <1>7, <1>8, <1>11

\* Every step of the server.
LEMMA ServerStepInv == ASSUME Inv, ServerStep PROVE Inv'
  BY AcceptStep, PlainSteps, ReadClientHelloStep, SendServerHelloStep, SendCertificateStep,
     SendServerHelloDoneStep, ReadKeyExchangeStep, DeriveKeysStep, ReadChangeCipherStep,
     ReadFinishedStep, SendChangeCipherStep, SendFinishedStep, ReadRequestStep, RespondStep
  DEF ServerStep


(***************************************************************************)
(* The steps of the clients.                                               *)
(***************************************************************************)

\* A sequence grows by another.
LEMMA Concatenated ==
  ASSUME NEW p, NEW q, IsSequence(p), IsSequence(q)
  PROVE  /\ IsSequence(p \o q) /\ Len(p) \in Nat /\ Len(q) \in Nat /\ Len(p \o q) = Len(p) + Len(q)
         /\ \A i \in 1 .. Len(p) : (p \o q)[i] = p[i]
         /\ \A i \in 1 .. Len(q) : (p \o q)[Len(p) + i] = q[i]
  <1> DEFINE P == {p[i] : i \in DOMAIN p}
             Q == {q[i] : i \in DOMAIN q}
             t == p \o q
             T == {t[i] : i \in DOMAIN t}
  <1>1. p \in Seq(P) /\ q \in Seq(Q)
    BY DEF IsSequence
  <1> HIDE DEF P, Q
  <1>2. p \in Seq(P \cup Q) /\ q \in Seq(P \cup Q)
    BY <1>1
  <1>3. /\ t \in Seq(P \cup Q) /\ Len(p) \in Nat /\ Len(q) \in Nat /\ Len(t) = Len(p) + Len(q)
        /\ \A i \in 1 .. Len(p) : t[i] = p[i]
        /\ \A i \in 1 .. Len(q) : t[Len(p) + i] = q[i]
    BY <1>2
  <1> HIDE DEF t
  <1>4. t \in Seq(T)
    BY <1>3
  <1> QED BY <1>3, <1>4 DEF IsSequence, t

\* Nothing, and one element, at the end of a sequence.
LEMMA Ended ==
  ASSUME NEW q, IsSequence(q), NEW e
  PROVE  /\ q \o << >> = q /\ IsSequence(<< >>)
         /\ Append(q, e) = q \o <<e>> /\ IsSequence(<<e>>)
         /\ Len(q) = 0 => q = << >> /\ <<e>> = q \o <<e>>
  <1> DEFINE S == {q[i] : i \in DOMAIN q}
  <1>1. q \in Seq(S)
    BY DEF IsSequence
  <1> HIDE DEF S
  <1>2. q \in Seq(S \cup {e}) /\ <<e>> \in Seq(S \cup {e})
    BY <1>1
  <1>3. q \o << >> = q /\ Append(q, e) = q \o <<e>>
    BY <1>2
  <1>4. Len(q) = 0 => q = << >>
    BY <1>2
  <1>5. << >> \o <<e>> = <<e>>
    BY <1>2
  <1>6. IsSequence(<< >>) /\ IsSequence(<<e>>)
    BY DEF IsSequence
  <1> QED BY <1>3, <1>4, <1>5, <1>6

\* A step of a client keeps what is said of it and of what it has sent.
LEMMA ClientMoves ==
  ASSUME Inv, NEW s \in Sessions, ~Gone(s), UNCHANGED <<serverVars, wire>>,
         NEW c, client' = [client EXCEPT ![s] = c], DOMAIN c = ClientFields, ClientAt(s)',
         c.asked \in {client[s].asked, <<"request", s>>},
         DOMAIN toServer' = Sessions, IsSequence(toServer'[s]),
         \A z \in Sessions : z # s => toServer'[z] = toServer[z],
         NEW more, IsSequence(more), NEW sent, sent = Consumed(s) + Len(toServer[s]),
         Reading(s) /\ QueueAt(s) =>
           /\ toServer'[s] = toServer[s] \o more
           /\ \A i \in 1 .. Len(more) :
                \/ Expected(s, sent + i, more[i])'
                \/ more[i] = Alert /\ i = Len(more) /\ c.at = "gone"
           /\ c.at # "gone" => sent + Len(more) \in Sent(c.at)
  PROVE  Inv'
  <1>1. /\ TypeOK /\ Shapes /\ ServerInv /\ QueueInv /\ ClientInv
        /\ UNCHANGED <<pc, cur, sess, heap, heard, mismatch, closed, wire>>
    BY DEF Inv, serverVars
  <1>2. /\ client'[s] = c /\ DOMAIN client' = Sessions
        /\ \A z \in Sessions : z # s => client'[z] = client[z]
    BY <1>1 DEF Shapes
  <1>3. WireExtends
    BY <1>1, WireStays
  <1>4. TypeOK'
    BY <1>1 DEF TypeOK
  <1>5. Shapes'
    BY <1>1, <1>2 DEF Shapes
  <1>6. ServerInv'
    <2>1. WireContent' /\ WireLength'
      BY <1>1 DEF ServerInv, WireContent, WireAt, Told, WireLength
    <2>2. SessInv' /\ WipedInv' /\ mismatch' = FALSE
      BY <1>1 DEF ServerInv, SessInv, Told, WipedInv, Wiped
    <2> QED BY <2>1, <2>2 DEF ServerInv
  <1>7. ASSUME NEW z \in Sessions PROVE ClientAt(z)'
    <2>1. CASE z = s BY <2>1
    <2>2. CASE z # s
      BY <1>1, <1>2, <1>3, <2>2, ClientStays DEF ClientInv
    <2> QED BY <2>1, <2>2
  <1>8. ASSUME NEW z \in Sessions PROVE Consumed(z)' = Consumed(z) /\ (Reading(z)' <=> Reading(z))
    BY <1>1 DEF Consumed, Reading
  <1>9. ASSUME NEW z \in Sessions, z # s, Reading(z)' PROVE QueueAt(z)'
    <2>1. QueueAt(z) /\ client'[z] = client[z] /\ toServer'[z] = toServer[z] /\ Consumed(z)' = Consumed(z)
      BY <1>1, <1>2, <1>8, <1>9 DEF QueueInv
    <2>2. ASSUME NEW j \in 1 .. Len(toServer'[z])
          PROVE  \/ Expected(z, Consumed(z) + j, toServer[z][j])'
                 \/ (toServer[z][j] = Alert /\ j = Len(toServer[z]) /\ Gone(z))'
      <3>1. PICK n : n = Consumed(z) + j
        OBVIOUS
      <3>2. PICK rec : rec = toServer[z][j]
        OBVIOUS
      <3>3. Expected(z, n, rec) \/ (rec = Alert /\ j = Len(toServer[z]) /\ Gone(z))
        BY <2>1, <3>1, <3>2 DEF QueueAt
      <3>4. Expected(z, n, rec) => Expected(z, n, rec)'
        BY <1>3, <2>1, ExpectedStays
      <3>5. CASE Expected(z, n, rec)'
        BY <2>1, <3>1, <3>2, <3>5
      <3>6. CASE rec = Alert /\ j = Len(toServer[z]) /\ Gone(z)
        BY <2>1, <3>2, <3>6 DEF Gone, Alert, Plain
      <3> QED BY <3>3, <3>4, <3>5, <3>6
    <2>3. (~Gone(z) => Consumed(z) + Len(toServer[z]) \in Sent(client[z].at))'
      BY <2>1 DEF QueueAt, Gone, Sent
    <2> QED BY <2>2, <2>3 DEF QueueAt
  <1>10. ASSUME Reading(s)' PROVE QueueAt(s)'
    <2>1. Reading(s) /\ QueueAt(s) /\ Consumed(s)' = Consumed(s) /\ Consumed(s) \in Nat
      BY <1>1, <1>8, <1>10, ConsumedType DEF QueueInv
    <2>2. /\ toServer'[s] = toServer[s] \o more
          /\ \A i \in 1 .. Len(more) :
               \/ Expected(s, sent + i, more[i])'
               \/ more[i] = Alert /\ i = Len(more) /\ c.at = "gone"
          /\ c.at # "gone" => sent + Len(more) \in Sent(c.at)
      BY <2>1
    <2>3. IsSequence(toServer[s])
      BY <1>1 DEF Shapes
    <2>4. PICK m \in Nat : m = Len(toServer[s])
      BY <2>3, Concatenated
    <2>5. PICK k \in Nat : k = Len(more)
      BY <2>3, Concatenated
    <2>6. /\ Len(toServer'[s]) = m + k
          /\ \A i \in 1 .. m : toServer'[s][i] = toServer[s][i]
          /\ \A i \in 1 .. k : toServer'[s][m + i] = more[i]
      BY <2>2, <2>3, <2>4, <2>5, Concatenated
    <2>7. ASSUME NEW j \in 1 .. Len(toServer'[s])
          PROVE  \/ Expected(s, Consumed(s) + j, toServer[s][j])'
                 \/ (toServer[s][j] = Alert /\ j = Len(toServer[s]) /\ Gone(s))'
      <3>1. PICK n : n = Consumed(s) + j
        OBVIOUS
      <3>2. PICK rec : rec = toServer'[s][j]
        OBVIOUS
      <3>3. CASE j \in 1 .. m
        <4>1. Expected(s, n, rec)
          BY <2>1, <2>4, <2>6, <3>1, <3>2, <3>3 DEF QueueAt
        <4>2. Expected(s, n, rec)'
          BY <1>2, <1>3, <4>1, ExpectedStays
        <4> QED BY <2>1, <3>1, <3>2, <4>2
      <3>4. CASE ~(j \in 1 .. m)
        <4>1. PICK i \in 1 .. k : j = m + i
          <5>1. j - m \in 1 .. k /\ j = m + (j - m)
            BY <2>6, <3>4
          <5> QED BY <5>1
        <4>2. rec = more[i] /\ n = sent + i
          BY <2>1, <2>4, <2>6, <3>1, <3>2, <4>1
        <4>3. Expected(s, sent + i, more[i])' \/ (more[i] = Alert /\ i = k /\ c.at = "gone")
          BY <2>2, <2>4, <2>5
        <4>4. CASE more[i] = Alert /\ i = k /\ c.at = "gone"
          BY <1>2, <2>6, <3>2, <4>1, <4>2, <4>4 DEF Gone, Alert, Plain
        <4>5. CASE Expected(s, sent + i, more[i])'
          <5>1. Expected(s, n, rec)'
            BY <4>2, <4>5
          <5> QED BY <2>1, <3>1, <3>2, <5>1
        <4> QED BY <4>3, <4>4, <4>5
      <3> QED BY <3>3, <3>4
    <2>8. (~Gone(s) => Consumed(s) + Len(toServer[s]) \in Sent(client[s].at))'
      <3>1. sent + k = Consumed(s) + (m + k)
        BY <2>1, <2>4
      <3> QED BY <1>2, <2>1, <2>2, <2>4, <2>5, <2>6, <3>1 DEF Gone, Sent
    <2> QED BY <2>7, <2>8 DEF QueueAt
  <1>11. QueueInv' /\ ClientInv'
    BY <1>7, <1>9, <1>10 DEF QueueInv, ClientInv
  <1> QED BY <1>4, <1>5, <1>6, <1>11 DEF Inv


\* What is known of a client and of what was written to it.
LEMMA ClientKnown ==
  ASSUME Inv, NEW s \in Sessions
  PROVE  /\ DOMAIN client = Sessions /\ DOMAIN toServer = Sessions
         /\ DOMAIN client[s] = ClientFields /\ IsSequence(toServer[s])
         /\ ClientAt(s) /\ WireAt(s) /\ Len(wire[s]) \in Nat
  <1>1. Shapes /\ ClientInv /\ WireContent
    BY DEF Inv, ServerInv
  <1>2. IsSequence(wire[s])
    BY <1>1 DEF Shapes
  <1>3. Len(wire[s]) \in Nat
    BY <1>2, Concatenated
  <1> QED BY <1>1, <1>3 DEF Shapes, ClientInv, WireContent

\* A client that goes on without sending anything.
LEMMA SilentStep ==
  ASSUME Inv, NEW s \in Sessions, ~Gone(s), UNCHANGED <<serverVars, wire, toServer>>,
         NEW c, client' = [client EXCEPT ![s] = c], DOMAIN c = ClientFields, ClientAt(s)',
         c.asked = client[s].asked, c.at # "gone" => Sent(c.at) = Sent(client[s].at)
  PROVE  Inv'
  <1>1. PICK sent : sent = Consumed(s) + Len(toServer[s])
    OBVIOUS
  <1>2. IsSequence(toServer[s]) /\ DOMAIN toServer = Sessions
    BY ClientKnown
  <1>3. PICK more : more = << >>
    OBVIOUS
  <1>4. IsSequence(more) /\ Len(more) = 0 /\ toServer[s] \o more = toServer[s]
    BY <1>2, <1>3, Ended
  <1>5. QueueAt(s) /\ c.at # "gone" => sent \in Sent(c.at)
    BY <1>1 DEF QueueAt, Gone
  <1>6. sent + 0 = sent
    <2>1. Len(toServer[s]) \in Nat
      BY <1>2, Concatenated
    <2> QED BY <1>1, <2>1, ConsumedType
  <1>7. /\ \A i \in 1 .. Len(more) :
             \/ Expected(s, sent + i, more[i])'
             \/ more[i] = Alert /\ i = Len(more) /\ c.at = "gone"
        /\ QueueAt(s) /\ c.at # "gone" => sent + Len(more) \in Sent(c.at)
    <2>1. \A i \in 1 .. Len(more) : FALSE
      BY <1>4
    <2>2. QueueAt(s) /\ c.at # "gone" => sent + Len(more) \in Sent(c.at)
      BY <1>4, <1>5, <1>6
    <2> QED BY <2>1, <2>2
  <1>8. /\ DOMAIN toServer' = Sessions /\ IsSequence(toServer'[s])
        /\ \A z \in Sessions : z # s => toServer'[z] = toServer[z]
        /\ toServer'[s] = toServer[s] \o more
    BY <1>2, <1>4
  <1>9. c.asked \in {client[s].asked, <<"request", s>>}
    OBVIOUS
  <1>10. Reading(s) /\ QueueAt(s) =>
           /\ toServer'[s] = toServer[s] \o more
           /\ \A i \in 1 .. Len(more) :
                \/ Expected(s, sent + i, more[i])'
                \/ more[i] = Alert /\ i = Len(more) /\ c.at = "gone"
           /\ c.at # "gone" => sent + Len(more) \in Sent(c.at)
    BY <1>7, <1>8
  <1> QED BY <1>1, <1>4, <1>8, <1>9, <1>10, ClientMoves, ZenonT(60)

\* A client that leaves, with an alert or without.
LEMMA GoneStep ==
  ASSUME Inv, NEW s \in Sessions, ~Gone(s), UNCHANGED <<serverVars, wire>>,
         NEW c, client' = [client EXCEPT ![s] = c], DOMAIN c = ClientFields,
         c.at = "gone", c.alarm = FALSE, c.asked = client[s].asked,
         toServer' = toServer \/ toServer' = [toServer EXCEPT ![s] = Append(toServer[s], Alert)]
  PROVE  Inv'
  <1>1. /\ DOMAIN client = Sessions /\ DOMAIN toServer = Sessions
        /\ ClientAt(s) /\ IsSequence(toServer[s])
    BY ClientKnown
  <1>2. client'[s] = c
    BY <1>1
  <1>3. c.asked \in {Blank, <<"request", s>>}
    BY <1>1 DEF ClientAt
  <1>4. ClientAt(s)'
    BY <1>2, <1>3 DEF ClientAt, Places
  <1>5. CASE toServer' = toServer
    BY <1>4, <1>5, SilentStep
  <1>6. CASE toServer' = [toServer EXCEPT ![s] = Append(toServer[s], Alert)]
    <2>1. PICK sent : sent = Consumed(s) + Len(toServer[s])
      OBVIOUS
    <2>2. PICK more : more = <<Alert>>
      OBVIOUS
    <2>3. IsSequence(more) /\ Len(more) = 1 /\ more[1] = Alert /\ Append(toServer[s], Alert) = toServer[s] \o more
      BY <1>1, <2>2, Ended
    <2>4. IsSequence(Append(toServer[s], Alert))
      BY <1>1, Appended
    <2>5. /\ DOMAIN toServer' = Sessions /\ toServer'[s] = Append(toServer[s], Alert)
          /\ \A z \in Sessions : z # s => toServer'[z] = toServer[z]
      BY <1>1, <1>6
    <2>6. \A i \in 1 .. Len(more) :
            \/ Expected(s, sent + i, more[i])'
            \/ more[i] = Alert /\ i = Len(more) /\ c.at = "gone"
      <3>1. \A i \in 1 .. Len(more) : i = 1
        BY <2>3
      <3> QED BY <2>3, <3>1
    <2>7. IsSequence(toServer'[s]) /\ toServer'[s] = toServer[s] \o more
      BY <2>3, <2>4, <2>5
    <2>8. c.asked \in {client[s].asked, <<"request", s>>}
      OBVIOUS
    <2>9. Reading(s) /\ QueueAt(s) =>
            /\ toServer'[s] = toServer[s] \o more
            /\ \A i \in 1 .. Len(more) :
                 \/ Expected(s, sent + i, more[i])'
                 \/ more[i] = Alert /\ i = Len(more) /\ c.at = "gone"
            /\ c.at # "gone" => sent + Len(more) \in Sent(c.at)
      BY <2>6, <2>7
    <2> QED BY <1>4, <2>1, <2>3, <2>5, <2>7, <2>8, <2>9, ClientMoves, ZenonT(60)
  <1> QED BY <1>5, <1>6

\* The record a client reads next is the one it has not read.
LEMMA NextReply ==
  ASSUME Inv, NEW s \in Sessions, NEW k \in 0 .. 5, client[s].read = k, Unread(s)
  PROVE  Len(wire[s]) \in Nat /\ Len(wire[s]) >= k + 1 /\ Reply(s) = wire[s][k + 1]
  BY ClientKnown DEF Unread, Reply

\* Leaving.
LEMMA LeaveStep ==
  ASSUME Inv, NEW s \in Sessions, Leave(s), UNCHANGED <<serverVars, wire>> PROVE Inv'
  <1>1. PICK c : c = [client[s] EXCEPT !.at = "gone"]
    OBVIOUS
  <1>2. DOMAIN client[s] = ClientFields /\ client[s].alarm = FALSE
    BY ClientKnown DEF ClientAt
  <1>3. DOMAIN c = ClientFields /\ c.at = "gone" /\ c.alarm = FALSE /\ c.asked = client[s].asked
    BY <1>1, <1>2 DEF ClientFields
  <1>4. ~Gone(s) /\ client' = [client EXCEPT ![s] = c]
    BY <1>1 DEF Leave, Become, Gone
  <1>5. toServer' = toServer \/ toServer' = [toServer EXCEPT ![s] = Append(toServer[s], Alert)]
    BY DEF Leave
  <1> QED BY <1>3, <1>4, <1>5, GoneStep

\* The first record of a client, to which nothing was written yet.
LEMMA SendClientHelloStep ==
  ASSUME Inv, NEW s \in Sessions, SendClientHello(s), UNCHANGED <<serverVars, wire>> PROVE Inv'
  <1>1. PICK c : c = [client[s] EXCEPT !.at = "ServerHello", !.hash = Hash1(s)]
    OBVIOUS
  <1>2. /\ DOMAIN client = Sessions /\ DOMAIN toServer = Sessions
        /\ DOMAIN client[s] = ClientFields /\ ClientAt(s) /\ IsSequence(toServer[s])
    BY ClientKnown
  <1>3. PICK rec : rec = Record("handshake", Blank, 0, Hello(s))
    OBVIOUS
  <1>4. <<Hello(s)>> = Hash1(s)
    BY DEF Hash1
  <1>5. /\ client[s].at = "start" /\ client' = [client EXCEPT ![s] = c]
        /\ toServer' = [toServer EXCEPT ![s] = <<rec>>]
    BY <1>1, <1>3, <1>4 DEF SendClientHello, Become, Hello
  <1>6. /\ client[s].alarm = FALSE /\ client[s].asked = Blank /\ client[s].answer = Blank
        /\ client[s].read = 0 /\ client[s].server_seq = 0
    BY <1>2, <1>5 DEF ClientAt, Places
  <1>7. /\ DOMAIN c = ClientFields /\ c.at = "ServerHello" /\ c.hash = Hash1(s) /\ c.alarm = FALSE
        /\ c.asked = Blank /\ c.answer = Blank /\ c.read = 0 /\ c.server_seq = 0
    BY <1>1, <1>2, <1>6 DEF ClientFields
  <1>8. client'[s] = c
    BY <1>2, <1>5
  <1>9. ClientAt(s)'
    BY <1>7, <1>8 DEF ClientAt, Places
  <1>10. PICK sent : sent = Consumed(s) + Len(toServer[s])
    OBVIOUS
  <1>11. PICK more : more = <<rec>>
    OBVIOUS
  <1>12. IsSequence(more) /\ Len(more) = 1 /\ more[1] = rec
    BY <1>2, <1>11, Ended
  <1>13. /\ DOMAIN toServer' = Sessions /\ toServer'[s] = more
         /\ \A z \in Sessions : z # s => toServer'[z] = toServer[z]
    BY <1>2, <1>5, <1>11
  <1>14. ASSUME QueueAt(s)
         PROVE  sent = 0 /\ toServer'[s] = toServer[s] \o more
    <2>1. sent \in Sent("start")
      BY <1>5, <1>10, <1>14 DEF QueueAt, Gone
    <2>2. sent = 0
      BY <2>1 DEF Sent
    <2>3. Len(toServer[s]) \in Nat /\ Consumed(s) \in Nat
      BY <1>2, Concatenated, ConsumedType
    <2>4. Len(toServer[s]) = 0
      BY <1>10, <2>2, <2>3
    <2> QED BY <1>2, <1>11, <1>13, <2>2, <2>4, Ended
  <1>15. QueueAt(s) => \A i \in 1 .. Len(more) : Expected(s, sent + i, more[i])'
    <2>1. Expected(s, 1, rec)'
      BY <1>3 DEF Expected
    <2> QED BY <1>12, <1>14, <2>1
  <1>16. QueueAt(s) => sent + Len(more) \in Sent(c.at)
    BY <1>7, <1>12, <1>14 DEF Sent
  <1> QED BY <1>5, <1>6, <1>7, <1>9, <1>10, <1>12, <1>13, <1>14, <1>15, <1>16, ClientMoves DEF Gone


\* The plaintext flight is what the client waits for, and enters its hash as it
\* entered the server's.
LEMMA ReadFlightStep ==
  ASSUME Inv, NEW s \in Sessions, ReadFlight(s), UNCHANGED <<serverVars, wire>> PROVE Inv'
  <1>1. /\ DOMAIN client = Sessions /\ DOMAIN client[s] = ClientFields
        /\ ClientAt(s) /\ WireAt(s) /\ Len(wire[s]) \in Nat
    BY ClientKnown
  <1>2. PICK r : r = Told(s)
    OBVIOUS
  <1>3. /\ client[s].at \in {"ServerHello", "Certificate", "ServerHelloDone"} /\ Unread(s)
    BY DEF ReadFlight
  <1>4. /\ client[s].alarm = FALSE /\ client[s].asked = Blank /\ client[s].answer = Blank
        /\ client[s].server_seq = 0
    BY <1>1, <1>3 DEF ClientAt, Places
  <1>5. PICK m : m = Reply(s).body
    OBVIOUS
  <1>6. /\ Reply(s) = Record("handshake", Blank, 0, m)
        /\ \/ /\ client[s].at = "ServerHello" /\ m = ServerHello(r) /\ client[s].read = 0
              /\ client[s].hash = Hash1(s) /\ Len(wire[s]) >= 1
           \/ /\ client[s].at = "Certificate" /\ m = Certificate /\ client[s].read = 1
              /\ client[s].hash = Hash2(s, r) /\ Len(wire[s]) >= 2
           \/ /\ client[s].at = "ServerHelloDone" /\ m = HelloDone /\ client[s].read = 2
              /\ client[s].hash = Hash3(s, r) /\ Len(wire[s]) >= 3
    <2>1. CASE client[s].at = "ServerHello"
      <3>1. client[s].read = 0 /\ client[s].hash = Hash1(s)
        BY <1>1, <2>1 DEF ClientAt
      <3>2. Len(wire[s]) >= 1 /\ Reply(s) = wire[s][1]
        BY <1>3, <3>1, NextReply
      <3>3. Reply(s) = Record("handshake", Blank, 0, ServerHello(r))
        BY <1>1, <1>2, <3>2 DEF WireAt
      <3>4. m = ServerHello(r)
        BY <1>5, <3>3, RecordFields
      <3> QED BY <2>1, <3>1, <3>2, <3>3, <3>4
    <2>2. CASE client[s].at = "Certificate"
      <3>1. client[s].read = 1 /\ client[s].hash = Hash2(s, r)
        BY <1>1, <1>2, <2>2 DEF ClientAt
      <3>2. Len(wire[s]) >= 2 /\ Reply(s) = wire[s][2]
        BY <1>3, <3>1, NextReply
      <3>3. Reply(s) = Record("handshake", Blank, 0, Certificate)
        BY <1>1, <3>2 DEF WireAt
      <3>4. m = Certificate
        BY <1>5, <3>3, RecordFields
      <3> QED BY <2>2, <3>1, <3>2, <3>3, <3>4
    <2>3. CASE client[s].at = "ServerHelloDone"
      <3>1. client[s].read = 2 /\ client[s].hash = Hash3(s, r)
        BY <1>1, <1>2, <2>3 DEF ClientAt
      <3>2. Len(wire[s]) >= 3 /\ Reply(s) = wire[s][3]
        BY <1>3, <3>1, NextReply
      <3>3. Reply(s) = Record("handshake", Blank, 0, HelloDone)
        BY <1>1, <3>2 DEF WireAt
      <3>4. m = HelloDone
        BY <1>5, <3>3, RecordFields
      <3> QED BY <2>3, <3>1, <3>2, <3>3, <3>4
    <2> QED BY <1>3, <2>1, <2>2, <2>3
  <1>7. Reply(s).key = Blank /\ m.type = client[s].at
    <2>1. Reply(s).key = Blank
      BY <1>6, RecordFields
    <2>2. m.type = client[s].at
      BY <1>6, MessageFields DEF ServerHello, Certificate, HelloDone
    <2> QED BY <2>1, <2>2
  <1>8. m = ServerHello(r) => m.content = r
    BY MessageFields DEF ServerHello
  <1>9. PICK c : c = [client[s] EXCEPT !.read = @ + 1, !.hash = Append(@, m)]
    OBVIOUS
  <1>10. \/ toServer' = [toServer EXCEPT ![s] = Append(@, Alert)] /\ Become(s, [c EXCEPT !.at = "gone"])
         \/ /\ m.type = "ServerHello" /\ toServer' = toServer
            /\ Become(s, [c EXCEPT !.at = "Certificate", !.server_random = m.content])
         \/ m.type = "Certificate" /\ toServer' = toServer /\ Become(s, [c EXCEPT !.at = "ServerHelloDone"])
         \/ m.type = "ServerHelloDone" /\ toServer' = toServer /\ Become(s, [c EXCEPT !.at = "keyExchange"])
    BY <1>3, <1>5, <1>7, <1>9 DEF ReadFlight
  <1>11. /\ DOMAIN c = ClientFields /\ c.alarm = FALSE /\ c.asked = Blank /\ c.answer = Blank
         /\ c.server_seq = 0 /\ c.read = client[s].read + 1 /\ c.hash = Append(client[s].hash, m)
         /\ c.server_random = client[s].server_random
    BY <1>1, <1>4, <1>9 DEF ClientFields
  <1>12. ~Gone(s) /\ Sent(client[s].at) = {1}
    BY <1>3 DEF Gone, Sent
  <1>13. CASE toServer' = [toServer EXCEPT ![s] = Append(@, Alert)] /\ Become(s, [c EXCEPT !.at = "gone"])
    <2>1. PICK d : d = [c EXCEPT !.at = "gone"]
      OBVIOUS
    <2>2. DOMAIN d = ClientFields /\ d.at = "gone" /\ d.alarm = FALSE /\ d.asked = client[s].asked
      BY <1>4, <1>11, <2>1 DEF ClientFields
    <2>3. client' = [client EXCEPT ![s] = d]
      BY <1>13, <2>1 DEF Become
    <2> QED BY <1>12, <1>13, <2>2, <2>3, GoneStep
  <1>14. CASE m.type = "ServerHello" /\ toServer' = toServer
              /\ Become(s, [c EXCEPT !.at = "Certificate", !.server_random = m.content])
    <2>1. PICK d : d = [c EXCEPT !.at = "Certificate", !.server_random = m.content]
      OBVIOUS
    <2>2. client' = [client EXCEPT ![s] = d]
      BY <1>14, <2>1 DEF Become
    <2>3. m = ServerHello(r) /\ client[s].read = 0 /\ client[s].hash = Hash1(s) /\ Len(wire[s]) >= 1
      BY <1>6, <1>7, <1>14
    <2>4. c.read = 1 /\ c.hash = Hash2(s, r)
      BY <1>11, <2>3 DEF Hash2
    <2>5. /\ DOMAIN d = ClientFields /\ d.at = "Certificate" /\ d.alarm = FALSE /\ d.asked = Blank
          /\ d.answer = Blank /\ d.server_seq = 0 /\ d.read = 1 /\ d.hash = Hash2(s, r)
          /\ d.server_random = r
      BY <1>8, <1>11, <2>1, <2>3, <2>4 DEF ClientFields
    <2>6. client'[s] = d /\ Told(s)' = r /\ wire'[s] = wire[s]
      BY <1>1, <1>2, <2>2 DEF Told
    <2>7. ClientAt(s)'
      BY <2>3, <2>5, <2>6 DEF ClientAt, Places
    <2>8. Sent(d.at) = Sent(client[s].at)
      BY <1>12, <2>5 DEF Sent
    <2> QED BY <1>4, <1>12, <1>14, <2>2, <2>5, <2>7, <2>8, SilentStep
  <1>15. CASE m.type = "Certificate" /\ toServer' = toServer /\ Become(s, [c EXCEPT !.at = "ServerHelloDone"])
    <2>1. PICK d : d = [c EXCEPT !.at = "ServerHelloDone"]
      OBVIOUS
    <2>2. client' = [client EXCEPT ![s] = d]
      BY <1>15, <2>1 DEF Become
    <2>3. m = Certificate /\ client[s].read = 1 /\ client[s].hash = Hash2(s, r) /\ Len(wire[s]) >= 2
          /\ client[s].server_random = r
      BY <1>1, <1>2, <1>6, <1>7, <1>15 DEF ClientAt, Places
    <2>4. c.read = 2 /\ c.hash = Hash3(s, r) /\ c.server_random = r
      BY <1>11, <2>3 DEF Hash3
    <2>5. /\ DOMAIN d = ClientFields /\ d.at = "ServerHelloDone" /\ d.alarm = FALSE /\ d.asked = Blank
          /\ d.answer = Blank /\ d.server_seq = 0 /\ d.read = 2 /\ d.hash = Hash3(s, r)
          /\ d.server_random = r
      BY <1>11, <2>1, <2>4 DEF ClientFields
    <2>6. client'[s] = d /\ Told(s)' = r /\ wire'[s] = wire[s]
      BY <1>1, <1>2, <2>2 DEF Told
    <2>7. ClientAt(s)'
      BY <1>1, <2>3, <2>5, <2>6 DEF ClientAt, Places
    <2>8. Sent(d.at) = Sent(client[s].at)
      BY <1>12, <2>5 DEF Sent
    <2> QED BY <1>4, <1>12, <1>15, <2>2, <2>5, <2>7, <2>8, SilentStep
  <1>16. CASE m.type = "ServerHelloDone" /\ toServer' = toServer /\ Become(s, [c EXCEPT !.at = "keyExchange"])
    <2>1. PICK d : d = [c EXCEPT !.at = "keyExchange"]
      OBVIOUS
    <2>2. client' = [client EXCEPT ![s] = d]
      BY <1>16, <2>1 DEF Become
    <2>3. m = HelloDone /\ client[s].read = 2 /\ client[s].hash = Hash3(s, r) /\ Len(wire[s]) >= 3
          /\ client[s].server_random = r
      BY <1>1, <1>2, <1>6, <1>7, <1>16 DEF ClientAt, Places
    <2>4. c.read = 3 /\ c.hash = Hash4(s, r) /\ c.server_random = r
      BY <1>11, <2>3 DEF Hash4
    <2>5. /\ DOMAIN d = ClientFields /\ d.at = "keyExchange" /\ d.alarm = FALSE /\ d.asked = Blank
          /\ d.answer = Blank /\ d.server_seq = 0 /\ d.read = 3 /\ d.hash = Hash4(s, r)
          /\ d.server_random = r
      BY <1>11, <2>1, <2>4 DEF ClientFields
    <2>6. client'[s] = d /\ Told(s)' = r /\ wire'[s] = wire[s]
      BY <1>1, <1>2, <2>2 DEF Told
    <2>7. ClientAt(s)'
      BY <1>1, <2>3, <2>5, <2>6 DEF ClientAt, Places
    <2>8. Sent(d.at) = Sent(client[s].at)
      BY <1>12, <2>5 DEF Sent
    <2> QED BY <1>4, <1>12, <1>16, <2>2, <2>5, <2>7, <2>8, SilentStep
  <1> QED BY <1>10, <1>13, <1>14, <1>15, <1>16


\* The keys of the client are those of the session.
LEMMA MasterIsSecret ==
  ASSUME NEW s \in Sessions, NEW r, client[s].server_random = r PROVE ClientMaster(s) = Secret(s, r)
  BY DEF ClientMaster, Secret

\* A beginning of a sequence.
LEMMA Beginning ==
  ASSUME NEW p, IsSequence(p), NEW n \in 0 .. Len(p)
  PROVE  /\ IsSequence(SubSeq(p, 1, n)) /\ Len(SubSeq(p, 1, n)) = n
         /\ \A i \in 1 .. n : SubSeq(p, 1, n)[i] = p[i]
  <1> DEFINE S == {p[i] : i \in DOMAIN p}
             b == SubSeq(p, 1, n)
             B == {b[i] : i \in DOMAIN b}
  <1>1. p \in Seq(S)
    BY DEF IsSequence
  <1> HIDE DEF S
  <1>2. Len(p) \in Nat /\ n \in Nat /\ n <= Len(p)
    BY <1>1
  <1>3. b \in Seq(S) /\ Len(b) = n /\ \A i \in 1 .. n : b[i] = p[i]
    BY <1>1, <1>2
  <1> HIDE DEF b
  <1>4. b \in Seq(B)
    BY <1>3
  <1> QED BY <1>3, <1>4 DEF IsSequence, b

\* Three sequences over one set.
LEMMA Together ==
  ASSUME NEW q, NEW b, NEW e, IsSequence(q), IsSequence(b), IsSequence(e)
  PROVE  \E S : q \in Seq(S) /\ b \in Seq(S) /\ e \in Seq(S)
  <1> DEFINE S == {q[i] : i \in DOMAIN q} \cup {b[i] : i \in DOMAIN b} \cup {e[i] : i \in DOMAIN e}
  <1>1. q \in Seq(S) /\ b \in Seq(S) /\ e \in Seq(S)
    <2>1. /\ q \in Seq({q[i] : i \in DOMAIN q}) /\ b \in Seq({b[i] : i \in DOMAIN b})
          /\ e \in Seq({e[i] : i \in DOMAIN e})
      BY DEF IsSequence
    <2> QED BY <2>1
  <1> HIDE DEF S
  <1> QED BY <1>1

\* The keys, the change of cipher and Finished, or as much of them as the client
\* sends before it leaves.
LEMMA SendKeysStep ==
  ASSUME Inv, NEW s \in Sessions, SendKeys(s), UNCHANGED <<serverVars, wire>> PROVE Inv'
  <1>1. /\ DOMAIN client = Sessions /\ DOMAIN client[s] = ClientFields /\ DOMAIN toServer = Sessions
        /\ IsSequence(toServer[s]) /\ ClientAt(s) /\ WireAt(s) /\ Len(wire[s]) \in Nat
    BY ClientKnown
  <1>2. PICK r : r = Told(s)
    OBVIOUS
  <1>3. client[s].at = "keyExchange"
    BY DEF SendKeys
  <1>4. /\ client[s].alarm = FALSE /\ client[s].asked = Blank /\ client[s].answer = Blank
        /\ client[s].server_seq = 0 /\ client[s].read = 3 /\ Len(wire[s]) >= 3
        /\ client[s].server_random = r /\ client[s].hash = Hash4(s, r)
    BY <1>1, <1>2, <1>3 DEF ClientAt, Places
  <1>5. PICK flight : flight = <<Record("handshake", Blank, 0, KeyMessage(s)), Ccs,
                Record("handshake", ClientKey(Secret(s, r)), 0, ClientFinished(s, r))>>
    OBVIOUS
  <1>6. PICK n \in 1 .. 3, alert \in {<< >>, <<Alert>>} :
          /\ toServer' = [toServer EXCEPT ![s] =
                            @ \o SubSeq(flight, 1, n) \o IF n = 3 THEN << >> ELSE alert]
          /\ Become(s, [client[s] EXCEPT !.at = IF n = 3 THEN "ChangeCipherSpec" ELSE "gone",
                                         !.hash = Hash6(s, r)])
    <2>1. ClientMaster(s) = Secret(s, r) /\ Append(client[s].hash, KeyMessage(s)) = Hash5(s, r)
      BY <1>4, MasterIsSecret DEF Hash5
    <2> QED BY <1>5, <2>1 DEF SendKeys, KeyMessage, ClientFinished, Hash6, Ccs
  <1>7. PICK e : e = IF n = 3 THEN << >> ELSE alert
    OBVIOUS
  <1>8. PICK more : more = SubSeq(flight, 1, n) \o e
    OBVIOUS
  <1>9. PICK c : c = [client[s] EXCEPT !.at = IF n = 3 THEN "ChangeCipherSpec" ELSE "gone",
                                       !.hash = Hash6(s, r)]
    OBVIOUS
  <1>10. /\ IsSequence(e) /\ Len(e) \in {0, 1} /\ (Len(e) = 1 => e[1] = Alert /\ n # 3)
    <2>1. IsSequence(<< >>) /\ IsSequence(<<Alert>>)
      BY <1>1, Ended
    <2> QED BY <1>6, <1>7, <2>1
  <1>11. IsSequence(flight) /\ Len(flight) = 3
    BY <1>5 DEF IsSequence
  <1>12. /\ IsSequence(more) /\ Len(more) = n + Len(e)
         /\ \A i \in 1 .. n : more[i] = flight[i]
         /\ \A i \in 1 .. Len(e) : more[n + i] = e[i]
         /\ IsSequence(toServer[s] \o more)
         /\ toServer[s] \o SubSeq(flight, 1, n) \o e = toServer[s] \o more
    <2>1. n \in 0 .. Len(flight)
      BY <1>11
    <2>2. IsSequence(toServer[s]) /\ IsSequence(flight) /\ IsSequence(e)
      BY <1>1, <1>10, <1>11
    <2>3. PICK b : b = SubSeq(flight, 1, n)
      OBVIOUS
    <2>4. IsSequence(b) /\ Len(b) = n /\ \A i \in 1 .. n : b[i] = flight[i]
      BY <2>1, <2>2, <2>3, Beginning
    <2>5. more = b \o e
      BY <1>8, <2>3
    <2>6. /\ IsSequence(b \o e) /\ Len(b \o e) = Len(b) + Len(e)
          /\ \A i \in 1 .. Len(b) : (b \o e)[i] = b[i]
          /\ \A i \in 1 .. Len(e) : (b \o e)[Len(b) + i] = e[i]
      BY <2>2, <2>4, Concatenated
    <2>7. IsSequence(toServer[s] \o (b \o e)) /\ (toServer[s] \o b) \o e = toServer[s] \o (b \o e)
      <3>1. IsSequence(toServer[s] \o (b \o e))
        BY <2>2, <2>6, Concatenated
      <3>2. IsSequence(toServer[s]) /\ IsSequence(b) /\ IsSequence(e)
        BY <2>2, <2>4
      <3>3. PICK q : q = toServer[s]
        OBVIOUS
      <3>4. PICK S : q \in Seq(S) /\ b \in Seq(S) /\ e \in Seq(S)
        BY <3>2, <3>3, Together
      <3>5. (q \o b) \o e = q \o (b \o e)
        BY <3>4
      <3> QED BY <3>1, <3>3, <3>5
    <2> QED BY <2>3, <2>4, <2>5, <2>6, <2>7
  <1>13. /\ DOMAIN toServer' = Sessions /\ toServer'[s] = toServer[s] \o more
         /\ \A z \in Sessions : z # s => toServer'[z] = toServer[z]
    BY <1>1, <1>6, <1>7, <1>12
  <1>14. /\ DOMAIN c = ClientFields /\ c.at = IF n = 3 THEN "ChangeCipherSpec" ELSE "gone"
         /\ c.hash = Hash6(s, r) /\ c.alarm = FALSE /\ c.asked = Blank /\ c.answer = Blank
         /\ c.server_seq = 0 /\ c.read = 3 /\ c.server_random = r
    BY <1>1, <1>4, <1>9 DEF ClientFields
  <1>15. client' = [client EXCEPT ![s] = c] /\ client'[s] = c /\ Told(s)' = r /\ wire'[s] = wire[s]
    BY <1>1, <1>2, <1>6, <1>9 DEF Become, Told
  <1>16. ClientAt(s)'
    <2>1. CASE n = 3
      <3>1. c.at = "ChangeCipherSpec"
        BY <1>14, <2>1
      <3> QED BY <1>1, <1>4, <1>14, <1>15, <3>1 DEF ClientAt, Places
    <2>2. CASE n # 3
      <3>1. c.at = "gone"
        BY <1>14, <2>2
      <3> QED BY <1>14, <1>15, <3>1 DEF ClientAt, Places
    <2> QED BY <2>1, <2>2
  <1>17. PICK sent : sent = Consumed(s) + Len(toServer[s])
    OBVIOUS
  <1>18. QueueAt(s) => sent = 1
    BY <1>3, <1>17 DEF QueueAt, Gone, Sent
  <1>19. \A i \in 1 .. n : Expected(s, 1 + i, flight[i])'
    <2>1. /\ flight[1] = Record("handshake", Blank, 0, KeyMessage(s)) /\ flight[2] = Ccs
          /\ flight[3] = Record("handshake", ClientKey(Secret(s, r)), 0, ClientFinished(s, r))
      BY <1>5
    <2>2. Expected(s, 2, flight[1])'
      BY <1>4, <1>15, <2>1 DEF Expected
    <2>3. Expected(s, 3, flight[2])'
      BY <1>4, <1>15, <2>1 DEF Expected
    <2>4. Expected(s, 4, flight[3])'
      BY <1>4, <1>15, <2>1 DEF Expected
    <2>5. \A i \in 1 .. n : i = 1 \/ i = 2 \/ i = 3
      OBVIOUS
    <2> QED BY <2>2, <2>3, <2>4, <2>5
  <1>20. ASSUME QueueAt(s), NEW i \in 1 .. Len(more)
         PROVE  \/ Expected(s, sent + i, more[i])'
                \/ more[i] = Alert /\ i = Len(more) /\ c.at = "gone"
    <2>1. CASE i \in 1 .. n
      BY <1>12, <1>18, <1>19, <1>20, <2>1
    <2>2. CASE ~(i \in 1 .. n)
      <3>1. Len(e) = 1 /\ i = n + 1
        <4>1. PICK k \in 0 .. 1 : k = Len(e)
          BY <1>10
        <4>2. PICK l : l = Len(more) /\ i \in 1 .. l
          OBVIOUS
        <4>3. l = n + k
          BY <1>12, <4>1, <4>2
        <4> QED BY <2>2, <4>1, <4>2, <4>3
      <3> QED BY <1>10, <1>12, <1>14, <3>1
    <2> QED BY <2>1, <2>2
  <1>21. QueueAt(s) /\ c.at # "gone" => sent + Len(more) \in Sent(c.at)
    <2>1. c.at # "gone" => n = 3 /\ c.at = "ChangeCipherSpec" /\ Len(e) = 0
      BY <1>10, <1>14
    <2> QED BY <1>12, <1>18, <2>1 DEF Sent
  <1>22. ~Gone(s) /\ c.asked \in {client[s].asked, <<"request", s>>}
    BY <1>3, <1>4, <1>14 DEF Gone
  <1>23. Reading(s) /\ QueueAt(s) =>
           /\ toServer'[s] = toServer[s] \o more
           /\ \A i \in 1 .. Len(more) :
                \/ Expected(s, sent + i, more[i])'
                \/ more[i] = Alert /\ i = Len(more) /\ c.at = "gone"
           /\ c.at # "gone" => sent + Len(more) \in Sent(c.at)
    BY <1>13, <1>20, <1>21
  <1>24. IsSequence(toServer'[s])
    BY <1>12, <1>13
  <1>25. IsSequence(more) /\ DOMAIN c = ClientFields /\ client' = [client EXCEPT ![s] = c]
    BY <1>12, <1>14, <1>15
  <1>26. DOMAIN toServer' = Sessions /\ \A z \in Sessions : z # s => toServer'[z] = toServer[z]
    BY <1>13
  <1> QED BY <1>16, <1>17, <1>22, <1>23, <1>24, <1>25, <1>26, ClientMoves, ZenonT(60)

\* The server's ChangeCipherSpec.
LEMMA ReadCcsStep ==
  ASSUME Inv, NEW s \in Sessions, ReadCcs(s), UNCHANGED <<serverVars, wire>> PROVE Inv'
  <1>1. /\ DOMAIN client = Sessions /\ DOMAIN client[s] = ClientFields
        /\ ClientAt(s) /\ WireAt(s) /\ Len(wire[s]) \in Nat
    BY ClientKnown
  <1>2. PICK r : r = Told(s)
    OBVIOUS
  <1>3. client[s].at = "ChangeCipherSpec" /\ Unread(s)
    BY DEF ReadCcs
  <1>4. /\ client[s].alarm = FALSE /\ client[s].asked = Blank /\ client[s].answer = Blank
        /\ client[s].server_seq = 0 /\ client[s].read = 3
        /\ client[s].server_random = r /\ client[s].hash = Hash6(s, r)
    BY <1>1, <1>2, <1>3 DEF ClientAt, Places
  <1>5. Len(wire[s]) >= 4 /\ Reply(s) = wire[s][4]
    BY <1>3, <1>4, NextReply
  <1>6. Reply(s) = Ccs
    BY <1>1, <1>5 DEF WireAt
  <1>7. PICK c : c = [client[s] EXCEPT !.at = "Finished", !.read = 4]
    OBVIOUS
  <1>8. toServer' = toServer /\ client' = [client EXCEPT ![s] = c]
    BY <1>4, <1>6, <1>7 DEF ReadCcs, Ccs, Become
  <1>9. /\ DOMAIN c = ClientFields /\ c.at = "Finished"
        /\ c.hash = Hash6(s, r) /\ c.alarm = FALSE /\ c.asked = Blank /\ c.answer = Blank
        /\ c.server_seq = 0 /\ c.read = 4 /\ c.server_random = r
    BY <1>1, <1>4, <1>7 DEF ClientFields
  <1>10. client'[s] = c /\ Told(s)' = r /\ wire'[s] = wire[s]
    BY <1>1, <1>2, <1>8 DEF Told
  <1>11. ClientAt(s)'
    BY <1>1, <1>5, <1>9, <1>10 DEF ClientAt, Places
  <1>12. ~Gone(s) /\ Sent(c.at) = Sent(client[s].at)
    BY <1>3, <1>9 DEF Gone, Sent
  <1> QED BY <1>4, <1>8, <1>9, <1>11, <1>12, SilentStep

\* The server's Finished is the one the client expects.
LEMMA ReadServerFinishedStep ==
  ASSUME Inv, NEW s \in Sessions, ReadServerFinished(s), UNCHANGED <<serverVars, wire>> PROVE Inv'
  <1>1. /\ DOMAIN client = Sessions /\ DOMAIN client[s] = ClientFields
        /\ ClientAt(s) /\ WireAt(s) /\ Len(wire[s]) \in Nat
    BY ClientKnown
  <1>2. PICK r : r = Told(s)
    OBVIOUS
  <1>3. client[s].at = "Finished" /\ Unread(s)
    BY DEF ReadServerFinished
  <1>4. /\ client[s].alarm = FALSE /\ client[s].asked = Blank /\ client[s].answer = Blank
        /\ client[s].server_seq = 0 /\ client[s].read = 4
        /\ client[s].server_random = r /\ client[s].hash = Hash6(s, r)
    BY <1>1, <1>2, <1>3 DEF ClientAt, Places
  <1>5. Len(wire[s]) >= 5 /\ Reply(s) = wire[s][5]
    BY <1>3, <1>4, NextReply
  <1>6. Reply(s) = Record("handshake", ServerKey(Secret(s, r)), 0, ServerFinished(s, r))
    BY <1>1, <1>2, <1>5 DEF WireAt
  <1>7. ClientMaster(s) = Secret(s, r)
    BY <1>4, MasterIsSecret
  <1>8. Authentic(s, "handshake")
    BY <1>4, <1>6, <1>7, RecordFields DEF Authentic
  <1>9. Reply(s).body = Message("Finished", VerifyData("server finished", ClientMaster(s), client[s].hash))
    <2>1. Reply(s).body = ServerFinished(s, r)
      BY <1>6, RecordFields
    <2> QED BY <1>4, <1>7, <2>1 DEF ServerFinished
  <1>10. PICK c : c = [client[s] EXCEPT !.at = "ask", !.read = 5, !.server_seq = 1]
    OBVIOUS
  <1>11. toServer' = toServer /\ client' = [client EXCEPT ![s] = c]
    <2>1. toServer' = toServer /\ client' = [client EXCEPT ![s] =
            [client[s] EXCEPT !.at = "ask", !.read = client[s].read + 1,
                              !.server_seq = client[s].server_seq + 1]]
      BY <1>8, <1>9 DEF ReadServerFinished, Become
    <2>2. client[s].read + 1 = 5 /\ client[s].server_seq + 1 = 1
      BY <1>4
    <2> QED BY <1>10, <2>1, <2>2
  <1>12. /\ DOMAIN c = ClientFields /\ c.at = "ask"
         /\ c.alarm = FALSE /\ c.asked = Blank /\ c.answer = Blank
         /\ c.server_seq = 1 /\ c.read = 5 /\ c.server_random = r
    BY <1>1, <1>4, <1>10 DEF ClientFields
  <1>13. client'[s] = c /\ Told(s)' = r /\ wire'[s] = wire[s]
    BY <1>1, <1>2, <1>11 DEF Told
  <1>14. ClientAt(s)'
    BY <1>1, <1>5, <1>12, <1>13 DEF ClientAt, Places
  <1>15. ~Gone(s) /\ Sent(c.at) = Sent(client[s].at)
    BY <1>3, <1>12 DEF Gone, Sent
  <1> QED BY <1>4, <1>11, <1>12, <1>14, <1>15, SilentStep

\* The answer comes under the server's key, in sequence.
LEMMA ReadAnswerStep ==
  ASSUME Inv, NEW s \in Sessions, ReadAnswer(s), UNCHANGED <<serverVars, wire>> PROVE Inv'
  <1>1. /\ DOMAIN client = Sessions /\ DOMAIN client[s] = ClientFields
        /\ ClientAt(s) /\ WireAt(s) /\ Len(wire[s]) \in Nat
    BY ClientKnown
  <1>2. PICK r : r = Told(s)
    OBVIOUS
  <1>3. client[s].at = "answer" /\ Unread(s)
    BY DEF ReadAnswer
  <1>4. /\ client[s].alarm = FALSE /\ client[s].asked = <<"request", s>>
        /\ client[s].server_seq = 1 /\ client[s].read = 5 /\ client[s].server_random = r
    BY <1>1, <1>2, <1>3 DEF ClientAt, Places
  <1>5. Len(wire[s]) >= 6 /\ Reply(s) = wire[s][6]
    BY <1>3, <1>4, NextReply
  <1>6. Reply(s) = Response(s, r, heard[s])
    BY <1>1, <1>2, <1>5 DEF WireAt
  <1>7. Authentic(s, "application_data")
    <2>1. ClientMaster(s) = Secret(s, r)
      BY <1>4, MasterIsSecret
    <2> QED BY <1>4, <1>6, <2>1, RecordFields DEF Authentic, Response
  <1>8. PICK c : c = [client[s] EXCEPT !.at = "over", !.read = 6, !.server_seq = 2,
                                       !.answer = Reply(s).body.content]
    OBVIOUS
  <1>9. toServer' = toServer /\ client' = [client EXCEPT ![s] = c]
    BY <1>4, <1>7, <1>8 DEF ReadAnswer, Become
  <1>10. /\ DOMAIN c = ClientFields /\ c.at = "over"
         /\ c.alarm = FALSE /\ c.asked = <<"request", s>> /\ c.server_random = r
    BY <1>1, <1>4, <1>8 DEF ClientFields
  <1>11. client'[s] = c /\ Told(s)' = r /\ wire'[s] = wire[s]
    BY <1>1, <1>2, <1>9 DEF Told
  <1>12. ClientAt(s)'
    <2>1. /\ c.asked \in {Blank, <<"request", s>>}
          /\ c.at \in {"answer", "over"} => c.asked = <<"request", s>>
      BY <1>10
    <2>2. c.at = "over" /\ c.alarm = FALSE /\ c.server_random = r
      BY <1>10
    <2>3. Len(wire[s]) >= 1
      BY <1>5, <1>1
    <2> QED BY <1>11, <2>1, <2>2, <2>3 DEF ClientAt, Places
  <1>13. ~Gone(s) /\ Sent(c.at) = Sent(client[s].at)
    BY <1>3, <1>10 DEF Gone, Sent
  <1> QED BY <1>4, <1>9, <1>10, <1>12, <1>13, SilentStep

\* The request, in one record or in two, after the four of the handshake.
LEMMA SendRequestStep ==
  ASSUME Inv, NEW s \in Sessions, SendRequest(s), UNCHANGED <<serverVars, wire>> PROVE Inv'
  <1>1. /\ DOMAIN client = Sessions /\ DOMAIN client[s] = ClientFields /\ DOMAIN toServer = Sessions
        /\ IsSequence(toServer[s]) /\ ClientAt(s) /\ WireAt(s) /\ Len(wire[s]) \in Nat
    BY ClientKnown
  <1>2. PICK r : r = Told(s)
    OBVIOUS
  <1>3. client[s].at = "ask"
    BY DEF SendRequest
  <1>4. /\ client[s].alarm = FALSE /\ client[s].asked = Blank /\ client[s].answer = Blank
        /\ client[s].server_seq = 1 /\ client[s].read = 5 /\ Len(wire[s]) >= 5
        /\ client[s].server_random = r
    BY <1>1, <1>2, <1>3 DEF ClientAt, Places
  <1>5. PICK c : c = [client[s] EXCEPT !.at = "answer", !.asked = <<"request", s>>]
    OBVIOUS
  <1> DEFINE One(c1) == <<Request(s, r, 1, c1)>>
             Two(c1, c2) == <<Request(s, r, 1, c1), Request(s, r, 2, c2)>>
             whole == <<"whole", "request", s>>
             head == <<"head", "request", s>>
             tail == <<"tail", "request", s>>
  <1>6. PICK more : /\ more \in {One(whole), Two(head, tail), Two(Blank, whole)}
                    /\ toServer' = [toServer EXCEPT ![s] = @ \o more]
    <2>1. ClientMaster(s) = Secret(s, r)
      BY <1>4, MasterIsSecret
    <2> QED BY <2>1 DEF SendRequest, Request
  <1>7. client' = [client EXCEPT ![s] = c]
    BY <1>5 DEF SendRequest, Become
  <1>8. /\ IsSequence(more) /\ Len(more) \in {1, 2}
        /\ \E content \in FirstParts(s) : more[1] = Request(s, r, 1, content)
        /\ Len(more) = 2 => \E content \in SecondParts(s) : more[2] = Request(s, r, 2, content)
    <2>1. CASE more = One(whole)
      <3>1. IsSequence(more) /\ Len(more) = 1 /\ more[1] = Request(s, r, 1, whole)
        BY <2>1 DEF IsSequence
      <3> QED BY <3>1 DEF FirstParts
    <2>2. ASSUME NEW c1 \in FirstParts(s), NEW c2 \in SecondParts(s), more = Two(c1, c2)
          PROVE  /\ IsSequence(more) /\ Len(more) = 2
                 /\ more[1] = Request(s, r, 1, c1) /\ more[2] = Request(s, r, 2, c2)
      BY <2>2 DEF IsSequence
    <2>3. whole \in SecondParts(s) /\ tail \in SecondParts(s) /\ head \in FirstParts(s) /\ Blank \in FirstParts(s)
      BY DEF FirstParts, SecondParts
    <2> HIDE DEF One, Two, whole, head, tail
    <2>4. CASE more = Two(head, tail)
      BY <2>2, <2>3, <2>4
    <2>5. CASE more = Two(Blank, whole)
      BY <2>2, <2>3, <2>5
    <2> QED BY <1>6, <2>1, <2>4, <2>5
  <1> HIDE DEF One, Two, whole, head, tail
  <1>9. IsSequence(toServer[s] \o more)
    BY <1>1, <1>8, Concatenated
  <1>10. /\ DOMAIN toServer' = Sessions /\ toServer'[s] = toServer[s] \o more
         /\ \A z \in Sessions : z # s => toServer'[z] = toServer[z]
    BY <1>1, <1>6
  <1>11. /\ DOMAIN c = ClientFields /\ c.at = "answer" /\ c.asked = <<"request", s>>
         /\ c.alarm = FALSE /\ c.answer = Blank /\ c.server_seq = 1 /\ c.read = 5 /\ c.server_random = r
    BY <1>1, <1>4, <1>5 DEF ClientFields
  <1>12. client'[s] = c /\ Told(s)' = r /\ wire'[s] = wire[s]
    BY <1>1, <1>2, <1>7 DEF Told
  <1>13. ClientAt(s)'
    <2>1. /\ c.asked \in {Blank, <<"request", s>>}
          /\ c.at \in {"answer", "over"} => c.asked = <<"request", s>>
      BY <1>11
    <2>2. /\ c.at = "answer" /\ c.alarm = FALSE /\ c.server_random = r
          /\ c.answer = Blank /\ c.server_seq = 1 /\ c.read = 5
      BY <1>11
    <2>3. Len(wire[s]) >= 1 /\ Len(wire[s]) >= 5
      BY <1>4, <1>1
    <2> QED BY <1>12, <2>1, <2>2, <2>3 DEF ClientAt, Places
  <1>14. PICK sent : sent = Consumed(s) + Len(toServer[s])
    OBVIOUS
  <1>15. QueueAt(s) => sent = 4
    BY <1>3, <1>14 DEF QueueAt, Gone, Sent
  <1>16. Expected(s, 5, more[1])' /\ (Len(more) = 2 => Expected(s, 6, more[2])')
    <2>1. client'[s].asked = <<"request", s>>
      BY <1>11, <1>12
    <2> QED BY <1>4, <1>8, <1>12, <2>1 DEF Expected
  <1>17. ASSUME QueueAt(s), NEW i \in 1 .. Len(more)
         PROVE  Expected(s, sent + i, more[i])'
    <2>1. PICK k \in 1 .. 2 : k = Len(more)
      BY <1>8
    <2>2. i \in 1 .. k
      BY <2>1
    <2>3. i = 1 \/ (i = 2 /\ k = 2)
      BY <2>2
    <2> QED BY <1>15, <1>16, <1>17, <2>1, <2>3
  <1>18. QueueAt(s) => sent + Len(more) \in Sent(c.at)
    <2>1. PICK k \in 1 .. 2 : k = Len(more)
      BY <1>8
    <2>2. 4 + k \in {5, 6} /\ Sent(c.at) = {5, 6}
      BY <1>11 DEF Sent
    <2> QED BY <1>15, <2>1, <2>2
  <1>19. ~Gone(s) /\ c.asked \in {client[s].asked, <<"request", s>>}
    BY <1>3, <1>11 DEF Gone
  <1>20. Reading(s) /\ QueueAt(s) =>
           /\ toServer'[s] = toServer[s] \o more
           /\ \A i \in 1 .. Len(more) :
                \/ Expected(s, sent + i, more[i])'
                \/ more[i] = Alert /\ i = Len(more) /\ c.at = "gone"
           /\ c.at # "gone" => sent + Len(more) \in Sent(c.at)
    BY <1>10, <1>17, <1>18
  <1>21. IsSequence(toServer'[s])
    BY <1>9, <1>10
  <1> QED BY <1>7, <1>8, <1>10, <1>11, <1>13, <1>14, <1>19, <1>20, <1>21, ClientMoves, ZenonT(60)

\* Every step of a client.
LEMMA ClientStepInv ==
  ASSUME Inv, NEW s \in Sessions, ClientStep(s) PROVE Inv'
  BY SendClientHelloStep, ReadFlightStep, SendKeysStep, ReadCcsStep, ReadServerFinishedStep,
     SendRequestStep, ReadAnswerStep, LeaveStep DEF ClientStep


(***************************************************************************)
(* The invariant and the theorems.                                         *)
(***************************************************************************)

\* Nothing has been sent, read or derived when the server starts.
LEMMA InitInv == ASSUME Init PROVE Inv
  <1>1. cur = 0 /\ cur \in 0 .. Last /\ \A s \in Sessions : s > cur /\ s \in Nat
    BY TlsAssumption DEF Init, Sessions
  <1>2. /\ DOMAIN client = Sessions
        /\ \A s \in Sessions : \E suite \in BOOLEAN : client[s] = NewClient(suite)
    BY DEF Init
  <1>3. \A s \in Sessions :
          /\ DOMAIN client[s] = ClientFields /\ client[s].at = "start" /\ client[s].alarm = FALSE
          /\ client[s].asked = Blank /\ client[s].answer = Blank /\ client[s].read = 0
          /\ client[s].server_seq = 0
    <2>1. \A suite : /\ DOMAIN NewClient(suite) = ClientFields /\ NewClient(suite).at = "start"
                     /\ NewClient(suite).alarm = FALSE /\ NewClient(suite).asked = Blank
                     /\ NewClient(suite).answer = Blank /\ NewClient(suite).read = 0
                     /\ NewClient(suite).server_seq = 0
      BY DEF NewClient, ClientFields
    <2> QED BY <1>2, <2>1
  <1>4. /\ DOMAIN sess = Fields /\ sess.client_random = Blank /\ sess.server_random = Blank
        /\ sess.pms = Blank /\ sess.master = Blank /\ sess.client_key = Blank /\ sess.server_key = Blank
        /\ sess.client_seq = 0 /\ sess.server_seq = 0
    BY DEF Init, ZeroSession, Fields
  <1>5. TypeOK
    <2>1. pc \in Labels /\ heap \subseteq Buffers /\ mismatch \in BOOLEAN /\ closed \in [Sessions -> BOOLEAN]
      BY DEF Init, Labels
    <2>2. 0 \in 0 .. 2
      OBVIOUS
    <2> QED BY <1>1, <1>4, <2>1, <2>2 DEF TypeOK
  <1>6. Shapes
    <2>1. IsSequence(<< >>)
      BY DEF IsSequence
    <2> QED BY <1>2, <1>3, <1>4, <2>1 DEF Init, Shapes
  <1>7. \A s \in Sessions : wire[s] = << >> /\ toServer[s] = << >> /\ heard[s] = Blank
    BY DEF Init
  <1>8. ServerInv
    <2>1. WireContent
      <3>1. \A s \in Sessions : Len(wire[s]) = 0
        BY <1>7
      <3> QED BY <1>7, <3>1 DEF WireContent, WireAt
    <2>2. pc = "accept" /\ heap = {} /\ mismatch = FALSE
      BY DEF Init
    <2>3. WireLength /\ SessInv /\ WipedInv
      BY <1>4, <2>2 DEF WireLength, SessInv, WipedInv, Wiped
    <2> QED BY <2>1, <2>2, <2>3 DEF ServerInv
  <1>9. QueueInv
    <2>1. \A s \in Sessions : Len(toServer[s]) = 0 /\ Consumed(s) = 0
      BY <1>1, <1>7 DEF Consumed
    <2> QED BY <1>3, <2>1 DEF QueueInv, QueueAt, Sent, Gone
  <1>10. ClientInv
    BY <1>3 DEF ClientInv, ClientAt, Places
  <1> QED BY <1>5, <1>6, <1>8, <1>9, <1>10 DEF Inv

\* A stuttering step changes nothing the invariant speaks of.
LEMMA StutterInv == ASSUME Inv, UNCHANGED vars PROVE Inv'
  <1>1. UNCHANGED <<pc, cur, sess, heap, heard, mismatch, closed, toServer, wire, client>>
    BY DEF vars, serverVars
  <1>2. /\ TypeOK /\ Shapes /\ WireContent /\ WireLength /\ SessInv /\ WipedInv /\ mismatch = FALSE
        /\ QueueInv /\ ClientInv
    BY DEF Inv, ServerInv
  <1>3. DOMAIN sess = Fields /\ DOMAIN heard = Sessions
    BY <1>2 DEF Shapes
  <1>4. TypeOK'
    BY <1>1, <1>2 DEF TypeOK
  <1>5. WireLength'
    BY <1>1, <1>2 DEF WireLength
  <1>6. SessInv'
    BY <1>1, <1>2 DEF SessInv, Told
  <1>7. WipedInv'
    BY <1>1, <1>2 DEF WipedInv, Wiped
  <1>8. Local'
    BY <1>1, <1>2, <1>3, <1>4, <1>5, <1>6, <1>7 DEF Local
  <1>9. \A s \in Sessions : Reading(s)' => Reading(s) /\ Consumed(s)' = Consumed(s)
    BY <1>1 DEF Reading, Consumed
  <1> QED BY <1>1, <1>8, <1>9, QuietStep

\* The invariant is inductive.
LEMMA InvStep == Inv /\ [Next]_vars => Inv'
  BY ServerStepInv, ClientStepInv, StutterInv DEF Next

\* It holds in every state.
LEMMA InvHolds == Safety => []Inv
  BY InitInv, InvStep, PTL DEF Safety

\* Each part of handle_https_client and tls_handshake finds values of its types,
\* and sequence numbers stay below 3, so that they never wrap.
THEOREM TypeCorrect == Safety => []TypeOK
  <1>1. Inv => TypeOK
    BY DEF Inv
  <1> QED BY <1>1, InvHolds, PTL

\* A client that follows RFC 5246 and the server derive the same keys and hash
\* the same messages: no MAC or verify_data comparison ever fails on either side.
THEOREM Agreement == Safety => []EndsAgree
  <1>1. Inv => EndsAgree
    BY DEF Inv, ServerInv, ClientInv, ClientAt, EndsAgree
  <1> QED BY <1>1, InvHolds, PTL

\* The server's private key is in the session from its loading on, and stays
\* there when a connection is over on which something was sent.
KeyInv ==
  /\ pc \in FromHello \cup {"cleanup"} => sess.key = PrivateKey
  /\ pc \in {"free", "accept"} /\ cur \in Sessions /\ wire[cur] # << >> => sess.key = PrivateKey

\* Steps of the handshake, its reads, writes and derivations, keep the key.
LEMMA KeyKept ==
  ASSUME Inv, ServerStep, pc # "init" PROVE sess'.key = sess.key
  <1>1. DOMAIN sess = Fields
    BY DEF Inv, Shapes
  <1> QED BY <1>1 DEF Fields, ServerStep, Accept, Alloc, SessionInit, ReadFails, ReadClientHello,
       SendServerHello, SendCertificate, SendServerHelloDone, ReadKeyExchange, DeriveKeys,
       ReadChangeCipher, ReadFinished, SendChangeCipher, SendFinished, ReadRequest, Respond,
       SessionCleanup, FreeAndClose

\* Where the server goes, with the connection it serves and what was sent on it.
LEMMA KeyPlaces ==
  ASSUME Inv, ServerStep
  PROVE  \/ pc = "accept" /\ pc' = "alloc"
         \/ pc = "alloc" /\ pc' \in {"init", "free"} /\ cur' = cur /\ wire' = wire
         \/ pc = "init" /\ cur' = cur /\ wire' = wire /\ sess' \in FreshSessions
              /\ (pc' = "free" \/ (pc' = "hello" /\ sess'.key = PrivateKey))
         \/ pc \in FromHello /\ pc' \in FromHello \cup {"cleanup"}
         \/ pc = "cleanup" /\ pc' = "free"
         \/ pc = "free" /\ pc' = "accept" /\ cur' = cur /\ wire' = wire
  <1>1. CASE SessionInit
    <2>1. PICK key \in {Blank, PrivateKey} :
            /\ sess' = [ZeroSession EXCEPT !.key = key]
            /\ pc' = "free" \/ (key = PrivateKey /\ pc' = "hello")
      BY <1>1 DEF SessionInit
    <2>2. sess' \in FreshSessions /\ sess'.key = key
      BY <2>1 DEF FreshSessions, ZeroSession
    <2> QED BY <1>1, <2>1, <2>2 DEF SessionInit
  <1>2. CASE ~SessionInit
    BY <1>2 DEF ServerStep, Accept, Alloc, ReadFails, ReadClientHello,
       SendServerHello, SendCertificate, SendServerHelloDone, Send, ReadKeyExchange, DeriveKeys,
       ReadChangeCipher, ReadFinished, SendChangeCipher, SendFinished, ReadRequest, Respond,
       SessionCleanup, FreeAndClose
  <1> QED BY <1>1, <1>2

\* Every step keeps it so.
LEMMA KeyStep == Inv /\ KeyInv /\ [Next]_vars => KeyInv'
  <1> SUFFICES ASSUME Inv, KeyInv, [Next]_vars PROVE KeyInv'
    OBVIOUS
  <1>1. CASE ServerStep
    <2>1. pc \in Unserved => cur \in Sessions /\ wire[cur] = << >>
      <3>1. WireLength /\ Shapes
        BY DEF Inv, ServerInv
      <3>2. pc \in Unserved => cur \in Sessions /\ IsSequence(wire[cur]) /\ Len(wire[cur]) = 0
        BY <3>1 DEF WireLength, Shapes
      <3> QED BY <3>2 DEF IsSequence
    <2>2. CASE pc = "init"
      BY <1>1, <2>1, <2>2, KeyPlaces DEF KeyInv
    <2>3. CASE pc # "init"
      <3>1. sess'.key = sess.key
        BY <1>1, <2>3, KeyKept
      <3> QED BY <1>1, <2>1, <2>3, <3>1, KeyPlaces DEF KeyInv
    <2> QED BY <2>2, <2>3
  <1>2. CASE UNCHANGED <<pc, cur, sess, wire>>
    BY <1>2 DEF KeyInv
  <1>3. CASE UNCHANGED vars
    BY <1>2, <1>3 DEF vars, serverVars
  <1>4. CASE \E s \in Sessions : ClientStep(s)
    BY <1>2, <1>4 DEF ClientStep, serverVars
  <1> QED BY <1>1, <1>3, <1>4 DEF Next

\* Whatever step of handle_https_client failed, the secrets the handshake put in
\* tls_session are zero and the buffers freed when main accepts the next
\* connection; the private key is still there (tls_session_cleanup).
THEOREM Wiping == Safety => []OnlyTheKeyStays
  <1>1. Init => KeyInv
    BY TlsAssumption DEF Init, KeyInv, Sessions
  <1>2. Inv /\ KeyInv => OnlyTheKeyStays
    BY DEF Inv, ServerInv, WipedInv, Wiped, KeyInv, OnlyTheKeyStays
  <1> QED BY <1>1, <1>2, KeyStep, InvHolds, PTL DEF Safety

\* What kind of record the i-th of a session is, and its key.
LEMMA RecordKinds ==
  ASSUME Inv, NEW s \in Sessions, NEW i \in DOMAIN wire[s]
  PROVE  /\ i \in 1 .. 6 /\ (i >= 5 => Told(s) \in ServerRandoms)
         /\ i < 5 => wire[s][i].key = Blank /\ wire[s][i].ct # "application_data"
         /\ i >= 5 => wire[s][i].key = ServerKey(Secret(s, Told(s))) /\ wire[s][i].seq = i - 5
         /\ wire[s][i].ct = "change_cipher_spec" <=> i = 4
         /\ i >= 5 => 4 \in DOMAIN wire[s]
  <1>1. WireAt(s) /\ IsSequence(wire[s])
    BY DEF Inv, ServerInv, WireContent, Shapes
  <1>2. PICK n \in Nat : n = Len(wire[s]) /\ DOMAIN wire[s] = 1 .. n
    <2>1. Len(wire[s]) \in Nat
      BY <1>1, Appended
    <2>2. DOMAIN wire[s] = 1 .. Len(wire[s])
      BY <1>1 DEF IsSequence
    <2> QED BY <2>1, <2>2
  <1>3. i \in 1 .. n /\ n <= 6
    BY <1>1, <1>2 DEF WireAt
  <1>4. i = 1 \/ i = 2 \/ i = 3 \/ i = 4 \/ i = 5 \/ i = 6
    BY <1>3
  <1>5. i >= 5 => Told(s) \in ServerRandoms /\ 4 \in DOMAIN wire[s]
    BY <1>1, <1>2, <1>3 DEF WireAt
  <1>6. CASE i < 4
    <2>1. \E body : wire[s][i] = Record("handshake", Blank, 0, body)
      BY <1>1, <1>2, <1>3, <1>4, <1>6 DEF WireAt
    <2>2. wire[s][i].key = Blank /\ wire[s][i].ct = "handshake"
      BY <2>1, RecordFields
    <2> QED BY <1>3, <1>6, <2>2
  <1>7. CASE i = 4
    <2>1. wire[s][i] = Ccs
      BY <1>1, <1>2, <1>3, <1>7 DEF WireAt
    <2>2. wire[s][i].key = Blank /\ wire[s][i].ct = "change_cipher_spec"
      BY <2>1, RecordFields DEF Ccs, Plain
    <2> QED BY <1>3, <1>7, <2>2
  <1>8. CASE i = 5
    <2>1. wire[s][i] = Record("handshake", ServerKey(Secret(s, Told(s))), 0, ServerFinished(s, Told(s)))
      BY <1>1, <1>2, <1>3, <1>8 DEF WireAt
    <2>2. /\ wire[s][i].key = ServerKey(Secret(s, Told(s))) /\ wire[s][i].ct = "handshake"
          /\ wire[s][i].seq = 0
      BY <2>1, RecordFields
    <2> QED BY <1>3, <1>5, <1>8, <2>2
  <1>9. CASE i = 6
    <2>1. wire[s][i] = Response(s, Told(s), heard[s])
      BY <1>1, <1>2, <1>3, <1>9 DEF WireAt
    <2>2. /\ wire[s][i].key = ServerKey(Secret(s, Told(s))) /\ wire[s][i].ct = "application_data"
          /\ wire[s][i].seq = 1
      BY <2>1, RecordFields DEF Response
    <2> QED BY <1>3, <1>5, <1>9, <2>2
  <1> QED BY <1>4, <1>6, <1>7, <1>8, <1>9

\* Keys of different sessions differ, and none is Blank.
LEMMA KeysDiffer ==
  ASSUME NEW s \in Sessions, NEW z \in Sessions, NEW r \in ServerRandoms, NEW q
  PROVE  /\ ServerKey(Secret(s, r)) # Blank
         /\ ServerKey(Secret(s, r)) = ServerKey(Secret(z, q)) => s = z
  <1>1. ServerKey(Secret(s, r)) # Blank
    BY BlankAssumption DEF Secret, ServerRandoms
  <1>2. ServerKey(Secret(s, r)) = ServerKey(Secret(z, q)) => s = z
    BY DEF ServerKey, Secret, Master, PreMaster
  <1> QED BY <1>1, <1>2

\* Records are in the clear up to ChangeCipherSpec and protected after it, and no
\* two records of all connections share key and sequence number, although
\* connections of one second share their server_random.
THEOREM Protection == Safety => []ProtectedOnce
  <1>1. ASSUME Inv PROVE ProtectedOnce
    <2>1. ASSUME NEW s \in Sessions, NEW i \in DOMAIN wire[s]
          PROVE  /\ wire[s][i].key # Blank <=> \E j \in 1 .. i - 1 : wire[s][j].ct = "change_cipher_spec"
                 /\ wire[s][i].ct = "application_data" => wire[s][i].key # Blank
      <3>1. i \in 1 .. 6 /\ (wire[s][i].key # Blank <=> i >= 5)
        BY <1>1, RecordKinds, KeysDiffer
      <3>2. ASSUME NEW j \in 1 .. i - 1 PROVE wire[s][j].ct = "change_cipher_spec" <=> j = 4
        <4>1. j \in DOMAIN wire[s]
          <5>1. IsSequence(wire[s])
            BY <1>1 DEF Inv, Shapes
          <5>2. Len(wire[s]) \in Nat /\ DOMAIN wire[s] = 1 .. Len(wire[s])
            BY <5>1, Appended DEF IsSequence
          <5> QED BY <3>1, <5>2
        <4> QED BY <1>1, <4>1, RecordKinds
      <3>3. i >= 5 <=> \E j \in 1 .. i - 1 : j = 4
        BY <3>1
      <3>4. wire[s][i].ct = "application_data" => i >= 5
        BY <1>1, <3>1, RecordKinds
      <3> QED BY <3>1, <3>2, <3>3, <3>4
    <2>2. ASSUME NEW s \in Sessions, NEW i \in DOMAIN wire[s],
                 NEW z \in Sessions, NEW j \in DOMAIN wire[z],
                 wire[s][i].key # Blank, wire[s][i].key = wire[z][j].key,
                 wire[s][i].seq = wire[z][j].seq
          PROVE  s = z /\ i = j
      <3>1. /\ i \in 1 .. 6 /\ i >= 5 /\ wire[s][i].key = ServerKey(Secret(s, Told(s)))
            /\ wire[s][i].seq = i - 5 /\ Told(s) \in ServerRandoms
        BY <1>1, <2>2, RecordKinds
      <3>2. /\ j \in 1 .. 6 /\ j >= 5 /\ wire[z][j].key = ServerKey(Secret(z, Told(z)))
            /\ wire[z][j].seq = j - 5 /\ Told(z) \in ServerRandoms
        BY <1>1, <2>2, RecordKinds
      <3>3. s = z
        BY <2>2, <3>1, <3>2, KeysDiffer
      <3>4. i = j
        <4>1. i \in 1 .. 6 /\ j \in 1 .. 6 /\ i - 5 = j - 5
          BY <2>2, <3>1, <3>2
        <4> QED BY <4>1
      <3> QED BY <3>3, <3>4
    <2> QED BY <2>1, <2>2 DEF ProtectedOnce
  <1> QED BY <1>1, InvHolds, PTL

-----------------------------------------------------------------------------
(***************************************************************************)
(* TlsServer implements SecureExchange.                                    *)
(***************************************************************************)

USE DEF FromRespond, FromRequest, FromSendFinished, FromSendCipher, FromFinished, FromCipher,
        FromDerive, FromKeys, FromDone, FromCertificate, FromServerHello, FromHello, Unserved

\* One element before two others.
LEMMA OneAndTwo ==
  ASSUME NEW a, NEW b, NEW c PROVE <<a>> \o <<b, c>> = <<a, b, c>>
  <1> DEFINE S == {a, b, c}
             p == <<a>>
             q == <<b, c>>
             t == <<a, b, c>>
  <1>1. p \in Seq(S) /\ q \in Seq(S) /\ t \in Seq(S)
    OBVIOUS
  <1>2. /\ Len(p) = 1 /\ Len(q) = 2 /\ Len(t) = 3 /\ p[1] = a /\ q[1] = b /\ q[2] = c
        /\ t[1] = a /\ t[2] = b /\ t[3] = c
    OBVIOUS
  <1> HIDE DEF p, q, t
  <1>3. IsSequence(p) /\ IsSequence(q)
    BY DEF IsSequence, p, q
  <1>4. /\ Len(p \o q) = 1 + 2
        /\ \A i \in 1 .. 1 : (p \o q)[i] = p[i]
        /\ \A i \in 1 .. 2 : (p \o q)[1 + i] = q[i]
    <2>1. /\ Len(p \o q) = Len(p) + Len(q)
          /\ \A i \in 1 .. Len(p) : (p \o q)[i] = p[i]
          /\ \A i \in 1 .. Len(q) : (p \o q)[Len(p) + i] = q[i]
      BY <1>3, Concatenated
    <2>2. Len(p) = 1 /\ Len(q) = 2
      BY <1>2
    <2> QED BY <2>1, <2>2
  <1>5. (p \o q)[1] = a /\ (p \o q)[2] = b /\ (p \o q)[3] = c
    <2>1. 1 \in 1 .. 1 /\ 1 \in 1 .. 2 /\ 2 \in 1 .. 2 /\ 1 + 1 = 2 /\ 1 + 2 = 3
      OBVIOUS
    <2> QED BY <1>2, <1>4, <2>1
  <1>6. p \o q = t
    <2>1. p \o q \in Seq(S)
      BY <1>1
    <2>2. Len(p \o q) = Len(t)
      BY <1>2, <1>4
    <2>3. \A i \in 1 .. 3 : (p \o q)[i] = t[i]
      <3>1. \A i \in 1 .. 3 : i = 1 \/ i = 2 \/ i = 3
        OBVIOUS
      <3> QED BY <1>2, <1>5, <3>1
    <2>4. PICK u \in Seq(S) : u = p \o q
      BY <2>1
    <2>5. u = t
      <3>1. Len(u) = 3 /\ Len(t) = 3 /\ \A i \in 1 .. 3 : u[i] = t[i]
        BY <1>2, <2>2, <2>3, <2>4
      <3> QED BY <1>1, <3>1
    <2> QED BY <2>4, <2>5
  <1> QED BY <1>6 DEF p, q, t

\* What the abstract exchange sees of the clients.
Asked == [s \in Sessions |-> client[s].asked]
Answered == [s \in Sessions |-> client[s].answer]

\* One component of a function that is built from the clients changes.
LEMMA OneAsked ==
  ASSUME NEW s \in Sessions, NEW v, client'[s].asked = v,
         \A z \in Sessions : z # s => client'[z] = client[z]
  PROVE  Asked' = [Asked EXCEPT ![s] = v]
  BY DEF Asked

\* The same of the answers.
LEMMA OneAnswered ==
  ASSUME NEW s \in Sessions, NEW v, client'[s].answer = v,
         \A z \in Sessions : z # s => client'[z] = client[z]
  PROVE  Answered' = [Answered EXCEPT ![s] = v]
  BY DEF Answered

\* Neither changes when no client changes what it asked and was answered.
LEMMA Unheard ==
  ASSUME \A s \in Sessions : client'[s].asked = client[s].asked /\ client'[s].answer = client[s].answer
  PROVE  Asked' = Asked /\ Answered' = Answered
  BY DEF Asked, Answered

\* The request tls_read returns is what the client of this session has asked.
LEMMA HearsWhatWasAsked ==
  ASSUME Inv, ReadRequest
  PROVE  \/ heard' = heard
         \/ /\ client[cur].asked = <<"request", cur>> /\ heard[cur] = Blank /\ cur \in Sessions
            /\ \E part \in {"whole", "head"} : heard' = [heard EXCEPT ![cur] = <<part, "request", cur>>]
  <1> DEFINE rec == FirstRecord
  <1>1. /\ pc = "request" /\ Incoming
        /\ \/ heard' = heard
           \/ /\ rec.ct = "application_data" /\ rec.body.content # Blank
              /\ heard' = [heard EXCEPT ![cur] = rec.body.content]
    BY DEF ReadRequest
  <1>2. cur \in Sessions /\ Shapes /\ WireLength /\ Reading(cur)
    BY <1>1, InSession
  <1>3. heard[cur] = Blank
    BY <1>1, <1>2 DEF WireLength
  <1>4. PICK r : r = Told(cur)
    OBVIOUS
  <1>5. \/ /\ \E content \in FirstParts(cur) : rec = Request(cur, r, 1, content)
           /\ client[cur].asked = <<"request", cur>>
        \/ rec = Alert
    <2>1. Consumed(cur) + 1 = 5
      BY <1>1, <1>2, ConsumedType DEF Consumed
    <2>2. Expected(cur, 5, rec) \/ rec = Alert
      BY <1>1, <1>2, <2>1, NextRecord DEF Inv
    <2> QED BY <1>4, <2>2 DEF Expected
  <1>6. rec = Alert => rec.ct # "application_data"
    BY RecordFields DEF Alert, Plain
  <1>7. \A content \in FirstParts(cur) : rec = Request(cur, r, 1, content) =>
          rec.body.content \in FirstParts(cur)
    BY RecordFields, MessageFields DEF Request
  <1> HIDE DEF rec
  <1>8. CASE heard' = heard
    BY <1>8
  <1>9. CASE /\ rec.ct = "application_data" /\ rec.body.content # Blank
             /\ heard' = [heard EXCEPT ![cur] = rec.body.content]
    <2>1. /\ client[cur].asked = <<"request", cur>>
          /\ rec.body.content \in {<<"whole", "request", cur>>, <<"head", "request", cur>>}
      BY <1>5, <1>6, <1>7, <1>9 DEF FirstParts
    <2>2. \E part \in {"whole", "head"} : rec.body.content = <<part, "request", cur>>
      BY <2>1
    <2> QED BY <1>2, <1>3, <1>9, <2>1, <2>2
  <1> QED BY <1>1, <1>8, <1>9

\* No other step of the server hears anything, and none changes a client.
LEMMA ServerRefines ==
  ASSUME Inv, ServerStep
  PROVE  [Abstract!ExchangeNext]_<<Asked, heard, Answered>>
  <1>1. client' = client
    BY DEF ServerStep, Accept, Alloc, SessionInit, ReadFails, ReadClientHello, SendServerHello,
       SendCertificate, SendServerHelloDone, Send, ReadKeyExchange, DeriveKeys, ReadChangeCipher,
       ReadFinished, SendChangeCipher, SendFinished, ReadRequest, Respond, SessionCleanup,
       FreeAndClose
  <1>2. Asked' = Asked /\ Answered' = Answered
    BY <1>1, Unheard
  <1>3. CASE ~ReadRequest
    <2>1. heard' = heard
      BY <1>3 DEF ServerStep, Accept, Alloc, SessionInit, ReadFails, ReadClientHello,
         SendServerHello, SendCertificate, SendServerHelloDone, Send, ReadKeyExchange, DeriveKeys,
         ReadChangeCipher, ReadFinished, SendChangeCipher, SendFinished, Respond, SessionCleanup,
         FreeAndClose
    <2> QED BY <1>2, <2>1
  <1>4. CASE heard' = heard
    BY <1>2, <1>4
  <1>5. CASE /\ client[cur].asked = <<"request", cur>> /\ heard[cur] = Blank /\ cur \in Sessions
             /\ \E part \in {"whole", "head"} : heard' = [heard EXCEPT ![cur] = <<part, "request", cur>>]
    <2>1. PICK part \in {"whole", "head"} : heard' = [heard EXCEPT ![cur] = <<part, "request", cur>>]
      BY <1>5
    <2>2. Asked[cur] = <<"request", cur>>
      BY <1>5 DEF Asked
    <2>3. <<part>> \o Asked[cur] = <<part, "request", cur>>
      <3>1. <<part>> \o <<"request", cur>> = <<part, "request", cur>>
        BY OneAndTwo
      <3> QED BY <2>2, <3>1
    <2>4. Asked[cur] # Blank
      BY <1>5, <2>2, BlankAssumption
    <2>5. Abstract!Hear(cur)
      BY <1>2, <1>5, <2>1, <2>3, <2>4 DEF Abstract!Hear, Asked, Answered
    <2> QED BY <1>5, <2>5 DEF Abstract!ExchangeNext
  <1> QED BY <1>3, <1>4, <1>5, HearsWhatWasAsked

\* A client asks once, and takes as the answer what the server said to its request.
LEMMA ClientRefines ==
  ASSUME Inv, NEW s \in Sessions, ClientStep(s)
  PROVE  [Abstract!ExchangeNext]_<<Asked, heard, Answered>>
  <1>1. /\ DOMAIN client = Sessions /\ DOMAIN client[s] = ClientFields
        /\ ClientAt(s) /\ WireAt(s) /\ Len(wire[s]) \in Nat
    BY ClientKnown
  <1>2. heard' = heard /\ wire' = wire
    BY DEF ClientStep, serverVars
  <1>3. CASE SendRequest(s)
    <2>1. PICK c : c = [client[s] EXCEPT !.at = "answer", !.asked = <<"request", s>>]
      OBVIOUS
    <2>2. client[s].at = "ask" /\ client' = [client EXCEPT ![s] = c]
      BY <1>3, <2>1 DEF SendRequest, Become
    <2>3. c.asked = <<"request", s>> /\ c.answer = client[s].answer
      BY <1>1, <2>1 DEF ClientFields
    <2>4. client'[s] = c /\ \A z \in Sessions : z # s => client'[z] = client[z]
      BY <1>1, <2>2
    <2>5. Asked' = [Asked EXCEPT ![s] = <<"request", s>>]
      BY <2>3, <2>4, OneAsked
    <2>6. Answered' = Answered
      BY <2>3, <2>4 DEF Answered
    <2>7. Asked[s] = Blank
      BY <1>1, <2>2 DEF Asked, ClientAt, Places
    <2>8. Abstract!Ask(s)
      BY <1>2, <2>5, <2>6, <2>7 DEF Abstract!Ask, Asked, Answered
    <2> QED BY <2>8 DEF Abstract!ExchangeNext
  <1>4. CASE ReadAnswer(s)
    <2>1. PICK r : r = Told(s)
      OBVIOUS
    <2>2. client[s].at = "answer" /\ Unread(s)
      BY <1>4 DEF ReadAnswer
    <2>3. client[s].read = 5 /\ client[s].answer = Blank
      BY <1>1, <2>2 DEF ClientAt, Places
    <2>4. Len(wire[s]) >= 6 /\ Reply(s) = wire[s][6]
      BY <2>2, <2>3, NextReply
    <2>5. Reply(s) = Response(s, r, heard[s]) /\ heard[s] \in Requests(s)
      BY <1>1, <2>1, <2>4 DEF WireAt
    <2>6. Reply(s).body.content = <<"response", heard[s]>>
      BY <2>5, RecordFields, MessageFields DEF Response
    <2>7. CASE Refuse(s)
      <3>1. PICK c : c = [client[s] EXCEPT !.at = "gone", !.alarm = TRUE]
        OBVIOUS
      <3>2. c.asked = client[s].asked /\ c.answer = client[s].answer
        BY <1>1, <3>1 DEF ClientFields
      <3>3. client'[s] = c /\ \A z \in Sessions : z # s => client'[z] = client[z]
        BY <1>1, <2>7, <3>1 DEF Refuse, Become
      <3> QED BY <1>2, <3>2, <3>3, Unheard
    <2>8. CASE ~Refuse(s)
      <3>1. PICK v : v = Reply(s).body.content
        OBVIOUS
      <3>2. PICK c : c = [client[s] EXCEPT !.at = "over", !.read = @ + 1, !.server_seq = @ + 1,
                                           !.answer = v]
        OBVIOUS
      <3>3. client' = [client EXCEPT ![s] = c]
        BY <1>4, <2>8, <3>1, <3>2 DEF ReadAnswer, Become
      <3>4. c.asked = client[s].asked /\ c.answer = v
        BY <1>1, <3>2 DEF ClientFields
      <3>5. client'[s] = c /\ \A z \in Sessions : z # s => client'[z] = client[z]
        BY <1>1, <3>3
      <3>6. Answered' = [Answered EXCEPT ![s] = v]
        BY <3>4, <3>5, OneAnswered
      <3>7. Asked' = Asked
        BY <3>4, <3>5 DEF Asked
      <3>8. heard[s] # Blank /\ Answered[s] = Blank /\ v = <<"response", heard[s]>>
        BY <2>3, <2>5, <2>6, <3>1, BlankAssumption DEF Requests, Answered
      <3>9. Abstract!Answer(s)
        BY <1>2, <3>6, <3>7, <3>8 DEF Abstract!Answer, Asked, Answered
      <3> QED BY <3>9 DEF Abstract!ExchangeNext
    <2> QED BY <2>7, <2>8
  <1>5. CASE ~SendRequest(s) /\ ~ReadAnswer(s)
    <2>1. \E c : /\ client' = [client EXCEPT ![s] = c]
                 /\ c.asked = client[s].asked /\ c.answer = client[s].answer
      <3>1. ASSUME NEW c, Become(s, c), c.asked = client[s].asked, c.answer = client[s].answer
            PROVE  \E d : /\ client' = [client EXCEPT ![s] = d]
                          /\ d.asked = client[s].asked /\ d.answer = client[s].answer
        BY <3>1 DEF Become
      <3>2. CASE SendClientHello(s) \/ SendKeys(s)
        <4>1. PICK place, h : Become(s, [client[s] EXCEPT !.at = place, !.hash = h])
          BY <3>2 DEF SendClientHello, SendKeys
        <4>2. PICK c : c = [client[s] EXCEPT !.at = place, !.hash = h]
          OBVIOUS
        <4>3. c.asked = client[s].asked /\ c.answer = client[s].answer
          BY <1>1, <4>2 DEF ClientFields
        <4> QED BY <3>1, <4>1, <4>2, <4>3
      <3>3. CASE ReadFlight(s)
        <4>1. PICK c : c = [client[s] EXCEPT !.read = @ + 1, !.hash = Append(@, Reply(s).body)]
          OBVIOUS
        <4>2. DOMAIN c = ClientFields /\ c.asked = client[s].asked /\ c.answer = client[s].answer
          BY <1>1, <4>1 DEF ClientFields
        <4>3. \/ Refuse(s) \/ \E place : Become(s, [c EXCEPT !.at = place])
              \/ \E place, r : Become(s, [c EXCEPT !.at = place, !.server_random = r])
          BY <3>3, <4>1 DEF ReadFlight
        <4>4. CASE Refuse(s)
          <5>1. PICK d : d = [client[s] EXCEPT !.at = "gone", !.alarm = TRUE]
            OBVIOUS
          <5>2. d.asked = client[s].asked /\ d.answer = client[s].answer
            BY <1>1, <5>1 DEF ClientFields
          <5> QED BY <3>1, <4>4, <5>1, <5>2 DEF Refuse
        <4>5. CASE \E place : Become(s, [c EXCEPT !.at = place])
          <5>1. PICK place : Become(s, [c EXCEPT !.at = place])
            BY <4>5
          <5>2. PICK d : d = [c EXCEPT !.at = place]
            OBVIOUS
          <5>3. d.asked = client[s].asked /\ d.answer = client[s].answer
            BY <4>2, <5>2 DEF ClientFields
          <5> QED BY <3>1, <5>1, <5>2, <5>3
        <4>6. CASE \E place, r : Become(s, [c EXCEPT !.at = place, !.server_random = r])
          <5>1. PICK place, r : Become(s, [c EXCEPT !.at = place, !.server_random = r])
            BY <4>6
          <5>2. PICK d : d = [c EXCEPT !.at = place, !.server_random = r]
            OBVIOUS
          <5>3. d.asked = client[s].asked /\ d.answer = client[s].answer
            BY <4>2, <5>2 DEF ClientFields
          <5> QED BY <3>1, <5>1, <5>2, <5>3
        <4> QED BY <4>3, <4>4, <4>5, <4>6
      <3>4. CASE ReadCcs(s) \/ ReadServerFinished(s) \/ Leave(s)
        <4>1. \/ Refuse(s)
              \/ Become(s, [client[s] EXCEPT !.at = "Finished", !.read = @ + 1])
              \/ Become(s, [client[s] EXCEPT !.at = "ask", !.read = @ + 1, !.server_seq = @ + 1])
              \/ Become(s, [client[s] EXCEPT !.at = "gone"])
          BY <3>4 DEF ReadCcs, ReadServerFinished, Leave
        <4>2. PICK d : /\ Become(s, d)
                       /\ d \in {[client[s] EXCEPT !.at = "gone", !.alarm = TRUE],
                                 [client[s] EXCEPT !.at = "Finished", !.read = @ + 1],
                                 [client[s] EXCEPT !.at = "ask", !.read = @ + 1, !.server_seq = @ + 1],
                                 [client[s] EXCEPT !.at = "gone"]}
          BY <4>1 DEF Refuse
        <4>3. d.asked = client[s].asked /\ d.answer = client[s].answer
          BY <1>1, <4>2 DEF ClientFields
        <4> QED BY <3>1, <4>2, <4>3
      <3> QED BY <1>5, <3>2, <3>3, <3>4 DEF ClientStep
    <2>2. PICK c : /\ client' = [client EXCEPT ![s] = c]
                   /\ c.asked = client[s].asked /\ c.answer = client[s].answer
      BY <2>1
    <2>3. client'[s] = c /\ \A z \in Sessions : z # s => client'[z] = client[z]
      BY <1>1, <2>2
    <2> QED BY <1>2, <2>2, <2>3, Unheard
  <1> QED BY <1>3, <1>4, <1>5

\* Every exchange is private to its two ends: tls_read hears what this client
\* asked, the client takes as the answer what Respond wrote to that, each once.
THEOREM Refinement == Safety => RefinesSecureExchange
  <1>1. Init => Asked = [s \in Sessions |-> Blank] /\ Answered = [s \in Sessions |-> Blank]
    <2>1. Init => \A s \in Sessions : client[s].asked = Blank /\ client[s].answer = Blank
      <3>1. \A suite : NewClient(suite).asked = Blank /\ NewClient(suite).answer = Blank
        BY DEF NewClient
      <3>2. Init => \A s \in Sessions : \E suite \in BOOLEAN : client[s] = NewClient(suite)
        BY DEF Init
      <3> QED BY <3>1, <3>2
    <2> QED BY <2>1 DEF Asked, Answered
  <1>2. Init => Abstract!ExchangeInit
    BY <1>1 DEF Init, Abstract!ExchangeInit, Asked, Answered
  <1>3. Inv /\ [Next]_vars => [Abstract!ExchangeNext]_<<Asked, heard, Answered>>
    <2>1. ASSUME UNCHANGED vars PROVE UNCHANGED <<Asked, heard, Answered>>
      BY <2>1 DEF vars, serverVars, Asked, Answered
    <2> QED BY <2>1, ServerRefines, ClientRefines DEF Next
  <1>4. Inv /\ [Next]_vars => [Abstract!ExchangeNext]_(Abstract!exchangeVars)
    BY <1>3 DEF Abstract!exchangeVars, Asked, Answered
  <1> QED BY <1>2, <1>4, InvHolds, PTL DEF Safety, RefinesSecureExchange, Abstract!Exchange

=============================================================================
