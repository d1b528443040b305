-------------------------- MODULE HttpServerProofs --------------------------
(***************************************************************************)
(* Theorems about HttpServer, for any clients, requests, buffer sizes and  *)
(* stack garbage.  The inductive invariant is built from named parts; each *)
(* theorem uses the parts it needs.                                        *)
(***************************************************************************)
EXTENDS HttpServer, TLAPS, SequenceTheorems

(***************************************************************************)
(* Type correctness.                                                       *)
(***************************************************************************)

\* Once the router has run, res.body_len is a length and no longer garbage.
RoutedLength ==
  pc = "build" => IF res.from = "file" THEN res.len \in 0 .. FileCap - 1
                                       ELSE res.len = StaticLen

TypeInv == TypeOK /\ RoutedLength

\* The initial states are well typed.
LEMMA TypeInit == Init => TypeInv
<1>. SUFFICES ASSUME Init PROVE TypeInv
  OBVIOUS
<1>. USE DEF Init, TcpInit
<1>1. TcpTypeOK(Origin)
  BY HttpAssumption DEF TcpTypeOK, Request
<1>2. cachedLen \in Nat
  BY HttpAssumption DEF CacheIndex
<1>3. QED
  BY <1>1, <1>2, RoutingAssumption, HttpAssumption
     DEF TypeInv, RoutedLength, TypeOK, Origin, Labels

\* Filling the start of a buffer keeps its type.
LEMMA FillType ==
  ASSUME NEW D, NEW S, NEW buf \in [D -> S], NEW n, NEW o \in S
  PROVE  Fill(buf, n, o) \in [D -> S]
  BY DEF Fill

\* What fast_send writes is a sequence of origins.
LEMMA OutgoingType ==
  ASSUME TypeOK
  PROVE  Outgoing \in Seq(Origin) /\ Len(Outgoing) \in Nat
<1>. USE DEF TypeOK
<1>1. CASE pc = "sendCached"
  <2>1. IndexByte \in Origin
    BY DEF Origin
  <2>2. QED
    BY <1>1, <2>1 DEF Outgoing
<1>2. CASE pc # "sendCached"
  <2>1. \A i \in 1 .. respLen : sendBuf[i] \in Origin
    BY RoutingAssumption
  <2>2. QED
    BY <1>2, <2>1 DEF Outgoing
<1>3. QED
  BY <1>1, <1>2

\* What a segment takes from the client arrives at the server.
LEMMA SegmentFacts ==
  ASSUME NEW a \in Nat, NEW b \in Nat, NEW n \in 1 .. a
  PROVE  a - n \in Nat /\ b + n \in Nat
  OBVIOUS

\* Every call of the handler and every step of a client keeps the types.
LEMMA TypeStep == TypeInv /\ [Next]_vars => TypeInv'
<1>. SUFFICES ASSUME TypeOK, RoutedLength, [Next]_vars PROVE TypeOK' /\ RoutedLength'
  BY DEF TypeInv
<1>0. Clients \subseteq Origin /\ Zero \in Origin /\ IndexByte \in Origin
  BY DEF Origin
<1>. USE RoutingAssumption DEF TypeOK, TcpTypeOK, Labels, RoutedLength
<1>1. CASE Accept
  <2>1. PICK c \in Clients : AcceptConn(c) /\ cur' = c
    BY <1>1 DEF Accept
  <2>2. PICK g \in StackGarbage : res' = [from |-> "file", len |-> g]
    BY <1>1 DEF Accept
  <2>3. backlog' \in Seq(Clients) /\ conn' \in [Clients -> {"new", "queued", "open", "closed"}]
    BY <2>1 DEF AcceptConn
  <2>4. res' \in [from : {"static", "file"}, len : Int]
    BY <2>2, HttpAssumption
  <2>5. TcpTypeOK(Origin)' /\ cur' \in Clients
    BY <2>1, <2>3 DEF AcceptConn
  <2>6. /\ pc' = "recv" /\ got' = 0 /\ respLen' = 0 /\ sent' = 0
        /\ UNCHANGED <<req, cachedLen, recvBuf, sendBuf, fileBuf, resp>>
    BY <1>1 DEF Accept
  <2>7. RoutedLength'
    BY <2>6
  <2>8. /\ recvBuf' \in [1 .. RecvCap -> Origin]
        /\ sendBuf' \in [1 .. SendCap -> Origin]
        /\ fileBuf' \in [1 .. FileCap -> Origin]
        /\ req' \in [Clients -> Requests] /\ resp' \in [Clients -> Nat]
    BY <2>6
  <2>9. /\ cachedLen' \in Nat /\ pc' \in Labels /\ sent' \in Nat
        /\ got' \in -1 .. RecvCap - 1 /\ respLen' \in 0 .. SendCap
    BY <2>6
  <2>10. QED
    BY <2>4, <2>5, <2>7, <2>8, <2>9
<1>2. CASE AcceptFails
  <2>1. PICK c \in Clients : AcceptAborted(c)
    BY <1>2 DEF AcceptFails
  <2>2. backlog' \in Seq(Clients) /\ conn' \in [Clients -> {"new", "queued", "open", "closed"}]
    BY <2>1 DEF AcceptAborted
  <2>3. QED
    BY <1>2, <2>1, <2>2 DEF AcceptFails, AcceptAborted, serverVars
<1>3. CASE Recv
  <2>1. PICK n \in RecvResults(cur, RecvCap - 1) :
          Take(cur, n) /\ got' = n /\ recvBuf' = Fill(recvBuf, n, cur)
            /\ pc' = IF n <= 0 THEN "cleanup" ELSE "parse"
    BY <1>3 DEF Recv
  <2>2. n \in -1 .. RecvCap - 1 /\ (n > 0 => n <= inq[cur])
    BY <2>1 DEF RecvResults, Least
  <2>3. inq' \in [Clients -> Nat]
    BY <2>1, <2>2 DEF Take
  <2>4. recvBuf' \in [1 .. RecvCap -> Origin]
    BY <2>1, <1>0, FillType
  <2>5. QED
    BY <1>3, <2>1, <2>2, <2>3, <2>4 DEF Recv, Take
<1>4. CASE ParseRejects
  BY <1>4 DEF ParseRejects, tcpVars, bufVars
<1>5. CASE ParseAccepts
  <2>1. pc' \in Labels /\ resp' \in [Clients -> Nat]
    BY <1>5 DEF ParseAccepts
  <2>2. QED
    BY <1>5, <2>1 DEF ParseAccepts, tcpVars, bufVars
<1>6. CASE Route
  <2>1. PICK r \in RouteResults(req[cur]) :
          /\ res' = [from |-> r.from, len |-> r.len]
          /\ fileBuf' = IF r.from = "file" THEN Fill(fileBuf, r.len, cur) ELSE fileBuf
    BY <1>6 DEF Route
  <2>2. r.from \in {"static", "file"} /\ r.len \in Int
    BY <2>1 DEF RouteResults
  <2>3. fileBuf' \in [1 .. FileCap -> Origin]
    BY <2>1, <1>0, FillType
  <2>4. RoutedLength'
    BY <2>1 DEF RouteResults
  <2>5. res' \in [from : {"static", "file"}, len : Int]
    BY <2>1, <2>2
  <2>6. pc' = "build" /\ UNCHANGED <<tcpVars, req, cachedLen, cur, recvBuf, sendBuf, got, respLen, sent, resp>>
    BY <1>6 DEF Route
  <2>7. QED
    BY <2>3, <2>4, <2>5, <2>6 DEF tcpVars
<1>7. CASE BuildFits
  <2>1. PICK h \in 1 .. HeaderMax :
          /\ HeaderFits(h) /\ BodyFits(h, res.len)
          /\ sendBuf' = Built(sendBuf, h, res, fileBuf, cur)
          /\ respLen' = h + res.len
          /\ resp' = [resp EXCEPT ![cur] = h + res.len]
    BY <1>7 DEF BuildFits
  <2>2. res.len \in Nat
    BY <1>7 DEF BuildFits
  <2>3. h + res.len \in 0 .. SendCap
    BY <2>1, <2>2 DEF BodyFits
  <2>4. sendBuf' \in [1 .. SendCap -> Origin]
    <3>1. ASSUME NEW i \in 1 .. SendCap, i > h, i <= h + res.len, res.from = "file"
          PROVE  fileBuf[i - h] \in Origin
      BY <1>7, <3>1 DEF BuildFits
    <3>2. QED
      BY <1>0, <2>1, <2>2, <3>1 DEF Built
  <2>5. QED
    <3>1. /\ pc' = "send"
          /\ UNCHANGED <<tcpVars, req, cachedLen, cur, recvBuf, fileBuf, got, res, sent>>
      BY <1>7 DEF BuildFits
    <3>2. resp' \in [Clients -> Nat]
      BY <2>1, <2>3
    <3>3. QED
      BY <2>1, <2>3, <2>4, <3>1, <3>2 DEF tcpVars
<1>8. CASE BuildOverflows
  <2>1. PICK h \in 1 .. HeaderMax : sendBuf' = Fill(sendBuf, h, cur)
    BY <1>8 DEF BuildOverflows
  <2>2. sendBuf' \in [1 .. SendCap -> Origin]
    BY <2>1, <1>0, FillType
  <2>3. QED
    BY <1>8, <2>2 DEF BuildOverflows, tcpVars
<1>9. CASE Write
  <2>1. PICK n \in 1 .. Least(Room(cur), Len(Outgoing) - sent) :
          Put(cur, SubSeq(Outgoing, sent + 1, sent + n)) /\ sent' = sent + n
    BY <1>9 DEF Write
  <2>. DEFINE O == Outgoing
  <2>a. O \in Seq(Origin) /\ Len(O) \in Nat
    BY OutgoingType
  <2>2. n \in Nat /\ sent + n <= Len(O)
    <3>1. Room(cur) \in Int
      BY TcpAssumption DEF Room
    <3>2. n \in 1 .. Least(Room(cur), Len(O) - sent)
      BY <2>1
    <3>. HIDE DEF O
    <3>3. QED
      BY <2>a, <3>1, <3>2 DEF Least
  <2>3. SubSeq(O, sent + 1, sent + n) \in Seq(Origin)
    <3>. HIDE DEF O
    <3>1. \A i \in 1 .. Len(O) : O[i] \in Origin
      BY <2>a
    <3>2. \A i \in sent + 1 .. sent + n : i \in 1 .. Len(O)
      BY <2>2, <2>a
    <3>3. QED
      BY <2>2, <3>1, <3>2, SubSeqProperties
  <2>4. out' \in [Clients -> Seq(Origin)]
    BY <2>1, <2>3 DEF Put
  <2>5. /\ sent' \in Nat
        /\ UNCHANGED <<req, cachedLen, pc, cur, bufVars, got, respLen, res, resp>>
        /\ UNCHANGED <<conn, backlog, unsent, inq, peer, drained>>
    BY <1>9, <2>1, <2>2 DEF Write, Put
  <2>6. QED
    BY <2>4, <2>5 DEF bufVars
<1>10. CASE SendReturns
  BY <1>10 DEF SendReturns, AfterSend, tcpVars, bufVars
<1>11. CASE WipeRecv
  <2>1. recvBuf' \in [1 .. RecvCap -> Origin]
    BY <1>11, <1>0, FillType DEF WipeRecv, RecvWiped
  <2>2. QED
    BY <1>11, <2>1 DEF WipeRecv, tcpVars
<1>12. CASE Cleanup
  <2>1. /\ recvBuf' \in [1 .. RecvCap -> Origin]
        /\ sendBuf' \in [1 .. SendCap -> Origin]
        /\ fileBuf' \in [1 .. FileCap -> Origin]
    BY <1>12, <1>0, FillType DEF Cleanup, RecvWiped
  <2>2. QED
    BY <1>12, <2>1 DEF Cleanup, tcpVars
<1>13. CASE Close
  BY <1>13 DEF Close, CloseConn, bufVars
<1>14. ASSUME NEW c \in Clients, ClientStep(c), UNCHANGED <<req, serverVars>>
       PROVE  TypeOK' /\ RoutedLength'
  <2>1. TcpTypeOK(Origin)'
    <3>1. CASE Connect(c)
      <4>1. backlog' \in Seq(Clients) /\ conn' \in [Clients -> {"new", "queued", "open", "closed"}]
        BY <3>1 DEF Connect
      <4>2. QED
        BY <3>1, <4>1 DEF Connect
    <3>2. CASE Segment(c)
      <4>1. PICK n \in 1 .. unsent[c] :
              /\ unsent' = [unsent EXCEPT ![c] = @ - n]
              /\ inq' = [inq EXCEPT ![c] = @ + n]
        BY <3>2 DEF Segment
      <4>2. unsent[c] \in Nat /\ inq[c] \in Nat
        OBVIOUS
      <4>. HIDE DEF TypeOK, RoutedLength, TcpTypeOK
      <4>3. unsent[c] - n \in Nat /\ inq[c] + n \in Nat
        BY <4>2, SegmentFacts
      <4>. USE DEF TypeOK, RoutedLength, TcpTypeOK
      <4>4. unsent' \in [Clients -> Nat] /\ inq' \in [Clients -> Nat]
        BY <4>1, <4>3
      <4>5. QED
        BY <3>2, <4>4 DEF Segment
    <3>3. CASE Finish(c)
      BY <3>3 DEF Finish
    <3>4. CASE Vanish(c)
      BY <3>4 DEF Vanish
    <3>5. CASE Drain(c)
      <4>1. drained' \in [Clients -> Nat]
        BY <3>5 DEF Drain
      <4>2. QED
        BY <3>5, <4>1 DEF Drain
    <3>6. QED
      BY <1>14, <3>1, <3>2, <3>3, <3>4, <3>5 DEF ClientStep
  <2>2. QED
    BY <1>14, <2>1 DEF serverVars
<1>15. CASE UNCHANGED vars
  BY <1>15 DEF vars, tcpVars, serverVars
<1>16. QED
  BY <1>1, <1>2, <1>3, <1>4, <1>5, <1>6, <1>7, <1>8, <1>9, <1>10, <1>11, <1>12,
     <1>13, <1>14, <1>15 DEF Next, ServerStep

\* Every variable keeps its type, whatever the sizes of the buffers.
THEOREM TypeCorrect == Safety => []TypeOK
<1>1. TypeInv => TypeOK
  BY DEF TypeInv
<1>2. QED
  BY <1>1, TypeInit, TypeStep, PTL DEF Safety
(***************************************************************************)
(* Clean buffers.  The invariant ties every byte that is not Zero to the   *)
(* length with which the handler is going to wipe it.                      *)
(***************************************************************************)

\* The send buffer holds the longest header and the longest body, as the sizes
\* in main.c:34-36 make sure (1 MB against 512 KB).
Roomy ==
  /\ HeaderMax < SendCap
  /\ HeaderMax + FileCap <= SendCap /\ HeaderMax + StaticLen <= SendCap

RecvCovered ==
  \A i \in 1 .. RecvCap : recvBuf[i] # Zero =>
    i <= got /\ pc \in {"parse", "route", "build", "sendCached", "send", "cleanup", "wipeRecv"}

SendCovered ==
  \A i \in 1 .. SendCap : sendBuf[i] # Zero => i <= respLen /\ pc \in {"send", "cleanup"}

FileCovered ==
  \A i \in 1 .. FileCap : fileBuf[i] # Zero =>
    i <= res.len /\ pc \in {"build", "send", "cleanup"}

BufInv == TypeInv /\ RecvCovered /\ SendCovered /\ FileCovered

\* What is in the receive buffer lies within the length recv returned.
LEMMA RecvStep == BufInv /\ [Next]_vars => RecvCovered'
<1>. SUFFICES ASSUME TypeOK, RecvCovered, [Next]_vars,
                     NEW i \in 1 .. RecvCap, recvBuf'[i] # Zero
              PROVE  i <= got' /\ pc' \in {"parse", "route", "build", "sendCached", "send",
                                           "cleanup", "wipeRecv"}
  BY DEF BufInv, TypeInv, RecvCovered
<1>. USE DEF RecvCovered
<1>1. recvBuf \in [1 .. RecvCap -> Origin] /\ got \in -1 .. RecvCap - 1 /\ RecvCap \in Nat
  BY RoutingAssumption DEF TypeOK
<1>2. CASE Recv
  <2>1. PICK n \in RecvResults(cur, RecvCap - 1) :
          got' = n /\ recvBuf' = Fill(recvBuf, n, cur)
            /\ pc' = IF n <= 0 THEN "cleanup" ELSE "parse"
    BY <1>2 DEF Recv
  <2>2. pc = "recv" /\ recvBuf[i] = Zero
    BY <1>2 DEF Recv
  <2>3. QED
    BY <1>1, <2>1, <2>2 DEF Fill
<1>3. CASE WipeRecv \/ Cleanup
  <2>1. recvBuf' = RecvWiped /\ RecvWiped[i] # Zero
    BY <1>3 DEF WipeRecv, Cleanup
  <2>2. recvBuf[i] # Zero /\ (got > 0 => i > got + 1)
    BY <1>1, <2>1 DEF RecvWiped, Fill
  <2>3. QED
    BY <1>1, <2>2
<1>4. CASE ~Recv /\ ~WipeRecv /\ ~Cleanup
  <2>1. /\ recvBuf' = recvBuf
        /\ pc = "accept" => pc' \in {"accept", "recv"}
        /\ pc' # pc /\ pc # "accept" =>
             pc' \in {"parse", "route", "build", "sendCached", "send", "cleanup", "wipeRecv"}
             \/ pc = "close"
        /\ got' # got => pc = "accept"
    BY <1>4 DEF Next, ServerStep, Accept, AcceptFails, ParseRejects, ParseAccepts, Route,
         BuildFits, BuildOverflows, Write, SendReturns, AfterSend, Close, vars, serverVars, bufVars
  <2>2. QED
    BY <1>1, <2>1
<1>5. QED
  BY <1>2, <1>3, <1>4

\* If everything fits, what is in the send buffer lies within the built length.
LEMMA SendStep == Roomy /\ BufInv /\ [Next]_vars => SendCovered'
<1>. SUFFICES ASSUME Roomy, TypeOK, RoutedLength, SendCovered, [Next]_vars,
                     NEW i \in 1 .. SendCap, sendBuf'[i] # Zero
              PROVE  i <= respLen' /\ pc' \in {"send", "cleanup"}
  BY DEF BufInv, TypeInv, SendCovered
<1>. USE DEF SendCovered
<1>1. sendBuf \in [1 .. SendCap -> Origin] /\ respLen \in 0 .. SendCap /\ SendCap \in Nat
  BY RoutingAssumption DEF TypeOK
<1>2. CASE BuildFits
  <2>1. PICK h \in 1 .. HeaderMax :
          sendBuf' = Built(sendBuf, h, res, fileBuf, cur) /\ respLen' = h + res.len
    BY <1>2 DEF BuildFits
  <2>2. pc = "build" /\ pc' = "send" /\ sendBuf[i] = Zero /\ res.len \in Nat
    BY <1>2, RoutingAssumption DEF BuildFits, RoutedLength
  <2>3. ~(i > h + res.len)
    BY <1>1, <2>1, <2>2, RoutingAssumption DEF Built
  <2>4. QED
    BY <1>1, <2>1, <2>2, <2>3, RoutingAssumption
<1>3. CASE BuildOverflows
  <2>1. PICK h \in 1 .. HeaderMax : ~(HeaderFits(h) /\ BodyFits(h, res.len))
    BY <1>3 DEF BuildOverflows
  <2>2. res.len \in 0 .. FileCap - 1 \/ res.len = StaticLen
    BY <1>3 DEF BuildOverflows, RoutedLength
  <2>3. QED
    BY <1>1, <2>1, <2>2, RoutingAssumption DEF Roomy, HeaderFits, BodyFits
<1>4. CASE Cleanup
  <2>1. sendBuf[i] # Zero /\ (respLen > 0 => i > respLen)
    BY <1>1, <1>4 DEF Cleanup, Fill
  <2>2. QED
    BY <1>1, <2>1
<1>5. CASE ~BuildFits /\ ~BuildOverflows /\ ~Cleanup
  <2>1. /\ sendBuf' = sendBuf
        /\ pc = "send" => pc' \in {"send", "cleanup"}
        /\ pc = "cleanup" => pc' = "cleanup"
        /\ respLen' # respLen => pc = "accept"
    BY <1>5 DEF Next, ServerStep, Accept, AcceptFails, Recv, ParseRejects, ParseAccepts, Route,
         Write, SendReturns, AfterSend, WipeRecv, Close, vars, serverVars, bufVars
  <2>2. QED
    BY <1>1, <2>1
<1>6. QED
  BY <1>2, <1>3, <1>4, <1>5

\* What is in the file buffer lies within the length of the response body.
LEMMA FileStep == BufInv /\ [Next]_vars => FileCovered'
<1>. SUFFICES ASSUME TypeOK, FileCovered, [Next]_vars,
                     NEW i \in 1 .. FileCap, fileBuf'[i] # Zero
              PROVE  i <= res'.len /\ pc' \in {"build", "send", "cleanup"}
  BY DEF BufInv, TypeInv, FileCovered
<1>. USE DEF FileCovered
<1>1. fileBuf \in [1 .. FileCap -> Origin] /\ res.len \in Int /\ FileCap \in Nat
  BY RoutingAssumption DEF TypeOK
<1>2. CASE Route
  <2>1. PICK r \in RouteResults(req[cur]) :
          /\ res' = [from |-> r.from, len |-> r.len]
          /\ fileBuf' = IF r.from = "file" THEN Fill(fileBuf, r.len, cur) ELSE fileBuf
    BY <1>2 DEF Route
  <2>2. pc' = "build" /\ fileBuf[i] = Zero /\ r.len \in Int
    BY <1>2, RoutingAssumption DEF Route, RouteResults
  <2>3. QED
    BY <1>1, <2>1, <2>2 DEF Fill
<1>3. CASE Cleanup
  <2>1. fileBuf[i] # Zero /\ (res.len > 0 => i > res.len)
    BY <1>1, <1>3 DEF Cleanup, Fill
  <2>2. QED
    BY <1>1, <2>1
<1>4. CASE ~Route /\ ~Cleanup
  <2>1. /\ fileBuf' = fileBuf
        /\ pc \in {"build", "send"} => pc' \in {"build", "send", "cleanup"}
        /\ pc = "cleanup" => pc' = "cleanup"
        /\ res' # res => pc = "accept"
    BY <1>4 DEF Next, ServerStep, Accept, AcceptFails, Recv, ParseRejects, ParseAccepts,
         BuildFits, BuildOverflows, Write, SendReturns, AfterSend, WipeRecv, Close,
         vars, serverVars, bufVars
  <2>2. QED
    BY <1>1, <2>1
<1>5. QED
  BY <1>2, <1>3, <1>4

\* README.md:67-68: no byte of a client is left in any buffer when the server
\* turns to the next one, for all buffer sizes in the proportions of main.c and
\* whatever the uninitialised length holds.
THEOREM CleanBuffers ==
  ASSUME Roomy
  PROVE  Safety => []BuffersCleanBetweenClients
<1>1. Init => BufInv
  BY TypeInit DEF Init, BufInv, RecvCovered, SendCovered, FileCovered
<1>2. BufInv /\ [Next]_vars => BufInv'
  BY Roomy, TypeStep, RecvStep, SendStep, FileStep DEF BufInv
<1>3. BufInv => BuffersCleanBetweenClients
  BY DEF BufInv, TypeInv, TypeOK, RecvCovered, SendCovered, FileCovered,
         BuffersCleanBetweenClients
<1>4. QED
  BY <1>1, <1>2, <1>3, PTL DEF Safety
(***************************************************************************)
(* Connections: the backlog and the descriptor in use.                     *)
(***************************************************************************)

ConnInv ==
  /\ \A i \in 1 .. Len(backlog) : conn[backlog[i]] = "queued"
  /\ \A i, j \in 1 .. Len(backlog) : backlog[i] = backlog[j] => i = j
  /\ \A c \in Clients : conn[c] = "open" <=> pc # "accept" /\ c = cur

\* What taking the head of the backlog does to it.
LEMMA TailFacts ==
  ASSUME NEW S, NEW s \in Seq(S), s # << >>
  PROVE  /\ Head(s) = s[1] /\ Head(s) \in S /\ Tail(s) \in Seq(S)
         /\ Len(Tail(s)) = Len(s) - 1 /\ Len(s) \in Nat \ {0}
         /\ \A i \in 1 .. Len(s) - 1 : Tail(s)[i] = s[i + 1]
  OBVIOUS

\* Accepting, closing, arriving and leaving keep backlog and connections in line.
LEMMA ConnStep == TypeOK /\ ConnInv /\ [Next]_vars => ConnInv'
<1>. SUFFICES ASSUME TypeOK, ConnInv, [Next]_vars PROVE ConnInv'
  OBVIOUS
<1>1. conn \in [Clients -> {"new", "queued", "open", "closed"}] /\ backlog \in Seq(Clients)
      /\ cur \in Clients
  BY DEF TypeOK, TcpTypeOK
<1>2. CASE Accept
  <2>1. PICK c \in Clients : AcceptConn(c) /\ cur' = c
    BY <1>2 DEF Accept
  <2>2. pc = "accept" /\ pc' = "recv"
    BY <1>2 DEF Accept
  <2>3. backlog # << >> /\ c = Head(backlog) /\ backlog' = Tail(backlog)
        /\ conn' = [conn EXCEPT ![c] = "open"]
    BY <2>1 DEF AcceptConn
  <2>4. QED
    BY <1>1, <2>1, <2>2, <2>3, TailFacts DEF ConnInv
<1>3. CASE AcceptFails
  <2>1. PICK c \in Clients : AcceptAborted(c)
    BY <1>3 DEF AcceptFails
  <2>2. backlog # << >> /\ c = Head(backlog) /\ backlog' = Tail(backlog)
        /\ conn' = [conn EXCEPT ![c] = "closed"]
    BY <2>1 DEF AcceptAborted
  <2>3. pc' = pc /\ cur' = cur
    BY <1>3 DEF AcceptFails, serverVars
  <2>4. QED
    BY <1>1, <2>2, <2>3, TailFacts DEF ConnInv
<1>4. CASE Close
  BY <1>1, <1>4 DEF Close, CloseConn, ConnInv
<1>5. ASSUME NEW c \in Clients, Connect(c), UNCHANGED serverVars
      PROVE  ConnInv'
  <2>1. /\ conn[c] = "new" /\ conn' = [conn EXCEPT ![c] = "queued"]
        /\ backlog' = Append(backlog, c) /\ pc' = pc /\ cur' = cur
    BY <1>5 DEF Connect, serverVars
  <2>2. Len(backlog') = Len(backlog) + 1 /\ backlog'[Len(backlog) + 1] = c
        /\ \A i \in 1 .. Len(backlog) : backlog'[i] = backlog[i]
    BY <1>1, <2>1
  <2>3. QED
    BY <1>1, <2>1, <2>2 DEF ConnInv
<1>6. CASE ~Accept /\ ~AcceptFails /\ ~Close /\ ~\E c \in Clients : Connect(c) /\ UNCHANGED serverVars
  <2>1. UNCHANGED <<conn, backlog, cur>> /\ (pc = "accept" <=> pc' = "accept")
    BY <1>6 DEF Next, ServerStep, Recv, ParseRejects, ParseAccepts, Route, BuildFits,
         BuildOverflows, Write, SendReturns, AfterSend, WipeRecv, Cleanup, Take, Put,
         ClientStep, Segment, Finish, Vanish, Drain, vars, tcpVars, serverVars
  <2>2. QED
    BY <2>1 DEF ConnInv
<1>7. QED
  BY <1>2, <1>3, <1>4, <1>5, <1>6

\* Nobody has connected yet.
LEMMA ConnInit == Init => ConnInv
  BY DEF Init, TcpInit, ConnInv

\* Every path through handle_http_client closes the descriptor it was given,
\* once, and no other.
THEOREM DescriptorDiscipline == Safety => []OneOpenDescriptor
<1>1. ConnInv /\ TypeOK => OneOpenDescriptor
  BY DEF ConnInv, TypeOK, OneOpenDescriptor, OpenFds
<1>2. QED
  BY <1>1, ConnInit, ConnStep, TypeCorrect, PTL DEF Safety

(***************************************************************************)
(* Provenance: what is sent was written for the client it is sent to.      *)
(***************************************************************************)

OwnFile == pc = "build" /\ res.from = "file" => \A i \in 1 .. res.len : fileBuf[i] = cur
OwnSend == pc = "send" => \A i \in 1 .. respLen : sendBuf[i] = cur
OwnInv == TypeInv /\ OwnFile /\ OwnSend /\ OwnBytesOnly

\* Nobody has been sent anything yet.
LEMMA OwnInit == Init => OwnInv
  BY TypeInit DEF Init, TcpInit, OwnInv, OwnFile, OwnSend, OwnBytesOnly

\* A body in the file buffer was read for the current client (Route).
LEMMA OwnFileStep == OwnInv /\ [Next]_vars => OwnFile'
<1>. SUFFICES ASSUME TypeOK, OwnFile, [Next]_vars, pc' = "build", res'.from = "file",
                     NEW i \in 1 .. res'.len
              PROVE  fileBuf'[i] = cur'
  BY DEF OwnInv, TypeInv, OwnFile
<1>1. CASE Route
  <2>1. PICK r \in RouteResults(req[cur]) :
          /\ res' = [from |-> r.from, len |-> r.len]
          /\ fileBuf' = IF r.from = "file" THEN Fill(fileBuf, r.len, cur) ELSE fileBuf
    BY <1>1 DEF Route
  <2>2. r.from = "file" /\ r.len \in 0 .. FileCap - 1 /\ fileBuf' = Fill(fileBuf, r.len, cur)
    BY <2>1, RoutingAssumption DEF RouteResults
  <2>3. QED
    BY <1>1, <2>1, <2>2, RoutingAssumption DEF Route, Fill, TypeOK
<1>2. CASE ~Route
  <2>1. pc = "build" /\ UNCHANGED <<res, fileBuf, cur>>
    BY <1>2 DEF Next, ServerStep, Accept, AcceptFails, Recv, ParseRejects, ParseAccepts,
         BuildFits, BuildOverflows, Write, SendReturns, AfterSend, WipeRecv, Cleanup, Close,
         vars, serverVars, bufVars
  <2>2. QED
    BY <2>1 DEF OwnFile
<1>3. QED
  BY <1>1, <1>2

\* A built response consists of bytes made for the current client.
LEMMA OwnSendStep == OwnInv /\ [Next]_vars => OwnSend'
<1>. SUFFICES ASSUME TypeOK, RoutedLength, OwnFile, OwnSend, [Next]_vars, pc' = "send",
                     NEW i \in 1 .. respLen'
              PROVE  sendBuf'[i] = cur'
  BY DEF OwnInv, TypeInv, OwnSend
<1>1. CASE BuildFits
  <2>1. PICK h \in 1 .. HeaderMax :
          /\ BodyFits(h, res.len)
          /\ sendBuf' = Built(sendBuf, h, res, fileBuf, cur)
          /\ respLen' = h + res.len
    BY <1>1 DEF BuildFits
  <2>2. /\ pc = "build" /\ cur' = cur /\ res.len \in Nat
        /\ sendBuf \in [1 .. SendCap -> Origin] /\ res.from \in {"static", "file"}
    BY <1>1, RoutingAssumption DEF BuildFits, RoutedLength, TypeOK
  <2>3. i \in 1 .. SendCap
    BY <2>1, <2>2, RoutingAssumption DEF BodyFits
  <2>4. i > h => i - h \in 1 .. res.len
    BY <2>1, <2>2, RoutingAssumption
  <2>5. QED
    BY <2>1, <2>2, <2>3, <2>4, RoutingAssumption DEF Built, OwnFile
<1>2. CASE ~BuildFits
  <2>1. pc = "send" /\ UNCHANGED <<sendBuf, respLen, cur>>
    BY <1>2 DEF Next, ServerStep, Accept, AcceptFails, Recv, ParseRejects, ParseAccepts,
         Route, BuildOverflows, Write, SendReturns, AfterSend, WipeRecv, Cleanup, Close,
         vars, serverVars, bufVars
  <2>2. QED
    BY <2>1 DEF OwnSend
<1>3. QED
  BY <1>1, <1>2

\* One write(): which client it goes to and what the socket has afterwards.
LEMMA WriteFacts ==
  ASSUME TypeOK, Write
  PROVE  \E n \in Nat :
           /\ sent + n <= Len(Outgoing) /\ sent' = sent + n
           /\ out' = [out EXCEPT ![cur] = @ \o SubSeq(Outgoing, sent + 1, sent + n)]
           /\ Len(out'[cur]) = Len(out[cur]) + n
           /\ \A i \in 1 .. Len(out[cur]) : out'[cur][i] = out[cur][i]
           /\ \A i \in Len(out[cur]) + 1 .. Len(out[cur]) + n :
                /\ sent + i - Len(out[cur]) \in 1 .. Len(Outgoing)
                /\ out'[cur][i] = Outgoing[sent + i - Len(out[cur])]
<1>. DEFINE O == Outgoing
<1>1. PICK n \in 1 .. Least(Room(cur), Len(O) - sent) :
        Put(cur, SubSeq(O, sent + 1, sent + n)) /\ sent' = sent + n
  BY DEF Write
<1>2. O \in Seq(Origin) /\ Len(O) \in Nat
  BY OutgoingType
<1>3. out[cur] \in Seq(Origin) /\ Room(cur) \in Int /\ sent \in Nat
      /\ out \in [Clients -> Seq(Origin)] /\ cur \in Clients
  BY TcpAssumption DEF TypeOK, TcpTypeOK, Room
<1>. HIDE DEF O
<1>4. n \in Nat /\ sent + n <= Len(O)
  BY <1>1, <1>2, <1>3 DEF Least
<1>. DEFINE d == SubSeq(O, sent + 1, sent + n)
<1>5. /\ d \in Seq(Origin) /\ Len(d) = n
      /\ \A i \in 1 .. n : d[i] = O[sent + i]
  <2>1. \A i \in 1 .. Len(O) : O[i] \in Origin
    BY <1>2
  <2>2. \A i \in sent + 1 .. sent + n : i \in 1 .. Len(O)
    BY <1>2, <1>3, <1>4
  <2>3. QED
    BY <1>3, <1>4, <2>1, <2>2, SubSeqProperties
<1>6. out' = [out EXCEPT ![cur] = @ \o d]
  BY <1>1 DEF Put
<1>. HIDE DEF d
<1>7. out'[cur] = out[cur] \o d
  BY <1>3, <1>6
<1>8. /\ Len(out'[cur]) = Len(out[cur]) + n
      /\ \A i \in 1 .. Len(out[cur]) : out'[cur][i] = out[cur][i]
      /\ \A i \in Len(out[cur]) + 1 .. Len(out[cur]) + n : out'[cur][i] = d[i - Len(out[cur])]
  BY <1>3, <1>4, <1>5, <1>7
<1>9. \A i \in Len(out[cur]) + 1 .. Len(out[cur]) + n :
        /\ sent + i - Len(out[cur]) \in 1 .. Len(O)
        /\ out'[cur][i] = O[sent + i - Len(out[cur])]
  <2>1. Len(out[cur]) \in Nat
    BY <1>3
  <2>2. SUFFICES ASSUME NEW i \in Len(out[cur]) + 1 .. Len(out[cur]) + n
                 PROVE  /\ sent + i - Len(out[cur]) \in 1 .. Len(O)
                        /\ out'[cur][i] = O[sent + i - Len(out[cur])]
    OBVIOUS
  <2>3. i - Len(out[cur]) \in 1 .. n
    BY <1>4, <2>1
  <2>4. out'[cur][i] = d[i - Len(out[cur])]
    BY <1>8
  <2>5. d[i - Len(out[cur])] = O[sent + (i - Len(out[cur]))]
    BY <1>5, <2>3
  <2>6. sent + (i - Len(out[cur])) = sent + i - Len(out[cur])
    BY <1>3, <2>1
  <2>7. sent + i - Len(out[cur]) \in 1 .. Len(O)
    BY <1>2, <1>3, <1>4, <2>1, <2>3
  <2>8. QED
    BY <2>4, <2>5, <2>6, <2>7
<1>10. QED
  BY <1>1, <1>4, <1>6, <1>8, <1>9 DEF O, d

\* A write takes its bytes from the built response or the cached page.
LEMMA OwnBytesStep == OwnInv /\ [Next]_vars => OwnBytesOnly'
<1>. SUFFICES ASSUME TypeOK, RoutedLength, OwnSend, OwnBytesOnly, [Next]_vars
              PROVE  OwnBytesOnly'
  BY DEF OwnInv, TypeInv
<1>1. out \in [Clients -> Seq(Origin)] /\ cur \in Clients /\ cachedLen \in Nat /\ respLen \in Nat
  BY DEF TypeOK, TcpTypeOK
<1>2. CASE Write
  <2>1. PICK n \in Nat :
          /\ out' = [out EXCEPT ![cur] = @ \o SubSeq(Outgoing, sent + 1, sent + n)]
          /\ Len(out'[cur]) = Len(out[cur]) + n
          /\ \A i \in 1 .. Len(out[cur]) : out'[cur][i] = out[cur][i]
          /\ \A i \in Len(out[cur]) + 1 .. Len(out[cur]) + n :
               /\ sent + i - Len(out[cur]) \in 1 .. Len(Outgoing)
               /\ out'[cur][i] = Outgoing[sent + i - Len(out[cur])]
    BY <1>2, WriteFacts
  <2>2. \A i \in 1 .. Len(Outgoing) : Outgoing[i] \in {cur, IndexByte}
    <3>1. CASE pc = "sendCached"
      BY <1>1, <3>1 DEF Outgoing
    <3>2. CASE pc = "send"
      BY <1>1, <3>2 DEF Outgoing, OwnSend
    <3>3. QED
      BY <1>2, <3>1, <3>2 DEF Write
  <2>3. \A i \in 1 .. Len(out'[cur]) : out'[cur][i] \in {cur, IndexByte}
    <3>1. \A i \in 1 .. Len(out[cur]) : out[cur][i] \in {cur, IndexByte}
      BY <1>1 DEF OwnBytesOnly
    <3>2. Len(out[cur]) \in Nat
      BY <1>1
    <3>3. ASSUME NEW i \in 1 .. Len(out'[cur])
          PROVE  out'[cur][i] \in {cur, IndexByte}
      <4>1. i \in 1 .. Len(out[cur]) \/ i \in Len(out[cur]) + 1 .. Len(out[cur]) + n
        <5>1. i \in 1 .. Len(out[cur]) + n
          BY <2>1, <3>3
        <5>2. QED
          BY <3>2, <5>1
      <4>2. CASE i \in 1 .. Len(out[cur])
        BY <2>1, <3>1, <4>2
      <4>3. CASE i \in Len(out[cur]) + 1 .. Len(out[cur]) + n
        BY <2>1, <2>2, <4>3
      <4>4. QED
        BY <4>1, <4>2, <4>3
    <3>4. QED
      BY <3>3
  <2>4. out'[cur] \in Seq(Origin)
    BY <1>1, TypeStep DEF TypeInv, TypeOK, TcpTypeOK
  <2>5. \A c \in Clients : c # cur => out'[c] = out[c]
    BY <1>1, <2>1
  <2>6. QED
    BY <1>1, <2>3, <2>4, <2>5 DEF OwnBytesOnly
<1>3. CASE ~Write
  <2>1. UNCHANGED out
    BY <1>3 DEF Next, ServerStep, Accept, AcceptFails, Recv, ParseRejects, ParseAccepts,
         Route, BuildFits, BuildOverflows, SendReturns, WipeRecv, Cleanup, Close,
         AcceptConn, AcceptAborted, Take, CloseConn, ClientStep, Connect, Segment, Finish,
         Vanish, Drain, vars, tcpVars
  <2>2. QED
    BY <2>1 DEF OwnBytesOnly
<1>4. QED
  BY <1>2, <1>3

\* README.md:68: whatever is left in the buffers, and even where the response
\* does not fit, a client is sent only bytes that were produced for it.
THEOREM Provenance == Safety => []OwnBytesOnly
<1>1. OwnInv /\ [Next]_vars => OwnInv'
  BY TypeStep, OwnFileStep, OwnSendStep, OwnBytesStep DEF OwnInv
<1>2. OwnInv => OwnBytesOnly
  BY DEF OwnInv
<1>3. QED
  BY <1>1, <1>2, OwnInit, PTL DEF Safety

(***************************************************************************)
(* HttpServer writes whole responses, and implements RequestService.       *)
(***************************************************************************)

\* No response has been chosen or written for a client not yet accepted.
Untouched ==
  \A c \in Clients : conn[c] \in {"new", "queued"} => out[c] = << >> /\ resp[c] = 0

\* Up to http_build_response the same holds for the client being served.
NothingYet ==
  pc \in {"recv", "parse", "route", "build"} => out[cur] = << >> /\ resp[cur] = 0 /\ sent = 0

\* fast_send's count is what has been written of the response.
Counted ==
  pc \in {"sendCached", "send"} =>
    /\ resp[cur] = Len(Outgoing) /\ Len(out[cur]) = sent /\ sent <= Len(Outgoing)

\* Once the handler cleans up, the response is out or nobody wants it.
Settled ==
  pc \in {"cleanup", "wipeRecv", "close", "undefined"} =>
    peer[cur] = "gone" \/ Len(out[cur]) = resp[cur]

RespInv ==
  /\ TypeInv /\ ConnInv
  /\ Untouched /\ NothingYet /\ Counted /\ Settled /\ WholeResponseOrNothing

\* Before the first client nothing has been written to anybody.
LEMMA RespInit == Init => RespInv
  BY TypeInit, ConnInit
     DEF Init, TcpInit, RespInv, Untouched, NothingYet, Counted, Settled, WholeResponseOrNothing

\* How the steps that neither accept nor close treat the connections.
LEMMA ClientFrame ==
  ASSUME TypeOK, NEW c \in Clients, ClientStep(c), UNCHANGED <<req, serverVars>>
  PROVE  /\ UNCHANGED <<out, pc, cur, sent, resp, cachedLen, respLen, sendBuf>>
         /\ \A d \in Clients : conn'[d] = conn[d] \/ (conn[d] = "new" /\ conn'[d] = "queued")
         /\ \A d \in Clients : peer[d] = "gone" => peer'[d] = "gone"
  BY DEF TypeOK, TcpTypeOK, ClientStep, Connect, Segment, Finish, Vanish, Drain, serverVars

\* Every step keeps what has been written and what is counted in agreement.
LEMMA RespStep == RespInv /\ [Next]_vars => RespInv'
<1>. SUFFICES ASSUME RespInv, [Next]_vars
              PROVE  (Untouched /\ NothingYet /\ Counted /\ Settled /\ WholeResponseOrNothing)'
  BY TypeStep, ConnStep DEF RespInv, TypeInv
<1>1. /\ conn \in [Clients -> {"new", "queued", "open", "closed"}]
      /\ out \in [Clients -> Seq(Origin)] /\ resp \in [Clients -> Nat]
      /\ peer \in [Clients -> {"sending", "finished", "gone"}]
      /\ cur \in Clients /\ sent \in Nat /\ cachedLen \in Nat /\ respLen \in Nat
      /\ backlog \in Seq(Clients)
  BY DEF RespInv, TypeInv, TypeOK, TcpTypeOK
<1>2. TypeOK /\ RoutedLength /\ ConnInv /\ Untouched /\ NothingYet /\ Counted /\ Settled
      /\ WholeResponseOrNothing
  BY DEF RespInv, TypeInv
<1>3. pc # "accept" => conn[cur] = "open"
  BY <1>1, <1>2 DEF ConnInv
<1>. USE DEF Untouched, NothingYet, Counted, Settled, WholeResponseOrNothing
<1>4. CASE Accept
  <2>1. PICK c \in Clients : AcceptConn(c) /\ cur' = c
    BY <1>4 DEF Accept
  <2>2. /\ conn[c] = "queued" /\ conn' = [conn EXCEPT ![c] = "open"]
        /\ UNCHANGED <<peer, out>>
    BY <1>1, <1>2, <2>1, TailFacts DEF AcceptConn, ConnInv
  <2>3. pc' = "recv" /\ sent' = 0 /\ resp' = resp
    BY <1>4 DEF Accept
  <2>4. QED
    BY <1>1, <1>2, <2>1, <2>2, <2>3
<1>5. CASE AcceptFails
  <2>1. PICK c \in Clients : AcceptAborted(c)
    BY <1>5 DEF AcceptFails
  <2>2. /\ conn[c] = "queued" /\ conn' = [conn EXCEPT ![c] = "closed"]
        /\ UNCHANGED <<peer, out>> /\ peer[c] = "gone"
    BY <1>1, <1>2, <2>1, TailFacts DEF AcceptAborted, ConnInv
  <2>3. pc' = "accept" /\ resp' = resp
    BY <1>5 DEF AcceptFails, serverVars
  <2>4. QED
    BY <1>1, <1>2, <2>1, <2>2, <2>3
<1>6. CASE Recv
  <2>1. pc = "recv" /\ pc' \in {"parse", "cleanup"}
        /\ UNCHANGED <<conn, peer, out, cur, sent, resp>>
    BY <1>6 DEF Recv, Take
  <2>2. QED
    BY <1>1, <1>2, <2>1
<1>7. CASE ParseRejects
  <2>1. pc = "parse" /\ pc' = "cleanup" /\ UNCHANGED <<conn, peer, out, cur, sent, resp>>
    BY <1>7 DEF ParseRejects, tcpVars
  <2>2. QED
    BY <1>1, <1>2, <2>1
<1>8. CASE ParseAccepts
  <2>1. pc = "parse" /\ UNCHANGED <<conn, peer, out, cur, sent, cachedLen>>
    BY <1>8 DEF ParseAccepts, tcpVars
  <2>2. CASE pc' = "route"
    BY <1>1, <1>2, <1>8, <2>1, <2>2 DEF ParseAccepts
  <2>3. CASE pc' = "sendCached"
    <3>1. resp' = [resp EXCEPT ![cur] = cachedLen]
      BY <1>8, <2>3 DEF ParseAccepts
    <3>2. Len(Outgoing') = cachedLen
      BY <1>1, <2>1, <2>3 DEF Outgoing
    <3>3. QED
      BY <1>1, <1>2, <1>3, <2>1, <2>3, <3>1, <3>2
  <2>4. QED
    BY <1>8, <2>2, <2>3 DEF ParseAccepts
<1>9. CASE Route
  <2>1. pc = "route" /\ pc' = "build" /\ UNCHANGED <<conn, peer, out, cur, sent, resp>>
    BY <1>9 DEF Route, tcpVars
  <2>2. QED
    BY <1>1, <1>2, <2>1
<1>10. CASE BuildFits
  <2>1. pc = "build" /\ pc' = "send" /\ UNCHANGED <<conn, peer, out, cur, sent>>
    BY <1>10 DEF BuildFits, tcpVars
  <2>2. respLen' \in Nat /\ resp' = [resp EXCEPT ![cur] = respLen']
    BY <1>2, <1>10, <2>1, RoutingAssumption DEF BuildFits, RoutedLength
  <2>3. Len(Outgoing') = respLen'
    BY <2>1, <2>2 DEF Outgoing
  <2>4. QED
    BY <1>1, <1>2, <1>3, <2>1, <2>2, <2>3
<1>11. CASE BuildOverflows
  <2>1. pc = "build" /\ pc' = "cleanup" /\ UNCHANGED <<conn, peer, out, cur, sent, resp>>
    BY <1>11 DEF BuildOverflows, tcpVars
  <2>2. QED
    BY <1>1, <1>2, <2>1
<1>12. CASE Write
  <2>1. PICK n \in Nat :
          /\ sent + n <= Len(Outgoing) /\ sent' = sent + n
          /\ out' = [out EXCEPT ![cur] = @ \o SubSeq(Outgoing, sent + 1, sent + n)]
          /\ Len(out'[cur]) = Len(out[cur]) + n
    BY <1>2, <1>12, WriteFacts
  <2>2. /\ pc \in {"sendCached", "send"} /\ Outgoing' = Outgoing
        /\ UNCHANGED <<conn, peer, pc, cur, resp>>
    BY <1>12 DEF Write, Put, Outgoing, bufVars
  <2>3. \A c \in Clients : c # cur => out'[c] = out[c]
    BY <1>1, <2>1
  <2>4. QED
    BY <1>1, <1>2, <1>3, <2>1, <2>2, <2>3
<1>13. CASE SendReturns
  <2>1. /\ pc \in {"sendCached", "send"} /\ pc' \in {"cleanup", "wipeRecv"}
        /\ sent = Len(Outgoing) \/ peer[cur] = "gone"
        /\ UNCHANGED <<conn, peer, out, cur, resp>>
    BY <1>13 DEF SendReturns, AfterSend, tcpVars
  <2>2. QED
    BY <1>1, <1>2, <2>1
<1>14. CASE WipeRecv \/ Cleanup
  <2>1. pc \in {"cleanup", "wipeRecv"} /\ pc' \in {"close", "undefined"}
        /\ UNCHANGED <<conn, peer, out, cur, resp>>
    BY <1>14 DEF WipeRecv, Cleanup, tcpVars
  <2>2. QED
    BY <1>1, <1>2, <2>1
<1>15. CASE Close
  <2>1. /\ pc = "close" /\ pc' = "accept" /\ conn' = [conn EXCEPT ![cur] = "closed"]
        /\ UNCHANGED <<peer, out, cur, resp>>
    BY <1>15 DEF Close, CloseConn
  <2>2. QED
    BY <1>1, <1>2, <2>1
<1>16. ASSUME NEW c \in Clients, ClientStep(c), UNCHANGED <<req, serverVars>>
       PROVE  (Untouched /\ NothingYet /\ Counted /\ Settled /\ WholeResponseOrNothing)'
  <2>1. Outgoing' = Outgoing
    BY <1>16 DEF Outgoing, serverVars
  <2>2. QED
    BY <1>1, <1>2, <1>16, <2>1, ClientFrame
<1>17. CASE UNCHANGED vars
  BY <1>2, <1>17 DEF vars, tcpVars, serverVars, Outgoing
<1>18. QED
  BY <1>4, <1>5, <1>6, <1>7, <1>8, <1>9, <1>10, <1>11, <1>12, <1>13, <1>14, <1>15,
     <1>16, <1>17 DEF Next, ServerStep

\* Whoever stays to the end has been written a whole response or nothing, for
\* every cut the kernel may make in the writes.
THEOREM WholeResponses == Safety => []WholeResponseOrNothing
<1>1. RespInv => WholeResponseOrNothing
  BY DEF RespInv
<1>2. QED
  BY <1>1, RespInit, RespStep, PTL DEF Safety

(***************************************************************************)
(* The length of the wipe.                                                 *)
(***************************************************************************)

\* Where the handler is going to wipe g_file_buf, either the router has filled in
\* body_len or the request was never accepted.
WipeLength ==
  /\ pc \in {"build", "send", "cleanup"} => res.len <= FileCap \/ ~Parses(req[cur], got)
  /\ pc = "recv" => got = 0

WipeInv == TypeInv /\ WipeLength /\ WipeFailsUnroutedOnly

\* What the calls of the handler do to the wipe's length and to the request.
LEMMA WipeStep == WipeInv /\ [Next]_vars => (WipeLength /\ WipeFailsUnroutedOnly)'
<1>. SUFFICES ASSUME TypeOK, RoutedLength, WipeLength, WipeFailsUnroutedOnly, [Next]_vars
              PROVE  (WipeLength /\ WipeFailsUnroutedOnly)'
  BY DEF WipeInv, TypeInv
<1>. USE DEF WipeLength, WipeFailsUnroutedOnly
<1>1. /\ FileCap \in Nat /\ StaticLen <= FileCap /\ res.len \in Int /\ req \in [Clients -> Requests]
      /\ cur \in Clients /\ \A c \in Clients : req[c].line \in Nat
  BY RoutingAssumption, HttpAssumption DEF TypeOK, Request
<1>2. CASE Accept
  BY <1>2 DEF Accept
<1>3. CASE Recv
  <2>1. PICK n \in RecvResults(cur, RecvCap - 1) :
          got' = n /\ pc' = IF n <= 0 THEN "cleanup" ELSE "parse"
    BY <1>3 DEF Recv
  <2>2. n \in Int
    BY <2>1, RoutingAssumption DEF RecvResults, Least, TypeOK, TcpTypeOK
  <2>3. UNCHANGED <<req, cur>>
    BY <1>3 DEF Recv
  <2>4. n <= 0 => ~Parses(req[cur], n)
    BY <1>1, <2>2 DEF Parses
  <2>5. QED
    BY <2>1, <2>3, <2>4
<1>4. CASE ParseRejects
  BY <1>4 DEF ParseRejects, tcpVars, bufVars
<1>5. CASE ParseAccepts
  BY <1>5 DEF ParseAccepts
<1>6. CASE Route
  <2>1. PICK r \in RouteResults(req[cur]) : res' = [from |-> r.from, len |-> r.len]
    BY <1>6 DEF Route
  <2>2. r.len <= FileCap
    BY <1>1, <2>1 DEF RouteResults
  <2>3. pc' = "build" /\ res'.len <= FileCap
    BY <1>6, <2>1, <2>2 DEF Route
  <2>4. QED
    BY <2>3
<1>7. CASE BuildFits \/ BuildOverflows \/ SendReturns
  BY <1>7 DEF BuildFits, BuildOverflows, SendReturns, AfterSend
<1>8. CASE Write
  BY <1>8 DEF Write
<1>9. CASE Cleanup
  <2>1. /\ pc = "cleanup" /\ pc' = IF res.len > FileCap THEN "undefined" ELSE "close"
        /\ UNCHANGED <<req, cur, got>>
    BY <1>9 DEF Cleanup
  <2>2. QED
    BY <1>1, <2>1
<1>10. CASE WipeRecv \/ Close \/ AcceptFails
  BY <1>10 DEF WipeRecv, Close, AcceptFails, serverVars
<1>11. ASSUME NEW c \in Clients, ClientStep(c), UNCHANGED <<req, serverVars>>
       PROVE  (WipeLength /\ WipeFailsUnroutedOnly)'
  BY <1>11 DEF serverVars
<1>12. CASE UNCHANGED vars
  BY <1>12 DEF vars, serverVars
<1>13. QED
  BY <1>2, <1>3, <1>4, <1>5, <1>6, <1>7, <1>8, <1>9, <1>10, <1>11, <1>12 DEF Next, ServerStep

\* main.c:154: whatever the stack held, the wipe of g_file_buf can leave that
\* buffer only for a client of which no request was accepted.
THEOREM WipeLengths == Safety => []WipeFailsUnroutedOnly
<1>1. Init => WipeInv
  BY TypeInit DEF Init, WipeInv, WipeLength, WipeFailsUnroutedOnly
<1>2. WipeInv /\ [Next]_vars => WipeInv'
  BY TypeStep, WipeStep DEF WipeInv
<1>3. WipeInv => WipeFailsUnroutedOnly
  BY DEF WipeInv
<1>4. QED
  BY <1>1, <1>2, <1>3, PTL DEF Safety
(***************************************************************************)
(* The refinement.  W, Oc and Br are the abstract waiting, outcome and     *)
(* broken.                                                                 *)
(***************************************************************************)

W == IF pc = "accept" THEN backlog ELSE <<cur>> \o backlog
Oc == [c \in Clients |-> OutcomeOf(c)]
Br == pc = "undefined"

\* A sequence with one more element in front.
LEMMA Cons ==
  \A x, y \in Clients : \A s \in Seq(Clients) :
    /\ <<x>> \o s # << >> /\ Head(<<x>> \o s) = x /\ Tail(<<x>> \o s) = s
    /\ Append(<<x>> \o s, y) = <<x>> \o Append(s, y)
    /\ DOMAIN s = 1 .. Len(s)
    /\ \A i \in DOMAIN (<<x>> \o s) :
         (<<x>> \o s)[i] = x \/ \E j \in 1 .. Len(s) : (<<x>> \o s)[i] = s[j]
<1>. SUFFICES ASSUME NEW x \in Clients, NEW y \in Clients, NEW s \in Seq(Clients)
              PROVE  /\ <<x>> \o s # << >> /\ Head(<<x>> \o s) = x /\ Tail(<<x>> \o s) = s
                     /\ Append(<<x>> \o s, y) = <<x>> \o Append(s, y)
                     /\ DOMAIN s = 1 .. Len(s)
                     /\ \A i \in DOMAIN (<<x>> \o s) :
                          (<<x>> \o s)[i] = x \/ \E j \in 1 .. Len(s) : (<<x>> \o s)[i] = s[j]
  OBVIOUS
<1>1. <<x>> \o s # << >> /\ Head(<<x>> \o s) = x /\ Tail(<<x>> \o s) = s
  OBVIOUS
<1>2. Append(<<x>> \o s, y) = <<x>> \o Append(s, y)
  OBVIOUS
<1>3. DOMAIN s = 1 .. Len(s) /\ Len(s) \in Nat
  OBVIOUS
<1>4. DOMAIN (<<x>> \o s) = 1 .. Len(s) + 1
  OBVIOUS
<1>5. ASSUME NEW i \in 1 .. Len(s) + 1
      PROVE  (<<x>> \o s)[i] = IF i = 1 THEN x ELSE s[i - 1]
  OBVIOUS
<1>6. QED
  BY <1>1, <1>2, <1>3, <1>4, <1>5

\* A sequence is its head followed by its tail.
LEMMA Uncons ==
  ASSUME NEW S, NEW s \in Seq(S), s # << >>
  PROVE  <<Head(s)>> \o Tail(s) = s
  OBVIOUS

\* Outcomes of clients that have left do not change any more.
LEMMA OutcomesFixed ==
  ASSUME RespInv, [Next]_vars, UNCHANGED conn
  PROVE  Oc' = Oc
<1>1. /\ conn \in [Clients -> {"new", "queued", "open", "closed"}] /\ cur \in Clients
      /\ out \in [Clients -> Seq(Origin)] /\ resp \in [Clients -> Nat]
      /\ pc # "accept" => conn[cur] = "open"
  BY DEF RespInv, TypeInv, TypeOK, TcpTypeOK, ConnInv
<1>2. \A c \in Clients : conn[c] = "closed" => out'[c] = out[c] /\ resp'[c] = resp[c]
  BY <1>1 DEF Next, ServerStep, Accept, AcceptFails, Recv, ParseRejects, ParseAccepts, Route,
       BuildFits, BuildOverflows, Write, SendReturns, WipeRecv, Cleanup, Close,
       AcceptConn, AcceptAborted, Take, Put, CloseConn,
       ClientStep, Connect, Segment, Finish, Vanish, Drain, vars, tcpVars, serverVars
<1>3. QED
  BY <1>2 DEF Oc, OutcomeOf

\* Every step of the server is a step of the service or none of its business.
LEMMA StepRefines ==
  ASSUME RespInv, [Next]_vars
  PROVE  [Abstract!ServiceNext]_<<W, Oc, Br>>
<1>1. /\ conn \in [Clients -> {"new", "queued", "open", "closed"}]
      /\ backlog \in Seq(Clients) /\ cur \in Clients
      /\ out \in [Clients -> Seq(Origin)] /\ resp \in [Clients -> Nat]
      /\ Untouched /\ ConnInv
      /\ pc # "accept" => conn[cur] = "open"
  BY DEF RespInv, TypeInv, TypeOK, TcpTypeOK, ConnInv
<1>2. CASE Accept
  <2>1. PICK c \in Clients : AcceptConn(c) /\ cur' = c
    BY <1>2 DEF Accept
  <2>2. /\ backlog # << >> /\ c = Head(backlog) /\ backlog' = Tail(backlog)
        /\ conn' = [conn EXCEPT ![c] = "open"] /\ out' = out
    BY <2>1 DEF AcceptConn
  <2>3. pc = "accept" /\ pc' = "recv" /\ resp' = resp
    BY <1>2 DEF Accept
  <2>4. W' = W
    BY <1>1, <2>1, <2>2, <2>3, Uncons DEF W
  <2>5. conn[c] = "queued"
    BY <1>1, <2>2, TailFacts DEF ConnInv
  <2>6. Oc' = Oc
    BY <1>1, <2>2, <2>3, <2>5 DEF Oc, OutcomeOf
  <2>7. Br' = Br
    BY <2>3 DEF Br
  <2>8. QED
    BY <2>4, <2>6, <2>7
<1>3. CASE AcceptFails
  <2>1. PICK c \in Clients : AcceptAborted(c)
    BY <1>3 DEF AcceptFails
  <2>2. /\ backlog # << >> /\ c = Head(backlog) /\ backlog' = Tail(backlog)
        /\ conn' = [conn EXCEPT ![c] = "closed"] /\ out' = out
    BY <2>1 DEF AcceptAborted
  <2>3. pc = "accept" /\ pc' = pc /\ resp' = resp
    BY <1>3 DEF AcceptFails, serverVars
  <2>4. conn[c] = "queued"
    BY <1>1, <2>2, TailFacts DEF ConnInv
  <2>5. Oc' = [Oc EXCEPT ![c] = "dropped"]
    <3>1. resp[c] = 0
      BY <1>1, <2>4 DEF Untouched
    <3>2. OutcomeOf(c)' = "dropped"
      BY <1>1, <2>2, <2>3, <3>1 DEF OutcomeOf
    <3>3. \A d \in Clients : d # c => OutcomeOf(d)' = OutcomeOf(d)
      BY <1>1, <2>2, <2>3 DEF OutcomeOf
    <3>4. QED
      BY <3>2, <3>3 DEF Oc
  <2>6. W = backlog /\ W' = Tail(backlog)
    BY <2>2, <2>3 DEF W
  <2>7. Br' = Br /\ ~Br
    BY <2>3 DEF Br
  <2>8. QED
    BY <2>2, <2>5, <2>6, <2>7 DEF W, Oc, Br, Abstract!ServiceNext, Abstract!Dismiss
<1>4. CASE Close
  <2>1. /\ pc = "close" /\ pc' = "accept" /\ conn' = [conn EXCEPT ![cur] = "closed"]
        /\ UNCHANGED <<out, resp, backlog, cur>>
    BY <1>4 DEF Close, CloseConn
  <2>2. W = <<cur>> \o backlog /\ W' = backlog
    BY <2>1 DEF W
  <2>3. W # << >> /\ Head(W) = cur /\ Tail(W) = backlog
    BY <1>1, <2>2, Cons
  <2>4. ASSUME NEW c \in Clients
        PROVE  /\ c = cur => OutcomeOf(c)' \in {"served", "dropped"}
               /\ c # cur => OutcomeOf(c)' = OutcomeOf(c)
    BY <1>1, <2>1 DEF OutcomeOf
  <2>5. Oc' = [Oc EXCEPT ![cur] = OutcomeOf(cur)']
    BY <1>1, <2>1, <2>4 DEF Oc
  <2>6. Br' = Br /\ ~Br
    BY <2>1 DEF Br
  <2>7. QED
    BY <1>1, <2>2, <2>3, <2>4, <2>5, <2>6 DEF W, Oc, Br, Abstract!ServiceNext, Abstract!Dismiss
<1>5. ASSUME NEW c \in Clients, Connect(c), UNCHANGED <<req, serverVars>>
      PROVE  [Abstract!ServiceNext]_<<W, Oc, Br>>
  <2>1. /\ conn[c] = "new" /\ conn' = [conn EXCEPT ![c] = "queued"]
        /\ backlog' = Append(backlog, c) /\ UNCHANGED <<out, pc, cur, resp>>
    BY <1>5 DEF Connect, serverVars
  <2>2. Oc' = Oc /\ Oc[c] = "none"
    BY <1>1, <2>1 DEF Oc, OutcomeOf
  <2>3. W' = Append(W, c)
    BY <1>1, <2>1, Cons DEF W
  <2>4. \A i \in DOMAIN W : W[i] # c
    <3>1. CASE pc = "accept"
      BY <1>1, <2>1, <3>1, Cons DEF W, ConnInv
    <3>2. CASE pc # "accept"
      <4>1. \A i \in DOMAIN W : W[i] = cur \/ \E j \in 1 .. Len(backlog) : W[i] = backlog[j]
        BY <1>1, <3>2, Cons DEF W
      <4>2. QED
        <5>1. c # cur
          BY <1>1, <2>1, <3>2
        <5>2. \A j \in 1 .. Len(backlog) : backlog[j] # c
          BY <1>1, <2>1 DEF ConnInv
        <5>3. QED
          BY <4>1, <5>1, <5>2
    <3>3. QED
      BY <3>1, <3>2
  <2>5. Br' = Br
    BY <2>1 DEF Br
  <2>6. QED
    BY <2>2, <2>3, <2>4, <2>5 DEF W, Oc, Br, Abstract!ServiceNext, Abstract!Arrive, Abstract!Waiting
<1>6. CASE Cleanup
  <2>1. /\ pc = "cleanup" /\ pc' \in {"close", "undefined"}
        /\ UNCHANGED <<conn, backlog, cur>>
    BY <1>6 DEF Cleanup, tcpVars
  <2>2. Oc' = Oc
    BY <2>1, OutcomesFixed
  <2>3. W' = W /\ W # << >>
    BY <1>1, <2>1, Cons DEF W
  <2>4. ~Br
    BY <2>1 DEF Br
  <2>5. CASE Br'
    BY <2>2, <2>3, <2>4, <2>5 DEF W, Oc, Br, Abstract!ServiceNext, Abstract!BreakDown
  <2>6. CASE ~Br'
    BY <2>2, <2>3, <2>4, <2>6 DEF Br
  <2>7. QED
    BY <2>5, <2>6
<1>7. CASE ~Accept /\ ~AcceptFails /\ ~Close /\ ~Cleanup
           /\ ~\E c \in Clients : Connect(c) /\ UNCHANGED <<req, serverVars>>
  <2>1. /\ UNCHANGED <<conn, backlog, cur>> /\ (pc = "accept" <=> pc' = "accept")
        /\ pc = "undefined" <=> pc' = "undefined"
    BY <1>7 DEF Next, ServerStep, Recv, ParseRejects, ParseAccepts, Route, BuildFits,
         BuildOverflows, Write, SendReturns, AfterSend, WipeRecv, Take, Put,
         ClientStep, Segment, Finish, Vanish, Drain, vars, tcpVars, serverVars
  <2>2. Oc' = Oc
    BY <2>1, OutcomesFixed
  <2>3. W' = W /\ Br' = Br
    BY <2>1 DEF W, Br
  <2>4. QED
    BY <2>2, <2>3
<1>8. QED
  BY <1>2, <1>3, <1>4, <1>5, <1>6, <1>7

\* The accept loop with its sockets, buffers and partial writes implements the
\* one-at-a-time, first-come-first-served service, which breaks down where a
\* wipe leaves its buffer (safety; the liveness part of Abstract!Service is
\* model-checked).
THEOREM Refinement == Safety => Abstract!ServiceSafety
<1>1. Init => Abstract!ServiceInit
  BY DEF Init, TcpInit, Abstract!ServiceInit, OutcomeOf
<1>2. RespInv /\ [Next]_vars => [Abstract!ServiceNext]_Abstract!serviceVars
  BY StepRefines DEF Abstract!serviceVars, W, Oc, Br
<1>3. QED
  BY <1>1, <1>2, RespInit, RespStep, PTL DEF Safety, Abstract!ServiceSafety
=============================================================================
