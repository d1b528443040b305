----------------------------- MODULE HttpServer -----------------------------
(***************************************************************************)
(* The plain HTTP server: main's accept loop in mode 0 and                 *)
(* handle_http_client (src/src/main.c), one process that blocks in accept, *)
(* recv and send, over three buffers allocated once and reused for every   *)
(* client.  Clients run beside it (Tcp).  Steps that touch no socket       *)
(* cannot be told apart from outside, so each call of the handler is one   *)
(* action; every system call is an action of its own.                      *)
(***************************************************************************)
EXTENDS Tcp, Routing

CONSTANTS
  Requests,      \* the requests clients may send
  IndexSizes,    \* sizes of index.html at start-up; 0 or less: no such file
  IndexMax,      \* sizeof(g_cached_index) - 512
  IndexHeader,   \* length of the header in the cached response
  IndexByte,     \* the origin of the bytes of the cached response
  StackGarbage   \* what an int on the stack holds before it is assigned

ASSUME HttpAssumption ==
  /\ Requests \subseteq Request
  /\ IndexSizes \subseteq Int /\ IndexMax \in Nat /\ IndexHeader \in Nat
  /\ StackGarbage \subseteq Int /\ StackGarbage # {}
  /\ Zero \notin Clients /\ IndexByte \notin Clients /\ Zero # IndexByte

VARIABLES
  req,        \* req[c]: the request c sends
  cachedLen,  \* g_cached_index_len, fixed by cache_index_response
  pc,         \* where the server is
  cur,        \* the client being served
  recvBuf, sendBuf, fileBuf,   \* g_recv_buf, g_send_buf, g_file_buf
  got,        \* bytes_received
  respLen,    \* response_len
  res,        \* res.body_len and where res.body points
  sent,       \* fast_send's count of bytes written
  resp        \* history: resp[c] is the length of the response chosen for c

serverVars == <<cachedLen, pc, cur, recvBuf, sendBuf, fileBuf, got, respLen, res, sent, resp>>
bufVars == <<recvBuf, sendBuf, fileBuf>>
vars == <<tcpVars, req, serverVars>>

Origin == Clients \cup {Zero, IndexByte}
Labels == {"accept", "recv", "parse", "route", "build", "sendCached", "send",
           "cleanup", "wipeRecv", "close", "undefined"}

\* cache_index_response: nothing is cached for a missing, empty or big file;
\* fread may find the file shorter than ftell said.
CacheIndex(size) ==
  IF size <= 0 \/ size > IndexMax THEN {0} ELSE {IndexHeader + n : n \in 0 .. size}

Init ==
  /\ req \in [Clients -> Requests]
  /\ TcpInit([c \in Clients |-> req[c].len])
  /\ cachedLen \in UNION {CacheIndex(size) : size \in IndexSizes}
  /\ pc = "accept" /\ cur \in Clients
  /\ recvBuf = [i \in 1 .. RecvCap |-> Zero]
  /\ sendBuf = [i \in 1 .. SendCap |-> Zero]
  /\ fileBuf = [i \in 1 .. FileCap |-> Zero]
  /\ got = 0 /\ respLen = 0 /\ sent = 0
  /\ res = [from |-> "file", len |-> 0]
  /\ resp = [c \in Clients |-> 0]

-----------------------------------------------------------------------------
(* The accept loop. *)

\* fast_accept returns a descriptor; handle_http_client starts.  res is not
\* initialised: its body_len is whatever the stack holds.
Accept ==
  /\ pc = "accept"
  /\ \E c \in Clients : AcceptConn(c) /\ cur' = c
  /\ \E g \in StackGarbage : res' = [from |-> "file", len |-> g]
  /\ pc' = "recv" /\ got' = 0 /\ respLen' = 0 /\ sent' = 0
  /\ UNCHANGED <<req, cachedLen, recvBuf, sendBuf, fileBuf, resp>>

\* fast_accept returns an error: `continue`.
AcceptFails ==
  /\ pc = "accept"
  /\ \E c \in Clients : AcceptAborted(c)
  /\ UNCHANGED <<req, serverVars>>

(* handle_http_client, call by call. *)

\* One fast_recv of at most RECV_BUF_SIZE - 1 bytes, and the terminating zero.
Recv ==
  /\ pc = "recv"
  /\ \E n \in RecvResults(cur, RecvCap - 1) :
       /\ Take(cur, n)
       /\ got' = n
       /\ recvBuf' = Fill(recvBuf, n, cur)
       /\ pc' = IF n <= 0 THEN "cleanup" ELSE "parse"
  /\ UNCHANGED <<req, cachedLen, cur, sendBuf, fileBuf, respLen, res, sent, resp>>

ParseRejects ==
  /\ pc = "parse" /\ ~Parses(req[cur], got)
  /\ pc' = "cleanup"
  /\ UNCHANGED <<tcpVars, req, cachedLen, cur, bufVars, got, respLen, res, sent, resp>>

\* The request line is in; "/" is answered from the cache if there is one.
ParseAccepts ==
  /\ pc = "parse" /\ Parses(req[cur], got)
  /\ IF cachedLen > 0 /\ req[cur].path = "root"
       THEN pc' = "sendCached" /\ resp' = [resp EXCEPT ![cur] = cachedLen]
       ELSE pc' = "route" /\ UNCHANGED resp
  /\ UNCHANGED <<tcpVars, req, cachedLen, cur, bufVars, got, respLen, res, sent>>

\* Variant: body_len counts the terminator the router puts after the body.
RouteCountsTerminator ==
  /\ pc = "route"
  /\ \E r \in RouteResults(req[cur]) :
       /\ res' = [from |-> r.from, len |-> r.len + 1]
       /\ fileBuf' = IF r.from = "file" THEN Fill(fileBuf, r.len, cur) ELSE fileBuf
  /\ pc' = "build"
  /\ UNCHANGED <<tcpVars, req, cachedLen, cur, recvBuf, sendBuf, got, respLen, sent, resp>>

\* Variant: files are not refused for their size, and body_len is that size.
RouteUnlimited ==
  /\ pc = "route"
  /\ \E r \in RouteResults(req[cur]) :
       /\ \E n \in {r.len, FileCap + 1} : res' = [from |-> r.from, len |-> n]
       /\ fileBuf' = IF r.from = "file" THEN Fill(fileBuf, r.len, cur) ELSE fileBuf
  /\ pc' = "build"
  /\ UNCHANGED <<tcpVars, req, cachedLen, cur, recvBuf, sendBuf, got, respLen, sent, resp>>

\* router_handle_request clears res and fills it and the file buffer.
Route ==
  /\ pc = "route"
  /\ \E r \in RouteResults(req[cur]) :
       /\ res' = [from |-> r.from, len |-> r.len]
       /\ fileBuf' = IF r.from = "file" THEN Fill(fileBuf, r.len, cur) ELSE fileBuf
  /\ pc' = "build"
  /\ UNCHANGED <<tcpVars, req, cachedLen, cur, recvBuf, sendBuf, got, respLen, sent, resp>>

\* http_build_response succeeds and sets response_len.
BuildFits ==
  /\ pc = "build"
  /\ \E h \in 1 .. HeaderMax :
       /\ HeaderFits(h) /\ BodyFits(h, res.len)
       /\ sendBuf' = Built(sendBuf, h, res, fileBuf, cur)
       /\ respLen' = h + res.len
       /\ resp' = [resp EXCEPT ![cur] = h + res.len]
  /\ pc' = "send"
  /\ UNCHANGED <<tcpVars, req, cachedLen, cur, recvBuf, fileBuf, got, res, sent>>

\* http_build_response fails: what it wrote stays, response_len stays 0.
BuildOverflows ==
  /\ pc = "build"
  /\ \E h \in 1 .. HeaderMax :
       /\ ~(HeaderFits(h) /\ BodyFits(h, res.len))
       /\ sendBuf' = Fill(sendBuf, h, cur)
  /\ pc' = "cleanup"
  /\ UNCHANGED <<tcpVars, req, cachedLen, cur, recvBuf, fileBuf, got, respLen, res, sent, resp>>

\* The buffer fast_send was called with.
Outgoing == IF pc = "sendCached" THEN [i \in 1 .. cachedLen |-> IndexByte]
                                 ELSE [i \in 1 .. respLen |-> sendBuf[i]]
AfterSend == IF pc = "sendCached" THEN "wipeRecv" ELSE "cleanup"

\* One write() of fast_send's loop: the kernel takes as much as it likes.
Write ==
  /\ pc \in {"sendCached", "send"} /\ sent < Len(Outgoing) /\ peer[cur] # "gone"
  /\ \E n \in 1 .. Least(Room(cur), Len(Outgoing) - sent) :
       /\ Put(cur, SubSeq(Outgoing, sent + 1, sent + n))
       /\ sent' = sent + n
  /\ UNCHANGED <<req, cachedLen, pc, cur, bufVars, got, respLen, res, resp>>

\* Variant: one write() and no loop.
SendOnce ==
  /\ pc \in {"sendCached", "send"}
  /\ sent > 0 \/ Outgoing = << >> \/ peer[cur] = "gone"
  /\ pc' = AfterSend
  /\ UNCHANGED <<tcpVars, req, cachedLen, cur, bufVars, got, respLen, res, sent, resp>>

\* Variant: a failed write() is tried again until all is written.
SendInsists ==
  /\ pc \in {"sendCached", "send"} /\ sent = Len(Outgoing)
  /\ pc' = AfterSend
  /\ UNCHANGED <<tcpVars, req, cachedLen, cur, bufVars, got, respLen, res, sent, resp>>

\* fast_send returns: all bytes are written, or write() failed.  Its caller
\* does not look at the result.
SendReturns ==
  /\ pc \in {"sendCached", "send"}
  /\ sent = Len(Outgoing) \/ peer[cur] = "gone"
  /\ pc' = AfterSend
  /\ UNCHANGED <<tcpVars, req, cachedLen, cur, bufVars, got, respLen, res, sent, resp>>

\* Variant: the last byte received survives.
RecvWipedShort == IF got > 0 THEN Fill(recvBuf, got - 1, Zero) ELSE recvBuf

RecvWiped == IF got > 0 THEN Fill(recvBuf, got + 1, Zero) ELSE recvBuf

\* Variant: the fast path returns without closing.
WipeRecvLeaks ==
  /\ pc = "wipeRecv"
  /\ recvBuf' = RecvWiped
  /\ pc' = "accept"
  /\ UNCHANGED <<tcpVars, req, cachedLen, cur, sendBuf, fileBuf, got, respLen, res, sent, resp>>

\* The fast path wipes the receive buffer only.
WipeRecv ==
  /\ pc = "wipeRecv"
  /\ recvBuf' = RecvWiped
  /\ pc' = "close"
  /\ UNCHANGED <<tcpVars, req, cachedLen, cur, sendBuf, fileBuf, got, respLen, res, sent, resp>>

\* The code at the label cleanup.  A memset that leaves g_file_buf is
\* undefined behaviour, after which nothing is known.
Cleanup ==
  /\ pc = "cleanup"
  /\ recvBuf' = RecvWiped
  /\ sendBuf' = IF respLen > 0 THEN Fill(sendBuf, respLen, Zero) ELSE sendBuf
  /\ fileBuf' = IF res.len > 0 THEN Fill(fileBuf, res.len, Zero) ELSE fileBuf
  /\ pc' = IF res.len > FileCap THEN "undefined" ELSE "close"
  /\ UNCHANGED <<tcpVars, req, cachedLen, cur, got, respLen, res, sent, resp>>

\* Variant: the descriptor is forgotten, the connection stays.
CloseForgets ==
  /\ pc = "close"
  /\ pc' = "accept"
  /\ UNCHANGED <<tcpVars, req, cachedLen, cur, bufVars, got, respLen, res, sent, resp>>

Close ==
  /\ pc = "close"
  /\ CloseConn(cur)
  /\ pc' = "accept"
  /\ UNCHANGED <<req, cachedLen, cur, bufVars, got, respLen, res, sent, resp>>

ServerStep ==
  \/ Accept \/ AcceptFails \/ Recv \/ ParseRejects \/ ParseAccepts \/ Route
  \/ BuildFits \/ BuildOverflows \/ Write \/ SendReturns \/ WipeRecv \/ Cleanup \/ Close

Next == ServerStep \/ \E c \in Clients : ClientStep(c) /\ UNCHANGED <<req, serverVars>>

\* The server runs whenever it is not blocked.  A client, once connected, goes
\* on sending until its request is out, or stops, and reads what it is sent.
Fairness ==
  /\ WF_vars(ServerStep)
  /\ \A c \in Clients :
       /\ WF_vars((Segment(c) \/ Finish(c) \/ Vanish(c)) /\ UNCHANGED <<req, serverVars>>)
       /\ WF_vars(Drain(c) /\ UNCHANGED <<req, serverVars>>)

Safety == Init /\ [][Next]_vars
Spec == Safety /\ Fairness

-----------------------------------------------------------------------------
(* Properties. *)

TypeOK ==
  /\ TcpTypeOK(Origin)
  /\ req \in [Clients -> Requests]
  /\ cachedLen \in Nat /\ pc \in Labels /\ cur \in Clients
  /\ recvBuf \in [1 .. RecvCap -> Origin]
  /\ sendBuf \in [1 .. SendCap -> Origin]
  /\ fileBuf \in [1 .. FileCap -> Origin]
  /\ got \in -1 .. RecvCap - 1 /\ respLen \in 0 .. SendCap
  /\ res \in [from : {"static", "file"}, len : Int]
  /\ sent \in Nat /\ resp \in [Clients -> Nat]

\* When the server waits for the next client its three buffers hold no byte of
\* an earlier one: the lengths kept by the handler cover everything that the
\* recv, the router and the builder wrote, on every path (README.md:67-68).
BuffersCleanBetweenClients ==
  pc = "accept" => \A buf \in {recvBuf, sendBuf, fileBuf} :
                     \A i \in DOMAIN buf : buf[i] = Zero

\* A client is sent nothing but bytes produced for it or the cached index
\* page: neither another client's bytes nor a part of a buffer that was not
\* written for this response (README.md:68).
OwnBytesOnly ==
  \A c \in Clients : \A i \in DOMAIN out[c] : out[c][i] \in {c, IndexByte}

\* The wipe of g_file_buf leaves that buffer, after which nothing is known, only
\* for a client of which no request was accepted, so that res was never filled
\* in (the goto cleanup before http_response_t res; main.c:114-154): whatever
\* the router puts into body_len stays within the buffer, served or not.
WipeFailsUnroutedOnly ==
  pc = "undefined" => ~Parses(req[cur], got)

\* Exactly the connection being served is held open: no handler path leaks its
\* descriptor, none closes it early (every exit of handle_http_client).
OneOpenDescriptor ==
  OpenFds = IF pc = "accept" THEN {} ELSE {cur}

\* If the server closes a connection whose client is still there, the client
\* was written the whole response, or, without an acceptable request line in
\* the one recv, nothing: fast_send's loop leaves no response cut short.
WholeResponseOrNothing ==
  \A c \in Clients :
    conn[c] = "closed" /\ peer[c] # "gone" => Len(out[c]) = resp[c]

\* The abstract service: who waits, and with which outcome clients left.
OutcomeOf(c) ==
  IF conn[c] # "closed" THEN "none"
  ELSE IF resp[c] > 0 /\ Len(out[c]) = resp[c] THEN "served" ELSE "dropped"

Abstract == INSTANCE RequestService WITH
  waiting <- IF pc = "accept" THEN backlog ELSE <<cur>> \o backlog,
  outcome <- [c \in Clients |-> OutcomeOf(c)],
  broken <- pc = "undefined"

\* The loop serves one client at a time, in the order of arrival, each once,
\* and whoever is in the backlog is dismissed in the end, unless a wipe has
\* left its buffer before (WipeFailsUnroutedOnly says when that may be).
RefinesRequestService == Abstract!Service

\* main's loop comes back for every client in the backlog, whatever the
\* clients before it do, as long as they keep sending and reading or leave; the
\* one thing that ends the loop is a wipe beyond its buffer.
EveryClientIsDismissed ==
  \A c \in Clients : conn[c] = "queued" ~> (conn[c] = "closed" \/ pc = "undefined")
=============================================================================
