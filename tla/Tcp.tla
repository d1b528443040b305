-------------------------------- MODULE Tcp --------------------------------
(***************************************************************************)
(* The sockets the server works on: src/src/tcp.c (and its raw-syscall     *)
(* twins in src/src/fast/fast_io.asm) together with the kernel and the     *)
(* clients behind them.  Every client opens one connection.  A connection  *)
(* waits in the listen backlog, is accepted, and is closed by the server.  *)
(*                                                                         *)
(* Incoming data are counted only; outgoing data are kept as the sequence  *)
(* of bytes the server wrote, each byte standing for where it comes from.  *)
(***************************************************************************)
EXTENDS Integers, Sequences

CONSTANTS
  Clients,   \* the clients that may connect
  Backlog,   \* connections listen() keeps waiting (128 in tcp_listen)
  SockBuf    \* bytes of output the kernel takes before the client reads

ASSUME TcpAssumption == Backlog \in Nat \ {0} /\ SockBuf \in Nat \ {0}

VARIABLES
  conn,      \* conn[c]: "new", "queued" (backlog), "open" (accepted), "closed"
  backlog,   \* the accept queue of the listening socket
  unsent,    \* unsent[c]: bytes of c's request that c has not sent yet
  inq,       \* inq[c]: bytes received by the kernel and not yet read
  peer,      \* peer[c]: "sending", "finished" (FIN) or "gone" (RST)
  out,       \* out[c]: the bytes written to c's socket so far
  drained    \* drained[c]: how many of them c has read

tcpVars == <<conn, backlog, unsent, inq, peer, out, drained>>

Least(a, b) == IF a <= b THEN a ELSE b

\* The set of clients whose socket the server holds open.
OpenFds == {c \in Clients : conn[c] = "open"}

TcpTypeOK(Byte) ==
  /\ conn \in [Clients -> {"new", "queued", "open", "closed"}]
  /\ backlog \in Seq(Clients)
  /\ unsent \in [Clients -> Nat]
  /\ inq \in [Clients -> Nat]
  /\ peer \in [Clients -> {"sending", "finished", "gone"}]
  /\ out \in [Clients -> Seq(Byte)]
  /\ drained \in [Clients -> Nat]

\* tcp_listen has succeeded and no client has connected; size[c] is the
\* length of the request that c is going to send.
TcpInit(size) ==
  /\ conn = [c \in Clients |-> "new"]
  /\ backlog = << >>
  /\ unsent = size
  /\ inq = [c \in Clients |-> 0]
  /\ peer = [c \in Clients |-> "sending"]
  /\ out = [c \in Clients |-> << >>]
  /\ drained = [c \in Clients |-> 0]

-----------------------------------------------------------------------------
(* The clients and the kernel. *)

\* A connection is established as long as the backlog has room.
Connect(c) ==
  /\ conn[c] = "new"
  /\ Len(backlog) < Backlog
  /\ conn' = [conn EXCEPT ![c] = "queued"]
  /\ backlog' = Append(backlog, c)
  /\ UNCHANGED <<unsent, inq, peer, out, drained>>

\* A segment of the request arrives: TCP may cut the request anywhere.
Segment(c) ==
  /\ conn[c] \in {"queued", "open"} /\ peer[c] = "sending"
  /\ \E n \in 1 .. unsent[c] :
       /\ unsent' = [unsent EXCEPT ![c] = @ - n]
       /\ inq' = [inq EXCEPT ![c] = @ + n]
  /\ UNCHANGED <<conn, backlog, peer, out, drained>>

\* The client shuts its sending side down, perhaps in mid-request.
Finish(c) ==
  /\ conn[c] \in {"queued", "open"} /\ peer[c] = "sending"
  /\ peer' = [peer EXCEPT ![c] = "finished"]
  /\ UNCHANGED <<conn, backlog, unsent, inq, out, drained>>

\* The client resets the connection.
Vanish(c) ==
  /\ conn[c] \in {"queued", "open"} /\ peer[c] # "gone"
  /\ peer' = [peer EXCEPT ![c] = "gone"]
  /\ UNCHANGED <<conn, backlog, unsent, inq, out, drained>>

\* The client reads what has been written to it, which makes room.
Drain(c) ==
  /\ drained[c] < Len(out[c]) /\ peer[c] # "gone"
  /\ drained' = [drained EXCEPT ![c] = Len(out[c])]
  /\ UNCHANGED <<conn, backlog, unsent, inq, peer, out>>

ClientStep(c) == Connect(c) \/ Segment(c) \/ Finish(c) \/ Vanish(c) \/ Drain(c)

-----------------------------------------------------------------------------
(* The calls of the server. *)

\* accept(): the oldest waiting connection becomes the server's.
AcceptConn(c) ==
  /\ backlog # << >> /\ c = Head(backlog)
  /\ backlog' = Tail(backlog)
  /\ conn' = [conn EXCEPT ![c] = "open"]
  /\ UNCHANGED <<unsent, inq, peer, out, drained>>

\* accept() fails (ECONNABORTED) and the aborted connection is lost.
AcceptAborted(c) ==
  /\ backlog # << >> /\ c = Head(backlog) /\ peer[c] = "gone"
  /\ backlog' = Tail(backlog)
  /\ conn' = [conn EXCEPT ![c] = "closed"]
  /\ UNCHANGED <<unsent, inq, peer, out, drained>>

\* Variant: recv() asks for the whole buffer, no room for the terminator.
RecvResultsFull(c, max) ==
  (IF inq[c] > 0 THEN {Least(inq[c], max + 1)} ELSE {})
    \cup (IF inq[c] = 0 /\ peer[c] = "finished" THEN {0} ELSE {})
    \cup (IF peer[c] = "gone" THEN {-1} ELSE {})

\* What a single recv() of at most max bytes may return: bytes, 0 at the end
\* of the stream, -1 on a reset.  The empty set: the call blocks.
RecvResults(c, max) ==
  (IF inq[c] > 0 THEN {Least(inq[c], max)} ELSE {})
    \cup (IF inq[c] = 0 /\ peer[c] = "finished" THEN {0} ELSE {})
    \cup (IF peer[c] = "gone" THEN {-1} ELSE {})

\* recv() returned n: the bytes, if any, leave the receive queue.
Take(c, n) ==
  /\ inq' = [inq EXCEPT ![c] = IF n > 0 THEN @ - n ELSE @]
  /\ UNCHANGED <<conn, backlog, unsent, peer, out, drained>>

\* Room the kernel has for output to c; write() blocks while there is none.
Room(c) == SockBuf - (Len(out[c]) - drained[c])

\* write() took the bytes of data.
Put(c, data) ==
  /\ out' = [out EXCEPT ![c] = @ \o data]
  /\ UNCHANGED <<conn, backlog, unsent, inq, peer, drained>>

\* close(): the descriptor is released.
CloseConn(c) ==
  /\ conn' = [conn EXCEPT ![c] = "closed"]
  /\ UNCHANGED <<backlog, unsent, inq, peer, out, drained>>
=============================================================================
