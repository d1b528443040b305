------------------------------ MODULE Routing ------------------------------
(***************************************************************************)
(* What happens to one request between recv() and send(), as far as the    *)
(* buffers of the two client handlers can tell: http_parse_request and     *)
(* http_build_response of src/src/http.c, router_handle_request of         *)
(* src/src/router.c.  A buffer is a function from positions to the origin  *)
(* of the byte at that position: the client it was written for, or Zero.   *)
(***************************************************************************)
EXTENDS Integers

CONSTANTS
  Zero,       \* the origin of a byte that has been wiped
  RecvCap,    \* RECV_BUF_SIZE
  SendCap,    \* SEND_BUF_SIZE
  FileCap,    \* FILE_BUF_SIZE
  LineMax,    \* a request line of LineMax bytes or more is refused (2048)
  HeaderMax,  \* the longest response header the router's choices lead to
  StaticLen   \* the length of a response body that is a string constant

ASSUME RoutingAssumption ==
  /\ RecvCap \in Nat \ {0, 1} /\ SendCap \in Nat \ {0} /\ FileCap \in Nat \ {0, 1}
  /\ LineMax \in Nat /\ HeaderMax \in Nat \ {0} /\ StaticLen \in 1 .. FileCap

\* A request: line is the position of the byte that ends the first CRLF (0: the
\* request has none), tokens whether the line has method, path and version.
Request ==
  [len : Nat \ {0}, line : Nat \ {1}, tokens : BOOLEAN,
   path : {"root", "dotdot", "api", "file"}]

\* memset, fread and snprintf alike: the first n positions change hands.
Fill(buf, n, o) == [i \in DOMAIN buf |-> IF i <= n THEN o ELSE buf[i]]

\* Whether http_parse_request accepts the first n bytes of request r.  Only
\* the request line can make it fail: headers and body may be missing.
Parses(r, n) == r.line \in 1 .. n /\ r.line < LineMax + 2 /\ r.tokens

\* The results of router_handle_request: where the body lies and how long it
\* is.  A file of FileCap bytes or more is refused; a script's output and the
\* page for a missing file fit the file buffer.
RouteResults(r) ==
  IF r.path = "dotdot"
    THEN [status : {403}, from : {"static"}, len : {StaticLen}]
  ELSE IF r.path = "api"
    THEN [status : {200, 500}, from : {"file"}, len : 0 .. FileCap - 1]
  ELSE [status : {200}, from : {"file"}, len : 0 .. FileCap - 1]
         \cup [status : {404}, from : {"file"}, len : 1 .. FileCap - 1]
         \cup [status : {500}, from : {"static"}, len : {StaticLen}]

\* http_build_response, header of h bytes and body of n bytes: the header must
\* leave at least one byte free, the body must fit what is left.
HeaderFits(h) == h < SendCap
BodyFits(h, n) == h + n <= SendCap

\* The send buffer after http_build_response returned 0: the header and a
\* string constant belong to owner, a body in the file buffer is copied.
Built(buf, h, res, file, owner) ==
  [i \in DOMAIN buf |->
     IF i <= h THEN owner
     ELSE IF i > h + res.len THEN buf[i]
     ELSE IF res.from = "file" THEN file[i - h] ELSE owner]
=============================================================================
