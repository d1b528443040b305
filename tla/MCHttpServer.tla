---------------------------- MODULE MCHttpServer ----------------------------
(* Instances of HttpServer small enough for TLC. *)
EXTENDS HttpServer, TLC

CONSTANTS c1, c2

R(len, line, tokens, path) ==
  [len |-> len, line |-> line, tokens |-> tokens, path |-> path]

\* A request in one piece, one longer than the receive buffer, one without a
\* CRLF, one with too long a line, one with two tokens.
MCRequests ==
  {R(2, 2, TRUE, "root"), R(4, 3, TRUE, "file"), R(3, 3, TRUE, "api"),
   R(2, 0, TRUE, "file"), R(3, 2, FALSE, "dotdot")}

\* The uninitialised length: negative, within the file buffer or beyond it.
MCStackGarbage == {-1, 2, 4}

\* A cached page and a file, for the run about time.
MCRoutes == {R(2, 2, TRUE, "root"), R(3, 2, TRUE, "file")}

\* Clients differ in nothing but their names.
MCSymmetry == Permutations(Clients)
=============================================================================
