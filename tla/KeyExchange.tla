----------------------------- MODULE KeyExchange -----------------------------
(***************************************************************************)
(* What the handshake computes with keys: the server loads its private key *)
(* (tls_session_init), decrypts the client's secret with it                *)
(* (handle_client_key_exchange) and derives the session's keys from that   *)
(* (derive_keys).  The three share nothing but the values they hand on, so *)
(* each begins with values of its own, of the sizes that matter to it.     *)
(***************************************************************************)
EXTENDS Rsa, KeyFile, Prf

vars == <<rsaVars, loadVars, prfVars>>

Init ==
  \/ LoadInit /\ RsaIdle /\ PrfIdle
  \/ RsaInit /\ LoadIdle /\ PrfIdle
  \/ PrfInit /\ LoadIdle /\ RsaIdle

Next ==
  \/ Load /\ UNCHANGED <<rsaVars, prfVars>>
  \/ Decrypt /\ UNCHANGED <<loadVars, prfVars>>
  \/ Derive /\ UNCHANGED <<loadVars, rsaVars>>

Spec == Init /\ [][Next]_vars

\* Numbers keep their form and their lengths (bignum.c); what is read from the key
\* file and what is written for the caller stays within its buffers.
TypeOK ==
  /\ NumbersOK
  /\ Len(pt) <= PT_MAX
  /\ Len(der) <= DER_MAX /\ p \in 0 .. Len(der) /\ bits \in 0 .. 7
  /\ next \in 0 .. Len(pem) + 1
  /\ \A k \in DOMAIN numbers : Len(numbers[k]) <= (IF k = 1 THEN VER_MAX ELSE INT_MAX)
  /\ Fits(call) \/ A = << >>
=============================================================================
