--------------------------- MODULE SecureExchange ---------------------------
(***************************************************************************)
(* What one HTTPS exchange promises its two ends: the server acts on what  *)
(* the client asked and on nothing else, the client takes as the answer    *)
(* what the server said to this very request, each at most once.  Either   *)
(* end may give up at any time.                                            *)
(***************************************************************************)
EXTENDS Sequences

CONSTANTS
  Sessions,   \* the exchanges, one per connection
  Nothing     \* no message yet

VARIABLES
  asked,      \* asked[s]: what the client of s has asked
  heard,      \* heard[s]: the request the server acts on
  answer      \* answer[s]: what the client takes as the answer

exchangeVars == <<asked, heard, answer>>

ExchangeInit ==
  /\ asked = [s \in Sessions |-> Nothing]
  /\ heard = [s \in Sessions |-> Nothing]
  /\ answer = [s \in Sessions |-> Nothing]

Ask(s) ==
  /\ asked[s] = Nothing
  /\ asked' = [asked EXCEPT ![s] = <<"request", s>>]
  /\ UNCHANGED <<heard, answer>>

Hear(s) ==
  /\ asked[s] # Nothing /\ heard[s] = Nothing
  /\ \E part \in {"whole", "head"} : heard' = [heard EXCEPT ![s] = <<part>> \o asked[s]]
  /\ UNCHANGED <<asked, answer>>

Answer(s) ==
  /\ heard[s] # Nothing /\ answer[s] = Nothing
  /\ answer' = [answer EXCEPT ![s] = <<"response", heard[s]>>]
  /\ UNCHANGED <<asked, heard>>

ExchangeNext == \E s \in Sessions : Ask(s) \/ Hear(s) \/ Answer(s)

Exchange == ExchangeInit /\ [][ExchangeNext]_exchangeVars
=============================================================================
