--------------------------- MODULE RequestService ---------------------------
(***************************************************************************)
(* What the server's accept loop promises, with sockets, buffers and       *)
(* parsing left out: clients are taken one at a time in the order in which *)
(* they arrived, and each of them leaves with one outcome, a complete      *)
(* response ("served") or a closed connection ("dropped").  It may break   *)
(* down over the client being served; after that it dismisses nobody.      *)
(***************************************************************************)
EXTENDS Sequences

CONSTANT Clients

VARIABLES
  waiting,   \* the clients that have arrived, oldest first
  outcome,   \* outcome[c]: "none", "served" or "dropped"
  broken     \* the service has broken down

serviceVars == <<waiting, outcome, broken>>

ServiceInit ==
  /\ waiting = << >>
  /\ outcome = [c \in Clients |-> "none"]
  /\ broken = FALSE

Waiting == {waiting[i] : i \in DOMAIN waiting}

Arrive(c) ==
  /\ outcome[c] = "none" /\ c \notin Waiting
  /\ waiting' = Append(waiting, c)
  /\ UNCHANGED <<outcome, broken>>

Dismiss ==
  /\ waiting # << >> /\ ~broken
  /\ \E o \in {"served", "dropped"} :
       outcome' = [outcome EXCEPT ![Head(waiting)] = o]
  /\ waiting' = Tail(waiting)
  /\ UNCHANGED broken

BreakDown ==
  /\ waiting # << >> /\ ~broken
  /\ broken' = TRUE
  /\ UNCHANGED <<waiting, outcome>>

ServiceNext == Dismiss \/ BreakDown \/ \E c \in Clients : Arrive(c)

\* Whoever waits is dismissed in the end, unless the service breaks down.
Service == ServiceInit /\ [][ServiceNext]_serviceVars /\ WF_serviceVars(Dismiss)

\* The safety part alone.
ServiceSafety == ServiceInit /\ [][ServiceNext]_serviceVars
=============================================================================
