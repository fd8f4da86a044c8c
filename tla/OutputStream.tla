---------------------------- MODULE OutputStream -----------------------------
(***************************************************************************)
(* What client_send promises: bytes are accepted into a stream and reach   *)
(* the terminal in order, each once, until the connection fails; then the  *)
(* stream stops where it is.  The terminal may lag by a bounded amount.    *)
(***************************************************************************)
EXTENDS Integers

CONSTANT Backlog   \* bytes accepted and not delivered

VARIABLES
    accepted,    \* bytes the callers have handed over so far
    delivered,   \* how many of them the channel has taken
    failed       \* the connection is given up

vars == <<accepted, delivered, failed>>

Init == accepted = 0 /\ delivered = 0 /\ failed = FALSE

(* Bytes are taken, and perhaps some of the backlog is written.            *)
Transfer ==
    /\ ~failed
    /\ accepted' \in Nat /\ accepted' >= accepted
    /\ delivered' \in Nat /\ delivered' >= delivered
    /\ delivered' <= accepted' /\ accepted' - delivered' <= Backlog
    /\ UNCHANGED failed

(* A failure may come after part of the backlog was written; what the      *)
(* caller was handing over may or may not count as accepted.               *)
Fail ==
    /\ ~failed
    /\ failed' = TRUE
    /\ accepted' \in Nat /\ accepted' >= accepted
    /\ delivered' \in Nat /\ delivered' >= delivered
    /\ delivered' <= accepted'

Next == Transfer \/ Fail

Spec == Init /\ [][Next]_vars
=============================================================================
