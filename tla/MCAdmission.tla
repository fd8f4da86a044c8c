----------------------------- MODULE MCAdmission -----------------------------
(* Admission for TLC: connections and addresses are interchangeable.       *)
EXTENDS Admission, TLC

Symmetry == Permutations(Session) \cup Permutations(IP)

Handshaking == {s \in Session : stage[s] \in HandshakeStages \cup {"login"}}

(* Two connections do everything there is.  While there are three, one     *)
(* more than the table has slots, there is no token, the clock is at its   *)
(* last tick, at most one is in its handshake or login, nobody has sent a  *)
(* password, and those in the room or past it asked for a shell.           *)
CrowdBound ==
    Cardinality(Live) > 2 =>
        /\ now = MaxTime /\ ~token
        /\ Cardinality(Handshaking) <= 1
        /\ \A s \in Session :
              /\ attempts[s] = 0
              /\ stage[s] \in SessionStages \cup {"cleanup", "released"}
                    => channel[s] = "shell"
=============================================================================
