------------------------------ MODULE MCServer -------------------------------
(* Server for TLC: authors are interchangeable, and so are process ids.    *)
(* Appends are cut short only where servers start one after the other and  *)
(* find a good key; starts overlap only where appends are not cut short    *)
(* and the key they may find is private.                                   *)
EXTENDS Server

Symmetry == Permutations(Author) \cup Permutations(Proc)

MCInit ==
    /\ ServerInit
    /\ faulty => alone /\ keyFile.what = "key" /\ ~keyFile.open
    /\ keyFile.open => alone

(* Three starts in a row, or two that may overlap, with fewer messages.    *)
StartBound == alone \/ (starts <= 2 /\ posts < MaxPosts)

MCSpec == MCInit /\ [][ServerNext]_serverVars
=============================================================================
