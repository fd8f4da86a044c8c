-------------------------- MODULE ClientLifeProofs ---------------------------
(***************************************************************************)
(* Invariance proofs for ClientLife, for every set of clients and workers. *)
(***************************************************************************)
EXTENDS ClientLife, FiniteSetTheorems, TLAPS

(* Counting threads.                                                       *)
LEMMA ThreadCount ==
    ASSUME NEW S \in SUBSET Thread
    PROVE  /\ Cardinality(S) \in Nat
           /\ Cardinality(S) = 0 <=> S = {}
           /\ \A t \in Thread : Cardinality(S \cup {t}) =
                 IF t \in S THEN Cardinality(S) ELSE Cardinality(S) + 1
           /\ \A t \in Thread : Cardinality(S \ {t}) =
                 IF t \in S THEN Cardinality(S) - 1 ELSE Cardinality(S)
<1>1. IsFiniteSet(Thread)
  BY ClientLifeAssumption, FS_Union DEF Thread
<1>2. IsFiniteSet(S)
  BY <1>1, FS_Subset
<1> QED BY <1>2, FS_CardinalityType, FS_EmptySet, FS_AddElement, FS_RemoveElement

(* Who owns, lists or borrows a client holds a counted reference to it.    *)
LEMMA Referenced ==
    ASSUME LifeInv, NEW c \in Client
    PROVE  /\ Cardinality(Borrowers(c)) \in Nat
           /\ owner[c] # "none" => ref[c] > 0
           /\ c \in members => ref[c] > 0
           /\ \A t \in Thread : c \in borrowed[t] => ref[c] > 0
           /\ Borrowers(c) # {} => ref[c] > 0
           /\ ref[c] = 0 => owner[c] = "none" /\ cb[c] = FALSE /\ Borrowers(c) = {}
<1>1. Borrowers(c) \in SUBSET Thread
  BY DEF Borrowers
<1>2. /\ Cardinality(Borrowers(c)) \in Nat
      /\ Cardinality(Borrowers(c)) = 0 <=> Borrowers(c) = {}
  BY <1>1, ThreadCount
<1>3. ref[c] = OwnRefs(c) + CbRefs(c) + Cardinality(Borrowers(c))
  BY DEF LifeInv, RefExact
<1>4. /\ OwnRefs(c) \in {0, 1} /\ CbRefs(c) \in {0, 1}
      /\ owner[c] # "none" => OwnRefs(c) = 1
      /\ cb[c] => CbRefs(c) = 1
  BY DEF OwnRefs, CbRefs
<1>5. \A t \in Thread : c \in borrowed[t] => Borrowers(c) # {}
  BY DEF Borrowers
<1>6. c \in members => owner[c] # "none"
  BY DEF LifeInv, StageInv
<1>7. ref[c] \in Nat /\ cb[c] \in BOOLEAN
  BY DEF LifeInv, TypeOK
<1>8. ref[c] = 0 => OwnRefs(c) = 0 /\ CbRefs(c) = 0 /\ Cardinality(Borrowers(c)) = 0
  BY <1>2, <1>3, <1>4
<1>9. /\ OwnRefs(c) + CbRefs(c) > 0 => ref[c] > 0
      /\ Cardinality(Borrowers(c)) # 0 => ref[c] > 0
  BY <1>2, <1>3, <1>4
<1>10. owner[c] # "none" => ref[c] > 0
  BY <1>4, <1>9
<1>11. Borrowers(c) # {} => ref[c] > 0
  BY <1>2, <1>9
<1>12. ref[c] = 0 => owner[c] = "none" /\ cb[c] = FALSE /\ Borrowers(c) = {}
  BY <1>2, <1>4, <1>7, <1>8
<1> QED BY <1>2, <1>5, <1>6, <1>10, <1>11, <1>12

(* client_release of a client with a reference: the count goes down by one *)
(* and only the thread that takes it to zero is left to free it.           *)
LEMMA ReleaseStep ==
    ASSUME LifeInv, NEW t \in Thread, NEW c \in Client, ref[c] > 0,
           Release(t, c), heap' = heap
    PROVE  /\ ref' \in [Client -> Nat] /\ last' \in [Thread -> SUBSET Client]
           /\ ref'[c] = ref[c] - 1
           /\ \A d \in Client : d # c => ref'[d] = ref[d]
           /\ FreeInv'
<1>1. ref \in [Client -> Nat] /\ last \in [Thread -> SUBSET Client]
  BY DEF LifeInv, TypeOK
<1>2. /\ ref' \in [Client -> Nat] /\ ref'[c] = ref[c] - 1
      /\ \A d \in Client : d # c => ref'[d] = ref[d]
  BY <1>1 DEF Release
<1>3. /\ last' \in [Thread -> SUBSET Client]
      /\ last'[t] = IF ref[c] = 1 THEN last[t] \cup {c} ELSE last[t]
      /\ \A u \in Thread : u # t => last'[u] = last[u]
  BY <1>1 DEF Release
<1>4. c \in heap /\ \A u \in Thread : c \notin last[u]
  BY DEF LifeInv, FreeInv
<1>5. \A u \in Thread : \A d \in last'[u] : d \in last[u] \/ (d = c /\ u = t /\ ref[c] = 1)
  BY <1>3
<1>6. \A d \in Client : ref'[d] > 0 => d \in heap' /\ \A u \in Thread : d \notin last'[u]
  <2> SUFFICES ASSUME NEW d \in Client, ref'[d] > 0
               PROVE  d \in heap' /\ \A u \in Thread : d \notin last'[u]
    OBVIOUS
  <2>1. CASE d = c
    BY <2>1, <1>1, <1>2, <1>4, <1>5
  <2>2. CASE d # c
    BY <2>2, <1>2, <1>5 DEF LifeInv, FreeInv
  <2> QED BY <2>1, <2>2
<1>7. \A u \in Thread : \A d \in last'[u] : d \in heap'
  BY <1>4, <1>5 DEF LifeInv, FreeInv
<1>8. \A u, v \in Thread : \A d \in last'[u] \cap last'[v] : u = v
  BY <1>4, <1>5 DEF LifeInv, FreeInv
<1> QED BY <1>2, <1>3, <1>6, <1>7, <1>8 DEF FreeInv

(* What an unchanged count, heap and list of threads that free leave true. *)
LEMMA FreeKept ==
    ASSUME LifeInv, UNCHANGED <<heap, ref, last>>
    PROVE  FreeInv'
BY DEF LifeInv, FreeInv

(* The parts of a count are numbers.                                       *)
LEMMA RefParts ==
    ASSUME NEW c \in Client
    PROVE  /\ OwnRefs(c) \in {0, 1} /\ OwnRefs(c)' \in {0, 1}
           /\ CbRefs(c) \in {0, 1} /\ CbRefs(c)' \in {0, 1}
BY DEF OwnRefs, CbRefs

(* An action of c's owner that borrows nothing: the references counted     *)
(* change for c only.                                                      *)
LEMMA OwnerRefs ==
    ASSUME LifeInv, NEW c \in Client,
           borrowed' = borrowed,
           \A d \in Client : d # c => /\ owner'[d] = owner[d]
                                      /\ cb'[d] = cb[d] /\ ref'[d] = ref[d],
           ref'[c] - ref[c] = OwnRefs(c)' - OwnRefs(c) + CbRefs(c)' - CbRefs(c),
           ref'[c] \in Nat
    PROVE  RefExact'
<1>1. \A d \in Client : Borrowers(d)' = Borrowers(d)
  BY DEF Borrowers
<1>2. \A d \in Client : ref[d] = OwnRefs(d) + CbRefs(d) + Cardinality(Borrowers(d))
  BY DEF LifeInv, RefExact
<1>3. \A d \in Client : d # c => OwnRefs(d)' = OwnRefs(d) /\ CbRefs(d)' = CbRefs(d)
  BY DEF OwnRefs, CbRefs
<1>4. /\ Cardinality(Borrowers(c)) \in Nat /\ ref[c] \in Nat
      /\ OwnRefs(c) \in Int /\ CbRefs(c) \in Int
      /\ OwnRefs(c)' \in Int /\ CbRefs(c)' \in Int
  <2>1. Cardinality(Borrowers(c)) \in Nat
    BY Referenced
  <2>2. ref[c] \in Nat
    BY DEF LifeInv, TypeOK
  <2> QED BY <2>1, <2>2, RefParts
<1>5. ref'[c] = OwnRefs(c)' + CbRefs(c)' + Cardinality(Borrowers(c))
  BY <1>2, <1>4
<1>6. ASSUME NEW d \in Client
      PROVE  ref'[d] = OwnRefs(d)' + CbRefs(d)' + Cardinality(Borrowers(d)')
  <2>1. CASE d = c
    BY <2>1, <1>1, <1>5
  <2>2. CASE d # c
    BY <2>2, <1>1, <1>2, <1>3
  <2> QED BY <2>1, <2>2
<1> QED BY <1>6 DEF RefExact

-----------------------------------------------------------------------------
(* Every step keeps the invariant.                                         *)

(* bootstrap_create_client: the object appears with its first reference.   *)
LEMMA CreateKeeps ==
    ASSUME LifeInv, NEW c \in Client, CreateClient(c)
    PROVE  LifeInv'
<1>1. TypeOK'
  BY DEF LifeInv, TypeOK, CreateClient, Goto, Stages
<1>2. c \notin heap /\ ref[c] = 0 /\ owner[c] = "none" /\ cb[c] = FALSE
  <2>1. c \notin heap /\ ref[c] = 0
    BY DEF LifeInv, FreeInv, TypeOK, CreateClient
  <2> QED BY <2>1, Referenced
<1>3. RefExact'
  <2>1. ref'[c] = 1 /\ OwnRefs(c)' = 1 /\ CbRefs(c)' = 0
    BY DEF CreateClient, Goto, OwnRefs, CbRefs, LifeInv, TypeOK
  <2>2. OwnRefs(c) = 0 /\ CbRefs(c) = 0
    BY <1>2 DEF OwnRefs, CbRefs
  <2>3. /\ borrowed' = borrowed
        /\ \A d \in Client : d # c => /\ owner'[d] = owner[d]
                                      /\ cb'[d] = cb[d] /\ ref'[d] = ref[d]
    BY DEF CreateClient, Goto, LifeInv, TypeOK
  <2>4. ref'[c] - ref[c] = OwnRefs(c)' - OwnRefs(c) + CbRefs(c)' - CbRefs(c)
    BY <1>2, <2>1, <2>2
  <2> QED BY <2>1, <2>3, <2>4, OwnerRefs
<1>4. StageInv'
  BY DEF LifeInv, StageInv, TypeOK, CreateClient, Goto
<1>5. FreeInv'
  BY <1>2 DEF LifeInv, FreeInv, TypeOK, CreateClient
<1> QED BY <1>1, <1>3, <1>4, <1>5 DEF LifeInv

(* client_install_channel_callbacks: the second reference, or the failure  *)
(* path.                                                                   *)
LEMMA InstallKeeps ==
    ASSUME LifeInv, NEW c \in Client,
           InstallAddref(c) \/ InstallDone(c) \/ InstallFail(c)
    PROVE  LifeInv'
<1>1. CASE InstallAddref(c)
  <2>1. TypeOK'
    BY <1>1 DEF LifeInv, TypeOK, InstallAddref, Addref, Goto, Stages
  <2>2. owner[c] = "created" /\ cb[c] = FALSE /\ ref[c] > 0
    <3>1. owner[c] = "created" /\ cb[c] = FALSE
      BY <1>1 DEF LifeInv, StageInv, TypeOK, InstallAddref
    <3> QED BY <3>1, Referenced
  <2>3. RefExact'
    <3>1. /\ ref'[c] = ref[c] + 1 /\ ref[c] \in Nat
          /\ OwnRefs(c) = 1 /\ OwnRefs(c)' = 1 /\ CbRefs(c) = 0 /\ CbRefs(c)' = 1
      BY <1>1, <2>2 DEF InstallAddref, Addref, Goto, OwnRefs, CbRefs, LifeInv, TypeOK
    <3>2. /\ borrowed' = borrowed
          /\ \A d \in Client : d # c => /\ owner'[d] = owner[d]
                                        /\ cb'[d] = cb[d] /\ ref'[d] = ref[d]
      BY <1>1 DEF InstallAddref, Addref, Goto, LifeInv, TypeOK
    <3>3. ref'[c] - ref[c] = OwnRefs(c)' - OwnRefs(c) + CbRefs(c)' - CbRefs(c)
      BY <3>1
    <3> QED BY <3>1, <3>2, <3>3, OwnerRefs
  <2>4. StageInv'
    BY <1>1 DEF LifeInv, StageInv, TypeOK, InstallAddref, Goto
  <2>5. FreeInv'
    BY <1>1, <2>2 DEF LifeInv, FreeInv, TypeOK, InstallAddref, Addref
  <2> QED BY <2>1, <2>3, <2>4, <2>5 DEF LifeInv
<1>2. CASE InstallDone(c)
  <2>1. TypeOK'
    BY <1>2 DEF LifeInv, TypeOK, InstallDone, Goto, Stages
  <2>2. RefExact'
    <3>1. OwnRefs(c) = 1 /\ OwnRefs(c)' = 1 /\ CbRefs(c)' = CbRefs(c)
      BY <1>2 DEF InstallDone, Goto, OwnRefs, CbRefs, LifeInv, TypeOK
    <3>2. /\ borrowed' = borrowed /\ ref' = ref /\ ref[c] \in Nat
          /\ \A d \in Client : d # c => owner'[d] = owner[d] /\ cb'[d] = cb[d]
      BY <1>2 DEF InstallDone, Goto, LifeInv, TypeOK
    <3>3. ref'[c] - ref[c] = OwnRefs(c)' - OwnRefs(c) + CbRefs(c)' - CbRefs(c)
      BY <3>1, <3>2, RefParts
    <3> QED BY <3>2, <3>3, OwnerRefs
  <2>3. StageInv'
    BY <1>2 DEF LifeInv, StageInv, TypeOK, InstallDone, Goto
  <2>4. FreeInv'
    BY <1>2, FreeKept DEF InstallDone
  <2> QED BY <2>1, <2>2, <2>3, <2>4 DEF LifeInv
<1>3. CASE InstallFail(c)
  <2>1. owner[c] = "installing" /\ cb[c] = TRUE /\ ref[c] > 0
    <3>1. owner[c] = "installing" /\ cb[c] = TRUE
      BY <1>3 DEF LifeInv, StageInv, TypeOK, InstallFail
    <3> QED BY <3>1, Referenced
  <2>2. /\ ref' \in [Client -> Nat] /\ last' \in [Thread -> SUBSET Client]
        /\ ref'[c] = ref[c] - 1
        /\ \A d \in Client : d # c => ref'[d] = ref[d]
        /\ FreeInv'
    BY <1>3, <2>1, ReleaseStep DEF InstallFail, Thread
  <2>3. TypeOK'
    BY <1>3, <2>2 DEF LifeInv, TypeOK, InstallFail, Goto, Stages
  <2>4. RefExact'
    <3>1. OwnRefs(c) = 1 /\ OwnRefs(c)' = 1 /\ CbRefs(c) = 1 /\ CbRefs(c)' = 0
      BY <1>3, <2>1 DEF InstallFail, Goto, OwnRefs, CbRefs, LifeInv, TypeOK
    <3>2. /\ borrowed' = borrowed /\ ref[c] \in Nat
          /\ \A d \in Client : d # c => owner'[d] = owner[d] /\ cb'[d] = cb[d]
      BY <1>3 DEF InstallFail, Goto, LifeInv, TypeOK
    <3>3. ref'[c] - ref[c] = OwnRefs(c)' - OwnRefs(c) + CbRefs(c)' - CbRefs(c)
      BY <2>2, <3>1, <3>2
    <3> QED BY <2>2, <3>2, <3>3, OwnerRefs
  <2>5. StageInv'
    BY <1>3 DEF LifeInv, StageInv, TypeOK, InstallFail, Goto
  <2> QED BY <2>2, <2>3, <2>4, <2>5 DEF LifeInv
<1> QED BY <1>1, <1>2, <1>3

(* BootstrapRelease and DropMainRef: the session's reference goes.         *)
LEMMA OwnRefKeeps ==
    ASSUME LifeInv, NEW c \in Client, BootstrapRelease(c) \/ DropMainRef(c)
    PROVE  LifeInv'
<1>1. /\ owner[c] \in {"failed", "dropping"}
      /\ owner' = [owner EXCEPT ![c] = "none"]
      /\ Release(c, c)
      /\ UNCHANGED <<heap, cb, members, borrowed>>
  BY DEF BootstrapRelease, DropMainRef, Goto
<1>2. cb[c] = FALSE /\ ref[c] > 0 /\ c \notin members
  <2>1. cb[c] = FALSE /\ c \notin members
    BY <1>1 DEF LifeInv, StageInv, TypeOK
  <2> QED BY <1>1, <2>1, Referenced
<1>3. /\ ref' \in [Client -> Nat] /\ last' \in [Thread -> SUBSET Client]
      /\ ref'[c] = ref[c] - 1
      /\ \A d \in Client : d # c => ref'[d] = ref[d]
      /\ FreeInv'
  BY <1>1, <1>2, ReleaseStep DEF Thread
<1>4. TypeOK'
  BY <1>1, <1>3 DEF LifeInv, TypeOK, Stages
<1>5. RefExact'
  <2>1. OwnRefs(c) = 1 /\ OwnRefs(c)' = 0 /\ CbRefs(c) = 0 /\ CbRefs(c)' = 0
    BY <1>1, <1>2 DEF OwnRefs, CbRefs, LifeInv, TypeOK
  <2>2. /\ borrowed' = borrowed /\ ref[c] \in Nat
        /\ \A d \in Client : d # c => owner'[d] = owner[d] /\ cb'[d] = cb[d]
    BY <1>1 DEF LifeInv, TypeOK
  <2>3. ref'[c] - ref[c] = OwnRefs(c)' - OwnRefs(c) + CbRefs(c)' - CbRefs(c)
    BY <1>3, <2>1, <2>2
  <2> QED BY <1>3, <2>2, <2>3, OwnerRefs
<1>6. StageInv'
  BY <1>1, <1>2 DEF LifeInv, StageInv, TypeOK
<1> QED BY <1>3, <1>4, <1>5, <1>6 DEF LifeInv

(* Joining and leaving the room take no reference.                         *)
LEMMA RoomKeeps ==
    ASSUME LifeInv, NEW c \in Client, RoomAddClient(c) \/ RoomRemoveClient(c)
    PROVE  LifeInv'
<1>1. /\ owner[c] \in {"ready", "joined"}
      /\ \E st \in {"joined", "removed"} : owner' = [owner EXCEPT ![c] = st]
      /\ UNCHANGED <<heap, ref, cb, borrowed, last>>
  BY DEF RoomAddClient, RoomRemoveClient, Goto
<1>2. TypeOK'
  BY <1>1 DEF LifeInv, TypeOK, RoomAddClient, RoomRemoveClient, Stages
<1>3. RefExact'
  <2>1. OwnRefs(c) = 1 /\ OwnRefs(c)' = 1 /\ CbRefs(c)' = CbRefs(c)
    BY <1>1 DEF OwnRefs, CbRefs, LifeInv, TypeOK
  <2>2. /\ borrowed' = borrowed /\ ref' = ref /\ ref[c] \in Nat
        /\ \A d \in Client : d # c => owner'[d] = owner[d] /\ cb'[d] = cb[d]
    BY <1>1 DEF LifeInv, TypeOK
  <2>3. ref'[c] - ref[c] = OwnRefs(c)' - OwnRefs(c) + CbRefs(c)' - CbRefs(c)
    BY <2>1, <2>2, RefParts
  <2> QED BY <2>2, <2>3, OwnerRefs
<1>4. StageInv'
  BY DEF LifeInv, StageInv, TypeOK, RoomAddClient, RoomRemoveClient, Goto
<1>5. FreeInv'
  BY <1>1, FreeKept
<1> QED BY <1>2, <1>3, <1>4, <1>5 DEF LifeInv

(* The callback reference is released exactly once.                        *)
LEMMA DropCallbackKeeps ==
    ASSUME LifeInv, NEW c \in Client, DropCallbackRef(c)
    PROVE  LifeInv'
<1>1. owner[c] \in {"ready", "removed"} /\ ref[c] > 0 /\ cb[c] \in BOOLEAN
  <2>1. owner[c] \in {"ready", "removed"} /\ cb[c] \in BOOLEAN
    BY DEF DropCallbackRef, LifeInv, TypeOK
  <2> QED BY <2>1, Referenced
<1>2. OwnRefs(c) = 1 /\ OwnRefs(c)' = 1 /\ CbRefs(c)' = 0
  BY <1>1 DEF DropCallbackRef, Goto, OwnRefs, CbRefs, LifeInv, TypeOK
<1>3. /\ ref' \in [Client -> Nat] /\ last' \in [Thread -> SUBSET Client]
      /\ ref'[c] = ref[c] - CbRefs(c)
      /\ \A d \in Client : d # c => ref'[d] = ref[d]
      /\ FreeInv'
  <2>1. CASE cb[c] = TRUE
    <3>1. Release(c, c) /\ heap' = heap /\ CbRefs(c) = 1
      BY <2>1 DEF DropCallbackRef, CbRefs
    <3> QED BY <1>1, <3>1, ReleaseStep DEF Thread
  <2>2. CASE cb[c] = FALSE
    <3>1. UNCHANGED <<heap, ref, last>> /\ CbRefs(c) = 0
      BY <2>2 DEF DropCallbackRef, CbRefs
    <3> QED BY <3>1, FreeKept DEF LifeInv, TypeOK
  <2> QED BY <1>1, <2>1, <2>2
<1>4. TypeOK'
  BY <1>3 DEF LifeInv, TypeOK, DropCallbackRef, Goto, Stages
<1>5. RefExact'
  <2>1. /\ borrowed' = borrowed /\ ref[c] \in Nat
        /\ \A d \in Client : d # c => owner'[d] = owner[d] /\ cb'[d] = cb[d]
    BY DEF DropCallbackRef, Goto, LifeInv, TypeOK
  <2>2. ref'[c] - ref[c] = OwnRefs(c)' - OwnRefs(c) + CbRefs(c)' - CbRefs(c)
    BY <1>2, <1>3, <2>1, RefParts
  <2> QED BY <1>3, <2>1, <2>2, OwnerRefs
<1>6. StageInv'
  BY DEF LifeInv, StageInv, TypeOK, DropCallbackRef, Goto
<1> QED BY <1>3, <1>4, <1>5, <1>6 DEF LifeInv

(* The thread that brought the count to zero frees the object.             *)
LEMMA FreeKeeps ==
    ASSUME LifeInv, NEW t \in Thread, NEW c \in Client, Free(t, c)
    PROVE  LifeInv'
<1>1. TypeOK'
  BY DEF LifeInv, TypeOK, Free
<1>2. ref[c] = 0 /\ owner[c] = "none"
  <2>1. ref[c] = 0
    BY DEF LifeInv, FreeInv, TypeOK, Free
  <2> QED BY <2>1, Referenced
<1>3. RefExact'
  BY DEF LifeInv, RefExact, OwnRefs, CbRefs, Borrowers, Free
<1>4. StageInv'
  BY <1>2 DEF LifeInv, StageInv, Free
<1>5. FreeInv'
  BY <1>2 DEF LifeInv, FreeInv, TypeOK, Free
<1> QED BY <1>1, <1>3, <1>4, <1>5 DEF LifeInv

(* Borrowing: every target is in the room and so has a reference already.  *)
LEMMA CollectKeeps ==
    ASSUME LifeInv, NEW t \in Thread, NEW T \in SUBSET members, Collect(t, T)
    PROVE  LifeInv'
<1>1. T \subseteq Client /\ borrowed[t] = {} /\ \A d \in T : ref[d] > 0
  BY Referenced DEF Collect, MayNotify, LifeInv, TypeOK
<1>2. TypeOK'
  BY <1>1 DEF LifeInv, TypeOK, Collect, Addref
<1>3. RefExact'
  <2> SUFFICES ASSUME NEW d \in Client
               PROVE  ref'[d] = OwnRefs(d)' + CbRefs(d)' + Cardinality(Borrowers(d)')
    BY DEF RefExact
  <2>1. ref[d] = OwnRefs(d) + CbRefs(d) + Cardinality(Borrowers(d))
    BY DEF LifeInv, RefExact
  <2>2. OwnRefs(d)' = OwnRefs(d) /\ CbRefs(d)' = CbRefs(d)
    BY DEF OwnRefs, CbRefs, Collect
  <2>3. OwnRefs(d) \in Int /\ CbRefs(d) \in Int /\ Cardinality(Borrowers(d)) \in Nat
    <3>1. OwnRefs(d) \in Int /\ CbRefs(d) \in Int
      BY RefParts
    <3>2. Cardinality(Borrowers(d)) \in Nat
      BY Referenced
    <3> QED BY <3>1, <3>2
  <2>4. t \notin Borrowers(d) /\ Borrowers(d) \in SUBSET Thread
    BY <1>1 DEF Borrowers
  <2>5. CASE d \in T
    <3>1. Borrowers(d)' = Borrowers(d) \cup {t}
      BY <1>1, <2>5 DEF Borrowers, Collect, LifeInv, TypeOK
    <3>2. Cardinality(Borrowers(d)') = Cardinality(Borrowers(d)) + 1
      BY <2>4, <3>1, ThreadCount
    <3>3. ref'[d] = ref[d] + 1
      BY <2>5 DEF Collect, Addref
    <3> QED BY <2>1, <2>2, <2>3, <3>2, <3>3
  <2>6. CASE d \notin T
    <3>1. Borrowers(d)' = Borrowers(d)
      BY <1>1, <2>6 DEF Borrowers, Collect, LifeInv, TypeOK
    <3>2. ref'[d] = ref[d]
      BY <2>6 DEF Collect, Addref
    <3> QED BY <2>1, <2>2, <3>1, <3>2
  <2> QED BY <2>5, <2>6
<1>4. StageInv'
  BY DEF LifeInv, StageInv, Collect
<1>5. FreeInv'
  BY <1>1 DEF LifeInv, FreeInv, TypeOK, Collect, Addref
<1> QED BY <1>2, <1>3, <1>4, <1>5 DEF LifeInv

(* A notifying thread uses its targets and releases them one by one.       *)
LEMMA UseKeeps ==
    ASSUME LifeInv, NEW t \in Thread, NEW c \in Client, UseAndRelease(t, c)
    PROVE  LifeInv'
<1>1. c \in borrowed[t] /\ ref[c] > 0
  BY Referenced DEF UseAndRelease
<1>2. /\ ref' \in [Client -> Nat] /\ last' \in [Thread -> SUBSET Client]
      /\ ref'[c] = ref[c] - 1
      /\ \A d \in Client : d # c => ref'[d] = ref[d]
      /\ FreeInv'
  BY <1>1, ReleaseStep DEF UseAndRelease
<1>3. TypeOK'
  BY <1>2 DEF LifeInv, TypeOK, UseAndRelease
<1>4. RefExact'
  <2> SUFFICES ASSUME NEW d \in Client
               PROVE  ref'[d] = OwnRefs(d)' + CbRefs(d)' + Cardinality(Borrowers(d)')
    BY DEF RefExact
  <2>1. ref[d] = OwnRefs(d) + CbRefs(d) + Cardinality(Borrowers(d))
    BY DEF LifeInv, RefExact
  <2>2. OwnRefs(d)' = OwnRefs(d) /\ CbRefs(d)' = CbRefs(d)
    BY DEF OwnRefs, CbRefs, UseAndRelease
  <2>3. OwnRefs(d) \in Int /\ CbRefs(d) \in Int /\ Cardinality(Borrowers(d)) \in Nat
    <3>1. OwnRefs(d) \in Int /\ CbRefs(d) \in Int
      BY RefParts
    <3>2. Cardinality(Borrowers(d)) \in Nat
      BY Referenced
    <3> QED BY <3>1, <3>2
  <2>4. CASE d = c
    <3>1. Borrowers(c)' = Borrowers(c) \ {t} /\ t \in Borrowers(c)
      BY <1>1 DEF Borrowers, UseAndRelease, LifeInv, TypeOK
    <3>2. Borrowers(c) \in SUBSET Thread
      BY DEF Borrowers
    <3>3. Cardinality(Borrowers(c)') = Cardinality(Borrowers(c)) - 1
      BY <3>1, <3>2, ThreadCount
    <3> QED BY <2>1, <2>2, <2>3, <2>4, <3>3, <1>2
  <2>5. CASE d # c
    <3>1. Borrowers(d)' = Borrowers(d)
      BY <2>5 DEF Borrowers, UseAndRelease, LifeInv, TypeOK
    <3> QED BY <2>1, <2>2, <2>5, <3>1, <1>2
  <2> QED BY <2>4, <2>5
<1>5. StageInv'
  BY DEF LifeInv, StageInv, UseAndRelease
<1> QED BY <1>2, <1>3, <1>4, <1>5 DEF LifeInv

-----------------------------------------------------------------------------

(* At the start there is no object.                                        *)
LEMMA InitLife == Init => LifeInv
<1> SUFFICES ASSUME Init PROVE LifeInv
  OBVIOUS
<1>1. TypeOK
  BY DEF Init, TypeOK, Stages
<1>2. RefExact
  <2>1. ASSUME NEW c \in Client
        PROVE  /\ Cardinality(Borrowers(c)) = 0
               /\ OwnRefs(c) = 0 /\ CbRefs(c) = 0 /\ ref[c] = 0
    <3>1. Borrowers(c) = {}
      BY DEF Init, Borrowers
    <3> QED BY <3>1, FS_EmptySet DEF Init, OwnRefs, CbRefs
  <2> QED BY <2>1 DEF RefExact
<1>3. StageInv
  BY DEF Init, StageInv
<1>4. FreeInv
  BY DEF Init, FreeInv
<1> QED BY <1>1, <1>2, <1>3, <1>4 DEF LifeInv

(* One step per action of Next.                                            *)
LEMMA StepLife == LifeInv /\ [Next]_vars => LifeInv'
<1> SUFFICES ASSUME LifeInv, [Next]_vars PROVE LifeInv'
  OBVIOUS
<1>1. ASSUME NEW c \in Client,
             OwnerStep(c) \/ CreateClient(c) \/ RoomAddClient(c) \/ RoomRemoveClient(c)
      PROVE  LifeInv'
  BY <1>1, CreateKeeps, InstallKeeps, OwnRefKeeps, RoomKeeps, DropCallbackKeeps
     DEF OwnerStep
<1>2. ASSUME NEW t \in Thread, ThreadStep(t)
      PROVE  LifeInv'
  BY <1>2, FreeKeeps, UseKeeps DEF ThreadStep
<1>3. ASSUME NEW t \in Thread, NEW T \in SUBSET members, Collect(t, T)
      PROVE  LifeInv'
  BY <1>3, CollectKeeps
<1>4. CASE UNCHANGED vars
  BY <1>4 DEF vars, LifeInv, TypeOK, RefExact, StageInv, FreeInv, OwnRefs, CbRefs, Borrowers
<1> QED BY <1>1, <1>2, <1>3, <1>4 DEF Next

(* The inductive invariant of client_t's life.                             *)
THEOREM LifeInvariant == Spec => []LifeInv
<1> QED BY InitLife, StepLife, PTL DEF Spec

(* ref_count equals the references of the session, the callbacks and the   *)
(* notifying threads, with any number of clients and threads.              *)
THEOREM RefIsExact == Spec => []RefExact
<1>1. LifeInv => RefExact
  BY DEF LifeInv
<1> QED BY <1>1, LifeInvariant, PTL

(* No thread of any number uses a client_t after it was freed, nor frees   *)
(* one that another thread frees or has freed.                             *)
THEOREM NeverUsedAfterFree == Spec => []NoUseAfterFree
<1>1. LifeInv => NoUseAfterFree
  <2> SUFFICES ASSUME LifeInv PROVE NoUseAfterFree
    OBVIOUS
  <2>1. ASSUME NEW c \in Client,
               owner[c] # "none" \/ c \in members \/ Borrowers(c) # {}
        PROVE  c \in heap /\ Freeing(c) = {}
    <3>1. ref[c] > 0
      BY <2>1, Referenced
    <3> QED BY <3>1 DEF LifeInv, FreeInv, Freeing
  <2>2. ASSUME NEW c \in Client, Freeing(c) # {}
        PROVE  c \in heap /\ Cardinality(Freeing(c)) = 1
    <3>1. PICK t \in Thread : c \in last[t]
      BY <2>2 DEF Freeing
    <3>2. c \in heap /\ Freeing(c) = {t}
      BY <3>1 DEF LifeInv, FreeInv, Freeing
    <3> QED BY <3>2, FS_Singleton
  <2> QED BY <2>1, <2>2 DEF NoUseAfterFree
<1> QED BY <1>1, LifeInvariant, PTL

-----------------------------------------------------------------------------
(* The other half of a count: what nobody refers to is being freed.        *)

Held == \A c \in heap : ref[c] = 0 => \E t \in Thread : c \in last[t]

(* An allocated object has an owner, a thread that notifies it, or one     *)
(* that frees it: none is left behind.                                     *)
NothingStranded ==
    \A c \in heap : owner[c] # "none" \/ Borrowers(c) # {} \/ Freeing(c) # {}

(* Who takes a count to zero is left with the object.                      *)
LEMMA ReleaseHolds ==
    ASSUME LifeInv, Held, NEW t \in Thread, NEW c \in Client, ref[c] > 0,
           Release(t, c), heap' = heap
    PROVE  Held'
<1>1. /\ ref'[c] = ref[c] - 1 /\ ref[c] \in Nat
      /\ \A d \in Client : d # c => ref'[d] = ref[d]
  BY ReleaseStep DEF LifeInv, TypeOK
<1>2. /\ last \in [Thread -> SUBSET Client] /\ heap \subseteq Client
      /\ last' = [last EXCEPT ![t] = IF ref[c] = 1 THEN @ \cup {c} ELSE @]
  BY DEF LifeInv, TypeOK, Release
<1>3. \A u \in Thread : last[u] \subseteq last'[u]
  BY <1>2
<1>4. ref[c] = 1 => c \in last'[t]
  BY <1>2
<1>5. ASSUME NEW d \in heap, ref'[d] = 0
      PROVE  \E u \in Thread : d \in last'[u]
  <2>1. CASE d = c
    BY <2>1, <1>1, <1>4, <1>5
  <2>2. CASE d # c
    BY <2>2, <1>1, <1>2, <1>3, <1>5 DEF Held
  <2> QED BY <2>1, <2>2
<1> QED BY <1>5 DEF Held

(* Actions that count nothing down.                                        *)
LEMMA CountKept ==
    ASSUME LifeInv, Held, heap' = heap, last' = last,
           \A c \in heap : ref'[c] = 0 => ref[c] = 0
    PROVE  Held'
BY DEF Held

(* One step per action.                                                    *)
LEMMA StepHeld == LifeInv /\ Held /\ [Next]_vars => Held'
<1> SUFFICES ASSUME LifeInv, Held, [Next]_vars PROVE Held'
  OBVIOUS
<1>0. ref \in [Client -> Nat] /\ heap \subseteq Client /\ Client \subseteq Thread
  BY DEF LifeInv, TypeOK, Thread
<1>1. ASSUME NEW c \in Client, CreateClient(c) PROVE Held'
  <2>1. heap' = heap \cup {c} /\ last' = last /\ ref' = [ref EXCEPT ![c] = 1]
    BY <1>1 DEF CreateClient
  <2>2. \A d \in heap' : ref'[d] = 0 => d \in heap /\ ref[d] = 0
    BY <1>0, <2>1
  <2> QED BY <2>1, <2>2 DEF Held
<1>2. ASSUME NEW c \in Client,
             InstallDone(c) \/ RoomAddClient(c) \/ RoomRemoveClient(c)
      PROVE  Held'
  BY <1>2, CountKept DEF InstallDone, RoomAddClient, RoomRemoveClient
<1>3. ASSUME NEW c \in Client, InstallAddref(c) PROVE Held'
  <2>1. heap' = heap /\ last' = last
    BY <1>3 DEF InstallAddref
  <2>2. \A d \in Client : ref'[d] = 0 => ref[d] = 0
    BY <1>0, <1>3 DEF InstallAddref, Addref
  <2> QED BY <1>0, <2>1, <2>2, CountKept
<1>4. ASSUME NEW c \in Client,
             InstallFail(c) \/ BootstrapRelease(c) \/ DropMainRef(c)
      PROVE  Held'
  <2>1. heap' = heap /\ Release(c, c) /\ owner[c] # "none"
    BY <1>4 DEF InstallFail, BootstrapRelease, DropMainRef
  <2> QED BY <1>0, <2>1, Referenced, ReleaseHolds
<1>5. ASSUME NEW c \in Client, DropCallbackRef(c) PROVE Held'
  <2>1. heap' = heap /\ owner[c] # "none"
    BY <1>5 DEF DropCallbackRef
  <2>2. CASE cb[c]
    BY <1>0, <1>5, <2>1, <2>2, Referenced, ReleaseHolds DEF DropCallbackRef
  <2>3. CASE ~cb[c]
    BY <1>5, <2>1, <2>3, CountKept DEF DropCallbackRef
  <2> QED BY <2>2, <2>3
<1>6. ASSUME NEW t \in Thread, NEW c \in Client, Free(t, c) PROVE Held'
  <2>1. /\ heap' = heap \ {c} /\ ref' = ref
        /\ \A u \in Thread : last[u] \ {c} \subseteq last'[u]
    BY <1>6 DEF Free, LifeInv, TypeOK
  <2> QED BY <2>1 DEF Held
<1>7. ASSUME NEW t \in Thread, NEW c \in Client, UseAndRelease(t, c) PROVE Held'
  <2>1. heap' = heap /\ Release(t, c) /\ c \in borrowed[t]
    BY <1>7 DEF UseAndRelease
  <2> QED BY <2>1, Referenced, ReleaseHolds
<1>8. ASSUME NEW t \in Thread, NEW T \in SUBSET members, Collect(t, T) PROVE Held'
  <2>1. heap' = heap /\ last' = last
    BY <1>8 DEF Collect
  <2>2. \A d \in Client : ref'[d] = 0 => ref[d] = 0
    BY <1>0, <1>8 DEF Collect, Addref
  <2> QED BY <1>0, <2>1, <2>2, CountKept
<1>9. CASE UNCHANGED vars
  BY <1>9, CountKept DEF vars
<1> QED BY <1>1, <1>2, <1>3, <1>4, <1>5, <1>6, <1>7, <1>8, <1>9
        DEF Next, OwnerStep, ThreadStep

(* The half of NoLeak that needs no fairness: at any time every allocated  *)
(* client_t has its session, a thread that notifies it or one that is      *)
(* about to free it, whatever fails at setup and whoever releases last.    *)
THEOREM NeverStranded == Spec => []NothingStranded
<1>1. Init => Held
  BY DEF Init, Held
<1>2. Spec => [](LifeInv /\ Held)
  BY <1>1, InitLife, StepLife, StepHeld, PTL DEF Spec
<1>3. LifeInv /\ Held => NothingStranded
  <2> SUFFICES ASSUME LifeInv, Held, NEW c \in heap,
                      owner[c] = "none", Borrowers(c) = {}
               PROVE  Freeing(c) # {}
    BY DEF NothingStranded
  <2>1. c \in Client /\ cb[c] = FALSE /\ Cardinality(Borrowers(c)) = 0
    BY FS_EmptySet DEF LifeInv, TypeOK, StageInv
  <2>2. ref[c] = OwnRefs(c) + CbRefs(c) + Cardinality(Borrowers(c))
    BY <2>1 DEF LifeInv, RefExact
  <2>3. ref[c] = 0
    BY <2>1, <2>2 DEF OwnRefs, CbRefs
  <2> QED BY <2>3 DEF Held, Freeing
<1> QED BY <1>2, <1>3, PTL
=============================================================================
