----------------------------- MODULE ClientLife ------------------------------
(***************************************************************************)
(* Reference counting of client_t (client.c) by the session that owns it   *)
(* and by the threads that borrow it to notify somebody (notify_mentions,  *)
(* send_private_message).  A client is found through the room, under the   *)
(* room's lock, and used after the lock is gone.                           *)
(***************************************************************************)
EXTENDS Integers, FiniteSets

CONSTANTS
    Client,   \* client_t objects; an address is reused after free()
    Worker    \* threads without a client that notify: module worker, exec

ASSUME ClientLifeAssumption ==
    /\ IsFiniteSet(Client) /\ IsFiniteSet(Worker)
    /\ Client \cap Worker = {}

(* A session's thread goes by the name of its client.                      *)
Thread == Client \cup Worker

VARIABLES
    owner,     \* where the owning thread is in the client's life
    heap,      \* the allocated client_t objects
    ref,       \* ref_count
    cb,        \* channel_callback_ref
    members,   \* g_room->clients
    borrowed,  \* clients each thread holds a reference to
    last       \* clients each thread counted down to zero and now frees

vars == <<owner, heap, ref, cb, members, borrowed, last>>

Stages == {"none", "created", "installing", "failed", "ready", "joined",
           "removed", "dropping"}

Goto(c, st) == owner' = [owner EXCEPT ![c] = st]

(* client_addref of every client of S.                                     *)
Addref(S) == ref' = [c \in Client |-> IF c \in S THEN ref[c] + 1 ELSE ref[c]]

(* client_release up to the unlock: the count it has read decides.         *)
Release(t, c) ==
    /\ ref' = [ref EXCEPT ![c] = @ - 1]
    /\ last' = [last EXCEPT ![t] = IF ref[c] = 1 THEN @ \cup {c} ELSE @]

(* The rest of client_release: the channel, the session and the object go. *)
Free(t, c) ==
    /\ c \in last[t]
    /\ heap' = heap \ {c}
    /\ last' = [last EXCEPT ![t] = @ \ {c}]
    /\ UNCHANGED <<owner, ref, cb, members, borrowed>>

Init ==
    /\ owner = [c \in Client |-> "none"]
    /\ heap = {}
    /\ ref = [c \in Client |-> 0]
    /\ cb = [c \in Client |-> FALSE]
    /\ members = {}
    /\ borrowed = [t \in Thread |-> {}]
    /\ last = [t \in Thread |-> {}]

-----------------------------------------------------------------------------
(* bootstrap_run and client_install_channel_callbacks.                     *)

CreateClient(c) ==
    /\ owner[c] = "none" /\ c \notin heap
    /\ Goto(c, "created")
    /\ heap' = heap \cup {c}
    /\ ref' = [ref EXCEPT ![c] = 1]
    /\ cb' = [cb EXCEPT ![c] = FALSE]
    /\ UNCHANGED <<members, borrowed, last>>

InstallAddref(c) ==
    /\ owner[c] = "created"
    /\ Goto(c, "installing")
    /\ Addref({c})
    /\ cb' = [cb EXCEPT ![c] = TRUE]
    /\ UNCHANGED <<heap, members, borrowed, last>>

InstallDone(c) ==
    /\ owner[c] = "installing"
    /\ Goto(c, "ready")
    /\ UNCHANGED <<heap, ref, cb, members, borrowed, last>>

(* No memory, or libssh refuses the callbacks.                             *)
InstallFail(c) ==
    /\ owner[c] = "installing"
    /\ Goto(c, "failed")
    /\ cb' = [cb EXCEPT ![c] = FALSE]
    /\ Release(c, c)
    /\ UNCHANGED <<heap, members, borrowed>>

(* bootstrap_run takes session and channel back and drops the client.      *)
BootstrapRelease(c) ==
    /\ owner[c] = "failed"
    /\ Goto(c, "none")
    /\ Release(c, c)
    /\ UNCHANGED <<heap, cb, members, borrowed>>

-----------------------------------------------------------------------------
(* input_run_session.                                                      *)

RoomAddClient(c) ==
    /\ owner[c] = "ready"
    /\ Goto(c, "joined")
    /\ members' = members \cup {c}
    /\ UNCHANGED <<heap, ref, cb, borrowed, last>>

(* A cleanup that releases before the room forgets the client.             *)
RoomRemoveClientLate(c) ==
    /\ owner[c] = "joined" /\ borrowed[c] = {} /\ last[c] = {}
    /\ Goto(c, "removed")
    /\ UNCHANGED <<heap, ref, cb, members, borrowed, last>>

RoomRemoveClient(c) ==
    /\ owner[c] = "joined" /\ borrowed[c] = {} /\ last[c] = {}
    /\ Goto(c, "removed")
    /\ members' = members \ {c}
    /\ UNCHANGED <<heap, ref, cb, borrowed, last>>

(* Forgetting that the callbacks held a reference.                         *)
DropCallbackRefLost(c) ==
    /\ owner[c] \in {"ready", "removed"}
    /\ Goto(c, "dropping")
    /\ cb' = [cb EXCEPT ![c] = FALSE]
    /\ UNCHANGED <<heap, ref, members, borrowed, last>>

(* client_release_session: the callbacks' reference, if there is one ...   *)
DropCallbackRef(c) ==
    /\ owner[c] \in {"ready", "removed"}
    /\ Goto(c, "dropping")
    /\ cb' = [cb EXCEPT ![c] = FALSE]
    /\ IF cb[c] THEN Release(c, c) ELSE UNCHANGED <<ref, last>>
    /\ UNCHANGED <<heap, members, borrowed>>

(* ... and the session's own.                                              *)
DropMainRef(c) ==
    /\ owner[c] = "dropping"
    /\ Goto(c, "none")
    /\ Release(c, c)
    /\ UNCHANGED <<heap, cb, members, borrowed>>

-----------------------------------------------------------------------------
(* notify_mentions and send_private_message.                               *)

MayNotify(t) == /\ t \in Client => owner[t] = "joined"
                /\ borrowed[t] = {} /\ last[t] = {}

(* Targets remembered without a reference.                                 *)
CollectBare(t, targets) ==
    /\ MayNotify(t)
    /\ targets \subseteq members /\ targets # {}
    /\ borrowed' = [borrowed EXCEPT ![t] = targets]
    /\ UNCHANGED <<owner, heap, ref, cb, members, last>>

(* Under the read lock: the targets are looked up and referenced.  Threads *)
(* may collect at the same time; the counts have locks of their own.       *)
Collect(t, targets) ==
    /\ MayNotify(t)
    /\ targets \subseteq members /\ targets # {}
    /\ borrowed' = [borrowed EXCEPT ![t] = targets]
    /\ Addref(targets)
    /\ UNCHANGED <<owner, heap, cb, members, last>>

(* The target is written to (counter, inbox, bell) and given back.         *)
UseAndRelease(t, c) ==
    /\ c \in borrowed[t]
    /\ borrowed' = [borrowed EXCEPT ![t] = @ \ {c}]
    /\ Release(t, c)
    /\ UNCHANGED <<owner, heap, cb, members>>

-----------------------------------------------------------------------------

OwnerStep(c) ==
    \/ InstallAddref(c) \/ InstallDone(c) \/ InstallFail(c)
    \/ BootstrapRelease(c) \/ DropCallbackRef(c) \/ DropMainRef(c)

ThreadStep(t) == \E c \in Client : Free(t, c) \/ UseAndRelease(t, c)

Next ==
    \/ \E c \in Client :
          OwnerStep(c) \/ CreateClient(c) \/ RoomAddClient(c) \/ RoomRemoveClient(c)
    \/ \E t \in Thread :
          ThreadStep(t) \/ \E targets \in SUBSET members : Collect(t, targets)

Spec == Init /\ [][Next]_vars

(* Threads are scheduled; whether a session starts, joins or notifies is   *)
(* up to its user.                                                         *)
FairSpec ==
    /\ Spec
    /\ \A c \in Client : WF_vars(OwnerStep(c))
    /\ \A t \in Thread : WF_vars(ThreadStep(t))

-----------------------------------------------------------------------------

TypeOK ==
    /\ owner \in [Client -> Stages]
    /\ heap \subseteq Client
    /\ ref \in [Client -> Nat]
    /\ cb \in [Client -> BOOLEAN]
    /\ members \subseteq Client
    /\ borrowed \in [Thread -> SUBSET Client]
    /\ last \in [Thread -> SUBSET Client]

Borrowers(c) == {t \in Thread : c \in borrowed[t]}
Freeing(c)   == {t \in Thread : c \in last[t]}

OwnRefs(c) == IF owner[c] = "none" THEN 0 ELSE 1
CbRefs(c)  == IF cb[c] THEN 1 ELSE 0

(* The count is exactly the references there are: the session's, the       *)
(* callbacks' and one for every thread that is notifying the client.       *)
RefExact ==
    \A c \in Client : ref[c] = OwnRefs(c) + CbRefs(c) + Cardinality(Borrowers(c))

(* Whoever can still reach a client -- its session, the room, a notifying  *)
(* thread -- finds an object that is allocated and that nobody is freeing, *)
(* and an object is freed by one thread only, once.                        *)
NoUseAfterFree ==
    /\ \A c \in Client :
          owner[c] # "none" \/ c \in members \/ Borrowers(c) # {}
             => c \in heap /\ Freeing(c) = {}
    /\ \A c \in Client :
          Freeing(c) # {} => c \in heap /\ Cardinality(Freeing(c)) = 1

(* What makes these inductive.  The room only lists joined clients; the    *)
(* callbacks' reference is there from its installation on, and does not    *)
(* outlive the session's; a client with an owner is allocated ...          *)
StageInv ==
    \A c \in Client :
        /\ c \in members => owner[c] = "joined"
        /\ cb[c] => owner[c] \in {"installing", "ready", "joined", "removed"}
        /\ owner[c] = "installing" => cb[c]
        /\ owner[c] # "none" => c \in heap

(* ... and what is referenced is allocated and not being freed, while what *)
(* is being freed is still allocated and has one thread that frees it.     *)
FreeInv ==
    /\ \A c \in Client : ref[c] > 0 => c \in heap /\ \A t \in Thread : c \notin last[t]
    /\ \A t \in Thread : \A c \in last[t] : c \in heap
    /\ \A t, u \in Thread : \A c \in last[t] \cap last[u] : t = u

LifeInv == TypeOK /\ RefExact /\ StageInv /\ FreeInv

(* Once its session has ended, a client's memory and its SSH connection    *)
(* are released.                                                           *)
NoLeak == \A c \in Client : c \in heap /\ owner[c] = "none" ~> c \notin heap
=============================================================================
