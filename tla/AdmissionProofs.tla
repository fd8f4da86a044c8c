--------------------------- MODULE AdmissionProofs ---------------------------
(***************************************************************************)
(* Invariance proofs for Admission, for every value of its constants.      *)
(***************************************************************************)
EXTENDS AdmissionHistory, FiniteSetTheorems, TLAPS

(* Every non-empty set of naturals has a least element: the least-number   *)
(* principle in a form whose statement has no operator parameter.          *)
LEMMA NatMin ==
    ASSUME NEW S \in SUBSET Nat, S # {}
    PROVE  \E i \in S : \A j \in S : i <= j
<1> DEFINE F == {0 .. i : i \in S}
<1>1. F # {}
  OBVIOUS
<1>2. F \subseteq FiniteSubsetsOf(Nat)
  <2> SUFFICES ASSUME NEW i \in S PROVE 0 .. i \in FiniteSubsetsOf(Nat)
    OBVIOUS
  <2>1. IsFiniteSet(0 .. i)
    BY FS_Interval
  <2>2. 0 .. i \in SUBSET Nat
    OBVIOUS
  <2> QED BY <2>1, <2>2 DEF FiniteSubsetsOf
<1>3. PICK T \in F : \A U \in F : ~ (<<U, T>> \in StrictSubsetOrdering(Nat))
  <2> HIDE DEF F
  <2> QED BY <1>1, <1>2, WFMin, FS_StrictSubsetOrderingWellFounded
<1>4. PICK i \in S : T = 0 .. i
  BY <1>3
<1>5. ASSUME NEW j \in S, ~ (i <= j) PROVE FALSE
  <2>1. /\ 0 .. j \in SUBSET Nat /\ 0 .. i \in SUBSET Nat
        /\ 0 .. j \subseteq 0 .. i
        /\ i \in 0 .. i /\ i \notin 0 .. j
    BY <1>5
  <2>2. <<0 .. j, 0 .. i>> \in StrictSubsetOrdering(Nat)
    BY <2>1 DEF StrictSubsetOrdering
  <2> QED BY <2>2, <1>3, <1>4
<1> QED BY <1>5

-----------------------------------------------------------------------------
(* The table: which slot get_rate_limit_entry picks.                       *)

(* First picks a slot of a non-empty set.                                  *)
LEMMA FirstIn ==
    ASSUME NEW S \in SUBSET Slot, S # {}
    PROVE  First(S) \in S
<1>1. S \in SUBSET Nat
  BY RateLimitAssumption DEF Slot
<1>2. \E i \in S : \A j \in S : i <= j
  BY <1>1, NatMin
<1> QED BY <1>2 DEF First

(* So does the choice of the oldest window.                                *)
LEMMA OldestIn ==
    ASSUME NEW tbl \in [Slot -> Entry], NEW S \in SUBSET Slot, S # {}
    PROVE  Oldest(tbl, S) \in S
<1> DEFINE W == {tbl[i].window_start : i \in S}
           O == {i \in S : \A j \in S : tbl[i].window_start <= tbl[j].window_start}
<1>1. W \in SUBSET Nat /\ W # {}
  BY DEF Entry
<1>2. PICK w \in W : \A v \in W : w <= v
  <2> HIDE DEF W
  <2> QED BY <1>1, NatMin
<1>3. O \in SUBSET Slot /\ O # {}
  BY <1>2
<1>4. First(O) \in O
  <2> HIDE DEF O
  <2> QED BY <1>3, FirstIn
<1> QED BY <1>4 DEF Oldest

(* The slot of an address: its own, else an empty one, else an inactive    *)
(* one if there is any.                                                    *)
LEMMA SlotForIn ==
    ASSUME NEW tbl \in [Slot -> Entry], NEW a
    PROVE  /\ SlotFor(tbl, a) \in Slot
           /\ Tracked(tbl, a) # {} => SlotFor(tbl, a) \in Tracked(tbl, a)
           /\ Tracked(tbl, a) = {} /\ Tracked(tbl, NoIP) # {}
                 => SlotFor(tbl, a) \in Tracked(tbl, NoIP)
           /\ Tracked(tbl, a) = {} /\ Tracked(tbl, NoIP) = {} /\ Inactive(tbl) # {}
                 => SlotFor(tbl, a) \in Inactive(tbl)
<1>1. Tracked(tbl, a) \in SUBSET Slot /\ Tracked(tbl, NoIP) \in SUBSET Slot
  BY DEF Tracked
<1>2. Reusable(tbl) \in SUBSET Slot /\ Reusable(tbl) # {}
  BY RateLimitAssumption DEF Reusable, Inactive, Slot
<1>3. Oldest(tbl, Reusable(tbl)) \in Reusable(tbl)
  BY <1>2, OldestIn
<1>4. Tracked(tbl, a) # {} => First(Tracked(tbl, a)) \in Tracked(tbl, a)
  BY <1>1, FirstIn
<1>5. Tracked(tbl, NoIP) # {} => First(Tracked(tbl, NoIP)) \in Tracked(tbl, NoIP)
  BY <1>1, FirstIn
<1> QED BY <1>1, <1>2, <1>3, <1>4, <1>5 DEF SlotFor, Reusable

(* Looking up an entry yields an entry of that address; storing one keeps  *)
(* the table a table and changes that slot only.                           *)
LEMMA GetEntryType ==
    ASSUME NEW tbl \in [Slot -> Entry], NEW a \in IP \cup {NoIP}, NEW clock \in Nat
    PROVE  GetEntry(tbl, a, clock) \in Entry /\ GetEntry(tbl, a, clock).ip = a
<1>1. CASE Tracked(tbl, a) # {}
  BY <1>1, SlotForIn DEF GetEntry, Tracked
<1>2. CASE Tracked(tbl, a) = {}
  <2>1. FreshEntry(a, clock) \in Entry /\ FreshEntry(a, clock).ip = a
    BY DEF FreshEntry, EmptyEntry, Entry
  <2> QED BY <1>2, <2>1 DEF GetEntry
<1> QED BY <1>1, <1>2

(* Writing an entry back keeps the table well-typed.                       *)
LEMMA StoreType ==
    ASSUME NEW tbl \in [Slot -> Entry], NEW a, NEW e \in Entry
    PROVE  /\ Store(tbl, a, e) \in [Slot -> Entry]
           /\ Store(tbl, a, e)[SlotFor(tbl, a)] = e
           /\ \A i \in Slot : i # SlotFor(tbl, a) => Store(tbl, a, e)[i] = tbl[i]
<1>1. SlotFor(tbl, a) \in Slot
  BY SlotForIn
<1> QED BY <1>1 DEF Store

(* What the three locked operations make of an entry.                      *)
LEMMA CountedType ==
    ASSUME NEW e \in Entry, NEW t \in Nat
    PROVE  /\ Counted(e, t) \in Entry
           /\ Counted(e, t).ip = e.ip /\ Counted(e, t).active = e.active
<1>1. /\ Unblocked(e) \in Entry
      /\ Unblocked(e).ip = e.ip /\ Unblocked(e).active = e.active
  BY DEF Unblocked, Entry
<1>2. ASSUME NEW f \in Entry
      PROVE  /\ Windowed(f, t) \in Entry
             /\ Windowed(f, t).ip = f.ip /\ Windowed(f, t).active = f.active
  BY DEF Windowed, Entry
<1>3. ASSUME NEW f \in Entry
      PROVE  LET g == [f EXCEPT !.recent = @ + 1]
             IN  g \in Entry /\ g.ip = f.ip /\ g.active = f.active
  BY DEF Entry
<1> QED BY <1>1, <1>2, <1>3 DEF Counted

(* Blocking an entry leaves its count of connections alone.                *)
LEMMA BlockType ==
    ASSUME NEW e \in Entry, NEW t \in Nat
    PROVE  /\ Block(e, t) \in Entry
           /\ Block(e, t).ip = e.ip /\ Block(e, t).active = e.active
<1>1. t + BlockDuration \in Nat
  BY RateLimitAssumption
<1>2. ASSUME NEW u \in Nat
      PROVE  LET g == [e EXCEPT !.blocked = TRUE, !.until = u]
             IN  g \in Entry /\ g.ip = e.ip /\ g.active = e.active
  BY DEF Entry
<1> QED BY <1>1, <1>2 DEF Block

(* ratelimit_check_ip counts an admitted connection once and a refused one *)
(* not at all.                                                             *)
LEMMA CheckedEntryType ==
    ASSUME NEW e \in Entry, NEW t \in Nat
    PROVE  /\ CheckedEntry(e, t) \in Entry
           /\ CheckedEntry(e, t).ip = e.ip
           /\ CheckedEntry(e, t).active =
                 IF Admits(e, t) THEN e.active + 1 ELSE e.active
           /\ Admits(e, t) => e.active < MaxConnPerIp
<1> DEFINE c == Counted(e, t)
<1>1. c \in Entry /\ c.ip = e.ip /\ c.active = e.active
  BY CountedType
<1> HIDE DEF c
<1>2. Block(c, t) \in Entry /\ Block(c, t).ip = c.ip /\ Block(c, t).active = c.active
  BY <1>1, BlockType
<1>3. LET g == [c EXCEPT !.active = @ + 1]
      IN  g \in Entry /\ g.ip = c.ip /\ g.active = c.active + 1
  BY <1>1 DEF Entry
<1>4. e.active \in Nat /\ MaxConnPerIp \in Nat
  BY RateLimitAssumption DEF Entry
<1>5. CheckedEntry(e, t) = IF Refused(e, t) THEN e
                           ELSE IF OverRate(e, t) THEN Block(c, t)
                           ELSE [c EXCEPT !.active = @ + 1]
  BY DEF CheckedEntry, c
<1> QED BY <1>1, <1>2, <1>3, <1>4, <1>5 DEF Admits, Refused

(* ratelimit_record_auth_failure leaves the count of connections alone.    *)
LEMMA FailedEntryType ==
    ASSUME NEW e \in Entry, NEW t \in Nat
    PROVE  /\ FailedEntry(e, t) \in Entry
           /\ FailedEntry(e, t).ip = e.ip /\ FailedEntry(e, t).active = e.active
<1> DEFINE f == [e EXCEPT !.failures = @ + 1]
<1>1. f \in Entry /\ f.ip = e.ip /\ f.active = e.active
  BY DEF Entry
<1> HIDE DEF f
<1>2. Block(f, t) \in Entry /\ Block(f, t).ip = f.ip /\ Block(f, t).active = f.active
  BY <1>1, BlockType
<1>3. FailedEntry(e, t) = IF f.failures >= MaxAuthFailures THEN Block(f, t) ELSE f
  BY DEF FailedEntry, f
<1> QED BY <1>1, <1>2, <1>3

(* ratelimit_release_ip takes one connection off, never below zero.        *)
LEMMA ReleasedEntryType ==
    ASSUME NEW e \in Entry
    PROVE  /\ ReleasedEntry(e) \in Entry
           /\ ReleasedEntry(e).ip = e.ip
           /\ ReleasedEntry(e).active = IF e.active > 0 THEN e.active - 1 ELSE 0
BY DEF ReleasedEntry, Entry

-----------------------------------------------------------------------------
(* Type correctness.                                                       *)

USE DEF shared, outside, context

(* The stages by name.                                                     *)
LEMMA StagesMember ==
    /\ {"idle", "counting", "checking", "spawning", "spawn_failed", "rejected",
        "bootstrap", "kex", "polling", "recording", "client", "login", "joined",
        "leaving", "failed", "cleanup", "released"} = Stages
BY DEF Stages, AcceptStages, HandshakeStages, SessionStages, CleanupStages

(* The end of a connection resets its context within the types.            *)
LEMMA EndType ==
    ASSUME TypeOK, NEW s \in Session, End(s)
    PROVE  /\ stage' \in [Session -> Stages]
           /\ addr' \in [Session -> IP \cup {NoIP}]
           /\ attempts' \in [Session -> Nat]
           /\ authed' \in [Session -> BOOLEAN]
           /\ channel' \in [Session -> {"none", "open", "shell", "exec"}]
BY StagesMember DEF TypeOK, End, Goto

(* Every variable keeps its type through every step of the accept loop,    *)
(* of the session threads and of the peers.                                *)
LEMMA TypeStep == TypeOK /\ [Next]_vars => TypeOK'
<1> SUFFICES ASSUME TypeOK, [Next]_vars PROVE TypeOK'
  OBVIOUS
<1>1. CASE UNCHANGED vars
  BY <1>1 DEF TypeOK, vars
<1>2. CASE Tick
  BY <1>2 DEF TypeOK, Tick
<1>3. ASSUME NEW s \in Session, CheckTotal(s) PROVE TypeOK'
  <2>1. CASE total >= MaxConnections
    BY <1>3, <2>1, EndType DEF TypeOK, CheckTotal
  <2>2. CASE ~(total >= MaxConnections)
    BY <1>3, <2>2, StagesMember DEF TypeOK, CheckTotal, Goto
  <2> QED BY <2>1, <2>2
<1>4. ASSUME NEW s \in Session, CheckIp(s) PROVE TypeOK'
  <2> DEFINE e == GetEntry(table, addr[s], now)
  <2>1. e \in Entry
    BY GetEntryType DEF TypeOK
  <2>2. CheckedEntry(e, sampled[s]) \in Entry
    BY <2>1, CheckedEntryType DEF TypeOK
  <2>3. table' \in [Slot -> Entry]
    BY <1>4, <2>2, StoreType DEF TypeOK, CheckIp
  <2> QED BY <1>4, <2>3, StagesMember DEF TypeOK, CheckIp, Goto
<1>5. ASSUME NEW s \in Session, Spawn(s) PROVE TypeOK'
  BY <1>5, StagesMember DEF TypeOK, Spawn, Goto
<1>6. ASSUME NEW s \in Session, ReleaseIp(s) PROVE TypeOK'
  <2> DEFINE e == GetEntry(table, addr[s], now)
  <2>1. e \in Entry
    BY GetEntryType DEF TypeOK
  <2>2. ReleasedEntry(e) \in Entry
    BY <2>1, ReleasedEntryType
  <2>3. table' \in [Slot -> Entry]
    BY <1>6, <2>2, StoreType DEF TypeOK, ReleaseIp
  <2> QED BY <1>6, <2>3, StagesMember DEF TypeOK, ReleaseIp, Goto
<1>7. ASSUME NEW s \in Session, DecrementTotal(s) PROVE TypeOK'
  BY <1>7, EndType DEF TypeOK, DecrementTotal
<1>8. ASSUME NEW s \in Session,
             StartBootstrap(s) \/ KeyExchange(s) \/ CreateClient(s)
      PROVE  TypeOK'
  BY <1>8, StagesMember
     DEF TypeOK, StartBootstrap, KeyExchange, CreateClient, HandshakeStep, Goto
<1>9. ASSUME NEW s \in Session, RecordAuthFailure(s) PROVE TypeOK'
  <2> DEFINE e == GetEntry(table, addr[s], now)
  <2>1. e \in Entry
    BY GetEntryType DEF TypeOK
  <2>2. FailedEntry(e, sampled[s]) \in Entry
    BY <2>1, FailedEntryType DEF TypeOK
  <2>3. table' \in [Slot -> Entry]
    BY <1>9, <2>2, StoreType DEF TypeOK, RecordAuthFailure
  <2> QED BY <1>9, <2>3, StagesMember DEF TypeOK, RecordAuthFailure, Goto
<1>10. ASSUME NEW s \in Session, PollExit(s) PROVE TypeOK'
  BY <1>10, StagesMember DEF TypeOK, PollExit, Goto
<1>11. ASSUME NEW s \in Session, RoomRemoveClient(s) PROVE TypeOK'
  BY <1>11, StagesMember DEF TypeOK, RoomRemoveClient, Goto
<1>12. ASSUME NEW s \in Session, NEW a \in IP, Accept(s, a) PROVE TypeOK'
  BY <1>12, StagesMember DEF TypeOK, Accept, Goto
<1>13. ASSUME NEW s \in Session, NEW matches \in BOOLEAN, AuthPassword(s, matches)
       PROVE  TypeOK'
  <2>1. CASE PasswordAccepted(s, matches)
    <3>1. /\ attempts' = [attempts EXCEPT ![s] = @ + 1]
          /\ authed' = [authed EXCEPT ![s] = TRUE]
          /\ UNCHANGED <<shared, outside, stage, addr, sampled, channel>>
      BY <1>13, <2>1 DEF AuthPassword
    <3> QED BY <3>1 DEF TypeOK
  <2>2. CASE ~PasswordAccepted(s, matches)
    BY <1>13, <2>2, StagesMember DEF TypeOK, AuthPassword, Goto
  <2> QED BY <2>1, <2>2
<1>14. ASSUME NEW s \in Session, AuthWithoutPassword(s) PROVE TypeOK'
  BY <1>14 DEF TypeOK, AuthWithoutPassword
<1>15. ASSUME NEW s \in Session, ChannelOpen(s) \/ ChannelShell(s) \/ ChannelExec(s)
       PROVE  TypeOK'
  BY <1>15 DEF TypeOK, ChannelOpen, ChannelShell, ChannelExec, ChannelRequest, Ready
<1>16. ASSUME NEW s \in Session,
              ExecDispatch(s) \/ ReadUsernameFails(s) \/ LeaveLoop(s)
       PROVE  TypeOK'
  BY <1>16, StagesMember DEF TypeOK, ExecDispatch, ReadUsernameFails,
       LeaveLoop, Goto
<1>17. ASSUME NEW s \in Session, RoomAddClient(s) PROVE TypeOK'
  BY <1>17, StagesMember DEF TypeOK, RoomAddClient, Goto
<1> QED
  BY <1>1, <1>2, <1>3, <1>4, <1>5, <1>6, <1>7, <1>8, <1>9, <1>10, <1>11, <1>12,
     <1>13, <1>14, <1>15, <1>16, <1>17 DEF Next, ThreadStep, PeerStep

(* Admission's variables always have their types (TypeOK), for every       *)
(* number of slots, connections and addresses.                             *)
THEOREM TypeCorrect == Spec => []TypeOK
<1>1. Init => TypeOK
  <2>1. EmptyEntry \in Entry
    BY DEF EmptyEntry, Entry
  <2> QED BY <2>1, StagesMember DEF Init, TypeOK
<1> QED BY <1>1, TypeStep, PTL DEF Spec

-----------------------------------------------------------------------------
(* The connection total and the room.                                      *)

(* The connections counted in total are finitely many.                     *)
LEMMA LiveFinite ==
    IsFiniteSet(Live) /\ Cardinality(Live) \in Nat
<1>1. Live \in SUBSET Session
  BY DEF Live
<1>2. IsFiniteSet(Live)
  BY <1>1, AdmissionAssumption, FS_Subset
<1> QED BY <1>2, FS_CardinalityType

(* How a change of stage moves a connection into or out of Live.           *)
LEMMA LiveMoves ==
    ASSUME stage \in [Session -> Stages], NEW s \in Session, NEW st, Goto(s, st)
    PROVE  Live' = IF st \in {"idle", "counting"} THEN Live \ {s} ELSE Live \cup {s}
BY DEF Live, Goto

(* A step of one connection that neither enters nor leaves the counted     *)
(* part of its life, nor the room.                                         *)
LEMMA QuietMove ==
    ASSUME TypeOK, CountInv, NEW s \in Session, NEW st, Goto(s, st),
           UNCHANGED <<total, room>>,
           stage[s] \in {"idle", "counting"} <=> st \in {"idle", "counting"},
           stage[s] \in {"joined", "leaving"} => st \in {"joined", "leaving"}
    PROVE  CountInv'
<1>1. Live' = Live
  BY LiveMoves DEF TypeOK, Live
<1>2. \A r \in room' : stage'[r] \in {"joined", "leaving"}
  BY DEF CountInv, TypeOK, Goto
<1>3. TotalExact'
  BY <1>1 DEF CountInv, TotalExact
<1> QED BY <1>2, <1>3 DEF CountInv

(* One step per action: the total and the room stay exact.                 *)
LEMMA CountStep == TypeOK /\ CountInv /\ [Next]_vars => CountInv'
<1> SUFFICES ASSUME TypeOK, CountInv, [Next]_vars PROVE CountInv'
  OBVIOUS
<1>1. ASSUME UNCHANGED <<total, room, stage>> PROVE CountInv'
  BY <1>1 DEF CountInv, TotalExact, Live
<1>2. ASSUME NEW s \in Session, CheckTotal(s) PROVE CountInv'
  <2>1. CASE total >= MaxConnections
    BY <1>2, <2>1, QuietMove DEF CheckTotal, End
  <2>2. CASE ~(total >= MaxConnections)
    <3>1. Goto(s, "checking") /\ stage[s] = "counting" /\ total' = total + 1 /\ room' = room
      BY <1>2, <2>2 DEF CheckTotal
    <3>2. Live' = Live \cup {s} /\ s \notin Live
      BY <3>1, LiveMoves DEF TypeOK, Live
    <3>3. Cardinality(Live') = Cardinality(Live) + 1
      BY <3>2, LiveFinite, FS_AddElement
    <3>4. total' <= MaxConnections
      BY <3>1, <2>2, AdmissionAssumption DEF TypeOK
    <3>5. \A r \in room' : stage'[r] \in {"joined", "leaving"}
      BY <3>1 DEF CountInv, TypeOK, Goto
    <3> QED BY <3>1, <3>3, <3>4, <3>5 DEF CountInv, TotalExact
  <2> QED BY <2>1, <2>2
<1>3. ASSUME NEW s \in Session, DecrementTotal(s) PROVE CountInv'
  <2>1. /\ stage[s] \in {"rejected", "released"} /\ Goto(s, "idle")
        /\ total' = (IF total > 0 THEN total - 1 ELSE total) /\ room' = room
    BY <1>3 DEF DecrementTotal, End
  <2>2. Live' = Live \ {s} /\ s \in Live
    BY <2>1, LiveMoves DEF TypeOK, Live
  <2>3. Cardinality(Live') = Cardinality(Live) - 1 /\ Cardinality(Live') \in Nat
    BY <2>2, LiveFinite, FS_RemoveElement, FS_CardinalityType
  <2>4. TotalExact' /\ total' <= MaxConnections
    BY <2>1, <2>3, LiveFinite, AdmissionAssumption DEF CountInv, TotalExact
  <2>5. \A r \in room' : stage'[r] \in {"joined", "leaving"}
    BY <2>1 DEF CountInv, TypeOK, Goto
  <2> QED BY <2>4, <2>5 DEF CountInv
<1>4. ASSUME NEW s \in Session, RoomAddClient(s) PROVE CountInv'
  <2>1. CASE Cardinality(room) >= MaxConnections
    BY <1>4, <2>1, QuietMove DEF RoomAddClient
  <2>2. CASE ~(Cardinality(room) >= MaxConnections)
    <3>1. stage[s] = "login" /\ Goto(s, "joined") /\ room' = room \cup {s} /\ total' = total
      BY <1>4, <2>2 DEF RoomAddClient
    <3>2. Live' = Live
      BY <3>1, LiveMoves DEF TypeOK, Live
    <3> QED BY <3>1, <3>2 DEF CountInv, TotalExact, TypeOK, Goto
  <2> QED BY <2>1, <2>2
<1>5. ASSUME NEW s \in Session, RoomRemoveClient(s) PROVE CountInv'
  <2>1. stage[s] = "leaving" /\ Goto(s, "cleanup") /\ room' = room \ {s} /\ total' = total
    BY <1>5 DEF RoomRemoveClient
  <2>2. Live' = Live
    BY <2>1, LiveMoves DEF TypeOK, Live
  <2> QED BY <2>1, <2>2 DEF CountInv, TotalExact, TypeOK, Goto
<1>6. ASSUME NEW s \in Session,
             \/ CheckIp(s) \/ Spawn(s) \/ ReleaseIp(s) \/ RecordAuthFailure(s)
             \/ StartBootstrap(s) \/ KeyExchange(s) \/ CreateClient(s)
             \/ PollExit(s) \/ ExecDispatch(s) \/ ReadUsernameFails(s)
             \/ LeaveLoop(s)
      PROVE  CountInv'
  <2>1. /\ UNCHANGED <<total, room>>
        /\ \E st : /\ Goto(s, st)
                   /\ stage[s] \in {"idle", "counting"} <=> st \in {"idle", "counting"}
                   /\ stage[s] \in {"joined", "leaving"} => st \in {"joined", "leaving"}
    BY <1>6 DEF CheckIp, Spawn, ReleaseIp, RecordAuthFailure, StartBootstrap,
       KeyExchange, CreateClient, HandshakeStep, PollExit, ExecDispatch, ReadUsernameFails,
       LeaveLoop
  <2> QED BY <2>1, QuietMove
<1>7. ASSUME NEW s \in Session, NEW a \in IP, Accept(s, a) PROVE CountInv'
  BY <1>7, QuietMove DEF Accept
<1>8. ASSUME NEW s \in Session, NEW matches \in BOOLEAN, AuthPassword(s, matches)
      PROVE  CountInv'
  <2>1. CASE PasswordAccepted(s, matches)
    BY <1>8, <2>1, <1>1 DEF AuthPassword
  <2>2. CASE ~PasswordAccepted(s, matches)
    BY <1>8, <2>2, QuietMove DEF AuthPassword, Authenticating, Connected
  <2> QED BY <2>1, <2>2
<1> QED
  BY <1>1, <1>2, <1>3, <1>4, <1>5, <1>6, <1>7, <1>8
     DEF Next, ThreadStep, PeerStep, Tick, AuthWithoutPassword, ChannelOpen,
         ChannelShell, ChannelExec, ChannelRequest, vars

(* The inductive invariant behind the total and the room.                  *)
LEMMA CountInvariant == Spec => [](TypeOK /\ CountInv)
<1>1. Init => CountInv
  <2> SUFFICES ASSUME Init PROVE CountInv
    OBVIOUS
  <2>1. Live = {}
    BY DEF Init, Live
  <2> QED BY <2>1, FS_EmptySet, AdmissionAssumption DEF Init, CountInv, TotalExact
<1> QED BY <1>1, TypeCorrect, CountStep, PTL DEF Spec

(* The counter is exact (TotalExact): every increment of an accepted       *)
(* connection is matched by exactly one decrement on whichever path of     *)
(* ssh_server_start, bootstrap_run or input_run_session it ends.           *)
THEOREM TotalIsExact == Spec => []TotalExact
<1>1. CountInv => TotalExact
  BY DEF CountInv
<1> QED BY <1>1, CountInvariant, PTL

(* TNT_MAX_CONNECTIONS bounds the connections themselves (ConnectionLimit).*)
THEOREM ConnectionsBounded == Spec => []ConnectionLimit
<1>1. CountInv => ConnectionLimit
  BY DEF CountInv, TotalExact, ConnectionLimit
<1> QED BY <1>1, CountInvariant, PTL

(* A client about to join finds space in the room (RoomNeverFull): it is   *)
(* itself counted in the total and not yet in the room.                    *)
THEOREM RoomHasSpace == Spec => []RoomNeverFull
<1>1. TypeOK /\ CountInv => RoomNeverFull
  <2> SUFFICES ASSUME TypeOK, CountInv, NEW s \in Session, stage[s] = "login"
               PROVE  Cardinality(room) < MaxConnections
    BY DEF RoomNeverFull, CountInv
  <2>1. room \in SUBSET (Live \ {s}) /\ s \in Live
    BY DEF CountInv, TypeOK, Live
  <2>2. /\ IsFiniteSet(Live \ {s})
        /\ Cardinality(Live \ {s}) = Cardinality(Live) - 1
    BY <2>1, LiveFinite, FS_RemoveElement
  <2>3. Cardinality(room) <= Cardinality(Live) - 1 /\ Cardinality(room) \in Nat
    BY <2>1, <2>2, FS_Subset, FS_CardinalityType
  <2> QED BY <2>3, LiveFinite, AdmissionAssumption DEF CountInv, TotalExact
<1> QED BY <1>1, CountInvariant, PTL

(* Only PollExit leads to a client, and nothing but the end of a           *)
(* connection takes its authentication back.                               *)
LEMMA AuthStep ==
    TypeOK /\ ClientsAuthenticated /\ [Next]_vars => ClientsAuthenticated'
<1> SUFFICES ASSUME TypeOK, ClientsAuthenticated, [Next]_vars,
                    NEW r \in Session, stage'[r] \in {"client"} \cup SessionStages
             PROVE  authed'[r]
  BY DEF ClientsAuthenticated
<1> USE DEF SessionStages, TypeOK
<1>1. ASSUME UNCHANGED <<stage, authed>> PROVE authed'[r]
  BY <1>1 DEF ClientsAuthenticated
<1>2. ASSUME UNCHANGED stage, NEW s \in Session,
             authed' = [authed EXCEPT ![s] = TRUE]
      PROVE  authed'[r]
  BY <1>2 DEF ClientsAuthenticated
<1>3. ASSUME NEW s \in Session, NEW st, Goto(s, st), UNCHANGED authed,
             st \in {"client"} \cup SessionStages
                 => authed[s] \/ stage[s] \in {"client"} \cup SessionStages
      PROVE  authed'[r]
  BY <1>3 DEF ClientsAuthenticated, Goto
<1>4. ASSUME NEW s \in Session, End(s) PROVE authed'[r]
  BY <1>4 DEF ClientsAuthenticated, End, Goto
<1>5. ASSUME NEW s \in Session, CheckTotal(s) \/ DecrementTotal(s) PROVE authed'[r]
  <2>1. End(s) \/ (Goto(s, "checking") /\ UNCHANGED authed)
    BY <1>5 DEF CheckTotal, DecrementTotal
  <2> QED BY <2>1, <1>3, <1>4
<1>6. ASSUME NEW s \in Session,
             \/ CheckIp(s) \/ Spawn(s) \/ ReleaseIp(s) \/ RecordAuthFailure(s)
             \/ StartBootstrap(s) \/ KeyExchange(s) \/ CreateClient(s)
             \/ ExecDispatch(s) \/ ReadUsernameFails(s)
             \/ RoomAddClient(s) \/ LeaveLoop(s) \/ RoomRemoveClient(s)
      PROVE  authed'[r]
  <2>1. /\ UNCHANGED authed
        /\ \E st : /\ Goto(s, st)
                   /\ st \in {"client"} \cup SessionStages
                        => stage[s] \in {"client"} \cup SessionStages
    BY <1>6 DEF CheckIp, Spawn, ReleaseIp, RecordAuthFailure, StartBootstrap,
       KeyExchange, CreateClient, HandshakeStep, ExecDispatch, ReadUsernameFails,
       RoomAddClient, LeaveLoop,
       RoomRemoveClient
  <2> QED BY <2>1, <1>3
<1>7. ASSUME NEW s \in Session, PollExit(s) PROVE authed'[r]
  <2>1. /\ UNCHANGED authed
        /\ \E st : Goto(s, st) /\ (st = "client" => authed[s]) /\ st \in {"client", "failed"}
    BY <1>7 DEF PollExit, HandshakeComplete
  <2> QED BY <2>1, <1>3
<1>8. ASSUME NEW s \in Session, NEW matches \in BOOLEAN, AuthPassword(s, matches)
      PROVE  authed'[r]
  <2>1. CASE PasswordAccepted(s, matches)
    BY <1>8, <2>1, <1>2 DEF AuthPassword
  <2>2. CASE ~PasswordAccepted(s, matches)
    BY <1>8, <2>2, <1>3 DEF AuthPassword
  <2> QED BY <2>1, <2>2
<1>9. ASSUME NEW s \in Session, NEW a \in IP, Accept(s, a) PROVE authed'[r]
  BY <1>9, <1>3 DEF Accept
<1>10. ASSUME NEW s \in Session, AuthWithoutPassword(s) PROVE authed'[r]
  BY <1>10, <1>2 DEF AuthWithoutPassword
<1> QED
  BY <1>1, <1>5, <1>6, <1>7, <1>8, <1>9, <1>10
     DEF Next, ThreadStep, PeerStep, Tick, ChannelOpen,
         ChannelShell, ChannelExec, ChannelRequest, vars

(* Whatever the order of a peer's requests, only an authenticated          *)
(* connection becomes a client_t (ClientsAuthenticated).                   *)
THEOREM OnlyAuthenticated == Spec => []ClientsAuthenticated
<1>1. Init => ClientsAuthenticated
  BY DEF Init, ClientsAuthenticated, SessionStages
<1> QED BY <1>1, TypeCorrect, AuthStep, PTL DEF Spec

-----------------------------------------------------------------------------
(* Per-address accounting, for a table of any size.                        *)

(* The connections of an address are finitely many.                        *)
LEMMA HoldersFinite ==
    ASSUME NEW a
    PROVE  IsFiniteSet(Holders(a)) /\ Cardinality(Holders(a)) \in Nat
<1>1. Holders(a) \in SUBSET Session
  BY DEF Holders, Holding
<1>2. IsFiniteSet(Holders(a))
  BY <1>1, AdmissionAssumption, FS_Subset
<1> QED BY <1>2, FS_CardinalityType

(* What a table says of an address is what its only entry says.            *)
LEMMA EntryActive ==
    ASSUME NEW tbl \in [Slot -> Entry], NEW a \in IP, NEW clock,
           \A i, j \in Slot : tbl[i].ip = tbl[j].ip /\ tbl[i].ip # NoIP => i = j
    PROVE  /\ \A i \in Slot : tbl[i].ip = a => GetEntry(tbl, a, clock).active = tbl[i].active
           /\ Tracked(tbl, a) = {} => GetEntry(tbl, a, clock).active = 0
<1>1. ASSUME NEW i \in Slot, tbl[i].ip = a
      PROVE  GetEntry(tbl, a, clock) = tbl[i]
  <2>1. Tracked(tbl, a) # {}
    BY <1>1 DEF Tracked
  <2>2. SlotFor(tbl, a) \in Slot /\ tbl[SlotFor(tbl, a)].ip = a
    BY <2>1, SlotForIn DEF Tracked
  <2>3. SlotFor(tbl, a) = i
    BY <1>1, <2>2, RateLimitAssumption
  <2> QED BY <2>1, <2>3 DEF GetEntry
<1>2. FreshEntry(a, clock).active = 0
  BY DEF FreshEntry, EmptyEntry
<1> QED BY <1>1, <1>2 DEF GetEntry

(* CountsBounded after a step that satisfies ActiveExact.                  *)
CountsKept == CountsBounded' /\ CountsFollow

(* What the table says is bounded by the connections that are open.        *)
LEMMA ActiveBounded ==
    ASSUME TypeOK, CountsBounded, NEW a \in IP
    PROVE  Active(a) \in Nat /\ Active(a) <= Cardinality(Holders(a))
<1>1. CASE Tracked(table, a) = {}
  <2>1. Active(a) = 0
    BY <1>1, EntryActive DEF TypeOK, CountsBounded, Active
  <2> QED BY <2>1, HoldersFinite
<1>2. ASSUME NEW i \in Slot, table[i].ip = a
      PROVE  Active(a) \in Nat /\ Active(a) <= Cardinality(Holders(a))
  <2>1. Active(a) = table[i].active
    BY <1>2, EntryActive DEF TypeOK, CountsBounded, Active
  <2> QED BY <1>2, <2>1 DEF TypeOK, Entry, CountsBounded
<1> QED BY <1>1, <1>2 DEF Tracked

(* Storing an entry for a changes what the table says of another address   *)
(* only if all slots are active, and then it says nothing of it any more.  *)
LEMMA StoreOthers ==
    ASSUME TypeOK, TypeOK', CountsBounded, NEW a \in IP, NEW e \in Entry, e.ip = a,
           table' = Store(table, a, e)
    PROVE  /\ \A i, j \in Slot : table'[i].ip = table'[j].ip /\ table'[i].ip # NoIP => i = j
           /\ \A i \in Slot : table'[i].ip = NoIP => table'[i].active = 0
           /\ \A i \in Slot : table'[i].ip # a => table'[i] = table[i]
           /\ \A i \in Slot : table'[i].ip = a => table'[i] = e
           /\ Active(a)' = e.active
           /\ \A b \in IP : b # a =>
                 Active(b)' = Active(b) \/ (Active(b)' = 0 /\ EvictedActive(b))
<1> DEFINE k == SlotFor(table, a)
<1>1. /\ k \in Slot /\ table'[k] = e
      /\ \A i \in Slot : i # k => table'[i] = table[i]
  BY SlotForIn, StoreType DEF TypeOK
<1>2. Tracked(table, a) # {} => table[k].ip = a
  BY SlotForIn DEF TypeOK, Tracked
<1>3. Tracked(table, a) = {} /\ Inactive(table) # {} => table[k].active = 0
  <2>1. CASE Tracked(table, NoIP) # {}
    BY <2>1, SlotForIn DEF TypeOK, Tracked, CountsBounded
  <2>2. CASE Tracked(table, NoIP) = {}
    BY <2>2, SlotForIn DEF TypeOK, Inactive
  <2> QED BY <2>1, <2>2
<1> HIDE DEF k
<1>4. a # NoIP
  BY RateLimitAssumption
<1>5. ASSUME NEW i \in Slot, i # k PROVE table[i].ip # a
  BY <1>5, <1>1, <1>2, <1>4 DEF CountsBounded, Tracked
<1>6. \A i, j \in Slot : table'[i].ip = table'[j].ip /\ table'[i].ip # NoIP => i = j
  BY <1>1, <1>4, <1>5 DEF CountsBounded
<1>7. \A i \in Slot : table'[i].ip = NoIP => table'[i].active = 0
  BY <1>1, <1>4 DEF CountsBounded
<1>8. table' \in [Slot -> Entry] /\ table \in [Slot -> Entry]
  BY DEF TypeOK
<1>9. Active(a)' = e.active
  BY <1>1, <1>6, <1>8, EntryActive DEF Active
<1>10. ASSUME NEW b \in IP, b # a
       PROVE  Active(b)' = Active(b) \/ (Active(b)' = 0 /\ EvictedActive(b))
  <2>1. CASE Tracked(table, b) = {}
    <3>1. Tracked(table', b) = {}
      BY <1>1, <1>10, <2>1 DEF Tracked
    <3>2. Active(b) = 0
      BY <1>8, <2>1, EntryActive DEF Active, CountsBounded
    <3>3. Active(b)' = 0
      BY <1>6, <1>8, <3>1, EntryActive DEF Active
    <3> QED BY <3>2, <3>3
  <2>2. ASSUME NEW i \in Slot, table[i].ip = b, i # k
        PROVE  Active(b)' = Active(b)
    <3>1. Active(b) = table[i].active
      BY <1>8, <2>2, EntryActive DEF Active, CountsBounded
    <3>2. Active(b)' = table'[i].active
      BY <1>1, <1>6, <1>8, <2>2, EntryActive DEF Active
    <3> QED BY <1>1, <2>2, <3>1, <3>2
  <2>3. CASE table[k].ip = b
    <3>1. Tracked(table, a) = {}
      BY <1>2, <1>10, <2>3
    <3>2. Tracked(table, b) # {}
      BY <1>1, <2>3 DEF Tracked
    <3>3. Tracked(table', b) = {}
      <4>1. \A i \in Slot : i # k => table[i].ip # b
        BY <1>1, <2>3, RateLimitAssumption DEF CountsBounded
      <4> QED BY <1>1, <1>10, <4>1 DEF Tracked
    <3>4. Active(b)' = 0
      BY <1>6, <1>8, <3>3, EntryActive DEF Active
    <3>5. CASE Inactive(table) = {}
      BY <3>2, <3>3, <3>4, <3>5 DEF EvictedActive
    <3>6. CASE Inactive(table) # {}
      <4>1. table[k].active = 0
        BY <1>3, <3>1, <3>6
      <4>2. Active(b) = table[k].active
        BY <1>1, <1>8, <2>3, EntryActive DEF Active, CountsBounded
      <4> QED BY <3>4, <4>1, <4>2
    <3> QED BY <3>5, <3>6
  <2> QED BY <2>1, <2>2, <2>3 DEF Tracked
<1>11. \A i \in Slot : table'[i].ip # a => table'[i] = table[i]
  BY <1>1
<1>12. \A i \in Slot : table'[i].ip = a => table'[i] = e
  BY <1>1, <1>5
<1>13. \A b \in IP : b # a =>
                 Active(b)' = Active(b) \/ (Active(b)' = 0 /\ EvictedActive(b))
  BY <1>10
<1> QED BY <1>6, <1>7, <1>9, <1>11, <1>12, <1>13

(* Storing an entry for a that counts the connections a has after the      *)
(* step, if the one before counted those it had, keeps every account.      *)
LEMMA StoreCounts ==
    ASSUME TypeOK, TypeOK', CountsBounded, NEW a \in IP, NEW e \in Entry, e.ip = a,
           table' = Store(table, a, e),
           \A b \in IP : b # a => Holders(b)' = Holders(b),
           \A s \in Session : stage'[s] # "idle" => addr'[s] \in IP,
           e.active <= Cardinality(Holders(a)'),
           Exact(a) => e.active = Cardinality(Holders(a)')
    PROVE  CountsKept
<1>1. /\ \A i, j \in Slot : table'[i].ip = table'[j].ip /\ table'[i].ip # NoIP => i = j
      /\ \A i \in Slot : table'[i].ip = NoIP => table'[i].active = 0
      /\ \A i \in Slot : table'[i].ip # a => table'[i] = table[i]
      /\ \A i \in Slot : table'[i].ip = a => table'[i] = e
      /\ Active(a)' = e.active
      /\ \A b \in IP : b # a =>
                 Active(b)' = Active(b) \/ (Active(b)' = 0 /\ EvictedActive(b))
  BY StoreOthers
<1>2. ASSUME NEW i \in Slot, NEW b \in IP, table'[i].ip = b
      PROVE  table'[i].active <= Cardinality(Holders(b)')
  <2>1. CASE b = a
    BY <1>1, <1>2, <2>1
  <2>2. CASE b # a
    BY <1>1, <1>2, <2>2 DEF CountsBounded
  <2> QED BY <2>1, <2>2
<1>3. CountsBounded'
  BY <1>1, <1>2 DEF CountsBounded
<1>4. ASSUME NEW b \in IP
      PROVE  /\ Active(b)' <= Cardinality(Holders(b)')
             /\ Exact(b) => Exact(b)' \/ EvictedActive(b)
  <2>1. CASE b = a
    BY <1>1, <2>1 DEF Exact
  <2>2. CASE b # a
    <3>1. Holders(b)' = Holders(b) /\ Cardinality(Holders(b)) \in Nat
      BY <2>2, HoldersFinite
    <3>2. Active(b) <= Cardinality(Holders(b))
      BY ActiveBounded
    <3>3. Active(b)' = Active(b) \/ (Active(b)' = 0 /\ EvictedActive(b))
      BY <1>1, <2>2
    <3> QED BY <3>1, <3>2, <3>3 DEF Exact
  <2> QED BY <2>1, <2>2
<1> QED BY <1>3, <1>4 DEF CountsKept, CountsFollow

(* Steps that leave the table and the holders of every address alone, at   *)
(* whatever time.                                                          *)
LEMMA QuietCounts ==
    ASSUME TypeOK, TypeOK', CountsBounded, UNCHANGED table,
           \A b \in IP : Holders(b)' = Holders(b),
           \A s \in Session : stage'[s] # "idle" => addr'[s] \in IP
    PROVE  CountsKept
<1>1. CountsBounded'
  <2>1. \A i \in Slot, b \in IP : table'[i].ip = b => table'[i].active <= Cardinality(Holders(b)')
    BY DEF CountsBounded
  <2> QED BY <2>1 DEF CountsBounded
<1>2. ASSUME NEW b \in IP
      PROVE  Active(b)' = Active(b)
  <2>1. table \in [Slot -> Entry]
    BY DEF TypeOK
  <2>2. CASE Tracked(table, b) = {}
    BY <2>1, <2>2, EntryActive DEF Active, CountsBounded
  <2>3. ASSUME NEW i \in Slot, table[i].ip = b
        PROVE  Active(b)' = Active(b)
    <3>1. Active(b) = table[i].active
      BY <2>1, <2>3, EntryActive DEF Active, CountsBounded
    <3>2. Active(b)' = table[i].active
      BY <2>1, <2>3, EntryActive DEF Active, CountsBounded
    <3> QED BY <3>1, <3>2
  <2> QED BY <2>2, <2>3 DEF Tracked
<1>3. ASSUME NEW b \in IP
      PROVE  /\ Active(b)' <= Cardinality(Holders(b)')
             /\ Exact(b) => Exact(b)' \/ EvictedActive(b)
  <2>1. Active(b) <= Cardinality(Holders(b))
    BY ActiveBounded
  <2> QED BY <1>2, <2>1 DEF Exact
<1> QED BY <1>1, <1>3 DEF CountsKept, CountsFollow

(* A connection that moves between two stages that both hold a place of    *)
(* its address, or neither does.                                           *)
LEMMA QuietCountsMove ==
    ASSUME TypeOK, TypeOK', CountsBounded, UNCHANGED <<table, addr>>,
           NEW s \in Session, NEW st, Goto(s, st), stage[s] # "idle",
           LET out == {"idle", "counting", "checking", "rejected", "released"}
           IN  stage[s] \in out <=> st \in out
    PROVE  CountsKept
<1>1. \A b \in IP : Holders(b)' = Holders(b)
  BY DEF TypeOK, Holders, Holding, Goto
<1>2. \A r \in Session : stage'[r] # "idle" => addr'[r] \in IP
  BY DEF TypeOK, CountsBounded, Goto
<1> QED BY <1>1, <1>2, QuietCounts

(* One step per action: CheckIp, ReleaseIp and RecordAuthFailure store an  *)
(* entry that follows the connections of its address, the others leave the *)
(* table alone.                                                            *)
LEMMA CountsStep == TypeOK /\ TypeOK' /\ CountsBounded /\ [Next]_vars => CountsKept
<1> SUFFICES ASSUME TypeOK, TypeOK', CountsBounded, [Next]_vars PROVE CountsKept
  OBVIOUS
<1>1. ASSUME UNCHANGED <<table, stage, addr>> PROVE CountsKept
  <2>1. \A b \in IP : Holders(b)' = Holders(b)
    BY <1>1 DEF Holders, Holding
  <2> QED BY <1>1, <2>1, QuietCounts DEF CountsBounded
<1>2. ASSUME NEW s \in Session, NEW a \in IP, Accept(s, a) PROVE CountsKept
  <2>1. \A b \in IP : Holders(b)' = Holders(b)
    BY <1>2 DEF Accept, Goto, TypeOK, Holders, Holding
  <2>2. \A r \in Session : stage'[r] # "idle" => addr'[r] \in IP
    BY <1>2 DEF Accept, Goto, TypeOK, CountsBounded
  <2> QED BY <1>2, <2>1, <2>2, QuietCounts DEF Accept, shared
<1>3. ASSUME NEW s \in Session, End(s), UNCHANGED table,
             stage[s] \in {"counting", "rejected", "released"}
      PROVE  CountsKept
  <2>1. \A b \in IP : Holders(b)' = Holders(b)
    BY <1>3 DEF End, Goto, TypeOK, Holders, Holding
  <2>2. \A r \in Session : stage'[r] # "idle" => addr'[r] \in IP
    BY <1>3 DEF End, Goto, TypeOK, CountsBounded
  <2> QED BY <1>3, <2>1, <2>2, QuietCounts
<1>4. ASSUME NEW s \in Session, CheckTotal(s) PROVE CountsKept
  <2>1. CASE total >= MaxConnections
    BY <1>4, <2>1, <1>3 DEF CheckTotal
  <2>2. CASE ~(total >= MaxConnections)
    BY <1>4, <2>2, QuietCountsMove DEF CheckTotal
  <2> QED BY <2>1, <2>2
<1>5. ASSUME NEW s \in Session, DecrementTotal(s) PROVE CountsKept
  BY <1>5, <1>3 DEF DecrementTotal
<1>6. ASSUME NEW s \in Session, NEW st, stage[s] # "idle", UNCHANGED addr, Goto(s, st)
      PROVE  \A r \in Session : stage'[r] # "idle" => addr'[r] \in IP
  BY <1>6 DEF TypeOK, CountsBounded, Goto
<1>7. ASSUME NEW s \in Session, CheckIp(s) PROVE CountsKept
  <2>0. PICK a \in IP : a = addr[s]
    BY <1>7 DEF CheckIp, CountsBounded
  <2> DEFINE e == GetEntry(table, a, now)
             c == CheckedEntry(e, sampled[s])
             ok == Admits(e, sampled[s])
  <2>1. sampled[s] \in Nat /\ now \in Nat
    BY DEF TypeOK
  <2>2. e \in Entry /\ e.ip = a /\ e.active = Active(a)
    BY <2>1, GetEntryType DEF TypeOK, Active
  <2>3. /\ c \in Entry /\ c.ip = a
        /\ c.active = IF ok THEN e.active + 1 ELSE e.active
    BY <2>1, <2>2, CheckedEntryType
  <2>4. /\ stage[s] = "checking" /\ UNCHANGED addr /\ table' = Store(table, a, c)
        /\ Goto(s, IF ok THEN "spawning" ELSE "rejected")
    BY <1>7, <2>0 DEF CheckIp
  <2> HIDE DEF e, c, ok
  <2>5. /\ \A b \in IP : b # a => Holders(b)' = Holders(b)
        /\ Holders(a)' = IF ok THEN Holders(a) \cup {s} ELSE Holders(a)
        /\ s \notin Holders(a)
    BY <2>0, <2>4 DEF TypeOK, Holders, Holding, Goto
  <2>6. /\ Active(a) \in Nat /\ Active(a) <= Cardinality(Holders(a))
        /\ Cardinality(Holders(a)) \in Nat
    BY ActiveBounded, HoldersFinite
  <2>7. /\ c.active <= Cardinality(Holders(a)')
        /\ Exact(a) => c.active = Cardinality(Holders(a)')
    <3>1. CASE ok
      <4>1. Cardinality(Holders(a) \cup {s}) = Cardinality(Holders(a)) + 1
        BY <2>5, HoldersFinite, FS_AddElement
      <4> QED BY <3>1, <4>1, <2>2, <2>3, <2>5, <2>6 DEF Exact
    <3>2. CASE ~ok
      BY <3>2, <2>2, <2>3, <2>5, <2>6 DEF Exact
    <3> QED BY <3>1, <3>2
  <2>8. \A r \in Session : stage'[r] # "idle" => addr'[r] \in IP
    BY <1>6, <2>4
  <2> QED BY <2>3, <2>4, <2>5, <2>7, <2>8, StoreCounts
<1>8. ASSUME NEW s \in Session, ReleaseIp(s) PROVE CountsKept
  <2>0. PICK a \in IP : a = addr[s]
    BY <1>8 DEF ReleaseIp, CountsBounded
  <2> DEFINE e == GetEntry(table, a, now)
             c == ReleasedEntry(e)
             st == IF stage[s] = "spawn_failed" THEN "rejected" ELSE "released"
  <2>1. e \in Entry /\ e.ip = a /\ e.active = Active(a)
    BY GetEntryType DEF TypeOK, Active
  <2>2. /\ c \in Entry /\ c.ip = a
        /\ c.active = IF e.active > 0 THEN e.active - 1 ELSE 0
    BY <2>1, ReleasedEntryType
  <2>3. /\ stage[s] \in {"spawn_failed", "failed", "cleanup"}
        /\ UNCHANGED addr /\ table' = Store(table, a, c) /\ Goto(s, st)
    BY <1>8, <2>0 DEF ReleaseIp
  <2> HIDE DEF e, c
  <2>4. /\ \A b \in IP : b # a => Holders(b)' = Holders(b)
        /\ Holders(a)' = Holders(a) \ {s}
        /\ s \in Holders(a)
    BY <2>0, <2>3 DEF TypeOK, Holders, Holding, Goto
  <2>5. Cardinality(Holders(a) \ {s}) = Cardinality(Holders(a)) - 1
    BY <2>4, HoldersFinite, FS_RemoveElement
  <2>6. /\ Cardinality(Holders(a)) \in Nat /\ Cardinality(Holders(a)) > 0
        /\ Active(a) \in Nat /\ Active(a) <= Cardinality(Holders(a))
    BY <2>4, HoldersFinite, FS_EmptySet, ActiveBounded
  <2>7. /\ c.active <= Cardinality(Holders(a)')
        /\ Exact(a) => c.active = Cardinality(Holders(a)')
    BY <2>1, <2>2, <2>4, <2>5, <2>6 DEF Exact
  <2>8. \A r \in Session : stage'[r] # "idle" => addr'[r] \in IP
    BY <1>6, <2>3
  <2> QED BY <2>2, <2>3, <2>4, <2>7, <2>8, StoreCounts
<1>9. ASSUME NEW s \in Session, RecordAuthFailure(s) PROVE CountsKept
  <2>1. CASE ~RateLimitEnabled
    BY <1>9, <2>1, QuietCountsMove DEF RecordAuthFailure
  <2>2. CASE RateLimitEnabled
    <3>0. PICK a \in IP : a = addr[s]
      BY <1>9 DEF RecordAuthFailure, CountsBounded
    <3> DEFINE e == GetEntry(table, a, now)
               c == FailedEntry(e, sampled[s])
    <3>1. e \in Entry /\ e.ip = a /\ e.active = Active(a)
      BY GetEntryType DEF TypeOK, Active
    <3>2. c \in Entry /\ c.ip = a /\ c.active = e.active
      BY <3>1, FailedEntryType DEF TypeOK
    <3>3. /\ stage[s] = "recording"
          /\ UNCHANGED addr /\ table' = Store(table, a, c) /\ Goto(s, "polling")
      BY <1>9, <2>2, <3>0 DEF RecordAuthFailure
    <3> HIDE DEF e, c
    <3>4. \A b \in IP : Holders(b)' = Holders(b)
      BY <3>3 DEF TypeOK, Holders, Holding, Goto
    <3>5. /\ c.active <= Cardinality(Holders(a)')
          /\ Exact(a) => c.active = Cardinality(Holders(a)')
      BY <3>1, <3>2, <3>4, ActiveBounded DEF Exact
    <3>6. \A r \in Session : stage'[r] # "idle" => addr'[r] \in IP
      BY <1>6, <3>3
    <3> QED BY <3>2, <3>3, <3>4, <3>5, <3>6, StoreCounts
  <2> QED BY <2>1, <2>2
<1>10. ASSUME NEW s \in Session,
              \/ Spawn(s) \/ StartBootstrap(s) \/ KeyExchange(s) \/ CreateClient(s)
              \/ PollExit(s) \/ ExecDispatch(s) \/ ReadUsernameFails(s)
              \/ LeaveLoop(s)
              \/ RoomAddClient(s) \/ RoomRemoveClient(s)
       PROVE  CountsKept
  <2>1. /\ UNCHANGED <<table, addr>>
        /\ stage[s] # "idle"
        /\ \E st : /\ Goto(s, st)
                   /\ LET out == {"idle", "counting", "checking", "rejected", "released"}
                      IN  stage[s] \in out <=> st \in out
    BY <1>10 DEF Spawn, StartBootstrap, KeyExchange, CreateClient, HandshakeStep,
       PollExit, ExecDispatch, ReadUsernameFails,
       LeaveLoop, RoomAddClient, RoomRemoveClient
  <2> QED BY <2>1, QuietCountsMove
<1>11. ASSUME NEW s \in Session, NEW matches \in BOOLEAN, AuthPassword(s, matches)
       PROVE  CountsKept
  <2>1. CASE PasswordAccepted(s, matches)
    BY <1>11, <2>1, <1>1 DEF AuthPassword
  <2>2. CASE ~PasswordAccepted(s, matches)
    BY <1>11, <2>2, QuietCountsMove DEF AuthPassword, Authenticating, Connected
  <2> QED BY <2>1, <2>2
<1> QED
  BY <1>1, <1>2, <1>4, <1>5, <1>7, <1>8, <1>9, <1>10, <1>11
     DEF Next, ThreadStep, PeerStep, Tick, AuthWithoutPassword, ChannelOpen,
         ChannelShell, ChannelExec, ChannelRequest, vars

(* For a table of any size: it never counts more connections of an address *)
(* than are open, and a count that is exact stays exact unless all slots   *)
(* have open connections and that address loses its slot (ActiveExact).    *)
THEOREM ActiveAlwaysExact == Spec => ActiveExact
<1>1. Init => CountsBounded
  <2> SUFFICES ASSUME Init PROVE CountsBounded
    OBVIOUS
  <2>1. \A i \in Slot : table[i].ip = NoIP /\ table[i].active = 0
    BY DEF Init, EmptyEntry
  <2> QED BY <2>1, RateLimitAssumption DEF Init, CountsBounded
<1>2. TypeOK /\ TypeOK' /\ CountsBounded /\ [Next]_vars => CountsBounded'
  BY CountsStep DEF CountsKept
<1>3. TypeOK /\ TypeOK' /\ CountsBounded /\ [Next]_vars
         => [CountsFollow]_vars
  BY CountsStep DEF CountsKept
<1> QED BY <1>1, <1>2, <1>3, TypeCorrect, PTL DEF Spec, ActiveExact

-----------------------------------------------------------------------------
(* Per-address accounting, when the table has a slot for every connection. *)

(* How a change of stage moves a connection into or out of Holding.        *)
LEMMA HoldingMoves ==
    ASSUME TypeOK, NEW s \in Session, NEW st, Goto(s, st), UNCHANGED addr
    PROVE  LET out == {"idle", "counting", "checking", "rejected", "released"}
           IN  /\ \A b : b # addr[s] => Holders(b)' = Holders(b)
               /\ Holders(addr[s])' = IF st \in out THEN Holders(addr[s]) \ {s}
                                       ELSE Holders(addr[s]) \cup {s}
               /\ Holding' = IF st \in out THEN Holding \ {s} ELSE Holding \cup {s}
BY DEF TypeOK, Holders, Holding, Goto

(* An address with a connection open has an entry, and its count is the    *)
(* number of those connections.                                            *)
LEMMA HolderEntry ==
    ASSUME TypeOK, AccountInv, NEW a \in IP
    PROVE  /\ Tracked(table, a) # {} =>
                  /\ SlotFor(table, a) \in Slot
                  /\ table[SlotFor(table, a)].ip = a
                  /\ GetEntry(table, a, now) = table[SlotFor(table, a)]
           /\ Tracked(table, a) = {} => Holders(a) = {}
           /\ GetEntry(table, a, now).active = Cardinality(Holders(a))
<1>1. a # NoIP
  BY RateLimitAssumption
<1>2. ASSUME Tracked(table, a) # {}
      PROVE  /\ SlotFor(table, a) \in Slot
             /\ table[SlotFor(table, a)].ip = a
             /\ GetEntry(table, a, now) = table[SlotFor(table, a)]
  BY <1>2, SlotForIn DEF TypeOK, Tracked, GetEntry
<1>3. ASSUME Tracked(table, a) = {}
      PROVE  Holders(a) = {} /\ GetEntry(table, a, now).active = 0
  <2>1. Holders(a) = {}
    BY <1>3 DEF AccountInv, Holders
  <2>2. FreshEntry(a, now).active = 0
    BY DEF FreshEntry, EmptyEntry
  <2> QED BY <1>3, <2>1, <2>2 DEF GetEntry
<1>4. GetEntry(table, a, now).active = Cardinality(Holders(a))
  <2>1. CASE Tracked(table, a) # {}
    BY <2>1, <1>1, <1>2 DEF AccountInv
  <2>2. CASE Tracked(table, a) = {}
    BY <2>2, <1>3, FS_EmptySet
  <2> QED BY <2>1, <2>2
<1> QED BY <1>2, <1>3, <1>4

(* With no more connections than slots, a connection that is about to be   *)
(* checked finds a slot without connections: if every slot had one, each   *)
(* would belong to a different live connection, and the connection being   *)
(* checked is one more than those.                                         *)
LEMMA SpareSlot ==
    ASSUME TypeOK, CountInv, AccountInv, MaxConnections <= MaxTrackedIPs,
           NEW s \in Session, stage[s] = "checking"
    PROVE  Inactive(table) # {}
<1> SUFFICES ASSUME Inactive(table) = {} PROVE FALSE
  OBVIOUS
<1> DEFINE L == Live \ {s}
           f == [i \in Slot |-> CHOOSE r \in Session : r \in Holders(table[i].ip)]
<1>1. ASSUME NEW i \in Slot
      PROVE  f[i] \in Holders(table[i].ip) /\ table[i].ip # NoIP
  <2>1. table[i].active # 0
    BY DEF Inactive
  <2>2. table[i].ip \in IP /\ table[i].ip # NoIP
    BY <2>1, RateLimitAssumption DEF AccountInv, TypeOK, Entry
  <2>3. Holders(table[i].ip) # {}
    BY <2>1, <2>2, FS_EmptySet DEF AccountInv
  <2>4. Holders(table[i].ip) \subseteq Session
    BY DEF Holders, Holding
  <2> QED BY <2>2, <2>3, <2>4
<1>2. ASSUME NEW i \in Slot PROVE f[i] \in L
  BY <1>1 DEF Holders, Holding, Live
<1>3. ASSUME NEW i \in Slot, NEW j \in Slot, f[i] = f[j] PROVE i = j
  <2>1. addr[f[i]] = table[i].ip /\ addr[f[j]] = table[j].ip
    BY <1>1 DEF Holders
  <2> QED BY <2>1, <1>1, <1>3 DEF AccountInv
<1>4. f \in Injection(Slot, L)
  <2>1. f \in [Slot -> L]
    BY <1>2
  <2> HIDE DEF f, L
  <2> QED BY <2>1, <1>3 DEF Injection, IsInjective
<1>5. IsFiniteSet(L) /\ Cardinality(L) = Cardinality(Live) - 1
  <2>1. s \in Live
    BY DEF Live
  <2> QED BY <2>1, LiveFinite, FS_RemoveElement
<1>6. Cardinality(Slot) <= Cardinality(L)
  <2> HIDE DEF f, L
  <2> QED BY <1>4, <1>5, FS_Injection
<1>7. Cardinality(Slot) = MaxTrackedIPs
  BY RateLimitAssumption, FS_Interval DEF Slot
<1> QED
  BY <1>5, <1>6, <1>7, LiveFinite, RateLimitAssumption, AdmissionAssumption
     DEF CountInv, TotalExact

(* The part of AccountInv about the table survives storing an entry for a  *)
(* that agrees with a's connections after the step, provided the slot it   *)
(* goes to is a's own or belongs to nobody with a connection.              *)
LEMMA StoreAccount ==
    ASSUME TypeOK, AccountInv, NEW a \in IP, NEW e \in Entry, e.ip = a,
           Tracked(table, a) # {} \/ Inactive(table) # {},
           table' = Store(table, a, e),
           \A b \in IP : b # a => Holders(b)' = Holders(b),
           e.active = Cardinality(Holders(a)')
    PROVE  /\ \A i, j \in Slot : table'[i].ip = table'[j].ip /\ table'[i].ip # NoIP => i = j
           /\ \A i \in Slot : table'[i].ip = NoIP => table'[i].active = 0
           /\ \A i \in Slot, b \in IP :
                 table'[i].ip = b => table'[i].active = Cardinality(Holders(b)')
           /\ \A b \in IP : Holders(b)' # {} => Tracked(table', b) # {}
<1> DEFINE k == SlotFor(table, a)
<1>1. /\ k \in Slot
      /\ table' \in [Slot -> Entry]
      /\ table'[k] = e
      /\ \A i \in Slot : i # k => table'[i] = table[i]
  BY SlotForIn, StoreType DEF TypeOK
<1>2. Tracked(table, a) # {} => table[k].ip = a
  BY SlotForIn DEF TypeOK, Tracked
<1>3. Tracked(table, a) = {} => table[k].active = 0
  <2>1. CASE Tracked(table, NoIP) # {}
    BY <2>1, SlotForIn DEF TypeOK, Tracked, AccountInv
  <2>2. CASE Tracked(table, NoIP) = {}
    BY <2>2, SlotForIn DEF TypeOK, Inactive
  <2> QED BY <2>1, <2>2
<1> HIDE DEF k
<1>4. a # NoIP
  BY RateLimitAssumption
<1>5. ASSUME NEW i \in Slot, i # k PROVE table[i].ip # a
  BY <1>5, <1>1, <1>2, <1>4 DEF AccountInv, Tracked
<1>6. \A i, j \in Slot : table'[i].ip = table'[j].ip /\ table'[i].ip # NoIP => i = j
  BY <1>1, <1>4, <1>5 DEF AccountInv
<1>7. \A i \in Slot : table'[i].ip = NoIP => table'[i].active = 0
  BY <1>1, <1>4 DEF AccountInv
<1>8. ASSUME NEW i \in Slot, NEW b \in IP, table'[i].ip = b
      PROVE  table'[i].active = Cardinality(Holders(b)')
  <2>1. CASE i = k
    BY <2>1, <1>1, <1>8
  <2>2. CASE i # k
    <3>1. table'[i] = table[i] /\ b # a
      BY <2>2, <1>1, <1>5, <1>8
    <3>2. Holders(b)' = Holders(b)
      BY <3>1
    <3> QED BY <3>1, <3>2, <1>8 DEF AccountInv
  <2> QED BY <2>1, <2>2
<1>9. ASSUME NEW b \in IP, Holders(b)' # {} PROVE Tracked(table', b) # {}
  <2>1. CASE b = a
    <3>1. k \in Tracked(table', a)
      BY <1>1 DEF Tracked
    <3> QED BY <2>1, <3>1
  <2>2. CASE b # a
    <3>1. Holders(b) # {}
      BY <1>9, <2>2
    <3>2. PICK i \in Slot : table[i].ip = b
      BY <3>1 DEF AccountInv, Tracked
    <3>3. i # k
      <4> SUFFICES ASSUME i = k PROVE FALSE
        OBVIOUS
      <4>1. Tracked(table, a) = {}
        BY <1>2, <3>2, <2>2
      <4>2. table[i].active = 0
        BY <4>1, <1>3
      <4>3. Cardinality(Holders(b)) = 0
        BY <4>2, <3>2 DEF AccountInv
      <4> QED BY <4>3, <3>1, HoldersFinite, FS_EmptySet
    <3>4. i \in Tracked(table', b)
      BY <3>2, <3>3, <1>1 DEF Tracked
    <3> QED BY <3>4
  <2> QED BY <2>1, <2>2
<1> QED BY <1>6, <1>7, <1>8, <1>9

(* Steps that leave the table and the holders of every address alone.      *)
LEMMA SameHolders ==
    ASSUME TypeOK, AccountInv, UNCHANGED table,
           \A b \in IP : Holders(b)' = Holders(b),
           \A s \in Session : stage'[s] # "idle" => addr'[s] \in IP
    PROVE  AccountInv'
<1>1. \A b \in IP : Cardinality(Holders(b)') = Cardinality(Holders(b))
  OBVIOUS
<1>2. PerIpLimit'
  BY <1>1 DEF AccountInv, PerIpLimit
<1>3. \A b \in IP : Holders(b)' # {} => Tracked(table', b) # {}
  BY DEF AccountInv
<1>4. \A i \in Slot, b \in IP :
         table'[i].ip = b => table'[i].active = Cardinality(Holders(b)')
  BY <1>1 DEF AccountInv
<1> QED BY <1>2, <1>3, <1>4 DEF AccountInv

(* A connection that moves between two stages that both hold a place of    *)
(* its address, or neither does.                                           *)
LEMMA SameHoldersMove ==
    ASSUME TypeOK, AccountInv, UNCHANGED <<table, addr>>,
           NEW s \in Session, NEW st, Goto(s, st), stage[s] # "idle",
           LET out == {"idle", "counting", "checking", "rejected", "released"}
           IN  stage[s] \in out <=> st \in out
    PROVE  AccountInv'
<1>1. \A b \in IP : Holders(b)' = Holders(b)
  BY DEF TypeOK, Holders, Holding, Goto
<1>2. \A r \in Session : stage'[r] # "idle" => addr'[r] \in IP
  BY DEF TypeOK, AccountInv, Goto
<1> QED BY <1>1, <1>2, SameHolders

(* One step per action: the table stays exact, if it has a slot for every  *)
(* connection.                                                             *)
LEMMA AccountStep ==
    ASSUME MaxConnections <= MaxTrackedIPs
    PROVE  TypeOK /\ CountInv /\ AccountInv /\ [Next]_vars => AccountInv'
<1> SUFFICES ASSUME TypeOK, CountInv, AccountInv, [Next]_vars PROVE AccountInv'
  OBVIOUS
<1>1. ASSUME UNCHANGED <<table, stage, addr>> PROVE AccountInv'
  <2>1. \A b \in IP : Holders(b)' = Holders(b)
    BY <1>1 DEF Holders, Holding
  <2> QED BY <1>1, <2>1, SameHolders DEF AccountInv
<1>2. ASSUME NEW s \in Session, NEW a \in IP, Accept(s, a) PROVE AccountInv'
  <2>1. \A b \in IP : Holders(b)' = Holders(b)
    BY <1>2 DEF Accept, Goto, TypeOK, Holders, Holding
  <2>2. \A r \in Session : stage'[r] # "idle" => addr'[r] \in IP
    BY <1>2 DEF Accept, Goto, TypeOK, AccountInv
  <2> QED BY <1>2, <2>1, <2>2, SameHolders DEF Accept
<1>3. ASSUME NEW s \in Session, End(s), UNCHANGED table,
             stage[s] \in {"counting", "rejected", "released"}
      PROVE  AccountInv'
  <2>1. \A b \in IP : Holders(b)' = Holders(b)
    BY <1>3 DEF End, Goto, TypeOK, Holders, Holding
  <2>2. \A r \in Session : stage'[r] # "idle" => addr'[r] \in IP
    BY <1>3 DEF End, Goto, TypeOK, AccountInv
  <2> QED BY <1>3, <2>1, <2>2, SameHolders
<1>4. ASSUME NEW s \in Session, CheckTotal(s) PROVE AccountInv'
  <2>1. CASE total >= MaxConnections
    BY <1>4, <2>1, <1>3 DEF CheckTotal
  <2>2. CASE ~(total >= MaxConnections)
    BY <1>4, <2>2, SameHoldersMove DEF CheckTotal
  <2> QED BY <2>1, <2>2
<1>5. ASSUME NEW s \in Session, DecrementTotal(s) PROVE AccountInv'
  BY <1>5, <1>3 DEF DecrementTotal
<1>6. ASSUME NEW s \in Session, CheckIp(s) PROVE AccountInv'
  <2>0. PICK a \in IP : a = addr[s]
    BY <1>6 DEF CheckIp, AccountInv
  <2> DEFINE e == GetEntry(table, a, now)
             c == CheckedEntry(e, sampled[s])
             ok == Admits(e, sampled[s])
  <2>1. sampled[s] \in Nat /\ now \in Nat
    BY DEF TypeOK
  <2>2. e \in Entry /\ e.ip = a /\ e.active = Cardinality(Holders(a))
    BY <2>1, GetEntryType, HolderEntry DEF TypeOK
  <2>3. /\ c \in Entry /\ c.ip = a
        /\ c.active = IF ok THEN e.active + 1 ELSE e.active
        /\ ok => e.active < MaxConnPerIp
    BY <2>1, <2>2, CheckedEntryType
  <2>4. /\ stage[s] = "checking" /\ UNCHANGED addr /\ table' = Store(table, a, c)
        /\ Goto(s, IF ok THEN "spawning" ELSE "rejected")
    BY <1>6, <2>0 DEF CheckIp
  <2> HIDE DEF e, c, ok
  <2>5. /\ \A b \in IP : b # a => Holders(b)' = Holders(b)
        /\ Holders(a)' = IF ok THEN Holders(a) \cup {s} ELSE Holders(a)
        /\ s \notin Holders(a)
    BY <2>0, <2>4 DEF TypeOK, Holders, Holding, Goto
  <2>6. /\ Cardinality(Holders(a)') = c.active
        /\ Cardinality(Holders(a)') <= MaxConnPerIp
    <3>1. CASE ok
      <4>1. Cardinality(Holders(a) \cup {s}) = Cardinality(Holders(a)) + 1
        BY <2>5, HoldersFinite, FS_AddElement
      <4> QED BY <3>1, <4>1, <2>2, <2>3, <2>5, HoldersFinite, RateLimitAssumption
    <3>2. CASE ~ok
      BY <3>2, <2>2, <2>3, <2>5 DEF AccountInv, PerIpLimit
    <3> QED BY <3>1, <3>2
  <2>7. Inactive(table) # {}
    BY <2>4, SpareSlot
  <2>8. PerIpLimit'
    BY <2>5, <2>6 DEF PerIpLimit, AccountInv
  <2>9. \A r \in Session : stage'[r] # "idle" => addr'[r] \in IP
    BY <2>4 DEF TypeOK, AccountInv, Goto
  <2> QED BY <2>3, <2>4, <2>5, <2>6, <2>7, <2>8, <2>9, StoreAccount DEF AccountInv
<1>7. ASSUME NEW s \in Session, ReleaseIp(s) PROVE AccountInv'
  <2>0. PICK a \in IP : a = addr[s]
    BY <1>7 DEF ReleaseIp, AccountInv
  <2> DEFINE e == GetEntry(table, a, now)
             c == ReleasedEntry(e)
             st == IF stage[s] = "spawn_failed" THEN "rejected" ELSE "released"
  <2>1. e \in Entry /\ e.ip = a /\ e.active = Cardinality(Holders(a))
    BY GetEntryType, HolderEntry DEF TypeOK
  <2>2. /\ c \in Entry /\ c.ip = a
        /\ c.active = IF e.active > 0 THEN e.active - 1 ELSE 0
    BY <2>1, ReleasedEntryType
  <2>3. /\ stage[s] \in {"spawn_failed", "failed", "cleanup"}
        /\ UNCHANGED addr /\ table' = Store(table, a, c) /\ Goto(s, st)
    BY <1>7, <2>0 DEF ReleaseIp
  <2> HIDE DEF e, c
  <2>4. /\ \A b \in IP : b # a => Holders(b)' = Holders(b)
        /\ Holders(a)' = Holders(a) \ {s}
        /\ s \in Holders(a)
    BY <2>0, <2>3 DEF TypeOK, Holders, Holding, Goto
  <2>5. Cardinality(Holders(a) \ {s}) = Cardinality(Holders(a)) - 1
    BY <2>4, HoldersFinite, FS_RemoveElement
  <2>6. Cardinality(Holders(a)) > 0
    BY <2>4, HoldersFinite, FS_EmptySet
  <2>7. /\ Cardinality(Holders(a)') = c.active
        /\ Cardinality(Holders(a)') <= MaxConnPerIp
    BY <2>1, <2>2, <2>4, <2>5, <2>6, HoldersFinite, RateLimitAssumption
       DEF AccountInv, PerIpLimit
  <2>8. Tracked(table, a) # {}
    BY <2>4 DEF AccountInv
  <2>9. PerIpLimit'
    BY <2>4, <2>7 DEF PerIpLimit, AccountInv
  <2>10. \A r \in Session : stage'[r] # "idle" => addr'[r] \in IP
    BY <2>3 DEF TypeOK, AccountInv, Goto
  <2> QED BY <2>2, <2>3, <2>4, <2>7, <2>8, <2>9, <2>10, StoreAccount DEF AccountInv
<1>8. ASSUME NEW s \in Session, RecordAuthFailure(s) PROVE AccountInv'
  <2>1. CASE ~RateLimitEnabled
    BY <1>8, <2>1, SameHoldersMove DEF RecordAuthFailure
  <2>2. CASE RateLimitEnabled
    <3>0. PICK a \in IP : a = addr[s]
      BY <1>8 DEF RecordAuthFailure, AccountInv
    <3> DEFINE e == GetEntry(table, a, now)
               c == FailedEntry(e, sampled[s])
    <3>1. e \in Entry /\ e.ip = a /\ e.active = Cardinality(Holders(a))
      BY GetEntryType, HolderEntry DEF TypeOK
    <3>2. c \in Entry /\ c.ip = a /\ c.active = e.active
      BY <3>1, FailedEntryType DEF TypeOK
    <3>3. /\ stage[s] = "recording"
          /\ UNCHANGED addr /\ table' = Store(table, a, c) /\ Goto(s, "polling")
      BY <1>8, <2>2, <3>0 DEF RecordAuthFailure
    <3> HIDE DEF e, c
    <3>4. (\A b \in IP : Holders(b)' = Holders(b)) /\ s \in Holders(a)
      BY <3>0, <3>3 DEF TypeOK, Holders, Holding, Goto
    <3>5. Tracked(table, a) # {}
      BY <3>4 DEF AccountInv
    <3>6. Cardinality(Holders(a)') = c.active
      BY <3>1, <3>2, <3>4
    <3>7. PerIpLimit'
      BY <3>4 DEF PerIpLimit, AccountInv
    <3>8. \A r \in Session : stage'[r] # "idle" => addr'[r] \in IP
      BY <3>3 DEF TypeOK, AccountInv, Goto
    <3> QED BY <3>2, <3>3, <3>4, <3>5, <3>6, <3>7, <3>8, StoreAccount DEF AccountInv
  <2> QED BY <2>1, <2>2
<1>9. ASSUME NEW s \in Session,
             \/ Spawn(s) \/ StartBootstrap(s) \/ KeyExchange(s) \/ CreateClient(s)
             \/ PollExit(s) \/ ExecDispatch(s) \/ ReadUsernameFails(s)
             \/ LeaveLoop(s)
             \/ RoomAddClient(s) \/ RoomRemoveClient(s)
      PROVE  AccountInv'
  <2>1. /\ UNCHANGED <<table, addr>>
        /\ stage[s] # "idle"
        /\ \E st : /\ Goto(s, st)
                   /\ LET out == {"idle", "counting", "checking", "rejected", "released"}
                      IN  stage[s] \in out <=> st \in out
    BY <1>9 DEF Spawn, StartBootstrap, KeyExchange, CreateClient, HandshakeStep,
       PollExit, ExecDispatch, ReadUsernameFails,
       LeaveLoop, RoomAddClient, RoomRemoveClient
  <2> QED BY <2>1, SameHoldersMove
<1>10. ASSUME NEW s \in Session, NEW matches \in BOOLEAN, AuthPassword(s, matches)
       PROVE  AccountInv'
  <2>1. CASE PasswordAccepted(s, matches)
    BY <1>10, <2>1, <1>1 DEF AuthPassword
  <2>2. CASE ~PasswordAccepted(s, matches)
    BY <1>10, <2>2, SameHoldersMove DEF AuthPassword, Authenticating, Connected
  <2> QED BY <2>1, <2>2
<1> QED
  BY <1>1, <1>2, <1>4, <1>5, <1>6, <1>7, <1>8, <1>9, <1>10
     DEF Next, ThreadStep, PeerStep, Tick, AuthWithoutPassword, ChannelOpen,
         ChannelShell, ChannelExec, ChannelRequest, vars

(* The inductive invariant behind the per-address counts.                  *)
LEMMA AccountInvariant ==
    ASSUME MaxConnections <= MaxTrackedIPs
    PROVE  Spec => [](TypeOK /\ CountInv /\ AccountInv)
<1>1. Init => AccountInv
  <2> SUFFICES ASSUME Init PROVE AccountInv
    OBVIOUS
  <2>1. \A a \in IP : Holders(a) = {}
    BY DEF Init, Holders, Holding
  <2>2. PerIpLimit
    <3> SUFFICES ASSUME NEW a \in IP PROVE Cardinality(Holders(a)) <= MaxConnPerIp
      BY DEF PerIpLimit
    <3>1. Cardinality(Holders(a)) = 0
      BY <2>1, FS_EmptySet
    <3>2. 0 <= MaxConnPerIp
      BY RateLimitAssumption
    <3> QED BY <3>1, <3>2
  <2>3. \A i \in Slot : table[i].ip = NoIP /\ table[i].active = 0
    BY DEF Init, EmptyEntry
  <2> QED BY <2>1, <2>2, <2>3, RateLimitAssumption DEF Init, AccountInv
<1>2. TypeOK /\ CountInv /\ AccountInv /\ [Next]_vars => AccountInv'
  BY AccountStep
<1> QED BY <1>1, <1>2, CountInvariant, PTL DEF Spec

(* With at least as many slots as connections, the table's count of every  *)
(* address is exact at all times: get_rate_limit_entry never has to give   *)
(* away the slot of an address that still has a connection open.           *)
THEOREM ActiveIsExact ==
    ASSUME MaxConnections <= MaxTrackedIPs
    PROVE  Spec => [](\A a \in IP : Exact(a))
<1>1. TypeOK /\ AccountInv => \A a \in IP : Exact(a)
  BY HolderEntry DEF Exact, Active
<1> QED BY <1>1, AccountInvariant, PTL

(* Then no address ever has more connections open than TNT_MAX_CONN_PER_IP *)
(* (PerIpLimit), over any number of connections, failures and reuses.      *)
THEOREM PerIpLimitHolds ==
    ASSUME MaxConnections <= MaxTrackedIPs
    PROVE  Spec => []PerIpLimit
<1>1. AccountInv => PerIpLimit
  BY DEF AccountInv
<1> QED BY <1>1, AccountInvariant, PTL

-----------------------------------------------------------------------------
(* Bans, for a table with a slot for every address.                        *)

(* The accept loop is one thread, and sampled clocks are past ones.        *)
LEMMA ClockStep == TypeOK /\ ClockInv /\ [Next]_vars => ClockInv'
<1> SUFFICES ASSUME TypeOK, ClockInv, [Next]_vars PROVE ClockInv'
  OBVIOUS
<1>1. CASE UNCHANGED vars
  BY <1>1 DEF ClockInv, vars
<1>2. CASE Tick
  BY <1>2 DEF TypeOK, ClockInv, Tick
<1>3. ASSUME NEW s \in Session, NEW a \in IP, Accept(s, a) PROVE ClockInv'
  BY <1>3 DEF TypeOK, ClockInv, Accept, AcceptStages, Goto
<1>4. ASSUME NEW s \in Session, CheckTotal(s) PROVE ClockInv'
  <2>1. CASE total >= MaxConnections
    BY <1>4, <2>1 DEF TypeOK, ClockInv, CheckTotal, AcceptStages, End, Goto, outside
  <2>2. CASE ~(total >= MaxConnections)
    BY <1>4, <2>2 DEF TypeOK, ClockInv, CheckTotal, AcceptStages, Goto, outside
  <2> QED BY <2>1, <2>2
<1>5. ASSUME NEW s \in Session, CheckIp(s) PROVE ClockInv'
  <2>1. PICK st \in {"spawning", "rejected"} : Goto(s, st)
    BY <1>5 DEF CheckIp
  <2>2. /\ stage[s] = "checking" /\ sampled' = [sampled EXCEPT ![s] = 0]
        /\ UNCHANGED <<outside, addr>>
    BY <1>5 DEF CheckIp
  <2> QED BY <2>1, <2>2 DEF TypeOK, ClockInv, AcceptStages, Goto, outside
<1>6. ASSUME NEW s \in Session, Spawn(s) PROVE ClockInv'
  BY <1>6 DEF TypeOK, ClockInv, Spawn, AcceptStages, Goto, outside
<1>7. ASSUME NEW s \in Session, ReleaseIp(s) PROVE ClockInv'
  <2>1. /\ stage[s] \in {"spawn_failed", "failed", "cleanup"}
        /\ Goto(s, IF stage[s] = "spawn_failed" THEN "rejected" ELSE "released")
        /\ UNCHANGED <<outside, addr, sampled>>
    BY <1>7 DEF ReleaseIp
  <2> QED BY <2>1 DEF TypeOK, ClockInv, AcceptStages, Goto, outside
<1>8. ASSUME NEW s \in Session, DecrementTotal(s) PROVE ClockInv'
  BY <1>8 DEF TypeOK, ClockInv, DecrementTotal, AcceptStages, End, Goto, outside
<1>9. ASSUME NEW s \in Session, StartBootstrap(s) \/ KeyExchange(s) \/ CreateClient(s)
      PROVE  ClockInv'
  BY <1>9 DEF TypeOK, ClockInv, StartBootstrap, KeyExchange, CreateClient,
              HandshakeStep, AcceptStages, Goto, outside
<1>10. ASSUME NEW s \in Session, RecordAuthFailure(s) PROVE ClockInv'
  <2>1. /\ stage[s] = "recording" /\ Goto(s, "polling")
        /\ sampled' = [sampled EXCEPT ![s] = 0] /\ UNCHANGED <<outside, addr>>
    BY <1>10 DEF RecordAuthFailure
  <2> QED BY <2>1 DEF TypeOK, ClockInv, AcceptStages, Goto, outside
<1>11. ASSUME NEW s \in Session, NEW matches \in BOOLEAN, AuthPassword(s, matches)
       PROVE  ClockInv'
  <2>1. CASE PasswordAccepted(s, matches)
    BY <1>11, <2>1 DEF ClockInv, AuthPassword, outside
  <2>2. CASE ~PasswordAccepted(s, matches)
    BY <1>11, <2>2 DEF TypeOK, ClockInv, AuthPassword, Authenticating, Connected,
                       AcceptStages, Goto, outside
  <2> QED BY <2>1, <2>2
<1>12. ASSUME NEW s \in Session,
              \/ AuthWithoutPassword(s)
              \/ ChannelOpen(s) \/ ChannelShell(s) \/ ChannelExec(s)
       PROVE  ClockInv'
  BY <1>12 DEF ClockInv, AuthWithoutPassword, ChannelOpen, ChannelShell, ChannelExec,
               ChannelRequest, outside
<1>13. ASSUME NEW s \in Session,
              \/ PollExit(s) \/ ExecDispatch(s) \/ ReadUsernameFails(s) \/ LeaveLoop(s)
              \/ RoomRemoveClient(s)
       PROVE  ClockInv'
  BY <1>13 DEF TypeOK, ClockInv, PollExit, ExecDispatch, ReadUsernameFails, LeaveLoop,
               RoomRemoveClient, AcceptStages, Goto, outside
<1>14. ASSUME NEW s \in Session, RoomAddClient(s) PROVE ClockInv'
  BY <1>14 DEF TypeOK, ClockInv, RoomAddClient, AcceptStages, Goto, outside
<1> QED
  BY <1>1, <1>2, <1>3, <1>4, <1>5, <1>6, <1>7, <1>8, <1>9, <1>10, <1>11, <1>12,
     <1>13, <1>14 DEF Next, ThreadStep, PeerStep

(* What the history of an address becomes: the ban of an address is that   *)
(* of its blocked entry, and its streak grows with its failures only.      *)
LEMMA ObservedBan ==
    ASSUME TypeOK, TypeOK', BanInv, Observe, NEW a \in IP,
           \A i, j \in Slot : table'[i].ip = table'[j].ip /\ table'[i].ip # NoIP => i = j
    PROVE  /\ ban' \in [IP -> Nat]
           /\ \A i \in Slot : table'[i].ip = a /\ table'[i].blocked
                 => ban'[a] = table'[i].until
           /\ (\A i \in Slot : table'[i].ip = a => ~table'[i].blocked) => ban'[a] = ban[a]
<1> DEFINE B(b) == {i \in Slot : table'[i].ip = b /\ table'[i].blocked}
<1>1. ban' = [b \in IP |-> IF B(b) # {} THEN table'[First(B(b))].until ELSE ban[b]]
  BY DEF Observe
<1>2. ASSUME NEW b \in IP, B(b) # {} PROVE First(B(b)) \in B(b)
  <2>1. B(b) \in SUBSET Slot
    OBVIOUS
  <2> QED BY <2>1, <1>2, FirstIn
<1>3. ASSUME NEW b \in IP, B(b) # {} PROVE table'[First(B(b))].until \in Nat
  BY <1>2, <1>3 DEF TypeOK, Entry
<1>4. ban' \in [IP -> Nat]
  <2> HIDE DEF B
  <2> QED BY <1>1, <1>3 DEF BanInv
<1>5. ASSUME NEW i \in Slot, table'[i].ip = a, table'[i].blocked
      PROVE  ban'[a] = table'[i].until
  <2>1. i \in B(a)
    BY <1>5
  <2>2. First(B(a)) \in B(a)
    BY <2>1, <1>2
  <2>3. First(B(a)) = i
    BY <2>1, <2>2, RateLimitAssumption
  <2> QED BY <1>1, <2>1, <2>3
<1>6. ASSUME \A i \in Slot : table'[i].ip = a => ~table'[i].blocked
      PROVE  ban'[a] = ban[a]
  <2>1. B(a) = {}
    BY <1>6
  <2> QED BY <1>1, <2>1
<1> QED BY <1>4, <1>5, <1>6

(* The number of failures in a row, after a step.                          *)
LEMMA ObservedStreak ==
    ASSUME BanInv, Observe
    PROVE  /\ streak' \in [IP -> Nat]
           /\ \A a \in IP : streak'[a] <= streak[a] + 1
           /\ \A a \in IP : (\A s \in Session : addr[s] = a => ~Failed(s))
                 => streak'[a] <= streak[a]
<1>1. ASSUME NEW n \in Nat PROVE Capped(n) \in Nat /\ Capped(n) <= n
  BY RateLimitAssumption DEF Capped
<1>2. ASSUME NEW a \in IP
      PROVE  /\ streak'[a] \in Nat /\ streak'[a] <= streak[a] + 1
             /\ (\A s \in Session : addr[s] = a => ~Failed(s)) => streak'[a] <= streak[a]
  <2>0. streak[a] \in Nat
    BY DEF BanInv
  <2>1. CASE \E s \in Session : addr[s] = a /\ Passed(s)
    <3>1. streak'[a] = 0
      BY <2>1 DEF Observe
    <3> QED BY <2>0, <3>1
  <2>2. CASE /\ ~\E s \in Session : addr[s] = a /\ Passed(s)
             /\ \E s \in Session : addr[s] = a /\ Failed(s)
    <3>1. streak'[a] = Capped(streak[a] + 1)
      BY <2>2 DEF Observe
    <3> QED BY <2>0, <3>1, <2>2, <1>1
  <2>3. CASE /\ ~\E s \in Session : addr[s] = a /\ Passed(s)
             /\ ~\E s \in Session : addr[s] = a /\ Failed(s)
    <3>1. streak'[a] = streak[a]
      BY <2>3 DEF Observe
    <3> QED BY <2>0, <3>1
  <2> QED BY <2>1, <2>2, <2>3
<1>3. streak' \in [IP -> Nat]
  <2>1. streak' = [a \in IP |-> streak'[a]]
    BY DEF Observe
  <2> QED BY <2>1, <1>2
<1> QED BY <1>2, <1>3

(* A table with a slot for every address has one left for an address that  *)
(* it does not track.                                                      *)
LEMMA EmptySlot ==
    ASSUME TypeOK, BanInv, IsFiniteSet(IP), Cardinality(IP) <= MaxTrackedIPs,
           NEW a \in IP, Tracked(table, a) = {}
    PROVE  Tracked(table, NoIP) # {}
<1> SUFFICES ASSUME Tracked(table, NoIP) = {} PROVE FALSE
  OBVIOUS
<1> DEFINE L == IP \ {a}
           f == [i \in Slot |-> table[i].ip]
<1>1. ASSUME NEW i \in Slot PROVE table[i].ip \in L
  BY DEF TypeOK, Entry, Tracked
<1>2. f \in [Slot -> L]
  BY <1>1
<1>3. ASSUME NEW i \in Slot, NEW j \in Slot, f[i] = f[j] PROVE i = j
  BY <1>1, <1>3, RateLimitAssumption DEF BanInv
<1>4. f \in Injection(Slot, L)
  <2> HIDE DEF f, L
  <2> QED BY <1>2, <1>3 DEF Injection, IsInjective
<1>5. IsFiniteSet(L) /\ Cardinality(L) = Cardinality(IP) - 1
  BY FS_RemoveElement
<1>6. Cardinality(Slot) <= Cardinality(L)
  <2> HIDE DEF f, L
  <2> QED BY <1>4, <1>5, FS_Injection
<1>7. Cardinality(Slot) = MaxTrackedIPs
  BY RateLimitAssumption, FS_Interval DEF Slot
<1>8. Cardinality(IP) \in Nat
  BY FS_CardinalityType
<1> QED
  BY <1>5, <1>6, <1>7, <1>8, RateLimitAssumption

(* The entry that a locked operation gets keeps the bans of its address,   *)
(* fresh or not.                                                           *)
LEMMA EntryKeepsBan ==
    ASSUME TypeOK, BanInv, NEW a \in IP
    PROVE  BanKept(GetEntry(table, a, now), a)
<1>1. CASE Tracked(table, a) # {}
  <2>1. SlotFor(table, a) \in Slot /\ table[SlotFor(table, a)].ip = a
    BY <1>1, SlotForIn DEF TypeOK, Tracked
  <2> QED BY <1>1, <2>1 DEF GetEntry, BanInv
<1>2. CASE Tracked(table, a) = {}
  <2> DEFINE e == FreshEntry(a, now)
  <2>1. e.blocked = FALSE /\ e.failures = 0
    BY DEF FreshEntry, EmptyEntry
  <2>2. ban[a] = 0 /\ (RateLimitEnabled => streak[a] = 0)
    BY <1>2 DEF BanInv
  <2>3. GetEntry(table, a, now) = e
    BY <1>2 DEF GetEntry
  <2>4. now \in Nat /\ \A s \in Session : sampled[s] \in Nat
    BY DEF TypeOK
  <2> HIDE DEF e
  <2> QED BY <2>1, <2>2, <2>3, <2>4, RateLimitAssumption DEF BanKept
<1> QED BY <1>1, <1>2

(* A step that leaves the table alone keeps the bans, if the clock it      *)
(* reads for a check is the time.                                          *)
LEMMA BanQuiet ==
    ASSUME TypeOK, TypeOK', BanInv, Observe, table' = table, now <= now',
           RateLimitEnabled => \A s \in Session : ~Failed(s),
           \A s \in Session : stage'[s] = "checking" =>
               \/ stage[s] = "checking" /\ sampled'[s] = sampled[s]
               \/ sampled'[s] = now
    PROVE  BanInv'
<1>1. \A i, j \in Slot : table'[i].ip = table'[j].ip /\ table'[i].ip # NoIP => i = j
  BY DEF BanInv
<1>2. ban' \in [IP -> Nat]
  BY <1>1, ObservedBan DEF Observe
<1>3. ASSUME NEW a \in IP PROVE ban'[a] = ban[a]
  <2>1. CASE \E i \in Slot : table[i].ip = a /\ table[i].blocked
    <3>1. PICK i \in Slot : table[i].ip = a /\ table[i].blocked
      BY <2>1
    <3>2. ban'[a] = table[i].until
      BY <3>1, <1>1, ObservedBan
    <3>3. ban[a] = table[i].until
      BY <3>1 DEF BanInv, BanKept
    <3> QED BY <3>2, <3>3
  <2>2. CASE ~\E i \in Slot : table[i].ip = a /\ table[i].blocked
    BY <2>2, <1>1, ObservedBan
  <2> QED BY <2>1, <2>2
<1>4. /\ streak' \in [IP -> Nat]
      /\ RateLimitEnabled => \A a \in IP : streak'[a] <= streak[a]
  BY ObservedStreak
<1>5. ASSUME NEW a \in IP, Tracked(table, a)' = {}
      PROVE  ban'[a] = 0 /\ (RateLimitEnabled => streak'[a] = 0)
  <2>1. Tracked(table, a) = {}
    BY <1>5 DEF Tracked
  <2> QED BY <2>1, <1>3, <1>4 DEF BanInv
<1>6. ASSUME NEW i \in Slot, table[i].ip \in IP PROVE BanKept(table[i], table[i].ip)'
  <2> DEFINE e == table[i]
             a == table[i].ip
  <2>0. BanKept(e, a) /\ a \in IP /\ e \in Entry /\ ban[a] \in Nat /\ streak[a] \in Nat
    BY <1>6 DEF BanInv, TypeOK
  <2>1. ban'[a] = ban[a] /\ e' = e /\ a' = a /\ streak'[a] \in Nat
    BY <1>3, <1>4, <2>0
  <2>2. e.failures \in Nat /\ MaxAuthFailures \in Nat
    BY <2>0, RateLimitAssumption DEF Entry
  <2>3. now \in Nat /\ now' \in Nat
    BY DEF TypeOK
  <2> HIDE DEF e, a
  <2>4. ASSUME ~e.blocked
        PROVE  /\ ban[a] <= now'
               /\ \A s \in Session : stage'[s] = "checking" => ban[a] <= sampled'[s]
    BY <2>0, <2>3, <2>4 DEF BanKept
  <2>5. ASSUME RateLimitEnabled, ban[a] = 0
        PROVE  streak'[a] <= e.failures /\ e.failures < MaxAuthFailures
    BY <2>0, <2>1, <2>2, <2>5, <1>4 DEF BanKept
  <2>6. BanKept(e, a)'
    BY <2>0, <2>1, <2>4, <2>5 DEF BanKept
  <2> QED BY <2>6 DEF e, a
<1> QED BY <1>1, <1>2, <1>4, <1>5, <1>6 DEF BanInv

(* Writing the entry of one address changes the slot of this address or an *)
(* empty one, and no other slot is of this address.                        *)
LEMMA StoredSlot ==
    ASSUME TypeOK, BanInv, IsFiniteSet(IP), Cardinality(IP) <= MaxTrackedIPs,
           NEW a \in IP, NEW e \in Entry, e.ip = a, table' = Store(table, a, e)
    PROVE  \E k \in Slot :
              /\ table'[k] = e /\ table[k].ip \in {a, NoIP}
              /\ \A i \in Slot : i # k => table'[i] = table[i] /\ table[i].ip # a
              /\ Tracked(table, a) # {} => table[k] = GetEntry(table, a, now)
<1> DEFINE k == SlotFor(table, a)
<1>0. table \in [Slot -> Entry] /\ NoIP \notin IP
  BY RateLimitAssumption DEF TypeOK
<1>1. k \in Slot /\ table'[k] = e /\ \A i \in Slot : i # k => table'[i] = table[i]
  BY <1>0, SlotForIn, StoreType
<1>2. table[k].ip \in {a, NoIP}
  BY <1>0, SlotForIn, EmptySlot DEF Tracked
<1>3. \A i \in Slot : i # k => table[i].ip # a
  <2>1. CASE Tracked(table, a) # {}
    <3>1. table[k].ip = a
      BY <2>1, <1>0, SlotForIn DEF Tracked
    <3> QED BY <3>1, <1>0, <1>1 DEF BanInv
  <2>2. CASE Tracked(table, a) = {}
    BY <2>2 DEF Tracked
  <2> QED BY <2>1, <2>2
<1>4. Tracked(table, a) # {} => table[k] = GetEntry(table, a, now)
  BY DEF GetEntry
<1> HIDE DEF k
<1> QED BY <1>1, <1>2, <1>3, <1>4

(* A step that writes the entry of one address keeps the bans, if the      *)
(* entry does.                                                             *)
LEMMA BanStored ==
    ASSUME TypeOK, TypeOK', BanInv, Observe, now' = now,
           IsFiniteSet(IP), Cardinality(IP) <= MaxTrackedIPs,
           NEW a \in IP, NEW e \in Entry, e.ip = a, table' = Store(table, a, e),
           \A s \in Session : Failed(s) => addr[s] = a,
           \A s \in Session : stage'[s] = "checking" =>
               stage[s] = "checking" /\ sampled'[s] = sampled[s],
           e.blocked => RateLimitEnabled /\ e.until # 0,
           ~e.blocked => /\ ban[a] <= now
                         /\ \A s \in Session : stage'[s] = "checking" => ban[a] <= sampled[s],
           RateLimitEnabled /\ ~e.blocked /\ ban[a] = 0 =>
               streak'[a] <= e.failures /\ e.failures < MaxAuthFailures
    PROVE  BanInv'
<1>0. NoIP \notin IP
  BY RateLimitAssumption
<1>1. PICK k \in Slot :
         /\ table'[k] = e /\ table[k].ip \in {a, NoIP}
         /\ \A i \in Slot : i # k => table'[i] = table[i] /\ table[i].ip # a
  BY StoredSlot
<1>2. table[k].ip \in {a, NoIP}
  BY <1>1
<1>3. \A i \in Slot : i # k => table[i].ip # a
  BY <1>1
<1>4. \A i, j \in Slot : table'[i].ip = table'[j].ip /\ table'[i].ip # NoIP => i = j
  <2> SUFFICES ASSUME NEW i \in Slot, NEW j \in Slot,
                      table'[i].ip = table'[j].ip, table'[i].ip # NoIP
               PROVE  i = j
    OBVIOUS
  <2>1. CASE i = k \/ j = k
    BY <2>1, <1>1, <1>3
  <2>2. CASE i # k /\ j # k
    BY <2>2, <1>1 DEF BanInv
  <2> QED BY <2>1, <2>2
<1>5. ban' \in [IP -> Nat]
  BY <1>4, ObservedBan
<1>6. ban'[a] = IF e.blocked THEN e.until ELSE ban[a]
  <2>1. CASE e.blocked
    BY <2>1, <1>1, <1>4, ObservedBan
  <2>2. CASE ~e.blocked
    <3>1. \A i \in Slot : table'[i].ip = a => ~table'[i].blocked
      BY <2>2, <1>1, <1>3
    <3> QED BY <2>2, <3>1, <1>4, ObservedBan
  <2> QED BY <2>1, <2>2
<1>7. ASSUME NEW b \in IP, b # a
      PROVE  /\ ban'[b] = ban[b]
             /\ \A i \in Slot : table'[i].ip = b <=> table[i].ip = b
             /\ \A i \in Slot : table[i].ip = b => table'[i] = table[i]
  <2>1. \A i \in Slot : table'[i].ip = b <=> table[i].ip = b
    BY <1>0, <1>1, <1>2, <1>7
  <2>2. \A i \in Slot : table[i].ip = b => table'[i] = table[i]
    BY <1>0, <1>1, <1>2, <1>7
  <2>3. CASE \E i \in Slot : table[i].ip = b /\ table[i].blocked
    <3>1. PICK i \in Slot : table[i].ip = b /\ table[i].blocked
      BY <2>3
    <3>2. ban'[b] = table[i].until
      BY <3>1, <2>2, <1>4, ObservedBan
    <3>3. ban[b] = table[i].until
      BY <3>1 DEF BanInv, BanKept
    <3> QED BY <3>2, <3>3, <2>1, <2>2
  <2>4. CASE ~\E i \in Slot : table[i].ip = b /\ table[i].blocked
    <3>1. \A i \in Slot : table'[i].ip = b => ~table'[i].blocked
      BY <2>1, <2>2, <2>4
    <3> QED BY <3>1, <1>4, ObservedBan, <2>1, <2>2
  <2> QED BY <2>3, <2>4
<1>8. /\ streak' \in [IP -> Nat]
      /\ \A b \in IP : b # a => streak'[b] <= streak[b]
  BY ObservedStreak
<1>9. ASSUME NEW b \in IP, Tracked(table, b)' = {}
      PROVE  ban'[b] = 0 /\ (RateLimitEnabled => streak'[b] = 0)
  <2>1. b # a
    BY <1>9, <1>1 DEF Tracked
  <2>2. Tracked(table, b) = {}
    BY <1>9, <2>1, <1>7 DEF Tracked
  <2> QED BY <2>1, <2>2, <1>7, <1>8 DEF BanInv
<1>10. ASSUME NEW i \in Slot, table'[i].ip \in IP PROVE BanKept(table[i], table[i].ip)'
  <2>1. CASE i = k
    <3>1. ban'[a] \in Nat /\ streak'[a] \in Nat /\ ban[a] \in Nat
      BY <1>5, <1>8 DEF BanInv
    <3>2. e.blocked => ban'[a] = e.until
      BY <1>6
    <3>3. ~e.blocked => ban'[a] = ban[a]
      BY <1>6
    <3>4. BanKept(e, a)'
      BY <3>1, <3>2, <3>3 DEF BanKept
    <3> QED BY <2>1, <1>1, <3>4
  <2>2. CASE i # k
    <3> DEFINE g == table[i]
               b == table[i].ip
    <3>1. table'[i] = g /\ b \in IP /\ b # a
      BY <2>2, <1>1, <1>3, <1>10
    <3>2. BanKept(g, b) /\ g \in Entry /\ ban[b] \in Nat /\ streak[b] \in Nat
      BY <3>1 DEF BanInv, TypeOK
    <3>3. ban'[b] = ban[b] /\ streak'[b] <= streak[b] /\ streak'[b] \in Nat
      BY <3>1, <1>7, <1>8
    <3>4. g.failures \in Nat /\ MaxAuthFailures \in Nat
      BY <3>2, RateLimitAssumption DEF Entry
    <3>5. /\ g.blocked => RateLimitEnabled /\ ban'[b] = g.until /\ g.until # 0
          /\ ~g.blocked =>
                /\ ban'[b] <= now'
                /\ \A s \in Session : stage'[s] = "checking" => ban'[b] <= sampled'[s]
          /\ RateLimitEnabled => ban'[b] # 0
                \/ (streak'[b] <= g.failures /\ g.failures < MaxAuthFailures)
      <4> HIDE DEF g, b
      <4> QED BY <3>2, <3>3, <3>4 DEF BanKept
    <3> QED BY <3>1, <3>5 DEF BanKept
  <2> QED BY <2>1, <2>2
<1> QED BY <1>4, <1>5, <1>8, <1>9, <1>10 DEF BanInv

(* What a check leaves in the entry that bears on bans: a refused one is   *)
(* as it was, one over the rate is blocked, and an admitted one is not,    *)
(* and has kept its failures unless a block has just ended.                *)
LEMMA CheckedBan ==
    ASSUME NEW g \in Entry, NEW t \in Nat, g.blocked => RateLimitEnabled
    PROVE  LET e == CheckedEntry(g, t)
           IN  /\ Refused(g, t) => e = g
               /\ ~Refused(g, t) /\ OverRate(g, t) =>
                     RateLimitEnabled /\ e.blocked /\ e.until # 0
               /\ Admits(g, t) =>
                     /\ ~e.blocked
                     /\ ~g.blocked => e.failures = g.failures
                     /\ g.blocked => g.until <= t
<1> DEFINE c == Counted(g, t)
<1>1. c \in Entry
  BY CountedType
<1>2. /\ ~c.blocked /\ (~g.blocked => c.failures = g.failures)
  <2>1. CASE RateLimitEnabled
    <3> DEFINE u == Unblocked(g)
               w == Windowed(u, t)
    <3>1. u \in Entry /\ ~u.blocked /\ (~g.blocked => u.failures = g.failures)
      <4>1. CASE g.blocked
        <5>1. u = [g EXCEPT !.blocked = FALSE, !.failures = 0]
          BY <4>1 DEF Unblocked
        <5> HIDE DEF u
        <5> QED BY <4>1, <5>1 DEF Entry
      <4>2. CASE ~g.blocked
        BY <4>2 DEF Unblocked
      <4> QED BY <4>1, <4>2
    <3> HIDE DEF u
    <3>2. w \in Entry /\ w.blocked = u.blocked /\ w.failures = u.failures
      <4>1. CASE t - u.window_start >= RateLimitWindow
        <5>1. w = [u EXCEPT !.window_start = t, !.recent = 0]
          BY <4>1 DEF Windowed
        <5> HIDE DEF w
        <5> QED BY <3>1, <5>1 DEF Entry
      <4>2. CASE ~(t - u.window_start >= RateLimitWindow)
        BY <3>1, <4>2 DEF Windowed
      <4> QED BY <4>1, <4>2
    <3>3. c = [w EXCEPT !.recent = @ + 1]
      BY <2>1 DEF Counted, u
    <3> HIDE DEF w, c
    <3>4. c.blocked = w.blocked /\ c.failures = w.failures
      BY <3>2, <3>3 DEF Entry
    <3> QED BY <3>1, <3>2, <3>4
  <2>2. CASE ~RateLimitEnabled
    BY <2>2 DEF Counted
  <2> QED BY <2>1, <2>2
<1>3. CASE Refused(g, t)
  BY <1>3 DEF CheckedEntry, Admits
<1>4. CASE ~Refused(g, t) /\ OverRate(g, t)
  <2>1. CheckedEntry(g, t) = [c EXCEPT !.blocked = TRUE, !.until = t + BlockDuration]
    BY <1>4 DEF CheckedEntry, Block
  <2>2. t + BlockDuration \in Nat \ {0}
    BY RateLimitAssumption
  <2> DEFINE u == t + BlockDuration
             e == CheckedEntry(g, t)
  <2> HIDE DEF c, u, e
  <2>3. e.blocked = TRUE /\ e.until = u
    BY <1>1, <2>1 DEF Entry, u, e
  <2>4. RateLimitEnabled
    BY <1>4 DEF OverRate
  <2> QED BY <1>4, <2>2, <2>3, <2>4 DEF u, e, Admits
<1>5. CASE ~Refused(g, t) /\ ~OverRate(g, t)
  <2> DEFINE e == CheckedEntry(g, t)
  <2>1. e = [c EXCEPT !.active = @ + 1]
    BY <1>5 DEF CheckedEntry
  <2>2. g.blocked => g.until <= t
    BY <1>5 DEF Refused, Entry
  <2> HIDE DEF c, e
  <2>3. e.blocked = c.blocked /\ e.failures = c.failures
    BY <1>1, <2>1 DEF Entry
  <2> QED BY <1>2, <1>5, <2>2, <2>3 DEF e
<1> QED BY <1>3, <1>4, <1>5 DEF Admits

(* A failed password is counted, and blocks when there are enough.         *)
LEMMA FailedBan ==
    ASSUME NEW g \in Entry, NEW t \in Nat
    PROVE  LET e == FailedEntry(g, t)
           IN  /\ e.blocked => (e.until = g.until /\ g.blocked) \/ e.until # 0
               /\ ~e.blocked => /\ ~g.blocked
                                /\ e.failures = g.failures + 1
                                /\ e.failures < MaxAuthFailures
<1> DEFINE f == [g EXCEPT !.failures = @ + 1]
           e == FailedEntry(g, t)
<1>1. f \in Entry /\ f.failures = g.failures + 1 /\ f.blocked = g.blocked
      /\ f.until = g.until /\ g.failures \in Nat
  BY DEF Entry
<1>2. e = IF f.failures >= MaxAuthFailures THEN Block(f, t) ELSE f
  BY DEF FailedEntry
<1> HIDE DEF f, e
<1>3. CASE f.failures >= MaxAuthFailures
  <2> DEFINE u == t + BlockDuration
  <2>1. u \in Nat \ {0}
    BY RateLimitAssumption
  <2>2. e = [f EXCEPT !.blocked = TRUE, !.until = u]
    BY <1>2, <1>3 DEF Block
  <2> HIDE DEF u
  <2>3. e.blocked = TRUE /\ e.until = u
    BY <1>1, <2>1, <2>2 DEF Entry
  <2> QED BY <2>1, <2>3 DEF e
<1>4. CASE ~(f.failures >= MaxAuthFailures)
  BY <1>1, <1>2, <1>4, RateLimitAssumption DEF e
<1> QED BY <1>3, <1>4

(* A release does not touch them.                                          *)
LEMMA ReleasedBan ==
    ASSUME NEW g \in Entry
    PROVE  LET e == ReleasedEntry(g)
           IN  e.blocked = g.blocked /\ e.until = g.until /\ e.failures = g.failures
<1>1. CASE g.active > 0
  <2> DEFINE e == ReleasedEntry(g)
  <2>1. e = [g EXCEPT !.active = @ - 1]
    BY <1>1 DEF ReleasedEntry
  <2> HIDE DEF e
  <2>2. e.blocked = g.blocked /\ e.until = g.until /\ e.failures = g.failures
    BY <2>1 DEF Entry
  <2> QED BY <2>2 DEF e
<1>2. CASE ~(g.active > 0)
  BY <1>2 DEF ReleasedEntry
<1> QED BY <1>1, <1>2

(* The steps that write the table keep the bans, and let an address in     *)
(* only after its ban.                                                     *)
LEMMA BanCheckIp ==
    ASSUME TypeOK, TypeOK', ClockInv, BanInv, Observe,
           IsFiniteSet(IP), Cardinality(IP) <= MaxTrackedIPs,
           NEW s \in Session, CheckIp(s)
    PROVE  BanInv' /\ (LetIn(s) => sampled[s] >= ban[addr[s]])
<1> DEFINE a == addr[s]
           t == sampled[s]
           g == GetEntry(table, a, now)
           e == CheckedEntry(g, t)
<1>0. a \in IP /\ t \in Nat /\ t <= now /\ now \in Nat /\ stage[s] = "checking"
  BY DEF TypeOK, ClockInv, CheckIp
<1>1. g \in Entry /\ g.ip = a
  BY <1>0, GetEntryType DEF TypeOK
<1>2. BanKept(g, a)
  BY <1>0, EntryKeepsBan
<1>3. /\ table' = Store(table, a, e)
      /\ stage' = [stage EXCEPT ![s] = IF Admits(g, t) THEN "spawning" ELSE "rejected"]
      /\ now' = now /\ sampled' = [sampled EXCEPT ![s] = 0]
  BY DEF CheckIp, Goto, outside
<1>4. e \in Entry /\ e.ip = a
  BY <1>0, <1>1, CheckedEntryType
<1>5. g.blocked => RateLimitEnabled
  BY <1>2 DEF BanKept
<1>6. /\ Refused(g, t) => e = g
      /\ ~Refused(g, t) /\ OverRate(g, t) => RateLimitEnabled /\ e.blocked /\ e.until # 0
      /\ Admits(g, t) => /\ ~e.blocked
                         /\ ~g.blocked => e.failures = g.failures
                         /\ g.blocked => g.until <= t
  BY <1>0, <1>1, <1>5, CheckedBan
<1>7. ban[a] \in Nat /\ streak[a] \in Nat /\ g.failures \in Nat
  BY <1>0, <1>1 DEF BanInv, Entry
<1>8. \A r \in Session : stage'[r] # "checking"
  <2> SUFFICES ASSUME NEW r \in Session, stage'[r] = "checking" PROVE FALSE
    OBVIOUS
  <2>1. r # s /\ stage[r] = "checking"
    BY <1>3 DEF TypeOK
  <2> QED BY <2>1, <1>0 DEF ClockInv, AcceptStages
<1>9. \A r \in Session : ~Failed(r)
  <2> SUFFICES ASSUME NEW r \in Session, Failed(r) PROVE FALSE
    OBVIOUS
  <2>1. stage[r] = "recording" /\ stage'[r] = "polling"
    BY DEF Failed
  <2> QED BY <2>1, <1>0, <1>3 DEF TypeOK
<1>10. streak'[a] <= streak[a] /\ streak'[a] \in Nat
  BY <1>0, <1>9, ObservedStreak
<1>11. Admits(g, t) => ban[a] <= t
  BY <1>0, <1>2, <1>6, <1>7 DEF BanKept
<1>12. /\ e.blocked => RateLimitEnabled /\ e.until # 0
       /\ ~e.blocked => ban[a] <= now
       /\ RateLimitEnabled /\ ~e.blocked /\ ban[a] = 0 =>
             streak'[a] <= e.failures /\ e.failures < MaxAuthFailures
  <2> HIDE DEF a, t, g, e
  <2>1. CASE Refused(g, t)
    <3>1. e = g
      BY <2>1, <1>6
    <3> QED BY <3>1, <1>0, <1>2, <1>7, <1>10, RateLimitAssumption DEF BanKept
  <2>2. CASE ~Refused(g, t) /\ OverRate(g, t)
    BY <2>2, <1>6
  <2>3. CASE Admits(g, t) /\ g.blocked
    <3>1. ban[a] # 0
      BY <2>3, <1>2 DEF BanKept
    <3> QED BY <2>3, <3>1, <1>0, <1>6, <1>7, <1>11
  <2>4. CASE Admits(g, t) /\ ~g.blocked
    <3>1. ~e.blocked /\ e.failures = g.failures
      BY <2>4, <1>6
    <3>2. RateLimitEnabled /\ ban[a] = 0 =>
             streak[a] <= g.failures /\ g.failures < MaxAuthFailures
      BY <1>2 DEF BanKept
    <3> QED BY <2>4, <3>1, <3>2, <1>0, <1>7, <1>10, <1>11
  <2> QED BY <2>1, <2>2, <2>3, <2>4 DEF Admits
<1>13. BanInv'
  <2> HIDE DEF t, g, e
  <2> QED BY <1>0, <1>3, <1>4, <1>8, <1>9, <1>12, BanStored
<1>14. ASSUME LetIn(s) PROVE t >= ban[a]
  <2>1. stage'[s] = "spawning"
    BY <1>14 DEF LetIn
  <2>2. Admits(g, t)
    BY <2>1, <1>3 DEF TypeOK
  <2> QED BY <2>2, <1>0, <1>7, <1>11
<1> QED BY <1>13, <1>14

(* Releasing a connection leaves the bans of its address.                  *)
LEMMA BanReleaseIp ==
    ASSUME TypeOK, TypeOK', ClockInv, BanInv, Observe,
           IsFiniteSet(IP), Cardinality(IP) <= MaxTrackedIPs,
           NEW s \in Session, ReleaseIp(s)
    PROVE  BanInv'
<1> DEFINE a == addr[s]
           g == GetEntry(table, a, now)
           e == ReleasedEntry(g)
<1>0. /\ a \in IP /\ now \in Nat /\ stage[s] \in {"spawn_failed", "failed", "cleanup"}
  BY DEF TypeOK, ClockInv, ReleaseIp
<1>1. g \in Entry /\ g.ip = a
  BY <1>0, GetEntryType DEF TypeOK
<1>2. BanKept(g, a)
  BY <1>0, EntryKeepsBan
<1>3. /\ table' = Store(table, a, e)
      /\ stage' = [stage EXCEPT ![s] = IF stage[s] = "spawn_failed" THEN "rejected"
                                                                    ELSE "released"]
      /\ now' = now /\ sampled' = sampled
  BY DEF ReleaseIp, Goto, outside
<1>4. e \in Entry /\ e.ip = a
  BY <1>1, ReleasedEntryType
<1>5. e.blocked = g.blocked /\ e.until = g.until /\ e.failures = g.failures
  BY <1>1, ReleasedBan
<1>6. ban[a] \in Nat /\ streak[a] \in Nat /\ g.failures \in Nat
  BY <1>0, <1>1 DEF BanInv, Entry
<1>7. \A r \in Session : stage'[r] = "checking" => stage[r] = "checking"
  BY <1>0, <1>3 DEF TypeOK
<1>8. \A r \in Session : ~Failed(r)
  BY <1>0, <1>3 DEF TypeOK, Failed
<1>9. streak'[a] <= streak[a] /\ streak'[a] \in Nat
  BY <1>0, <1>8, ObservedStreak
<1>10. /\ e.blocked => RateLimitEnabled /\ e.until # 0
       /\ ~e.blocked =>
             /\ ban[a] <= now
             /\ \A r \in Session : stage'[r] = "checking" => ban[a] <= sampled[r]
       /\ RateLimitEnabled /\ ~e.blocked /\ ban[a] = 0 =>
             streak'[a] <= e.failures /\ e.failures < MaxAuthFailures
  <2> HIDE DEF a, g, e
  <2> QED BY <1>2, <1>5, <1>6, <1>7, <1>9, RateLimitAssumption DEF BanKept
<1> HIDE DEF g, e
<1> QED BY <1>0, <1>3, <1>4, <1>7, <1>8, <1>10, BanStored

(* A refused password is counted, or blocks.                               *)
LEMMA BanRecordFailure ==
    ASSUME TypeOK, TypeOK', ClockInv, BanInv, Observe,
           IsFiniteSet(IP), Cardinality(IP) <= MaxTrackedIPs,
           NEW s \in Session, RecordAuthFailure(s)
    PROVE  BanInv'
<1> DEFINE a == addr[s]
           t == sampled[s]
           g == GetEntry(table, a, now)
           e == FailedEntry(g, t)
<1>0. a \in IP /\ t \in Nat /\ now \in Nat /\ stage[s] = "recording"
  BY DEF TypeOK, ClockInv, RecordAuthFailure
<1>1. g \in Entry /\ g.ip = a
  BY <1>0, GetEntryType DEF TypeOK
<1>2. BanKept(g, a)
  BY <1>0, EntryKeepsBan
<1>3. /\ RateLimitEnabled => table' = Store(table, a, e)
      /\ ~RateLimitEnabled => table' = table
      /\ stage' = [stage EXCEPT ![s] = "polling"]
      /\ now' = now /\ sampled' = [sampled EXCEPT ![s] = 0]
  BY DEF RecordAuthFailure, Goto, outside
<1>4. \A r \in Session :
         stage'[r] = "checking" => stage[r] = "checking" /\ sampled'[r] = sampled[r]
  BY <1>0, <1>3 DEF TypeOK
<1>5. CASE ~RateLimitEnabled
  BY <1>0, <1>3, <1>4, <1>5, BanQuiet
<1>6. CASE RateLimitEnabled
  <2>1. e \in Entry /\ e.ip = a
    BY <1>0, <1>1, FailedEntryType
  <2>2. /\ e.blocked => (e.until = g.until /\ g.blocked) \/ e.until # 0
        /\ ~e.blocked => /\ ~g.blocked
                         /\ e.failures = g.failures + 1
                         /\ e.failures < MaxAuthFailures
    BY <1>0, <1>1, FailedBan
  <2>3. ban[a] \in Nat /\ streak[a] \in Nat /\ g.failures \in Nat
    BY <1>0, <1>1 DEF BanInv, Entry
  <2>4. \A r \in Session : Failed(r) => addr[r] = a
    BY <1>3 DEF TypeOK, Failed
  <2>5. streak'[a] <= streak[a] + 1 /\ streak'[a] \in Nat
    BY <1>0, ObservedStreak
  <2>6. /\ e.blocked => RateLimitEnabled /\ e.until # 0
        /\ ~e.blocked =>
              /\ ban[a] <= now
              /\ \A r \in Session : stage'[r] = "checking" => ban[a] <= sampled[r]
        /\ RateLimitEnabled /\ ~e.blocked /\ ban[a] = 0 =>
              streak'[a] <= e.failures /\ e.failures < MaxAuthFailures
    <3> HIDE DEF a, t, g, e
    <3>1. ~g.blocked /\ ban[a] = 0 => streak[a] <= g.failures
      BY <1>2, <1>6 DEF BanKept
    <3> QED BY <1>2, <1>4, <1>6, <2>2, <2>3, <2>5, <3>1 DEF BanKept
  <2> HIDE DEF t, g, e
  <2> QED BY <1>0, <1>3, <1>4, <1>6, <2>1, <2>4, <2>6, BanStored
<1> QED BY <1>5, <1>6

(* Every step of the accept loop, of the threads and of the peers keeps    *)
(* the bans, and lets an address in only after its last one.               *)
LEMMA BanStep ==
    ASSUME TypeOK, ClockInv, BanInv, HNext,
           IsFiniteSet(IP), Cardinality(IP) <= MaxTrackedIPs
    PROVE  /\ BanInv'
           /\ \A s \in Session : LetIn(s) => sampled[s] >= ban[addr[s]]
<1>0. Next /\ Observe
  BY DEF HNext
<1>1. TypeOK'
  BY <1>0, TypeStep
<1> DEFINE Q == /\ BanInv'
                /\ \A s \in Session : LetIn(s) => sampled[s] >= ban[addr[s]]
           Quiet == /\ table' = table /\ now <= now'
                    /\ \A s \in Session : ~Failed(s) /\ ~LetIn(s)
                    /\ \A s \in Session : stage'[s] = "checking" =>
                          \/ stage[s] = "checking" /\ sampled'[s] = sampled[s]
                          \/ sampled'[s] = now
<1>2. Quiet => Q
  <2> SUFFICES ASSUME Quiet PROVE BanInv'
    OBVIOUS
  <2> QED BY <1>0, <1>1, BanQuiet
<1>3. ASSUME NEW s \in Session, CheckIp(s) PROVE Q
  <2>1. BanInv' /\ (LetIn(s) => sampled[s] >= ban[addr[s]])
    BY <1>0, <1>1, <1>3, BanCheckIp
  <2>2. \A r \in Session : r # s => ~LetIn(r)
    BY <1>3 DEF TypeOK, CheckIp, LetIn, Goto
  <2> QED BY <2>1, <2>2
<1>4. ASSUME NEW s \in Session, ReleaseIp(s) PROVE Q
  <2>1. BanInv'
    BY <1>0, <1>1, <1>4, BanReleaseIp
  <2>2. \A r \in Session : ~LetIn(r)
    BY <1>4 DEF TypeOK, ReleaseIp, LetIn, Goto
  <2> QED BY <2>1, <2>2
<1>5. ASSUME NEW s \in Session, RecordAuthFailure(s) PROVE Q
  <2>1. BanInv'
    BY <1>0, <1>1, <1>5, BanRecordFailure
  <2>2. \A r \in Session : ~LetIn(r)
    BY <1>5 DEF TypeOK, RecordAuthFailure, LetIn, Goto
  <2> QED BY <2>1, <2>2
<1>6. ASSUME Tick PROVE Q
  <2>1. Quiet
    BY <1>6 DEF TypeOK, Tick, shared, Failed, LetIn
  <2> QED BY <2>1, <1>2
<1>7. ASSUME NEW s \in Session, CheckTotal(s) PROVE Q
  <2>1. CASE total >= MaxConnections
    <3>1. Quiet
      BY <1>7, <2>1 DEF TypeOK, CheckTotal, outside, Failed, LetIn, End, Goto
    <3> QED BY <3>1, <1>2
  <2>2. CASE ~(total >= MaxConnections)
    <3>1. Quiet
      BY <1>7, <2>2 DEF TypeOK, CheckTotal, outside, Failed, LetIn, Goto
    <3> QED BY <3>1, <1>2
  <2> QED BY <2>1, <2>2
<1>8. ASSUME NEW s \in Session, DecrementTotal(s) PROVE Q
  <2>1. Quiet
    BY <1>8 DEF TypeOK, DecrementTotal, outside, Failed, LetIn, End, Goto
  <2> QED BY <2>1, <1>2
<1>9. ASSUME NEW s \in Session,
             \/ Spawn(s) \/ StartBootstrap(s) \/ KeyExchange(s) \/ CreateClient(s)
             \/ PollExit(s) \/ ExecDispatch(s) \/ ReadUsernameFails(s) \/ LeaveLoop(s)
      PROVE  Q
  <2>1. Quiet
    BY <1>9 DEF TypeOK, Spawn, StartBootstrap, KeyExchange, CreateClient, HandshakeStep,
                PollExit, ExecDispatch, ReadUsernameFails, LeaveLoop, shared, outside,
                Failed, LetIn, Goto
  <2> QED BY <2>1, <1>2
<1>10. ASSUME NEW s \in Session, NEW a \in IP, Accept(s, a) PROVE Q
  <2>1. Quiet
    BY <1>10 DEF TypeOK, Accept, shared, outside, Failed, LetIn, Goto
  <2> QED BY <2>1, <1>2
<1>11. ASSUME NEW s \in Session, NEW matches \in BOOLEAN, AuthPassword(s, matches) PROVE Q
  <2>1. CASE PasswordAccepted(s, matches)
    <3>1. Quiet
      BY <1>11, <2>1 DEF TypeOK, AuthPassword, shared, outside, Failed, LetIn
    <3> QED BY <3>1, <1>2
  <2>2. CASE ~PasswordAccepted(s, matches)
    <3>1. Quiet
      BY <1>11, <2>2
         DEF TypeOK, AuthPassword, Authenticating, Connected, shared, outside, Failed,
             LetIn, Goto
    <3> QED BY <3>1, <1>2
  <2> QED BY <2>1, <2>2
<1>12. ASSUME NEW s \in Session,
              \/ AuthWithoutPassword(s)
              \/ ChannelOpen(s) \/ ChannelShell(s) \/ ChannelExec(s)
       PROVE  Q
  <2>1. Quiet
    BY <1>12 DEF TypeOK, AuthWithoutPassword, ChannelOpen, ChannelShell, ChannelExec,
                 ChannelRequest, shared, outside, Failed, LetIn
  <2> QED BY <2>1, <1>2
<1>13. ASSUME NEW s \in Session, RoomAddClient(s) \/ RoomRemoveClient(s) PROVE Q
  <2>1. Quiet
    BY <1>13 DEF TypeOK, RoomAddClient, RoomRemoveClient, outside, Failed, LetIn, Goto
  <2> QED BY <2>1, <1>2
<1> HIDE DEF Q, Quiet
<1>14. ASSUME NEW s \in Session, ThreadStep(s) PROVE Q
  BY <1>3, <1>4, <1>5, <1>7, <1>8, <1>9, <1>13, <1>14 DEF ThreadStep
<1>15. ASSUME NEW s \in Session, PeerStep(s) PROVE Q
  BY <1>9, <1>10, <1>11, <1>12, <1>13, <1>15 DEF PeerStep
<1>16. Q
  BY <1>0, <1>6, <1>14, <1>15 DEF Next
<1> QED BY <1>16 DEF Q

(* Nothing is banned in the beginning, and the bans are kept from then on. *)
LEMMA BanInvariant ==
    ASSUME IsFiniteSet(IP), Cardinality(IP) <= MaxTrackedIPs
    PROVE  HSpec => [](TypeOK /\ ClockInv /\ BanInv)
<1>1. HInit => TypeOK /\ ClockInv /\ BanInv
  <2> SUFFICES ASSUME HInit PROVE TypeOK /\ ClockInv /\ BanInv
    OBVIOUS
  <2>1. TypeOK
    <3>1. EmptyEntry \in Entry
      BY DEF EmptyEntry, Entry
    <3> QED BY <3>1, StagesMember DEF HInit, Init, TypeOK
  <2>2. ClockInv
    BY DEF HInit, Init, ClockInv, AcceptStages
  <2>3. \A i \in Slot : table[i].ip = NoIP
    BY DEF HInit, Init, EmptyEntry
  <2>4. ban = [a \in IP |-> 0] /\ streak = [a \in IP |-> 0]
    BY DEF HInit
  <2>5. BanInv
    BY <2>3, <2>4, RateLimitAssumption DEF BanInv
  <2> QED BY <2>1, <2>2, <2>5
<1>2. TypeOK /\ ClockInv /\ BanInv /\ [HNext]_<<vars, history>>
         => (TypeOK /\ ClockInv /\ BanInv)'
  <2> SUFFICES ASSUME TypeOK, ClockInv, BanInv, [HNext]_<<vars, history>>
               PROVE  (TypeOK /\ ClockInv /\ BanInv)'
    OBVIOUS
  <2>1. CASE HNext
    <3>1. [Next]_vars
      BY <2>1 DEF HNext
    <3> QED BY <2>1, <3>1, TypeStep, ClockStep, BanStep
  <2>2. CASE UNCHANGED <<vars, history>>
    <3>1. [Next]_vars
      BY <2>2
    <3>2. BanInv'
      BY <2>2 DEF vars, shared, outside, history, BanInv, BanKept, Tracked
    <3> QED BY <3>1, <3>2, TypeStep, ClockStep
  <2> QED BY <2>1, <2>2
<1> QED BY <1>1, <1>2, PTL DEF HSpec

(* An address that ratelimit_check_ip or ratelimit_record_auth_failure has *)
(* blocked is not let in again before the block is over (BanHonoured), for *)
(* every number of connections, threads and addresses, if the table has a  *)
(* slot for every address.                                                 *)
THEOREM BansAreHonoured ==
    ASSUME IsFiniteSet(IP), Cardinality(IP) <= MaxTrackedIPs
    PROVE  HSpec => BanHonoured
<1>1. TypeOK /\ ClockInv /\ BanInv /\ [HNext]_<<vars, history>>
         => [\A s \in Session : LetIn(s) => sampled[s] >= ban[addr[s]]]_<<vars, history>>
  BY BanStep
<1> QED BY <1>1, BanInvariant, PTL DEF HSpec, BanHonoured

(* MaxAuthFailures wrong passwords in a row have led to a block, spread    *)
(* over however many connections of the address, for the same tables, with *)
(* rate limits enabled (TNT_RATE_LIMIT).                                   *)
THEOREM FailuresAlwaysBan ==
    ASSUME IsFiniteSet(IP), Cardinality(IP) <= MaxTrackedIPs, RateLimitEnabled
    PROVE  HSpec => []FailuresBan
<1>1. TypeOK /\ BanInv => FailuresBan
  <2> SUFFICES ASSUME TypeOK, BanInv, NEW a \in IP, streak[a] >= MaxAuthFailures
               PROVE  ban[a] # 0
    BY DEF FailuresBan
  <2>1. streak[a] \in Nat /\ MaxAuthFailures \in Nat \ {0}
    BY RateLimitAssumption DEF BanInv
  <2>2. Tracked(table, a) # {}
    BY <2>1 DEF BanInv
  <2>3. PICK i \in Slot : table[i].ip = a
    BY <2>2 DEF Tracked
  <2>4. BanKept(table[i], a) /\ table[i].failures \in Nat
    BY <2>3 DEF BanInv, TypeOK, Entry
  <2> QED BY <2>1, <2>4 DEF BanKept
<1> QED BY <1>1, BanInvariant, PTL

-----------------------------------------------------------------------------
(* Rates, for a table with a slot for every address.                       *)

(* The arrivals that are counted are those of the step.                    *)
LEMMA NoArrival ==
    ASSUME RateInv, Observe, \A s \in Session : ~LetIn(s)
    PROVE  arrivals' = arrivals
<1>1. ASSUME NEW a \in IP, NEW t \in 0 .. MaxTime
      PROVE  Cardinality({s \in Session : addr[s] = a /\ LetIn(s) /\ sampled[s] <= t}) = 0
  <2>1. {s \in Session : addr[s] = a /\ LetIn(s) /\ sampled[s] <= t} = {}
    OBVIOUS
  <2> QED BY <2>1, FS_EmptySet
<1>2. ASSUME NEW a \in IP, NEW t \in 0 .. MaxTime
      PROVE  arrivals[a][t] + 0 = arrivals[a][t]
  <2>1. arrivals \in [IP -> [0 .. MaxTime -> Nat]]
    BY DEF RateInv
  <2>2. arrivals[a][t] \in Nat
    BY <2>1
  <2> QED BY <2>2
<1>3. arrivals' = [a \in IP |-> [t \in 0 .. MaxTime |-> arrivals[a][t]]]
  BY <1>1, <1>2 DEF Observe
<1> QED BY <1>3 DEF RateInv

(* One connection that is let in counts for its address, from its clock on.*)
LEMMA OneArrival ==
    ASSUME RateInv, Observe, NEW s \in Session, LetIn(s), sampled[s] \in Nat,
           \A r \in Session : LetIn(r) => r = s
    PROVE  /\ arrivals' \in [IP -> [0 .. MaxTime -> Nat]]
           /\ \A a \in IP : a # addr[s] => arrivals'[a] = arrivals[a]
           /\ \A a \in IP : a = addr[s] =>
                \A t \in 0 .. MaxTime :
                   arrivals'[a][t] = IF sampled[s] <= t THEN arrivals[a][t] + 1
                                                        ELSE arrivals[a][t]
<1> DEFINE A(a, t) == {r \in Session : addr[r] = a /\ LetIn(r) /\ sampled[r] <= t}
<1>1. ASSUME NEW a \in IP, NEW t \in 0 .. MaxTime
      PROVE  Cardinality(A(a, t)) = IF addr[s] = a /\ sampled[s] <= t THEN 1 ELSE 0
  <2>1. CASE addr[s] = a /\ sampled[s] <= t
    <3>1. A(a, t) = {s}
      BY <2>1
    <3> HIDE DEF A
    <3> QED BY <2>1, <3>1, FS_Singleton
  <2>2. CASE ~(addr[s] = a /\ sampled[s] <= t)
    <3>1. A(a, t) = {}
      BY <2>2
    <3> HIDE DEF A
    <3> QED BY <2>2, <3>1, FS_EmptySet
  <2> QED BY <2>1, <2>2
<1>2. arrivals' = [a \in IP |-> [t \in 0 .. MaxTime |->
                      arrivals[a][t] + Cardinality(A(a, t))]]
  BY DEF Observe
<1> HIDE DEF A
<1>3. ASSUME NEW a \in IP, NEW t \in 0 .. MaxTime
      PROVE  /\ arrivals[a][t] \in Nat
             /\ arrivals'[a][t] = arrivals[a][t] + Cardinality(A(a, t))
             /\ arrivals[a][t] + Cardinality(A(a, t)) \in Nat
  <2>1. arrivals \in [IP -> [0 .. MaxTime -> Nat]]
    BY DEF RateInv
  <2>2. arrivals[a][t] \in Nat
    BY <2>1
  <2>3. Cardinality(A(a, t)) \in {0, 1}
    BY <1>1
  <2>4. arrivals'[a][t] = arrivals[a][t] + Cardinality(A(a, t))
    BY <1>2
  <2> QED BY <2>2, <2>3, <2>4
<1>4. arrivals' \in [IP -> [0 .. MaxTime -> Nat]]
  BY <1>2, <1>3
<1>5. ASSUME NEW a \in IP, a # addr[s] PROVE arrivals'[a] = arrivals[a]
  <2>1. \A t \in 0 .. MaxTime : arrivals'[a][t] = arrivals[a][t]
    BY <1>1, <1>3, <1>5
  <2>2. arrivals \in [IP -> [0 .. MaxTime -> Nat]]
    BY DEF RateInv
  <2>3. arrivals'[a] \in [0 .. MaxTime -> Nat] /\ arrivals[a] \in [0 .. MaxTime -> Nat]
    BY <1>4, <2>2
  <2>4. /\ arrivals'[a] = [t \in 0 .. MaxTime |-> arrivals'[a][t]]
        /\ arrivals[a] = [t \in 0 .. MaxTime |-> arrivals[a][t]]
    BY <2>3
  <2> QED BY <2>1, <2>4
<1>6. ASSUME NEW a \in IP, a = addr[s], NEW t \in 0 .. MaxTime
      PROVE  arrivals'[a][t] = IF sampled[s] <= t THEN arrivals[a][t] + 1
                                                  ELSE arrivals[a][t]
  <2>1. CASE sampled[s] <= t
    BY <2>1, <1>1, <1>3, <1>6
  <2>2. CASE ~(sampled[s] <= t)
    BY <2>2, <1>1, <1>3, <1>6
  <2> QED BY <2>1, <2>2
<1> QED BY <1>4, <1>5, <1>6

(* What an entry keeps of the arrivals depends on little of it; and later  *)
(* clocks change nothing.                                                  *)
LEMMA RateKeptStep ==
    ASSUME TypeOK, TypeOK', NEW a \in IP, NEW g \in Entry, NEW e \in Entry,
           RateKept(g, a), e.recent >= g.recent, e.window_start = g.window_start,
           arrivals'[a] = arrivals[a], g.window_start \in 0 .. MaxTime,
           arrivals[a] \in [0 .. MaxTime -> Nat], now <= now',
           \A s \in Session : stage'[s] = "checking" =>
               \/ stage[s] = "checking" /\ sampled'[s] = sampled[s]
               \/ sampled'[s] = now
    PROVE  RateKept(e, a)'
<1> DEFINE N == MaxConnRatePerIp
           w == g.window_start
           m == IF g.recent < N THEN g.recent ELSE N
           n == IF e.recent < N THEN e.recent ELSE N
<1>1. /\ w \in Nat /\ now \in Nat /\ now' \in Nat /\ N \in Nat /\ MaxTime \in Nat
      /\ g.recent \in Nat /\ e.recent \in Nat /\ RateLimitWindow \in Nat
  BY RateLimitAssumption, AdmissionAssumption DEF TypeOK, Entry
<1>2. e.recent >= 1 /\ e.window_start <= now'
  BY <1>1, SMTT(30) DEF RateKept
<1>3. ASSUME NEW s \in Session, stage'[s] = "checking"
      PROVE  e.window_start <= sampled'[s]
  BY <1>3 DEF RateKept
<1>4. /\ arrivals[a][MaxTime] - arrivals[a][w] <= m - 1
      /\ arrivals[a][MaxTime] - ArrivedBy(a, w - RateLimitWindow) <= N - 1 + m
  BY DEF RateKept
<1>5. m <= n /\ m \in Nat /\ n \in Nat
  BY <1>1
<1>6. arrivals[a][MaxTime] \in Nat /\ arrivals[a][w] \in Nat
  BY <1>1
<1>7. ArrivedBy(a, w - RateLimitWindow) \in Nat
  BY <1>1 DEF ArrivedBy
<1>8. ArrivedBy(a, w - RateLimitWindow)' = ArrivedBy(a, w - RateLimitWindow)
  BY DEF ArrivedBy
<1>9. /\ arrivals[a][MaxTime] - arrivals[a][w] <= n - 1
      /\ arrivals[a][MaxTime] - ArrivedBy(a, w - RateLimitWindow) <= N - 1 + n
  <2>1. ASSUME NEW x \in Nat, NEW y \in Nat, NEW c \in Nat, NEW d \in Nat, c <= d
        PROVE  /\ x - y <= c - 1 => x - y <= d - 1
               /\ x - y <= N - 1 + c => x - y <= N - 1 + d
    BY <1>1, <2>1
  <2> HIDE DEF m, n, N
  <2> QED BY <1>4, <1>5, <1>6, <1>7, <2>1
<1>10. /\ arrivals'[a][MaxTime] - arrivals'[a][e.window_start] <= n - 1
       /\ arrivals'[a][MaxTime] - ArrivedBy(a, e.window_start - RateLimitWindow)'
             <= N - 1 + n
  BY <1>8, <1>9
<1>11. n = (IF e.recent < MaxConnRatePerIp THEN e.recent ELSE MaxConnRatePerIp)
  OBVIOUS
<1> HIDE DEF n
<1> QED BY <1>2, <1>3, <1>10, <1>11 DEF RateKept

(* A window begins at a time that the arrivals are counted at.             *)
LEMMA TrackedWindow ==
    ASSUME TypeOK, RateInv, NEW a \in IP, NEW g \in Entry, RateKept(g, a)
    PROVE  /\ g.window_start \in 0 .. MaxTime /\ g.recent \in Nat
           /\ g.recent >= g.recent
<1>1. g.window_start \in Nat /\ g.recent \in Nat /\ now \in Nat /\ MaxTime \in Nat
  BY AdmissionAssumption DEF TypeOK, Entry
<1>2. g.window_start <= now /\ now <= MaxTime
  BY DEF RateKept, RateInv
<1> QED BY <1>1, <1>2

(* A step that lets nobody in and leaves the table alone keeps the rates.  *)
LEMMA RateQuiet ==
    ASSUME TypeOK, TypeOK', RateInv, Observe, table' = table, now <= now', now' <= MaxTime,
           \A s \in Session : ~LetIn(s),
           \A s \in Session : stage'[s] = "checking" =>
               \/ stage[s] = "checking" /\ sampled'[s] = sampled[s]
               \/ sampled'[s] = now,
           \A s \in Holding' : s \in Holding /\ addr'[s] = addr[s]
    PROVE  RateInv'
<1>1. arrivals' = arrivals
  BY NoArrival
<1>2. /\ now \in Nat /\ now' \in Nat /\ MaxTime \in Nat
      /\ arrivals \in [IP -> [0 .. MaxTime -> Nat]]
      /\ \A a \in IP : \A t, u \in 0 .. MaxTime : t <= u => arrivals[a][t] <= arrivals[a][u]
      /\ \A a \in IP : arrivals[a][now] = arrivals[a][MaxTime]
  BY AdmissionAssumption DEF TypeOK, RateInv
<1>3. ASSUME NEW a \in IP PROVE arrivals[a][now'] = arrivals[a][MaxTime]
  <2>1. now \in 0 .. MaxTime /\ now' \in 0 .. MaxTime /\ MaxTime \in 0 .. MaxTime
    BY <1>2 DEF RateInv
  <2>2. /\ arrivals[a][now] <= arrivals[a][now'] /\ arrivals[a][now'] <= arrivals[a][MaxTime]
        /\ arrivals[a][now] = arrivals[a][MaxTime]
    BY <1>2, <2>1
  <2>3. arrivals[a] \in [0 .. MaxTime -> Nat]
    BY <1>2
  <2>4. arrivals[a][now] \in Nat /\ arrivals[a][now'] \in Nat /\ arrivals[a][MaxTime] \in Nat
    BY <2>1, <2>3
  <2> QED BY <2>2, <2>4
<1>4. ASSUME NEW a \in IP, NEW s \in Session, stage'[s] = "checking"
      PROVE  arrivals[a][sampled'[s]] = arrivals[a][MaxTime]
  BY <1>2, <1>4 DEF RateInv
<1>5. ASSUME NEW s \in Holding' PROVE Tracked(table, addr[s])' # {}
  <2>1. s \in Holding /\ addr'[s] = addr[s]
    BY <1>5
  <2>2. Tracked(table, addr[s]) # {}
    BY <2>1 DEF RateInv
  <2> QED BY <2>1, <2>2 DEF Tracked
<1>6. ASSUME NEW a \in IP, Tracked(table, a)' = {} PROVE arrivals[a][MaxTime] = 0
  BY <1>6 DEF RateInv, Tracked
<1>7. ASSUME NEW i \in Slot, table[i].ip \in IP PROVE RateKept(table[i], table[i].ip)'
  <2>1. RateKept(table[i], table[i].ip) /\ table[i] \in Entry
    BY <1>7 DEF RateInv, TypeOK
  <2>2. PICK e \in Entry : e = table[i]
    BY <2>1
  <2>3. RateKept(e, e.ip) /\ e.ip \in IP
    BY <2>1, <2>2, <1>7
  <2>4. e.window_start \in 0 .. MaxTime /\ e.recent >= e.recent
    BY <1>2, <2>3, TrackedWindow
  <2>5. RateKept(e, e.ip)'
    BY <1>1, <1>2, <2>3, <2>4, RateKeptStep
  <2> QED BY <2>2, <2>5
<1>8. BurstBounded'
  BY <1>1 DEF RateInv, BurstBounded, RecentArrivals, ArrivedBy
<1> QED BY <1>1, <1>2, <1>3, <1>4, <1>5, <1>6, <1>7, <1>8 DEF RateInv

(* So does one that writes an entry and leaves its window.                 *)
LEMMA RateStored ==
    ASSUME TypeOK, TypeOK', BanInv, RateInv, Observe, now' = now,
           IsFiniteSet(IP), Cardinality(IP) <= MaxTrackedIPs,
           NEW a \in IP, NEW e \in Entry, e.ip = a, table' = Store(table, a, e),
           Tracked(table, a) # {},
           e.recent >= GetEntry(table, a, now).recent,
           e.window_start = GetEntry(table, a, now).window_start,
           \A s \in Session : ~LetIn(s),
           \A s \in Session : stage'[s] = "checking" =>
               stage[s] = "checking" /\ sampled'[s] = sampled[s],
           \A s \in Holding' : s \in Holding /\ addr'[s] = addr[s]
    PROVE  RateInv'
<1>0. PICK k \in Slot :
         /\ table'[k] = e /\ table[k].ip \in {a, NoIP}
         /\ \A i \in Slot : i # k => table'[i] = table[i] /\ table[i].ip # a
         /\ table[k] = GetEntry(table, a, now)
  BY StoredSlot
<1>1. arrivals' = arrivals
  BY NoArrival
<1>2. table[k].ip = a
  BY <1>0 DEF Tracked
<1>3. \A i \in Slot : table'[i].ip = table[i].ip
  BY <1>0, <1>2
<1>4. \A b : Tracked(table, b)' = Tracked(table, b)
  BY <1>3 DEF Tracked
<1>5. ASSUME NEW s \in Holding' PROVE Tracked(table, addr[s])' # {}
  <2>1. s \in Holding /\ addr'[s] = addr[s]
    BY <1>5
  <2>2. Tracked(table, addr[s]) # {}
    BY <2>1 DEF RateInv
  <2> QED BY <2>1, <2>2, <1>3 DEF Tracked
<1>6. ASSUME NEW b \in IP, Tracked(table, b)' = {} PROVE arrivals[b][MaxTime] = 0
  BY <1>4, <1>6 DEF RateInv
<1>7. ASSUME NEW i \in Slot, table'[i].ip \in IP PROVE RateKept(table[i], table[i].ip)'
  <2>0. table[i] \in Entry /\ table'[i] \in Entry
    BY DEF TypeOK
  <2>1. PICK g \in Entry, f \in Entry : g = table[i] /\ f = table'[i]
    BY <2>0
  <2>2. f.recent >= g.recent /\ f.window_start = g.window_start /\ f.ip = g.ip
    <3>1. g.recent >= g.recent
      BY DEF Entry
    <3> QED BY <1>0, <1>3, <2>1, <3>1
  <2>3. RateKept(g, g.ip) /\ g.ip \in IP
    BY <1>3, <1>7, <2>1 DEF RateInv
  <2>4. g.window_start \in 0 .. MaxTime /\ arrivals[g.ip] \in [0 .. MaxTime -> Nat]
    BY <2>3, TrackedWindow DEF RateInv
  <2>5. now <= now' /\ arrivals'[g.ip] = arrivals[g.ip]
    BY <1>1 DEF TypeOK
  <2>6. RateKept(f, g.ip)'
    BY <2>2, <2>3, <2>4, <2>5, RateKeptStep
  <2> QED BY <2>1, <2>2, <2>6
<1>8. BurstBounded'
  BY <1>1 DEF RateInv, BurstBounded, RecentArrivals, ArrivedBy
<1>9. \A b \in IP, s \in Session :
         stage'[s] = "checking" => arrivals[b][sampled'[s]] = arrivals[b][MaxTime]
  BY DEF RateInv
<1>10. /\ now' <= MaxTime
       /\ arrivals' \in [IP -> [0 .. MaxTime -> Nat]]
       /\ \A b \in IP : \A t, u \in 0 .. MaxTime :
             t <= u => arrivals'[b][t] <= arrivals'[b][u]
       /\ \A b \in IP : arrivals'[b][now'] = arrivals'[b][MaxTime]
  BY <1>1 DEF RateInv
<1> QED BY <1>1, <1>5, <1>6, <1>7, <1>8, <1>9, <1>10 DEF RateInv

(* Counts of what happened by each tick, one of which may be before the    *)
(* first.                                                                  *)
CountBy(F, t) == IF t < 0 THEN 0 ELSE F[t]

(* They grow with time.                                                    *)
LEMMA CountGrows ==
    ASSUME NEW M \in Nat, NEW F \in [0 .. M -> Nat],
           \A t, u \in 0 .. M : t <= u => F[t] <= F[u],
           NEW x \in Int, NEW y \in Int, x <= y, y <= M
    PROVE  /\ CountBy(F, x) \in Nat /\ CountBy(F, y) \in Nat
           /\ CountBy(F, x) <= CountBy(F, y) /\ CountBy(F, y) <= F[M] /\ F[M] \in Nat
<1>1. CASE x < 0 /\ y < 0
  BY <1>1 DEF CountBy
<1>2. CASE x < 0 /\ ~(y < 0)
  <2>1. y \in 0 .. M /\ M \in 0 .. M
    BY <1>2
  <2>2. F[y] \in Nat /\ F[M] \in Nat /\ F[y] <= F[M]
    BY <2>1
  <2> QED BY <1>2, <2>2 DEF CountBy
<1>3. CASE ~(x < 0) /\ ~(y < 0)
  <2>1. x \in 0 .. M /\ y \in 0 .. M /\ M \in 0 .. M
    BY <1>3
  <2>2. F[x] \in Nat /\ F[y] \in Nat /\ F[M] \in Nat /\ F[x] <= F[y] /\ F[y] <= F[M]
    BY <2>1
  <2> QED BY <1>3, <2>2 DEF CountBy
<1> QED BY <1>1, <1>2, <1>3

(* One more at the tick t, the last one so far, makes no window larger     *)
(* than 2N - 1 if the window that ends at t has at most 2N - 2.            *)
LEMMA BurstGrows ==
    ASSUME NEW M \in Nat, NEW F \in [0 .. M -> Nat], NEW G \in [0 .. M -> Nat],
           \A t, u \in 0 .. M : t <= u => F[t] <= F[u],
           NEW t \in 0 .. M, NEW N \in Nat \ {0}, NEW W \in Nat \ {0},
           \A x \in 0 .. M : G[x] = IF t <= x THEN F[x] + 1 ELSE F[x],
           F[M] - CountBy(F, t - W) <= 2 * N - 2,
           \A x \in 0 .. M : CountBy(F, x) - CountBy(F, x - W) <= 2 * N - 1
    PROVE  \A x \in 0 .. M : CountBy(G, x) - CountBy(G, x - W) <= 2 * N - 1
<1> SUFFICES ASSUME NEW x \in 0 .. M
             PROVE  CountBy(G, x) - CountBy(G, x - W) <= 2 * N - 1
  OBVIOUS
<1>1. /\ CountBy(F, x) = F[x] /\ CountBy(G, x) = G[x]
      /\ F[x] \in Nat /\ x - W \in Int /\ x - W <= x
  BY DEF CountBy
<1>2. CountBy(F, x - W) \in Nat /\ F[x] <= F[M] /\ F[M] \in Nat
  <2>1. x \in Int /\ x - W \in Int /\ x - W <= x /\ x <= M
    OBVIOUS
  <2>2. CountBy(F, x - W) \in Nat /\ CountBy(F, x) <= F[M] /\ F[M] \in Nat
    BY <2>1, CountGrows
  <2> QED BY <1>1, <2>2
<1>3. F[x] - CountBy(F, x - W) <= 2 * N - 1
  BY <1>1
<1>4. CASE ~(t <= x)
  <2>1. G[x] = F[x]
    BY <1>4
  <2>2. CountBy(G, x - W) = CountBy(F, x - W)
    <3>1. CASE x - W < 0
      BY <3>1 DEF CountBy
    <3>2. CASE ~(x - W < 0)
      <4>1. x - W \in 0 .. M /\ ~(t <= x - W)
        BY <1>4, <3>2
      <4> QED BY <3>2, <4>1 DEF CountBy
    <3> QED BY <3>1, <3>2
  <2> QED BY <1>1, <1>3, <2>1, <2>2
<1>5. CASE t <= x - W
  <2>1. x - W \in 0 .. M /\ t <= x /\ ~(x - W < 0)
    BY <1>5
  <2>2. G[x] = F[x] + 1 /\ G[x - W] = F[x - W] + 1 /\ F[x - W] \in Nat
    BY <2>1, <1>5
  <2>3. CountBy(G, x - W) = CountBy(F, x - W) + 1
    BY <2>1, <2>2 DEF CountBy
  <2> QED BY <1>1, <1>2, <1>3, <2>2, <2>3
<1>6. CASE t <= x /\ ~(t <= x - W)
  <2>1. G[x] = F[x] + 1
    BY <1>6
  <2>2. CountBy(G, x - W) = CountBy(F, x - W)
    <3>1. CASE x - W < 0
      BY <3>1 DEF CountBy
    <3>2. CASE ~(x - W < 0)
      <4>1. x - W \in 0 .. M
        BY <3>2
      <4> QED BY <1>6, <3>2, <4>1 DEF CountBy
    <3> QED BY <3>1, <3>2
  <2>3. t - W \in Int /\ t - W <= x - W /\ x - W <= M
    BY <1>6
  <2>4. x - W \in Int
    OBVIOUS
  <2>5. CountBy(F, t - W) \in Nat /\ CountBy(F, t - W) <= CountBy(F, x - W)
    BY <2>3, <2>4, CountGrows
  <2>6. ASSUME NEW m \in Nat, NEW p \in Nat, NEW q \in Nat, NEW k \in Nat,
               k <= m, m - p <= 2 * N - 2, p <= q
        PROVE  k + 1 - q <= 2 * N - 1
    BY <2>6
  <2>7. F[x] + 1 - CountBy(F, x - W) <= 2 * N - 1
    BY <1>1, <1>2, <2>5, <2>6
  <2>8. CountBy(G, x) = F[x] + 1
    BY <1>1, <2>1
  <2> QED BY <1>1, <1>2, <2>2, <2>7, <2>8
<1> QED BY <1>4, <1>5, <1>6

(* The same for the two bounds of an entry's window that begins at w and   *)
(* has admitted n.                                                         *)
LEMMA WindowGrows ==
    ASSUME NEW M \in Nat, NEW F \in [0 .. M -> Nat], NEW G \in [0 .. M -> Nat],
           \A t, u \in 0 .. M : t <= u => F[t] <= F[u],
           NEW t \in 0 .. M, NEW N \in Nat \ {0}, NEW W \in Nat \ {0},
           \A x \in 0 .. M : G[x] = IF t <= x THEN F[x] + 1 ELSE F[x],
           NEW w \in 0 .. M, NEW n \in Nat,
           \/ F[M] - F[w] <= n - 1
           \/ t <= w /\ F[M] - F[w] <= n,
           F[M] - CountBy(F, w - W) <= N - 1 + n
    PROVE  /\ G[M] - G[w] <= n
           /\ G[M] - CountBy(G, w - W) <= N - 1 + (n + 1)
<1>1. M \in 0 .. M /\ t <= M /\ w - W \in Int /\ w - W <= w
  OBVIOUS
<1>2. G[M] = F[M] + 1 /\ F[M] \in Nat /\ F[w] \in Nat
  BY <1>1
<1>3. G[w] = (IF t <= w THEN F[w] + 1 ELSE F[w])
  OBVIOUS
<1>4. G[M] - G[w] <= n
  BY <1>2, <1>3, SMTT(30)
<1>5. CountBy(G, w - W) >= CountBy(F, w - W) /\ CountBy(F, w - W) \in Nat
      /\ CountBy(G, w - W) \in Nat
  <2>1. CASE w - W < 0
    BY <2>1 DEF CountBy
  <2>2. CASE ~(w - W < 0)
    <3>1. w - W \in 0 .. M
      BY <2>2
    <3>2. F[w - W] \in Nat /\ G[w - W] \in Nat /\ G[w - W] >= F[w - W]
      BY <3>1, SMTT(30)
    <3> QED BY <2>2, <3>2 DEF CountBy
  <2> QED BY <2>1, <2>2
<1> QED BY <1>2, <1>4, <1>5, SMTT(30)

(* What a check makes of the window of an entry, where rates are limited.  *)
LEMMA CheckedRate ==
    ASSUME NEW g \in Entry, NEW t \in Nat, RateLimitEnabled
    PROVE  LET e == CheckedEntry(g, t)
               over == t - g.window_start >= RateLimitWindow
           IN  /\ ~Admits(g, t) => e.recent >= g.recent /\ e.window_start = g.window_start
               /\ Admits(g, t) /\ over => e.recent = 1 /\ e.window_start = t
               /\ Admits(g, t) /\ ~over =>
                     /\ e.recent = g.recent + 1 /\ e.recent <= MaxConnRatePerIp
                     /\ e.window_start = g.window_start
               /\ g.active = 0 /\ ~g.blocked /\ g.recent = 0 => Admits(g, t)
<1> DEFINE c == Counted(g, t)
           u == Unblocked(g)
           w == Windowed(u, t)
           e == CheckedEntry(g, t)
           N == MaxConnRatePerIp
<1>1. /\ u \in Entry /\ u.recent = g.recent /\ u.window_start = g.window_start
  <2>1. CASE g.blocked
    <3>1. u = [g EXCEPT !.blocked = FALSE, !.failures = 0]
      BY <2>1 DEF Unblocked
    <3> HIDE DEF u
    <3> QED BY <3>1 DEF Entry
  <2>2. CASE ~g.blocked
    BY <2>2 DEF Unblocked
  <2> QED BY <2>1, <2>2
<1> HIDE DEF u
<1>2. /\ w \in Entry
      /\ t - g.window_start >= RateLimitWindow => w.recent = 0 /\ w.window_start = t
      /\ ~(t - g.window_start >= RateLimitWindow)
            => w.recent = g.recent /\ w.window_start = g.window_start
  <2>1. CASE t - u.window_start >= RateLimitWindow
    <3>1. w = [u EXCEPT !.window_start = t, !.recent = 0]
      BY <2>1 DEF Windowed
    <3> HIDE DEF w
    <3>2. w \in Entry /\ w.recent = 0 /\ w.window_start = t
      BY <1>1, <3>1 DEF Entry
    <3> QED BY <1>1, <2>1, <3>2
  <2>2. CASE ~(t - u.window_start >= RateLimitWindow)
    BY <1>1, <2>2 DEF Windowed
  <2> QED BY <2>1, <2>2
<1>3. c = [w EXCEPT !.recent = @ + 1]
  BY DEF Counted, u
<1> HIDE DEF w, c
<1>4. c \in Entry /\ c.recent = w.recent + 1 /\ c.window_start = w.window_start
  BY <1>2, <1>3 DEF Entry
<1>5. N \in Nat \ {0} /\ g.recent \in Nat /\ g.active \in Nat /\ MaxConnPerIp \in Nat \ {0}
  BY RateLimitAssumption DEF Entry
<1>6. OverRate(g, t) <=> c.recent > N
  BY DEF OverRate, c
<1>7. CASE Refused(g, t)
  <2>1. ~Admits(g, t) /\ e = g
    BY <1>7 DEF Admits, CheckedEntry
  <2>2. ~(g.active = 0 /\ ~g.blocked)
    BY <1>5, <1>7 DEF Refused
  <2> HIDE DEF e
  <2>3. e.recent >= g.recent /\ e.window_start = g.window_start
    BY <2>1, <1>5
  <2> QED BY <2>1, <2>2, <2>3 DEF e
<1>8. CASE ~Refused(g, t) /\ OverRate(g, t)
  <2>1. ~Admits(g, t) /\ e = Block(c, t)
    BY <1>8 DEF Admits, CheckedEntry, c
  <2>2. e = [c EXCEPT !.blocked = TRUE, !.until = t + BlockDuration]
    BY <2>1 DEF Block
  <2> HIDE DEF e
  <2>3. e.recent = c.recent /\ e.window_start = c.window_start
    BY <1>4, <2>2 DEF Entry
  <2>4. c.recent > N
    BY <1>6, <1>8
  <2>5. ~(t - g.window_start >= RateLimitWindow) /\ g.recent # 0
    BY <1>2, <1>4, <1>5, <2>4
  <2>6. e.recent >= g.recent /\ e.window_start = g.window_start
    BY <1>2, <1>4, <1>5, <2>3, <2>5
  <2> QED BY <2>1, <2>5, <2>6 DEF e
<1>9. CASE ~Refused(g, t) /\ ~OverRate(g, t)
  <2>1. Admits(g, t) /\ e = [c EXCEPT !.active = @ + 1]
    BY <1>9 DEF Admits, CheckedEntry, c
  <2> HIDE DEF e
  <2>2. e.recent = c.recent /\ e.window_start = c.window_start
    BY <1>4, <2>1 DEF Entry
  <2>3. c.recent <= N
    BY <1>2, <1>4, <1>5, <1>6, <1>9 DEF Entry
  <2>4. CASE t - g.window_start >= RateLimitWindow
    BY <1>2, <1>4, <2>1, <2>2, <2>4 DEF e
  <2>5. CASE ~(t - g.window_start >= RateLimitWindow)
    BY <1>2, <1>4, <2>1, <2>2, <2>3, <2>5 DEF e
  <2> QED BY <2>4, <2>5
<1> QED BY <1>7, <1>8, <1>9

(* A check that refuses keeps the rates.                                   *)
LEMMA RateRefused ==
    ASSUME TypeOK, TypeOK', ClockInv, BanInv, RateInv, Observe, RateLimitEnabled,
           IsFiniteSet(IP), Cardinality(IP) <= MaxTrackedIPs,
           NEW s \in Session, CheckIp(s), ~Admits(GetEntry(table, addr[s], now), sampled[s])
    PROVE  RateInv'
<1> DEFINE a == addr[s]
           t == sampled[s]
           g == GetEntry(table, a, now)
           e == CheckedEntry(g, t)
<1>0. a \in IP /\ t \in Nat /\ now \in Nat /\ stage[s] = "checking"
  BY DEF TypeOK, ClockInv, CheckIp
<1>1. g \in Entry /\ g.ip = a
  BY <1>0, GetEntryType DEF TypeOK
<1>2. /\ table' = Store(table, a, e) /\ stage' = [stage EXCEPT ![s] = "rejected"]
      /\ now' = now /\ addr' = addr /\ sampled' = [sampled EXCEPT ![s] = 0]
  BY DEF CheckIp, Goto, outside
<1>3. e \in Entry /\ e.ip = a
  BY <1>0, <1>1, CheckedEntryType
<1>4. /\ e.recent >= g.recent /\ e.window_start = g.window_start
      /\ ~(g.active = 0 /\ ~g.blocked /\ g.recent = 0)
  BY <1>0, <1>1, CheckedRate
<1>5. Tracked(table, a) # {}
  <2> SUFFICES ASSUME Tracked(table, a) = {} PROVE FALSE
    OBVIOUS
  <2>1. g = FreshEntry(a, now)
    BY DEF GetEntry
  <2>2. g.active = 0 /\ g.blocked = FALSE /\ g.recent = 0
    BY <2>1 DEF FreshEntry, EmptyEntry
  <2> QED BY <2>2, <1>4
<1>6. \A r \in Session : ~LetIn(r)
  BY <1>2 DEF TypeOK, LetIn
<1>7. \A r \in Session :
         stage'[r] = "checking" => stage[r] = "checking" /\ sampled'[r] = sampled[r]
  BY <1>2 DEF TypeOK
<1>8. \A r \in Holding' : r \in Holding /\ addr'[r] = addr[r]
  BY <1>2 DEF TypeOK, Holding
<1> HIDE DEF t, e
<1> QED BY <1>0, <1>2, <1>3, <1>4, <1>5, <1>6, <1>7, <1>8, RateStored

(* What an admitted connection of a makes of the counts of a, and of its   *)
(* entry: the window of a fresh entry begins now, that of an old one with  *)
(* this connection, and any other goes on.                                 *)
LEMMA RateAdmitted ==
    ASSUME TypeOK, BanInv, RateInv, RateLimitEnabled,
           NEW a \in IP, NEW s \in Session, stage[s] = "checking", sampled[s] <= now,
           Admits(GetEntry(table, a, now), sampled[s]),
           NEW G \in [0 .. MaxTime -> Nat],
           \A x \in 0 .. MaxTime :
              G[x] = IF sampled[s] <= x THEN arrivals[a][x] + 1 ELSE arrivals[a][x],
           NEW e \in Entry, e = CheckedEntry(GetEntry(table, a, now), sampled[s])
    PROVE  /\ e.recent >= 1 /\ e.recent <= MaxConnRatePerIp /\ e.window_start <= now
           /\ G[MaxTime] - G[e.window_start] <= e.recent - 1
           /\ G[MaxTime] - CountBy(G, e.window_start - RateLimitWindow)
                 <= MaxConnRatePerIp - 1 + e.recent
           /\ arrivals[a][MaxTime] - CountBy(arrivals[a], sampled[s] - RateLimitWindow)
                 <= 2 * MaxConnRatePerIp - 2
<1> DEFINE t == sampled[s]
           g == GetEntry(table, a, now)
           F == arrivals[a]
           N == MaxConnRatePerIp
           W == RateLimitWindow
           M == MaxTime
<1>0. /\ N \in Nat \ {0} /\ W \in Nat \ {0} /\ M \in Nat /\ now \in Nat /\ now <= M
      /\ t \in Nat /\ t <= now /\ t \in 0 .. M /\ now \in 0 .. M
  BY RateLimitAssumption, AdmissionAssumption DEF TypeOK, RateInv
<1>1. /\ F \in [0 .. M -> Nat]
      /\ \A x, y \in 0 .. M : x <= y => F[x] <= F[y]
  BY DEF RateInv
<1>2. g \in Entry /\ g.recent \in Nat /\ g.window_start \in Nat
  <2>1. g \in Entry
    BY <1>0, GetEntryType DEF TypeOK
  <2> HIDE DEF g
  <2> QED BY <2>1 DEF Entry
<1>3. /\ t - g.window_start >= W => e.recent = 1 /\ e.window_start = t
      /\ ~(t - g.window_start >= W) => /\ e.recent = g.recent + 1 /\ e.recent <= N
                                       /\ e.window_start = g.window_start
  BY <1>0, <1>2, CheckedRate
<1>4. /\ F[M] \in Nat /\ F[t] \in Nat /\ F[now] \in Nat
      /\ t - W \in Int /\ t - W <= t /\ t <= M /\ t \in Int /\ M \in 0 .. M
  <2> HIDE DEF t, F, N, W, M
  <2>1. M \in 0 .. M /\ t - W \in Int /\ t - W <= t /\ t <= M /\ t \in Int
    BY <1>0
  <2> QED BY <1>0, <1>1, <2>1
<1>5. CountBy(F, t - W) \in Nat /\ CountBy(F, t - W) <= F[M]
  <2> HIDE DEF t, F, N, W, M
  <2>1. CountBy(F, M) = F[M] /\ M \in Int /\ M <= M /\ t - W <= M
    BY <1>0 DEF CountBy
  <2>2. CountBy(F, t - W) \in Nat /\ CountBy(F, t - W) <= CountBy(F, M)
    BY <1>0, <1>1, <1>4, <2>1, CountGrows
  <2> QED BY <2>1, <2>2
<1>6. F[t] = F[M]
  BY DEF RateInv
<1>7. /\ G \in [0 .. M -> Nat]
      /\ \A x \in 0 .. M : G[x] = IF t <= x THEN F[x] + 1 ELSE F[x]
  OBVIOUS
<1>8. CASE Tracked(table, a) = {}
  <2>1. g = FreshEntry(a, now)
    BY <1>8 DEF GetEntry
  <2>2. g.recent = 0 /\ g.window_start = now
    BY <2>1 DEF FreshEntry, EmptyEntry
  <2>3. F[M] = 0
    BY <1>8 DEF RateInv
  <2> HIDE DEF t, g, F, N, W, M
  <2>4. ~(t - g.window_start >= W)
    BY <1>0, <2>2
  <2>5. e.recent = 1 /\ e.window_start = now /\ 1 <= N
    BY <1>0, <1>3, <2>2, <2>4
  <2>6. now - W \in Int /\ now - W <= now /\ now \in Int /\ now <= M
    BY <1>0
  <2>7. CountBy(F, now - W) \in Nat
    BY <1>0, <1>1, <2>6, CountGrows
  <2>8. F[M] - F[now] <= 0 /\ F[M] - CountBy(F, now - W) <= N - 1 + 0
    BY <1>0, <1>4, <2>3, <2>7
  <2>9. G[M] - G[now] <= 0 /\ G[M] - CountBy(G, now - W) <= N - 1 + (0 + 1)
    <3>1. 0 \in Nat
      OBVIOUS
    <3> QED BY <1>0, <1>1, <1>7, <2>8, <3>1, WindowGrows
  <2>10. F[M] - CountBy(F, t - W) <= 2 * N - 2
    BY <1>0, <1>5, <2>3
  <2> QED BY <1>0, <2>5, <2>9, <2>10 DEF F, t, N, W, M
<1>9. CASE Tracked(table, a) # {}
  <2>1. RateKept(g, a)
    <3>1. SlotFor(table, a) \in Slot /\ table[SlotFor(table, a)].ip = a
      BY <1>9, SlotForIn DEF TypeOK, Tracked
    <3> QED BY <1>9, <3>1 DEF GetEntry, RateInv
  <2> DEFINE w == g.window_start
             m == IF g.recent < N THEN g.recent ELSE N
  <2>2. /\ g.recent >= 1 /\ w <= t /\ w <= now /\ F[M] - F[w] <= m - 1
        /\ F[M] - CountBy(F, w - W) <= N - 1 + m
    BY <2>1 DEF RateKept, ArrivedBy, CountBy
  <2>3. m \in Nat /\ m <= N /\ m <= g.recent /\ w \in Nat /\ w \in 0 .. M
    BY <1>0, <1>2, <2>2, SMTT(30)
  <2>4. F[w] \in Nat
    BY <1>1, <2>3
  <2>5. CASE t - w >= W
    <3>1. e.recent = 1 /\ e.window_start = t
      BY <1>3, <2>5
    <3> HIDE DEF t, g, F, N, W, M, w, m
    <3>2. w <= t - W /\ t - W \in Int /\ t - W <= M /\ w \in Int /\ ~(w < 0)
      BY <1>0, <2>3, <2>5
    <3>3. CountBy(F, w) <= CountBy(F, t - W) /\ CountBy(F, w) = F[w]
      <4>1. CountBy(F, w) <= CountBy(F, t - W)
        BY <1>0, <1>1, <3>2, CountGrows
      <4> QED BY <3>2, <4>1 DEF CountBy
    <3>4. F[M] - CountBy(F, t - W) <= N - 1
      BY <1>0, <1>4, <1>5, <2>2, <2>3, <2>4, <3>3
    <3>5. G[M] - G[t] <= 0 /\ G[M] - CountBy(G, t - W) <= N - 1 + (0 + 1)
      <4>1. /\ t <= t /\ F[M] - F[t] <= 0 /\ 0 \in Nat
            /\ F[M] - CountBy(F, t - W) <= N - 1 + 0
        BY <1>0, <1>4, <1>5, <1>6, <3>4
      <4> QED BY <1>0, <1>1, <1>7, <4>1, WindowGrows
    <3>6. F[M] - CountBy(F, t - W) <= 2 * N - 2
      BY <1>0, <1>4, <1>5, <3>4
    <3> QED BY <1>0, <3>1, <3>5, <3>6 DEF F, t, N, W, M
  <2>6. CASE ~(t - w >= W)
    <3>1. e.recent = g.recent + 1 /\ e.recent <= N /\ e.window_start = w
      BY <1>3, <2>6
    <3>2. m = g.recent
      BY <1>0, <1>2, <3>1
    <3> HIDE DEF t, g, F, N, W, M, w, m
    <3>3. G[M] - G[w] <= m /\ G[M] - CountBy(G, w - W) <= N - 1 + (m + 1)
      BY <1>0, <1>1, <1>7, <2>2, <2>3, WindowGrows
    <3>4. w - W <= t - W /\ w - W \in Int /\ t - W <= M /\ t - W \in Int
      BY <1>0, <2>2, <2>3
    <3>5. CountBy(F, w - W) <= CountBy(F, t - W) /\ CountBy(F, w - W) \in Nat
      BY <1>0, <1>1, <3>4, CountGrows
    <3>6. F[M] - CountBy(F, t - W) <= 2 * N - 2
      <4>1. ASSUME NEW c \in Nat, NEW d \in Nat, NEW f \in Nat, NEW k \in Nat,
                   c <= d, f - c <= N - 1 + k, k + 1 <= N
            PROVE  f - d <= 2 * N - 2
        BY <1>0, <4>1
      <4>2. m \in Nat /\ m + 1 <= N
        BY <1>2, <3>1, <3>2
      <4> QED BY <1>4, <1>5, <2>2, <3>5, <4>1, <4>2
    <3>7. e.recent - 1 = m /\ N - 1 + (m + 1) = N - 1 + e.recent /\ e.recent >= 1
      BY <1>0, <1>2, <3>1, <3>2
    <3> QED BY <1>0, <2>2, <3>1, <3>3, <3>6, <3>7 DEF F, t, N, W, M
  <2> QED BY <2>5, <2>6
<1> QED BY <1>8, <1>9

(* A check that lets a connection in keeps the rates.                      *)
LEMMA RateLetIn ==
    ASSUME TypeOK, TypeOK', ClockInv, BanInv, RateInv, Observe, RateLimitEnabled,
           IsFiniteSet(IP), Cardinality(IP) <= MaxTrackedIPs,
           NEW s \in Session, CheckIp(s), Admits(GetEntry(table, addr[s], now), sampled[s])
    PROVE  RateInv'
<1>0. PICK a \in IP : a = addr[s]
  BY DEF ClockInv, CheckIp
<1> DEFINE t == sampled[s]
           N == MaxConnRatePerIp
           W == RateLimitWindow
           M == MaxTime
           G == arrivals'[a]
<1>1. PICK e \in Entry : e = CheckedEntry(GetEntry(table, a, now), t) /\ e.ip = a
  <2>1. GetEntry(table, a, now) \in Entry /\ GetEntry(table, a, now).ip = a
    BY GetEntryType DEF TypeOK
  <2>2. t \in Nat
    BY DEF TypeOK
  <2>3. /\ CheckedEntry(GetEntry(table, a, now), t) \in Entry
        /\ CheckedEntry(GetEntry(table, a, now), t).ip = a
    BY <2>1, <2>2, CheckedEntryType
  <2> QED BY <2>3
<1>2. /\ table' = Store(table, a, e) /\ stage' = [stage EXCEPT ![s] = "spawning"]
      /\ now' = now /\ addr' = addr
  BY <1>0, <1>1 DEF CheckIp, Goto, outside
<1>3. /\ t \in Nat /\ t <= now /\ now \in Nat /\ now <= M /\ M \in Nat
      /\ N \in Nat \ {0} /\ W \in Nat \ {0} /\ t \in 0 .. M /\ now \in 0 .. M
      /\ stage[s] = "checking"
  BY RateLimitAssumption, AdmissionAssumption DEF TypeOK, ClockInv, CheckIp, RateInv
<1>4. PICK k \in Slot :
         /\ table'[k] = e /\ table[k].ip \in {a, NoIP}
         /\ \A i \in Slot : i # k => table'[i] = table[i] /\ table[i].ip # a
  BY <1>1, <1>2, StoredSlot
<1>5. \A r \in Session : stage'[r] # "checking"
  <2> SUFFICES ASSUME NEW r \in Session, stage'[r] = "checking" PROVE FALSE
    OBVIOUS
  <2>1. r # s /\ stage[r] = "checking"
    BY <1>2 DEF TypeOK
  <2> QED BY <2>1, <1>3 DEF ClockInv, AcceptStages
<1>6. LetIn(s) /\ \A r \in Session : LetIn(r) => r = s
  BY <1>2, <1>3 DEF TypeOK, LetIn
<1>7. /\ arrivals' \in [IP -> [0 .. M -> Nat]]
      /\ \A b \in IP : b # a => arrivals'[b] = arrivals[b]
      /\ \A x \in 0 .. M : G[x] = IF t <= x THEN arrivals[a][x] + 1 ELSE arrivals[a][x]
  BY <1>0, <1>3, <1>6, OneArrival
<1>8. /\ arrivals \in [IP -> [0 .. M -> Nat]]
      /\ \A b \in IP : \A x, y \in 0 .. M : x <= y => arrivals[b][x] <= arrivals[b][y]
      /\ arrivals[a][t] = arrivals[a][M]
      /\ \A b \in IP : arrivals[b][now] = arrivals[b][M]
  BY <1>0, <1>3 DEF RateInv
<1>9. G \in [0 .. M -> Nat] /\ arrivals[a] \in [0 .. M -> Nat]
  BY <1>7, <1>8
<1>10. /\ e.recent >= 1 /\ e.recent <= N /\ e.window_start <= now
       /\ G[M] - G[e.window_start] <= e.recent - 1
       /\ G[M] - CountBy(G, e.window_start - W) <= N - 1 + e.recent
       /\ arrivals[a][M] - CountBy(arrivals[a], t - W) <= 2 * N - 2
  <2>1. Admits(GetEntry(table, a, now), sampled[s])
    BY <1>0
  <2>2. PICK H \in [0 .. MaxTime -> Nat] : H = G
    BY <1>9
  <2>3. \A x \in 0 .. MaxTime :
           H[x] = IF sampled[s] <= x THEN arrivals[a][x] + 1 ELSE arrivals[a][x]
    BY <1>7, <2>2
  <2>4. /\ e.recent >= 1 /\ e.recent <= N /\ e.window_start <= now
        /\ H[M] - H[e.window_start] <= e.recent - 1
        /\ H[M] - CountBy(H, e.window_start - W) <= N - 1 + e.recent
        /\ arrivals[a][M] - CountBy(arrivals[a], t - W) <= 2 * N - 2
    BY <1>1, <1>3, <2>1, <2>3, RateAdmitted, ZenonT(30)
  <2> QED BY <2>2, <2>4
<1>11. RateKept(e, a)'
  <2>1. e.recent \in Nat
    BY DEF Entry
  <2>2. e.recent = IF e.recent < N THEN e.recent ELSE N
    BY <1>3, <1>10, <2>1
  <2>3. ArrivedBy(a, e.window_start - W)' = CountBy(G, e.window_start - W)
    BY DEF ArrivedBy, CountBy
  <2> QED
    BY <1>2, <1>5, <1>10, <2>2, <2>3 DEF RateKept
<1>12. ASSUME NEW i \in Slot, table'[i].ip \in IP PROVE RateKept(table[i], table[i].ip)'
  <2>1. CASE i = k
    BY <2>1, <1>1, <1>4, <1>11
  <2>2. CASE i # k
    <3>1. PICK g \in Entry : g = table[i]
      BY DEF TypeOK
    <3>2. table'[i] = g /\ g.ip \in IP /\ g.ip # a
      BY <1>4, <1>12, <2>2, <3>1
    <3>3. RateKept(g, g.ip)
      BY <3>1, <3>2 DEF RateInv
    <3>4. /\ g.window_start \in 0 .. M /\ g.recent >= g.recent
          /\ arrivals[g.ip] \in [0 .. M -> Nat] /\ arrivals'[g.ip] = arrivals[g.ip]
          /\ now <= now'
      BY <1>2, <1>3, <1>7, <1>8, <3>2, <3>3, TrackedWindow
    <3>5. RateKept(g, g.ip)'
      BY <1>5, <3>2, <3>3, <3>4, RateKeptStep
    <3> QED BY <3>2, <3>5
  <2> QED BY <2>1, <2>2
<1>13. ASSUME NEW b \in IP, NEW x \in 0 .. M, NEW y \in 0 .. M, x <= y
       PROVE  arrivals'[b][x] <= arrivals'[b][y]
  <2>1. CASE b = a
    <3>1. /\ arrivals[a][x] \in Nat /\ arrivals[a][y] \in Nat
          /\ arrivals[a][x] <= arrivals[a][y]
      BY <1>8, <1>9, <1>13
    <3>2. /\ G[x] = IF t <= x THEN arrivals[a][x] + 1 ELSE arrivals[a][x]
          /\ G[y] = IF t <= y THEN arrivals[a][y] + 1 ELSE arrivals[a][y]
      BY <1>7
    <3> HIDE DEF G
    <3>3. G[x] <= G[y]
      BY <1>3, <1>13, <3>1, <3>2
    <3> QED BY <2>1, <3>3 DEF G
  <2>2. CASE b # a
    BY <2>2, <1>7, <1>8, <1>13
  <2> QED BY <2>1, <2>2
<1>14. ASSUME NEW b \in IP PROVE arrivals'[b][now] = arrivals'[b][M]
  <2>1. CASE b = a
    BY <2>1, <1>3, <1>7, <1>8
  <2>2. CASE b # a
    BY <2>2, <1>7, <1>8
  <2> QED BY <2>1, <2>2
<1>15. ASSUME NEW r \in Holding' PROVE Tracked(table, addr[r])' # {}
  <2>0. r \in Session
    BY DEF Holding
  <2>1. CASE r = s
    BY <2>1, <1>0, <1>1, <1>2, <1>4 DEF Tracked
  <2>2. CASE r # s
    <3>1. r \in Holding /\ addr'[r] = addr[r] /\ addr[r] \in IP
      BY <2>0, <2>2, <1>2 DEF TypeOK, Holding, ClockInv
    <3>2. PICK i \in Slot : table[i].ip = addr[r]
      BY <3>1 DEF RateInv, Tracked
    <3>3. table'[i].ip = addr[r]
      BY <1>1, <1>4, <3>1, <3>2, RateLimitAssumption
    <3> QED BY <3>1, <3>3 DEF Tracked
  <2> QED BY <2>1, <2>2
<1>16. ASSUME NEW b \in IP, Tracked(table, b)' = {} PROVE arrivals'[b][M] = 0
  <2>1. b # a
    BY <1>1, <1>4, <1>16 DEF Tracked
  <2>2. Tracked(table, b) = {}
    BY <1>1, <1>4, <1>16, <2>1, RateLimitAssumption DEF Tracked
  <2>3. arrivals[b][M] = 0
    BY <2>2 DEF RateInv
  <2> QED BY <1>7, <2>1, <2>3
<1>17. BurstBounded'
  <2>1. ASSUME NEW b \in IP, NEW x \in 0 .. M
        PROVE  CountBy(arrivals[b], x) - CountBy(arrivals[b], x - W) <= 2 * N - 1
    <3>1. RecentArrivals(b, x) <= 2 * N - 1
      BY DEF RateInv, BurstBounded
    <3> QED BY <3>1 DEF RecentArrivals, ArrivedBy, CountBy
  <2>2. \A x \in 0 .. M : CountBy(G, x) - CountBy(G, x - W) <= 2 * N - 1
    <3> DEFINE F == arrivals[a]
    <3>1. /\ F \in [0 .. M -> Nat]
          /\ \A x, y \in 0 .. M : x <= y => F[x] <= F[y]
          /\ \A x \in 0 .. M : G[x] = IF t <= x THEN F[x] + 1 ELSE F[x]
          /\ F[M] - CountBy(F, t - W) <= 2 * N - 2
          /\ \A x \in 0 .. M : CountBy(F, x) - CountBy(F, x - W) <= 2 * N - 1
      BY <1>7, <1>8, <1>9, <1>10, <2>1
    <3> HIDE DEF F, G, N, W, M, t
    <3> QED BY <1>3, <1>9, <3>1, BurstGrows
  <2>3. ASSUME NEW b \in IP, NEW x \in 0 .. M
        PROVE  RecentArrivals(b, x)' <= 2 * N - 1
    <3>1. CountBy(arrivals'[b], x) - CountBy(arrivals'[b], x - W) <= 2 * N - 1
      <4>1. CASE b = a
        BY <4>1, <2>2
      <4>2. CASE b # a
        BY <4>2, <2>1, <1>7
      <4> QED BY <4>1, <4>2
    <3> QED BY <3>1 DEF RecentArrivals, ArrivedBy, CountBy
  <2> QED BY <2>3 DEF BurstBounded
<1> QED
  BY <1>2, <1>3, <1>5, <1>7, <1>12, <1>13, <1>14, <1>15, <1>16, <1>17 DEF RateInv

(* A release and a failed password leave the window of the entry, which is *)
(* there: the connection holds a place of its address.                     *)
LEMMA RateHolder ==
    ASSUME TypeOK, TypeOK', ClockInv, BanInv, RateInv, Observe, RateLimitEnabled,
           IsFiniteSet(IP), Cardinality(IP) <= MaxTrackedIPs,
           NEW s \in Session, ReleaseIp(s) \/ RecordAuthFailure(s)
    PROVE  RateInv'
<1>0. stage[s] \in {"spawn_failed", "failed", "cleanup", "recording"}
  BY DEF ReleaseIp, RecordAuthFailure
<1>1. PICK a \in IP : a = addr[s]
  BY <1>0 DEF ClockInv
<1>2. Tracked(table, a) # {}
  <2>1. s \in Holding
    BY <1>0 DEF Holding
  <2> QED BY <1>1, <2>1 DEF RateInv
<1>3. PICK g \in Entry : g = GetEntry(table, a, now) /\ g.ip = a
  BY GetEntryType DEF TypeOK
<1>4. PICK t \in Nat : t = sampled[s]
  BY DEF TypeOK
<1>5. PICK e \in Entry :
         /\ table' = Store(table, a, e) /\ e.ip = a
         /\ e.recent = g.recent /\ e.window_start = g.window_start
  <2>1. CASE ReleaseIp(s)
    <3>1. PICK e \in Entry : e = ReleasedEntry(g) /\ e.ip = a
      BY <1>3, ReleasedEntryType
    <3>2. e.recent = g.recent /\ e.window_start = g.window_start
      <4>1. CASE g.active > 0
        <5>1. e = [g EXCEPT !.active = @ - 1]
          BY <4>1, <3>1 DEF ReleasedEntry
        <5> QED BY <5>1 DEF Entry
      <4>2. CASE ~(g.active > 0)
        BY <4>2, <3>1 DEF ReleasedEntry
      <4> QED BY <4>1, <4>2
    <3>3. table' = Store(table, a, e)
      BY <2>1, <1>1, <1>3, <3>1 DEF ReleaseIp
    <3> QED BY <3>1, <3>2, <3>3
  <2>2. CASE RecordAuthFailure(s)
    <3>1. PICK e \in Entry : e = FailedEntry(g, t) /\ e.ip = a
      BY <1>3, FailedEntryType
    <3>2. e.recent = g.recent /\ e.window_start = g.window_start
      <4> DEFINE h == [g EXCEPT !.failures = @ + 1]
      <4>0. h \in Entry
        BY DEF Entry
      <4>1. PICK f \in Entry : f = h
        BY <4>0
      <4>2. f.recent = g.recent /\ f.window_start = g.window_start
        BY <4>1 DEF Entry
      <4>3. CASE f.failures >= MaxAuthFailures
        <5>1. e = [f EXCEPT !.blocked = TRUE, !.until = t + BlockDuration]
          BY <3>1, <4>1, <4>3 DEF FailedEntry, Block
        <5> QED BY <4>2, <5>1 DEF Entry
      <4>4. CASE ~(f.failures >= MaxAuthFailures)
        BY <3>1, <4>1, <4>2, <4>4 DEF FailedEntry
      <4> QED BY <4>3, <4>4
    <3>3. table' = Store(table, a, e)
      BY <2>2, <1>1, <1>3, <1>4, <3>1 DEF RecordAuthFailure
    <3> QED BY <3>1, <3>2, <3>3
  <2> QED BY <2>1, <2>2
<1>6. PICK st \in {"rejected", "released", "polling"} : stage' = [stage EXCEPT ![s] = st]
  BY DEF ReleaseIp, RecordAuthFailure, Goto
<1>7. now' = now /\ addr' = addr /\ \A r \in Session : r # s => sampled'[r] = sampled[r]
  BY DEF ReleaseIp, RecordAuthFailure, outside, TypeOK
<1>8. \A r \in Session : ~LetIn(r)
  BY <1>6 DEF TypeOK, LetIn
<1>9. \A r \in Session :
         stage'[r] = "checking" => stage[r] = "checking" /\ sampled'[r] = sampled[r]
  BY <1>6, <1>7 DEF TypeOK
<1>10. \A r \in Holding' : r \in Holding /\ addr'[r] = addr[r]
  BY <1>0, <1>6, <1>7 DEF TypeOK, Holding
<1>11. e.recent >= g.recent
  BY <1>5 DEF Entry
<1> QED BY <1>2, <1>3, <1>5, <1>7, <1>8, <1>9, <1>10, <1>11, RateStored

(* Every step keeps the rates.                                             *)
LEMMA RateStep ==
    ASSUME TypeOK, ClockInv, BanInv, RateInv, HNext, RateLimitEnabled,
           IsFiniteSet(IP), Cardinality(IP) <= MaxTrackedIPs
    PROVE  RateInv'
<1>0. Next /\ Observe
  BY DEF HNext
<1>1. TypeOK'
  BY <1>0, TypeStep
<1> DEFINE Quiet == /\ table' = table /\ now <= now' /\ now' <= MaxTime
                    /\ \A s \in Session : ~LetIn(s)
                    /\ \A s \in Session : stage'[s] = "checking" =>
                          \/ stage[s] = "checking" /\ sampled'[s] = sampled[s]
                          \/ sampled'[s] = now
                    /\ \A s \in Holding' : s \in Holding /\ addr'[s] = addr[s]
<1>2. Quiet => RateInv'
  BY <1>0, <1>1, RateQuiet
<1>3. now \in Nat /\ now <= MaxTime /\ MaxTime \in Nat
  BY AdmissionAssumption DEF TypeOK, RateInv
<1>4. ASSUME NEW s \in Session, CheckIp(s) PROVE RateInv'
  BY <1>0, <1>1, <1>4, RateRefused, RateLetIn
<1>5. ASSUME NEW s \in Session, ReleaseIp(s) \/ RecordAuthFailure(s) PROVE RateInv'
  BY <1>0, <1>1, <1>5, RateHolder
<1>6. ASSUME Tick PROVE RateInv'
  <2>1. now' = now + 1 /\ now' <= MaxTime /\ now <= now'
    BY <1>3, <1>6 DEF Tick
  <2>2. Quiet
    BY <1>6, <2>1 DEF TypeOK, Tick, shared, LetIn, Holding
  <2> QED BY <2>2, <1>2
<1>7. ASSUME NEW s \in Session, CheckTotal(s) PROVE RateInv'
  <2>1. CASE total >= MaxConnections
    <3>1. Quiet
      BY <1>3, <1>7, <2>1 DEF TypeOK, CheckTotal, outside, LetIn, Holding, End, Goto
    <3> QED BY <3>1, <1>2
  <2>2. CASE ~(total >= MaxConnections)
    <3>1. Quiet
      BY <1>3, <1>7, <2>2 DEF TypeOK, CheckTotal, outside, LetIn, Holding, Goto
    <3> QED BY <3>1, <1>2
  <2> QED BY <2>1, <2>2
<1>8. ASSUME NEW s \in Session, DecrementTotal(s) PROVE RateInv'
  <2>1. Quiet
    BY <1>3, <1>8 DEF TypeOK, DecrementTotal, outside, LetIn, Holding, End, Goto
  <2> QED BY <2>1, <1>2
<1>9. ASSUME NEW s \in Session,
             \/ Spawn(s) \/ StartBootstrap(s) \/ KeyExchange(s) \/ CreateClient(s)
             \/ PollExit(s) \/ ExecDispatch(s) \/ ReadUsernameFails(s) \/ LeaveLoop(s)
      PROVE  RateInv'
  <2>1. Quiet
    BY <1>3, <1>9
       DEF TypeOK, Spawn, StartBootstrap, KeyExchange, CreateClient, HandshakeStep,
           PollExit, ExecDispatch, ReadUsernameFails, LeaveLoop, shared, outside,
           LetIn, Holding, Goto
  <2> QED BY <2>1, <1>2
<1>10. ASSUME NEW s \in Session, NEW a \in IP, Accept(s, a) PROVE RateInv'
  <2>1. Quiet
    BY <1>3, <1>10 DEF TypeOK, Accept, shared, outside, LetIn, Holding, Goto
  <2> QED BY <2>1, <1>2
<1>11. ASSUME NEW s \in Session, NEW matches \in BOOLEAN, AuthPassword(s, matches)
       PROVE  RateInv'
  <2>1. CASE PasswordAccepted(s, matches)
    <3>1. Quiet
      BY <1>3, <1>11, <2>1 DEF TypeOK, AuthPassword, shared, outside, LetIn, Holding
    <3> QED BY <3>1, <1>2
  <2>2. CASE ~PasswordAccepted(s, matches)
    <3>1. Quiet
      BY <1>3, <1>11, <2>2
         DEF TypeOK, AuthPassword, Authenticating, Connected, shared, outside, LetIn,
             Holding, Goto
    <3> QED BY <3>1, <1>2
  <2> QED BY <2>1, <2>2
<1>12. ASSUME NEW s \in Session,
              \/ AuthWithoutPassword(s)
              \/ ChannelOpen(s) \/ ChannelShell(s) \/ ChannelExec(s)
       PROVE  RateInv'
  <2>1. Quiet
    BY <1>3, <1>12
       DEF TypeOK, AuthWithoutPassword, ChannelOpen, ChannelShell, ChannelExec,
           ChannelRequest, shared, outside, LetIn, Holding
  <2> QED BY <2>1, <1>2
<1>13. ASSUME NEW s \in Session, RoomAddClient(s) \/ RoomRemoveClient(s) PROVE RateInv'
  <2>1. Quiet
    BY <1>3, <1>13
       DEF TypeOK, RoomAddClient, RoomRemoveClient, outside, LetIn, Holding, Goto
  <2> QED BY <2>1, <1>2
<1> HIDE DEF Quiet
<1>14. ASSUME NEW s \in Session, ThreadStep(s) PROVE RateInv'
  BY <1>4, <1>5, <1>7, <1>8, <1>9, <1>13, <1>14 DEF ThreadStep
<1>15. ASSUME NEW s \in Session, PeerStep(s) PROVE RateInv'
  BY <1>9, <1>10, <1>11, <1>12, <1>13, <1>15 DEF PeerStep
<1> QED
  BY <1>0, <1>6, <1>14, <1>15 DEF Next

(* Nobody has been let in in the beginning.                                *)
LEMMA RateInit == HInit => RateInv
<1> SUFFICES ASSUME HInit PROVE RateInv
  OBVIOUS
<1>1. /\ now = 0 /\ MaxTime \in Nat /\ MaxConnRatePerIp \in Nat \ {0}
      /\ arrivals = [a \in IP |-> [t \in 0 .. MaxTime |-> 0]]
      /\ \A s \in Session : stage[s] = "idle"
      /\ \A i \in Slot : table[i].ip = NoIP
  BY RateLimitAssumption, AdmissionAssumption DEF HInit, Init, EmptyEntry
<1>2. BurstBounded
  <2> SUFFICES ASSUME NEW a \in IP, NEW t \in 0 .. MaxTime
               PROVE  RecentArrivals(a, t) <= 2 * MaxConnRatePerIp - 1
    BY DEF BurstBounded
  <2>1. t - RateLimitWindow \in Int /\ t - RateLimitWindow <= t
    BY RateLimitAssumption
  <2>2. ArrivedBy(a, t) = 0 /\ ArrivedBy(a, t - RateLimitWindow) = 0
    BY <1>1, <2>1 DEF ArrivedBy
  <2>3. RecentArrivals(a, t) = 0
    BY <2>2 DEF RecentArrivals
  <2> QED BY <1>1, <2>3
<1>3. Holding = {}
  BY <1>1 DEF Holding
<1>4. \A i \in Slot : table[i].ip \notin IP
  BY <1>1, RateLimitAssumption
<1> QED BY <1>1, <1>2, <1>3, <1>4 DEF RateInv

(* However its connections are timed, an address is let in less than twice *)
(* as often in the ticks of one window as TNT_MAX_CONN_RATE_PER_IP says    *)
(* (BurstBounded), if the table has a slot for every address and rates are *)
(* limited.                                                                *)
THEOREM BurstsAreBounded ==
    ASSUME IsFiniteSet(IP), Cardinality(IP) <= MaxTrackedIPs, RateLimitEnabled
    PROVE  HSpec => []BurstBounded
<1>1. TypeOK /\ ClockInv /\ BanInv /\ RateInv /\ [HNext]_<<vars, history>> => RateInv'
  <2> SUFFICES ASSUME TypeOK, ClockInv, BanInv, RateInv, [HNext]_<<vars, history>>
               PROVE  RateInv'
    OBVIOUS
  <2>1. CASE HNext
    BY <2>1, RateStep
  <2>2. CASE UNCHANGED <<vars, history>>
    BY <2>2 DEF vars, shared, outside, history, RateInv, RateKept, Holding, Tracked,
                BurstBounded, RecentArrivals, ArrivedBy
  <2> QED BY <2>1, <2>2
<1>2. RateInv => BurstBounded
  BY DEF RateInv
<1> QED BY <1>1, <1>2, RateInit, BanInvariant, PTL DEF HSpec

=============================================================================
