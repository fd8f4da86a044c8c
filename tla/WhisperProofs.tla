---------------------------- MODULE WhisperProofs ----------------------------
(***************************************************************************)
(* The unread count and what is made of it, for any number of sessions and *)
(* messages and any size of the inbox: MarkedAreCounted, InboxFresh and    *)
(* TitleFresh are invariants of Whisper.                                   *)
(***************************************************************************)
EXTENDS Whisper, SequenceTheorems, FiniteSetTheorems, TLAPS

Drafts  == [id : 0 .. MaxMsgs, to : Name \cup {NoName}, target : SUBSET Client]
Sending == {"find", "deliver", "copy", "bell"}

(* TypeOK, and the drafts: a thread that sends has numbered its message.   *)
Typed ==
    /\ TypeOK
    /\ draft \in [Client -> Drafts]
    /\ \A c \in Client : pc[c] \in Sending => draft[c].id # 0

(* The places of the messages in s that are marked as unread.              *)
Marked(s) == {i \in 1 .. Len(s) : s[i].new}

Counted(c) == Cardinality(Marked(inbox[c])) <= unread[c]

(* The inbox is open in the main loop only; what it lacks is counted.      *)
Fresh(c) ==
    view[c] = "inbox" =>
        /\ pc[c] \in {"loop", "decide"}
        /\ Ids(inbox[c]) \subseteq page[c] \/ unread[c] > 0

(* The title bar is up to date when the main loop waits or decides, or     *)
(* else somebody will see to it.                                           *)
Titled(c) ==
    pc[c] \in {"loop", "decide"} /\ view[c] = "chat" =>
        title[c] = unread[c] \/ redraw[c] \/ BeingNotified(c)

Shown(c) == Counted(c) /\ Fresh(c) /\ Titled(c)

WhisperInv == Typed /\ \A c \in Client : Shown(c)

(* A step that leaves what is x's alone.                                   *)
Alone(x) ==
    /\ inbox'[x] = inbox[x] /\ unread'[x] = unread[x]
    /\ view'[x] = view[x] /\ page'[x] = page[x] /\ title'[x] = title[x]
    /\ pc'[x] = pc[x] /\ redraw'[x] = redraw[x] /\ draft'[x] = draft[x]

-----------------------------------------------------------------------------
(* The inbox as a sequence.                                                *)

LEMMA MarkedFinite ==
    ASSUME NEW s \in Seq(Entry)
    PROVE  IsFiniteSet(Marked(s)) /\ Cardinality(Marked(s)) \in Nat
<1>1. Len(s) \in Nat
  BY LenProperties
<1>2. IsFiniteSet(1 .. Len(s))
  BY <1>1, FS_Interval
<1>3. Marked(s) \subseteq 1 .. Len(s)
  BY DEF Marked
<1> QED BY <1>2, <1>3, FS_Subset, FS_CardinalityType

LEMMA EntryType ==
    ASSUME NEW id \in 1 .. MaxMsgs, NEW b \in BOOLEAN
    PROVE  LET e == [id |-> id, sent |-> b, new |-> ~b]
           IN  e \in Entry /\ e.id = id /\ (e.new <=> ~b)
  BY DEF Entry

(* One more message.                                                       *)
LEMMA AppendInbox ==
    ASSUME NEW s \in Seq(Entry), NEW e \in Entry
    PROVE  /\ Append(s, e) \in Seq(Entry) /\ Len(Append(s, e)) = Len(s) + 1
           /\ Cardinality(Marked(Append(s, e)))
                 <= Cardinality(Marked(s)) + (IF e.new THEN 1 ELSE 0)
           /\ Ids(Append(s, e)) \subseteq Ids(s) \cup {e.id}
<1> DEFINE t == Append(s, e)
           n == Len(s)
<1>1. /\ t \in Seq(Entry) /\ Len(t) = n + 1 /\ n \in Nat
      /\ \A i \in 1 .. n : t[i] = s[i]
      /\ t[n + 1] = e
  BY AppendProperties, LenProperties
<1> HIDE DEF t, n
<1>2. \A i \in 1 .. n + 1 : i \in 1 .. n \/ i = n + 1
  BY <1>1
<1>3. CASE e.new
  <2>1. Marked(t) \subseteq Marked(s) \cup {n + 1}
    BY <1>1, <1>2 DEF Marked, n
  <2>2. /\ IsFiniteSet(Marked(s) \cup {n + 1})
        /\ Cardinality(Marked(s) \cup {n + 1}) <= Cardinality(Marked(s)) + 1
    <3>1. IsFiniteSet(Marked(s)) /\ Cardinality(Marked(s)) \in Nat
      BY MarkedFinite
    <3>2. /\ IsFiniteSet(Marked(s) \cup {n + 1})
          /\ \/ Cardinality(Marked(s) \cup {n + 1}) = Cardinality(Marked(s))
             \/ Cardinality(Marked(s) \cup {n + 1}) = Cardinality(Marked(s)) + 1
      BY <3>1, FS_AddElement
    <3> QED BY <3>1, <3>2
  <2>3. Cardinality(Marked(t)) <= Cardinality(Marked(s) \cup {n + 1})
    BY <2>1, <2>2, FS_Subset
  <2>4. Cardinality(Marked(t)) <= Cardinality(Marked(s)) + 1
    <3>1. /\ Cardinality(Marked(t)) \in Nat /\ Cardinality(Marked(s)) \in Nat
          /\ Cardinality(Marked(s) \cup {n + 1}) \in Nat
      BY <1>1, <2>2, MarkedFinite, FS_CardinalityType
    <3> QED BY <2>2, <2>3, <3>1
  <2>5. Ids(t) \subseteq Ids(s) \cup {e.id}
    BY <1>1, <1>2 DEF Ids, n
  <2> QED BY <1>1, <1>3, <2>4, <2>5 DEF t, n
<1>4. CASE ~e.new
  <2>1. Marked(t) \subseteq Marked(s)
    BY <1>1, <1>2, <1>4 DEF Marked, n
  <2>2. Cardinality(Marked(t)) <= Cardinality(Marked(s))
    BY <2>1, MarkedFinite, FS_Subset
  <2>3. Ids(t) \subseteq Ids(s) \cup {e.id}
    BY <1>1, <1>2 DEF Ids, n
  <2>4. Cardinality(Marked(t)) \in Nat /\ Cardinality(Marked(s)) \in Nat
    BY <1>1, MarkedFinite
  <2> QED BY <1>1, <1>4, <2>2, <2>3, <2>4 DEF t, n
<1> QED BY <1>3, <1>4

(* The oldest message goes.                                                *)
LEMMA TailInbox ==
    ASSUME NEW s \in Seq(Entry), s # <<>>
    PROVE  /\ Tail(s) \in Seq(Entry) /\ Len(Tail(s)) = Len(s) - 1
           /\ Cardinality(Marked(Tail(s))) <= Cardinality(Marked(s))
           /\ Ids(Tail(s)) \subseteq Ids(s)
<1> DEFINE t == Tail(s)
           n == Len(s)
<1>1. /\ t \in Seq(Entry) /\ Len(t) = n - 1 /\ n \in Nat \ {0}
      /\ \A i \in 1 .. Len(t) : t[i] = s[i + 1]
  BY HeadTailProperties, EmptySeq
<1> HIDE DEF t, n
<1>2. \A i \in 1 .. Len(t) : i + 1 \in 1 .. n
  BY <1>1
<1>3. Ids(t) \subseteq Ids(s)
  BY <1>1, <1>2 DEF Ids, n
<1> DEFINE up == {i + 1 : i \in Marked(t)}
           f  == [i \in Marked(t) |-> i + 1]
<1>4. up \subseteq Marked(s)
  BY <1>1, <1>2 DEF Marked, n
<1>5. f \in Bijection(Marked(t), up)
  <2>1. f \in [Marked(t) -> up]
    OBVIOUS
  <2>2. \A i, j \in Marked(t) : f[i] = f[j] => i = j
    <3>1. \A i \in Marked(t) : i \in Int
      BY DEF Marked
    <3> QED BY <3>1
  <2>3. \A u \in up : \E i \in Marked(t) : f[i] = u
    OBVIOUS
  <2> QED BY <2>1, <2>2, <2>3 DEF Bijection, Injection, Surjection, IsInjective
<1>6. Cardinality(Marked(t)) = Cardinality(up)
  BY <1>1, <1>5, MarkedFinite, FS_Bijection DEF ExistsBijection
<1>7. Cardinality(up) <= Cardinality(Marked(s))
  BY <1>4, MarkedFinite, FS_Subset
<1> QED BY <1>1, <1>3, <1>6, <1>7 DEF t, n

(* Reading takes the marks away and nothing else.                          *)
LEMMA SeenInbox ==
    ASSUME NEW s \in Seq(Entry)
    PROVE  /\ Seen(s) \in Seq(Entry) /\ Len(Seen(s)) = Len(s)
           /\ Cardinality(Marked(Seen(s))) = 0
           /\ Ids(Seen(s)) = Ids(s)
<1> DEFINE t == Seen(s)
           n == Len(s)
           e(i) == [s[i] EXCEPT !.new = FALSE]
<1>1. n \in Nat /\ \A i \in 1 .. n : s[i] \in Entry
  BY LenProperties, ElementOfSeq
<1>2. \A x \in Entry : /\ [x EXCEPT !.new = FALSE] \in Entry
                       /\ [x EXCEPT !.new = FALSE].new = FALSE
                       /\ [x EXCEPT !.new = FALSE].id = x.id
  BY DEF Entry
<1>3. \A i \in 1 .. n : e(i) \in Entry /\ e(i).new = FALSE /\ e(i).id = s[i].id
  BY <1>1, <1>2
<1>4. t = [i \in 1 .. n |-> e(i)]
  BY DEF Seen
<1> HIDE DEF e, t, n
<1>5. t \in [1 .. n -> Entry] /\ \A i \in 1 .. n : t[i] = e(i)
  BY <1>3, <1>4
<1>6. t \in Seq(Entry)
  BY <1>1, <1>5, SeqDef
<1>7. Len(t) = n
  <2>1. DOMAIN t = 1 .. n /\ DOMAIN t = 1 .. Len(t) /\ Len(t) \in Nat
    BY <1>5, <1>6, LenProperties
  <2> QED BY <1>1, <2>1
<1>8. Marked(t) = {}
  BY <1>3, <1>5, <1>7 DEF Marked
<1>9. Ids(t) = Ids(s)
  BY <1>3, <1>5, <1>7 DEF Ids, n
<1>10. Cardinality(Marked(t)) = 0
  BY <1>8, FS_EmptySet
<1> QED BY <1>6, <1>7, <1>9, <1>10 DEF t, n

(* What append_inbox_output can put on a page.                             *)
LEMMA IdsType ==
    ASSUME NEW s \in Seq(Entry)
    PROVE  Ids(s) \subseteq 1 .. MaxMsgs
<1>1. \A i \in 1 .. Len(s) : s[i] \in Entry
  BY ElementOfSeq
<1> QED BY <1>1 DEF Ids, Entry

LEMMA EmptyInbox ==
    <<>> \in Seq(Entry) /\ Len(<<>>) = 0 /\ Cardinality(Marked(<<>>)) = 0
<1>1. <<>> \in Seq(Entry) /\ Len(<<>>) = 0
  BY EmptySeq
<1>2. Marked(<<>>) = {}
  BY <1>1 DEF Marked
<1> QED BY <1>1, <1>2, FS_EmptySet

-----------------------------------------------------------------------------
(* The two critical sections of whisper_lock.                              *)

(* client_append_whisper: the count grows by at least as much as the marks,*)
(* and only d's inbox is touched.                                          *)
LEMMA WhisperAppended ==
    ASSUME WhisperInv, NEW d \in Client, NEW id \in 1 .. MaxMsgs,
           NEW n \in Name \cup {NoName}, NEW b \in BOOLEAN,
           AppendWhisper(d, id, n, b)
    PROVE  /\ inbox' \in [Client -> Seq(Entry)]
           /\ \A x \in Client : Len(inbox'[x]) <= InboxSize
           /\ unread' \in [Client -> Nat]
           /\ peer' \in [Client -> Name \cup {NoName}]
           /\ Counted(d)'
           /\ ~b => unread'[d] > 0
           /\ b => unread' = unread
           /\ \A x \in Client \ {d} : inbox'[x] = inbox[x] /\ unread'[x] = unread[x]
<1> DEFINE e == [id |-> id, sent |-> b, new |-> ~b]
           s == inbox[d]
           u == IF Len(s) < InboxSize THEN s ELSE Tail(s)
<1>1. e \in Entry /\ (e.new <=> ~b)
  BY EntryType
<1>2. /\ inbox \in [Client -> Seq(Entry)] /\ s \in Seq(Entry)
      /\ Len(s) \in Nat /\ Len(s) <= InboxSize
      /\ unread \in [Client -> Nat] /\ peer \in [Client -> Name \cup {NoName}]
      /\ Cardinality(Marked(s)) <= unread[d]
      /\ \A x \in Client : Len(inbox[x]) <= InboxSize
  BY LenProperties DEF WhisperInv, Typed, TypeOK, Shown, Counted
<1>3. InboxSize \in Nat \ {0}
  BY WhisperAssumption
<1>4. inbox' = [inbox EXCEPT ![d] = Append(u, e)]
  BY DEF AppendWhisper
<1>5. /\ unread' = IF b THEN unread ELSE [unread EXCEPT ![d] = @ + 1]
      /\ peer' = [peer EXCEPT ![d] = n]
  BY DEF AppendWhisper
<1> HIDE DEF e, s
<1>6. /\ u \in Seq(Entry) /\ Len(u) \in Nat /\ Len(u) + 1 <= InboxSize
      /\ Cardinality(Marked(u)) <= Cardinality(Marked(s))
  <2>1. CASE Len(s) < InboxSize
    <3>1. Cardinality(Marked(s)) \in Nat
      BY <1>2, MarkedFinite
    <3> QED BY <1>2, <1>3, <2>1, <3>1
  <2>2. CASE ~(Len(s) < InboxSize)
    <3>1. s # <<>>
      BY <1>2, <1>3, <2>2, EmptySeq
    <3>2. u = Tail(s)
      BY <2>2
    <3> QED BY <1>2, <1>3, <3>1, <3>2, TailInbox
  <2> QED BY <2>1, <2>2
<1> HIDE DEF u
<1>7. /\ Append(u, e) \in Seq(Entry) /\ Len(Append(u, e)) = Len(u) + 1
      /\ Cardinality(Marked(Append(u, e)))
            <= Cardinality(Marked(u)) + (IF e.new THEN 1 ELSE 0)
  BY <1>1, <1>6, AppendInbox
<1>8. /\ inbox' \in [Client -> Seq(Entry)] /\ inbox'[d] = Append(u, e)
      /\ \A x \in Client \ {d} : inbox'[x] = inbox[x]
  BY <1>2, <1>4, <1>7
<1>9. \A x \in Client : Len(inbox'[x]) <= InboxSize
  BY <1>2, <1>6, <1>7, <1>8
<1>10. peer' \in [Client -> Name \cup {NoName}]
  BY <1>2, <1>5
<1>11. /\ Cardinality(Marked(Append(u, e))) \in Nat
       /\ Cardinality(Marked(u)) \in Nat /\ Cardinality(Marked(s)) \in Nat
  BY <1>2, <1>6, <1>7, MarkedFinite
<1>12. CASE b
  <2>1. unread' = unread
    BY <1>5, <1>12
  <2>2. Cardinality(Marked(Append(u, e))) <= Cardinality(Marked(u)) + 0
    BY <1>1, <1>7, <1>12
  <2>3. Cardinality(Marked(Append(u, e))) <= unread[d]
    BY <1>2, <1>6, <1>11, <2>2
  <2> QED BY <1>2, <1>8, <1>9, <1>10, <1>12, <2>1, <2>3 DEF Counted
<1>13. CASE ~b
  <2>1. unread' = [unread EXCEPT ![d] = unread[d] + 1]
    BY <1>5, <1>13
  <2>2. /\ unread' \in [Client -> Nat] /\ unread'[d] = unread[d] + 1 /\ unread'[d] > 0
        /\ \A x \in Client \ {d} : unread'[x] = unread[x]
    BY <1>2, <2>1
  <2>3. Cardinality(Marked(Append(u, e))) <= Cardinality(Marked(u)) + 1
    BY <1>1, <1>7, <1>13
  <2>4. Cardinality(Marked(Append(u, e))) <= unread'[d]
    BY <1>2, <1>6, <1>11, <2>2, <2>3
  <2> QED BY <1>8, <1>9, <1>10, <1>13, <2>2, <2>4 DEF Counted
<1> QED BY <1>12, <1>13

(* append_inbox_output: the page shows all of the inbox, and no mark is    *)
(* left.                                                                   *)
LEMMA PageShown ==
    ASSUME WhisperInv, NEW c \in Client, AppendInboxOutput(c)
    PROVE  /\ inbox' \in [Client -> Seq(Entry)]
           /\ \A x \in Client : Len(inbox'[x]) <= InboxSize
           /\ unread' \in [Client -> Nat]
           /\ page' \in [Client -> SUBSET (1 .. MaxMsgs)]
           /\ Counted(c)'
           /\ Ids(inbox'[c]) = page'[c]
           /\ \A x \in Client \ {c} : /\ inbox'[x] = inbox[x] /\ unread'[x] = unread[x]
                                      /\ page'[x] = page[x]
<1> DEFINE s == inbox[c]
<1>1. /\ inbox \in [Client -> Seq(Entry)] /\ s \in Seq(Entry)
      /\ unread \in [Client -> Nat] /\ page \in [Client -> SUBSET (1 .. MaxMsgs)]
      /\ \A x \in Client : Len(inbox[x]) <= InboxSize
  BY DEF WhisperInv, Typed, TypeOK
<1>2. /\ Seen(s) \in Seq(Entry) /\ Len(Seen(s)) = Len(s)
      /\ Cardinality(Marked(Seen(s))) = 0 /\ Ids(Seen(s)) = Ids(s)
  BY <1>1, SeenInbox
<1>3. Ids(s) \in SUBSET (1 .. MaxMsgs)
  BY <1>1, IdsType
<1>4. /\ page' = [page EXCEPT ![c] = Ids(s)]
      /\ inbox' = [inbox EXCEPT ![c] = Seen(s)]
      /\ unread' = [unread EXCEPT ![c] = 0]
  BY DEF AppendInboxOutput
<1> HIDE DEF s
<1>5. /\ inbox' \in [Client -> Seq(Entry)] /\ inbox'[c] = Seen(s)
      /\ \A x \in Client \ {c} : inbox'[x] = inbox[x]
  BY <1>1, <1>2, <1>4
<1>6. /\ page' \in [Client -> SUBSET (1 .. MaxMsgs)] /\ page'[c] = Ids(s)
      /\ \A x \in Client \ {c} : page'[x] = page[x]
  BY <1>1, <1>3, <1>4
<1>7. /\ unread' \in [Client -> Nat] /\ unread'[c] = 0
      /\ \A x \in Client \ {c} : unread'[x] = unread[x]
  BY <1>1, <1>4
<1>8. \A x \in Client : Len(inbox'[x]) <= InboxSize
  BY <1>1, <1>2, <1>5 DEF s
<1>9. Counted(c)'
  BY <1>2, <1>5, <1>7 DEF Counted
<1> QED BY <1>2, <1>5, <1>6, <1>7, <1>8, <1>9

-----------------------------------------------------------------------------
(* One thread's step, seen by the others.                                  *)

LEMMA StillNotified ==
    ASSUME NEW c \in Client, NEW x \in Client,
           \A d \in Client \ {c} : pc'[d] = pc[d] /\ draft'[d] = draft[d],
           pc[c] \in {"copy", "bell"} => pc'[c] = "bell" /\ draft'[c] = draft[c],
           BeingNotified(x)
    PROVE  BeingNotified(x)'
  BY DEF BeingNotified

(* What c's step leaves alone stays as good as it was.                     *)
LEMMA OthersKept ==
    ASSUME WhisperInv, NEW c \in Client, Typed',
           \A x \in Client \ {c} : Alone(x),
           pc[c] \in {"copy", "bell"} => pc'[c] = "bell" /\ draft'[c] = draft[c],
           Shown(c)'
    PROVE  WhisperInv'
<1>1. SUFFICES ASSUME NEW x \in Client \ {c}
               PROVE  Shown(x)'
  BY DEF WhisperInv
<1>2. Alone(x) /\ Shown(x)
  BY DEF WhisperInv
<1>3. Counted(x)'
  BY <1>2 DEF Shown, Counted, Alone
<1>4. Fresh(x)'
  BY <1>2 DEF Shown, Fresh, Alone
<1>5. BeingNotified(x) => BeingNotified(x)'
  BY StillNotified DEF Alone
<1>6. Titled(x)'
  BY <1>2, <1>5 DEF Shown, Titled, Alone
<1> QED BY <1>3, <1>4, <1>6 DEF Shown

-----------------------------------------------------------------------------
(* The session's own steps.                                                *)

LEMMA JoinKept ==
    ASSUME WhisperInv, NEW c \in Client, Join(c)
    PROVE  WhisperInv'
<1> USE DEF Join, Goto, store, screen
<1>1. Typed /\ Shown(c)
  BY DEF WhisperInv
<1>2. Typed'
  <2>1. members' \in Seq(Client)
    BY <1>1, AppendProperties DEF Typed, TypeOK
  <2>2. inbox' \in [Client -> Seq(Entry)] /\ \A x \in Client : Len(inbox'[x]) <= InboxSize
    BY <1>1, EmptyInbox, WhisperAssumption DEF Typed, TypeOK
  <2>3. /\ name' \in [Client -> Name] /\ unread' \in [Client -> Nat]
        /\ peer' \in [Client -> Name \cup {NoName}] /\ redraw' \in [Client -> BOOLEAN]
        /\ msgs' = msgs
    BY <1>1 DEF Typed, TypeOK
  <2> QED BY <1>1, <2>1, <2>2, <2>3 DEF Typed, TypeOK, Sending
<1>3. \A x \in Client \ {c} : Alone(x)
  BY <1>1 DEF Typed, TypeOK, Alone
<1>4. Counted(c)'
  BY <1>1, EmptyInbox DEF Typed, TypeOK, Counted
<1>5. Fresh(c)' /\ Titled(c)'
  BY <1>1 DEF Typed, TypeOK, Shown, Fresh, Titled
<1> QED BY <1>2, <1>3, <1>4, <1>5, OthersKept DEF Shown

LEMMA LeaveKept ==
    ASSUME WhisperInv, NEW c \in Client, Leave(c)
    PROVE  WhisperInv'
<1> USE DEF Leave, Goto, store
<1>1. Typed /\ Shown(c)
  BY DEF WhisperInv
<1>2. Typed'
  <2>1. members' \in Seq(Client)
    <3>1. PICK i \in 1 .. Len(members) : members' = RemoveAt(members, i)
      BY DEF RoomRemoveClient
    <3>2. /\ Len(members) \in Nat /\ i \in Int
          /\ \A j \in 1 .. Len(members) : members[j] \in Client
      BY <1>1, LenProperties, ElementOfSeq DEF Typed, TypeOK
    <3>3. /\ \A j \in 1 .. i - 1 : members[j] \in Client
          /\ \A j \in i + 1 .. Len(members) : members[j] \in Client
      BY <3>2
    <3>4. /\ SubSeq(members, 1, i - 1) \in Seq(Client)
          /\ SubSeq(members, i + 1, Len(members)) \in Seq(Client)
      BY <3>2, <3>3, SubSeqProperties
    <3> QED BY <3>1, <3>4, ConcatProperties DEF RemoveAt
  <2> QED BY <1>1, <2>1 DEF Typed, TypeOK, Sending
<1>3. \A x \in Client \ {c} : Alone(x)
  BY <1>1 DEF Typed, TypeOK, Alone
<1>4. Counted(c)'
  BY <1>1 DEF Shown, Counted
<1>5. Fresh(c)' /\ Titled(c)'
  BY <1>1 DEF Typed, TypeOK, Fresh, Titled
<1> QED BY <1>2, <1>3, <1>4, <1>5, OthersKept DEF Shown

LEMMA NickKept ==
    ASSUME WhisperInv, NEW c \in Client, NEW n \in Name, Nick(c, n)
    PROVE  WhisperInv'
<1> USE DEF Nick, store
<1>1. Typed /\ Shown(c)
  BY DEF WhisperInv
<1>2. Typed'
  BY <1>1 DEF Typed, TypeOK
<1>3. \A x \in Client \ {c} : Alone(x)
  BY <1>1 DEF Typed, TypeOK, Alone
<1>4. Shown(c)'
  BY <1>1 DEF Typed, TypeOK, Shown, Counted, Fresh, Titled
<1> QED BY <1>1, <1>2, <1>3, <1>4, OthersKept

LEMMA DraftKept ==
    ASSUME WhisperInv, NEW c \in Client, NEW n \in Name \cup {NoName},
           pc[c] = "loop", view[c] = "chat", Draft(c, n)
    PROVE  WhisperInv'
<1> USE DEF Draft, Goto, store, screen
<1>1. Typed /\ Shown(c)
  BY DEF WhisperInv
<1>2. Typed'
  <2>1. MaxMsgs \in Nat /\ msgs \in 0 .. MaxMsgs /\ msgs' \in 0 .. MaxMsgs
        /\ msgs + 1 \in 0 .. MaxMsgs /\ msgs + 1 # 0
    BY <1>1, WhisperAssumption DEF Typed, TypeOK
  <2> DEFINE q == [id |-> msgs + 1, to |-> n, target |-> {}]
  <2>2. q \in Drafts /\ q.id # 0
    BY <2>1 DEF Drafts
  <2>3. draft' = [draft EXCEPT ![c] = q]
    OBVIOUS
  <2> HIDE DEF q
  <2>4. /\ draft' \in [Client -> Drafts] /\ draft'[c] = q
        /\ \A x \in Client \ {c} : draft'[x] = draft[x]
    BY <1>1, <2>2, <2>3 DEF Typed
  <2> QED BY <1>1, <2>1, <2>2, <2>4 DEF Typed, TypeOK, Sending
<1>3. \A x \in Client \ {c} : Alone(x)
  BY <1>1 DEF Typed, TypeOK, Alone
<1>4. Shown(c)'
  BY <1>1 DEF Typed, TypeOK, Shown, Counted, Fresh, Titled
<1> QED BY <1>2, <1>3, <1>4, OthersKept

LEMMA ReplyKept ==
    ASSUME WhisperInv, NEW c \in Client, Reply(c)
    PROVE  WhisperInv'
<1>1. Typed /\ Shown(c) /\ pc[c] = "loop" /\ view[c] = "chat"
  BY DEF WhisperInv, Reply
<1>2. CASE peer[c] # NoName
  <2>1. peer[c] \in Name \cup {NoName}
    BY <1>1 DEF Typed, TypeOK
  <2> QED BY <1>1, <1>2, <2>1, DraftKept DEF Reply
<1>3. CASE peer[c] = NoName
  <2>1. /\ view' = [view EXCEPT ![c] = "other"]
        /\ UNCHANGED <<members, name, store, redraw, pc, page, title, draft, msgs>>
    BY <1>3 DEF Reply
  <2>2. Typed'
    BY <1>1, <2>1 DEF Typed, TypeOK, store
  <2>3. \A x \in Client \ {c} : Alone(x)
    BY <1>1, <2>1 DEF Typed, TypeOK, Alone, store
  <2>4. Shown(c)'
    BY <1>1, <2>1 DEF Typed, TypeOK, Shown, Counted, Fresh, Titled, store
  <2> QED BY <1>1, <2>1, <2>2, <2>3, <2>4, OthersKept
<1> QED BY <1>2, <1>3

LEMMA FindKept ==
    ASSUME WhisperInv, NEW c \in Client, Find(c)
    PROVE  WhisperInv'
<1>1. Typed /\ Shown(c) /\ pc[c] = "find"
  BY DEF WhisperInv, Find
<1>2. /\ view[c] # "inbox" /\ draft[c] \in Drafts /\ draft[c].id # 0
      /\ UNCHANGED <<members, name, store, redraw, page, title, msgs>>
  BY <1>1 DEF Typed, TypeOK, Sending, Shown, Fresh, Find
<1>3. CASE Named(draft[c].to) = {}
  <2>1. /\ draft' = [draft EXCEPT ![c] = NoDraft]
        /\ view' = [view EXCEPT ![c] = "other"]
        /\ pc' = [pc EXCEPT ![c] = "loop"]
    BY <1>3 DEF Find, Goto
  <2>2. NoDraft \in Drafts
    BY WhisperAssumption DEF NoDraft, Drafts
  <2>3. Typed'
    BY <1>1, <1>2, <2>1, <2>2 DEF Typed, TypeOK, Sending, store
  <2>4. \A x \in Client \ {c} : Alone(x)
    BY <1>1, <1>2, <2>1 DEF Typed, TypeOK, Alone, store
  <2>5. Shown(c)'
    BY <1>1, <1>2, <2>1 DEF Typed, TypeOK, Shown, Counted, Fresh, Titled, store
  <2> QED BY <1>1, <2>3, <2>4, <2>5, OthersKept
<1>4. CASE Named(draft[c].to) # {}
  <2>1. PICK i \in Named(draft[c].to) :
           /\ draft' = [draft EXCEPT ![c] = [draft[c] EXCEPT !.target = {members[i]}]]
           /\ pc' = [pc EXCEPT ![c] = "deliver"]
           /\ UNCHANGED view
    BY <1>4 DEF Find, Goto
  <2>2. members[i] \in Client
    BY <1>1, ElementOfSeq DEF Named, Typed, TypeOK
  <2> DEFINE q == [draft[c] EXCEPT !.target = {members[i]}]
  <2>3. q \in Drafts /\ q.id # 0
    BY <1>2, <2>2 DEF Drafts
  <2> HIDE DEF q
  <2>4. /\ draft' \in [Client -> Drafts] /\ draft'[c] = q
        /\ \A x \in Client \ {c} : draft'[x] = draft[x]
    BY <1>1, <2>1, <2>3 DEF Typed, q
  <2>5. Typed'
    BY <1>1, <1>2, <2>1, <2>3, <2>4 DEF Typed, TypeOK, Sending, store
  <2>6. \A x \in Client \ {c} : Alone(x)
    BY <1>1, <1>2, <2>1, <2>4 DEF Typed, TypeOK, Alone, store
  <2>7. Shown(c)'
    BY <1>1, <1>2, <2>1 DEF Typed, TypeOK, Shown, Counted, Fresh, Titled, store
  <2> QED BY <1>1, <2>5, <2>6, <2>7, OthersKept
<1> QED BY <1>3, <1>4

(* The message is counted before anybody asks the target to draw it: until *)
(* then the sender owes the bell.                                          *)
LEMMA DeliverKept ==
    ASSUME WhisperInv, NEW c \in Client, Deliver(c)
    PROVE  WhisperInv'
<1>1. Typed /\ pc[c] = "deliver" /\ \A x \in Client : Shown(x)
  BY DEF WhisperInv, Deliver
<1>2. PICK d \in draft[c].target :
         /\ AppendWhisper(d, draft[c].id, name[c], FALSE)
         /\ Goto(c, IF d = c THEN "bell" ELSE "copy")
  BY DEF Deliver
<1>3. UNCHANGED <<members, name, redraw, screen, draft, msgs>>
  BY DEF Deliver
<1>4. /\ d \in Client /\ draft[c].id \in 1 .. MaxMsgs
      /\ name[c] \in Name \cup {NoName}
  BY <1>1 DEF Typed, TypeOK, Sending, Drafts
<1>5. /\ inbox' \in [Client -> Seq(Entry)]
      /\ \A x \in Client : Len(inbox'[x]) <= InboxSize
      /\ unread' \in [Client -> Nat]
      /\ peer' \in [Client -> Name \cup {NoName}]
      /\ Counted(d)'
      /\ unread'[d] > 0
      /\ \A x \in Client \ {d} : inbox'[x] = inbox[x] /\ unread'[x] = unread[x]
  BY <1>2, <1>4, WhisperAppended
<1>6. /\ pc'[c] \in {"copy", "bell"} /\ pc' = [pc EXCEPT ![c] = pc'[c]]
      /\ \A x \in Client \ {c} : pc'[x] = pc[x]
  BY <1>1, <1>2 DEF Typed, TypeOK, Goto
<1>7. Typed'
  <2>1. /\ pc' \in [Client -> {"out", "loop", "find", "deliver", "copy", "bell",
                             "cleared", "decide", "render"}]
        /\ \A x \in Client : pc'[x] \in Sending => draft[x].id # 0
    BY <1>1, <1>6, ZenonT(30) DEF Typed, TypeOK, Sending
  <2>2. TypeOK'
    BY <1>1, <1>3, <1>5, <2>1 DEF Typed, TypeOK, screen
  <2> QED BY <1>1, <1>3, <2>1, <2>2 DEF Typed
<1>8. \A x \in Client : BeingNotified(x) => BeingNotified(x)'
  BY <1>1, <1>3, <1>6, StillNotified
<1>9. BeingNotified(d)'
  BY <1>2, <1>3, <1>6 DEF BeingNotified
<1>10. ASSUME NEW x \in Client
       PROVE  Shown(x)'
  <2>1. Shown(x)
    BY <1>1
  <2>2. CASE x = c
    <3>1. Counted(x)'
      BY <1>5, <2>1, <2>2 DEF Shown, Counted
    <3>2. view'[x] # "inbox"
      BY <1>1, <1>3, <2>1, <2>2 DEF Shown, Fresh, screen
    <3> QED BY <1>6, <2>2, <3>1, <3>2 DEF Shown, Fresh, Titled
  <2>3. CASE x # c /\ x = d
    <3>1. view'[x] = view[x] /\ pc'[x] = pc[x]
      BY <1>3, <1>6, <2>3 DEF screen
    <3>2. Fresh(x)'
      BY <1>5, <2>1, <2>3, <3>1 DEF Shown, Fresh
    <3>3. Titled(x)'
      BY <1>9, <2>3 DEF Titled
    <3> QED BY <1>5, <2>3, <3>2, <3>3 DEF Shown
  <2>4. CASE x # c /\ x # d
    <3>1. /\ inbox'[x] = inbox[x] /\ unread'[x] = unread[x] /\ pc'[x] = pc[x]
          /\ view'[x] = view[x] /\ page'[x] = page[x] /\ title'[x] = title[x]
          /\ redraw'[x] = redraw[x]
      BY <1>3, <1>5, <1>6, <2>4 DEF screen
    <3>2. Counted(x)'
      BY <2>1, <3>1 DEF Shown, Counted
    <3>3. Fresh(x)'
      BY <2>1, <3>1 DEF Shown, Fresh
    <3>4. Titled(x)'
      BY <1>8, <2>1, <3>1 DEF Shown, Titled
    <3> QED BY <3>2, <3>3, <3>4 DEF Shown
  <2> QED BY <2>2, <2>3, <2>4
<1> QED BY <1>7, <1>10 DEF WhisperInv

LEMMA CopySentKept ==
    ASSUME WhisperInv, NEW c \in Client, CopySent(c)
    PROVE  WhisperInv'
<1>1. Typed /\ Shown(c) /\ pc[c] = "copy"
  BY DEF WhisperInv, CopySent
<1>2. /\ AppendWhisper(c, draft[c].id, draft[c].to, TRUE)
      /\ pc' = [pc EXCEPT ![c] = "bell"]
      /\ UNCHANGED <<members, name, redraw, screen, draft, msgs>>
  BY DEF CopySent, Goto
<1>3. draft[c].id \in 1 .. MaxMsgs /\ draft[c].to \in Name \cup {NoName}
  BY <1>1 DEF Typed, TypeOK, Sending, Drafts
<1>4. /\ inbox' \in [Client -> Seq(Entry)]
      /\ \A x \in Client : Len(inbox'[x]) <= InboxSize
      /\ unread' \in [Client -> Nat]
      /\ peer' \in [Client -> Name \cup {NoName}]
      /\ Counted(c)'
      /\ \A x \in Client \ {c} : inbox'[x] = inbox[x] /\ unread'[x] = unread[x]
  BY <1>2, <1>3, WhisperAppended
<1>5. Typed'
  BY <1>1, <1>2, <1>4 DEF Typed, TypeOK, Sending, screen
<1>6. \A x \in Client \ {c} : Alone(x)
  BY <1>1, <1>2, <1>4 DEF Typed, TypeOK, Alone, screen
<1>7. pc'[c] = "bell" /\ draft'[c] = draft[c] /\ view'[c] = view[c]
  BY <1>1, <1>2 DEF Typed, TypeOK, screen
<1>8. Fresh(c)' /\ Titled(c)'
  BY <1>1, <1>7 DEF Shown, Fresh, Titled
<1> QED BY <1>4, <1>5, <1>6, <1>7, <1>8, OthersKept DEF Shown

(* Whoever c was notifying is now asked to draw.                           *)
LEMMA BellKept ==
    ASSUME WhisperInv, NEW c \in Client, Bell(c)
    PROVE  WhisperInv'
<1>1. Typed /\ pc[c] = "bell" /\ \A x \in Client : Shown(x)
  BY DEF WhisperInv, Bell
<1>2. /\ redraw' = [d \in Client |-> redraw[d] \/ d \in draft[c].target]
      /\ draft' = [draft EXCEPT ![c] = NoDraft]
      /\ view' = [view EXCEPT ![c] = "other"]
      /\ pc' = [pc EXCEPT ![c] = "loop"]
      /\ UNCHANGED <<members, name, store, page, title, msgs>>
  BY DEF Bell, Goto
<1>3. NoDraft \in Drafts
  BY WhisperAssumption DEF NoDraft, Drafts
<1>4. Typed'
  BY <1>1, <1>2, <1>3 DEF Typed, TypeOK, Sending, store
<1>5. /\ view'[c] = "other"
      /\ \A x \in Client \ {c} : pc'[x] = pc[x] /\ draft'[x] = draft[x] /\ view'[x] = view[x]
  BY <1>1, <1>2 DEF Typed, TypeOK
<1>6. \A x \in Client : BeingNotified(x) => redraw'[x] \/ BeingNotified(x)'
  BY <1>2, <1>5 DEF BeingNotified
<1>7. \A x \in Client : redraw[x] => redraw'[x]
  BY <1>2
<1>8. ASSUME NEW x \in Client
      PROVE  Shown(x)'
  <2>1. Shown(x)
    BY <1>1
  <2>2. Counted(x)'
    BY <1>2, <2>1 DEF Shown, Counted, store
  <2>3. CASE x = c
    BY <1>5, <2>2, <2>3 DEF Shown, Fresh, Titled
  <2>4. CASE x # c
    <3>1. /\ inbox'[x] = inbox[x] /\ unread'[x] = unread[x] /\ page'[x] = page[x]
          /\ title'[x] = title[x] /\ pc'[x] = pc[x] /\ view'[x] = view[x]
      BY <1>2, <1>5, <2>4 DEF store
    <3>2. Fresh(x)'
      BY <2>1, <3>1 DEF Shown, Fresh
    <3>3. Titled(x)'
      BY <1>6, <1>7, <2>1, <3>1 DEF Shown, Titled
    <3> QED BY <2>2, <3>2, <3>3 DEF Shown
  <2> QED BY <2>3, <2>4
<1> QED BY <1>4, <1>8 DEF WhisperInv

LEMMA InboxKept ==
    ASSUME WhisperInv, NEW c \in Client, Inbox(c)
    PROVE  WhisperInv'
<1>1. Typed /\ Shown(c) /\ pc[c] \in {"loop", "cleared"}
  BY DEF WhisperInv, Inbox
<1>2. /\ AppendInboxOutput(c)
      /\ view' = [view EXCEPT ![c] = "inbox"]
      /\ pc' = [pc EXCEPT ![c] = "loop"]
      /\ UNCHANGED <<members, name, redraw, title, draft, msgs>>
  BY DEF Inbox, Goto
<1>3. peer' = peer
  BY <1>2 DEF AppendInboxOutput
<1>4. /\ inbox' \in [Client -> Seq(Entry)]
      /\ \A x \in Client : Len(inbox'[x]) <= InboxSize
      /\ unread' \in [Client -> Nat]
      /\ page' \in [Client -> SUBSET (1 .. MaxMsgs)]
      /\ Counted(c)'
      /\ Ids(inbox'[c]) = page'[c]
      /\ \A x \in Client \ {c} : /\ inbox'[x] = inbox[x] /\ unread'[x] = unread[x]
                                 /\ page'[x] = page[x]
  BY <1>2, PageShown
<1>5. Typed'
  BY <1>1, <1>2, <1>3, <1>4 DEF Typed, TypeOK, Sending
<1>6. \A x \in Client \ {c} : Alone(x)
  BY <1>1, <1>2, <1>4 DEF Typed, TypeOK, Alone
<1>7. pc'[c] = "loop" /\ view'[c] = "inbox"
  BY <1>1, <1>2 DEF Typed, TypeOK
<1>8. Fresh(c)' /\ Titled(c)'
  BY <1>4, <1>7 DEF Fresh, Titled
<1> QED BY <1>1, <1>4, <1>5, <1>6, <1>8, OthersKept DEF Shown

LEMMA InboxClearKept ==
    ASSUME WhisperInv, NEW c \in Client, InboxClear(c)
    PROVE  WhisperInv'
<1> USE DEF InboxClear, Goto, screen
<1>1. Typed /\ Shown(c)
  BY DEF WhisperInv
<1>2. Typed'
  <2>1. inbox' \in [Client -> Seq(Entry)] /\ \A x \in Client : Len(inbox'[x]) <= InboxSize
    BY <1>1, EmptyInbox, WhisperAssumption DEF Typed, TypeOK
  <2> QED BY <1>1, <2>1 DEF Typed, TypeOK, Sending
<1>3. \A x \in Client \ {c} : Alone(x)
  BY <1>1 DEF Typed, TypeOK, Alone
<1>4. Counted(c)'
  BY <1>1, EmptyInbox DEF Typed, TypeOK, Counted
<1>5. Fresh(c)' /\ Titled(c)'
  BY <1>1 DEF Typed, TypeOK, Fresh, Titled
<1> QED BY <1>2, <1>3, <1>4, <1>5, OthersKept DEF Shown

LEMMA KeyRefreshKept ==
    ASSUME WhisperInv, NEW c \in Client, KeyRefresh(c)
    PROVE  WhisperInv'
<1>1. Typed /\ Shown(c) /\ pc[c] = "loop" /\ view[c] = "inbox"
  BY DEF WhisperInv, KeyRefresh
<1>2. /\ AppendInboxOutput(c)
      /\ UNCHANGED <<members, name, peer, redraw, pc, view, title, draft, msgs>>
  BY DEF KeyRefresh, AppendInboxOutput
<1>3. /\ inbox' \in [Client -> Seq(Entry)]
      /\ \A x \in Client : Len(inbox'[x]) <= InboxSize
      /\ unread' \in [Client -> Nat]
      /\ page' \in [Client -> SUBSET (1 .. MaxMsgs)]
      /\ Counted(c)'
      /\ Ids(inbox'[c]) = page'[c]
      /\ \A x \in Client \ {c} : /\ inbox'[x] = inbox[x] /\ unread'[x] = unread[x]
                                 /\ page'[x] = page[x]
  BY <1>2, PageShown
<1>4. Typed'
  BY <1>1, <1>2, <1>3 DEF Typed, TypeOK
<1>5. \A x \in Client \ {c} : Alone(x)
  BY <1>2, <1>3 DEF Alone
<1>6. Fresh(c)' /\ Titled(c)'
  BY <1>1, <1>2, <1>3 DEF Fresh, Titled
<1> QED BY <1>1, <1>3, <1>4, <1>5, <1>6, OthersKept DEF Shown

LEMMA DismissKept ==
    ASSUME WhisperInv, NEW c \in Client, Dismiss(c)
    PROVE  WhisperInv'
<1> USE DEF Dismiss, Goto, store
<1>1. Typed /\ Shown(c)
  BY DEF WhisperInv
<1>2. Typed'
  BY <1>1 DEF Typed, TypeOK, Sending
<1>3. \A x \in Client \ {c} : Alone(x)
  BY <1>1 DEF Typed, TypeOK, Alone
<1>4. Shown(c)'
  BY <1>1 DEF Typed, TypeOK, Shown, Counted, Fresh, Titled
<1> QED BY <1>2, <1>3, <1>4, OthersKept

LEMMA PollKept ==
    ASSUME WhisperInv, NEW c \in Client, Poll(c)
    PROVE  WhisperInv'
<1>1. Typed /\ Shown(c) /\ pc[c] = "loop"
  BY DEF WhisperInv, Poll
<1>2. /\ pc' = [pc EXCEPT ![c] = "decide"]
      /\ UNCHANGED <<members, name, view, title, draft, msgs>>
  BY DEF Poll, Goto
<1>3. /\ pc'[c] = "decide" /\ \A x \in Client \ {c} : pc'[x] = pc[x]
  BY <1>1, <1>2 DEF Typed, TypeOK
<1>4. CASE view[c] = "inbox" /\ unread[c] > 0
  <2>1. AppendInboxOutput(c) /\ redraw' = [redraw EXCEPT ![c] = TRUE] /\ peer' = peer
    BY <1>4 DEF Poll, AppendInboxOutput
  <2>2. /\ inbox' \in [Client -> Seq(Entry)]
        /\ \A x \in Client : Len(inbox'[x]) <= InboxSize
        /\ unread' \in [Client -> Nat]
        /\ page' \in [Client -> SUBSET (1 .. MaxMsgs)]
        /\ Counted(c)'
        /\ Ids(inbox'[c]) = page'[c]
        /\ \A x \in Client \ {c} : /\ inbox'[x] = inbox[x] /\ unread'[x] = unread[x]
                                   /\ page'[x] = page[x]
    BY <2>1, PageShown
  <2>3. Typed'
    BY <1>1, <1>2, <2>1, <2>2 DEF Typed, TypeOK, Sending
  <2>4. \A x \in Client \ {c} : Alone(x)
    BY <1>1, <1>2, <1>3, <2>1, <2>2 DEF Typed, TypeOK, Alone
  <2>5. Fresh(c)' /\ Titled(c)'
    BY <1>2, <1>3, <1>4, <2>2 DEF Fresh, Titled
  <2> QED BY <1>1, <2>2, <2>3, <2>4, <2>5, OthersKept DEF Shown
<1>5. CASE ~(view[c] = "inbox" /\ unread[c] > 0)
  <2>1. UNCHANGED <<inbox, unread, peer, page, redraw>>
    BY <1>5 DEF Poll, store
  <2>2. Typed'
    BY <1>1, <1>2, <2>1 DEF Typed, TypeOK, Sending
  <2>3. \A x \in Client \ {c} : Alone(x)
    BY <1>2, <1>3, <2>1 DEF Alone
  <2>4. Counted(c)'
    BY <1>1, <2>1 DEF Shown, Counted
  <2>5. Fresh(c)'
    BY <1>1, <1>2, <1>3, <2>1 DEF Shown, Fresh
  <2>6. BeingNotified(c) => BeingNotified(c)'
    BY <1>1, <1>2, <1>3, StillNotified
  <2>7. Titled(c)'
    BY <1>1, <1>2, <2>1, <2>6 DEF Shown, Titled
  <2> QED BY <1>1, <2>2, <2>3, <2>4, <2>5, <2>7, OthersKept DEF Shown
<1> QED BY <1>4, <1>5

(* A pending redraw is consumed by drawing, and otherwise there is none.   *)
LEMMA DecideKept ==
    ASSUME WhisperInv, NEW c \in Client, Decide(c)
    PROVE  WhisperInv'
<1>1. Typed /\ Shown(c) /\ pc[c] = "decide"
  BY DEF WhisperInv, Decide
<1>2. UNCHANGED <<members, name, inbox, unread, peer, view, page, title, draft, msgs>>
  BY DEF Decide, store, screen
<1>3. \/ /\ redraw' = [redraw EXCEPT ![c] = FALSE]
         /\ pc' = [pc EXCEPT ![c] = IF view[c] = "chat" THEN "render" ELSE "loop"]
      \/ /\ ~redraw[c] /\ redraw' = redraw
         /\ pc' = [pc EXCEPT ![c] = "loop"]
  BY DEF Decide, Goto
<1>4. \A x \in Client \ {c} : pc'[x] = pc[x] /\ redraw'[x] = redraw[x]
  BY <1>1, <1>3 DEF Typed, TypeOK
<1>5. Typed'
  BY <1>1, <1>2, <1>3 DEF Typed, TypeOK, Sending
<1>6. \A x \in Client \ {c} : Alone(x)
  BY <1>2, <1>4 DEF Alone
<1>7. Counted(c)'
  BY <1>1, <1>2 DEF Shown, Counted
<1>8. BeingNotified(c) => BeingNotified(c)'
  BY <1>1, <1>2, <1>4, StillNotified
<1>9. Fresh(c)' /\ Titled(c)'
  <2>1. CASE view[c] = "chat" /\ pc'[c] = "render"
    BY <1>2, <2>1 DEF Fresh, Titled
  <2>2. CASE view[c] # "chat" /\ pc'[c] = "loop"
    BY <1>1, <1>2, <2>2 DEF Shown, Fresh, Titled
  <2>3. CASE ~redraw[c] /\ redraw' = redraw /\ pc'[c] = "loop"
    BY <1>1, <1>2, <1>8, <2>3 DEF Shown, Fresh, Titled
  <2> QED BY <1>1, <1>3, <2>1, <2>2, <2>3 DEF Typed, TypeOK
<1> QED BY <1>1, <1>5, <1>6, <1>7, <1>9, OthersKept DEF Shown

LEMMA RenderKept ==
    ASSUME WhisperInv, NEW c \in Client, Render(c)
    PROVE  WhisperInv'
<1> USE DEF Render, Goto, store
<1>1. Typed /\ Shown(c)
  BY DEF WhisperInv
<1>2. Typed'
  BY <1>1 DEF Typed, TypeOK, Sending
<1>3. \A x \in Client \ {c} : Alone(x)
  BY <1>1 DEF Typed, TypeOK, Alone
<1>4. Shown(c)'
  BY <1>1 DEF Typed, TypeOK, Shown, Counted, Fresh, Titled
<1> QED BY <1>2, <1>3, <1>4, OthersKept

-----------------------------------------------------------------------------

(* For any sessions, names, messages and size of the inbox, WhisperInv     *)
(* holds in every state of Whisper.                                        *)
THEOREM WhisperInvariant == Spec => []WhisperInv
<1>1. Init => WhisperInv
  <2> SUFFICES ASSUME Init
               PROVE  WhisperInv
    OBVIOUS
  <2>1. <<>> \in Seq(Client) /\ MaxMsgs \in Nat /\ InboxSize \in Nat
    BY EmptySeq, WhisperAssumption
  <2>2. NoDraft \in Drafts
    BY <2>1 DEF NoDraft, Drafts
  <2>3. Typed
    BY <2>1, <2>2, EmptyInbox DEF Init, Typed, TypeOK, Sending
  <2>4. \A c \in Client : Counted(c)
    BY EmptyInbox DEF Init, Counted
  <2>5. \A c \in Client : Fresh(c) /\ Titled(c)
    BY DEF Init, Fresh, Titled
  <2> QED BY <2>3, <2>4, <2>5 DEF WhisperInv, Shown
<1>2. WhisperInv /\ [Next]_vars => WhisperInv'
  <2> SUFFICES ASSUME WhisperInv, [Next]_vars
               PROVE  WhisperInv'
    OBVIOUS
  <2>1. CASE UNCHANGED vars
    BY <2>1 DEF WhisperInv, Typed, TypeOK, Shown, Counted, Fresh, Titled, BeingNotified,
                vars, store, screen
  <2>2. ASSUME NEW c \in Client, ThreadStep(c) \/ Poll(c)
        PROVE  WhisperInv'
    BY <2>2, FindKept, DeliverKept, CopySentKept, BellKept, InboxKept, DecideKept,
       RenderKept, PollKept DEF ThreadStep
  <2>3. ASSUME NEW c \in Client, UserStep(c)
        PROVE  WhisperInv'
    <3>1. ASSUME NEW n \in Name, Msg(c, n)
          PROVE  WhisperInv'
      BY <3>1, DraftKept DEF Msg
    <3> QED BY <2>3, <3>1, JoinKept, LeaveKept, NickKept, ReplyKept, InboxKept,
               InboxClearKept, KeyRefreshKept, DismissKept DEF UserStep
  <2> QED BY <2>1, <2>2, <2>3 DEF Next
<1> QED BY <1>1, <1>2, PTL DEF Spec

(* A message marked as unread is counted in unread_whispers, whatever is   *)
(* delivered, read and cleared meanwhile.                                  *)
THEOREM WhisperMarksCounted == Spec => []MarkedAreCounted
<1>1. WhisperInv => MarkedAreCounted
  BY DEF WhisperInv, Shown, Counted, Marked, MarkedAreCounted
<1> QED BY <1>1, WhisperInvariant, PTL

(* What an open inbox page does not show yet is counted, so that the next  *)
(* poll refreshes the page.                                                *)
THEOREM WhisperInboxFresh == Spec => []InboxFresh
<1>1. WhisperInv => InboxFresh
  BY DEF WhisperInv, Shown, Fresh, InboxFresh
<1> QED BY <1>1, WhisperInvariant, PTL

(* A title bar with an old unread count is about to be redrawn.            *)
THEOREM WhisperTitleFresh == Spec => []TitleFresh
<1>1. WhisperInv => TitleFresh
  BY DEF WhisperInv, Shown, Titled, TitleFresh
<1> QED BY <1>1, WhisperInvariant, PTL

=============================================================================
