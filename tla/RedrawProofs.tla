---------------------------- MODULE RedrawProofs -----------------------------
(***************************************************************************)
(* No redraw is lost and the online count is right, for any number of      *)
(* sessions, other threads and broadcasts: FreshInv and OnlineInv are      *)
(* invariants of Redraw.                                                   *)
(***************************************************************************)
EXTENDS Redraw, FiniteSetTheorems, TLAPS

(* The clients of the room can be counted.                                 *)
LEMMA MembersCount == TypeOK => Cardinality(members) \in Nat
<1>1. IsFiniteSet(Thread)
  BY RedrawAssumption, FS_Union DEF Thread
<1> QED BY <1>1, FS_Subset, FS_CardinalityType DEF TypeOK

(* What a drawing takes down is a screen.                                  *)
LEMMA ScreenType ==
    ASSUME NEW scr \in Screens, NEW n \in Nat
    PROVE  /\ [scr EXCEPT !.seq = n] \in Screens /\ [scr EXCEPT !.seq = n].seq = n
           /\ [scr EXCEPT !.seq = n].by = scr.by
           /\ [scr EXCEPT !.online = n] \in Screens
           /\ [scr EXCEPT !.online = n].by = scr.by /\ [scr EXCEPT !.online = n].seq = scr.seq
           /\ [scr EXCEPT !.mentions = n] \in Screens
           /\ [scr EXCEPT !.mentions = n].by = scr.by
           /\ [scr EXCEPT !.mentions = n].seq = scr.seq
           /\ \A b \in {"join", "loop"} :
                 /\ [scr EXCEPT !.by = b] \in Screens /\ [scr EXCEPT !.by = b].by = b
                 /\ [scr EXCEPT !.by = b].seq = scr.seq
  BY DEF Screens

LEMMA NoScreenType == NoScreen \in Screens /\ NoScreen.by = "join"
  BY DEF NoScreen, Screens

(* And what a poster keeps is a post.                                      *)
LEMMA NoPostType == NoPost \in Posts
  BY DEF NoPost, Posts

LEMMA PostType ==
    ASSUME NEW p \in Posts, NEW S \in SUBSET Client, NEW T \in SUBSET Client
    PROVE  /\ [p EXCEPT !.todo = S, !.counted = T] \in Posts
           /\ [p EXCEPT !.counted = S, !.belled = T] \in Posts
           /\ [p EXCEPT !.at = "announce"] \in Posts
           /\ [p EXCEPT !.at = "collect"] \in Posts
  BY DEF Posts

(* A step of a thread that leaves the sessions alone.                      *)
LEMMA OutsideStep ==
    ASSUME FreshInv, TypeOK', UNCHANGED loop, seq' = seq \/ seq' = seq + 1
    PROVE  FreshInv'
<1> SUFFICES ASSUME NEW c \in Client PROVE Fresh(c)'
  BY DEF FreshInv
<1>1. Fresh(c) /\ seen[c] \in Nat /\ current[c] \in Nat /\ seq \in Nat
  BY DEF FreshInv, TypeOK
<1> QED BY <1>1 DEF Fresh, Bare, loop, memory

(* A step of one session.                                                  *)
LEMMA SessionStep ==
    ASSUME FreshInv, TypeOK', NEW c \in Client, Fresh(c)', seq' = seq \/ seq' = seq + 1,
           \A d \in Client \ {c} :
              /\ pc'[d] = pc[d] /\ seen'[d] = seen[d] /\ current'[d] = current[d]
              /\ overlay'[d] = overlay[d] /\ screen'[d] = screen[d] /\ lost'[d] = lost[d]
    PROVE  FreshInv'
<1> SUFFICES ASSUME NEW d \in Client, d # c PROVE Fresh(d)'
  BY DEF FreshInv
<1>1. Fresh(d) /\ seen[d] \in Nat /\ current[d] \in Nat /\ seq \in Nat
  BY DEF FreshInv, TypeOK
<1> QED BY <1>1 DEF Fresh, Bare

-----------------------------------------------------------------------------
(* Steps of other threads, and of this one in notify_mentions.             *)

LEMMA PostStepInv ==
    ASSUME FreshInv, NEW t \in Thread, PostStep(t)
    PROVE  FreshInv'
<1> USE DEF FreshInv
<1>1. TypeOK'
  <2>1. ASSUME NEW targets \in SUBSET Client, Collect(t, targets)
        PROVE  TypeOK'
    <3>1. [NoPost EXCEPT !.at = "notify", !.todo = targets] \in Posts
      BY DEF NoPost, Posts
    <3> QED BY <2>1, <3>1, NoPostType DEF Collect, TypeOK, room, loop, memory, flags
  <2>2. ASSUME NEW c \in Client, NotifyCount(t, c)
        PROVE  TypeOK'
    <3>1. post' \in [Thread -> Posts]
      <4>1. post[t] \in Posts /\ post[t].todo \ {c} \in SUBSET Client
        BY DEF TypeOK, Posts
      <4>2. [post[t] EXCEPT !.todo = post[t].todo \ {c}, !.counted = {c}] \in Posts
        BY <4>1, PostType
      <4> QED BY <2>2, <4>2 DEF NotifyCount, TypeOK
    <3>2. mentions' \in [Client -> Nat]
      BY <2>2 DEF NotifyCount, TypeOK
    <3> QED BY <2>2, <3>1, <3>2 DEF NotifyCount, TypeOK, room, loop, memory
  <2>3. ASSUME NEW c \in Client, NotifyBell(t, c)
        PROVE  TypeOK'
    <3>1. post' \in [Thread -> Posts]
      <4>1. [post[t] EXCEPT !.counted = {}, !.belled = {c}] \in Posts
        BY PostType DEF TypeOK
      <4> QED BY <2>3, <4>1 DEF NotifyBell, TypeOK
    <3> QED BY <2>3, <3>1 DEF NotifyBell, TypeOK, room, loop, memory
  <2>4. ASSUME NEW c \in Client, NotifyRedraw(t, c)
        PROVE  TypeOK'
    <3>1. post' \in [Thread -> Posts]
      BY <2>4, NoPostType DEF NotifyRedraw, TypeOK, Posts
    <3> QED BY <2>4, <3>1 DEF NotifyRedraw, TypeOK, room, loop, memory
  <2> QED BY <2>1, <2>2, <2>3, <2>4 DEF PostStep
<1>2. UNCHANGED <<loop, seq>>
  BY DEF PostStep, Collect, NotifyCount, NotifyBell, NotifyRedraw, room
<1> QED BY <1>1, <1>2, OutsideStep

LEMMA OtherStepInv ==
    ASSUME FreshInv, NEW t \in Other,
           OtherJoin(t) \/ OtherLeave(t) \/ OtherAnnounce(t) \/ OtherPost(t)
    PROVE  FreshInv'
<1> USE DEF FreshInv
<1>1. UNCHANGED <<loop, flags>> /\ (seq' = seq \/ seq' = seq + 1)
  BY DEF OtherJoin, OtherLeave, OtherMove, OtherAnnounce, OtherPost
<1>2. members' \subseteq Thread
  BY DEF OtherJoin, OtherLeave, OtherMove, OtherAnnounce, OtherPost, TypeOK, Thread
<1>3. post' \in [Thread -> Posts]
  <2>1. t \in Thread /\ post[t] \in Posts
    BY DEF TypeOK, Thread
  <2>2. /\ [post[t] EXCEPT !.at = "announce"] \in Posts
        /\ [post[t] EXCEPT !.at = "collect"] \in Posts
    BY <2>1, PostType
  <2>3. \/ post' = [post EXCEPT ![t] = [post[t] EXCEPT !.at = "announce"]]
        \/ post' = [post EXCEPT ![t] = [post[t] EXCEPT !.at = "collect"]]
        \/ post' = [post EXCEPT ![t] = NoPost]
    BY DEF OtherJoin, OtherLeave, OtherMove, OtherAnnounce, OtherPost
  <2> QED BY <2>1, <2>2, <2>3, NoPostType DEF TypeOK
<1>4. TypeOK'
  BY <1>1, <1>2, <1>3 DEF TypeOK, loop, memory, flags
<1> QED BY <1>1, <1>4, OutsideStep

-----------------------------------------------------------------------------
(* Steps of a session.                                                     *)

(* Joining and leaving.                                                    *)
LEMMA JoinLeaveInv ==
    ASSUME FreshInv, NEW c \in Client,
           \/ RoomAddClient(c) \/ JoinBroadcast(c) \/ SyncSeen(c)
           \/ LeaveLoop(c) \/ RoomRemoveClient(c) \/ LeaveBroadcast(c)
    PROVE  FreshInv'
<1> USE DEF Goto, room, loop, memory, flags, PCs, InLoop, JoinDraw, LoopDraw
<1>0. TypeOK /\ Fresh(c)
  BY DEF FreshInv
<1>1. CASE RoomAddClient(c)
  <2>1. TypeOK'
    BY <1>0, <1>1 DEF RoomAddClient, TypeOK, Thread
  <2>2. Fresh(c)'
    BY <1>0, <1>1 DEF RoomAddClient, TypeOK, Fresh, Bare
  <2> QED BY <1>1, <2>1, <2>2, SessionStep DEF RoomAddClient, TypeOK, FreshInv
<1>2. CASE JoinBroadcast(c)
  <2>1. TypeOK'
    BY <1>0, <1>2 DEF JoinBroadcast, TypeOK
  <2>2. Fresh(c)'
    BY <1>0, <1>2 DEF JoinBroadcast, TypeOK, Fresh, Bare
  <2> QED BY <1>2, <2>1, <2>2, SessionStep DEF JoinBroadcast, TypeOK, FreshInv
<1>3. CASE SyncSeen(c)
  <2>1. TypeOK'
    BY <1>0, <1>3 DEF SyncSeen, TypeOK
  <2>2. Fresh(c)'
    BY <1>0, <1>3 DEF SyncSeen, TypeOK, Fresh, Bare
  <2> QED BY <1>3, <2>1, <2>2, SessionStep DEF SyncSeen, TypeOK, FreshInv
<1>4. CASE LeaveLoop(c)
  <2>1. TypeOK'
    BY <1>0, <1>4 DEF LeaveLoop, TypeOK
  <2>2. Fresh(c)'
    BY <1>0, <1>4 DEF LeaveLoop, TypeOK, Fresh, Bare
  <2> QED BY <1>4, <2>1, <2>2, SessionStep DEF LeaveLoop, TypeOK, FreshInv
<1>5. CASE RoomRemoveClient(c)
  <2>1. TypeOK'
    BY <1>0, <1>5 DEF RoomRemoveClient, TypeOK
  <2>2. Fresh(c)'
    BY <1>0, <1>5 DEF RoomRemoveClient, TypeOK, Fresh, Bare
  <2> QED BY <1>5, <2>1, <2>2, SessionStep DEF RoomRemoveClient, TypeOK, FreshInv
<1>6. CASE LeaveBroadcast(c)
  <2>1. TypeOK'
    BY <1>0, <1>6, NoScreenType DEF LeaveBroadcast, EndSession, TypeOK
  <2>2. Fresh(c)'
    BY <1>0, <1>6, NoScreenType DEF LeaveBroadcast, EndSession, TypeOK, Fresh, Bare
  <2> QED BY <1>6, <2>1, <2>2, SessionStep DEF LeaveBroadcast, EndSession, TypeOK, FreshInv
<1> QED BY <1>1, <1>2, <1>3, <1>4, <1>5, <1>6

(* Drawing.                                                                *)
LEMMA DrawInv ==
    ASSUME FreshInv, NEW c \in Client,
           \/ DrawCount(c) \/ DrawGivenUp(c) \/ DrawCopy(c) \/ DrawNoMessages(c)
           \/ DrawTitle(c)
    PROVE  FreshInv'
<1> USE DEF Goto, Draw, room, flags, memory, PCs, InLoop, JoinDraw, LoopDraw
<1>0. /\ TypeOK /\ Fresh(c) /\ Cardinality(members) \in Nat
      /\ screen[c] \in Screens /\ screen[c].online \in Nat /\ seq \in Nat
      /\ mentions[c] \in Nat /\ seen[c] \in Nat
  BY MembersCount DEF FreshInv, TypeOK, Screens
<1>1. CASE DrawCount(c)
  <2> DEFINE scr == [screen[c] EXCEPT !.online = Cardinality(members)]
             join == [scr EXCEPT !.by = "join"]
             main == [scr EXCEPT !.by = "loop"]
  <2>1. /\ join \in Screens /\ join.by = "join"
        /\ main \in Screens
    BY <1>0, ScreenType
  <2>2. TypeOK'
    BY <1>0, <1>1, <2>1 DEF DrawCount, TypeOK
  <2>3. Fresh(c)'
    BY <1>0, <1>1, <2>1 DEF DrawCount, TypeOK, Fresh, Bare
  <2> QED BY <1>1, <2>2, <2>3, SessionStep DEF DrawCount, TypeOK, FreshInv
<1>2. CASE DrawGivenUp(c)
  <2>1. TypeOK'
    BY <1>0, <1>2 DEF DrawGivenUp, TypeOK
  <2>2. Fresh(c)'
    BY <1>0, <1>2 DEF DrawGivenUp, TypeOK, Fresh, Bare
  <2> QED BY <1>2, <2>1, <2>2, SessionStep DEF DrawGivenUp, TypeOK, FreshInv
<1>3. CASE DrawCopy(c)
  <2>1. PICK online \in {screen[c].online, Cardinality(members)} :
           LET scr == [screen[c] EXCEPT !.seq = seq, !.online = online]
           IN  Draw(c, "draw1", "draw2", scr) \/ Draw(c, "copy", "title", scr)
    BY <1>3 DEF DrawCopy
  <2> DEFINE scr == [screen[c] EXCEPT !.seq = seq, !.online = online]
  <2>2. scr \in Screens /\ scr.by = screen[c].by /\ scr.seq = seq
    BY <1>0 DEF Screens
  <2> HIDE DEF scr
  <2>3. Draw(c, "draw1", "draw2", scr) \/ Draw(c, "copy", "title", scr)
    BY <2>1 DEF scr
  <2>4. UNCHANGED memory
    BY <1>3 DEF DrawCopy
  <2>5. TypeOK'
    BY <1>0, <2>2, <2>3, <2>4 DEF TypeOK
  <2>6. Fresh(c)'
    BY <1>0, <2>2, <2>3, <2>4 DEF TypeOK, Fresh, Bare
  <2> QED BY <2>3, <2>4, <2>5, <2>6, SessionStep DEF TypeOK, FreshInv
<1>4. CASE DrawNoMessages(c)
  <2> DEFINE scr == [screen[c] EXCEPT !.seq = 0]
  <2>1. scr \in Screens /\ scr.by = screen[c].by /\ scr.seq = 0
    BY <1>0 DEF Screens
  <2>2. TypeOK'
    BY <1>0, <1>4, <2>1 DEF DrawNoMessages, TypeOK
  <2>3. Fresh(c)'
    BY <1>0, <1>4, <2>1 DEF DrawNoMessages, TypeOK, Fresh, Bare
  <2> QED BY <1>4, <2>2, <2>3, SessionStep DEF DrawNoMessages, TypeOK, FreshInv
<1>5. CASE DrawTitle(c)
  <2> DEFINE scr == [screen[c] EXCEPT !.mentions = mentions[c]]
  <2>1. scr \in Screens /\ scr.by = screen[c].by /\ scr.seq = screen[c].seq
    BY <1>0, ScreenType
  <2>2. TypeOK'
    BY <1>0, <1>5, <2>1 DEF DrawTitle, TypeOK
  <2>3. Fresh(c)'
    BY <1>0, <1>5, <2>1 DEF DrawTitle, TypeOK, Fresh, Bare
  <2> QED BY <1>5, <2>2, <2>3, SessionStep DEF DrawTitle, TypeOK, FreshInv
<1> QED BY <1>1, <1>2, <1>3, <1>4, <1>5

(* The main loop when the poll times out.                                  *)
LEMMA PollInv ==
    ASSUME FreshInv, NEW c \in Client,
           \/ PollTimeout(c) \/ FlushBells(c) \/ Decide(c) \/ ClearRedraw(c)
           \/ WindowChange(c)
    PROVE  FreshInv'
<1> USE DEF Goto, room, flags, memory, PCs, InLoop, JoinDraw, LoopDraw
<1>0. /\ TypeOK /\ Fresh(c)
      /\ seq \in Nat /\ seen[c] \in Nat /\ current[c] \in Nat
  BY DEF FreshInv, TypeOK
<1>1. CASE PollTimeout(c)
  <2>1. TypeOK' /\ Fresh(c)'
    BY <1>0, <1>1 DEF PollTimeout, TypeOK, Fresh, Bare
  <2> QED BY <1>1, <2>1, SessionStep DEF PollTimeout, TypeOK, FreshInv
<1>2. CASE FlushBells(c)
  <2>1. TypeOK' /\ Fresh(c)'
    BY <1>0, <1>2 DEF FlushBells, TypeOK, Fresh, Bare
  <2> QED BY <1>2, <2>1, SessionStep DEF FlushBells, TypeOK, FreshInv
<1>3. CASE Decide(c)
  <2>1. TypeOK'
    BY <1>0, <1>3 DEF Decide, TypeOK
  <2>2. Fresh(c)'
    BY <1>0, <1>3 DEF Decide, TypeOK, Fresh, Bare
  <2> QED BY <1>3, <2>1, <2>2, SessionStep DEF Decide, TypeOK, FreshInv
<1>4. CASE ClearRedraw(c)
  <2>1. TypeOK' /\ Fresh(c)'
    BY <1>0, <1>4 DEF ClearRedraw, TypeOK, Fresh, Bare
  <2> QED BY <1>4, <2>1, SessionStep DEF ClearRedraw, TypeOK, FreshInv
<1>5. CASE WindowChange(c)
  <2>1. TypeOK' /\ Fresh(c)'
    BY <1>0, <1>5 DEF WindowChange, TypeOK, Fresh, Bare
  <2> QED BY <1>5, <2>1, SessionStep DEF WindowChange, TypeOK, FreshInv
<1> QED BY <1>1, <1>2, <1>3, <1>4, <1>5

(* The main loop when a key is ready.                                      *)
LEMMA KeyStepInv ==
    ASSUME FreshInv, NEW c \in Client,
           \/ KeyDraw(c) \/ KeyReadMentions(c) \/ KeyOverlay(c) \/ KeyDismiss(c)
           \/ KeyEnter(c) \/ KeyEnterDraw(c)
    PROVE  FreshInv'
<1> USE DEF Goto, room, flags, memory, PCs, InLoop, JoinDraw, LoopDraw
<1>0. /\ TypeOK /\ Fresh(c)
      /\ seq \in Nat /\ seen[c] \in Nat /\ current[c] \in Nat
  BY DEF FreshInv, TypeOK
<1>1. CASE KeyDraw(c)
  <2>1. TypeOK' /\ Fresh(c)'
    BY <1>0, <1>1 DEF KeyDraw, TypeOK, Fresh, Bare
  <2> QED BY <1>1, <2>1, SessionStep DEF KeyDraw, TypeOK, FreshInv
<1>2. CASE KeyReadMentions(c)
  <2>1. TypeOK' /\ Fresh(c)'
    BY <1>0, <1>2 DEF KeyReadMentions, TypeOK, Fresh, Bare
  <2> QED BY <1>2, <2>1, SessionStep DEF KeyReadMentions, TypeOK, FreshInv
<1>3. CASE KeyOverlay(c)
  <2>1. TypeOK' /\ Fresh(c)'
    BY <1>0, <1>3 DEF KeyOverlay, TypeOK, Fresh, Bare
  <2> QED BY <1>3, <2>1, SessionStep DEF KeyOverlay, TypeOK, FreshInv
<1>4. CASE KeyDismiss(c)
  <2>1. TypeOK' /\ Fresh(c)'
    BY <1>0, <1>4 DEF KeyDismiss, TypeOK, Fresh, Bare
  <2> QED BY <1>4, <2>1, SessionStep DEF KeyDismiss, TypeOK, FreshInv
<1>5. CASE KeyEnter(c)
  <2>1. c \in Thread /\ [post[c] EXCEPT !.at = "collect"] \in Posts
    BY <1>0, PostType DEF TypeOK, Thread
  <2>2. post' = [post EXCEPT ![c] = [post[c] EXCEPT !.at = "collect"]]
    BY <1>5 DEF KeyEnter
  <2>3. post' \in [Thread -> Posts]
    BY <1>0, <2>1, <2>2 DEF TypeOK
  <2>4. TypeOK' /\ Fresh(c)'
    BY <1>0, <1>5, <2>3 DEF KeyEnter, TypeOK, Fresh, Bare
  <2> QED BY <1>5, <2>4, SessionStep DEF KeyEnter, TypeOK, FreshInv
<1>6. CASE KeyEnterDraw(c)
  <2>1. TypeOK' /\ Fresh(c)'
    BY <1>0, <1>6 DEF KeyEnterDraw, TypeOK, Fresh, Bare
  <2> QED BY <1>6, <2>1, SessionStep DEF KeyEnterDraw, TypeOK, FreshInv
<1> QED BY <1>1, <1>2, <1>3, <1>4, <1>5, <1>6

-----------------------------------------------------------------------------

(* The types of all variables, whose program counters stay on the paths of *)
(* input_run_session and tui_render_screen; and no session takes more for  *)
(* seen than what there is, nor, waiting, than what it has drawn.          *)
THEOREM FreshAlways == Spec => []FreshInv
<1>1. Init => FreshInv
  BY NoScreenType, NoPostType DEF Init, FreshInv, TypeOK, Fresh, PCs
<1>2. FreshInv /\ [Next]_vars => FreshInv'
  <2> SUFFICES ASSUME FreshInv, [Next]_vars PROVE FreshInv'
    OBVIOUS
  <2>1. CASE UNCHANGED vars
    BY <2>1 DEF vars, room, loop, memory, flags, FreshInv, TypeOK, Fresh, Bare
  <2>2. ASSUME NEW c \in Client, LoopStep(c) \/ PollTimeout(c) \/ UserStep(c)
        PROVE  FreshInv'
    BY <2>2, JoinLeaveInv, DrawInv, PollInv, KeyStepInv DEF LoopStep, UserStep
  <2>3. ASSUME NEW t \in Thread, PostStep(t)
        PROVE  FreshInv'
    BY <2>3, PostStepInv
  <2>4. ASSUME NEW t \in Other,
               OtherJoin(t) \/ OtherLeave(t) \/ OtherAnnounce(t) \/ OtherPost(t)
        PROVE  FreshInv'
    BY <2>4, OtherStepInv
  <2> QED BY <2>1, <2>2, <2>3, <2>4 DEF Next
<1> QED BY <1>1, <1>2, PTL DEF Spec

(* ScreenFresh of Redraw, for any number of sessions, other threads and    *)
(* broadcasts: the main loop takes no update for seen that its screen does *)
(* not show.                                                               *)
THEOREM ScreenAlwaysFresh == Spec => []ScreenFresh
<1>1. FreshInv => ScreenFresh
  BY DEF FreshInv, ScreenFresh, Fresh, Watching
<1> QED BY <1>1, FreshAlways, PTL
-----------------------------------------------------------------------------
(* The online count.                                                       *)

(* Nobody owes a broadcast.                                                *)
LEMMA NoneCommitted ==
    Committed = {} <=> /\ \A c \in Client : pc[c] \notin {"join", "leaving", "left"}
                       /\ \A t \in Other : post[t].at # "announce"
  BY DEF Committed

(* A step of another thread, or of notify_mentions.                        *)
LEMMA OutsideOwes ==
    ASSUME FreshInv, Owing,
           \/ \E t \in Thread : PostStep(t)
           \/ \E t \in Other : OtherJoin(t) \/ OtherLeave(t) \/ OtherAnnounce(t) \/ OtherPost(t)
    PROVE  /\ Owing'
           /\ UNCHANGED loop
           /\ seq' = seq \/ seq' = seq + 1
           /\ Committed' = {} /\ seq' = seq => members' = members /\ Committed = {}
<1> USE DEF FreshInv
<1>0. post \in [Thread -> Posts] /\ Other \subseteq Thread
  BY DEF TypeOK, Thread
<1>1. ASSUME NEW t \in Thread, PostStep(t)
      PROVE  /\ UNCHANGED <<loop, seq, members>>
             /\ \A o \in Other : /\ post[o].at = "announce" => post'[o] = post[o]
                                 /\ post[o].at # "announce" => post'[o].at # "announce"
  <2>1. ASSUME NEW targets \in SUBSET Client, Collect(t, targets)
        PROVE  /\ UNCHANGED <<loop, seq, members>>
               /\ post[t].at = "collect" /\ post'[t].at # "announce"
               /\ \A o \in Other : o # t => post'[o] = post[o]
    BY <1>0, <2>1 DEF Collect, room, NoPost
  <2>2. ASSUME NEW c \in Client, NotifyCount(t, c) \/ NotifyBell(t, c) \/ NotifyRedraw(t, c)
        PROVE  /\ UNCHANGED <<loop, seq, members>>
               /\ ~(post[t].todo = {} /\ post[t].counted = {} /\ post[t].belled = {})
               /\ post'[t].at = post[t].at \/ post'[t].at = "none"
               /\ \A o \in Other : o # t => post'[o] = post[o]
    <3>1. post[t] \in Posts
      BY <1>0
    <3>2. CASE NotifyCount(t, c)
      BY <1>0, <3>1, <3>2 DEF NotifyCount, room, Posts
    <3>3. CASE NotifyBell(t, c)
      BY <1>0, <3>1, <3>3 DEF NotifyBell, room, Posts
    <3>4. CASE NotifyRedraw(t, c)
      BY <1>0, <3>1, <3>4 DEF NotifyRedraw, room, Posts, NoPost
    <3> QED BY <2>2, <3>2, <3>3, <3>4
  <2>3. CASE \E targets \in SUBSET Client : Collect(t, targets)
    BY <2>1, <2>3
  <2>4. CASE \E c \in Client : NotifyCount(t, c) \/ NotifyBell(t, c) \/ NotifyRedraw(t, c)
    BY <2>2, <2>4 DEF Owing
  <2> QED BY <1>1, <2>3, <2>4 DEF PostStep
<1>2. CASE \E t \in Thread : PostStep(t)
  <2>1. PICK t \in Thread : PostStep(t)
    BY <1>2
  <2>2. Owing'
    BY <1>1, <2>1 DEF Owing
  <2>3. Committed' = {} => Committed = {}
    BY <1>1, <2>1, NoneCommitted DEF Committed, loop
  <2> QED BY <1>1, <2>1, <2>2, <2>3
<1>3. ASSUME NEW t \in Other, OtherJoin(t) \/ OtherLeave(t)
      PROVE  /\ UNCHANGED <<loop, seq>> /\ Owing' /\ Committed' # {}
  <2>1. /\ UNCHANGED <<loop, seq>> /\ post'[t] = [NoPost EXCEPT !.at = "announce"]
        /\ \A o \in Other : o # t => post'[o] = post[o]
    BY <1>0, <1>3 DEF OtherJoin, OtherLeave, OtherMove
  <2>2. post'[t].at = "announce"
    BY <2>1 DEF NoPost
  <2>3. Owing'
    BY <2>1 DEF Owing, NoPost
  <2>4. Committed' # {}
    BY <2>2 DEF Committed
  <2> QED BY <2>1, <2>3, <2>4
<1>4. ASSUME NEW t \in Other, OtherAnnounce(t) \/ OtherPost(t)
      PROVE  UNCHANGED <<loop, members>> /\ Owing' /\ seq' = seq + 1
  <2>1. /\ UNCHANGED <<loop, members>> /\ seq' = seq + 1
        /\ post'[t].at # "announce"
        /\ \A o \in Other : o # t => post'[o] = post[o]
    BY <1>0, <1>4 DEF OtherAnnounce, OtherPost, NoPost, Posts
  <2> QED BY <2>1 DEF Owing
<1> QED BY <1>2, <1>3, <1>4, SMT DEF TypeOK

(* A step of a session.                                                    *)
LEMMA SessionOwes ==
    ASSUME FreshInv, Owing, NEW c \in Client,
           LoopStep(c) \/ PollTimeout(c) \/ UserStep(c)
    PROVE  /\ Owing'
           /\ seq' = seq \/ seq' = seq + 1
           /\ Committed' = {} /\ seq' = seq => members' = members /\ Committed = {}
<1>0. /\ post \in [Thread -> Posts] /\ Other \subseteq Thread /\ c \in Thread /\ c \notin Other
      /\ pc \in [Client -> PCs] /\ seq \in Nat
  BY RedrawAssumption DEF TypeOK, Thread, FreshInv
<1>1. \A o \in Other : post'[o] = post[o]
  BY <1>0 DEF LoopStep, UserStep, JoinBroadcast, SyncSeen, RoomRemoveClient, LeaveBroadcast,
              DrawCount, DrawGivenUp, DrawCopy, DrawNoMessages, DrawTitle, Draw, FlushBells,
              Decide, ClearRedraw, KeyEnterDraw, PollTimeout, RoomAddClient, LeaveLoop,
              WindowChange, KeyDraw, KeyReadMentions, KeyOverlay, KeyDismiss, KeyEnter
<1>2. Owing'
  BY <1>1 DEF Owing
<1>3. CASE RoomAddClient(c)
  <2>1. pc'[c] = "join" /\ seq' = seq
    BY <1>0, <1>3 DEF RoomAddClient, Goto
  <2> QED BY <1>2, <2>1 DEF Committed
<1>4. CASE RoomRemoveClient(c)
  <2>1. pc'[c] = "left" /\ seq' = seq
    BY <1>0, <1>4 DEF RoomRemoveClient, Goto
  <2> QED BY <1>2, <2>1 DEF Committed
<1>5. CASE JoinBroadcast(c) \/ LeaveBroadcast(c) \/ KeyEnter(c)
  <2>1. seq' = seq + 1
    BY <1>5 DEF JoinBroadcast, LeaveBroadcast, KeyEnter
  <2> QED BY <1>0, <1>2, <2>1
<1>6. CASE ~(RoomAddClient(c) \/ RoomRemoveClient(c) \/ JoinBroadcast(c)
               \/ LeaveBroadcast(c) \/ KeyEnter(c))
  <2>1. /\ UNCHANGED room
        /\ pc[c] \notin {"join", "leaving", "left"}
        /\ \A d \in Client : d # c => pc'[d] = pc[d]
    BY <1>0, <1>6 DEF LoopStep, UserStep, SyncSeen, room,
              DrawCount, DrawGivenUp, DrawCopy, DrawNoMessages, DrawTitle, Draw, FlushBells,
              Decide, ClearRedraw, KeyEnterDraw, PollTimeout, LeaveLoop, Goto,
              WindowChange, KeyDraw, KeyReadMentions, KeyOverlay, KeyDismiss
  <2>2. Committed \subseteq Committed'
    BY <1>1, <2>1 DEF Committed
  <2> QED BY <1>2, <2>1, <2>2 DEF room
<1> QED BY <1>3, <1>4, <1>5, <1>6

(* What c's screen counts stays right, or stays older than an update that  *)
(* c has not seen.                                                         *)
LEMMA CountedKept ==
    ASSUME OnlineInv, NEW c \in Client,
           pc[c] \in {"copy", "title", "loop", "idle", "decide"}, overlay[c] = "none",
           screen[c].by = "loop", ~lost[c],
           screen'[c].online \in {screen[c].online, Cardinality(members)},
           seen'[c] = seen[c],
           seq' = seq \/ seq' = seq + 1,
           Committed' = {} /\ seq' = seq => members' = members /\ Committed = {}
    PROVE  Counted(c)'
<1>1. seen[c] \in Nat /\ seq \in Nat /\ seen[c] <= seq
  BY DEF OnlineInv, FreshInv, TypeOK, Fresh
<1>2. screen[c].online = Cardinality(members) \/ Committed # {} \/ seq > seen[c]
  BY DEF OnlineInv, Counted
<1>3. CASE seq' = seq + 1
  BY <1>1, <1>3 DEF Counted
<1>4. CASE seq' = seq /\ Committed' # {}
  BY <1>4 DEF Counted
<1>5. CASE seq' = seq /\ Committed' = {}
  BY <1>2, <1>5 DEF Counted
<1> QED BY <1>3, <1>4, <1>5

(* A step of c itself.                                                     *)
LEMMA OwnStep ==
    ASSUME OnlineInv, NEW c \in Client, LoopStep(c) \/ PollTimeout(c) \/ UserStep(c)
    PROVE  Counted(c)'
<1> DEFINE Counting == {"copy", "title", "loop", "idle", "decide"}
<1> USE DEF Goto, room, flags, memory
<1>0. /\ FreshInv /\ Owing /\ TypeOK /\ Fresh(c) /\ screen[c] \in Screens
      /\ Cardinality(members) \in Nat
  BY MembersCount DEF OnlineInv, FreshInv, TypeOK
<1>1. /\ seq' = seq \/ seq' = seq + 1
      /\ Committed' = {} /\ seq' = seq => members' = members /\ Committed = {}
  BY <1>0, SessionOwes
<1> SUFFICES ASSUME pc'[c] \in Counting, overlay'[c] = "none", screen'[c].by = "loop", ~lost'[c]
             PROVE  Counted(c)'
  BY DEF Counted
<1>2. CASE RoomAddClient(c) \/ JoinBroadcast(c) \/ LeaveLoop(c) \/ RoomRemoveClient(c)
           \/ LeaveBroadcast(c) \/ KeyDraw(c) \/ KeyReadMentions(c) \/ KeyDismiss(c)
           \/ KeyEnter(c) \/ KeyEnterDraw(c)
  <2>1. pc'[c] \notin Counting
    BY <1>0, <1>2 DEF RoomAddClient, JoinBroadcast, LeaveLoop, RoomRemoveClient,
          LeaveBroadcast, EndSession, KeyDraw, KeyReadMentions, KeyDismiss, KeyEnter,
          KeyEnterDraw, TypeOK
  <2> QED BY <2>1
<1>3. CASE SyncSeen(c)
  <2>1. screen'[c].by = "join"
    BY <1>0, <1>3 DEF SyncSeen, Fresh
  <2> QED BY <2>1
<1>4. CASE DrawGivenUp(c) \/ KeyOverlay(c) \/ ClearRedraw(c)
  BY <1>0, <1>4 DEF DrawGivenUp, Draw, KeyOverlay, ClearRedraw, TypeOK
<1>5. CASE DrawCount(c)
  <2> DEFINE scr == [screen[c] EXCEPT !.online = Cardinality(members)]
  <2>1. \A b \in {"join", "loop"} : [scr EXCEPT !.by = b].online = Cardinality(members)
    BY <1>0 DEF Screens
  <2>2. \E b \in {"join", "loop"} : screen' = [screen EXCEPT ![c] = [scr EXCEPT !.by = b]]
    BY <1>5 DEF DrawCount, Draw
  <2>3. screen'[c].online = Cardinality(members) /\ members' = members
    BY <1>0, <1>5, <2>1, <2>2 DEF DrawCount, Draw, TypeOK
  <2> QED BY <2>3 DEF Counted
<1>6. CASE DrawCopy(c) \/ DrawNoMessages(c) \/ DrawTitle(c)
  <2>1. /\ pc[c] \in Counting \/ pc[c] \in {"draw1", "draw2"}
        /\ UNCHANGED <<overlay, lost, seen>>
        /\ pc[c] \in {"draw1", "draw2"} => pc'[c] \in {"draw2", "sync"}
    BY <1>0, <1>6 DEF DrawCopy, DrawNoMessages, DrawTitle, Draw, TypeOK
  <2>2. /\ screen'[c].by = screen[c].by
        /\ screen'[c].online \in {screen[c].online, Cardinality(members)}
    <3>1. CASE DrawCopy(c)
      <4>1. PICK online \in {screen[c].online, Cardinality(members)} :
               screen' = [screen EXCEPT ![c] =
                             [screen[c] EXCEPT !.seq = seq, !.online = online]]
        BY <3>1 DEF DrawCopy, Draw
      <4> DEFINE scr == [screen[c] EXCEPT !.seq = seq, !.online = online]
      <4>2. scr.by = screen[c].by /\ scr.online = online
        BY <1>0 DEF Screens
      <4>3. screen'[c] = scr
        BY <1>0, <4>1 DEF TypeOK
      <4> QED BY <4>2, <4>3
    <3>2. CASE DrawNoMessages(c)
      <4> DEFINE scr == [screen[c] EXCEPT !.seq = 0]
      <4>1. scr.by = screen[c].by /\ scr.online = screen[c].online
        BY <1>0 DEF Screens
      <4>2. screen'[c] = scr
        BY <1>0, <3>2 DEF DrawNoMessages, Draw, TypeOK
      <4> QED BY <4>1, <4>2
    <3>3. CASE DrawTitle(c)
      <4> DEFINE scr == [screen[c] EXCEPT !.mentions = mentions[c]]
      <4>1. scr.by = screen[c].by /\ scr.online = screen[c].online
        BY <1>0 DEF Screens
      <4>2. screen'[c] = scr
        BY <1>0, <3>3 DEF DrawTitle, Draw, TypeOK
      <4> QED BY <4>1, <4>2
    <3> QED BY <1>6, <3>1, <3>2, <3>3
  <2> QED BY <1>1, <2>1, <2>2, CountedKept
<1>7. CASE PollTimeout(c) \/ FlushBells(c) \/ WindowChange(c)
  <2>1. pc[c] \in Counting /\ UNCHANGED <<overlay, lost, seen, screen>>
    BY <1>7 DEF PollTimeout, FlushBells, WindowChange
  <2> QED BY <1>1, <2>1, CountedKept
<1>8. CASE Decide(c)
  <2>1. pc[c] \in Counting /\ UNCHANGED <<overlay, lost, screen>> /\ seen'[c] = seen[c]
    BY <1>0, <1>8 DEF Decide, TypeOK
  <2> QED BY <1>1, <2>1, CountedKept
<1> QED BY <1>2, <1>3, <1>4, <1>5, <1>6, <1>7, <1>8 DEF LoopStep, UserStep

(* A step of anybody else.                                                 *)
LEMMA StrangersStep ==
    ASSUME OnlineInv, NEW c \in Client,
           pc'[c] = pc[c], overlay'[c] = overlay[c], screen'[c] = screen[c],
           lost'[c] = lost[c], seen'[c] = seen[c],
           seq' = seq \/ seq' = seq + 1,
           Committed' = {} /\ seq' = seq => members' = members /\ Committed = {}
    PROVE  Counted(c)'
<1>1. CASE /\ pc[c] \in {"copy", "title", "loop", "idle", "decide"} /\ overlay[c] = "none"
           /\ screen[c].by = "loop" /\ ~lost[c]
  BY <1>1, CountedKept
<1>2. CASE ~(/\ pc[c] \in {"copy", "title", "loop", "idle", "decide"} /\ overlay[c] = "none"
             /\ screen[c].by = "loop" /\ ~lost[c])
  BY <1>2 DEF Counted
<1> QED BY <1>1, <1>2

(* A session changes nothing that belongs to another one.                  *)
LEMMA SessionFrame ==
    ASSUME TypeOK, NEW d \in Client, LoopStep(d) \/ PollTimeout(d) \/ UserStep(d),
           NEW c \in Client, c # d
    PROVE  /\ pc'[c] = pc[c] /\ overlay'[c] = overlay[c] /\ screen'[c] = screen[c]
           /\ lost'[c] = lost[c] /\ seen'[c] = seen[c]
<1> USE DEF Goto, room, flags, memory
<1>1. CASE RoomAddClient(d) \/ JoinBroadcast(d) \/ SyncSeen(d) \/ LeaveLoop(d)
           \/ RoomRemoveClient(d) \/ LeaveBroadcast(d)
  BY <1>1 DEF RoomAddClient, JoinBroadcast, SyncSeen, LeaveLoop, RoomRemoveClient,
              LeaveBroadcast, EndSession, TypeOK
<1>2. CASE DrawCount(d) \/ DrawGivenUp(d) \/ DrawNoMessages(d) \/ DrawTitle(d)
  BY <1>2 DEF DrawCount, DrawGivenUp, DrawNoMessages, DrawTitle, Draw, TypeOK
<1>3. CASE DrawCopy(d)
  BY <1>3 DEF DrawCopy, Draw, TypeOK
<1>4. CASE PollTimeout(d) \/ FlushBells(d) \/ Decide(d) \/ ClearRedraw(d) \/ WindowChange(d)
  BY <1>4 DEF PollTimeout, FlushBells, Decide, ClearRedraw, WindowChange, TypeOK
<1>5. CASE KeyDraw(d) \/ KeyReadMentions(d) \/ KeyOverlay(d) \/ KeyDismiss(d)
           \/ KeyEnter(d) \/ KeyEnterDraw(d)
  BY <1>5 DEF KeyDraw, KeyReadMentions, KeyOverlay, KeyDismiss, KeyEnter, KeyEnterDraw,
              TypeOK
<1> QED BY <1>1, <1>2, <1>3, <1>4, <1>5 DEF LoopStep, UserStep

(* OnlineExact of Redraw, for any number of sessions, other threads and    *)
(* broadcasts: the online count that a session shows is right when it has  *)
(* seen the last update and nobody is joining or leaving, although it and  *)
(* the messages are read under two locks.                                  *)
THEOREM OnlineAlwaysExact == Spec => []OnlineExact
<1>1. Init => Owing /\ \A c \in Client : Counted(c)
  BY DEF Init, Owing, Counted, NoPost, NoScreen, Thread
<1>2. FreshInv /\ OnlineInv /\ [Next]_vars /\ FreshInv' => OnlineInv'
  <2> SUFFICES ASSUME OnlineInv, [Next]_vars, FreshInv' PROVE OnlineInv'
    OBVIOUS
  <2>0. FreshInv /\ Owing /\ TypeOK
    BY DEF OnlineInv, FreshInv
  <2>1. CASE UNCHANGED vars
    <3>1. UNCHANGED <<loop, post, seq, members>>
      BY <2>1 DEF vars, room
    <3>2. Committed' = Committed
      BY <3>1 DEF Committed, loop
    <3> QED BY <3>1, <3>2 DEF loop, memory, OnlineInv, Owing, Counted
  <2>2. ASSUME NEW d \in Client, LoopStep(d) \/ PollTimeout(d) \/ UserStep(d)
        PROVE  OnlineInv'
    <3>1. /\ Owing' /\ (seq' = seq \/ seq' = seq + 1)
          /\ Committed' = {} /\ seq' = seq => members' = members /\ Committed = {}
      BY <2>0, <2>2, SessionOwes
    <3>2. ASSUME NEW c \in Client PROVE Counted(c)'
      BY <2>0, <2>2, <3>1, OwnStep, SessionFrame, StrangersStep
    <3> QED BY <3>1, <3>2 DEF OnlineInv
  <2>3. CASE \/ \E t \in Thread : PostStep(t)
             \/ \E t \in Other : OtherJoin(t) \/ OtherLeave(t) \/ OtherAnnounce(t) \/ OtherPost(t)
    <3>1. /\ Owing' /\ UNCHANGED loop /\ (seq' = seq \/ seq' = seq + 1)
          /\ Committed' = {} /\ seq' = seq => members' = members /\ Committed = {}
      BY <2>0, <2>3, OutsideOwes
    <3>2. ASSUME NEW c \in Client PROVE Counted(c)'
      BY <3>1, StrangersStep DEF loop, memory
    <3> QED BY <3>1, <3>2 DEF OnlineInv
  <2> QED BY <2>1, <2>2, <2>3 DEF Next
<1>3. OnlineInv => OnlineExact
  <2> SUFFICES ASSUME OnlineInv, NEW c \in Client, Watching(c), screen[c].by = "loop",
                      seen[c] = seq, ~lost[c], Committed = {}
               PROVE  screen[c].online = Cardinality(members)
    BY DEF OnlineExact
  <2>1. Counted(c) /\ seq \in Nat
    BY DEF OnlineInv, FreshInv, TypeOK
  <2> QED BY <2>1 DEF Counted, Watching
<1>4. FreshInv /\ Owing /\ (\A c \in Client : Counted(c)) <=> OnlineInv
  BY DEF OnlineInv
<1> QED BY <1>1, <1>2, <1>3, <1>4, FreshAlways, PTL DEF Spec
=============================================================================
