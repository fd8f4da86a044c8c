------------------------------- MODULE Redraw --------------------------------
(***************************************************************************)
(* How a change of the room reaches the terminals.  A poster appends to    *)
(* the room and bumps update_seq; every session compares the sequence with *)
(* the last one it saw when its poll times out, and redraws its own        *)
(* screen.  Mentions reach a session through three atomics of its client_t *)
(* (unread_mentions, pending_bells, redraw_pending) written one after the  *)
(* other by the poster's thread.                                           *)
(*                                                                         *)
(* pc[c] is the program counter of c's thread in input_run_session.  One   *)
(* action is one access of the room (a critical section of its lock) or of *)
(* one of the atomics, with the thread-local work around it.               *)
(***************************************************************************)
EXTENDS Integers, FiniteSets

CONSTANTS
    Client,       \* sessions watched; one is reused once its client_t is freed
    Other,        \* threads looked at only for what they do to the room and to
                  \* Client: other sessions, the module worker, exec sessions
    MaxSeq        \* bound of the broadcasts

ASSUME RedrawAssumption ==
    /\ IsFiniteSet(Client) /\ IsFiniteSet(Other)
    /\ Client \cap Other = {}
    /\ MaxSeq \in Nat

Thread == Client \cup Other

VARIABLES
    seq,       \* g_room->update_seq; the messages change with it
    members,   \* g_room->clients
    pc,
    seen,      \* seen_update_seq
    current,   \* current_update_seq
    overlay,   \* show_help, show_motd and command_output cover the chat
    screen,    \* what the last tui_render_screen was computed from
    small,     \* render_buffer may be too small for the terminal
    lost,      \* history: the last drawing was given up for want of memory
    mentions,  \* unread_mentions
    bell,      \* pending_bells
    redraw,    \* redraw_pending
    post       \* each thread's progress through notify_mentions

room  == <<seq, members>>
memory == <<small, lost>>
loop  == <<pc, seen, current, overlay, screen, memory>>
flags == <<mentions, bell, redraw>>
vars  == <<room, loop, flags, post>>

-----------------------------------------------------------------------------

NoScreen == [seq |-> 0, online |-> 0, mentions |-> 0, by |-> "join"]
NoPost   == [at |-> "none", todo |-> {}, counted |-> {}, belled |-> {}]

(* tui_render_screen: count the clients, copy the messages, read the       *)
(* unread counter.  "draw0" to "draw2" return to "sync", the other three   *)
(* to the main loop.                                                       *)
JoinDraw == {"draw0", "draw1", "draw2"}
LoopDraw == {"count", "copy", "title"}
InLoop   == {"loop", "idle", "decide", "clear"} \cup LoopDraw
PCs == {"out", "join", "sync", "post", "leaving", "left"} \cup JoinDraw \cup InLoop

Goto(c, l) == pc' = [pc EXCEPT ![c] = l]

(* A broadcast is still to come from a session that joins or leaves.       *)
Committed == {c \in Client : pc[c] \in {"join", "leaving", "left"}}
                \cup {t \in Other : post[t].at = "announce"}
SeqLeft == seq + Cardinality(Committed) < MaxSeq

Init ==
    /\ seq = 0
    /\ members = {}
    /\ pc = [c \in Client |-> "out"]
    /\ seen = [c \in Client |-> 0]
    /\ current = [c \in Client |-> 0]
    /\ overlay = [c \in Client |-> "none"]
    /\ screen = [c \in Client |-> NoScreen]
    /\ small = [c \in Client |-> TRUE]
    /\ lost = [c \in Client |-> FALSE]
    /\ mentions = [c \in Client |-> 0]
    /\ bell = [c \in Client |-> FALSE]
    /\ redraw = [c \in Client |-> FALSE]
    /\ post = [t \in Thread |-> NoPost]

-----------------------------------------------------------------------------
(* Joining and leaving.                                                    *)

(* A new client_t: an old one of the same name is no longer referenced.    *)
RoomAddClient(c) ==
    /\ pc[c] = "out"
    /\ \A t \in Thread : c \notin post[t].todo \cup post[t].counted \cup post[t].belled
    /\ SeqLeft
    /\ members' = members \cup {c}
    /\ mentions' = [mentions EXCEPT ![c] = 0]
    /\ bell' = [bell EXCEPT ![c] = FALSE]
    /\ redraw' = [redraw EXCEPT ![c] = FALSE]
    /\ Goto(c, "join")
    /\ UNCHANGED <<seq, seen, current, overlay, screen, memory, post>>

(* room_broadcast of the join message; then the MOTD covers the screen, or *)
(* the chat is drawn.                                                      *)
JoinBroadcast(c) ==
    /\ pc[c] = "join"
    /\ seq' = seq + 1
    /\ \/ overlay' = [overlay EXCEPT ![c] = "motd"] /\ Goto(c, "sync")
       \/ UNCHANGED overlay /\ Goto(c, "draw0")
    /\ UNCHANGED <<members, seen, current, screen, memory, flags, post>>

(* seen_update_seq = room_get_update_seq(g_room), after the first drawing. *)
SyncSeen(c) ==
    /\ pc[c] = "sync"
    /\ seen' = [seen EXCEPT ![c] = seq]
    /\ Goto(c, "loop")
    /\ UNCHANGED <<room, current, overlay, screen, memory, flags, post>>

(* The loop ends: a closed channel, a failed flush, the idle timeout, quit. *)
LeaveLoop(c) ==
    /\ pc[c] \in {"loop", "idle"}
    /\ SeqLeft
    /\ Goto(c, "leaving")
    /\ UNCHANGED <<room, seen, current, overlay, screen, memory, flags, post>>

RoomRemoveClient(c) ==
    /\ pc[c] = "leaving"
    /\ members' = members \ {c}
    /\ Goto(c, "left")
    /\ UNCHANGED <<seq, seen, current, overlay, screen, memory, flags, post>>

(* The session's locals and its terminal are gone with it.                 *)
EndSession(c) ==
    /\ seen' = [seen EXCEPT ![c] = 0]
    /\ current' = [current EXCEPT ![c] = 0]
    /\ overlay' = [overlay EXCEPT ![c] = "none"]
    /\ screen' = [screen EXCEPT ![c] = NoScreen]
    /\ small' = [small EXCEPT ![c] = TRUE]
    /\ lost' = [lost EXCEPT ![c] = FALSE]
    /\ Goto(c, "out")

LeaveBroadcast(c) ==
    /\ pc[c] = "left"
    /\ seq' = seq + 1
    /\ EndSession(c)
    /\ UNCHANGED <<members, flags, post>>

(* Another session's place in the list of clients, and its message.        *)
OtherMove(t, m) ==
    /\ post[t] = NoPost
    /\ SeqLeft
    /\ members' = m
    /\ post' = [post EXCEPT ![t].at = "announce"]
    /\ UNCHANGED <<seq, loop, flags>>

OtherJoin(t)  == t \notin members /\ OtherMove(t, members \cup {t})
OtherLeave(t) == t \in members /\ OtherMove(t, members \ {t})

(* A message that is written to the log and not broadcast.                 *)
OtherAnnounceDropped(t) ==
    /\ post[t].at = "announce"
    /\ post' = [post EXCEPT ![t] = NoPost]
    /\ UNCHANGED <<room, loop, flags>>

OtherAnnounce(t) ==
    /\ post[t].at = "announce"
    /\ seq' = seq + 1
    /\ post' = [post EXCEPT ![t] = NoPost]
    /\ UNCHANGED <<members, loop, flags>>

-----------------------------------------------------------------------------
(* tui_render_screen.  The terminal gets the buffer as a whole; screen is  *)
(* looked at only when the drawing is over.                                *)

Draw(c, from, to, scr) ==
    /\ pc[c] = from
    /\ screen' = [screen EXCEPT ![c] = scr]
    /\ Goto(c, to)
    /\ UNCHANGED <<room, seen, current, overlay, flags, post>>

(* client_render_buffer has the buffer; first lock: the counts.            *)
DrawCount(c) ==
    LET scr == [screen[c] EXCEPT !.online = Cardinality(members)]
    IN  /\ \/ Draw(c, "draw0", "draw1", [scr EXCEPT !.by = "join"])
           \/ Draw(c, "count", "copy", [scr EXCEPT !.by = "loop"])
        /\ small' = [small EXCEPT ![c] = FALSE]
        /\ lost' = [lost EXCEPT ![c] = FALSE]

(* The buffer has to grow and there is no memory: nothing is drawn.        *)
DrawGivenUp(c) ==
    /\ small[c]
    /\ \/ Draw(c, "draw0", "sync", screen[c])
       \/ Draw(c, "count", "loop", screen[c])
    /\ lost' = [lost EXCEPT ![c] = TRUE]
    /\ UNCHANGED small

(* Second lock: the messages, and the clients again for a user who has     *)
(* muted joins.                                                            *)
DrawCopy(c) ==
    /\ \E online \in {screen[c].online, Cardinality(members)} :
          LET scr == [screen[c] EXCEPT !.seq = seq, !.online = online]
          IN  \/ Draw(c, "draw1", "draw2", scr)
              \/ Draw(c, "copy", "title", scr)
    /\ UNCHANGED memory

(* There is no memory for the snapshot: a chat without its messages.       *)
DrawNoMessages(c) ==
    LET scr == [screen[c] EXCEPT !.seq = 0]
    IN  /\ \/ Draw(c, "draw1", "draw2", scr)
           \/ Draw(c, "copy", "title", scr)
        /\ UNCHANGED memory

DrawTitle(c) ==
    LET scr == [screen[c] EXCEPT !.mentions = mentions[c]]
    IN  /\ \/ Draw(c, "draw2", "sync", scr)
           \/ Draw(c, "title", "loop", scr)
        /\ UNCHANGED memory

-----------------------------------------------------------------------------
(* The main loop when the poll times out.                                  *)

PollTimeout(c) ==
    /\ pc[c] = "loop"
    /\ current' = [current EXCEPT ![c] = seq]
    /\ Goto(c, "idle")
    /\ UNCHANGED <<room, seen, overlay, screen, memory, flags, post>>

(* client_flush_pending_bells.                                             *)
FlushBells(c) ==
    /\ pc[c] = "idle"
    /\ bell' = [bell EXCEPT ![c] = FALSE]
    /\ Goto(c, "decide")
    /\ UNCHANGED <<room, seen, current, overlay, screen, memory, mentions, redraw, post>>

(* Redrawing on request only.                                              *)
DecideFlagOnly(c) ==
    /\ pc[c] = "decide"
    /\ current' = [current EXCEPT ![c] = 0]
    /\ Goto(c, IF redraw[c] THEN "clear" ELSE "loop")
    /\ UNCHANGED <<room, seen, overlay, screen, memory, flags, post>>

(* Redrawing for updates only.                                             *)
DecideSeqOnly(c) ==
    /\ pc[c] = "decide"
    /\ seen' = [seen EXCEPT ![c] = current[c]]
    /\ current' = [current EXCEPT ![c] = 0]
    /\ Goto(c, IF current[c] # seen[c] /\ overlay[c] = "none" THEN "clear" ELSE "loop")
    /\ UNCHANGED <<room, overlay, screen, memory, flags, post>>

(* The sequence is taken as seen whether the chat is drawn now or covered; *)
(* redraw_pending is read.  current is dead from here on.                  *)
Decide(c) ==
    /\ pc[c] = "decide"
    /\ seen' = [seen EXCEPT ![c] = current[c]]
    /\ current' = [current EXCEPT ![c] = 0]
    /\ Goto(c, IF redraw[c] \/ (current[c] # seen[c] /\ overlay[c] = "none")
               THEN "clear" ELSE "loop")
    /\ UNCHANGED <<room, overlay, screen, memory, flags, post>>

(* redraw_pending = false; an overlay is drawn from thread-local text.     *)
ClearRedraw(c) ==
    /\ pc[c] = "clear"
    /\ redraw' = [redraw EXCEPT ![c] = FALSE]
    /\ Goto(c, IF overlay[c] = "none" THEN "count" ELSE "loop")
    /\ UNCHANGED <<room, seen, current, overlay, screen, memory, mentions, bell, post>>

(* client_channel_window_change, which libssh runs inside the poll: the    *)
(* buffer may have to grow with the terminal.                              *)
WindowChange(c) ==
    /\ pc[c] = "loop"
    /\ redraw' = [redraw EXCEPT ![c] = TRUE]
    /\ small' = [small EXCEPT ![c] = TRUE]
    /\ UNCHANGED <<room, pc, seen, current, overlay, screen, lost, mentions, bell, post>>

-----------------------------------------------------------------------------
(* The main loop when a key is ready: handle_key.  Typing, completion and  *)
(* paging draw one line or the overlay and change nothing here.            *)

(* Scrolling, changing mode, an Enter without a message.                   *)
KeyDraw(c) ==
    /\ pc[c] = "loop" /\ overlay[c] = "none"
    /\ Goto(c, "count")
    /\ UNCHANGED <<room, seen, current, overlay, screen, memory, flags, post>>

(* normal_enter_insert and G: the mentions are read.                       *)
KeyReadMentions(c) ==
    /\ pc[c] = "loop" /\ overlay[c] = "none"
    /\ mentions' = [mentions EXCEPT ![c] = 0]
    /\ Goto(c, "count")
    /\ UNCHANGED <<room, seen, current, overlay, screen, memory, bell, redraw, post>>

(* ? and a command: help or command output covers the chat.                *)
KeyOverlay(c) ==
    /\ pc[c] = "loop" /\ overlay[c] = "none"
    /\ overlay' = [overlay EXCEPT ![c] = "output"]
    /\ UNCHANGED <<room, pc, seen, current, screen, memory, flags, post>>

(* Closing an overlay without drawing what it covered.                     *)
KeyDismissBare(c) ==
    /\ pc[c] = "loop" /\ overlay[c] # "none"
    /\ overlay' = [overlay EXCEPT ![c] = "none"]
    /\ mentions' = IF overlay[c] = "motd" THEN [mentions EXCEPT ![c] = 0]
                                          ELSE mentions
    /\ UNCHANGED <<room, pc, seen, current, screen, memory, bell, redraw, post>>

(* dismiss_command_output, and closing the help.                           *)
KeyDismiss(c) ==
    /\ pc[c] = "loop" /\ overlay[c] # "none"
    /\ overlay' = [overlay EXCEPT ![c] = "none"]
    /\ mentions' = IF overlay[c] = "motd" THEN [mentions EXCEPT ![c] = 0]
                                          ELSE mentions
    /\ Goto(c, "count")
    /\ UNCHANGED <<room, seen, current, screen, memory, bell, redraw, post>>

(* Enter with a message that was saved: room_broadcast.                    *)
KeyEnter(c) ==
    /\ pc[c] = "loop" /\ overlay[c] = "none"
    /\ SeqLeft
    /\ seq' = seq + 1
    /\ post' = [post EXCEPT ![c].at = "collect"]
    /\ Goto(c, "post")
    /\ UNCHANGED <<members, seen, current, overlay, screen, memory, flags>>

(* notify_mentions has returned; the sender's screen is drawn.             *)
KeyEnterDraw(c) ==
    /\ pc[c] = "post" /\ post[c] = NoPost
    /\ Goto(c, "count")
    /\ UNCHANGED <<room, seen, current, overlay, screen, memory, flags, post>>

-----------------------------------------------------------------------------
(* notify_mentions, on whichever thread posted.                            *)

(* handle_key, publish_module_message or exec_command_post.                *)
OtherPost(t) ==
    /\ post[t] = NoPost
    /\ SeqLeft
    /\ seq' = seq + 1
    /\ post' = [post EXCEPT ![t].at = "collect"]
    /\ UNCHANGED <<members, loop, flags>>

(* Under the room's lock: the mentioned members, except the sender (and    *)
(* those whose flags are not looked at).                                   *)
Collect(t, targets) ==
    /\ post[t].at = "collect"
    /\ targets \subseteq (members \cap Client) \ {t}
    /\ post' = [post EXCEPT ![t] =
          IF targets = {} THEN NoPost ELSE [NoPost EXCEPT !.at = "notify", !.todo = targets]]
    /\ UNCHANGED <<room, loop, flags>>

(* One target after the other: unread_mentions++, ...                      *)
NotifyCount(t, c) ==
    /\ c \in post[t].todo /\ post[t].counted = {} /\ post[t].belled = {}
    /\ mentions' = [mentions EXCEPT ![c] = @ + 1]
    /\ post' = [post EXCEPT ![t] = [@ EXCEPT !.todo = post[t].todo \ {c}, !.counted = {c}]]
    /\ UNCHANGED <<room, loop, bell, redraw>>

(* ... client_queue_bell, first the bell ...                               *)
NotifyBell(t, c) ==
    /\ c \in post[t].counted
    /\ bell' = [bell EXCEPT ![c] = TRUE]
    /\ post' = [post EXCEPT ![t] = [@ EXCEPT !.counted = {}, !.belled = {c}]]
    /\ UNCHANGED <<room, loop, mentions, redraw>>

(* ... then redraw_pending; the reference to the target is dropped.        *)
NotifyRedraw(t, c) ==
    /\ c \in post[t].belled
    /\ redraw' = [redraw EXCEPT ![c] = TRUE]
    /\ post' = [post EXCEPT ![t] =
          IF @.todo = {} THEN NoPost ELSE [@ EXCEPT !.belled = {}]]
    /\ UNCHANGED <<room, loop, mentions, bell>>

-----------------------------------------------------------------------------

(* What a session's thread does on its own, apart from waiting.            *)
LoopStep(c) ==
    \/ JoinBroadcast(c) \/ SyncSeen(c)
    \/ RoomRemoveClient(c) \/ LeaveBroadcast(c)
    \/ DrawCount(c) \/ DrawGivenUp(c) \/ DrawCopy(c) \/ DrawNoMessages(c) \/ DrawTitle(c)
    \/ FlushBells(c) \/ Decide(c) \/ ClearRedraw(c) \/ KeyEnterDraw(c)

PostStep(t) ==
    \/ \E targets \in SUBSET Client : Collect(t, targets)
    \/ \E c \in Client : NotifyCount(t, c) \/ NotifyBell(t, c) \/ NotifyRedraw(t, c)

UserStep(c) ==
    \/ RoomAddClient(c) \/ LeaveLoop(c) \/ WindowChange(c)
    \/ KeyDraw(c) \/ KeyReadMentions(c) \/ KeyOverlay(c) \/ KeyDismiss(c)
    \/ KeyEnter(c)

Next ==
    \/ \E c \in Client : LoopStep(c) \/ PollTimeout(c) \/ UserStep(c)
    \/ \E t \in Thread : PostStep(t)
    \/ \E t \in Other : OtherJoin(t) \/ OtherLeave(t) \/ OtherAnnounce(t) \/ OtherPost(t)

Spec == Init /\ [][Next]_vars

(* Threads are scheduled.  A poll times out again and again, because a     *)
(* user does not type without ever pausing for MAIN_LOOP_POLL_TIMEOUT_MS.  *)
FairSpec ==
    /\ Spec
    /\ \A c \in Client : WF_vars(LoopStep(c)) /\ SF_vars(PollTimeout(c))
    /\ \A t \in Thread : WF_vars(PostStep(t))
    /\ \A t \in Other : WF_vars(OtherAnnounce(t))

-----------------------------------------------------------------------------

Screens == [seq : Nat, online : Nat, mentions : Nat, by : {"join", "loop"}]
Posts   == [at : {"none", "collect", "notify", "announce"}, todo : SUBSET Client,
            counted : SUBSET Client, belled : SUBSET Client]

TypeOK ==
    /\ seq \in Nat
    /\ members \subseteq Thread
    /\ pc \in [Client -> PCs]
    /\ seen \in [Client -> Nat]
    /\ current \in [Client -> Nat]
    /\ overlay \in [Client -> {"none", "motd", "output"}]
    /\ screen \in [Client -> Screens]
    /\ small \in [Client -> BOOLEAN]
    /\ lost \in [Client -> BOOLEAN]
    /\ mentions \in [Client -> Nat]
    /\ bell \in [Client -> BOOLEAN]
    /\ redraw \in [Client -> BOOLEAN]
    /\ post \in [Thread -> Posts]

(* c waits for input with the chat on its terminal.                        *)
Watching(c) == pc[c] = "loop" /\ overlay[c] = "none"

(* The screen has no messages; c's own joining would be there.             *)
Bare(c) == screen[c].seq = 0

(* The main loop never takes an update for seen that its screen does not   *)
(* show: an update that arrives while it draws, or while an overlay covers *)
(* the chat, is drawn before the loop waits again or is still unseen.  The *)
(* exception is a drawing that ran out of memory, after which the old      *)
(* screen stays, or one without messages: nothing asks for it again.       *)
ScreenFresh ==
    \A c \in Client :
        Watching(c) /\ screen[c].by = "loop" /\ ~lost[c] /\ ~Bare(c)
            => screen[c].seq >= seen[c]

(* Why it holds: a session that waits has copied the messages no earlier   *)
(* than what it takes for seen, unless its screen is the one drawn when it *)
(* joined; and it takes nothing for seen that was not there.               *)
Fresh(c) ==
    /\ seen[c] <= seq /\ current[c] <= seq
    /\ pc[c] \in {"out", "join", "sync"} \cup JoinDraw => screen[c].by = "join"
    /\ pc[c] = "title" => screen[c].seq >= seen[c] \/ Bare(c)
    /\ /\ pc[c] \in {"loop", "idle", "decide"} /\ overlay[c] = "none"
       /\ screen[c].by = "loop" /\ ~lost[c] /\ ~Bare(c)
       => screen[c].seq >= seen[c]

FreshInv == TypeOK /\ \A c \in Client : Fresh(c)

(* When nobody is joining or leaving and c has seen the last update, the   *)
(* online count on its screen is right, although it is read under another  *)
(* lock than the messages, and also when there was no memory for these.    *)
OnlineExact ==
    \A c \in Client :
        /\ Watching(c) /\ screen[c].by = "loop" /\ seen[c] = seq
        /\ ~lost[c] /\ Committed = {}
        => screen[c].online = Cardinality(members)

(* Why it holds: who changes the list of clients owes a broadcast, and a   *)
(* count that was read before the change is older than that.  Nobody that  *)
(* owes one notifies a mention.                                            *)
Counted(c) ==
    /\ pc[c] \in {"copy", "title", "loop", "idle", "decide"} /\ overlay[c] = "none"
    /\ screen[c].by = "loop" /\ ~lost[c]
    => screen[c].online = Cardinality(members) \/ Committed # {} \/ seq > seen[c]

Owing ==
    \A t \in Other : post[t].at = "announce"
        => post[t].todo = {} /\ post[t].counted = {} /\ post[t].belled = {}

OnlineInv == FreshInv /\ Owing /\ \A c \in Client : Counted(c)

(* An update that the main loop has not seen is shown, unless memory runs  *)
(* out in the drawing, or the user covers the chat or leaves.              *)
UpdateShown ==
    \A c \in Client : \A n \in 1 .. MaxSeq :
        (pc[c] \in InLoop /\ seen[c] < n /\ seq >= n)
            ~> (screen[c].seq >= n \/ lost[c] \/ Bare(c) \/ overlay[c] # "none"
                                  \/ pc[c] \notin InLoop)

(* A mention reaches the title of the screen, with or without the memory   *)
(* for the messages, unless nothing could be drawn, or the user covers the *)
(* chat or leaves.                                                         *)
MentionReachesScreen ==
    \A c \in Client :
        (pc[c] \in InLoop /\ mentions[c] > screen[c].mentions)
            ~> (screen[c].mentions = mentions[c] \/ lost[c]
                    \/ overlay[c] # "none" \/ pc[c] \notin InLoop)
=============================================================================
