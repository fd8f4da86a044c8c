------------------------------- MODULE Whisper -------------------------------
(***************************************************************************)
(* Private messages: send_private_message, the inbox and :reply of         *)
(* commands.c, :nick, and the part of the main loop (input.c) that keeps   *)
(* an open inbox and the unread count of the title bar up to date.         *)
(*                                                                         *)
(* The sender finds its target by name under the room's lock and writes    *)
(* into the target's inbox afterwards, under whisper_lock; the target's    *)
(* own thread shows it.  One action is one critical section or one access  *)
(* to an atomic.                                                           *)
(***************************************************************************)
EXTENDS Integers, SequencesExt

CONSTANTS
    Client,      \* client_t objects, each with its session's thread
    Name,        \* usernames
    NoName,      \* the empty last_whisper_peer
    InboxSize,   \* WHISPER_INBOX_SIZE
    MaxMsgs      \* bound of the private messages sent

ASSUME WhisperAssumption ==
    /\ IsFiniteSet(Client)
    /\ NoName \notin Name
    /\ InboxSize \in Nat \ {0}
    /\ MaxMsgs \in Nat

VARIABLES
    members,  \* g_room->clients, in order
    name,     \* username
    inbox,    \* whisper_inbox
    unread,   \* unread_whispers
    peer,     \* last_whisper_peer
    redraw,   \* redraw_pending
    pc,       \* where each session's thread is
    view,     \* what covers the chat: nothing, the inbox, other output
    page,     \* the messages in an inbox page
    title,    \* the unread count of the last title bar drawn
    draft,    \* the private message each thread is sending
    msgs      \* messages sent so far

store  == <<inbox, unread, peer>>
screen == <<view, page, title>>
vars   == <<members, name, store, redraw, pc, screen, draft, msgs>>

-----------------------------------------------------------------------------

Entry == [id : 1 .. MaxMsgs, sent : BOOLEAN, new : BOOLEAN]
Ids(s) == {s[i].id : i \in 1 .. Len(s)}
NoDraft == [id |-> 0, to |-> NoName, target |-> {}]

Goto(c, l) == pc' = [pc EXCEPT ![c] = l]
InRoom == ToSet(members)

(* Nobody is about to write into c's inbox or to ring its bell.            *)
Unreferenced(c) == \A d \in Client : c \notin draft[d].target

Init ==
    /\ members = <<>>
    /\ name \in [Client -> Name]
    /\ inbox = [c \in Client |-> <<>>]
    /\ unread = [c \in Client |-> 0]
    /\ peer = [c \in Client |-> NoName]
    /\ redraw = [c \in Client |-> FALSE]
    /\ pc = [c \in Client |-> "out"]
    /\ view = [c \in Client |-> "chat"]
    /\ page = [c \in Client |-> {}]
    /\ title = [c \in Client |-> 0]
    /\ draft = [c \in Client |-> NoDraft]
    /\ msgs = 0

(* A session joins under the name its user typed, taken or not, and draws. *)
Join(c) ==
    /\ pc[c] = "out" /\ Unreferenced(c)
    /\ members' = Append(members, c)
    /\ \E n \in Name : name' = [name EXCEPT ![c] = n]
    /\ inbox' = [inbox EXCEPT ![c] = <<>>]
    /\ unread' = [unread EXCEPT ![c] = 0]
    /\ peer' = [peer EXCEPT ![c] = NoName]
    /\ redraw' = [redraw EXCEPT ![c] = FALSE]
    /\ Goto(c, "render")
    /\ UNCHANGED <<screen, draft, msgs>>

(* room_remove_client: those behind c move up.                             *)
RoomRemoveClient(c) ==
    \E i \in 1 .. Len(members) :
        members[i] = c /\ members' = RemoveAt(members, i)

(* The session ends, and its terminal is gone with it.                     *)
Leave(c) ==
    /\ pc[c] = "loop"
    /\ RoomRemoveClient(c)
    /\ title' = [title EXCEPT ![c] = 0]
    /\ view' = [view EXCEPT ![c] = "chat"]
    /\ page' = [page EXCEPT ![c] = {}]
    /\ Goto(c, "out")
    /\ UNCHANGED <<name, store, redraw, draft, msgs>>

-----------------------------------------------------------------------------
(* Commands.  Any of them ends with its output on the screen.              *)

(* :nick, under the write lock, so that names are compared and changed at  *)
(* once.                                                                   *)
NickTaken(c, n) == \E d \in InRoom \ {c} : name[d] = n

Nick(c, n) ==
    /\ pc[c] = "loop" /\ view[c] = "chat"
    /\ name' = IF n # name[c] /\ NickTaken(c, n) THEN name ELSE [name EXCEPT ![c] = n]
    /\ view' = [view EXCEPT ![c] = "other"]
    /\ UNCHANGED <<members, store, redraw, pc, page, title, draft, msgs>>

Draft(c, n) ==
    /\ msgs < MaxMsgs
    /\ msgs' = msgs + 1
    /\ draft' = [draft EXCEPT ![c] = [id |-> msgs + 1, to |-> n, target |-> {}]]
    /\ Goto(c, "find")
    /\ UNCHANGED <<members, name, store, redraw, screen>>

(* :msg.                                                                   *)
Msg(c, n) ==
    /\ pc[c] = "loop" /\ view[c] = "chat"
    /\ Draft(c, n)

(* :reply reads the peer's name under whisper_lock.                        *)
Reply(c) ==
    /\ pc[c] = "loop" /\ view[c] = "chat"
    /\ IF peer[c] = NoName
       THEN /\ view' = [view EXCEPT ![c] = "other"]
            /\ UNCHANGED <<members, name, store, redraw, pc, page, title, draft, msgs>>
       ELSE Draft(c, peer[c])

(* The places of the room whose client has the name n.                     *)
Named(n) == {i \in 1 .. Len(members) : name[members[i]] = n}

(* send_private_message: the first member of that name.                    *)
Find(c) ==
    /\ pc[c] = "find"
    /\ \/ \E i \in Named(draft[c].to) :
             /\ \A j \in Named(draft[c].to) : i <= j
             /\ draft' = [draft EXCEPT ![c] = [@ EXCEPT !.target = {members[i]}]]
             /\ Goto(c, "deliver")
             /\ UNCHANGED view
       \/ /\ Named(draft[c].to) = {}
          /\ draft' = [draft EXCEPT ![c] = NoDraft]
          /\ view' = [view EXCEPT ![c] = "other"]
          /\ Goto(c, "loop")
    /\ UNCHANGED <<members, name, store, redraw, page, title, msgs>>

(* client_append_whisper into d's inbox, of a message exchanged with n.    *)
AppendWhisper(d, id, n, sent) ==
    /\ inbox' = [inbox EXCEPT ![d] =
          Append(IF Len(@) < InboxSize THEN @ ELSE Tail(@),
                 [id |-> id, sent |-> sent, new |-> ~sent])]
    /\ peer' = [peer EXCEPT ![d] = n]
    /\ unread' = IF sent THEN unread ELSE [unread EXCEPT ![d] = @ + 1]

(* The target's copy first.  It may have left the room by now.             *)
Deliver(c) ==
    /\ pc[c] = "deliver"
    /\ \E d \in draft[c].target :
          /\ AppendWhisper(d, draft[c].id, name[c], FALSE)
          /\ Goto(c, IF d = c THEN "bell" ELSE "copy")
    /\ UNCHANGED <<members, name, redraw, screen, draft, msgs>>

CopySent(c) ==
    /\ pc[c] = "copy"
    /\ AppendWhisper(c, draft[c].id, draft[c].to, TRUE)
    /\ Goto(c, "bell")
    /\ UNCHANGED <<members, name, redraw, screen, draft, msgs>>

(* Ringing only for somebody who has nothing unread yet.                   *)
BellOnce(c) ==
    /\ pc[c] = "bell"
    /\ redraw' = [d \in Client |-> redraw[d] \/ (d \in draft[c].target /\ title[d] = 0)]
    /\ draft' = [draft EXCEPT ![c] = NoDraft]
    /\ view' = [view EXCEPT ![c] = "other"]
    /\ Goto(c, "loop")
    /\ UNCHANGED <<members, name, store, page, title, msgs>>

(* client_queue_bell; the target is released and the command is over.      *)
Bell(c) ==
    /\ pc[c] = "bell"
    /\ redraw' = [d \in Client |-> redraw[d] \/ d \in draft[c].target]
    /\ draft' = [draft EXCEPT ![c] = NoDraft]
    /\ view' = [view EXCEPT ![c] = "other"]
    /\ Goto(c, "loop")
    /\ UNCHANGED <<members, name, store, page, title, msgs>>

(* append_inbox_output: what was unread is now read.                       *)
SeenNone(s) == s

Seen(s) == [i \in 1 .. Len(s) |-> [s[i] EXCEPT !.new = FALSE]]

AppendInboxOutput(c) ==
    /\ page' = [page EXCEPT ![c] = Ids(inbox[c])]
    /\ inbox' = [inbox EXCEPT ![c] = Seen(@)]
    /\ unread' = [unread EXCEPT ![c] = 0]
    /\ UNCHANGED peer

(* :inbox, or the second half of :inbox clear.                             *)
Inbox(c) ==
    /\ \/ pc[c] = "loop" /\ view[c] = "chat"
       \/ pc[c] = "cleared"
    /\ AppendInboxOutput(c)
    /\ view' = [view EXCEPT ![c] = "inbox"]
    /\ Goto(c, "loop")
    /\ UNCHANGED <<members, name, redraw, title, draft, msgs>>

(* :inbox clear: clear_inbox.                                              *)
InboxClear(c) ==
    /\ pc[c] = "loop" /\ view[c] = "chat"
    /\ inbox' = [inbox EXCEPT ![c] = <<>>]
    /\ unread' = [unread EXCEPT ![c] = 0]
    /\ peer' = [peer EXCEPT ![c] = NoName]
    /\ Goto(c, "cleared")
    /\ UNCHANGED <<members, name, redraw, screen, draft, msgs>>

(* Marking as read what the open page does not show yet.                   *)
KeyRefreshUnshown(c) ==
    /\ pc[c] = "loop" /\ view[c] = "inbox"
    /\ inbox' = [inbox EXCEPT ![c] = Seen(@)]
    /\ unread' = [unread EXCEPT ![c] = 0]
    /\ UNCHANGED <<members, name, peer, redraw, pc, screen, draft, msgs>>

(* commands_refresh_active_output, for the key r.                          *)
KeyRefresh(c) ==
    /\ pc[c] = "loop" /\ view[c] = "inbox"
    /\ AppendInboxOutput(c)
    /\ UNCHANGED <<members, name, redraw, pc, view, title, draft, msgs>>

(* dismiss_command_output.                                                 *)
Dismiss(c) ==
    /\ pc[c] = "loop" /\ view[c] # "chat"
    /\ view' = [view EXCEPT ![c] = "chat"]
    /\ page' = [page EXCEPT ![c] = {}]
    /\ Goto(c, "render")
    /\ UNCHANGED <<members, name, store, redraw, title, draft, msgs>>

-----------------------------------------------------------------------------
(* The main loop when the poll times out.                                  *)

(* An open inbox is refreshed on the user's request only.                  *)
PollManual(c) ==
    /\ pc[c] = "loop"
    /\ Goto(c, "decide")
    /\ UNCHANGED <<members, name, store, redraw, screen, draft, msgs>>

(* An open inbox with something unread is refreshed and drawn.             *)
Poll(c) ==
    /\ pc[c] = "loop"
    /\ IF view[c] = "inbox" /\ unread[c] > 0
       THEN AppendInboxOutput(c) /\ redraw' = [redraw EXCEPT ![c] = TRUE]
       ELSE UNCHANGED <<store, page, redraw>>
    /\ Goto(c, "decide")
    /\ UNCHANGED <<members, name, view, title, draft, msgs>>

(* Asked to, or because the room has changed.                              *)
Decide(c) ==
    /\ pc[c] = "decide"
    /\ \/ /\ redraw[c] \/ view[c] = "chat"
          /\ redraw' = [redraw EXCEPT ![c] = FALSE]
          /\ Goto(c, IF view[c] = "chat" THEN "render" ELSE "loop")
       \/ /\ ~redraw[c]
          /\ Goto(c, "loop")
          /\ UNCHANGED redraw
    /\ UNCHANGED <<members, name, store, screen, draft, msgs>>

(* tui_render_screen reads unread_whispers for the title bar.              *)
Render(c) ==
    /\ pc[c] = "render"
    /\ title' = [title EXCEPT ![c] = unread[c]]
    /\ Goto(c, "loop")
    /\ UNCHANGED <<members, name, store, redraw, view, page, draft, msgs>>

-----------------------------------------------------------------------------

ThreadStep(c) ==
    \/ Find(c) \/ Deliver(c) \/ CopySent(c) \/ Bell(c)
    \/ pc[c] = "cleared" /\ Inbox(c)
    \/ Decide(c) \/ Render(c)

UserStep(c) ==
    \/ Join(c) \/ Leave(c)
    \/ \E n \in Name : Nick(c, n) \/ Msg(c, n)
    \/ Reply(c)
    \/ pc[c] = "loop" /\ Inbox(c)
    \/ InboxClear(c) \/ KeyRefresh(c) \/ Dismiss(c)

Next == \E c \in Client : ThreadStep(c) \/ Poll(c) \/ UserStep(c)

Spec == Init /\ [][Next]_vars

(* Threads are scheduled, and a poll times out again and again because     *)
(* nobody types without ever pausing for MAIN_LOOP_POLL_TIMEOUT_MS.        *)
FairSpec ==
    Spec /\ \A c \in Client : WF_vars(ThreadStep(c)) /\ SF_vars(Poll(c))

-----------------------------------------------------------------------------

TypeOK ==
    /\ members \in Seq(Client)
    /\ name \in [Client -> Name]
    /\ inbox \in [Client -> Seq(Entry)]
    /\ \A c \in Client : Len(inbox[c]) <= InboxSize
    /\ unread \in [Client -> Nat]
    /\ peer \in [Client -> Name \cup {NoName}]
    /\ redraw \in [Client -> BOOLEAN]
    /\ pc \in [Client -> {"out", "loop", "find", "deliver", "copy", "bell",
                          "cleared", "decide", "render"}]
    /\ view \in [Client -> {"chat", "inbox", "other"}]
    /\ page \in [Client -> SUBSET (1 .. MaxMsgs)]
    /\ title \in [Client -> Nat]
    /\ msgs \in 0 .. MaxMsgs

(* Every message that is marked as unread is counted, so that the inbox is *)
(* refreshed and the title bar shows it; reading and clearing leave no     *)
(* mark behind while other threads deliver.                                *)
MarkedAreCounted ==
    \A c \in Client :
        Cardinality({i \in 1 .. Len(inbox[c]) : inbox[c][i].new}) <= unread[c]

(* A message that is in the inbox and not on the open inbox page is        *)
(* counted, so the next poll puts it there; also when the inbox was full   *)
(* and its oldest message had to go.                                       *)
InboxFresh ==
    \A c \in Client :
        pc[c] = "loop" /\ view[c] = "inbox" /\ Ids(inbox[c]) \ page[c] # {}
            => unread[c] > 0

(* A thread has counted a message of c and not yet asked for the redraw.   *)
BeingNotified(c) ==
    \E d \in Client : c \in draft[d].target /\ pc[d] \in {"copy", "bell"}

(* The unread count on the title bar is right, or a redraw is requested,   *)
(* or the sender is about to request it.                                   *)
TitleFresh ==
    \A c \in Client :
        pc[c] = "loop" /\ view[c] = "chat" /\ title[c] # unread[c]
            => redraw[c] \/ BeingNotified(c)

(* "it refreshes when a new private message arrives while the inbox is     *)
(* open": the open page comes to show what is in the inbox, unless the     *)
(* user leaves it.                                                         *)
InboxRefreshes ==
    \A c \in Client :
        (pc[c] # "out" /\ view[c] = "inbox" /\ Ids(inbox[c]) \ page[c] # {})
            ~> (Ids(inbox[c]) \subseteq page[c] \/ view[c] # "inbox" \/ pc[c] = "out")
=============================================================================
