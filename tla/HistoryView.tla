---------------------------- MODULE HistoryView ----------------------------
(***************************************************************************)
(* What one user sees of the room's history: the scroll rules of           *)
(* history_view.c, the keys of NORMAL mode and the mode changes of         *)
(* handle_key (input.c) that move the view, and the choice of the slice    *)
(* that tui_render_screen draws, while other sessions add messages and     *)
(* the room drops its oldest ones.                                         *)
(*                                                                         *)
(* The session's thread takes the room's lock several times on the way     *)
(* from a key to the screen; one action is one such critical section.      *)
(* The online count and the redraw flags are the business of Redraw.       *)
(***************************************************************************)
EXTENDS Integers, SequencesExt

CONSTANTS
    RoomSize,  \* MAX_MESSAGES
    Heights,   \* the terminal heights a user resizes to
    MaxMsgs    \* bound of the messages broadcast

ASSUME HistoryAssumption ==
    /\ RoomSize \in Nat \ {0}
    /\ Heights \subseteq Nat \ {0} /\ Heights # {}
    /\ MaxMsgs \in Nat

VARIABLES
    messages,  \* g_room->messages
    seq,       \* g_room->update_seq
    mode,      \* client->mode
    overlay,   \* "none", "help", "output", "motd"
    scroll,    \* scroll_pos
    follow,    \* follow_tail
    mute,      \* mute_joins
    height,    \* client->height
    seen,      \* seen_update_seq
    pc,        \* where the session's thread is
    plan,      \* the slice chosen by the first pass of tui_render_screen
    screen,    \* the messages on the screen
    cause      \* history: why the view may have moved since it was drawn

room     == <<messages, seq>>
client   == <<mode, overlay, scroll, follow, mute, height>>
viewVars == <<room, client, seen, pc, plan, screen, cause>>

-----------------------------------------------------------------------------
(* history_view.c.                                                         *)

Larger(a, b) == IF a > b THEN a ELSE b
Smaller(a, b) == IF a < b THEN a ELSE b

Height(h) == Larger(h - 3, 1)

MaxScroll(count, h) == Larger(count - h, 0)

(* rendered_rows_for_slice: a row per message and one per date divider.    *)
Rows(s) ==
    Len(s) + Cardinality({i \in 1 .. Len(s) : i = 1 \/ s[i].day # s[i - 1].day})

(* Counting the messages only.                                             *)
LatestStartNoDates(s, h) == MaxScroll(Len(s), h)

(* history_view_latest_start_for_height: as many of the last messages as   *)
(* fit, and at least one.                                                  *)
LatestStart(s, h) ==
    LET fits == {k \in 0 .. Len(s) - 1 :
                    \A l \in k .. Len(s) - 1 : Rows(SubSeq(s, l + 1, Len(s))) <= h}
    IN  IF fits = {} THEN Larger(Len(s) - 1, 0) ELSE Min(fits)

(* The part of a slice that gets onto h rows: the last divider or message  *)
(* ends where the rows do.                                                 *)
Drawn(s, h) == SubSeq(s, 1, Max({0} \cup {i \in 1 .. Len(s) : Rows(SubSeq(s, 1, i)) <= h}))

-----------------------------------------------------------------------------

Message == [id : 1 .. MaxMsgs, day : 0 .. MaxMsgs, sys : BOOLEAN]
Id(s) == [i \in 1 .. Len(s) |-> s[i].id]

(* The messages that do not tell of a user coming or going                 *)
(* (system_message_is_join_leave).                                         *)
Chat(s) ==
    LET scan[i \in 0 .. Len(s)] ==
            IF i = 0 THEN <<>>
            ELSE IF s[i].sys THEN scan[i - 1]
            ELSE Append(scan[i - 1], s[i])
    IN  scan[Len(s)]

(* The messages this user gets to see.                                     *)
Visible == IF mute THEN Chat(messages) ELSE messages

NoPlan == [count |-> 0, start |-> 0, end |-> 0, anchor |-> TRUE, newest |-> 0]
Blank == [shown |-> <<>>, anchor |-> TRUE, newest |-> 0]

Goto(l) == pc' = l

(* seen_update_seq before the main loop.                                   *)
NotSeen == -1

ViewInit ==
    /\ messages = <<>> /\ seq = 0
    /\ mode = "insert"
    /\ overlay \in {"none", "motd"}
    /\ scroll = 0 /\ follow = TRUE /\ mute = FALSE
    /\ height \in Heights
    /\ seen = NotSeen
    /\ pc = IF overlay = "motd" THEN "enter" ELSE "draw"
    /\ plan = NoPlan /\ screen = Blank
    /\ cause = "key"

(* room_broadcast by any session: a chat message or a join or leave, today *)
(* or on a new day.                                                        *)
Broadcast(sys, newday) ==
    /\ seq < MaxMsgs
    /\ LET today == IF messages = <<>> THEN 0 ELSE Last(messages).day
           msg == [id |-> seq + 1, sys |-> sys,
                   day |-> IF newday THEN today + 1 ELSE today]
       IN  messages' = Append(IF Len(messages) < RoomSize THEN messages
                              ELSE Tail(messages), msg)
    /\ seq' = seq + 1
    /\ cause' = IF Len(messages) >= RoomSize THEN "dropped" ELSE cause
    /\ UNCHANGED <<client, seen, pc, plan, screen>>

-----------------------------------------------------------------------------
(* tui_render_screen.                                                      *)

(* Where a screen of count messages starts, and whether at the latest.     *)
Slice(count) ==
    LET h == Height(height)
        latest == MaxScroll(count, h)
        start == IF mode = "normal" THEN Smaller(scroll, latest) ELSE latest
    IN  [count |-> count, start |-> start, end |-> Smaller(start + h, count),
         anchor |-> mode # "normal" \/ follow \/ scroll >= latest]

(* First pass: the counts.                                                 *)
DrawPlan ==
    /\ pc = "draw"
    /\ LET s == Slice(Len(messages))
           newest == IF Visible = <<>> THEN 0 ELSE Last(Visible).id
       IN  plan' = [count |-> s.count, start |-> s.start, end |-> s.end,
                    anchor |-> s.anchor, newest |-> newest]
    /\ Goto("copy")
    /\ UNCHANGED <<room, client, seen, screen, cause>>

(* Second pass: the messages.  A user who muted joins has the slice chosen *)
(* again among the visible ones; else it is clamped to what there is now.  *)
Copied ==
    LET h == Height(height)
        v == Visible
        p == IF mute /\ plan.count > 0 THEN Slice(Len(v))
             ELSE [plan EXCEPT !.end = Smaller(@, Len(v)),
                               !.start = Smaller(@, Smaller(plan.end, Len(v)))]
        start == IF p.anchor THEN LatestStart(v, h) ELSE p.start
        end == IF p.anchor THEN Len(v) ELSE p.end
        part == SubSeq(v, start + 1, end)
        slice == IF plan.count = 0 \/ (~mute /\ Len(part) > h) THEN <<>> ELSE part
    IN  [shown |-> Id(Drawn(slice, h)), anchor |-> p.anchor, newest |-> plan.newest]

DrawCopy ==
    /\ pc = "copy"
    /\ screen' = Copied
    /\ plan' = NoPlan
    /\ cause' = "none"
    /\ Goto(IF seen = NotSeen THEN "enter" ELSE "loop")
    /\ UNCHANGED <<room, client, seen>>

(* The first screen, or the MOTD, has been drawn.                          *)
Enter ==
    /\ pc = "enter"
    /\ seen' = seq
    /\ Goto("loop")
    /\ UNCHANGED <<room, client, plan, screen, cause>>

-----------------------------------------------------------------------------
(* Keys.                                                                   *)

InMode(m) == pc = "loop" /\ overlay = "none" /\ mode = m

(* history_view_scroll_to_latest.                                          *)
ToLatest ==
    /\ scroll' = MaxScroll(Len(Visible), Height(height))
    /\ follow' = TRUE

(* Every key handled here is a reason for the view to move.                *)
Key(l, c) ==
    /\ Goto(l)
    /\ cause' = c
    /\ UNCHANGED <<room, height, seen, plan, screen>>

(* One line, half a page or a page.                                        *)
Steps ==
    LET h == Height(height)
        amounts == {1, Larger(h \div 2, 1), h}
    IN  amounts \cup {-a : a \in amounts}

(* history_view_scroll_by.                                                 *)
KeyScroll(delta) ==
    LET latest == MaxScroll(Len(Visible), Height(height))
        from == IF follow /\ delta < 0 THEN latest ELSE scroll
    IN  /\ InMode("normal")
        /\ scroll' = Smaller(Larger(from + delta, 0), latest)
        /\ follow' = (scroll' >= latest)
        /\ Key("draw", IF delta < 0 THEN "up" ELSE "key")
        /\ UNCHANGED <<mode, overlay, mute>>

(* g, Home.                                                                *)
KeyOldest ==
    /\ InMode("normal")
    /\ scroll' = 0 /\ follow' = FALSE
    /\ Key("draw", "up")
    /\ UNCHANGED <<mode, overlay, mute>>

(* G, End.                                                                 *)
KeyLatest ==
    /\ InMode("normal")
    /\ ToLatest
    /\ Key("draw", "key")
    /\ UNCHANGED <<mode, overlay, mute>>

(* i, a, o.                                                                *)
KeyInsert ==
    /\ InMode("normal")
    /\ mode' = "insert" /\ follow' = TRUE
    /\ Key("draw", "key")
    /\ UNCHANGED <<overlay, scroll, mute>>

(* ESC or Ctrl+C in INSERT mode.                                           *)
KeyNormal ==
    /\ InMode("insert")
    /\ mode' = "normal" /\ ToLatest
    /\ Key("draw", "key")
    /\ UNCHANGED <<overlay, mute>>

(* : and /, which draw the command line only.                              *)
KeyCommand ==
    /\ InMode("normal")
    /\ mode' = "command"
    /\ Key("loop", "key")
    /\ UNCHANGED <<overlay, scroll, follow, mute>>

(* ESC, Ctrl+C or an empty command in COMMAND mode.                        *)
KeyAbandon ==
    /\ InMode("command")
    /\ mode' = "normal"
    /\ Key("draw", "key")
    /\ UNCHANGED <<overlay, scroll, follow, mute>>

(* A command shows its output; :mute-joins also changes what is visible.   *)
KeyRun(toggle) ==
    /\ InMode("command")
    /\ overlay' = "output"
    /\ mute' = IF toggle THEN ~mute ELSE mute
    /\ Key("loop", "key")
    /\ UNCHANGED <<mode, scroll, follow>>

(* ?.                                                                      *)
KeyHelp ==
    /\ InMode("normal")
    /\ overlay' = "help"
    /\ Key("loop", "key")
    /\ UNCHANGED <<mode, scroll, follow, mute>>

(* The help is closed, output is dismissed, the MOTD goes at any key.      *)
KeyClose ==
    /\ pc = "loop" /\ overlay # "none"
    /\ overlay' = "none"
    /\ mode' = CASE overlay = "help" -> mode [] overlay = "output" -> "normal"
                 [] OTHER -> "insert"
    /\ IF overlay = "motd" THEN ToLatest ELSE UNCHANGED <<scroll, follow>>
    /\ Key("draw", "key")
    /\ UNCHANGED mute

(* client_channel_window_change; a redraw follows with a poll.             *)
Resize(h) ==
    /\ pc = "loop" /\ h # height
    /\ height' = h
    /\ cause' = "key"
    /\ UNCHANGED <<room, mode, overlay, scroll, follow, mute, seen, pc, plan, screen>>

-----------------------------------------------------------------------------
(* The main loop when the poll times out.                                  *)

(* Following new messages in NORMAL mode wherever the user has scrolled.   *)
PollAlways ==
    /\ pc = "loop"
    /\ seen' = seq
    /\ Goto(IF overlay = "none" /\ seq # seen
            THEN IF mode = "normal" THEN "sync" ELSE "draw"
            ELSE "loop")
    /\ UNCHANGED <<room, client, plan, screen, cause>>

(* The chat is drawn when the room has changed, or for a resize or a bell  *)
(* (redraw).                                                               *)
Poll ==
    /\ pc = "loop"
    /\ seen' = seq
    /\ \E redraw \in BOOLEAN :
          Goto(IF overlay = "none" /\ (redraw \/ seq # seen)
               THEN IF seq # seen /\ mode = "normal" /\ follow THEN "sync" ELSE "draw"
               ELSE "loop")
    /\ UNCHANGED <<room, client, plan, screen, cause>>

(* normal_scroll_to_latest.                                                *)
Sync ==
    /\ pc = "sync"
    /\ ToLatest
    /\ Goto("draw")
    /\ UNCHANGED <<room, mode, overlay, mute, height, seen, plan, screen, cause>>

-----------------------------------------------------------------------------

UserStep ==
    \/ \E d \in Steps : KeyScroll(d)
    \/ KeyOldest \/ KeyLatest \/ KeyInsert \/ KeyNormal \/ KeyCommand
    \/ KeyAbandon \/ KeyHelp \/ KeyClose
    \/ \E toggle \in BOOLEAN : KeyRun(toggle)
    \/ \E h \in Heights : Resize(h)

ViewNext ==
    \/ \E sys, newday \in BOOLEAN : Broadcast(sys, newday)
    \/ UserStep \/ Enter \/ Poll \/ Sync \/ DrawPlan \/ DrawCopy

ViewSpec == ViewInit /\ [][ViewNext]_viewVars

-----------------------------------------------------------------------------

Plans == [count : 0 .. RoomSize, start : 0 .. RoomSize, end : 0 .. RoomSize,
          anchor : BOOLEAN, newest : 0 .. MaxMsgs]
Screens == [shown : Seq(1 .. MaxMsgs), anchor : BOOLEAN, newest : 0 .. MaxMsgs]

ViewTypeOK ==
    /\ messages \in Seq(Message) /\ Len(messages) <= RoomSize
    /\ seq \in 0 .. MaxMsgs /\ seen \in NotSeen .. MaxMsgs
    /\ mode \in {"insert", "normal", "command"}
    /\ overlay \in {"none", "help", "output", "motd"}
    /\ scroll \in 0 .. RoomSize
    /\ follow \in BOOLEAN /\ mute \in BOOLEAN /\ cause \in {"none", "key", "up", "dropped"}
    /\ height \in Heights
    /\ pc \in {"enter", "loop", "sync", "draw", "copy"}
    /\ plan \in Plans /\ screen \in Screens

(* "date dividers cannot push the newest messages off-screen": a screen    *)
(* drawn at the latest messages shows the newest message there was when    *)
(* the drawing began, unless the room has dropped it meanwhile.            *)
LatestShown ==
    pc = "loop" /\ screen.anchor /\ screen.newest \in {m.id : m \in ToSet(Visible)}
        => \E i \in 1 .. Len(screen.shown) : screen.shown[i] >= screen.newest

(* A user who browses the history is left alone: without a key, a resize   *)
(* or a message dropped by the room, drawing again for new messages shows  *)
(* the same messages as before.                                            *)
BrowsingStable ==
    [][DrawCopy /\ cause = "none" /\ ~screen.anchor => screen'.shown = screen.shown]_viewVars

(* "Stays pinned to latest until you scroll up".                           *)
PinnedUntilUp ==
    [][follow /\ ~follow' => cause' = "up"]_viewVars
=============================================================================
