----------------------------- MODULE KeyStream -----------------------------
(***************************************************************************)
(* From the bytes of a terminal to messages: read_username, handle_key and *)
(* the character buffering of the main loop (input.c), input_buffer.c, and *)
(* the command line's part of commands_dispatch (commands.c).              *)
(*                                                                         *)
(* Keys and pastes are sequences of the bytes of Records.  The session     *)
(* takes them from the channel one at a time, waits a limited time for the *)
(* rest of an escape sequence, of a character or of a paste, and may find  *)
(* that time over in the middle of one.  Moving the view is the business   *)
(* of HistoryView.                                                         *)
(***************************************************************************)
EXTENDS Records

CONSTANTS
    Keys,       \* what single key presses send, sequences of bytes
    Pastes,     \* the texts pasted, sequences of bytes
    Names,      \* the names of the users in the room, sequences of bytes
    HistSize,   \* entries of a history ring
    MaxAhead,   \* bound of the unread bytes before a key is pressed
    MaxTyped    \* bound of the keys and pastes typed

(* The bytes that a terminal sends.                                        *)
Typable ==
    Printable \cup Second \cup {"lead", "cr", "esc", "bs", "tab", "ctrlw", "ctrlu", "ctrlc"}

ASSUME KeyAssumption ==
    /\ Keys \subseteq Seq(Typable) /\ Pastes \subseteq Seq(Typable)
    /\ \A n \in Names \cup {Anonymous} :
          n \in Seq(Typable) /\ n # <<>> /\ Len(n) < NameSize /\ Whole(n)
    /\ HistSize \in Nat \ {0}
    /\ MaxAhead \in Nat /\ MaxTyped \in Nat

VARIABLES
    stalls,   \* whether the rest of a key or a paste may be late; never changes
    chan,     \* bytes received and not yet read
    pc,       \* what the session is reading
    name,     \* username, then client->username
    mode,     \* client->mode
    overlay,  \* "none", "help", "output", "motd"
    text,     \* input and command_input, by mode
    hist,     \* insert_history and command_history, by mode
    part,     \* paste_utf8
    typed,    \* keys and pastes typed
    enters,   \* history: Enter keys among them that no prompt has taken
    sent,     \* history: how many messages were given to message_save
    last      \* history: the last of them

ui    == <<mode, overlay>>
saved == <<sent, last>>
vars  == <<stalls, chan, pc, name, ui, text, hist, part, typed, enters, saved>>

-----------------------------------------------------------------------------
PasteStart == <<"esc", "[", "2", "0", "0", "~">>
PasteEnd   == <<"esc", "[", "2", "0", "1", "~">>

(* Filling the buffer to its last byte.                                    *)
AppendBytesCut(s, b) ==
    LET room == InputSize - 1 - Len(s)
    IN  IF Len(b) <= room THEN s \o b ELSE s \o SubSeq(b, 1, room)

(* append_bytes: all of it or nothing.                                     *)
AppendBytes(s, b) == IF Len(s) + Len(b) >= InputSize THEN s ELSE s \o b

(* tnt_input_append_stream_byte in a paste, on a buffer and paste_utf8.    *)
Stream(st, b) ==
    LET c == IF b = "cr" THEN "sp" ELSE b
    IN  CASE c \in Printable -> [text |-> AppendBytes(st.text, <<c>>), part |-> <<>>]
          [] c = "lead"      -> [st EXCEPT !.part = <<c>>]
          [] c \in Second    -> [text |-> AppendBytes(st.text, IF st.part = <<>> THEN <<>>
                                                               ELSE st.part \o <<c>>),
                                 part |-> <<>>]
          [] OTHER           -> [st EXCEPT !.part = <<>>]

(* The same for the bytes of s one after the other.                        *)
Streamed(st, s) ==
    LET after[i \in 0 .. Len(s)] == IF i = 0 THEN st ELSE Stream(after[i - 1], s[i])
    IN  after[Len(s)]

-----------------------------------------------------------------------------
(* The history rings.                                                      *)

(* A line goes to the end of the ring, and the position behind it.         *)
Remember(h, s) ==
    LET items == Append(IF Len(h.items) >= HistSize THEN Tail(h.items) ELSE h.items, s)
    IN  [items |-> items, pos |-> Len(items)]

(* Up and Down: the new position and the text recalled from there.         *)
Recall(h, b, s) ==
    CASE b = "A" /\ h.pos > 0 -> [pos |-> h.pos - 1, text |-> h.items[h.pos]]
      [] b = "A" /\ h.pos = 0 -> [pos |-> 0, text |-> s]
      [] b = "B" /\ h.pos < Len(h.items) - 1 ->
             [pos |-> h.pos + 1, text |-> h.items[h.pos + 2]]
      [] OTHER -> [pos |-> Len(h.items), text |-> <<>>]

-----------------------------------------------------------------------------

NoMessage == NoRecord

(* The prompt for a name; an Enter may already be there.                   *)
Init ==
    /\ stalls \in BOOLEAN
    /\ chan \in {<<>>, <<"cr">>} /\ pc = "name"
    /\ name = <<>>
    /\ mode = "insert"
    /\ overlay \in {"none", "motd"}
    /\ text = [m \in {"insert", "command"} |-> <<>>]
    /\ hist = [m \in {"insert", "command"} |-> [items |-> <<>>, pos |-> 0]]
    /\ part = <<>>
    /\ typed = 0 /\ enters = Len(chan)
    /\ sent = 0 /\ last = NoMessage

(* A key is pressed.                                                       *)
Press(k) ==
    /\ typed < MaxTyped /\ Len(chan) <= MaxAhead
    /\ chan' = chan \o k
    /\ typed' = typed + 1
    /\ enters' = IF k = <<"cr">> THEN enters + 1 ELSE enters
    /\ UNCHANGED <<pc, ui, text, hist, part, saved>>

(* A text is pasted into the input line that the user sees.                *)
Paste(t) ==
    /\ typed < MaxTyped
    /\ chan = <<>> /\ pc = "loop" /\ mode = "insert" /\ overlay = "none"
    /\ chan' = PasteStart \o t \o PasteEnd
    /\ typed' = typed + 1
    /\ UNCHANGED <<pc, ui, text, hist, part, enters, saved>>

-----------------------------------------------------------------------------
(* Reading.                                                                *)

Quiet == UNCHANGED <<typed, enters>>
Goto(l) == pc' = l

(* The session at l takes the next byte, if it comes in time.              *)
Took(l, b) ==
    /\ pc = l /\ chan # <<>> /\ Head(chan) = b
    /\ chan' = Tail(chan)
    /\ Quiet

(* The main loop takes the byte b.                                         *)
Byte(b) == Took("loop", b)

Late(l) ==
    /\ pc = l /\ (chan = <<>> \/ stalls)
    /\ UNCHANGED chan
    /\ Quiet

-----------------------------------------------------------------------------
(* read_username.  A minute without a byte changes nothing.                *)

(* A printable byte as a part of a name.                                   *)
NameByte(b) == IF b = "sp" \/ b \in RefusedInName THEN b ELSE "x"

Prompted(s, l) ==
    /\ name' = s
    /\ Goto(l)
    /\ UNCHANGED <<ui, text, hist, part, saved>>

(* Editing keys and printable bytes; other control bytes are ignored, so   *)
(* that an arrow key leaves its printable bytes.                           *)
PromptByte(b) ==
    /\ b \notin {"cr", "ctrlc", "lead"} /\ Took("name", b)
    /\ Prompted(CASE b = "ctrlu" -> <<>>
                  [] b = "ctrlw" -> RemoveWord(name)
                  [] b = "bs"    -> RemoveLast(name)
                  [] b \in Printable /\ Len(name) < NameSize - 1 ->
                         Append(name, NameByte(b))
                  [] OTHER       -> name, "name")

PromptLead == Took("name", "lead") /\ Prompted(name, "name2")

(* The rest of a character, if it is one and there is space for it.        *)
PromptSecond(b) ==
    /\ Took("name2", b)
    /\ Prompted(IF b \in Second /\ Len(name) + 2 < NameSize - 1
                THEN name \o <<"lead", b>> ELSE name, "name")

PromptLate == Late("name2") /\ Prompted(name, "name")

PromptQuit == Took("name", "ctrlc") /\ Prompted(name, "out")

(* Enter, on either kind of build.                                         *)
PromptEnter(signed) ==
    /\ pc = "name" /\ chan # <<>> /\ Head(chan) = "cr"
    /\ chan' = Tail(chan)
    /\ enters' = enters - 1
    /\ Prompted(IF IsValidUsername(name, signed) THEN Truncate(name, NameWidth)
                                                 ELSE Anonymous, "loop")
    /\ UNCHANGED typed

Prompt ==
    \/ \E b \in ToSet(chan) : PromptByte(b) \/ PromptSecond(b)
    \/ \E signed \in BOOLEAN : PromptEnter(signed)
    \/ PromptLead \/ PromptLate \/ PromptQuit

-----------------------------------------------------------------------------

Shown(m) == overlay = "none" /\ mode = m

(* dismiss_command_output, and the help being closed.                      *)
Close ==
    /\ overlay' = "none"
    /\ mode' = CASE overlay = "help" -> mode [] overlay = "output" -> "normal"
                 [] OTHER -> "insert"

(* Clearing the wrong line.                                                *)
ToNormalCleared ==
    /\ mode' = "normal"
    /\ text' = IF mode = "command" THEN [text EXCEPT !.insert = <<>>] ELSE text
    /\ UNCHANGED overlay

(* To NORMAL mode; the command line is cleared.                            *)
ToNormal ==
    /\ mode' = "normal"
    /\ text' = IF mode = "command" THEN [text EXCEPT !.command = <<>>] ELSE text
    /\ UNCHANGED overlay

-----------------------------------------------------------------------------
(* handle_key, key by key.                                                 *)

CtrlC ==
    /\ Byte("ctrlc")
    /\ \/ overlay # "none" /\ Close /\ Goto("loop") /\ UNCHANGED text
       \/ overlay = "none" /\ mode # "normal" /\ ToNormal /\ Goto("loop")
       \/ Shown("normal") /\ Goto("out") /\ UNCHANGED <<ui, text>>
    /\ UNCHANGED <<hist, part, saved>>

(* Keys of the pager; at the MOTD any key.                                 *)
PagerKey(b) ==
    /\ overlay # "none" /\ b # "ctrlc" /\ Byte(b)
    /\ CASE overlay = "motd" \/ b = "q" -> Close /\ Goto("loop")
         [] overlay # "motd" /\ b = "esc" -> Goto("esc") /\ UNCHANGED ui
         [] OTHER -> Goto("loop") /\ UNCHANGED ui
    /\ UNCHANGED <<text, hist, part, saved>>

(* i, :, ? and ESC in NORMAL mode; other keys scroll or do nothing.        *)
NormalKey(b) ==
    /\ Shown("normal") /\ b # "ctrlc" /\ Byte(b)
    /\ mode' = CASE b = "i" -> "insert" [] b = ":" -> "command" [] OTHER -> "normal"
    /\ overlay' = IF b = "?" THEN "help" ELSE "none"
    /\ text' = IF b = ":" THEN [text EXCEPT !.command = <<>>] ELSE text
    /\ Goto(IF b = "esc" THEN "esc" ELSE "loop")
    /\ UNCHANGED <<hist, part, saved>>

Editing == overlay = "none" /\ mode \in {"insert", "command"}

Edited(s) ==
    /\ text' = [text EXCEPT ![mode] = s]
    /\ Goto("loop")
    /\ UNCHANGED <<ui, hist, part, saved>>

(* A printable byte.                                                       *)
Char(b) ==
    /\ Editing /\ b \in Printable /\ Byte(b)
    /\ Edited(AppendBytes(text[mode], <<b>>))

Backspace == Editing /\ Byte("bs") /\ Edited(RemoveLast(text[mode]))
CtrlW == Editing /\ Byte("ctrlw") /\ Edited(RemoveWord(text[mode]))
CtrlU == Editing /\ Byte("ctrlu") /\ Edited(<<>>)

(* The first byte of a character, or a stray second one.                   *)
Lead(b) ==
    /\ Editing /\ b \in {"lead"} \cup Second /\ Byte(b)
    /\ Goto(IF b = "lead" THEN "lead" ELSE "loop")
    /\ UNCHANGED <<ui, text, hist, part, saved>>

(* Its second byte; any other is dropped with the first.                   *)
LeadNext(b) ==
    /\ Took("lead", b)
    /\ Edited(IF b \in Second THEN AppendBytes(text[mode], <<"lead", b>>) ELSE text[mode])

LeadLate == Late("lead") /\ Edited(text[mode])

(* ESC while editing.                                                      *)
Escape ==
    /\ Editing /\ Byte("esc")
    /\ Goto("esc")
    /\ UNCHANGED <<ui, text, hist, part, saved>>

(* Enter in INSERT mode.                                                   *)
Enter ==
    /\ Shown("insert") /\ Byte("cr")
    /\ IF text.insert = <<>> THEN UNCHANGED <<text, hist, saved>>
       ELSE /\ hist' = [hist EXCEPT !.insert = Remember(@, text.insert)]
            /\ sent' = sent + 1
            /\ last' = Composed(name, text.insert)
            /\ text' = [text EXCEPT !.insert = <<>>]
    /\ Goto("loop")
    /\ UNCHANGED <<ui, part>>

(* Enter in COMMAND mode: commands_dispatch.  A leading : is ignored.      *)
Dispatch ==
    LET s == text.command
        cmd == IF s # <<>> /\ s[1] = ":" THEN Tail(s) ELSE s
    IN  /\ Shown("command") /\ Byte("cr")
        /\ IF cmd = <<>> THEN ToNormal /\ Goto("loop") /\ UNCHANGED hist
           ELSE /\ hist' = [hist EXCEPT !.command = Remember(@, cmd)]
                /\ \/ /\ overlay' = "output"
                      /\ text' = [text EXCEPT !.command = <<>>]
                      /\ Goto("loop") /\ UNCHANGED mode
                   \/ Goto("out") /\ UNCHANGED <<ui, text>>
        /\ UNCHANGED <<part, saved>>

-----------------------------------------------------------------------------
(* Tab.                                                                    *)

(* In INSERT mode: the last word begins with @ and somebody's name begins  *)
(* with the rest of it.                                                    *)
MentionTab ==
    LET s == text.insert
        ats == {i \in 1 .. Len(s) : /\ s[i] = "@"
                                    /\ i = 1 \/ s[i - 1] = "sp"
                                    /\ \A j \in i + 1 .. Len(s) : s[j] \notin {"sp", "@"}}
        Completed(i, n) == SubSeq(s, 1, i) \o n \o <<"sp">>
    IN  /\ Shown("insert") /\ Byte("tab")
        /\ \/ \E i \in ats, n \in Names :
                 /\ IsPrefix(SubSeq(s, i + 1, Len(s)), n)
                 /\ Edited(IF Len(Completed(i, n)) < InputSize THEN Completed(i, n) ELSE s)
           \/ /\ \A i \in ats, n \in Names : ~IsPrefix(SubSeq(s, i + 1, Len(s)), n)
              /\ Edited(s)

(* prefix_filter's longest common prefix, byte by byte.                    *)
CommonPrefix(M) ==
    LET n == CHOOSE n \in M : TRUE
        common == {k \in 0 .. Len(n) : \A o \in M : IsPrefix(SubSeq(n, 1, k), o)}
    IN  SubSeq(n, 1, Max(common))

(* In COMMAND mode: a user's name, or what all candidates begin with, as   *)
(* far as it fits.                                                         *)
CommandTab ==
    LET s == text.command
        arg == Tail(s)
        found == {n \in Names : IsPrefix(arg, n)}
        Fitting(l) == IF Len(l) < InputSize THEN l ELSE SubSeq(l, 1, InputSize - 1)
    IN  /\ Shown("command") /\ Byte("tab")
        /\ Edited(IF s = <<>> \/ s[1] # "msg" \/ found = {} THEN s
                  ELSE Fitting(<<"msg">> \o IF Cardinality(found) = 1
                                            THEN (CHOOSE n \in found : TRUE) \o <<"sp">>
                                            ELSE CommonPrefix(found)))

-----------------------------------------------------------------------------
(* After an ESC.                                                           *)

(* It was a key of its own: the pager closes, if nothing followed it;      *)
(* editing ends.                                                           *)
PlainEscape(alone) ==
    /\ Goto("loop")
    /\ CASE overlay # "none" /\ alone -> Close /\ UNCHANGED text
         [] Editing -> ToNormal
         [] OTHER -> UNCHANGED <<ui, text>>
    /\ UNCHANGED <<hist, part, saved>>

EscNext(b) ==
    /\ Took("esc", b)
    /\ IF b = "[" THEN Goto("bracket") /\ UNCHANGED <<ui, text, hist, part, saved>>
       ELSE PlainEscape(FALSE)

EscLate == Late("esc") /\ PlainEscape(TRUE)

(* ESC [ b: an arrow, the beginning of a paste, or of a longer sequence.   *)
BracketNext(b) ==
    /\ Took("bracket", b)
    /\ CASE Editing /\ b \in {"A", "B"} ->
              LET r == Recall(hist[mode], b, text[mode])
              IN  /\ text' = [text EXCEPT ![mode] = r.text]
                  /\ hist' = [hist EXCEPT ![mode].pos = r.pos]
                  /\ Goto("loop")
                  /\ UNCHANGED <<ui, part, saved>>
         [] Shown("insert") /\ b = "2" ->
              Goto("start") /\ UNCHANGED <<ui, text, hist, part, saved>>
         [] ~Editing /\ b \in {"1", "2"} ->
              Goto("tilde") /\ UNCHANGED <<ui, text, hist, part, saved>>
         [] OTHER -> PlainEscape(FALSE)

BracketLate == Late("bracket") /\ PlainEscape(FALSE)

(* The last byte of a longer sequence, whatever it is.                     *)
Tilde ==
    /\ Late("tilde") \/ \E b \in ToSet(chan) : Took("tilde", b)
    /\ Goto("loop")
    /\ UNCHANGED <<ui, text, hist, part, saved>>

(* read_channel_exact: up to n bytes, fewer only if they are late.         *)
Reads(n, k) ==
    /\ k \in 0 .. n /\ k <= Len(chan)
    /\ k = n \/ k = Len(chan) \/ stalls
    /\ chan' = SubSeq(chan, k + 1, Len(chan))
    /\ Quiet

(* Dropping the marker and taking the text for keys.                       *)
StartPasteDropped(k) ==
    /\ pc = "start" /\ Reads(3, k)
    /\ Goto("loop")
    /\ UNCHANGED <<ui, text, hist, part, saved>>

StartPaste(k) ==
    /\ pc = "start" /\ Reads(3, k)
    /\ Goto(IF SubSeq(chan, 1, k) = <<"0", "0", "~">> THEN "paste" ELSE "loop")
    /\ UNCHANGED <<ui, text, hist, part, saved>>

(* A byte of the paste.                                                    *)
PasteByte(b) ==
    LET st == Stream([text |-> text.insert, part |-> part], b)
    IN  /\ b # "esc" /\ Took("paste", b)
        /\ text' = [text EXCEPT !.insert = st.text]
        /\ part' = st.part
        /\ UNCHANGED <<pc, ui, hist, saved>>

PasteEsc ==
    /\ Took("paste", "esc")
    /\ Goto("tail")
    /\ UNCHANGED <<ui, text, hist, part, saved>>

(* Reading a byte too few.                                                 *)
PasteTailShort(k) ==
    LET tail == SubSeq(chan, 1, k)
        st == Streamed([text |-> text.insert, part |-> part], tail)
    IN  /\ pc = "tail" /\ Reads(4, k)
        /\ IF tail = Tail(PasteEnd)
           THEN Goto("loop") /\ part' = <<>> /\ UNCHANGED text
           ELSE /\ text' = [text EXCEPT !.insert = st.text]
                /\ part' = st.part
                /\ Goto("paste")
        /\ UNCHANGED <<ui, hist, saved>>

(* After an ESC in a paste: its end, or five bytes to keep.                *)
PasteTail(k) ==
    LET tail == SubSeq(chan, 1, k)
        st == Streamed([text |-> text.insert, part |-> part], tail)
    IN  /\ pc = "tail" /\ Reads(5, k)
        /\ IF tail = Tail(PasteEnd)
           THEN Goto("loop") /\ part' = <<>> /\ UNCHANGED text
           ELSE /\ text' = [text EXCEPT !.insert = st.text]
                /\ part' = st.part
                /\ Goto("paste")
        /\ UNCHANGED <<ui, hist, saved>>

(* Five seconds without a byte.                                            *)
PasteLate ==
    /\ Late("paste")
    /\ Goto("loop") /\ part' = <<>>
    /\ UNCHANGED <<ui, text, hist, saved>>

-----------------------------------------------------------------------------

Session ==
    \/ \E b \in ToSet(chan) :
          \/ PagerKey(b) \/ NormalKey(b) \/ Char(b) \/ Lead(b) \/ LeadNext(b)
          \/ EscNext(b) \/ BracketNext(b) \/ PasteByte(b)
    \/ CtrlC \/ Backspace \/ CtrlW \/ CtrlU \/ LeadLate \/ Escape \/ Enter \/ Dispatch
    \/ MentionTab \/ CommandTab
    \/ EscLate \/ BracketLate \/ Tilde
    \/ \E k \in 0 .. 5 : StartPaste(k) \/ PasteTail(k)
    \/ PasteEsc \/ PasteLate

User ==
    \/ \E k \in Keys : Press(k)
    \/ \E t \in Pastes : Paste(t)

Next ==
    /\ pc # "out"
    /\ Prompt \/ ((Session \/ User) /\ UNCHANGED name)
    /\ UNCHANGED stalls

Spec == Init /\ [][Next]_vars

-----------------------------------------------------------------------------

TypeOK ==
    /\ stalls \in BOOLEAN
    /\ pc \in {"name", "name2", "loop", "out", "lead", "esc", "bracket", "tilde", "start", "paste", "tail"}
    /\ mode \in {"insert", "normal", "command"}
    /\ overlay \in {"none", "help", "output", "motd"}
    /\ \A m \in {"insert", "command"} :
          /\ Len(text[m]) < InputSize
          /\ Len(hist[m].items) <= HistSize
          /\ hist[m].pos \in 0 .. Len(hist[m].items)
    /\ part \in {<<>>, <<"lead">>}
    /\ typed \in 0 .. MaxTyped /\ enters \in Int /\ sent \in Nat

(* The input line fits its buffer, and it and what Up and Down recall into *)
(* it are whole characters, whatever is typed, pasted, cut off, deleted    *)
(* and completed; so is the name, which no session enters the room         *)
(* without.                                                                *)
InputWhole ==
    /\ Len(text.insert) < InputSize /\ Whole(text.insert)
    /\ \A i \in 1 .. Len(hist.insert.items) : Whole(hist.insert.items[i])
    /\ Len(name) < NameSize /\ Whole(name)
    /\ pc \notin {"name", "name2", "out"} => name # <<>>

(* A message that was saved and acknowledged can be read again: its record *)
(* parses to the message without separators, and its event is one, and a   *)
(* JSON text of the message, whatever name and text it was made from.  The *)
(* exception is a /me that fills the buffer, which may end in half a       *)
(* character.                                                              *)
MessageReadsBack ==
    [][last' # last /\ ~ReadsBack(last')
          => last'.user = <<"*">> /\ Len(last'.content) = InputSize - 1]_vars

(* The line being written changes, and is sent, only while the user sees   *)
(* it: help, command output, the MOTD, NORMAL and COMMAND mode, entered    *)
(* and left in any order, leave it as it was.                              *)
DraftKept ==
    [][text'.insert # text.insert \/ sent' # sent => Shown("insert")]_vars

(* "Bracketed paste handling keeps multi-line pasted text in the input     *)
(* buffer until the user presses Enter": nothing is sent that no Enter key *)
(* was pressed for.  (As long as no paste stalls for five seconds.)        *)
OnlyEnterSends == ~stalls => sent <= enters

(* "Drain bytes into `input` until we see the end marker": when all bytes  *)
(* have come, the session is not still reading a paste, where it would     *)
(* take the next Enter for a part of it.  (As long as its bytes come in    *)
(* time, and without an ESC in the text.)                                  *)
PasteEnds == ~stalls /\ chan = <<>> => pc # "paste"
=============================================================================
