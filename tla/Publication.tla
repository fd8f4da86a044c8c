----------------------------- MODULE Publication -----------------------------
(***************************************************************************)
(* How a message gets into messages.log and into the room, and what a      *)
(* restart finds: message_save and message_load (message.c), the record    *)
(* parser of message_log.c, room_broadcast, and the posting paths of       *)
(* input.c, exec.c, commands.c and module_runtime.c around them.           *)
(*                                                                         *)
(* User and module messages are saved first and broadcast only if that     *)
(* worked; join, leave and nick messages are broadcast first and saved     *)
(* without looking at the result.  The two steps have two locks, so        *)
(* threads interleave between them, and the process can end anywhere       *)
(* (signal_handler calls _exit).                                           *)
(*                                                                         *)
(* Server puts the start of a process between Crash and the next message.  *)
(***************************************************************************)
EXTENDS Integers, SequencesExt, FiniteSetsExt

CONSTANTS
    Author,       \* threads that post
    MaxMessages,  \* MAX_MESSAGES: messages in memory
    MaxLines,     \* MAX_LOG_SIZE, in records: a longer log is rotated
    MaxPosts,     \* bound of the messages posted
    MaxCrashes    \* bound of the crashes

ASSUME PublicationAssumption ==
    /\ MaxMessages \in Nat \ {0}
    /\ MaxLines \in Nat \ {0}
    /\ MaxPosts \in Nat
    /\ MaxCrashes \in Nat

VARIABLES
    faulty,   \* whether appends may be cut short; it never changes
    log,      \* the lines of messages.log
    torn,     \* messages.log ends in a partial line
    backup,   \* the lines of messages.log.1
    room,     \* g_room->messages
    pc,       \* where each author is
    msg,      \* the message each author is posting
    posts,    \* messages posted so far
    crashes,
    up,       \* the server is running
    acked,    \* history: messages whose posting was completed
    replaced  \* history: records of backups that a later one replaced

disk == <<faulty, log, torn, backup, replaced>>
vars == <<disk, room, pc, msg, posts, crashes, up, acked>>

(* A line the parser refuses.                                              *)
Bad == [by |-> "nobody", kind |-> "bad", n |-> 0]

NoMsg == Bad

Message == [by : Author, kind : {"user", "system"}, n : 1 .. MaxPosts]
Line == Message \cup {Bad}

-----------------------------------------------------------------------------
(* message_save: what reaches the file.                                    *)

(* A record after a partial line makes one line with it: more than two     *)
(* separators or a bad timestamp, which message_log_parse_record refuses.  *)
Appended(m) == Append(log, IF torn THEN Bad ELSE m)

(* Starting over instead of keeping a backup.                              *)
RotatedDropped(lines, cut) ==
    IF Len(lines) > MaxLines
    THEN log' = <<>> /\ torn' = FALSE /\ UNCHANGED <<backup, replaced>>
    ELSE log' = lines /\ torn' = cut /\ UNCHANGED <<backup, replaced>>

(* Every save ends with the size check; rename replaces the last backup.   *)
Rotated(lines, cut) ==
    IF Len(lines) > MaxLines
    THEN /\ backup' = lines /\ log' = <<>> /\ torn' = FALSE
         /\ replaced' = replaced \cup ToSet(backup)
    ELSE log' = lines /\ torn' = cut /\ UNCHANGED <<backup, replaced>>

(* room_add_message: the oldest message goes when the room is full.        *)
RoomAdd(m) ==
    room' = Append(IF Len(room) >= MaxMessages THEN Tail(room) ELSE room, m)

Lines == IF torn THEN Append(log, Bad) ELSE log

(* What is left of a file that is read line by line.                       *)
Without(lines, skipped) ==
    LET scan[i \in 0 .. Len(lines)] ==
            IF i = 0 THEN <<>>
            ELSE IF lines[i] \in skipped THEN scan[i - 1]
            ELSE Append(scan[i - 1], lines[i])
    IN  scan[Len(lines)]

(* The records of a file: the scan of message_search, message_dump_text    *)
(* and --log-check / --log-recover (scan_log).                             *)
Valid(lines) == Without(lines, {Bad})

(* message_dump_text that takes its ring for a plain array.                *)
DumpedUnwrapped(n) ==
    LET valid == Valid(Lines)
        seen  == Len(valid)
        ring  == [k \in 0 .. n - 1 |-> {i \in 1 .. seen : (i - 1) % n = k}]
    IN  IF n = 0 THEN valid
        ELSE [j \in 1 .. Min({seen, n}) |-> valid[Max(ring[j - 1])]]

(* message_dump_text: every record for n = 0; otherwise each record goes   *)
(* into a ring of n, in which it replaces the one n before it, and the     *)
(* ring is read from the oldest on.                                        *)
Dumped(n) ==
    LET valid == Valid(Lines)
        seen  == Len(valid)
        ring  == [k \in 0 .. n - 1 |-> {i \in 1 .. seen : (i - 1) % n = k}]
        start == IF seen < n THEN 0 ELSE seen % n
    IN  IF n = 0 THEN valid
        ELSE [j \in 1 .. Min({seen, n}) |-> valid[Max(ring[(start + j - 1) % n])]]

(* message_search for what matches an author: the last n matches, which    *)
(* are moved up to make space for another.                                 *)
By(a, s) == Without(s, {m \in Message : m.by # a})

Searched(a, n) ==
    LET matches == By(a, Valid(Lines))
        found[i \in 0 .. Len(matches)] ==
            IF i = 0 THEN <<>>
            ELSE LET f == found[i - 1]
                 IN  Append(IF Len(f) < n THEN f ELSE Tail(f), matches[i])
    IN  found[Len(matches)]

(* The scan that goes back one line too few.                               *)
LoadedShort ==
    LET from == Len(Lines) - MaxMessages + 2
    IN  Valid(SubSeq(Lines, IF from < 1 THEN 1 ELSE from, Len(Lines)))

(* message_load: back to the start of the MaxMessages-th line from the     *)
(* end, valid or not, then forward over the valid ones.                    *)
Loaded ==
    LET from == Len(Lines) - MaxMessages + 1
    IN  Valid(SubSeq(Lines, IF from < 1 THEN 1 ELSE from, Len(Lines)))

-----------------------------------------------------------------------------

Empty ==
    /\ faulty \in BOOLEAN
    /\ log = <<>> /\ torn = FALSE /\ backup = <<>> /\ replaced = {}
    /\ room = <<>>
    /\ pc = [a \in Author |-> "idle"]
    /\ msg = [a \in Author |-> NoMsg]
    /\ posts = 0
    /\ crashes = 0
    /\ acked = {}

Init == Empty /\ up = TRUE

Begin(a, kind, to) ==
    /\ up /\ pc[a] = "idle" /\ posts < MaxPosts
    /\ posts' = posts + 1
    /\ msg' = [msg EXCEPT ![a] = [by |-> a, kind |-> kind, n |-> posts + 1]]
    /\ pc' = [pc EXCEPT ![a] = to]
    /\ UNCHANGED <<disk, room, crashes, up, acked>>

(* Enter in INSERT mode, exec post, publish_module_message.                *)
Post(a) == Begin(a, "user", "save")

(* Joining, leaving, a new nickname.                                       *)
Announce(a) == Begin(a, "system", "broadcast")

IsUser(a) == msg[a].kind = "user"

(* The author is done with its message.                                    *)
Finish(a) ==
    /\ pc' = [pc EXCEPT ![a] = "idle"]
    /\ msg' = [msg EXCEPT ![a] = NoMsg]

(* message_save under g_message_file_lock.                                 *)
Save(a) ==
    /\ up /\ pc[a] = "save"
    /\ Rotated(Appended(msg[a]), FALSE)
    /\ IF IsUser(a)
       THEN pc' = [pc EXCEPT ![a] = "broadcast"] /\ UNCHANGED msg
       ELSE Finish(a)
    /\ UNCHANGED <<faulty, room, posts, crashes, up, acked>>

(* The file cannot be opened: nothing is written, the message is dropped.  *)
SaveFail(a) ==
    /\ up /\ pc[a] = "save"
    /\ Finish(a)
    /\ UNCHANGED <<disk, room, posts, crashes, up, acked>>

(* Saving again when a write was reported to fail.                         *)
SaveCutRetried(a) ==
    /\ faulty
    /\ up /\ pc[a] = "save"
    /\ Rotated(log, TRUE) \/ Rotated(Appended(msg[a]), FALSE)
    /\ UNCHANGED <<faulty, pc, msg, room, posts, crashes, up, acked>>

(* The write is reported to fail after a part of the record was written,   *)
(* or even all of it (fclose writes what fflush could not).                *)
SaveCut(a) ==
    /\ faulty
    /\ up /\ pc[a] = "save"
    /\ Rotated(log, TRUE) \/ Rotated(Appended(msg[a]), FALSE)
    /\ Finish(a)
    /\ UNCHANGED <<faulty, room, posts, crashes, up, acked>>

(* room_broadcast under the room's lock.                                   *)
Broadcast(a) ==
    /\ up /\ pc[a] = "broadcast"
    /\ RoomAdd(msg[a])
    /\ IF IsUser(a)
       THEN Finish(a) /\ acked' = acked \cup {msg[a]}
       ELSE pc' = [pc EXCEPT ![a] = "save"] /\ UNCHANGED <<msg, acked>>
    /\ UNCHANGED <<disk, posts, crashes, up>>

(* The process ends, perhaps in the middle of a write.                     *)
Crash ==
    /\ up /\ crashes < MaxCrashes
    /\ up' = FALSE
    /\ crashes' = crashes + 1
    /\ room' = <<>>
    /\ pc' = [a \in Author |-> "idle"]
    /\ msg' = [a \in Author |-> NoMsg]
    /\ \/ UNCHANGED torn
       \/ faulty /\ (\E a \in Author : pc[a] = "save") /\ torn' = TRUE
    /\ UNCHANGED <<faulty, log, backup, replaced, posts, acked>>

(* room_create.                                                            *)
Restart ==
    /\ ~up
    /\ up' = TRUE
    /\ room' = Loaded
    /\ UNCHANGED <<disk, pc, msg, posts, crashes, acked>>

Publish(a) ==
    \/ Post(a) \/ Announce(a)
    \/ Save(a) \/ SaveFail(a) \/ SaveCut(a) \/ Broadcast(a)

Next == (\E a \in Author : Publish(a)) \/ Crash \/ Restart

Spec == Init /\ [][Next]_vars

-----------------------------------------------------------------------------

TypeOK ==
    /\ faulty \in BOOLEAN
    /\ log \in Seq(Line) /\ backup \in Seq(Line)
    /\ torn \in BOOLEAN
    /\ room \in Seq(Message) /\ Len(room) <= MaxMessages
    /\ pc \in [Author -> {"idle", "save", "broadcast"}]
    /\ msg \in [Author -> Line]
    /\ posts \in 0 .. MaxPosts
    /\ crashes \in 0 .. MaxCrashes
    /\ up \in BOOLEAN
    /\ acked \subseteq Message
    /\ replaced \subseteq Line

(* What the operator can recover: the backup, then the log.                *)
Recovered == Valid(backup) \o Dumped(0)

InOrder(s) == \A i, j \in 1 .. Len(s) : i < j /\ s[i].by = s[j].by => s[i].n < s[j].n

(* An author's messages stand in the room, and in what can be recovered    *)
(* from the disk, in the order in which they were posted, each once,       *)
(* whatever other threads do between its save and its broadcast, through   *)
(* failed writes, rotations, crashes and restarts.                         *)
AuthorOrder == InOrder(room) /\ InOrder(Recovered)

(* A message whose posting was reported to its author, and which the room  *)
(* shows, can be recovered from the log or from its backup until another   *)
(* backup replaces the one it was in: rotation, failed saves of others and *)
(* crashes take nothing else away.  (On a disk that does not cut appends.) *)
AckedSaved == ~faulty => acked \subseteq ToSet(Recovered) \cup replaced

(* The ways to read the log agree whenever a server is there to read it: a *)
(* dump of n records ends the dump of all; a search for n messages of an   *)
(* author finds the last ones there are, among them those in the dump of   *)
(* n; and what a restart would load, which counts lines back from the end  *)
(* before it parses any, ends the dump of as many records, and is all of   *)
(* it when no line is bad.                                                 *)
ReadersAgree ==
    LET all == Dumped(0)
        Agree(n, dump) ==
            /\ IsSuffix(dump, all)
            /\ \A a \in Author : LET found == Searched(a, n)
                                 IN  /\ IsSuffix(By(a, dump), found)
                                     /\ IsSuffix(found, By(a, all))
            /\ n = MaxMessages => IsSuffix(Loaded, dump)
            /\ n = MaxMessages /\ Bad \notin ToSet(Lines) => Loaded = dump
    IN  up => \A n \in 1 .. MaxMessages : LET dump == Dumped(n) IN Agree(n, dump)

(* "A truncated final line is treated as a partial append and ignored":    *)
(* the partial append is, and a completed one never.                       *)
OnlyPartialIgnored ==
    acked \subseteq ToSet(log) \cup ToSet(backup) \cup replaced
=============================================================================
