# A TLA+ verification of TNT

TNT is an anonymous chat server reached over SSH. This directory holds TLA+
modules that model its core, TLC configurations that check them on small
instances, and proofs for the TLA+ proof system TLAPS. `PROJECT.json` lists
components, runs, mutants, the source lines behind every definition, findings,
hazards and theorems.

Paths below are relative to the repository (`src/...` is the server's C code).

To repeat a run: `tlc -config Admission.cfg MCAdmission` (every `.cfg` belongs
to the `MC` module named in `PROJECT.json`). To repeat the proofs:
`tlapm AdmissionProofs.tla`, and the same for `ClientLifeProofs`,
`TerminalProofs`, `RedrawProofs`, `ServerProofs`, `ModuleRuntimeProofs`,
`WhisperProofs` and `KeyStreamProofs`.

## 1. Inventory

One process, one accept loop, one detached thread per connection, one worker
thread for modules. Threads share the room, the table of addresses, the log
file and the `client_t` objects of other sessions.

| Component | State | Operations | Hard part |
|---|---|---|---|
| Rate limits and counts (`ratelimit.c`) | 256 entries (address, window, active, failures, block), `g_total_connections` | check and add, record failure, release, total add and release | a full table, releases from every exit path, windows and blocks over time |
| Accept loop, bootstrap (`ssh_server.c`, `bootstrap.c`) | per-connection context: attempts, success, channel | accept, key exchange, callbacks, timeouts, hand over | a dozen ways to fail, each owing two counters; callbacks in any order |
| Room (`chat_room.c`) | clients, ring of messages, `update_seq` | add, remove, broadcast, read | read in several critical sections |
| Client objects (`client.c`) | `ref_count`, callback reference, flags | addref, release, disconnect | borrowed by other threads after the room's lock is gone |
| Output queue (`client.c`) | `outbox`, positions, `connected` | send, flush | a window that closes, overflow, an error half-way |
| Main loop (`input.c`, `tui.c`) | `seen_update_seq`, mentions, bells, `redraw_pending` | poll, render, notify | lost redraws |
| History view (`history_view.c`, `tui.c`) | `scroll_pos`, `follow_tail`, `mute_joins` | scroll, follow, slice | the room moves under the view; dividers take rows |
| Keys (`input.c`, `input_buffer.c`, `utf8.c`) | mode, buffers, history rings | `handle_key`, paste, completion | sequences that come late or nearly fill a buffer |
| Private messages (`commands.c`) | inbox of 16, unread count, last peer | `:msg`, `:reply`, `:inbox`, `:nick` | written by the sender's thread while the receiver reads |
| Username prompt (`input.c`, `common.c`) | `username` | read, edit, validate, cut | a character that comes late or does not fit; what a build takes for a control byte |
| Publication and log (`message.c`, `message_log.c`, `message_log_tool.c`) | `messages.log`, its backup | save, rotate, load, search, dump, check, recover | crash, torn append, order without a common lock; readers that count differently |
| Host key (`ssh_server.c`) | `host_key`, `host_key.tmp.<pid>` | find, repair, generate, rename, listen | a process that ends half-way, processes that start together |
| Module runtime (`module_runtime.c`) | queue of events, modules, pipes | enqueue, write, read, act, disable, shutdown | two pipes, timeouts, late and cut answers |
| Exec interface (`exec.c`) | none of its own | post and read-only queries | `post` shares publication |
| Process lifecycle (`main.c`) | `g_room`, listening socket | start, signal | `_exit` at any step; the log is loaded before the key is made and the port bound |

Without state worth a model, or pure layout: texts, languages, themes, the
command catalog, option and environment parsing, `tntctl`, scripts. They are in
`PROJECT.json` with the reason.

**How they interact.** A connection passes *rate limits* -> *bootstrap* ->
*client* -> *room*. A line typed by a user goes *keys* -> *publication* (log,
then room) -> *module queue* and *mentions*; the room's sequence reaches every
session's *main loop*, which renders through the *history view* into the
*output queue*. Private messages take the same route as mentions: the sender's
thread finds the target under the room's lock, takes a reference, writes into
the target afterwards and sets `redraw_pending`.

**What makes each part correct.**

* Admission: counters equal the connections behind them on every path; limits
  hold; no unauthenticated session; every handshake ends; blocks last.
* Clients: the count equals the references; no use after free; no leak.
* Output: the terminal receives a prefix of what was sent, and all of it if
  the peer reads.
* Redraw: no update or mention is lost between the flag and the screen.
* View: the latest view shows the latest message; browsing is not disturbed.
* Keys: the line is whole characters; pastes do not send and they end.
* Private messages: unread ones are counted, shown and announced.
* Publication: order per author, no gaps, acknowledged means saved; what is
  saved can be read again, and by every reader alike.
* Host key: never half a key, never readable by others, the same at every start.
* Modules: events are not skipped; conforming modules are kept; everything ends.

## 2. The modules

| Module | Models | One action is |
|---|---|---|
| `RateLimit` | the table of `ratelimit.c` as operators on a table value: slot choice, counting, blocking | - |
| `Admission` (extends `RateLimit`) | accept loop, table, total, bootstrap, session entry and exit | one critical section, or one libssh callback |
| `AdmissionHistory` (extends `Admission`) | the same with observers of blocks, failures and arrivals | as above |
| `AdmissionProofs` (extends `AdmissionHistory`) | theorems | - |
| `ClientLifeProofs`, `RedrawProofs`, `ServerProofs`, `ModuleRuntimeProofs`, `WhisperProofs`, `KeyStreamProofs` (each extends the module it is named after) | theorems | - |
| `TerminalProofs` (extends `Outbox` and `HistoryView`) | theorems | - |
| `Redraw` | poll loop, `update_seq`, mentions, rendering | one access of the room or of an atomic |
| `ClientLife` | `ref_count` by owner, callbacks and borrowers | one locked change of the count, or one free |
| `OutputStream` | abstract: a bounded, ordered stream that may fail | - |
| `Outbox` | `client_send`, `client_flush_output` | one call (all run under `io_lock`) |
| `Publication` | save, rotate, broadcast, crash, load, dump, search | one call of `message_save`, `room_broadcast`, or a crash |
| `HostKey` | `setup_host_key` and `ssh_bind_listen` of several processes | one system call on a key file |
| `Server` (extends `Publication`, `HostKey`) | the process around both: load, key, listen, serve, end | one step of either |
| `Records` | UTF-8 helpers, names, composed messages, log records and JSON strings as operators on sequences of bytes | - |
| `ModuleRuntime` | queue, worker, pipes, module processes | one write, one line read, one module step |
| `Whisper` | private messages, inbox, title | one critical section or atomic |
| `HistoryView` | scrolling and choice of the slice | one critical section on the way from key to screen |
| `KeyStream` (extends `Records`) | `read_username` and `handle_key` byte by byte | one byte read, or one read that times out |

The modules are separate because the state they share is small: the room is a
set of members in `Admission` and `ClientLife`, a sequence number in `Redraw`,
the messages in `HistoryView` and `Publication`. `Admission` composes the
table, the bootstrap and the room; `Server` composes the log and the room with
the host key, over several processes of which one at a time has the port;
`Outbox` is composed with `OutputStream` by refinement.

**Correspondence.** Variables carry the names of the fields they stand for, or
a comment that names them. `stage`, `pc`, `owner` and `worker` are program
counters: their values are places between two critical sections. Where the
code reads a value under one lock and uses it under the next, the model keeps
it in a variable of its own (`sampled`, `current`, `plan`, `draft`). Exits are
modelled with everything the path does, in its order: `cleanup` releases the
address before the total, as `bootstrap.c` and `input.c` do.

**Abstractions.** Message texts are numbers or model values; bytes of output
are numbered; in `Publication` a log record is whole, partial or unreadable,
and `Records` says for which bytes it is; a module's line is the action it
parses to, and an event is one that can be encoded or one that cannot (`odd`);
key bytes that no code tells apart are one byte and every character beyond
ASCII has two bytes with two variants of the second, the smallest case in which
a character can be cut. A key file is absent, empty, partial, a key with the
number of the start that made it, or too large. Allocation fails
non-deterministically in `Admission`, `ClientLife` and `Redraw` (the render
buffer, which is tried again only when it must grow, and the snapshot of the
messages), and succeeds elsewhere. libssh is external: it delivers callbacks inside
`ssh_event_dopoll` only, takes at most a window's worth of bytes, and may fail
at any call.

## 3. Runs

Bounds are chosen so that every limit is reached and passed: tables and rings
of one to four entries, one more client, message or byte than fits, clocks
that outlast a block. Nothing in the code depends on the size of a table
beyond "full" and "not full", and no property relates more than three threads.
Connections with their addresses (`admission`), authors and process ids
(`server`) are symmetric and declared so; both runs check only invariants and
properties of single steps, which are symmetric too. Deadlock is checked
unless the bounds (`MaxSeq`, `MaxPosts`, ...) or the end of a connection let
the system come to rest, which the comment in the `.cfg` says.

### Holding

| Run | Bounds | Shows |
|---|---|---|
| `admission` | 4 connections, 3 addresses, 2 slots, 3 connections allowed, 1 per address | `TotalExact` on every exit path; `ActiveExact`: a count per address is exact until all slots are active and that address loses its own, and never too high; `RoomNeverFull`: the room's own refusal is unreachable; `ClientsAuthenticated` |
| `admission_ban` | 2 connections, 1 address, a token, clock 0..2, window and block 2 | `FailuresBan`; `BanHonoured`; `BurstBounded` (at most 2N - 1 in a window); `HandshakeEnds` whatever the peer does |
| `redraw` | 1 session watched, 2 other threads, 3 broadcasts | with memory that may run out: `ScreenFresh`: an update taken as seen by the main loop is drawn; `OnlineExact` in spite of two locks per render; `UpdateShown`, `MentionReachesScreen` |
| `client_life` | 3 clients, 2 workers | `RefExact`, `NoUseAfterFree`, `NoLeak` |
| `outbox` | queue 4, budget 2, sends up to 5, 8 bytes | `ImplementsStream`: across compaction, overflow and failure the queue refines `OutputStream`; `Drains` |
| `server` | 2 authors, room 2, log 3 lines, 4 posts, 2 process ids, 3 starts, a crash of a server that serves | `AuthorOrder`, in the room and on the disk, also when appends are cut short; `AckedSaved`: what was acknowledged can be recovered; `RestartShowsAcked`: a new server shows it, in the log's order, unless it was rotated away or the room is full of later records; `ReadersAgree`: load, dump and search; `HostKeyWhole`, `KeyKept` |
| `modules` | an arbitrary module before a conforming one, queue 1, 2 events, 3 writes | `NoEventSkipped`, `ConformingKept`, `PublishedInOrder`, `Amplification`, `EventsHandled`, `ShutdownEnds` |
| `whisper` | 2 sessions, 2 names, inbox 1, 2 messages | `MarkedAreCounted`, `InboxFresh`, `TitleFresh`, `InboxRefreshes` |
| `history` | room 3, windows of 2 and 3 rows, 4 messages | `LatestShown`, `BrowsingStable` |
| `keys` | line of 3 bytes, name of 3 bytes and 2 columns, 4 keys and pastes, 1 byte read ahead | `InputWhole`: name and line fit their buffers and are whole characters; `OnlyEnterSends`, `PasteEnds`; `DraftKept` under overlays and modes; `MessageReadsBack` from record and event |

Five choices are made once, in the initial state, so that one run covers both
cases: `token` of `Admission` (a server with or without an access token),
`exec` of `Outbox` (an exec session writes directly), `faulty` of
`Publication` (appends may be cut short by a full disk or a crash), `alone` of
`HostKey` (a server is started only when none is there) and `stalls` of
`KeyStream` (a read may time out at any byte). `RestartShowsAcked` and
`AckedSaved` are stated for a disk that works, `RestartShowsAcked` and
`KeyKept` for servers that do not overlap, `OnlyEnterSends` and `PasteEnds` for
input that comes in time; the others hold in both cases.

In `admission` three connections over two slots are needed to fill the table
with active entries when another address arrives. `CrowdBound` restricts what
else happens while there are three: no token, the last tick of the clock, one
connection at a time in its handshake or login, no password attempts, and
shells only. Two connections still do everything, in any order, and
`admission_ban` has passwords, failures and a clock.

In `server` the cases multiply; `MCInit` cuts appends short only where servers
start one after the other and find a good key, and lets starts overlap only
where appends are whole. `StartBound` leaves three starts in a row, or two that
overlap, with one message fewer. What is left has a pid used again after its process ended half-way,
two processes between any two system calls of each other, and a rotation on
either side of a restart. (`HostKeyWhole` and `KeyKept` are proved for any
number of processes and starts.)

`Redraw` follows every step of the sessions in `Client` and looks at the
threads in `Other` (more sessions, the module worker, exec sessions) only for
what they do to the room and to the flags of `Client`: joining, leaving,
posting and mentioning. Two of them, one session and three broadcasts are
enough for a post to fall between any two steps of a redraw that another post
caused. `SeqLeft` keeps broadcasts back for those who have yet to announce
that they joined or left.

`MaxAhead` of `KeyStream` bounds the bytes that have come and are not read when
another key is pressed; a key sequence or a paste is longer than that, so a
session is interrupted in the middle of one all the same.

Every module defines its type invariant. It is not among the properties of the
runs, which are kept for what could be wrong; it is proved, alone or as a part
of the inductive invariant. So are `ConnectionLimit`, `PerIpLimit` and
`WireInOrder`, where the runs check what these rest on: the exact counters and
the refinement.

Every property of these runs has a mutant in `PROJECT.json`: a plausible slip
in the code (a missing reset, a swapped order, a dropped guard) under which
TLC finds the property violated.

### Violated: where code and documents disagree

Each states what a document or a comment says and shows a behaviour of the
code that does otherwise. Quotations and lines are in `PROJECT.json`.

| Run | What happens |
|---|---|
| `log_torn` | the first record after a partial line is lost with it |
| `history_pinned` | scrolling down at the live tail, when messages have come since the last poll or under an overlay, unpins the view |

### Where the properties stop

The models allow these behaviours, because the code does; the properties are
stated so that they say what is true beside them.

* With more connections allowed than the table has slots an active entry may
  be reused and its count is lost. `ActiveExact` says that this is the only way
  to lose a count (`EvictedActive`), and that a count is then too low, never
  too high; `ActiveIsExact` and `PerIpLimitHolds` assume that it cannot happen.
* A block is forgotten when its entry, inactive, is reused for another address
  (`BanHonoured` is checked and proved with a slot for every address). Failures need not
  be consecutive to add up. The rate window is fixed, so `BurstBounded` says
  2N - 1.
* A broadcast between a session's first drawing and its first read of the
  sequence stays off the screen until the next one. `ScreenFresh` and
  `OnlineExact` are about screens drawn by the main loop (`by = "loop"`).
* A drawing that is given up because the render buffer cannot grow is not made
  up for: the sequence counts as seen. `ScreenFresh` and the other properties
  of `redraw` are about screens drawn since (`lost`), and leave out a chat
  drawn without messages for lack of memory (`Bare`).
* Search and dump do not reach the rotated log; `AckedSaved` counts it.
* A `/me` that fills the buffer may end in half a character. It is shown and
  acknowledged, its record is one that no reader accepts, and as its event
  cannot be encoded every module is disabled. `MessageReadsBack` and
  `ConformingKept` (`garbled`) leave out exactly that.
* `is_valid_username` compares a `char` with 32: a build on which `char` is
  signed turns every name beyond ASCII into `anonymous`.
* The log is loaded before the host key is made and the port bound. A server
  that is started while another one still runs may serve a room that lacks the
  last messages of the other, and two that start together at first may show
  one key and find the other at the next start.
* The temporary key is not synchronised to the disk before the rename; the
  model is of processes that end, not of machines that do.
* `scripts/logrotate.sh` replaces the log by its last lines without the server's
  lock; it is run beside the server and is not part of `Publication`.
* A module that stops reading its input blocks the worker for good:
  `EventsHandled` assumes that no write stays blocked (`Blocked`). Timeouts
  never disable a module.
* `:reply` goes to whoever has the peer's name when it is sent.
* On a terminal of four lines the date divider takes the only row; `history`
  has windows of two rows and more. Dividers can also push the last messages
  of a slice in the past out of the window.
* An ESC in a pasted text, near its end, hides the end marker; the pastes of
  `keys` have none. A paste that stalls for five seconds goes on as keys.
* Completion to the common prefix of two names can leave half a character on
  the command line; `InputWhole` is about the input line.

### Fairness

Weak fairness of a thread's own steps: the operating system schedules threads
and every lock is held for a bounded time. Calls with a timeout (key exchange,
`ssh_event_dopoll`, reading a module's line) return, so the steps that take
the timeout's branch are among the fair ones. `PollTimeout` of `Redraw` and
`Poll` of `Whisper` are strongly fair: the branch is taken again and again
because nobody types without ever pausing for 250 ms. Peers, users and modules
outside `Good` owe nothing. `Drains` assumes a peer that goes on reading
(`WindowAdjust`), `EventsHandled` modules that go on reading or exit.

## 4. Theorems

All are proved for every value of the constants that the modules' `ASSUME`s
admit: any number of connections, addresses, slots, clients and threads, any
buffer size, budget and window, with and without a token and rate limits.

| Module | Theorem | Statement |
|---|---|---|
| `AdmissionProofs` | `TypeCorrect` | types; no counter goes below zero |
| | `TotalIsExact` | the total equals the counted connections |
| | `ConnectionsBounded` | never more than `TNT_MAX_CONNECTIONS` |
| | `RoomHasSpace` | a client about to join finds space |
| | `OnlyAuthenticated` | every client was authenticated |
| | `ActiveAlwaysExact` | no address is counted above its open connections, and an exact count stays exact unless all slots are active and its slot is taken |
| | `ActiveIsExact` | the count of every address equals its open connections at all times (*) |
| | `PerIpLimitHolds` | no address exceeds its limit (*) |
| | `BansAreHonoured` | nobody is let in while blocked (**) |
| | `FailuresAlwaysBan` | `MaxAuthFailures` failures in a row have led to a block (**) |
| | `BurstsAreBounded` | at most 2N - 1 admissions of an address in any window (**) |
| `ClientLifeProofs` | `RefIsExact` | `ref_count` equals the references that exist |
| | `NeverUsedAfterFree` | what a thread may touch is allocated and nobody frees it; one thread frees |
| | `NeverStranded` | every allocated client has its session, a thread that notifies it or one that is about to free it |
| `TerminalProofs` | `OutboxTypeCorrect` | positions and lengths stay within the buffer |
| | `WireIsInOrder` | the peer gets a prefix of what was handed to `client_send` |
| | `QueueIsComplete` | while connected, wire and queue are together all of it |
| | `OutboxImplementsStream` | `Outbox` implements `OutputStream` |
| | `ViewInvariant` | the inductive invariant behind the next three |
| | `ViewTypesAlways` | types; scroll position, slice and screen stay within the room |
| | `BrowsingAlwaysStable` | new messages do not change what a user browsing the past sees |
| | `LatestAlwaysShown` | at the live tail the newest message is on the screen (****) |
| `RedrawProofs` | `FreshAlways` | the inductive invariant behind the next, with the types |
| | `ScreenAlwaysFresh` | an update taken as seen is on the screen |
| | `OnlineAlwaysExact` | the online count is right once everything is seen and announced |
| `ServerProofs` | `ServerImplementsHostKey` | `ServerSpec => KeySpec`: the composed server does to the key files what `HostKey` alone does |
| | `HostKeyWholeAlways` | `host_key` is never half a key, no generated key is readable by others |
| | `KeyKeptAlways` | servers started one after the other show one key |
| | `ServerTypesAlways` | types; the server serves exactly while one process does |
| | `AuthorOrderAlways` | an author's messages are in order, once each, in the room, the log and its backup |
| | `AckedSavedAlways` | what was reported as posted can be recovered (disk that does not cut appends) |
| | `RestartShowsAckedAlways` | a new server shows what was acknowledged, unless rotation took it out of the log or the room is full of later records (disk that does not cut appends, servers that do not overlap) |
| | `ReadersAgreeAlways` | load, dump and search read the same log alike, whatever its bad lines |
| `ModuleRuntimeProofs` | `ModuleRuntimeTypes` | types; queue, pipes, responses and invalid answers within their limits |
| | `EveryEventOffered` | an enabled module gets every event that leaves the queue |
| | `MessagesInOrder` | a module's messages are published once each, in its order |
| | `ResponsesBounded` | at most `MaxResponses` of them per event |
| | `GoodModulesKept` | a module that follows the protocol is not disabled |
| `WhisperProofs` | `WhisperInvariant` | the inductive invariant behind the next three, with the types |
| | `WhisperMarksCounted` | messages marked as unread are counted |
| | `WhisperInboxFresh` | what an open inbox lacks is counted, so that it is refreshed |
| | `WhisperTitleFresh` | the title bar has the count, or a redraw is due |
| `KeyStreamProofs` | `KeyInvariant` | the inductive invariant behind the next three |
| | `KeyTypes` | types; both lines and both histories within their bounds |
| | `InputAlwaysWhole` | input line, its history and the name fit and are whole characters |
| | `DraftAlwaysKept` | the input line changes, and is sent, only while it is shown |
| | `ChannelInvariant` | the inductive invariant behind the next two (***) |
| | `OnlyEnterAlwaysSends` | no message without an Enter key (***) |
| | `PastesAlwaysEnd` | no paste is open when everything is read (***) |
| | `MessageAlwaysReadsBack` | the record and the event of a message give it back, but for a `/me` cut at the end of the buffer |

(*) These two assume `MaxConnections <= MaxTrackedIPs`. The assumption is a real
one: the default is 64 connections and 256 slots, but the configuration allows
1024, and a connection from a new address to a table without an inactive slot
then takes over an active one.

(**) These three assume a slot for every address (`Cardinality(IP) <=
MaxTrackedIPs`), because reusing a slot forgets what it knew, and the last two
that rate limits are on (`RateLimitEnabled`); otherwise nobody is blocked.

(***) These assume `KeysApart`: a key is either Enter or does not send a
carriage return, no key sends the `0` of the marker of a paste, and no ESC is
pasted. It holds of the keys and pastes of the run. Without it the statements
are false: who types `ESC [ 2 0 0 ~` by hand begins a paste, and an ESC in a
paste may hide its end.

(****) This assumes terminals of at least five rows (`TwoRows`), on which a
message fits below the divider of its date. The server admits four, and there
the only row is the divider's.

**Admission.** `RateLimit`'s operators come first: which slot an address
gets (`SlotForIn`), and that counting, blocking and releasing keep the type
and change `active` by exactly one or not at all. That some slot of a
non-empty set is the least one (`NatMin`) is derived from the library's facts
about finite sets.

`TotalExact` is not inductive with the limits alone: `RoomNeverFull` needs that
whoever is in the room is also counted, so `CountInv` adds that members of the
room are in the stages `joined` and `leaving`. A client about to join is
counted and not in the room, hence the room has at most
`MaxConnections - 1` members.

`ActiveExact` rests on `CountsBounded`: no address has two entries, an empty
slot counts nothing, and no entry counts more connections than its address has
open. The steps that store an entry change its count as they change the open
connections of its address (`StoreCounts`); what the table says of another
address changes only if that one loses its slot, and unless all slots were
active the slot had a count of zero (`StoreOthers`).

That a count is exact at all times, and with it `PerIpLimit`, needs a table
with a slot for every connection and much more of an invariant, because
`get_rate_limit_entry` may reuse a slot. `AccountInv` says that every connection has an address, that no address has
two entries, that an empty slot counts nothing, that the entry of an address
counts exactly the connections that hold it, and that an address with open
connections has an entry. The last conjunct is what slot reuse can destroy. It
survives because with `MaxConnections <= MaxTrackedIPs` an address that looks
for a slot always finds one that is its own, empty or inactive: the active
slots stand for distinct addresses with a counted connection each, the
connection now being checked is counted too and has none, so there are fewer
than `MaxConnections` of them (`SpareSlot`).

The properties over time need observers (`ban`, `streak`, `arrivals` of
`AdmissionHistory`) and invariants that tie them to the table. `ClockInv`: one
connection at a time is in the accept loop, and no clock that was read before a
lock is ahead of the time. `BanInv`: an address without an entry was never
blocked; the entry of any other has the end of its last block, or that block is
over also by the clock of the connection being checked, which was read earlier;
and failures in a row that led to no block are all counted. `RateInv`: the
window of an entry began with an arrival. So after its first tick fewer came
than it has counted, and in the limiter's window that ends with that tick at
most N more than it has counted, minus one; from these two bounds follows
2N - 1 for a window that lies across the border of two (`WindowGrows`).

**Client objects.** `RefExact` alone says nothing about memory, and
`NoUseAfterFree` is not inductive: a step that lowers a count to zero must know
who else could still reach the object. `LifeInv` adds two things. `StageInv`
ties the room and the callbacks' reference to the stage of the owner: who is in
the room has an owner that has not dropped its reference, hence borrowing a
member under the room's lock never revives a count of zero. `FreeInv` says that
a positive count means allocated and not being freed, and that what is being
freed is still allocated and has a single thread that frees it. `Referenced`
turns an owner, a membership or a borrowed reference into `ref > 0`;
`ReleaseStep` covers the five actions that drop a reference. `NeverStranded` is
the part of `NoLeak` that needs no fairness: an object with a count of zero has
a thread that frees it (`Held`, inductive next to `LifeInv`), and by `RefExact`
one with a positive count has a session or a borrower (the callbacks'
reference does not outlive the session's).

**Output queue.** `OutboxInv` joins `WireInOrder` and `QueueComplete`: a flush
extends the wire by queued bytes, so the order of the wire needs the content of
the queue, at its offset and after compaction. It also needs that no more has
been written than was handed over, and that an exec session, which writes
directly, has an empty queue. `WriteStep` and `FlushStep` say what a partial
write does; from them follows that each action keeps the invariant and is, with
`given`, `wire` and `connected` taken as they are, a step of `OutputStream` or a
stutter (`StepOutbox`).

**Redraw.** `ScreenFresh` speaks of sessions that wait. `Fresh` follows them
around the loop: whoever waits, or is on the way to deciding, has drawn no less
than `seen_update_seq`, because it is set before the messages are copied; after
the copy (`title`) the screen has at least that much. The first drawing is the
other way round, so `Fresh` also says that until then the screen is the one of
the joining (`by = "join"`). `OnlineExact` relates two locks: the count is read
under one, the sequence changes under another, and who joins or leaves changes
them one after the other. `Counted` adds what holds in between: a wrong count
means that somebody still owes a broadcast (`Committed`) or that there is an
update the session has not seen. `SessionOwes` and `OutsideOwes` say that this
debt is only ever paid by a broadcast; for that a thread that owes one must not
be notifying mentions (`Owing`).

**Host key.** Each action of `Server` is one of `HostKey` with the rest
unchanged, or leaves `keyVars` alone, so what is proved of `KeySpec` holds of the
server. `KeyInv` has three parts. `FilesInv` is what `HostKeyWhole` needs: only
a process at `rename` moves a file to `host_key`, its temporary file is then a
whole key, and temporary files are always private; both survive because the
file's name has the pid of its process in it (`TempName`), so that no other
process writes between `ExportWrite` and `Rename`. `LoneInv` is what `KeyKept`
needs: of servers that do not overlap at most one process is there, and once a
key has been shown it is the one in `host_key` and nobody is on the path that
replaces it, because `Stat` finds a key and goes to `listen`.

**Log and room.** `LogInv` joins six parts. `DiskOrder` has the order of the
backup, of the log and between them; a rotation makes the log the backup, so
none is inductive alone, and a message that is still to be saved must be later
than all that is there. `RoomOrder` is the same for the room and for what a
process has loaded and not yet shown. `Whole` says that on a disk that does not
cut appends no line is bad. `PendingSaved` extends `AckedSaved` to messages
that are saved and not yet broadcast: they are the ones that will be
acknowledged. `Filled` is for `RestartShowsAcked`: what a process has loaded is
what it would load now, until it listens; the log must not change meanwhile,
which needs `KeyInv`'s knowledge that servers do not overlap. The room that is
then shown is an end of the log (`LoadedRecords`), so an acknowledged message of
the log that is not shown stands before all that is. What a reader makes of the log is a
recursive function (`Valid`); its lemmas (`ValidAppend`, `ValidConcat`, ...)
go by induction over the index, carried out with the least index that fails
(`IndexInduction`), as the library's induction theorems take an operator.

`ReadersAgree` needs no invariant beyond these: it is about what the readers
make of any sequence of lines. A dump takes the end of what is valid, a search
the end of what is by one author, a load the end of what is valid in the last
lines: so `Ends` says what the last n of a sequence are, and that taking an end
of an end is taking an end. The ring of `message_search` (`Remainder`,
`RingInOrder`) is read back in the order in which it was filled, for any number
of records and any size, also when it was filled exactly; and a scan of the end
of the log finds an end of what a scan of the whole finds (`LoadedLast`), since
scanning two parts is scanning both.

**History view.** A drawing chooses its slice under one lock and copies it
under the next, and the room may have dropped or added messages in between; a
key is handled between two drawings. `ViewInv` has four parts. `Numbered` ties
the ring to the numbers of its messages: message i has the number `Dropped + i`,
so that "newest" can be spoken of when positions move. `Planned` says of a slice
that waits to be copied that it was chosen for the scroll position as it is,
among at most the messages there are. `Browsing` extends `BrowsingStable` to all
places of the thread: as long as nothing but new messages could have moved the
view, the screen is the window at `scroll_pos` of the visible messages, and
that window is full and ends before the last of them, so that whatever is
appended falls outside (`Window`, `InPast`). Muting and dropping are excused by
`cause`, and `Chat`'s lemmas say that a filtered room grows at its end when the
room does. `LatestShown` is about the copy: the slice is chosen afresh when the
view is anchored, as many of the last messages as fit (`LatestStart`), and
counting rows (`Rows`) from the other side shows that all of them get onto the
screen, the last one included (`CopiedLatest`); a screen keeps this until the
next drawing (`Shown`), also while the room drops messages.

**Modules.** `Control` says where the worker can be; with it `NoEventSkipped` is
inductive, because an event is counted for a module at the moment the worker
passes it. `InOrder` extends `PublishedInOrder` to the lines in the pipe and the
number of messages written so far. `Paid` charges a visit in advance: while the
worker reads from a module, what it may still accept was paid for by the event
just written. `ConformingKept` is the deep one: answers may come late and are
taken for answers to later events, so the limit on responses per event could be
reached by a module that kept it. `Conforms` says why it is not: no stretch of
the pipe without an `event.ok` is as long as `MaxResponses`, counting what the
worker has accepted of the first one, and what comes after the last `event.ok`
is no more than the module has written for the event it is at.

**Private messages.** `MarkedAreCounted` is nearly inductive (`Counted`).
`InboxFresh` needs that the inbox is open in the main loop only (`Fresh`), and
`TitleFresh` who still has to set the redraw flag (`Titled`): a thread between
appending to the inbox and notifying its owner.

**Keys.** `KeyInv` says of both lines, both rings and the name what `InputWhole`
says of the input line, as far as it is true: Up and Down bring the ring's
entries back, and what is pasted goes through `paste_utf8`, which holds nothing
or the beginning of a character. The command line need not be whole. `Placed`
has what `DraftKept` needs: a character of several bytes and a paste are read
only while their line is shown, although bytes pass between the key and the
change. For `OnlyEnterSends` the content of the channel must be known
(`ChanInv`): the unread bytes are keys (`ks`), in front of them what is left of
at most one paste, in step with the place where the session is reading
(`Marker`), and the messages sent and the Enter keys in `ks` are together not
more than the Enter keys pressed.

`MessageReadsBack` is about the message that a step makes, and only Enter in
INSERT mode makes one (`OnlyEnterMakes`), of a name and a line that `KeyInv`
says are whole, not empty and within their buffers. What `Composed` makes of
them either fits, and is then whole (`GoodReadsBack`), or fills the buffer to
its last byte, which is the exception. The record: what `Sanitised` leaves has
no separator, so that the record has exactly two, at known places
(`RecordBytes`, `RecordReads`). The event: `JsonString` and `JsonParsed` are
recursive functions over the bytes. By induction over i, when the parser has
read what stands for the first i bytes it has these i bytes and is not in an
escape (`JsonReads`); a byte stands for itself or for two (`EscapedReads`).

**Only model-checked.** Liveness, as the prover does not handle fairness and
`ENABLED`: `HandshakeEnds`, `UpdateShown`, `MentionReachesScreen`, `NoLeak`,
`Drains`, `EventsHandled`, `ShutdownEnds`, `InboxRefreshes`. And what the two
runs that expect a violation refute.

## 5. Not modelled

* The timestamp of a record: its format and its range. A record's fields and
  separators are in `Records`.
* JSON beyond the strings the server writes: escapes only a module would use,
  nested values, numbers.
* Characters of three and four bytes and of two columns. The code treats them
  like those of two bytes and one column, apart from tables of ranges.
* Rendering of text: widths, colours, truncation, degradation of the title.
* The read-only exec commands and the commands that only format text.
* Option parsing, configuration, texts, languages, themes, `tntctl`, scripts,
  packaging.

## 6. Plan

Done: admission, redraw, client life, output, publication, modules, private
messages, history view, keys; then the username prompt, the syntax of records
and JSON strings with `/me`, allocation failures in rendering, and the host key
with the restart of the whole process. Every invariant and every safety
property of actions that a passing run checks is a theorem; the liveness
properties stay with TLC.
