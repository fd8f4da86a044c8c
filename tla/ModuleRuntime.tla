---------------------------- MODULE ModuleRuntime ----------------------------
(***************************************************************************)
(* module_runtime.c: the queue of posted messages, the worker thread that  *)
(* offers each of them to one module after the other, and the module       *)
(* processes behind two pipes.                                             *)
(*                                                                         *)
(* The worker waits TNT_MODULE_RESPONSE_TIMEOUT_MS for a line, so answers  *)
(* may come late and be read on behalf of another event, or in pieces.     *)
(* Writing to a module has no timeout.  Modules that follow the protocol   *)
(* (Good) answer every event, sooner or later, with at most MaxResponses   *)
(* lines, the last of them event.ok; the others do as they please.         *)
(***************************************************************************)
EXTENDS Integers, Sequences, FiniteSets

CONSTANTS
    N,            \* modules in TNT_MODULE_PATHS, at most TNT_MAX_MODULES
    Good,         \* those that follow the protocol
    QueueLimit,   \* TNT_MODULE_QUEUE_LIMIT
    MaxResponses, \* TNT_MODULE_MAX_RESPONSES_PER_EVENT
    MaxInvalid,   \* TNT_MODULE_MAX_INVALID_RESPONSES
    StdinSize,    \* events a module's stdin pipe holds
    StdoutSize,   \* lines a module's stdout pipe holds
    MaxEvents,    \* bound of the messages posted
    MaxWrites     \* bound of the lines a module outside Good writes

Module == 1 .. N

(* A pipe holds at least the answer to one event: 8 lines of at most 4 KiB *)
(* against 64 KiB.                                                         *)
ASSUME ModuleRuntimeAssumption ==
    /\ N \in Nat
    /\ Good \subseteq Module
    /\ QueueLimit \in Nat \ {0}
    /\ MaxResponses \in Nat \ {0}
    /\ MaxInvalid \in Nat \ {0}
    /\ StdinSize \in Nat \ {0}
    /\ StdoutSize \in Nat /\ StdoutSize >= MaxResponses
    /\ MaxEvents \in Nat
    /\ MaxWrites \in Nat

VARIABLES
    loaded,     \* module directories looked at so far; N + 1 after init
    state,      \* "off", "active" or, once disabled, "closed"
    invalid,    \* invalid_responses
    queue,      \* the events of the queue, by number
    running,    \* g_running
    worker,     \* where module_worker_main is, and with which event
    stdin,      \* events written to each module and not read by it
    stdout,     \* lines written by each module and not read by the worker
    proc,       \* the module processes
    events,     \* messages posted so far
    garbled,    \* history: a message that cannot be encoded was taken
    taken,      \* history: events taken from the queue
    sent,       \* history: events written to each module
    published   \* history: the messages of each module that were published

pipes   == <<stdin, stdout, proc>>
history == <<garbled, taken, sent, published>>
vars    == <<loaded, state, invalid, queue, running, worker, pipes, events, history>>

-----------------------------------------------------------------------------

NoWork == [at |-> "none", ev |-> 0, odd |-> FALSE, mod |-> 0, responses |-> 0]

(* A line, or the beginning of one: "object" lacks the newline only.       *)
Kinds == {"create", "ok", "bad", "empty", "control"}
Lines == [kind : Kinds, n : Nat, part : {"line", "object", "some"}]

(* What read_line_timeout and handle_module_response make of it.           *)
ReadAs(l) == IF l.part = "some" THEN "bad" ELSE l.kind

Active == {m \in Module : state[m] = "active"}

Init ==
    /\ loaded = 0
    /\ state = [m \in Module |-> "off"]
    /\ invalid = [m \in Module |-> 0]
    /\ queue = <<>>
    /\ running = FALSE
    /\ worker = NoWork
    /\ stdin = [m \in Module |-> <<>>]
    /\ stdout = [m \in Module |-> <<>>]
    /\ proc = [m \in Module |-> [exited |-> FALSE, busy |-> FALSE, lines |-> 0,
                                 made |-> 0, cut |-> "no"]]
    /\ events = 0
    /\ garbled = FALSE
    /\ taken = 0
    /\ sent = [m \in Module |-> 0]
    /\ published = [m \in Module |-> <<>>]

(* close_module_process, for every module of S.                            *)
Close(S) ==
    /\ state' = [m \in Module |-> IF m \in S THEN "closed" ELSE state[m]]
    /\ stdin' = [m \in Module |-> IF m \in S THEN <<>> ELSE stdin[m]]
    /\ stdout' = [m \in Module |-> IF m \in S THEN <<>> ELSE stdout[m]]
    /\ proc' = [m \in Module |-> IF m \in S THEN [proc[m] EXCEPT !.exited = TRUE]
                                            ELSE proc[m]]

-----------------------------------------------------------------------------
(* tnt_module_runtime_init and tnt_module_runtime_shutdown.                *)

(* tnt_module_manifest_load: no manifest, another protocol, a name or an   *)
(* entry point that is not allowed, events or permissions not asked for.   *)
ManifestRefused == UNCHANGED state

(* start_module_process: the module says handshake.ok in time, or it is    *)
(* stopped again.                                                          *)
StartModuleProcess(m) ==
    \/ state' = [state EXCEPT ![m] = "active"]
    \/ UNCHANGED state

(* load_modules_from_env, one directory.                                   *)
LoadModule ==
    /\ loaded < N
    /\ loaded' = loaded + 1
    /\ ManifestRefused \/ StartModuleProcess(loaded + 1)
    /\ UNCHANGED <<invalid, queue, running, worker, pipes, events, history>>

(* The worker is started if there is a module for it.                      *)
StartWorker ==
    /\ loaded = N
    /\ loaded' = N + 1
    /\ \/ /\ Active # {}
          /\ running' = TRUE
          /\ worker' = [worker EXCEPT !.at = "check"]
          /\ UNCHANGED <<state, pipes>>
       \/ /\ Close(Active)
          /\ UNCHANGED <<running, worker>>
    /\ UNCHANGED <<invalid, queue, events, history>>

(* main calls it only if starting the server fails, before any session.    *)
Shutdown ==
    /\ running /\ events = 0
    /\ running' = FALSE
    /\ UNCHANGED <<loaded, state, invalid, queue, worker, pipes, events, history>>

ShutdownJoined ==
    /\ loaded = N + 1 /\ ~running /\ worker.at = "stopped" /\ Active # {}
    /\ queue' = <<>>
    /\ Close(Active)
    /\ UNCHANGED <<loaded, invalid, running, worker, events, history>>

-----------------------------------------------------------------------------
(* A session or an exec post calls enqueue_message.                        *)
Post ==
    /\ running /\ events < MaxEvents
    /\ events' = events + 1
    /\ queue' = IF Len(queue) < QueueLimit THEN Append(queue, events + 1) ELSE queue
    /\ UNCHANGED <<loaded, state, invalid, running, worker, pipes, history>>

-----------------------------------------------------------------------------
(* The worker.                                                             *)

(* while (g_running).                                                      *)
CheckRunning ==
    /\ worker.at = "check"
    /\ worker' = [NoWork EXCEPT !.at = IF running THEN "dequeue" ELSE "stopped"]
    /\ UNCHANGED <<loaded, state, invalid, queue, running, pipes, events, history>>

(* The worker has the message n.  Odd is one that                           *)
(* tnt_module_append_message_created refuses: its text ends within a       *)
(* character, where /me cut it, or is too long with its escapes.           *)
Take(n, odd) ==
    /\ worker' = [at |-> "write", ev |-> n, odd |-> odd, mod |-> 1, responses |-> 0]
    /\ queue' = Tail(queue)
    /\ garbled' = (garbled \/ odd)
    /\ taken' = taken + 1

(* Waiting for an event only.                                              *)
DequeueUnwoken ==
    /\ worker.at = "dequeue" /\ queue # <<>>
    /\ \E odd \in BOOLEAN : Take(Head(queue), odd)
    /\ UNCHANGED <<loaded, state, invalid, running, pipes, events, sent, published>>

(* dequeue_message: waits while there is nothing to do.                    *)
Dequeue ==
    /\ worker.at = "dequeue"
    /\ \/ queue # <<>> /\ \E odd \in BOOLEAN : Take(Head(queue), odd)
       \/ /\ queue = <<>> /\ ~running
          /\ worker' = [worker EXCEPT !.at = "check"]
          /\ UNCHANGED <<queue, garbled, taken>>
    /\ UNCHANGED <<loaded, state, invalid, running, pipes, events, sent, published>>

(* deliver_message_to_module returns.                                      *)
NextModule ==
    worker' = IF worker.mod = N THEN [NoWork EXCEPT !.at = "check"]
              ELSE [worker EXCEPT !.at = "write", !.mod = @ + 1, !.responses = 0]

SkipModule ==
    /\ worker.at = "write" /\ worker.mod \notin Active
    /\ NextModule
    /\ UNCHANGED <<loaded, state, invalid, queue, running, pipes, events, history>>

(* The write waits for room in the pipe.                                   *)
WriteEvent ==
    LET m == worker.mod
    IN  /\ worker.at = "write" /\ m \in Active /\ ~worker.odd
        /\ ~proc[m].exited /\ Len(stdin[m]) < StdinSize
        /\ stdin' = [stdin EXCEPT ![m] = Append(@, worker.ev)]
        /\ sent' = [sent EXCEPT ![m] = @ + 1]
        /\ worker' = [worker EXCEPT !.at = "read"]
        /\ UNCHANGED <<loaded, state, invalid, queue, running, stdout, proc, events,
                       garbled, taken, published>>

(* Going on as if the array had been compacted around the closed module.   *)
DisableCompacted ==
    /\ Close({worker.mod})
    /\ worker' = IF worker.mod + 2 > N THEN [NoWork EXCEPT !.at = "check"]
                 ELSE [worker EXCEPT !.at = "write", !.mod = @ + 2, !.responses = 0]
    /\ UNCHANGED <<loaded, invalid, queue, running, events, history>>

(* EPIPE, or EOF (after what may be the beginning of a line).              *)
Disable ==
    /\ Close({worker.mod})
    /\ NextModule
    /\ UNCHANGED <<loaded, invalid, queue, running, events, history>>

(* There is nobody to write to, or nothing that could be written.          *)
WriteFails ==
    /\ worker.at = "write" /\ worker.mod \in Active
    /\ proc[worker.mod].exited \/ worker.odd
    /\ Disable

HasLine(m) == stdout[m] # <<>> /\ Head(stdout[m]).part = "line"

ReadFails ==
    LET m == worker.mod
    IN  /\ worker.at = "read"
        /\ IF HasLine(m) THEN Head(stdout[m]).kind = "control" ELSE proc[m].exited
        /\ Disable

(* A read that waits for as long as it takes.                              *)
ReadTimeoutNever ==
    /\ worker.at = "read" /\ proc[worker.mod].exited
    /\ NextModule
    /\ UNCHANGED <<loaded, state, invalid, queue, running, pipes, events, history>>

(* Nothing came in time.                                                   *)
ReadTimeout ==
    LET m == worker.mod
    IN  /\ worker.at = "read"
        /\ stdout[m] = <<>> /\ ~proc[m].exited
        /\ NextModule
        /\ UNCHANGED <<loaded, state, invalid, queue, running, pipes, events, history>>

(* One response too few.                                                   *)
TooManyOffByOne == worker.responses + 1 >= MaxResponses

TooMany == worker.responses + 1 > MaxResponses

(* The invalid response that makes it too many in a row.                   *)
Repeated(m, kind) == kind = "bad" /\ invalid[m] + 1 >= MaxInvalid

(* publish_module_message: saved and broadcast, or dropped.                *)
Publish(m, n) ==
    \/ published' = [published EXCEPT ![m] = Append(@, n)]
    \/ UNCHANGED published

(* Accepting a message without counting the response.                      *)
CreateUncounted(m, n) ==
    /\ Publish(m, n)
    /\ invalid' = [invalid EXCEPT ![m] = 0]
    /\ UNCHANGED worker

Create(m, n) ==
    /\ Publish(m, n)
    /\ invalid' = [invalid EXCEPT ![m] = 0]
    /\ worker' = [worker EXCEPT !.responses = @ + 1]

(* handle_module_response and what follows it in the loop.                 *)
Respond(m, kind, n) ==
    \/ kind = "create" /\ Create(m, n)
    \/ /\ kind # "create"
       /\ invalid' = CASE kind = "ok"    -> [invalid EXCEPT ![m] = 0]
                       [] kind = "bad"   -> [invalid EXCEPT ![m] = @ + 1]
                       [] kind = "empty" -> invalid
       /\ NextModule
       /\ UNCHANGED published

(* Reading a cut line again together with its end.                         *)
ConsumeWhole(m) ==
    stdout' = [stdout EXCEPT ![m] = IF HasLine(m) THEN Tail(@) ELSE @]

Consume(m) == stdout' = [stdout EXCEPT ![m] = Tail(@)]

(* A line, or the beginning of one if the rest does not come in time.      *)
ReadLine ==
    LET m == worker.mod
        kind == ReadAs(Head(stdout[m]))
    IN  /\ worker.at = "read" /\ stdout[m] # <<>>
        /\ IF HasLine(m) THEN kind # "control" ELSE ~proc[m].exited
        /\ IF kind # "empty" /\ (TooMany \/ Repeated(m, kind))
           THEN Disable
           ELSE /\ Consume(m)
                /\ Respond(m, kind, Head(stdout[m]).n)
                /\ UNCHANGED <<loaded, state, queue, running, stdin, proc, events,
                               garbled, taken, sent>>

-----------------------------------------------------------------------------
(* The module processes (external).                                        *)

Runs(m) == m \in Active /\ ~proc[m].exited

(* A module of Good reads the next event when it has answered the last.    *)
ProcRead(m) ==
    /\ Runs(m) /\ stdin[m] # <<>>
    /\ m \in Good => ~proc[m].busy
    /\ stdin' = [stdin EXCEPT ![m] = Tail(@)]
    /\ proc' = [proc EXCEPT ![m] =
          [@ EXCEPT !.busy = TRUE, !.lines = IF m \in Good THEN 0 ELSE proc[m].lines]]
    /\ UNCHANGED <<loaded, state, invalid, queue, running, worker, stdout, events, history>>

Puts(m, kind, part) ==
    /\ Runs(m) /\ Len(stdout[m]) < StdoutSize
    /\ stdout' = [stdout EXCEPT ![m] = Append(@,
          [kind |-> kind, n |-> IF kind = "create" THEN proc[m].made + 1 ELSE 0,
           part |-> part])]
    /\ UNCHANGED <<loaded, state, invalid, queue, running, worker, stdin, events, history>>

Made(m, kind) == proc[m].made + (IF kind = "create" THEN 1 ELSE 0)

(* A module of Good answers.                                               *)
ProcAnswer(m) ==
    /\ m \in Good /\ proc[m].busy
    /\ \E kind \in {"create", "ok"} :
          /\ kind = "create" => proc[m].lines + 1 < MaxResponses
          /\ Puts(m, kind, "line")
          /\ proc' = [proc EXCEPT ![m] =
                [@ EXCEPT !.lines = proc[m].lines + 1, !.made = Made(m, kind),
                          !.busy = (kind = "create")]]

(* Another one writes something, perhaps not all of a line at once.        *)
ProcWrite(m) ==
    /\ m \notin Good /\ proc[m].lines < MaxWrites /\ proc[m].cut = "no"
    /\ \E kind \in Kinds : \E part \in {"line", "object", "some"} :
          /\ kind \notin {"create", "ok"} => part = "line"
          /\ Puts(m, kind, part)
          /\ proc' = [proc EXCEPT ![m] =
                [@ EXCEPT !.lines = proc[m].lines + 1, !.made = Made(m, kind),
                          !.cut = IF part = "line" THEN "no" ELSE part]]

(* The rest of a line: part of it, if the worker has not taken that yet.   *)
ProcWriteRest(m) ==
    LET out   == stdout[m]
        last  == out[Len(out)]
        waits == out # <<>> /\ last.part # "line"
    IN  /\ Runs(m) /\ proc[m].cut # "no"
        /\ waits \/ Len(out) < StdoutSize
        /\ stdout' = [stdout EXCEPT ![m] =
              IF waits THEN [out EXCEPT ![Len(out)] = [last EXCEPT !.part = "line"]]
              ELSE Append(out, [kind |-> IF proc[m].cut = "object" THEN "empty" ELSE "bad",
                                n |-> 0, part |-> "line"])]
        /\ proc' = [proc EXCEPT ![m].cut = "no"]
        /\ UNCHANGED <<loaded, state, invalid, queue, running, worker, stdin, events, history>>

ProcExit(m) ==
    /\ m \notin Good /\ Runs(m)
    /\ proc' = [proc EXCEPT ![m].exited = TRUE]
    /\ UNCHANGED <<loaded, state, invalid, queue, running, worker, stdin, stdout, events, history>>

-----------------------------------------------------------------------------

WorkerStep ==
    \/ CheckRunning \/ Dequeue
    \/ SkipModule \/ WriteEvent \/ WriteFails
    \/ ReadFails \/ ReadTimeout \/ ReadLine

Next ==
    \/ LoadModule \/ StartWorker \/ Shutdown \/ ShutdownJoined
    \/ Post
    \/ WorkerStep
    \/ \E m \in Module : \/ ProcRead(m) \/ ProcAnswer(m)
                         \/ ProcWrite(m) \/ ProcWriteRest(m) \/ ProcExit(m)

Spec == Init /\ [][Next]_vars

(* The threads of the server run, and timeouts expire.                     *)
ServerFair ==
    WF_vars(LoadModule) /\ WF_vars(StartWorker) /\ WF_vars(WorkerStep) /\ WF_vars(ShutdownJoined)

(* Modules of Good go on answering.                                        *)
GoodFair == \A m \in Good : WF_vars(ProcRead(m)) /\ WF_vars(ProcAnswer(m))

FairSpec == Spec /\ ServerFair /\ GoodFair

-----------------------------------------------------------------------------

TypeOK ==
    /\ loaded \in 0 .. N + 1
    /\ state \in [Module -> {"off", "active", "closed"}]
    /\ invalid \in [Module -> 0 .. MaxInvalid - 1]
    /\ queue \in Seq(1 .. MaxEvents) /\ Len(queue) <= QueueLimit
    /\ running \in BOOLEAN
    /\ worker \in [at : {"none", "check", "dequeue", "write", "read", "stopped"},
                   ev : 0 .. MaxEvents, odd : BOOLEAN, mod : 0 .. N, responses : 0 .. MaxResponses]
    /\ stdin \in [Module -> Seq(1 .. MaxEvents)]
    /\ stdout \in [Module -> Seq(Lines)]
    /\ \A m \in Module : Len(stdin[m]) <= StdinSize /\ Len(stdout[m]) <= StdoutSize
    /\ events \in 0 .. MaxEvents /\ garbled \in BOOLEAN

(* The worker has not yet got to module m with its event.                  *)
Pending(m) ==
    \/ worker.at = "write" /\ worker.mod <= m
    \/ worker.at = "read" /\ worker.mod < m

(* An enabled module gets every event that leaves the queue, whatever      *)
(* happens to the modules before it while the event goes round.            *)
NoEventSkipped ==
    \A m \in Active : sent[m] = IF Pending(m) THEN taken - 1 ELSE taken

(* A module that follows the protocol is never disabled, however late its  *)
(* answers are, for which event they are taken, and whatever the other     *)
(* modules do.  The exception is none of its making: a message that cannot *)
(* be encoded is treated as a failed write and disables every module.      *)
ConformingKept ==
    \A m \in Good : state[m] = "closed" => ~running \/ garbled

(* A module's messages are published in the order it wrote them and each   *)
(* once, also when a line comes in pieces and its beginning is taken for   *)
(* the whole.                                                              *)
PublishedInOrder ==
    \A m \in Module : \A i, j \in 1 .. Len(published[m]) :
        i < j => published[m][i] < published[m][j]

(* No module gets more than MaxResponses messages into the room for every  *)
(* event it was given, whatever it writes and whenever.                    *)
Amplification ==
    \A m \in Module : Len(published[m]) <= MaxResponses * sent[m]

(* A module that is not bound by the protocol and does not read its stdin: *)
(* the write of an event waits, without a timeout.                         *)
Blocked ==
    /\ worker.at = "write" /\ worker.mod \in Active \ Good /\ ~worker.odd
    /\ ~proc[worker.mod].exited /\ Len(stdin[worker.mod]) = StdinSize

(* A queued event is offered to every module and the worker goes on,       *)
(* unless it is blocked for good in a write to a module that has stopped   *)
(* reading: it never waits for a conforming module that waits for it, and  *)
(* neither late, invalid or missing answers nor dying modules stop it.     *)
EventsHandled ==
    []<>~Blocked =>
        \A n \in 1 .. MaxEvents :
            (\E i \in 1 .. Len(queue) : queue[i] = n)
                ~> (worker.ev # n /\ \A i \in 1 .. Len(queue) : queue[i] # n)

(* Shutting down ends, with every module stopped.                          *)
ShutdownEnds == (loaded = N + 1 /\ ~running) ~> (Active = {})
=============================================================================
