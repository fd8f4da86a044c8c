------------------------ MODULE ModuleRuntimeProofs -------------------------
(***************************************************************************)
(* What ModuleRuntime promises for any number of modules, any division of  *)
(* them into conforming and other ones, and any sizes of queue and pipes:  *)
(* no event is skipped, conforming modules are kept, messages are          *)
(* published in order, and there is a bound on how many.                   *)
(***************************************************************************)
EXTENDS ModuleRuntime, SequenceTheorems, TLAPS

Workers == [at : {"none", "check", "dequeue", "write", "read", "stopped"},
            ev : 0 .. MaxEvents, odd : BOOLEAN, mod : 0 .. N, responses : 0 .. MaxResponses]
Procs   == [exited : BOOLEAN, busy : BOOLEAN, lines : Nat, made : Nat,
            cut : {"no", "object", "some"}]

(* TypeOK, and the types of the history and of the processes.              *)
Typed ==
    /\ TypeOK
    /\ proc \in [Module -> Procs]
    /\ taken \in Nat
    /\ sent \in [Module -> Nat]
    /\ published \in [Module -> Seq(Nat)]
    /\ \A m \in Module : \A i \in 1 .. Len(stdout[m]) :
          stdout[m][i].part # "line" => stdout[m][i].kind \in {"create", "ok"}

(* Where the worker can be: it exists once all modules are loaded, and     *)
(* while it reads from a module that module is enabled.                    *)
Control ==
    /\ worker.at # "none" => loaded = N + 1 /\ N \in Module
    /\ worker.at \in {"write", "read"} => worker.mod \in Module /\ worker.ev \in 1 .. MaxEvents
    /\ worker.at = "read" => worker.mod \in Active
    /\ worker.at = "write" => worker.responses = 0
    /\ worker.at = "none" => taken = 0 /\ \A m \in Module : sent[m] = 0
    /\ worker.odd => garbled
    /\ running => worker.at # "none"

(* The messages of m that are published, on the way and written: in order. *)
InOrder(m) ==
    LET out == stdout[m]
        pub == published[m]
    IN  /\ \A i, j \in 1 .. Len(pub) : i < j => pub[i] < pub[j]
        /\ \A i \in 1 .. Len(pub) : pub[i] <= proc[m].made
        /\ \A i \in 1 .. Len(out) : out[i].kind = "create" =>
              /\ out[i].n <= proc[m].made
              /\ \A k \in 1 .. Len(pub) : pub[k] < out[i].n
        /\ \A i, j \in 1 .. Len(out) :
              out[i].kind = "create" /\ out[j].kind = "create" /\ i < j => out[i].n < out[j].n

(* Responses of m that the worker has accepted on this visit.              *)
Accepted(m) == IF worker.at = "read" /\ worker.mod = m THEN worker.responses ELSE 0

(* What is left of the worker's patience was paid for by an event.         *)
Paid(m) ==
    IF worker.at = "read" /\ worker.mod = m
    THEN Len(published[m]) + MaxResponses <= MaxResponses * sent[m] + worker.responses
    ELSE Len(published[m]) <= MaxResponses * sent[m]

(* From the i-th line on, up to the j-th, m's output has messages only.    *)
Messages(m, i, j) == \A k \in i + 1 .. j : stdout[m][k].kind = "create"

(* A conforming module that is not disabled is alive, its output consists  *)
(* of whole lines, and no stretch of it without an event.ok is as long as  *)
(* MaxResponses, counting what the worker has accepted of it already.      *)
Conforms(m) ==
    /\ ~proc[m].exited /\ proc[m].cut = "no"
    /\ proc[m].busy => proc[m].lines < MaxResponses
    /\ \A k \in 1 .. Len(stdout[m]) :
          stdout[m][k].part = "line" /\ stdout[m][k].kind \in {"create", "ok"}
    /\ \A i, j \in 0 .. Len(stdout[m]) : i <= j /\ Messages(m, i, j) =>
          j - i + (IF i = 0 THEN Accepted(m) ELSE 0) < MaxResponses
    /\ \A i \in 0 .. Len(stdout[m]) : Messages(m, i, Len(stdout[m])) =>
          Len(stdout[m]) - i + (IF i = 0 THEN Accepted(m) ELSE 0)
             <= IF proc[m].busy THEN proc[m].lines ELSE 0

GoodInv == \A m \in Good :
    /\ state[m] # "closed" => Conforms(m)
    /\ state[m] = "closed" => loaded = N + 1 /\ (garbled \/ ~running)

-----------------------------------------------------------------------------
(* The data of the model.                                                  *)

LEMMA WorkerAt ==
    ASSUME NEW w \in Workers, NEW a \in {"check", "read", "dequeue", "stopped"}
    PROVE  /\ [w EXCEPT !.at = a] \in Workers
           /\ [w EXCEPT !.at = a].at = a
           /\ [w EXCEPT !.at = a].ev = w.ev
           /\ [w EXCEPT !.at = a].odd = w.odd
           /\ [w EXCEPT !.at = a].mod = w.mod
           /\ [w EXCEPT !.at = a].responses = w.responses
  BY DEF Workers

LEMMA WorkerResponses ==
    ASSUME NEW w \in Workers, NEW r \in 0 .. MaxResponses
    PROVE  /\ [w EXCEPT !.responses = r] \in Workers
           /\ [w EXCEPT !.responses = r].at = w.at
           /\ [w EXCEPT !.responses = r].ev = w.ev
           /\ [w EXCEPT !.responses = r].odd = w.odd
           /\ [w EXCEPT !.responses = r].mod = w.mod
           /\ [w EXCEPT !.responses = r].responses = r
  BY DEF Workers

LEMMA NoWorkType ==
    \A a \in {"check", "dequeue", "stopped"} :
       /\ [NoWork EXCEPT !.at = a] \in Workers
       /\ [NoWork EXCEPT !.at = a].at = a
       /\ [NoWork EXCEPT !.at = a].odd = FALSE
<1>1. NoWork \in Workers /\ NoWork.odd = FALSE
  BY ModuleRuntimeAssumption DEF NoWork, Workers
<1> TAKE a \in {"check", "dequeue", "stopped"}
<1>2. a \in {"check", "read", "dequeue", "stopped"}
  OBVIOUS
<1> QED BY <1>1, <1>2, WorkerAt

LEMMA ProcType ==
    ASSUME NEW p \in Procs
    PROVE  /\ [p EXCEPT !.exited = TRUE] \in Procs
           /\ [p EXCEPT !.exited = TRUE].made = p.made
           /\ [p EXCEPT !.cut = "no"] \in Procs
           /\ [p EXCEPT !.cut = "no"].made = p.made
           /\ \A n \in Nat :
                 LET q == [p EXCEPT !.busy = TRUE, !.lines = n]
                 IN  /\ q \in Procs /\ q.made = p.made /\ q.lines = n /\ q.busy = TRUE
                     /\ q.exited = p.exited /\ q.cut = p.cut
  BY DEF Procs

LEMMA LineType ==
    ASSUME NEW k \in Kinds, NEW n \in Nat, NEW p \in {"line", "object", "some"}
    PROVE  [kind |-> k, n |-> n, part |-> p] \in Lines
  BY DEF Lines

(* The end of a visit: the worker goes to the next module, or back to the  *)
(* queue after the last.                                                   *)
LEMMA NextModuleStep ==
    ASSUME Typed, worker.mod \in Module, NextModule
    PROVE  /\ worker' \in Workers
           /\ \/ /\ worker.mod = N /\ worker'.at = "check" /\ worker'.odd = FALSE
              \/ /\ worker.mod < N /\ worker'.at = "write" /\ worker'.ev = worker.ev
                 /\ worker'.odd = worker.odd /\ worker'.mod = worker.mod + 1
                 /\ worker'.responses = 0
<1>0. 0 \in 0 .. MaxResponses
  BY ModuleRuntimeAssumption
<1>1. worker \in Workers /\ N \in Nat
  BY ModuleRuntimeAssumption DEF Typed, TypeOK, Workers
<1>2. CASE worker.mod = N
  BY <1>2, NoWorkType DEF NextModule
<1>3. CASE worker.mod # N
  <2>1. worker.mod + 1 \in 0 .. N /\ worker.mod < N
    BY <1>1, <1>3 DEF Module
  <2>2. worker' = [worker EXCEPT !.at = "write", !.mod = worker.mod + 1, !.responses = 0]
    BY <1>3 DEF NextModule
  <2>3. /\ worker' \in Workers
        /\ worker'.at = "write" /\ worker'.ev = worker.ev /\ worker'.odd = worker.odd
        /\ worker'.mod = worker.mod + 1 /\ worker'.responses = 0
    <3> DEFINE k == worker.mod + 1
    <3>1. k \in 0 .. N
      BY <2>1
    <3> HIDE DEF k
    <3>2. worker' = [worker EXCEPT !.at = "write", !.mod = k, !.responses = 0]
      BY <2>2 DEF k
    <3>3. /\ worker' \in Workers
          /\ worker'.at = "write" /\ worker'.ev = worker.ev /\ worker'.odd = worker.odd
          /\ worker'.mod = k /\ worker'.responses = 0
      BY <1>0, <1>1, <3>1, <3>2 DEF Workers
    <3> QED BY <3>3 DEF k
  <2> QED BY <2>1, <2>3
<1> QED BY <1>2, <1>3

(* close_module_process.                                                   *)
LEMMA CloseStep ==
    ASSUME Typed, NEW S, Close(S)
    PROVE  /\ state' \in [Module -> {"off", "active", "closed"}]
           /\ stdin' \in [Module -> Seq(1 .. MaxEvents)]
           /\ stdout' \in [Module -> Seq(Lines)]
           /\ proc' \in [Module -> Procs]
           /\ \A m \in Module : Len(stdin'[m]) <= StdinSize /\ Len(stdout'[m]) <= StdoutSize
           /\ \A m \in Module : \A i \in 1 .. Len(stdout'[m]) :
                 stdout'[m][i].part # "line" => stdout'[m][i].kind \in {"create", "ok"}
           /\ Active' = Active \ S
           /\ \A m \in Module \ S :
                 state'[m] = state[m] /\ stdout'[m] = stdout[m] /\ proc'[m] = proc[m]
           /\ \A m \in Module \cap S :
                 state'[m] = "closed" /\ stdout'[m] = <<>> /\ proc'[m].made = proc[m].made
<1> DEFINE gone(m) == [proc[m] EXCEPT !.exited = TRUE]
<1>0. proc' = [m \in Module |-> IF m \in S THEN gone(m) ELSE proc[m]]
  BY DEF Close
<1>1. \A m \in Module : proc[m] \in Procs /\ gone(m) \in Procs /\ gone(m).made = proc[m].made
  BY ProcType DEF Typed
<1> HIDE DEF gone
<1>2. proc' \in [Module -> Procs]
  BY <1>0, <1>1
<1>3. /\ <<>> \in Seq(1 .. MaxEvents) /\ <<>> \in Seq(Lines)
      /\ Len(<<>>) = 0 /\ 0 <= StdinSize /\ 0 <= StdoutSize
  BY ModuleRuntimeAssumption
<1>4. /\ stdin' \in [Module -> Seq(1 .. MaxEvents)]
      /\ stdout' \in [Module -> Seq(Lines)]
      /\ state' \in [Module -> {"off", "active", "closed"}]
  BY <1>3 DEF Close, Typed, TypeOK
<1>5. \A m \in Module :
         /\ stdin'[m] = IF m \in S THEN <<>> ELSE stdin[m]
         /\ stdout'[m] = IF m \in S THEN <<>> ELSE stdout[m]
         /\ state'[m] = IF m \in S THEN "closed" ELSE state[m]
         /\ proc'[m] = IF m \in S THEN gone(m) ELSE proc[m]
  BY <1>0 DEF Close
<1>6. \A m \in Module : Len(stdin'[m]) <= StdinSize /\ Len(stdout'[m]) <= StdoutSize
  BY <1>3, <1>5 DEF Typed, TypeOK
<1>7. \A m \in Module : \A i \in 1 .. Len(stdout'[m]) :
         stdout'[m][i].part # "line" => stdout'[m][i].kind \in {"create", "ok"}
  <2> TAKE m \in Module
  <2>1. CASE m \in S
    <3>1. Len(stdout'[m]) = 0
      BY <1>3, <1>5, <2>1
    <3> QED BY <3>1
  <2>2. CASE m \notin S
    <3>1. stdout'[m] = stdout[m]
      BY <1>5, <2>2
    <3> QED BY <3>1 DEF Typed
  <2> QED BY <2>1, <2>2
<1>8. Active' = Active \ S
  <2>1. \A m \in Module : state'[m] = "active" <=> state[m] = "active" /\ m \notin S
    BY <1>5
  <2> QED BY <2>1 DEF Active
<1>9. /\ \A m \in Module \ S :
            state'[m] = state[m] /\ stdout'[m] = stdout[m] /\ proc'[m] = proc[m]
      /\ \A m \in Module \cap S :
            state'[m] = "closed" /\ stdout'[m] = <<>> /\ proc'[m].made = proc[m].made
  BY <1>1, <1>5
<1> QED BY <1>2, <1>4, <1>6, <1>7, <1>8, <1>9

-----------------------------------------------------------------------------
(* No event is skipped.                                                    *)

Base == Typed /\ Control /\ NoEventSkipped

LEMMA LoadModuleBase == Base /\ LoadModule => Base'
<1> SUFFICES ASSUME Base, LoadModule PROVE Base'
  OBVIOUS
<1>1. worker.at = "none" /\ loaded \in Nat /\ N \in Nat /\ loaded + 1 \in Module
  BY ModuleRuntimeAssumption DEF Base, Control, LoadModule, Typed, TypeOK, Module
<1>2. state' \in [Module -> {"off", "active", "closed"}]
  BY <1>1 DEF Base, Typed, TypeOK, LoadModule, ManifestRefused, StartModuleProcess
<1>3. Typed'
  BY <1>1, <1>2 DEF Base, LoadModule, Typed, TypeOK, pipes, history
<1>4. Control' /\ NoEventSkipped'
  BY <1>1 DEF Base, LoadModule, Control, NoEventSkipped, Pending, Active, pipes, history
<1> QED BY <1>3, <1>4 DEF Base

LEMMA StartWorkerBase == Base /\ StartWorker => Base'
<1> SUFFICES ASSUME Base, StartWorker PROVE Base'
  OBVIOUS
<1>0. N \in Nat /\ loaded = N /\ loaded' = N + 1 /\ worker \in Workers
  BY ModuleRuntimeAssumption DEF Base, StartWorker, Typed, TypeOK, Workers
<1>1. worker.at = "none"
  BY <1>0 DEF Base, Control
<1>2. CASE /\ Active # {} /\ running' = TRUE /\ worker' = [worker EXCEPT !.at = "check"]
           /\ UNCHANGED <<state, pipes>>
  <2>1. worker' \in Workers /\ worker'.at = "check" /\ worker'.odd = worker.odd
    BY <1>0, <1>2, WorkerAt
  <2>2. N \in Module
    BY <1>0, <1>2 DEF Active, Module
  <2>3. Typed'
    BY <1>0, <1>2, <2>1 DEF Base, StartWorker, Typed, TypeOK, pipes, history, Workers
  <2>4. Control' /\ NoEventSkipped'
    BY <1>0, <1>1, <1>2, <2>1, <2>2
       DEF Base, StartWorker, Control, NoEventSkipped, Pending, Active, Module, pipes, history
  <2> QED BY <2>3, <2>4 DEF Base
<1>3. CASE Close(Active) /\ UNCHANGED <<running, worker>>
  <2>0. Typed
    BY DEF Base
  <2>1. Typed' /\ Active' = {}
    BY <1>0, <1>3, <2>0, CloseStep, SMTT(30) DEF StartWorker, Typed, TypeOK, history
  <2>2. Control' /\ NoEventSkipped'
    BY <1>0, <1>1, <1>3, <2>1 DEF Base, StartWorker, Control, NoEventSkipped, history
  <2> QED BY <2>1, <2>2 DEF Base
<1> QED BY <1>2, <1>3 DEF StartWorker

LEMMA ShutdownBase == Base /\ (Shutdown \/ ShutdownJoined) => Base'
<1> SUFFICES ASSUME Base, Shutdown \/ ShutdownJoined PROVE Base'
  OBVIOUS
<1>1. CASE Shutdown
  <2>1. Typed'
    BY <1>1 DEF Base, Shutdown, Typed, TypeOK, pipes, history
  <2>2. Control' /\ NoEventSkipped'
    BY <1>1 DEF Base, Shutdown, Control, NoEventSkipped, Pending, Active, pipes, history
  <2> QED BY <2>1, <2>2 DEF Base
<1>2. CASE ShutdownJoined
  <2>1. queue' \in Seq(1 .. MaxEvents) /\ Len(queue') <= QueueLimit
    BY <1>2, ModuleRuntimeAssumption DEF ShutdownJoined
  <2>2. Typed' /\ Active' = {}
    BY <1>2, <2>1, CloseStep DEF Base, ShutdownJoined, Typed, TypeOK, history
  <2>3. Control' /\ NoEventSkipped'
    BY <1>2, <2>2 DEF Base, ShutdownJoined, Control, NoEventSkipped, history
  <2> QED BY <2>2, <2>3 DEF Base
<1> QED BY <1>1, <1>2

LEMMA PostBase == Base /\ Post => Base'
<1> SUFFICES ASSUME Base, Post PROVE Base'
  OBVIOUS
<1>1. queue' \in Seq(1 .. MaxEvents) /\ Len(queue') <= QueueLimit
  <2>1. events + 1 \in 1 .. MaxEvents /\ queue \in Seq(1 .. MaxEvents) /\ Len(queue) <= QueueLimit
    BY ModuleRuntimeAssumption DEF Base, Post, Typed, TypeOK
  <2>2. /\ Append(queue, events + 1) \in Seq(1 .. MaxEvents)
        /\ Len(Append(queue, events + 1)) = Len(queue) + 1
    BY <2>1, AppendProperties
  <2>3. Len(queue) \in Nat /\ QueueLimit \in Nat
    BY <2>1, LenProperties, ModuleRuntimeAssumption
  <2>4. CASE Len(queue) < QueueLimit
    <3>1. queue' = Append(queue, events + 1)
      BY <2>4 DEF Post
    <3> QED BY <2>2, <2>3, <2>4, <3>1
  <2>5. CASE ~(Len(queue) < QueueLimit)
    BY <2>1, <2>5 DEF Post
  <2> QED BY <2>4, <2>5
<1>2. Typed'
  BY <1>1, ModuleRuntimeAssumption DEF Base, Post, Typed, TypeOK, pipes, history
<1>3. Control' /\ NoEventSkipped'
  BY DEF Base, Post, Control, NoEventSkipped, Pending, Active, pipes, history
<1> QED BY <1>2, <1>3 DEF Base

(* A visit ends, and the module visited has had the event or is disabled.  *)
LEMMA LeaveBase ==
    ASSUME Base, worker.at \in {"write", "read"}, NextModule, Active' \subseteq Active,
           worker.at = "write" => worker.mod \notin Active',
           UNCHANGED <<loaded, running, garbled, taken, sent>>
    PROVE  Control' /\ NoEventSkipped' /\ worker' \in Workers
<1>1. worker.mod \in Module /\ worker.ev \in 1 .. MaxEvents /\ N \in Nat
  BY ModuleRuntimeAssumption DEF Base, Control
<1>2. /\ worker' \in Workers
      /\ \/ /\ worker.mod = N /\ worker'.at = "check" /\ worker'.odd = FALSE
         \/ /\ worker.mod < N /\ worker'.at = "write" /\ worker'.ev = worker.ev
            /\ worker'.odd = worker.odd /\ worker'.mod = worker.mod + 1
            /\ worker'.responses = 0
  BY <1>1, NextModuleStep DEF Base
<1>3. Control'
  <2>1. worker.at # "none" /\ loaded' = N + 1 /\ N \in Module
    BY DEF Base, Control
  <2>2. worker'.odd => garbled'
    BY <1>2 DEF Base, Control
  <2>3. worker'.at = "write" => worker'.mod \in Module
    BY <1>1, <1>2 DEF Module
  <2> QED BY <1>1, <1>2, <2>1, <2>2, <2>3 DEF Control
<1>4. NoEventSkipped'
  <2> SUFFICES ASSUME NEW m \in Active'
               PROVE  sent'[m] = IF Pending(m)' THEN taken' - 1 ELSE taken'
    BY DEF NoEventSkipped
  <2>1. m \in Active /\ m \in 1 .. N /\ sent[m] = IF Pending(m) THEN taken - 1 ELSE taken
    BY DEF Base, NoEventSkipped, Active, Module
  <2>2. Pending(m)' <=> Pending(m)
    BY <1>1, <1>2, <2>1 DEF Pending, Module
  <2> QED BY <2>1, <2>2
<1> QED BY <1>2, <1>3, <1>4

LEMMA DisableBase ==
    ASSUME Base, worker.at \in {"write", "read"}, Disable
    PROVE  Base'
<1>1. Typed /\ Close({worker.mod}) /\ NextModule
      /\ UNCHANGED <<loaded, invalid, queue, running, events, garbled, taken, sent, published>>
  BY DEF Base, Disable, history
<1>2. Active' = Active \ {worker.mod}
  BY <1>1, CloseStep
<1>3. Control' /\ NoEventSkipped' /\ worker' \in Workers
  BY <1>1, <1>2, LeaveBase
<1>4. Typed'
  BY <1>1, <1>3, CloseStep DEF Typed, TypeOK, Workers
<1> QED BY <1>3, <1>4 DEF Base

LEMMA SkipModuleBase == Base /\ (SkipModule \/ ReadTimeout) => Base'
<1> SUFFICES ASSUME Base, SkipModule \/ ReadTimeout PROVE Base'
  OBVIOUS
<1>1. /\ worker.at \in {"write", "read"} /\ NextModule
      /\ worker.at = "write" => worker.mod \notin Active
      /\ UNCHANGED <<loaded, state, invalid, queue, running, pipes, events, history>>
  BY DEF SkipModule, ReadTimeout
<1>2. Active' = Active
  BY <1>1 DEF Active
<1>3. Control' /\ NoEventSkipped' /\ worker' \in Workers
  BY <1>1, <1>2, LeaveBase DEF history
<1>4. Typed'
  BY <1>1, <1>3 DEF Base, Typed, TypeOK, Workers, pipes, history
<1> QED BY <1>3, <1>4 DEF Base

LEMMA CheckRunningBase == Base /\ CheckRunning => Base'
<1> SUFFICES ASSUME Base, CheckRunning PROVE Base'
  OBVIOUS
<1>1. worker' \in Workers /\ worker'.at \in {"dequeue", "stopped"} /\ worker'.odd = FALSE
  BY NoWorkType DEF CheckRunning
<1>2. Typed'
  BY <1>1 DEF Base, CheckRunning, Typed, TypeOK, Workers, pipes, history
<1>3. Control' /\ NoEventSkipped'
  BY <1>1 DEF Base, CheckRunning, Control, NoEventSkipped, Pending, Active, pipes, history
<1> QED BY <1>2, <1>3 DEF Base

LEMMA DequeueBase == Base /\ Dequeue => Base'
<1> SUFFICES ASSUME Base, Dequeue PROVE Base'
  OBVIOUS
<1>0. /\ worker.at = "dequeue" /\ loaded = N + 1 /\ N \in Module
      /\ UNCHANGED <<loaded, state, invalid, running, pipes, events, sent, published>>
  BY DEF Base, Control, Dequeue
<1>1. CASE queue # <<>> /\ \E odd \in BOOLEAN : Take(Head(queue), odd)
  <2>1. PICK odd \in BOOLEAN : Take(Head(queue), odd)
    BY <1>1
  <2>2. /\ queue \in Seq(1 .. MaxEvents) /\ Len(queue) <= QueueLimit
        /\ Head(queue) \in 1 .. MaxEvents
        /\ Tail(queue) \in Seq(1 .. MaxEvents) /\ Len(Tail(queue)) = Len(queue) - 1
    BY <1>1, HeadTailProperties DEF Base, Typed, TypeOK
  <2>3. queue' \in Seq(1 .. MaxEvents) /\ Len(queue') <= QueueLimit
    <3>1. Len(queue) \in Nat /\ QueueLimit \in Nat
      BY <2>2, LenProperties, ModuleRuntimeAssumption
    <3> QED BY <2>1, <2>2, <3>1 DEF Take
  <2>4. /\ worker' \in Workers /\ worker'.at = "write" /\ worker'.ev \in 1 .. MaxEvents
        /\ worker'.mod = 1 /\ worker'.responses = 0 /\ (worker'.odd => garbled')
        /\ garbled' \in BOOLEAN
    <3>1. 0 \in 0 .. MaxResponses /\ 1 \in 0 .. N /\ Head(queue) \in 0 .. MaxEvents
      BY <1>0, <2>2, ModuleRuntimeAssumption DEF Module
    <3>2. worker' = [at |-> "write", ev |-> Head(queue), odd |-> odd, mod |-> 1, responses |-> 0]
      BY <2>1 DEF Take
    <3>3. garbled' \in BOOLEAN /\ (odd => garbled')
      BY <2>1 DEF Take, Base, Typed, TypeOK
    <3> QED BY <2>2, <3>1, <3>2, <3>3 DEF Workers
  <2>5. taken' = taken + 1 /\ taken \in Nat
    BY <2>1 DEF Take, Base, Typed
  <2>6. Typed'
    BY <1>0, <2>3, <2>4, <2>5, SMTT(30) DEF Base, Typed, TypeOK, Workers, pipes
  <2>7. 1 \in Module
    BY <1>0, ModuleRuntimeAssumption DEF Module
  <2>8. Control'
    BY <1>0, <2>4, <2>7 DEF Control, Base
  <2>9. NoEventSkipped'
    <3> SUFFICES ASSUME NEW m \in Active'
                 PROVE  sent'[m] = IF Pending(m)' THEN taken' - 1 ELSE taken'
      BY DEF NoEventSkipped
    <3>1. m \in Active /\ m \in 1 .. N /\ ~Pending(m)
      BY <1>0 DEF Active, Module, Pending
    <3>2. sent[m] = taken
      BY <3>1 DEF Base, NoEventSkipped
    <3>3. Pending(m)'
      BY <2>4, <3>1 DEF Pending
    <3> QED BY <1>0, <2>5, <3>2, <3>3
  <2> QED BY <2>6, <2>8, <2>9 DEF Base
<1>2. CASE /\ queue = <<>> /\ ~running /\ worker' = [worker EXCEPT !.at = "check"]
           /\ UNCHANGED <<queue, garbled, taken>>
  <2>1. worker' \in Workers /\ worker'.at = "check" /\ worker'.odd = worker.odd
    BY <1>2, WorkerAt DEF Base, Typed, TypeOK, Workers
  <2>2. Typed'
    BY <1>0, <1>2, <2>1 DEF Base, Typed, TypeOK, Workers, pipes
  <2>3. Control' /\ NoEventSkipped'
    BY <1>0, <1>2, <2>1 DEF Base, Control, NoEventSkipped, Pending, Active
  <2> QED BY <2>2, <2>3 DEF Base
<1> QED BY <1>1, <1>2 DEF Dequeue

LEMMA WriteEventBase == Base /\ WriteEvent => Base'
<1> SUFFICES ASSUME Base, WriteEvent PROVE Base'
  OBVIOUS
<1> DEFINE m == worker.mod
<1>1. /\ worker.at = "write" /\ m \in Active /\ m \in Module /\ worker.ev \in 1 .. MaxEvents
      /\ worker \in Workers
  BY DEF WriteEvent, Base, Control, Typed, TypeOK, Workers
<1>2. /\ stdin' = [stdin EXCEPT ![m] = Append(stdin[m], worker.ev)]
      /\ sent' = [sent EXCEPT ![m] = sent[m] + 1]
      /\ worker' = [worker EXCEPT !.at = "read"]
      /\ UNCHANGED <<loaded, state, invalid, queue, running, stdout, proc, events,
                     garbled, taken, published>>
      /\ Len(stdin[m]) < StdinSize
  BY DEF WriteEvent
<1>3. /\ worker' \in Workers /\ worker'.at = "read" /\ worker'.ev = worker.ev
      /\ worker'.odd = worker.odd /\ worker'.mod = m
  BY <1>1, <1>2, WorkerAt
<1> HIDE DEF m
<1>4. stdin' \in [Module -> Seq(1 .. MaxEvents)] /\ \A k \in Module : Len(stdin'[k]) <= StdinSize
  <2>1. stdin[m] \in Seq(1 .. MaxEvents) /\ Len(stdin[m]) \in Nat /\ StdinSize \in Nat
    BY <1>1, LenProperties, ModuleRuntimeAssumption DEF Base, Typed, TypeOK
  <2>2. /\ Append(stdin[m], worker.ev) \in Seq(1 .. MaxEvents)
        /\ Len(Append(stdin[m], worker.ev)) = Len(stdin[m]) + 1
    BY <1>1, <2>1, AppendProperties
  <2>3. stdin \in [Module -> Seq(1 .. MaxEvents)] /\ \A k \in Module : Len(stdin[k]) <= StdinSize
    BY DEF Base, Typed, TypeOK
  <2> DEFINE s == Append(stdin[m], worker.ev)
  <2>4. s \in Seq(1 .. MaxEvents) /\ Len(s) <= StdinSize
    BY <1>2, <2>1, <2>2
  <2> HIDE DEF s
  <2>5. stdin' = [stdin EXCEPT ![m] = s]
    BY <1>2 DEF s
  <2> QED BY <1>1, <2>3, <2>4, <2>5
<1>5. sent' \in [Module -> Nat] /\ sent'[m] = sent[m] + 1
      /\ \A k \in Module \ {m} : sent'[k] = sent[k]
  BY <1>1, <1>2 DEF Base, Typed
<1>6. Typed'
  BY <1>2, <1>3, <1>4, <1>5 DEF Base, Typed, TypeOK, Workers
<1>7. Control'
  BY <1>1, <1>2, <1>3 DEF Base, Control, Active
<1>8. NoEventSkipped'
  <2> SUFFICES ASSUME NEW k \in Active'
               PROVE  sent'[k] = IF Pending(k)' THEN taken' - 1 ELSE taken'
    BY DEF NoEventSkipped
  <2>1. /\ k \in Active /\ k \in Module /\ k \in Int /\ m \in Int /\ taken \in Nat
        /\ sent[k] = IF Pending(k) THEN taken - 1 ELSE taken
    <3>1. k \in Active /\ k \in Module
      BY <1>2 DEF Active
    <3>2. k \in Int /\ m \in Int
      BY <1>1, <3>1, ModuleRuntimeAssumption DEF Module
    <3>3. taken \in Nat
      BY DEF Base, Typed
    <3>4. sent[k] = IF Pending(k) THEN taken - 1 ELSE taken
      BY <3>1 DEF Base, NoEventSkipped
    <3> QED BY <3>1, <3>2, <3>3, <3>4
  <2>2. CASE k = m
    <3>1. Pending(k) /\ ~Pending(k)'
      BY <1>1, <1>3, <2>1, <2>2 DEF Pending, m
    <3> QED BY <1>2, <1>5, <2>1, <2>2, <3>1
  <2>3. CASE k # m
    <3>1. Pending(k)' <=> Pending(k)
      BY <1>1, <1>3, <2>1, <2>3 DEF Pending, m
    <3> QED BY <1>2, <1>5, <2>1, <2>3, <3>1
  <2> QED BY <2>2, <2>3
<1> QED BY <1>6, <1>7, <1>8 DEF Base

(* What handle_module_response does about a line: a message leaves the     *)
(* worker where it is, anything else ends the visit.                       *)
LEMMA ReadLineStep ==
    ASSUME Base, ReadLine
    PROVE  LET m == worker.mod
               l == Head(stdout[m])
           IN  /\ worker.at = "read" /\ m \in Module /\ m \in Active /\ stdout[m] # <<>>
               /\ l \in Lines
               /\ \/ Disable /\ ReadAs(l) # "empty" /\ (TooMany \/ Repeated(m, ReadAs(l)))
                  \/ /\ stdout' = [stdout EXCEPT ![m] = Tail(stdout[m])]
                     /\ invalid' \in [Module -> 0 .. MaxInvalid - 1]
                     /\ UNCHANGED <<loaded, state, queue, running, stdin, proc, events,
                                    garbled, taken, sent>>
                     /\ \/ /\ l.kind = "create" /\ ~TooMany
                           /\ worker' = [worker EXCEPT !.responses = worker.responses + 1]
                           /\ \/ published' = [published EXCEPT ![m] = Append(published[m], l.n)]
                              \/ published' = published
                        \/ NextModule /\ published' = published
<1> DEFINE m == worker.mod
           l == Head(stdout[m])
<1>1. worker.at = "read" /\ m \in Module /\ m \in Active /\ stdout[m] # <<>>
  BY DEF ReadLine, Base, Control
<1>2. stdout[m] \in Seq(Lines) /\ l \in Lines /\ l = stdout[m][1] /\ 1 \in 1 .. Len(stdout[m])
  <2>1. stdout[m] \in Seq(Lines)
    BY <1>1 DEF Base, Typed, TypeOK
  <2> QED BY <1>1, <2>1, HeadTailProperties, EmptySeq
<1>3. ReadAs(l) \in {"create", "ok", "bad", "empty"}
  <2>1. l.kind \in Kinds /\ (HasLine(m) => l.kind # "control" \/ ReadAs(l) = "bad")
    BY <1>1, <1>2 DEF ReadLine, Lines, ReadAs, HasLine
  <2>2. l.part # "line" => l.kind \in {"create", "ok"}
    BY <1>1, <1>2 DEF Base, Typed
  <2>3. l.part = "line" => HasLine(m)
    BY <1>1 DEF HasLine
  <2> QED BY <2>1, <2>2, <2>3 DEF ReadAs, Kinds
<1>4. CASE ReadAs(l) # "empty" /\ (TooMany \/ Repeated(m, ReadAs(l)))
  BY <1>1, <1>2, <1>4 DEF ReadLine
<1>5. CASE ~(ReadAs(l) # "empty" /\ (TooMany \/ Repeated(m, ReadAs(l))))
  <2>1. /\ Consume(m) /\ Respond(m, ReadAs(l), l.n)
        /\ UNCHANGED <<loaded, state, queue, running, stdin, proc, events, garbled, taken, sent>>
    BY <1>5 DEF ReadLine
  <2>2. stdout' = [stdout EXCEPT ![m] = Tail(stdout[m])]
    BY <2>1 DEF Consume
  <2>3. invalid \in [Module -> 0 .. MaxInvalid - 1] /\ MaxInvalid \in Nat \ {0}
    BY ModuleRuntimeAssumption DEF Base, Typed, TypeOK
  <2>4. 0 \in 0 .. MaxInvalid - 1
    BY <2>3
  <2>5. CASE ReadAs(l) = "create"
    <3>1. Create(m, l.n) /\ ~TooMany /\ l.kind = "create"
      BY <1>5, <2>1, <2>5 DEF Respond, ReadAs
    <3>2. invalid' = [invalid EXCEPT ![m] = 0]
      BY <3>1 DEF Create
    <3>3. invalid' \in [Module -> 0 .. MaxInvalid - 1]
      BY <2>3, <2>4, <3>2
    <3>4. worker' = [worker EXCEPT !.responses = worker.responses + 1]
      BY <3>1 DEF Create
    <3>5. \/ published' = [published EXCEPT ![m] = Append(published[m], l.n)]
          \/ published' = published
      BY <3>1 DEF Create, Publish
    <3> QED BY <1>1, <1>2, <2>1, <2>2, <3>1, <3>3, <3>4, <3>5
  <2>6. CASE ReadAs(l) # "create"
    <3>1. /\ NextModule /\ published' = published
          /\ invalid' = CASE ReadAs(l) = "ok"    -> [invalid EXCEPT ![m] = 0]
                          [] ReadAs(l) = "bad"   -> [invalid EXCEPT ![m] = invalid[m] + 1]
                          [] ReadAs(l) = "empty" -> invalid
      BY <2>1, <2>6 DEF Respond
    <3>2. invalid' \in [Module -> 0 .. MaxInvalid - 1]
      <4>1. CASE ReadAs(l) = "ok"
        <5>1. invalid' = [invalid EXCEPT ![m] = 0]
          BY <3>1, <4>1
        <5> QED BY <2>3, <2>4, <5>1
      <4>2. CASE ReadAs(l) = "bad"
        <5>1. invalid[m] + 1 < MaxInvalid /\ invalid[m] \in Nat
          BY <1>1, <1>5, <2>3, <4>2 DEF Repeated
        <5>2. invalid' = [invalid EXCEPT ![m] = invalid[m] + 1]
          BY <3>1, <4>2
        <5>3. invalid[m] + 1 \in 0 .. MaxInvalid - 1
          BY <2>3, <5>1
        <5> QED BY <2>3, <5>2, <5>3
      <4>3. CASE ReadAs(l) = "empty"
        BY <2>3, <3>1, <4>3
      <4> QED BY <1>3, <2>6, <4>1, <4>2, <4>3
    <3> QED BY <1>1, <1>2, <2>1, <2>2, <3>1, <3>2
  <2> QED BY <2>5, <2>6
<1> QED BY <1>4, <1>5

(* The lines in one module's pipe change.                                  *)
LEMMA OutputType ==
    ASSUME Typed, NEW m \in Module, NEW s \in Seq(Lines), Len(s) <= StdoutSize,
           \A i \in 1 .. Len(s) : s[i].part # "line" => s[i].kind \in {"create", "ok"},
           stdout' = [stdout EXCEPT ![m] = s]
    PROVE  /\ stdout' \in [Module -> Seq(Lines)]
           /\ \A k \in Module : Len(stdout'[k]) <= StdoutSize
           /\ \A k \in Module : \A i \in 1 .. Len(stdout'[k]) :
                 stdout'[k][i].part # "line" => stdout'[k][i].kind \in {"create", "ok"}
           /\ stdout'[m] = s /\ \A k \in Module \ {m} : stdout'[k] = stdout[k]
<1>1. stdout \in [Module -> Seq(Lines)] /\ \A k \in Module : Len(stdout[k]) <= StdoutSize
  BY DEF Typed, TypeOK
<1>2. stdout'[m] = s /\ \A k \in Module \ {m} : stdout'[k] = stdout[k]
  BY <1>1
<1>3. stdout' \in [Module -> Seq(Lines)] /\ \A k \in Module : Len(stdout'[k]) <= StdoutSize
  BY <1>1
<1>4. \A k \in Module : \A i \in 1 .. Len(stdout'[k]) :
         stdout'[k][i].part # "line" => stdout'[k][i].kind \in {"create", "ok"}
  <2> TAKE k \in Module
  <2>1. CASE k = m
    BY <1>2, <2>1
  <2>2. CASE k # m
    <3>1. stdout'[k] = stdout[k]
      BY <1>2, <2>2
    <3> QED BY <3>1 DEF Typed
  <2> QED BY <2>1, <2>2
<1> QED BY <1>2, <1>3, <1>4

(* The worker takes a line out of the pipe.                                *)
LEMMA ConsumeType ==
    ASSUME Typed, NEW m \in Module, stdout[m] # <<>>,
           stdout' = [stdout EXCEPT ![m] = Tail(stdout[m])]
    PROVE  /\ stdout' \in [Module -> Seq(Lines)]
           /\ \A k \in Module : Len(stdout'[k]) <= StdoutSize
           /\ \A k \in Module : \A i \in 1 .. Len(stdout'[k]) :
                 stdout'[k][i].part # "line" => stdout'[k][i].kind \in {"create", "ok"}
           /\ \A k \in Module \ {m} : stdout'[k] = stdout[k]
           /\ Len(stdout[m]) \in Nat \ {0} /\ Len(stdout'[m]) = Len(stdout[m]) - 1
           /\ \A i \in 1 .. Len(stdout'[m]) : stdout'[m][i] = stdout[m][i + 1]
           /\ Head(stdout[m]) = stdout[m][1]
<1> DEFINE s == Tail(stdout[m])
<1>1. stdout[m] \in Seq(Lines) /\ Len(stdout[m]) <= StdoutSize /\ StdoutSize \in Nat
  BY ModuleRuntimeAssumption DEF Typed, TypeOK
<1>2. /\ s \in Seq(Lines) /\ Len(s) = Len(stdout[m]) - 1 /\ Len(stdout[m]) \in Nat \ {0}
      /\ \A i \in 1 .. Len(s) : s[i] = stdout[m][i + 1]
      /\ Head(stdout[m]) = stdout[m][1]
  BY <1>1, HeadTailProperties, EmptySeq
<1> HIDE DEF s
<1>3. \A i \in 1 .. Len(s) : s[i].part # "line" => s[i].kind \in {"create", "ok"}
  <2> TAKE i \in 1 .. Len(s)
  <2>1. s[i] = stdout[m][i + 1] /\ i + 1 \in 1 .. Len(stdout[m])
    BY <1>2
  <2> QED BY <2>1 DEF Typed
<1>4. stdout' = [stdout EXCEPT ![m] = s] /\ Len(s) <= StdoutSize
  BY <1>1, <1>2 DEF s
<1>5. /\ stdout' \in [Module -> Seq(Lines)]
      /\ \A k \in Module : Len(stdout'[k]) <= StdoutSize
      /\ \A k \in Module : \A i \in 1 .. Len(stdout'[k]) :
            stdout'[k][i].part # "line" => stdout'[k][i].kind \in {"create", "ok"}
      /\ stdout'[m] = s /\ \A k \in Module \ {m} : stdout'[k] = stdout[k]
  BY <1>2, <1>3, <1>4, OutputType
<1> QED BY <1>2, <1>5

LEMMA ReadLineBase == Base /\ ReadLine => Base'
<1> SUFFICES ASSUME Base, ReadLine PROVE Base'
  OBVIOUS
<1> DEFINE m == worker.mod
           l == Head(stdout[m])
<1>1. worker.at = "read" /\ m \in Module /\ m \in Active /\ stdout[m] # <<>> /\ l \in Lines
  BY ReadLineStep
<1>2. CASE Disable
  BY <1>1, <1>2, DisableBase
<1>3. CASE ~Disable
  <2>1. /\ stdout' = [stdout EXCEPT ![m] = Tail(stdout[m])]
        /\ invalid' \in [Module -> 0 .. MaxInvalid - 1]
        /\ UNCHANGED <<loaded, state, queue, running, stdin, proc, events, garbled, taken, sent>>
        /\ \/ /\ ~TooMany /\ worker' = [worker EXCEPT !.responses = worker.responses + 1]
              /\ \/ published' = [published EXCEPT ![m] = Append(published[m], l.n)]
                 \/ published' = published
           \/ NextModule /\ published' = published
    BY <1>3, ReadLineStep
  <2>2. Active' = Active
    BY <2>1 DEF Active
  <2>3. /\ stdout' \in [Module -> Seq(Lines)]
        /\ \A k \in Module : Len(stdout'[k]) <= StdoutSize
        /\ \A k \in Module : \A i \in 1 .. Len(stdout'[k]) :
              stdout'[k][i].part # "line" => stdout'[k][i].kind \in {"create", "ok"}
    BY <1>1, <2>1, ConsumeType DEF Base
  <2>4. published' \in [Module -> Seq(Nat)]
    <3>1. published[m] \in Seq(Nat) /\ l.n \in Nat /\ published \in [Module -> Seq(Nat)]
      BY <1>1 DEF Base, Typed, Lines
    <3>2. Append(published[m], l.n) \in Seq(Nat)
      BY <3>1, AppendProperties
    <3> QED BY <2>1, <3>1, <3>2
  <2>5. worker' \in Workers /\ Control' /\ NoEventSkipped'
    <3>1. CASE NextModule
      BY <1>1, <2>1, <2>2, <3>1, LeaveBase
    <3>2. CASE ~TooMany /\ worker' = [worker EXCEPT !.responses = worker.responses + 1]
      <4>1. worker \in Workers /\ worker.responses + 1 \in 0 .. MaxResponses
        BY <3>2, ModuleRuntimeAssumption, SMTT(30) DEF Base, Typed, TypeOK, Workers, TooMany
      <4>2. /\ worker' \in Workers /\ worker'.at = "read" /\ worker'.ev = worker.ev
            /\ worker'.odd = worker.odd /\ worker'.mod = m
        BY <1>1, <3>2, <4>1, WorkerResponses
      <4>3. Control'
        BY <1>1, <2>1, <2>2, <4>2 DEF Base, Control
      <4>4. NoEventSkipped'
        BY <1>1, <2>1, <2>2, <4>2 DEF Base, NoEventSkipped, Pending
      <4> QED BY <4>2, <4>3, <4>4
    <3> QED BY <2>1, <3>1, <3>2
  <2>6. Typed'
    BY <2>1, <2>3, <2>4, <2>5 DEF Base, Typed, TypeOK, Workers
  <2> QED BY <2>5, <2>6 DEF Base
<1> QED BY <1>2, <1>3

-----------------------------------------------------------------------------
(* Steps of the modules.                                                   *)

(* One more line in the pipe.                                              *)
LEMMA AppendLine ==
    ASSUME Typed, NEW m \in Module, NEW l \in Lines, Len(stdout[m]) < StdoutSize,
           l.part # "line" => l.kind \in {"create", "ok"},
           stdout' = [stdout EXCEPT ![m] = Append(stdout[m], l)]
    PROVE  /\ stdout' \in [Module -> Seq(Lines)]
           /\ \A k \in Module : Len(stdout'[k]) <= StdoutSize
           /\ \A k \in Module : \A i \in 1 .. Len(stdout'[k]) :
                 stdout'[k][i].part # "line" => stdout'[k][i].kind \in {"create", "ok"}
           /\ \A k \in Module \ {m} : stdout'[k] = stdout[k]
           /\ Len(stdout[m]) \in Nat /\ Len(stdout'[m]) = Len(stdout[m]) + 1
           /\ \A i \in 1 .. Len(stdout[m]) : stdout'[m][i] = stdout[m][i]
           /\ stdout'[m][Len(stdout[m]) + 1] = l
<1> DEFINE s == Append(stdout[m], l)
<1>1. stdout[m] \in Seq(Lines) /\ StdoutSize \in Nat /\ Len(stdout[m]) \in Nat
  BY ModuleRuntimeAssumption, LenProperties DEF Typed, TypeOK
<1>2. /\ s \in Seq(Lines) /\ Len(s) = Len(stdout[m]) + 1
      /\ \A i \in 1 .. Len(stdout[m]) : s[i] = stdout[m][i]
      /\ s[Len(stdout[m]) + 1] = l
  BY <1>1, AppendProperties
<1> HIDE DEF s
<1>3. \A i \in 1 .. Len(s) : s[i].part # "line" => s[i].kind \in {"create", "ok"}
  <2> TAKE i \in 1 .. Len(s)
  <2>1. i \in 1 .. Len(stdout[m]) \/ i = Len(stdout[m]) + 1
    BY <1>1, <1>2
  <2> QED BY <1>2, <2>1 DEF Typed
<1>4. stdout' = [stdout EXCEPT ![m] = s] /\ Len(s) <= StdoutSize
  BY <1>1, <1>2 DEF s
<1>5. /\ stdout' \in [Module -> Seq(Lines)]
      /\ \A k \in Module : Len(stdout'[k]) <= StdoutSize
      /\ \A k \in Module : \A i \in 1 .. Len(stdout'[k]) :
            stdout'[k][i].part # "line" => stdout'[k][i].kind \in {"create", "ok"}
      /\ stdout'[m] = s /\ \A k \in Module \ {m} : stdout'[k] = stdout[k]
  BY <1>2, <1>3, <1>4, OutputType
<1> QED BY <1>1, <1>2, <1>5

(* The line that Puts writes.                                              *)
LEMMA PutsLine ==
    ASSUME Typed, NEW m \in Module, NEW kind \in Kinds, NEW part \in {"line", "object", "some"},
           Puts(m, kind, part)
    PROVE  \E l \in Lines :
              /\ l.kind = kind /\ l.part = part /\ (kind = "create" => l.n = proc[m].made + 1)
              /\ stdout' = [stdout EXCEPT ![m] = Append(stdout[m], l)]
              /\ Len(stdout[m]) < StdoutSize
<1> DEFINE n == IF kind = "create" THEN proc[m].made + 1 ELSE 0
           l == [kind |-> kind, n |-> n, part |-> part]
<1>1. n \in Nat /\ (kind = "create" => n = proc[m].made + 1)
  BY DEF Typed, Procs
<1>2. stdout' = [stdout EXCEPT ![m] = Append(stdout[m], l)] /\ Len(stdout[m]) < StdoutSize
  BY DEF Puts
<1> HIDE DEF n
<1>3. l \in Lines /\ l.kind = kind /\ l.part = part /\ l.n = n
  BY <1>1 DEF Lines
<1> QED BY <1>1, <1>2, <1>3

(* What a module's step leaves alone, and what it does to its own pipe and *)
(* process: it reads an event, adds a line, completes one, or exits.       *)
ProcStep(m) ==
    /\ Runs(m)
    /\ UNCHANGED <<loaded, state, invalid, queue, running, worker, events, history>>
    /\ Typed'
    /\ \A k \in Module \ {m} : stdout'[k] = stdout[k] /\ proc'[k] = proc[k]

Reads(m) ==
    /\ stdout'[m] = stdout[m] /\ proc'[m].made = proc[m].made
    /\ m \in Good => /\ ~proc[m].busy /\ proc'[m].busy /\ proc'[m].lines = 0
                     /\ proc'[m].exited = proc[m].exited /\ proc'[m].cut = proc[m].cut

Adds(m) ==
    LET len == Len(stdout[m])
        l   == stdout'[m][len + 1]
    IN  /\ len \in Nat /\ Len(stdout'[m]) = len + 1
        /\ \A i \in 1 .. len : stdout'[m][i] = stdout[m][i]
        /\ l.kind = "create" => l.n = proc[m].made + 1 /\ proc'[m].made = proc[m].made + 1
        /\ l.kind # "create" => proc'[m].made = proc[m].made
        /\ m \in Good =>
              \/ /\ l.kind \in {"create", "ok"} /\ l.part = "line"
                 /\ proc[m].busy /\ proc'[m].lines = proc[m].lines + 1
                 /\ l.kind = "create" => proc[m].lines + 1 < MaxResponses
                 /\ proc'[m].busy <=> l.kind = "create"
                 /\ proc'[m].exited = proc[m].exited /\ proc'[m].cut = proc[m].cut
              \/ proc[m].cut # "no"

Completes(m) ==
    /\ proc'[m].made = proc[m].made /\ Len(stdout'[m]) = Len(stdout[m])
    /\ \A i \in 1 .. Len(stdout[m]) :
          stdout'[m][i].kind = stdout[m][i].kind /\ stdout'[m][i].n = stdout[m][i].n
    /\ m \in Good => proc[m].cut # "no"

Exits(m) == m \notin Good /\ stdout'[m] = stdout[m] /\ proc'[m].made = proc[m].made

LEMMA ProcReadStep ==
    ASSUME Typed, NEW m \in Module, ProcRead(m)
    PROVE  ProcStep(m) /\ Reads(m)
<1> DEFINE n == IF m \in Good THEN 0 ELSE proc[m].lines
<1>1. n \in Nat /\ proc[m] \in Procs /\ proc \in [Module -> Procs]
  BY DEF Typed, Procs
<1> HIDE DEF n
<1>2. proc' = [proc EXCEPT ![m] = [proc[m] EXCEPT !.busy = TRUE, !.lines = n]]
  BY DEF ProcRead, n
<1> DEFINE q == [proc[m] EXCEPT !.busy = TRUE, !.lines = n]
<1>3. /\ q \in Procs /\ q.made = proc[m].made /\ q.lines = n /\ q.busy = TRUE
      /\ q.exited = proc[m].exited /\ q.cut = proc[m].cut
  BY <1>1, ProcType
<1> HIDE DEF q
<1>4. proc' \in [Module -> Procs] /\ proc'[m] = q /\ \A k \in Module \ {m} : proc'[k] = proc[k]
  BY <1>1, <1>2, <1>3 DEF q
<1>5. stdin' \in [Module -> Seq(1 .. MaxEvents)] /\ \A k \in Module : Len(stdin'[k]) <= StdinSize
  <2> DEFINE s == Tail(stdin[m])
  <2>1. /\ stdin \in [Module -> Seq(1 .. MaxEvents)] /\ StdinSize \in Nat
        /\ \A k \in Module : Len(stdin[k]) <= StdinSize
    BY ModuleRuntimeAssumption DEF Typed, TypeOK
  <2>2. stdin[m] \in Seq(1 .. MaxEvents) /\ stdin[m] # <<>> /\ Len(stdin[m]) \in Nat
    BY <2>1, LenProperties DEF ProcRead
  <2>3. s \in Seq(1 .. MaxEvents) /\ Len(s) <= StdinSize
    BY <2>1, <2>2, HeadTailProperties
  <2> HIDE DEF s
  <2>4. stdin' = [stdin EXCEPT ![m] = s]
    BY DEF ProcRead, s
  <2> QED BY <2>1, <2>3, <2>4
<1>6. Typed'
  BY <1>4, <1>5 DEF ProcRead, Typed, TypeOK, history
<1>7. Reads(m)
  BY <1>3, <1>4 DEF ProcRead, Reads, n
<1> QED BY <1>4, <1>6, <1>7 DEF ProcRead, ProcStep

LEMMA ProcAnswerStep ==
    ASSUME Typed, NEW m \in Module, ProcAnswer(m)
    PROVE  ProcStep(m) /\ Adds(m)
<1>1. PICK kind \in {"create", "ok"} :
         /\ kind = "create" => proc[m].lines + 1 < MaxResponses
         /\ Puts(m, kind, "line")
         /\ proc' = [proc EXCEPT ![m] =
               [proc[m] EXCEPT !.lines = proc[m].lines + 1, !.made = Made(m, kind),
                               !.busy = (kind = "create")]]
  BY DEF ProcAnswer
<1> DEFINE a == proc[m].lines + 1
           b == Made(m, kind)
           c == (kind = "create")
           q == [proc[m] EXCEPT !.lines = a, !.made = b, !.busy = c]
<1>2. /\ a \in Nat /\ b \in Nat /\ c \in BOOLEAN /\ proc[m] \in Procs /\ proc \in [Module -> Procs]
      /\ a = proc[m].lines + 1 /\ (c <=> kind = "create")
      /\ b = proc[m].made + (IF kind = "create" THEN 1 ELSE 0)
  BY DEF Typed, Procs, Made
<1>3. proc' = [proc EXCEPT ![m] = q]
  BY <1>1
<1> HIDE DEF a, b, c
<1>4. /\ q \in Procs /\ q.made = b /\ q.lines = a /\ q.busy = c
      /\ q.exited = proc[m].exited /\ q.cut = proc[m].cut
  <2>1. CASE c = TRUE
    <3>1. q = [proc[m] EXCEPT !.lines = a, !.made = b, !.busy = TRUE]
      BY <2>1
    <3> QED BY <1>2, <2>1, <3>1 DEF Procs
  <2>2. CASE c = FALSE
    <3>1. q = [proc[m] EXCEPT !.lines = a, !.made = b, !.busy = FALSE]
      BY <2>2
    <3> QED BY <1>2, <2>2, <3>1 DEF Procs
  <2> QED BY <1>2, <2>1, <2>2
<1> HIDE DEF q
<1>5. proc' \in [Module -> Procs] /\ proc'[m] = q /\ \A k \in Module \ {m} : proc'[k] = proc[k]
  BY <1>2, <1>3, <1>4
<1>6. PICK l \in Lines :
         /\ l.kind = kind /\ l.part = "line" /\ (kind = "create" => l.n = proc[m].made + 1)
         /\ stdout' = [stdout EXCEPT ![m] = Append(stdout[m], l)]
         /\ Len(stdout[m]) < StdoutSize
  BY <1>1, PutsLine DEF Kinds
<1>7. /\ stdout' \in [Module -> Seq(Lines)]
      /\ \A k \in Module : Len(stdout'[k]) <= StdoutSize
      /\ \A k \in Module : \A i \in 1 .. Len(stdout'[k]) :
            stdout'[k][i].part # "line" => stdout'[k][i].kind \in {"create", "ok"}
      /\ \A k \in Module \ {m} : stdout'[k] = stdout[k]
      /\ Len(stdout[m]) \in Nat /\ Len(stdout'[m]) = Len(stdout[m]) + 1
      /\ \A i \in 1 .. Len(stdout[m]) : stdout'[m][i] = stdout[m][i]
      /\ stdout'[m][Len(stdout[m]) + 1] = l
  BY <1>6, AppendLine
<1>8. UNCHANGED <<loaded, state, invalid, queue, running, worker, stdin, events, history>> /\ Runs(m)
  BY <1>1 DEF Puts
<1>9. Typed'
  BY <1>5, <1>7, <1>8 DEF Typed, TypeOK, history
<1>10. Adds(m)
  <2>1. proc[m].made \in Nat /\ proc[m].busy /\ proc[m].lines \in Nat
    BY <1>2 DEF ProcAnswer, Procs
  <2>2. /\ kind = "create" => proc'[m].made = proc[m].made + 1
        /\ kind # "create" => proc'[m].made = proc[m].made
        /\ proc'[m].lines = proc[m].lines + 1 /\ (proc'[m].busy <=> kind = "create")
        /\ proc'[m].exited = proc[m].exited /\ proc'[m].cut = proc[m].cut
    BY <1>2, <1>4, <1>5, <2>1
  <2> QED BY <1>1, <1>6, <1>7, <2>1, <2>2 DEF Adds
<1> QED BY <1>5, <1>7, <1>8, <1>9, <1>10 DEF ProcStep

LEMMA ProcWriteStep ==
    ASSUME Typed, NEW m \in Module, ProcWrite(m)
    PROVE  ProcStep(m) /\ Adds(m) /\ m \notin Good
<1>0. m \notin Good
  BY DEF ProcWrite
<1>1. PICK kind \in Kinds, part \in {"line", "object", "some"} :
         /\ kind \notin {"create", "ok"} => part = "line"
         /\ Puts(m, kind, part)
         /\ proc' = [proc EXCEPT ![m] =
               [proc[m] EXCEPT !.lines = proc[m].lines + 1, !.made = Made(m, kind),
                               !.cut = IF part = "line" THEN "no" ELSE part]]
  BY DEF ProcWrite
<1> DEFINE a == proc[m].lines + 1
           b == Made(m, kind)
           c == IF part = "line" THEN "no" ELSE part
           q == [proc[m] EXCEPT !.lines = a, !.made = b, !.cut = c]
<1>2. /\ a \in Nat /\ b \in Nat /\ proc[m] \in Procs /\ proc \in [Module -> Procs]
      /\ b = proc[m].made + (IF kind = "create" THEN 1 ELSE 0)
  BY DEF Typed, Procs, Made
<1>3. c \in {"no", "object", "some"}
  OBVIOUS
<1>4. proc' = [proc EXCEPT ![m] = q]
  BY <1>1
<1> HIDE DEF a, b, c
<1>5. q \in Procs /\ q.made = b
  BY <1>2, <1>3 DEF Procs
<1> HIDE DEF q
<1>6. proc' \in [Module -> Procs] /\ proc'[m] = q /\ \A k \in Module \ {m} : proc'[k] = proc[k]
  BY <1>2, <1>4, <1>5
<1>7. PICK l \in Lines :
         /\ l.kind = kind /\ l.part = part /\ (kind = "create" => l.n = proc[m].made + 1)
         /\ stdout' = [stdout EXCEPT ![m] = Append(stdout[m], l)]
         /\ Len(stdout[m]) < StdoutSize
  BY <1>1, PutsLine
<1>8. /\ stdout' \in [Module -> Seq(Lines)]
      /\ \A k \in Module : Len(stdout'[k]) <= StdoutSize
      /\ \A k \in Module : \A i \in 1 .. Len(stdout'[k]) :
            stdout'[k][i].part # "line" => stdout'[k][i].kind \in {"create", "ok"}
      /\ \A k \in Module \ {m} : stdout'[k] = stdout[k]
      /\ Len(stdout[m]) \in Nat /\ Len(stdout'[m]) = Len(stdout[m]) + 1
      /\ \A i \in 1 .. Len(stdout[m]) : stdout'[m][i] = stdout[m][i]
      /\ stdout'[m][Len(stdout[m]) + 1] = l
  <2>1. l.part # "line" => l.kind \in {"create", "ok"}
    BY <1>1, <1>7
  <2> QED BY <1>7, <2>1, AppendLine
<1>9. UNCHANGED <<loaded, state, invalid, queue, running, worker, stdin, events, history>> /\ Runs(m)
  BY <1>1 DEF Puts
<1>10. Typed'
  BY <1>6, <1>8, <1>9 DEF Typed, TypeOK, history
<1>11. Adds(m)
  <2>1. /\ kind = "create" => proc'[m].made = proc[m].made + 1
        /\ kind # "create" => proc'[m].made = proc[m].made
    <3>1. proc[m].made \in Nat
      BY <1>2 DEF Procs
    <3> QED BY <1>2, <1>5, <1>6, <3>1
  <2> QED BY <1>0, <1>7, <1>8, <2>1 DEF Adds
<1> QED BY <1>0, <1>6, <1>8, <1>9, <1>10, <1>11 DEF ProcStep

LEMMA ProcWriteRestStep ==
    ASSUME Typed, NEW m \in Module, ProcWriteRest(m)
    PROVE  ProcStep(m) /\ proc[m].cut # "no" /\ (Adds(m) \/ Completes(m))
<1> DEFINE out   == stdout[m]
           last  == out[Len(out)]
           waits == out # <<>> /\ last.part # "line"
           rest  == [kind |-> IF proc[m].cut = "object" THEN "empty" ELSE "bad",
                     n |-> 0, part |-> "line"]
           whole == [last EXCEPT !.part = "line"]
           q     == [proc[m] EXCEPT !.cut = "no"]
<1>1. proc \in [Module -> Procs] /\ proc[m] \in Procs /\ out \in Seq(Lines)
  BY DEF Typed, TypeOK
<1>2. /\ Runs(m) /\ proc[m].cut # "no" /\ (waits \/ Len(out) < StdoutSize)
      /\ proc' = [proc EXCEPT ![m] = q]
      /\ UNCHANGED <<loaded, state, invalid, queue, running, worker, stdin, events, history>>
      /\ stdout' = [stdout EXCEPT ![m] = IF waits THEN [out EXCEPT ![Len(out)] = whole]
                                         ELSE Append(out, rest)]
  BY DEF ProcWriteRest
<1>3. q \in Procs /\ q.made = proc[m].made
  BY <1>1, ProcType
<1> HIDE DEF q
<1>4. proc' \in [Module -> Procs] /\ proc'[m] = q /\ \A k \in Module \ {m} : proc'[k] = proc[k]
  BY <1>1, <1>2, <1>3
<1>5. CASE waits
  <2> DEFINE s == [out EXCEPT ![Len(out)] = whole]
  <2>1. Len(out) \in 1 .. Len(out) /\ last \in Lines
    BY <1>1, <1>5, EmptySeq, ElementOfSeq
  <2> HIDE DEF last
  <2>2. whole \in Lines /\ whole.kind = last.kind /\ whole.n = last.n /\ whole.part = "line"
    BY <2>1 DEF Lines
  <2> HIDE DEF whole
  <2>3. /\ s \in Seq(Lines) /\ Len(s) = Len(out)
        /\ \A j \in 1 .. Len(out) : s[j] = IF j = Len(out) THEN whole ELSE out[j]
    BY <1>1, <2>1, <2>2, ExceptSeq
  <2>4. stdout' = [stdout EXCEPT ![m] = s]
    BY <1>2, <1>5
  <2> HIDE DEF s
  <2>5. \A i \in 1 .. Len(s) : s[i].part # "line" => s[i].kind \in {"create", "ok"}
    BY <2>2, <2>3 DEF Typed
  <2>6. Len(s) <= StdoutSize
    BY <2>3 DEF Typed, TypeOK
  <2>7. /\ stdout' \in [Module -> Seq(Lines)]
        /\ \A k \in Module : Len(stdout'[k]) <= StdoutSize
        /\ \A k \in Module : \A i \in 1 .. Len(stdout'[k]) :
              stdout'[k][i].part # "line" => stdout'[k][i].kind \in {"create", "ok"}
        /\ stdout'[m] = s /\ \A k \in Module \ {m} : stdout'[k] = stdout[k]
    BY <2>3, <2>4, <2>5, <2>6, OutputType
  <2>8. Typed'
    BY <1>2, <1>4, <2>7 DEF Typed, TypeOK, history
  <2>9. Completes(m)
    <3>1. \A i \in 1 .. Len(out) : s[i].kind = out[i].kind /\ s[i].n = out[i].n
      BY <2>2, <2>3 DEF last
    <3> QED BY <1>2, <1>3, <1>4, <2>3, <2>7, <3>1 DEF Completes
  <2> QED BY <1>2, <1>4, <2>7, <2>8, <2>9 DEF ProcStep
<1>6. CASE ~waits
  <2>1. rest \in Lines /\ rest.part = "line" /\ rest.kind # "create"
    BY DEF Lines, Kinds
  <2>2. stdout' = [stdout EXCEPT ![m] = Append(stdout[m], rest)] /\ Len(stdout[m]) < StdoutSize
    BY <1>2, <1>6
  <2> HIDE DEF rest
  <2>3. /\ stdout' \in [Module -> Seq(Lines)]
        /\ \A k \in Module : Len(stdout'[k]) <= StdoutSize
        /\ \A k \in Module : \A i \in 1 .. Len(stdout'[k]) :
              stdout'[k][i].part # "line" => stdout'[k][i].kind \in {"create", "ok"}
        /\ \A k \in Module \ {m} : stdout'[k] = stdout[k]
        /\ Len(stdout[m]) \in Nat /\ Len(stdout'[m]) = Len(stdout[m]) + 1
        /\ \A i \in 1 .. Len(stdout[m]) : stdout'[m][i] = stdout[m][i]
        /\ stdout'[m][Len(stdout[m]) + 1] = rest
    BY <2>1, <2>2, AppendLine
  <2>4. Typed'
    BY <1>2, <1>4, <2>3 DEF Typed, TypeOK, history
  <2>5. Adds(m)
    BY <1>2, <1>3, <1>4, <2>1, <2>3 DEF Adds
  <2> QED BY <1>2, <1>4, <2>3, <2>4, <2>5 DEF ProcStep
<1> QED BY <1>5, <1>6

LEMMA ProcExitStep ==
    ASSUME Typed, NEW m \in Module, ProcExit(m)
    PROVE  ProcStep(m) /\ Exits(m)
<1> DEFINE q == [proc[m] EXCEPT !.exited = TRUE]
<1>1. q \in Procs /\ q.made = proc[m].made /\ proc \in [Module -> Procs]
  BY ProcType DEF Typed
<1>2. /\ m \notin Good /\ Runs(m) /\ proc' = [proc EXCEPT ![m] = q]
      /\ UNCHANGED <<loaded, state, invalid, queue, running, worker, stdin, stdout, events, history>>
  BY DEF ProcExit
<1> HIDE DEF q
<1>3. proc' \in [Module -> Procs] /\ proc'[m] = q /\ \A k \in Module \ {m} : proc'[k] = proc[k]
  BY <1>1, <1>2
<1>4. Typed'
  BY <1>2, <1>3 DEF Typed, TypeOK, history
<1> QED BY <1>1, <1>2, <1>3, <1>4 DEF ProcStep, Exits

LEMMA ProcStepBase ==
    ASSUME Base, NEW m \in Module, ProcStep(m)
    PROVE  Base'
<1>1. Typed'
  BY DEF ProcStep
<1>2. Control' /\ NoEventSkipped'
  BY DEF Base, ProcStep, Control, NoEventSkipped, Pending, Active, history
<1> QED BY <1>1, <1>2 DEF Base

-----------------------------------------------------------------------------
(* Every step keeps the types and the worker on its way.                   *)

LEMMA BaseInit == Init => Base
<1> SUFFICES ASSUME Init PROVE Base
  OBVIOUS
<1> DEFINE p == [exited |-> FALSE, busy |-> FALSE, lines |-> 0, made |-> 0, cut |-> "no"]
<1>1. p \in Procs
  BY DEF Procs
<1> HIDE DEF p
<1>2. proc = [m \in Module |-> p]
  BY DEF Init, p
<1>3. worker \in Workers /\ worker.at = "none" /\ worker.odd = FALSE
  BY ModuleRuntimeAssumption DEF Init, NoWork, Workers
<1>4. 0 \in 0 .. MaxInvalid - 1 /\ 0 \in 0 .. N + 1 /\ 0 \in 0 .. MaxEvents
      /\ 0 <= QueueLimit /\ 0 <= StdinSize /\ 0 <= StdoutSize
  BY ModuleRuntimeAssumption
<1>5. TypeOK
  <2>1. stdin \in [Module -> Seq(1 .. MaxEvents)] /\ stdout \in [Module -> Seq(Lines)]
    BY DEF Init
  <2>2. \A m \in Module : Len(stdin[m]) = 0 /\ Len(stdout[m]) = 0
    BY DEF Init
  <2>3. queue \in Seq(1 .. MaxEvents) /\ Len(queue) = 0
    BY DEF Init
  <2> QED BY <1>3, <1>4, <2>1, <2>2, <2>3 DEF Init, TypeOK, Workers
<1>6. Typed
  <2>1. published \in [Module -> Seq(Nat)] /\ sent \in [Module -> Nat]
    BY DEF Init
  <2>2. \A m \in Module : Len(stdout[m]) = 0
    BY DEF Init
  <2>3. proc \in [Module -> Procs] /\ taken \in Nat
    BY <1>1, <1>2 DEF Init
  <2>4. \A m \in Module : \A i \in 1 .. Len(stdout[m]) : FALSE
    BY <2>2
  <2> QED BY <1>5, <2>1, <2>3, <2>4 DEF Typed
<1>7. Control /\ NoEventSkipped
  BY <1>3 DEF Init, Control, NoEventSkipped, Active
<1> QED BY <1>6, <1>7 DEF Base

LEMMA BaseStep == Base /\ [Next]_vars => Base'
<1> SUFFICES ASSUME Base, [Next]_vars PROVE Base'
  OBVIOUS
<1>1. CASE LoadModule \/ StartWorker \/ Shutdown \/ ShutdownJoined \/ Post
  BY <1>1, LoadModuleBase, StartWorkerBase, ShutdownBase, PostBase
<1>2. CASE WorkerStep
  <2>1. CASE WriteFails \/ ReadFails
    BY <2>1, DisableBase DEF WriteFails, ReadFails
  <2>2. CASE CheckRunning \/ Dequeue \/ WriteEvent
    BY <2>2, CheckRunningBase, DequeueBase, WriteEventBase
  <2>3. CASE SkipModule \/ ReadTimeout \/ ReadLine
    BY <2>3, SkipModuleBase, ReadLineBase
  <2> QED BY <1>2, <2>1, <2>2, <2>3 DEF WorkerStep
<1>3. ASSUME NEW m \in Module, \/ ProcRead(m) \/ ProcAnswer(m)
                               \/ ProcWrite(m) \/ ProcWriteRest(m) \/ ProcExit(m)
      PROVE  Base'
  <2>1. Typed
    BY DEF Base
  <2>2. ProcStep(m)
    BY <1>3, <2>1, ProcReadStep, ProcAnswerStep, ProcWriteStep, ProcWriteRestStep, ProcExitStep
  <2> QED BY <2>2, ProcStepBase
<1>4. CASE UNCHANGED vars
  <2>1. Typed'
    BY <1>4 DEF Base, vars, pipes, history, Typed, TypeOK
  <2>2. Control' /\ NoEventSkipped'
    BY <1>4 DEF Base, vars, pipes, history, Control, NoEventSkipped, Pending, Active
  <2> QED BY <2>1, <2>2 DEF Base
<1> QED BY <1>1, <1>2, <1>3, <1>4 DEF Next

LEMMA BaseInvariant == Spec => []Base
  BY BaseInit, BaseStep, PTL DEF Spec

(* Queue, pipes, worker and counters stay within their limits: the queue   *)
(* holds at most TNT_MODULE_QUEUE_LIMIT events, no visit accepts more than *)
(* TNT_MODULE_MAX_RESPONSES_PER_EVENT responses, and no module in use has  *)
(* TNT_MODULE_MAX_INVALID_RESPONSES invalid ones.                          *)
THEOREM ModuleRuntimeTypes == Spec => []TypeOK
<1>1. Base => TypeOK
  BY DEF Base, Typed
<1> QED BY <1>1, BaseInvariant, PTL

(* deliver_message_to_module: an enabled module is written every event     *)
(* that leaves the queue, whichever modules before it are disabled.        *)
THEOREM EveryEventOffered == Spec => []NoEventSkipped
<1>1. Base => NoEventSkipped
  BY DEF Base
<1> QED BY <1>1, BaseInvariant, PTL

-----------------------------------------------------------------------------
(* Messages are published in order.                                        *)

OrderInv == \A m \in Module : InOrder(m)

(* What a step may do to the messages of m.                                *)
Same(m) ==
    /\ stdout'[m] = stdout[m] /\ published'[m] = published[m]
    /\ proc'[m].made = proc[m].made

Closes(m) ==
    /\ stdout'[m] = <<>> /\ published'[m] = published[m]
    /\ proc'[m].made = proc[m].made

Consumes(m) ==
    /\ Len(stdout[m]) \in Nat \ {0} /\ Len(stdout'[m]) = Len(stdout[m]) - 1
    /\ \A i \in 1 .. Len(stdout'[m]) : stdout'[m][i] = stdout[m][i + 1]
    /\ proc'[m].made = proc[m].made
    /\ \/ published'[m] = published[m]
       \/ /\ stdout[m][1].kind = "create" /\ stdout[m][1].n \in Nat
          /\ published'[m] = Append(published[m], stdout[m][1].n)

LEMMA DisableOutput ==
    ASSUME Typed, Disable, NEW m \in Module
    PROVE  Same(m) \/ Closes(m)
<1>1. Close({worker.mod}) /\ published' = published
  BY DEF Disable, history
<1> QED BY <1>1, CloseStep DEF Same, Closes

LEMMA ReadLineOutput ==
    ASSUME Base, ReadLine, NEW m \in Module
    PROVE  Same(m) \/ Closes(m) \/ Consumes(m)
<1> DEFINE w == worker.mod
           l == Head(stdout[w])
<1>1. w \in Module /\ stdout[w] # <<>> /\ l \in Lines /\ Typed
  BY ReadLineStep DEF Base
<1>2. CASE Disable
  BY <1>1, <1>2, DisableOutput
<1>3. CASE ~Disable
  <2>1. /\ stdout' = [stdout EXCEPT ![w] = Tail(stdout[w])]
        /\ proc' = proc
        /\ \/ /\ l.kind = "create"
              /\ published' = [published EXCEPT ![w] = Append(published[w], l.n)]
           \/ published' = published
    BY <1>3, ReadLineStep
  <2>2. /\ \A k \in Module \ {w} : stdout'[k] = stdout[k]
        /\ Len(stdout[w]) \in Nat \ {0} /\ Len(stdout'[w]) = Len(stdout[w]) - 1
        /\ \A i \in 1 .. Len(stdout'[w]) : stdout'[w][i] = stdout[w][i + 1]
        /\ l = stdout[w][1]
    BY <1>1, <2>1, ConsumeType
  <2>3. l.n \in Nat /\ published \in [Module -> Seq(Nat)]
    BY <1>1 DEF Lines, Typed
  <2> HIDE DEF w, l
  <2>4. CASE m = w
    BY <2>1, <2>2, <2>3, <2>4 DEF Consumes
  <2>5. CASE m # w
    BY <2>1, <2>2, <2>3, <2>5 DEF Same
  <2> QED BY <2>4, <2>5
<1> QED BY <1>2, <1>3

LEMMA OutputSteps ==
    ASSUME Base, [Next]_vars, NEW m \in Module
    PROVE  \/ Same(m) \/ Closes(m) \/ Consumes(m)
           \/ (Adds(m) \/ Completes(m)) /\ published'[m] = published[m]
<1>0. Typed
  BY DEF Base
<1>1. CASE LoadModule \/ Shutdown \/ Post
  BY <1>1 DEF LoadModule, Shutdown, Post, Same, pipes, history
<1>2. CASE StartWorker \/ ShutdownJoined
  <2>1. published' = published /\ (Close(Active) \/ UNCHANGED pipes)
    BY <1>2 DEF StartWorker, ShutdownJoined, history
  <2> QED BY <1>0, <2>1, CloseStep DEF Same, Closes, pipes
<1>3. CASE CheckRunning \/ Dequeue \/ SkipModule \/ WriteEvent \/ ReadTimeout
  BY <1>3 DEF CheckRunning, Dequeue, SkipModule, WriteEvent, ReadTimeout, Same, pipes, history
<1>4. CASE WriteFails \/ ReadFails
  BY <1>0, <1>4, DisableOutput DEF WriteFails, ReadFails
<1>5. CASE ReadLine
  BY <1>5, ReadLineOutput
<1>6. ASSUME NEW k \in Module, ProcStep(k), Reads(k) \/ Adds(k) \/ Completes(k) \/ Exits(k)
      PROVE  Same(m) \/ ((Adds(m) \/ Completes(m)) /\ published'[m] = published[m])
  <2>1. published' = published
    BY <1>6 DEF ProcStep, history
  <2>2. CASE k = m
    BY <1>6, <2>1, <2>2 DEF Reads, Exits, Same
  <2>3. CASE k # m
    BY <1>6, <2>1, <2>3 DEF ProcStep, Same
  <2> QED BY <2>2, <2>3
<1>7. ASSUME NEW k \in Module, \/ ProcRead(k) \/ ProcAnswer(k)
                               \/ ProcWrite(k) \/ ProcWriteRest(k) \/ ProcExit(k)
      PROVE  ProcStep(k) /\ (Reads(k) \/ Adds(k) \/ Completes(k) \/ Exits(k))
  BY <1>0, <1>7, ProcReadStep, ProcAnswerStep, ProcWriteStep, ProcWriteRestStep, ProcExitStep
<1>8. CASE UNCHANGED vars
  BY <1>8 DEF vars, pipes, history, Same
<1> QED BY <1>1, <1>2, <1>3, <1>4, <1>5, <1>6, <1>7, <1>8 DEF Next, WorkerStep

LEMMA OrderStep == Base /\ OrderInv /\ [Next]_vars => OrderInv'
<1> SUFFICES ASSUME Base, OrderInv, [Next]_vars, NEW m \in Module PROVE InOrder(m)'
  BY DEF OrderInv
<1> DEFINE out  == stdout[m]
           pub  == published[m]
           made == proc[m].made
<1>1. /\ out \in Seq(Lines) /\ Len(out) \in Nat /\ pub \in Seq(Nat) /\ Len(pub) \in Nat
      /\ made \in Nat /\ InOrder(m)
  BY LenProperties DEF Base, Typed, TypeOK, Procs, OrderInv
<1>2. /\ \A i \in 1 .. Len(out) : out[i].n \in Nat
      /\ \A i \in 1 .. Len(pub) : pub[i] \in Nat
  <2>1. \A i \in 1 .. Len(out) : out[i] \in Lines
    BY <1>1, ElementOfSeq
  <2>2. \A i \in 1 .. Len(pub) : pub[i] \in Nat
    BY <1>1, ElementOfSeq
  <2>3. \A l \in Lines : l.n \in Nat
    BY DEF Lines
  <2> QED BY <2>1, <2>2, <2>3
<1>3. CASE Same(m)
  BY <1>1, <1>3 DEF InOrder, Same
<1>4. CASE Closes(m)
  <2>1. Len(stdout'[m]) = 0
    BY <1>4 DEF Closes
  <2> QED BY <1>1, <1>4, <2>1 DEF InOrder, Closes
<1>5. CASE Consumes(m)
  <2>1. /\ Len(out) \in Nat \ {0} /\ Len(stdout'[m]) = Len(out) - 1
        /\ \A i \in 1 .. Len(stdout'[m]) : i + 1 \in 1 .. Len(out) /\ stdout'[m][i] = out[i + 1]
        /\ proc'[m].made = made
    BY <1>5 DEF Consumes
  <2>2. CASE published'[m] = pub
    <3>1. /\ \A i, j \in 1 .. Len(pub) : i < j => pub[i] < pub[j]
          /\ \A i \in 1 .. Len(pub) : pub[i] <= made
          /\ \A i \in 1 .. Len(out) : out[i].kind = "create" =>
                out[i].n <= made /\ \A k \in 1 .. Len(pub) : pub[k] < out[i].n
          /\ \A i, j \in 1 .. Len(out) :
                out[i].kind = "create" /\ out[j].kind = "create" /\ i < j => out[i].n < out[j].n
      BY <1>1 DEF InOrder
    <3>2. \A i \in 1 .. Len(stdout'[m]) : stdout'[m][i].kind = "create" =>
             stdout'[m][i].n <= made /\ \A k \in 1 .. Len(pub) : pub[k] < stdout'[m][i].n
      BY <2>1, <3>1
    <3>3. \A i, j \in 1 .. Len(stdout'[m]) :
             stdout'[m][i].kind = "create" /\ stdout'[m][j].kind = "create" /\ i < j
                => stdout'[m][i].n < stdout'[m][j].n
      <4> TAKE i, j \in 1 .. Len(stdout'[m])
      <4>1. i + 1 \in 1 .. Len(out) /\ stdout'[m][i] = out[i + 1]
        BY <2>1
      <4>2. j + 1 \in 1 .. Len(out) /\ stdout'[m][j] = out[j + 1]
        BY <2>1
      <4>3. i < j => i + 1 < j + 1
        OBVIOUS
      <4> QED BY <3>1, <4>1, <4>2, <4>3
    <3> QED BY <2>1, <2>2, <3>1, <3>2, <3>3 DEF InOrder
  <2>3. CASE out[1].kind = "create" /\ published'[m] = Append(pub, out[1].n)
    <3> DEFINE len == Len(pub)
               new == published'[m]
    <3>1. /\ Len(new) = len + 1 /\ len \in Nat /\ new[len + 1] = out[1].n
          /\ \A i \in 1 .. len : new[i] = pub[i]
          /\ 1 \in 1 .. Len(out)
      BY <1>1, <1>2, <2>1, <2>3, AppendProperties
    <3>2. \A i \in 1 .. len + 1 : i \in 1 .. len \/ i = len + 1
      BY <3>1
    <3>3. \A i, j \in 1 .. len : i < j => pub[i] < pub[j]
      BY <1>1 DEF InOrder
    <3>4. \A i \in 1 .. len : pub[i] < out[1].n /\ pub[i] <= made
      BY <1>1, <2>3, <3>1 DEF InOrder
    <3>5. out[1].n <= made
      BY <1>1, <2>3, <3>1 DEF InOrder
    <3>6. \A i \in 2 .. Len(out) : out[i].kind = "create" =>
             /\ out[1].n < out[i].n /\ out[i].n <= made
             /\ \A k \in 1 .. len : pub[k] < out[i].n
      BY <1>1, <2>3, <3>1 DEF InOrder
    <3>7. \A i, j \in 1 .. Len(out) :
             out[i].kind = "create" /\ out[j].kind = "create" /\ i < j => out[i].n < out[j].n
      BY <1>1 DEF InOrder
    <3> HIDE DEF len, new
    <3>8. \A i, j \in 1 .. len + 1 : i < j => new[i] < new[j]
      BY <1>2, <3>1, <3>2, <3>3, <3>4 DEF len
    <3>9. \A i \in 1 .. len + 1 : new[i] <= made
      BY <3>1, <3>2, <3>4, <3>5
    <3>10. \A i \in 1 .. Len(stdout'[m]) : stdout'[m][i].kind = "create" =>
              /\ stdout'[m][i].n <= made
              /\ \A k \in 1 .. len + 1 : new[k] < stdout'[m][i].n
      BY <2>1, <3>1, <3>2, <3>6, SMTT(30)
    <3>11. \A i, j \in 1 .. Len(stdout'[m]) :
              stdout'[m][i].kind = "create" /\ stdout'[m][j].kind = "create" /\ i < j
                 => stdout'[m][i].n < stdout'[m][j].n
      BY <2>1, <3>7, SMTT(30)
    <3> QED BY <2>1, <3>1, <3>8, <3>9, <3>10, <3>11 DEF InOrder, new
  <2> QED BY <1>5, <2>2, <2>3 DEF Consumes
<1>6. CASE Adds(m) /\ published'[m] = pub
  <2> DEFINE len == Len(out)
             l   == stdout'[m][len + 1]
  <2>1. /\ Len(stdout'[m]) = len + 1 /\ len \in Nat
        /\ \A i \in 1 .. len : stdout'[m][i] = out[i]
        /\ l.kind = "create" => l.n = made + 1
        /\ proc'[m].made >= made /\ (l.kind = "create" => proc'[m].made = made + 1)
        /\ proc'[m].made \in Nat
    BY <1>1, <1>6 DEF Adds
  <2>2. \A i \in 1 .. len + 1 : i \in 1 .. len \/ i = len + 1
    BY <2>1
  <2>3. /\ \A i, j \in 1 .. Len(pub) : i < j => pub[i] < pub[j]
        /\ \A i \in 1 .. Len(pub) : pub[i] <= made
        /\ \A i \in 1 .. len : out[i].kind = "create" =>
              /\ out[i].n <= made
              /\ \A k \in 1 .. Len(pub) : pub[k] < out[i].n
        /\ \A i, j \in 1 .. len :
              out[i].kind = "create" /\ out[j].kind = "create" /\ i < j => out[i].n < out[j].n
    BY <1>1 DEF InOrder
  <2> HIDE DEF len, l
  <2>4. \A i \in 1 .. Len(pub) : pub[i] <= proc'[m].made
    BY <1>1, <1>2, <2>1, <2>3, SMTT(30)
  <2>5. \A i \in 1 .. len + 1 : stdout'[m][i].kind = "create" =>
           /\ stdout'[m][i].n <= proc'[m].made
           /\ \A k \in 1 .. Len(pub) : pub[k] < stdout'[m][i].n
    <3> TAKE i \in 1 .. len + 1
    <3>1. CASE i \in 1 .. len
      <4>1. stdout'[m][i] = out[i] /\ out[i].n \in Nat
        BY <1>2, <2>1, <3>1 DEF len
      <4>2. made \in Nat /\ proc'[m].made \in Nat /\ made <= proc'[m].made
        BY <1>1, <2>1
      <4>3. out[i].kind = "create" =>
               out[i].n <= made /\ \A k \in 1 .. Len(pub) : pub[k] < out[i].n
        BY <2>3, <3>1
      <4> HIDE DEF out, made
      <4> QED BY <4>1, <4>2, <4>3
    <3>2. CASE i = len + 1
      <4>1. stdout'[m][i] = l
        BY <3>2 DEF l
      <4>2. l.kind = "create" => l.n = made + 1 /\ proc'[m].made = made + 1
        BY <2>1
      <4>3. /\ \A k \in 1 .. Len(pub) : pub[k] <= made /\ pub[k] \in Nat
            /\ made \in Nat
        BY <1>1, <1>2, <2>3
      <4> HIDE DEF made, pub
      <4> QED BY <4>1, <4>2, <4>3
    <3> QED BY <2>2, <3>1, <3>2
  <2>6. \A i, j \in 1 .. len + 1 :
           stdout'[m][i].kind = "create" /\ stdout'[m][j].kind = "create" /\ i < j
              => stdout'[m][i].n < stdout'[m][j].n
    <3> TAKE i, j \in 1 .. len + 1
    <3>1. CASE j \in 1 .. len /\ i \in 1 .. len
      <4>1. stdout'[m][i] = out[i] /\ stdout'[m][j] = out[j]
        BY <2>1, <3>1
      <4> QED BY <2>3, <3>1, <4>1
    <3>2. CASE j = len + 1 /\ i \in 1 .. len
      <4>1. stdout'[m][j] = l /\ stdout'[m][i] = out[i]
        BY <2>1, <3>2 DEF l
      <4>2. out[i].kind = "create" => out[i].n <= made /\ out[i].n \in Nat
        BY <1>2, <2>3, <3>2 DEF len
      <4> QED BY <1>1, <2>1, <4>1, <4>2
    <3>3. CASE i = len + 1
      BY <2>1, <3>3
    <3> QED BY <2>2, <3>1, <3>2, <3>3
  <2> QED BY <1>6, <2>1, <2>3, <2>4, <2>5, <2>6 DEF InOrder
<1>7. CASE Completes(m) /\ published'[m] = pub
  BY <1>1, <1>7 DEF Completes, InOrder
<1> QED BY <1>3, <1>4, <1>5, <1>6, <1>7, OutputSteps

(* publish_module_message: each message of a module is published at most   *)
(* once and in the order in which the module wrote them, although a line   *)
(* may be read in pieces and late.                                         *)
THEOREM MessagesInOrder == Spec => []PublishedInOrder
<1>1. Init => OrderInv
  <2> SUFFICES ASSUME Init, NEW m \in Module PROVE InOrder(m)
    BY DEF OrderInv
  <2>1. Len(stdout[m]) = 0 /\ Len(published[m]) = 0
    BY DEF Init
  <2> QED BY <2>1 DEF InOrder
<1>2. OrderInv => PublishedInOrder
  BY DEF OrderInv, InOrder, PublishedInOrder
<1> QED BY <1>1, <1>2, BaseInvariant, OrderStep, PTL DEF Spec

-----------------------------------------------------------------------------
(* The number of messages published.                                       *)

PaidInv == \A m \in Module : Paid(m)

LEMMA Distribute ==
    ASSUME NEW a \in Nat, NEW b \in Nat
    PROVE  a * b \in Nat /\ a * (b + 1) = a * b + a
  OBVIOUS

(* The worker stays where it is, or ends its visit.                        *)
LEMMA PaidQuiet ==
    ASSUME Base, PaidInv, published' = published, sent' = sent,
           worker' = worker \/ worker'.at # "read"
    PROVE  PaidInv'
<1> SUFFICES ASSUME NEW m \in Module PROVE Paid(m)'
  BY DEF PaidInv
<1>1. CASE worker' = worker
  BY <1>1 DEF PaidInv, Paid
<1>2. CASE worker'.at # "read"
  <2>1. /\ Paid(m) /\ MaxResponses \in Nat /\ sent[m] \in Nat /\ Len(published[m]) \in Nat
        /\ worker.responses \in 0 .. MaxResponses
    BY ModuleRuntimeAssumption, LenProperties DEF PaidInv, Base, Typed, TypeOK
  <2>2. MaxResponses * sent[m] \in Nat
    BY <2>1, Distribute
  <2>3. Len(published[m]) <= MaxResponses * sent[m]
    <3> DEFINE b == MaxResponses * sent[m]
    <3>1. \/ Len(published[m]) + MaxResponses <= b + worker.responses
          \/ Len(published[m]) <= b
      BY <2>1 DEF Paid
    <3> HIDE DEF b
    <3>2. b \in Nat
      BY <2>2 DEF b
    <3>3. Len(published[m]) <= b
      BY <2>1, <3>1, <3>2
    <3> QED BY <3>3 DEF b
  <2> QED BY <1>2, <2>3 DEF Paid
<1> QED BY <1>1, <1>2

LEMMA PaidWrite == Base /\ PaidInv /\ WriteEvent => PaidInv'
<1> SUFFICES ASSUME Base, PaidInv, WriteEvent, NEW m \in Module PROVE Paid(m)'
  BY DEF PaidInv
<1> DEFINE w == worker.mod
<1>1. /\ worker.at = "write" /\ w \in Module /\ worker.responses = 0 /\ worker \in Workers
      /\ sent \in [Module -> Nat] /\ MaxResponses \in Nat
  BY ModuleRuntimeAssumption DEF WriteEvent, Base, Control, Typed, TypeOK, Workers
<1>2. worker'.at = "read" /\ worker'.mod = w /\ worker'.responses = 0
  BY <1>1, WorkerAt DEF WriteEvent
<1>3. sent' = [sent EXCEPT ![w] = sent[w] + 1] /\ published' = published
  BY DEF WriteEvent
<1>4. Len(published[m]) <= MaxResponses * sent[m]
  BY <1>1 DEF PaidInv, Paid
<1>5. CASE m = w
  <2>1. sent'[m] = sent[m] + 1 /\ sent[m] \in Nat /\ Len(published[m]) \in Nat
    BY <1>1, <1>3, <1>5, LenProperties DEF Base, Typed
  <2>2. MaxResponses * sent[m] \in Nat
        /\ MaxResponses * sent'[m] = MaxResponses * sent[m] + MaxResponses
    BY <1>1, <2>1, Distribute
  <2>3. Len(published'[m]) + MaxResponses <= MaxResponses * sent'[m] + worker'.responses
    BY <1>1, <1>2, <1>3, <1>4, <2>1, <2>2
  <2> QED BY <1>2, <1>5, <2>3 DEF Paid
<1>6. CASE m # w
  <2>1. sent'[m] = sent[m]
    BY <1>1, <1>3, <1>6
  <2> QED BY <1>2, <1>3, <1>4, <1>6, <2>1 DEF Paid
<1> QED BY <1>5, <1>6

LEMMA PaidRead == Base /\ PaidInv /\ ReadLine => PaidInv'
<1> SUFFICES ASSUME Base, PaidInv, ReadLine PROVE PaidInv'
  OBVIOUS
<1> DEFINE w == worker.mod
           n == Head(stdout[w]).n
<1>0. worker.at = "read" /\ w \in Module /\ n \in Nat
  BY ReadLineStep DEF Lines
<1>1. CASE NextModule /\ published' = published /\ sent' = sent
  <2>1. worker'.at # "read"
    BY <1>0, <1>1, NextModuleStep DEF Base
  <2> QED BY <1>1, <2>1, PaidQuiet
<1>2. CASE /\ ~TooMany /\ worker' = [worker EXCEPT !.responses = worker.responses + 1]
           /\ sent' = sent
           /\ \/ published' = [published EXCEPT ![w] = Append(published[w], n)]
              \/ published' = published
  <2> SUFFICES ASSUME NEW m \in Module PROVE Paid(m)'
    BY DEF PaidInv
  <2>1. worker \in Workers /\ worker.responses + 1 \in 0 .. MaxResponses /\ MaxResponses \in Nat
    <3>1. worker \in Workers /\ MaxResponses \in Nat
      BY ModuleRuntimeAssumption DEF Base, Typed, TypeOK, Workers
    <3>2. worker.responses \in 0 .. MaxResponses
      BY <3>1 DEF Workers
    <3> QED BY <1>2, <3>1, <3>2 DEF TooMany
  <2>2. worker'.at = "read" /\ worker'.mod = w /\ worker'.responses = worker.responses + 1
    BY <1>0, <1>2, <2>1, WorkerResponses
  <2>3. published \in [Module -> Seq(Nat)] /\ sent[m] \in Nat /\ worker.responses \in Nat
    BY <2>1 DEF Base, Typed, Workers
  <2>4. CASE m # w
    <3>1. published'[m] = published[m]
      BY <1>0, <1>2, <2>3, <2>4
    <3> QED BY <1>2, <2>2, <2>4, <3>1 DEF PaidInv, Paid
  <2>5. CASE m = w
    <3>1. published[m] \in Seq(Nat) /\ Len(published[m]) \in Nat
      BY <2>3, LenProperties
    <3>2. Len(published'[m]) \in Nat /\ Len(published'[m]) <= Len(published[m]) + 1
      <4>1. CASE published' = published
        BY <3>1, <4>1
      <4>2. CASE published' = [published EXCEPT ![w] = Append(published[w], n)]
        <5>1. published'[m] = Append(published[m], n)
          BY <2>3, <2>5, <4>2
        <5>2. Len(Append(published[m], n)) = Len(published[m]) + 1
          BY <1>0, <3>1, AppendProperties
        <5> QED BY <3>1, <5>1, <5>2
      <4> QED BY <1>2, <4>1, <4>2
    <3>3. Len(published[m]) + MaxResponses <= MaxResponses * sent[m] + worker.responses
      BY <1>0, <2>5 DEF PaidInv, Paid
    <3>4. MaxResponses * sent[m] \in Nat
      BY <2>1, <2>3, Distribute
    <3>5. Len(published'[m]) + MaxResponses <= MaxResponses * sent[m] + worker'.responses
      <4> DEFINE b == MaxResponses * sent[m]
      <4> HIDE DEF b
      <4>1. Len(published'[m]) + MaxResponses <= b + worker'.responses
        <5>1. b \in Nat /\ Len(published[m]) + MaxResponses <= b + worker.responses
          BY <3>3, <3>4 DEF b
        <5> QED BY <2>1, <2>2, <2>3, <3>1, <3>2, <5>1
      <4> QED BY <4>1 DEF b
    <3> QED BY <1>2, <2>2, <2>5, <3>5 DEF Paid
  <2> QED BY <2>4, <2>5
<1>3. CASE Disable
  <2>1. NextModule /\ published' = published /\ sent' = sent
    BY <1>3 DEF Disable, history
  <2> QED BY <1>1, <2>1
<1> QED BY <1>1, <1>2, <1>3, ReadLineStep

LEMMA PaidStep == Base /\ PaidInv /\ [Next]_vars => PaidInv'
<1> SUFFICES ASSUME Base, PaidInv, [Next]_vars PROVE PaidInv'
  OBVIOUS
<1>1. CASE LoadModule \/ Shutdown \/ ShutdownJoined \/ Post
  BY <1>1, PaidQuiet DEF LoadModule, Shutdown, ShutdownJoined, Post, history
<1>2. CASE StartWorker
  <2>1. worker' = worker \/ worker'.at = "check"
    BY <1>2, WorkerAt DEF StartWorker, Base, Typed, TypeOK, Workers
  <2> QED BY <1>2, <2>1, PaidQuiet DEF StartWorker, history
<1>3. CASE CheckRunning \/ Dequeue
  <2>1. worker'.at # "read"
    <3>1. CASE CheckRunning
      BY <3>1, NoWorkType DEF CheckRunning
    <3>2. CASE Dequeue
      <4>1. worker'.at = "write" \/ worker' = [worker EXCEPT !.at = "check"]
        BY <3>2 DEF Dequeue, Take
      <4>2. worker \in Workers
        BY DEF Base, Typed, TypeOK, Workers
      <4> QED BY <4>1, <4>2, WorkerAt
    <3> QED BY <1>3, <3>1, <3>2
  <2> QED BY <1>3, <2>1, PaidQuiet DEF CheckRunning, Dequeue, history
<1>4. CASE SkipModule \/ ReadTimeout \/ WriteFails \/ ReadFails
  <2>1. NextModule /\ published' = published /\ sent' = sent /\ worker.at \in {"write", "read"}
    BY <1>4 DEF SkipModule, ReadTimeout, WriteFails, ReadFails, Disable, history
  <2>2. worker'.at # "read"
    BY <2>1, NextModuleStep DEF Base, Control
  <2> QED BY <2>1, <2>2, PaidQuiet
<1>5. CASE WriteEvent \/ ReadLine
  BY <1>5, PaidWrite, PaidRead
<1>6. ASSUME NEW m \in Module, \/ ProcRead(m) \/ ProcAnswer(m)
                               \/ ProcWrite(m) \/ ProcWriteRest(m) \/ ProcExit(m)
      PROVE  PaidInv'
  <2>1. ProcStep(m)
    BY <1>6, ProcReadStep, ProcAnswerStep, ProcWriteStep, ProcWriteRestStep, ProcExitStep DEF Base
  <2> QED BY <2>1, PaidQuiet DEF ProcStep, history
<1>7. CASE UNCHANGED vars
  BY <1>7, PaidQuiet DEF vars, history
<1> QED BY <1>1, <1>2, <1>3, <1>4, <1>5, <1>6, <1>7 DEF Next, WorkerStep

(* TNT_MODULE_MAX_RESPONSES_PER_EVENT: whatever a module writes, and       *)
(* whenever, at most MaxResponses of its messages are published for every  *)
(* event it was given.                                                     *)
THEOREM ResponsesBounded == Spec => []Amplification
<1>1. Init => PaidInv
  <2> SUFFICES ASSUME Init, NEW m \in Module PROVE Paid(m)
    BY DEF PaidInv
  <2>1. Len(published[m]) = 0 /\ sent[m] = 0 /\ worker.at = "none" /\ MaxResponses \in Nat
    BY ModuleRuntimeAssumption DEF Init, NoWork
  <2>2. MaxResponses * sent[m] \in Nat
    BY <2>1, Distribute
  <2> QED BY <2>1, <2>2 DEF Paid
<1>2. Base /\ PaidInv => Amplification
  <2> SUFFICES ASSUME Base, PaidInv, NEW m \in Module
               PROVE  Len(published[m]) <= MaxResponses * sent[m]
    BY DEF Amplification
  <2> DEFINE b == MaxResponses * sent[m]
  <2>1. /\ MaxResponses \in Nat /\ sent[m] \in Nat /\ Len(published[m]) \in Nat
        /\ worker.responses \in 0 .. MaxResponses
    BY ModuleRuntimeAssumption, LenProperties DEF Base, Typed, TypeOK
  <2>2. /\ b \in Nat
        /\ \/ Len(published[m]) + MaxResponses <= b + worker.responses
           \/ Len(published[m]) <= b
    BY <2>1, Distribute DEF PaidInv, Paid
  <2> HIDE DEF b
  <2>3. Len(published[m]) <= b
    BY <2>1, <2>2
  <2> QED BY <2>3 DEF b
<1> QED BY <1>1, <1>2, BaseInvariant, PaidStep, PTL DEF Spec

-----------------------------------------------------------------------------
(* Conforming modules are kept.                                            *)

(* Conforms, for an output of len lines of which a are accepted.           *)
LEMMA ConformsElim ==
    ASSUME Typed, NEW m \in Module, Conforms(m)
    PROVE  \E len, a, left \in Nat :
              /\ len = Len(stdout[m]) /\ a = Accepted(m)
              /\ left = IF proc[m].busy THEN proc[m].lines ELSE 0
              /\ \A k \in 1 .. len :
                    stdout[m][k].part = "line" /\ stdout[m][k].kind \in {"create", "ok"}
              /\ \A i, j \in 0 .. len : i <= j /\ Messages(m, i, j) =>
                    j - i + (IF i = 0 THEN a ELSE 0) < MaxResponses
              /\ \A i \in 0 .. len : Messages(m, i, len) =>
                    len - i + (IF i = 0 THEN a ELSE 0) <= left
<1> DEFINE len  == Len(stdout[m])
           a    == Accepted(m)
           left == IF proc[m].busy THEN proc[m].lines ELSE 0
<1>1. len \in Nat
  BY LenProperties DEF Typed, TypeOK
<1>2. a \in Nat
  BY ModuleRuntimeAssumption DEF Typed, TypeOK, Accepted
<1>3. left \in Nat
  BY DEF Typed, Procs
<1>4. /\ \A k \in 1 .. len :
            stdout[m][k].part = "line" /\ stdout[m][k].kind \in {"create", "ok"}
      /\ \A i, j \in 0 .. len : i <= j /\ Messages(m, i, j) =>
            j - i + (IF i = 0 THEN a ELSE 0) < MaxResponses
      /\ \A i \in 0 .. len : Messages(m, i, len) =>
            len - i + (IF i = 0 THEN a ELSE 0) <= left
  BY DEF Conforms
<1> HIDE DEF len, a, left
<1>5. /\ len = Len(stdout[m]) /\ a = Accepted(m)
      /\ left = IF proc[m].busy THEN proc[m].lines ELSE 0
  BY DEF len, a, left
<1> QED BY <1>1, <1>2, <1>3, <1>4, <1>5

(* Nothing happens to m but that the worker may leave it.                  *)
LEMMA ConformsQuiet ==
    ASSUME Typed, NEW m \in Module, Conforms(m),
           stdout'[m] = stdout[m], proc'[m] = proc[m],
           worker' = worker \/ Accepted(m)' = 0
    PROVE  Conforms(m)'
<1>1. PICK len, a, left \in Nat :
         /\ len = Len(stdout[m]) /\ a = Accepted(m)
         /\ left = IF proc[m].busy THEN proc[m].lines ELSE 0
         /\ \A k \in 1 .. len :
               stdout[m][k].part = "line" /\ stdout[m][k].kind \in {"create", "ok"}
         /\ \A i, j \in 0 .. len : i <= j /\ Messages(m, i, j) =>
               j - i + (IF i = 0 THEN a ELSE 0) < MaxResponses
         /\ \A i \in 0 .. len : Messages(m, i, len) =>
               len - i + (IF i = 0 THEN a ELSE 0) <= left
  BY ConformsElim
<1>2. PICK b \in Nat : b = Accepted(m)' /\ b <= a
  <2>1. CASE worker' = worker
    BY <1>1, <2>1 DEF Accepted
  <2>2. CASE Accepted(m)' = 0
    BY <1>1, <2>2
  <2> QED BY <2>1, <2>2
<1>3. \A i, j \in 0 .. len : Messages(m, i, j)' <=> Messages(m, i, j)
  BY DEF Messages
<1>4. \A i, j \in 0 .. len : i <= j /\ Messages(m, i, j)' =>
         j - i + (IF i = 0 THEN b ELSE 0) < MaxResponses
  <2> SUFFICES ASSUME NEW i \in 0 .. len, NEW j \in 0 .. len, i <= j, Messages(m, i, j)'
               PROVE  j - i + (IF i = 0 THEN b ELSE 0) < MaxResponses
    OBVIOUS
  <2>1. j - i + (IF i = 0 THEN a ELSE 0) < MaxResponses
    BY <1>1, <1>3
  <2> QED BY <1>2, <2>1, ModuleRuntimeAssumption
<1>5. \A i \in 0 .. len : Messages(m, i, len)' => len - i + (IF i = 0 THEN b ELSE 0) <= left
  <2> SUFFICES ASSUME NEW i \in 0 .. len, Messages(m, i, len)'
               PROVE  len - i + (IF i = 0 THEN b ELSE 0) <= left
    OBVIOUS
  <2>1. len - i + (IF i = 0 THEN a ELSE 0) <= left
    BY <1>1, <1>3
  <2> QED BY <1>2, <2>1
<1>6. /\ ~proc'[m].exited /\ proc'[m].cut = "no"
      /\ proc'[m].busy => proc'[m].lines < MaxResponses
      /\ len = Len(stdout'[m]) /\ left = (IF proc'[m].busy THEN proc'[m].lines ELSE 0)
      /\ \A k \in 1 .. len :
            stdout'[m][k].part = "line" /\ stdout'[m][k].kind \in {"create", "ok"}
  BY <1>1 DEF Conforms
<1> QED BY <1>2, <1>4, <1>5, <1>6 DEF Conforms

(* The worker takes the next line: a message it accepts, or another after  *)
(* which it leaves.                                                        *)
LEMMA ConformsConsume ==
    ASSUME Typed, NEW m \in Module, Conforms(m), proc'[m] = proc[m],
           Len(stdout[m]) \in Nat \ {0}, Len(stdout'[m]) = Len(stdout[m]) - 1,
           \A i \in 1 .. Len(stdout'[m]) : stdout'[m][i] = stdout[m][i + 1],
           \/ Accepted(m)' = 0
           \/ stdout[m][1].kind = "create" /\ Accepted(m)' = Accepted(m) + 1
    PROVE  Conforms(m)'
<1>1. PICK len, a, left \in Nat :
         /\ len = Len(stdout[m]) /\ a = Accepted(m)
         /\ left = IF proc[m].busy THEN proc[m].lines ELSE 0
         /\ \A k \in 1 .. len :
               stdout[m][k].part = "line" /\ stdout[m][k].kind \in {"create", "ok"}
         /\ \A i, j \in 0 .. len : i <= j /\ Messages(m, i, j) =>
               j - i + (IF i = 0 THEN a ELSE 0) < MaxResponses
         /\ \A i \in 0 .. len : Messages(m, i, len) =>
               len - i + (IF i = 0 THEN a ELSE 0) <= left
  BY ConformsElim
<1>2. PICK b \in Nat : b = Accepted(m)' /\ (b = 0 \/ (stdout[m][1].kind = "create" /\ b = a + 1))
  BY <1>1
<1>3. len - 1 \in Nat /\ len - 1 = Len(stdout'[m]) /\ MaxResponses \in Nat
  BY <1>1, ModuleRuntimeAssumption
<1>4. \A i, j \in 0 .. len - 1 : Messages(m, i, j)' => Messages(m, i + 1, j + 1)
  <2> SUFFICES ASSUME NEW i \in 0 .. len - 1, NEW j \in 0 .. len - 1, Messages(m, i, j)',
                      NEW k \in i + 1 + 1 .. j + 1
               PROVE  stdout[m][k].kind = "create"
    BY DEF Messages
  <2>1. k - 1 \in i + 1 .. j /\ k - 1 \in 1 .. Len(stdout'[m]) /\ k - 1 + 1 = k
    BY <1>3
  <2>2. stdout'[m][k - 1].kind = "create" /\ stdout'[m][k - 1] = stdout[m][k - 1 + 1]
    BY <2>1 DEF Messages
  <2> QED BY <2>1, <2>2
<1>5. \A j \in 0 .. len - 1 : Messages(m, 0, j)' /\ stdout[m][1].kind = "create"
                                 => Messages(m, 0, j + 1)
  <2> SUFFICES ASSUME NEW j \in 0 .. len - 1, Messages(m, 0, j)', stdout[m][1].kind = "create",
                      NEW k \in 0 + 1 .. j + 1
               PROVE  stdout[m][k].kind = "create"
    BY DEF Messages
  <2>1. Messages(m, 0 + 1, j + 1)
    BY <1>3, <1>4
  <2>2. k = 1 \/ k \in 0 + 1 + 1 .. j + 1
    BY <1>3
  <2> QED BY <2>1, <2>2 DEF Messages
<1>6. \A i, j \in 0 .. len - 1 : i <= j /\ Messages(m, i, j)' =>
         j - i + (IF i = 0 THEN b ELSE 0) < MaxResponses
  <2> SUFFICES ASSUME NEW i \in 0 .. len - 1, NEW j \in 0 .. len - 1, i <= j, Messages(m, i, j)'
               PROVE  j - i + (IF i = 0 THEN b ELSE 0) < MaxResponses
    OBVIOUS
  <2>1. i + 1 \in 0 .. len /\ j + 1 \in 0 .. len /\ i + 1 <= j + 1 /\ i + 1 # 0 /\ 0 \in 0 .. len
    BY <1>3
  <2>2. j + 1 - (i + 1) + 0 < MaxResponses
    BY <1>1, <1>4, <2>1
  <2>3. CASE i = 0 /\ b # 0
    <3>1. Messages(m, 0, j + 1) /\ b = a + 1
      BY <1>2, <1>5, <2>3
    <3>2. j + 1 - 0 + a < MaxResponses
      BY <1>1, <2>1, <3>1
    <3> QED BY <1>3, <2>3, <3>1, <3>2
  <2> QED BY <1>3, <2>2, <2>3
<1>7. \A i \in 0 .. len - 1 : Messages(m, i, len - 1)' =>
         len - 1 - i + (IF i = 0 THEN b ELSE 0) <= left
  <2> SUFFICES ASSUME NEW i \in 0 .. len - 1, Messages(m, i, len - 1)'
               PROVE  len - 1 - i + (IF i = 0 THEN b ELSE 0) <= left
    OBVIOUS
  <2>1. i + 1 \in 0 .. len /\ i + 1 # 0 /\ 0 \in 0 .. len /\ len - 1 + 1 = len
        /\ len - 1 \in 0 .. len - 1
    BY <1>3
  <2>2. len - (i + 1) + 0 <= left
    BY <1>1, <1>4, <2>1
  <2>3. CASE i = 0 /\ b # 0
    <3>1. Messages(m, 0, len) /\ b = a + 1
      BY <1>2, <1>5, <2>1, <2>3
    <3>2. len - 0 + a <= left
      BY <1>1, <2>1, <3>1
    <3> QED BY <1>3, <2>3, <3>1, <3>2
  <2> QED BY <1>3, <2>2, <2>3
<1>8. /\ ~proc'[m].exited /\ proc'[m].cut = "no"
      /\ proc'[m].busy => proc'[m].lines < MaxResponses
      /\ left = (IF proc'[m].busy THEN proc'[m].lines ELSE 0)
  BY <1>1 DEF Conforms
<1>9. \A k \in 1 .. len - 1 :
         stdout'[m][k].part = "line" /\ stdout'[m][k].kind \in {"create", "ok"}
  <2> TAKE k \in 1 .. len - 1
  <2>1. k + 1 \in 1 .. len /\ stdout'[m][k] = stdout[m][k + 1]
    BY <1>3
  <2> QED BY <1>1, <2>1
<1> QED BY <1>2, <1>3, <1>6, <1>7, <1>8, <1>9 DEF Conforms

(* The module takes the next event.                                        *)
LEMMA ConformsReads ==
    ASSUME Typed, NEW m \in Good, Conforms(m), Reads(m), worker' = worker
    PROVE  Conforms(m)'
<1>0. m \in Module
  BY ModuleRuntimeAssumption
<1>1. PICK len, a, left \in Nat :
         /\ len = Len(stdout[m]) /\ a = Accepted(m)
         /\ left = IF proc[m].busy THEN proc[m].lines ELSE 0
         /\ \A k \in 1 .. len :
               stdout[m][k].part = "line" /\ stdout[m][k].kind \in {"create", "ok"}
         /\ \A i, j \in 0 .. len : i <= j /\ Messages(m, i, j) =>
               j - i + (IF i = 0 THEN a ELSE 0) < MaxResponses
         /\ \A i \in 0 .. len : Messages(m, i, len) =>
               len - i + (IF i = 0 THEN a ELSE 0) <= left
  BY <1>0, ConformsElim
<1>2. /\ stdout'[m] = stdout[m] /\ ~proc[m].busy /\ proc'[m].busy /\ proc'[m].lines = 0
      /\ proc'[m].exited = proc[m].exited /\ proc'[m].cut = proc[m].cut
  BY DEF Reads
<1>3. /\ a = Accepted(m)' /\ left = 0 /\ 0 < MaxResponses
      /\ \A i, j \in 0 .. len : Messages(m, i, j)' <=> Messages(m, i, j)
  BY <1>1, <1>2, ModuleRuntimeAssumption DEF Accepted, Messages
<1>4. ~proc[m].exited /\ proc[m].cut = "no"
  BY DEF Conforms
<1>5. /\ \A i, j \in 0 .. len : i <= j /\ Messages(m, i, j)' =>
            j - i + (IF i = 0 THEN a ELSE 0) < MaxResponses
      /\ \A i \in 0 .. len : Messages(m, i, len)' => len - i + (IF i = 0 THEN a ELSE 0) <= 0
  BY <1>1, <1>3
<1> QED BY <1>1, <1>2, <1>3, <1>4, <1>5 DEF Conforms

(* The module answers.                                                     *)
LEMMA ConformsAdds ==
    ASSUME Typed, NEW m \in Good, Conforms(m), Adds(m), worker' = worker
    PROVE  Conforms(m)'
<1>0. m \in Module
  BY ModuleRuntimeAssumption
<1>1. PICK len, a, left \in Nat :
         /\ len = Len(stdout[m]) /\ a = Accepted(m)
         /\ left = IF proc[m].busy THEN proc[m].lines ELSE 0
         /\ \A k \in 1 .. len :
               stdout[m][k].part = "line" /\ stdout[m][k].kind \in {"create", "ok"}
         /\ \A i, j \in 0 .. len : i <= j /\ Messages(m, i, j) =>
               j - i + (IF i = 0 THEN a ELSE 0) < MaxResponses
         /\ \A i \in 0 .. len : Messages(m, i, len) =>
               len - i + (IF i = 0 THEN a ELSE 0) <= left
  BY <1>0, ConformsElim
<1> DEFINE l == stdout'[m][len + 1]
<1>2. /\ ~proc[m].exited /\ proc[m].cut = "no" /\ Len(stdout'[m]) = len + 1
      /\ \A i \in 1 .. len : stdout'[m][i] = stdout[m][i]
      /\ l.kind \in {"create", "ok"} /\ l.part = "line"
      /\ proc[m].busy /\ proc'[m].lines = proc[m].lines + 1
      /\ l.kind = "create" => proc[m].lines + 1 < MaxResponses
      /\ proc'[m].busy <=> l.kind = "create"
      /\ proc'[m].exited = proc[m].exited /\ proc'[m].cut = proc[m].cut
  BY <1>1 DEF Adds, Conforms
<1>3. a = Accepted(m)' /\ left = proc[m].lines /\ MaxResponses \in Nat /\ 0 < MaxResponses
  BY <1>1, <1>2, ModuleRuntimeAssumption DEF Accepted
<1> HIDE DEF l
<1>4. \A i, j \in 0 .. len : Messages(m, i, j)' <=> Messages(m, i, j)
  <2> TAKE i, j \in 0 .. len
  <2>1. \A k \in i + 1 .. j : k \in 1 .. len
    OBVIOUS
  <2> QED BY <1>2, <2>1 DEF Messages
<1>5. \A i \in 0 .. len : Messages(m, i, len + 1)' => l.kind = "create" /\ Messages(m, i, len)'
  <2> SUFFICES ASSUME NEW i \in 0 .. len, Messages(m, i, len + 1)'
               PROVE  l.kind = "create" /\ Messages(m, i, len)'
    OBVIOUS
  <2>1. len + 1 \in i + 1 .. len + 1 /\ \A k \in i + 1 .. len : k \in i + 1 .. len + 1
    OBVIOUS
  <2> QED BY <2>1 DEF Messages, l
<1>6. \A i \in 0 .. len : Messages(m, i, len + 1)' =>
         /\ l.kind = "create"
         /\ len + 1 - i + (IF i = 0 THEN a ELSE 0) <= proc[m].lines + 1
         /\ len + 1 - i + (IF i = 0 THEN a ELSE 0) < MaxResponses
  <2> SUFFICES ASSUME NEW i \in 0 .. len, Messages(m, i, len + 1)'
               PROVE  /\ l.kind = "create"
                      /\ len + 1 - i + (IF i = 0 THEN a ELSE 0) <= proc[m].lines + 1
                      /\ len + 1 - i + (IF i = 0 THEN a ELSE 0) < MaxResponses
    OBVIOUS
  <2>1. l.kind = "create" /\ Messages(m, i, len) /\ len \in 0 .. len
    BY <1>4, <1>5
  <2>2. len - i + (IF i = 0 THEN a ELSE 0) <= proc[m].lines /\ proc[m].lines \in Nat
    BY <1>1, <1>3, <2>1
  <2> QED BY <1>2, <1>3, <2>1, <2>2
<1>7. \A i, j \in 0 .. len + 1 : i <= j /\ Messages(m, i, j)' =>
         j - i + (IF i = 0 THEN a ELSE 0) < MaxResponses
  <2> SUFFICES ASSUME NEW i \in 0 .. len + 1, NEW j \in 0 .. len + 1, i <= j, Messages(m, i, j)'
               PROVE  j - i + (IF i = 0 THEN a ELSE 0) < MaxResponses
    OBVIOUS
  <2>1. CASE j \in 0 .. len
    <3>1. i \in 0 .. len
      BY <2>1
    <3> QED BY <1>1, <1>4, <2>1, <3>1
  <2>2. CASE j = len + 1 /\ i \in 0 .. len
    BY <1>6, <2>2
  <2>3. CASE j = len + 1 /\ i = len + 1
    BY <1>3, <2>3
  <2> QED BY <2>1, <2>2, <2>3
<1>8. \A i \in 0 .. len + 1 : Messages(m, i, len + 1)' =>
         len + 1 - i + (IF i = 0 THEN a ELSE 0) <= IF proc'[m].busy THEN proc'[m].lines ELSE 0
  <2> SUFFICES ASSUME NEW i \in 0 .. len + 1, Messages(m, i, len + 1)'
               PROVE  len + 1 - i + (IF i = 0 THEN a ELSE 0)
                         <= IF proc'[m].busy THEN proc'[m].lines ELSE 0
    OBVIOUS
  <2>1. CASE i \in 0 .. len
    BY <1>2, <1>6, <2>1
  <2>2. CASE i = len + 1
    BY <1>2, <1>3, <2>2
  <2> QED BY <2>1, <2>2
<1>9. \A k \in 1 .. len + 1 :
         stdout'[m][k].part = "line" /\ stdout'[m][k].kind \in {"create", "ok"}
  <2> TAKE k \in 1 .. len + 1
  <2>1. k \in 1 .. len \/ k = len + 1
    OBVIOUS
  <2> QED BY <1>1, <1>2, <2>1 DEF l
<1>10. proc'[m].busy => proc'[m].lines < MaxResponses
  BY <1>2
<1> QED BY <1>2, <1>3, <1>7, <1>8, <1>9, <1>10 DEF Conforms

(* The worker finds no fault with a conforming module.                     *)
LEMMA NoFault ==
    ASSUME Base, NEW m \in Good, Conforms(m), m = worker.mod, m \in Active,
           WriteFails \/ ReadFails \/ (ReadLine /\ Disable)
    PROVE  garbled
<1>0. m \in Module /\ Typed
  BY ModuleRuntimeAssumption DEF Base
<1>1. PICK len, a, left \in Nat :
         /\ len = Len(stdout[m]) /\ a = Accepted(m)
         /\ left = IF proc[m].busy THEN proc[m].lines ELSE 0
         /\ \A k \in 1 .. len :
               stdout[m][k].part = "line" /\ stdout[m][k].kind \in {"create", "ok"}
         /\ \A i, j \in 0 .. len : i <= j /\ Messages(m, i, j) =>
               j - i + (IF i = 0 THEN a ELSE 0) < MaxResponses
         /\ \A i \in 0 .. len : Messages(m, i, len) =>
               len - i + (IF i = 0 THEN a ELSE 0) <= left
  BY <1>0, ConformsElim
<1>2. ~proc[m].exited /\ MaxResponses \in Nat
  BY ModuleRuntimeAssumption DEF Conforms
<1>3. stdout[m] # <<>> =>
         /\ len # 0 /\ Head(stdout[m]) = stdout[m][1]
         /\ Head(stdout[m]).part = "line" /\ Head(stdout[m]).kind \in {"create", "ok"}
  <2>1. stdout[m] \in Seq(Lines)
    BY <1>0 DEF Typed, TypeOK
  <2>2. stdout[m] # <<>> => 1 \in 1 .. len /\ Head(stdout[m]) = stdout[m][1]
    BY <1>1, <2>1, EmptySeq
  <2> QED BY <1>1, <2>2
<1>4. CASE WriteFails
  BY <1>2, <1>4 DEF WriteFails, Base, Control
<1>5. CASE ReadFails
  BY <1>2, <1>3, <1>5 DEF ReadFails, HasLine
<1>6. CASE ReadLine /\ Disable
  <2> DEFINE l == Head(stdout[m])
  <2>1. worker.at = "read" /\ stdout[m] # <<>>
    BY <1>6, ReadLineStep
  <2>2. worker.responses = a
    BY <1>1, <2>1 DEF Accepted
  <2>3. ReadAs(l) = l.kind /\ ReadAs(l) \in {"create", "ok"}
    BY <1>3, <2>1 DEF ReadAs
  <2>4. ~TooMany
    <3>1. 0 \in 0 .. len /\ Messages(m, 0, 0)
      BY DEF Messages
    <3>2. 0 - 0 + a < MaxResponses
      BY <1>1, <3>1
    <3> QED BY <1>2, <2>2, <3>2 DEF TooMany
  <2>5. ~Repeated(m, ReadAs(l))
    BY <2>3 DEF Repeated
  <2>6. \/ ReadAs(l) # "empty" /\ (TooMany \/ Repeated(m, ReadAs(l)))
        \/ Consume(m) /\ Respond(m, ReadAs(l), l.n) /\ state' = state
    BY <1>6 DEF ReadLine
  <2>7. state'[m] = "closed" /\ state[m] = "active"
    BY <1>0, <1>6 DEF Disable, Close, Active
  <2> QED BY <2>4, <2>5, <2>6, <2>7
<1> QED BY <1>4, <1>5, <1>6

(* One module that conforms and is not disabled, before and after a step.  *)
LEMMA GoodKept ==
    ASSUME Base, [Next]_vars, NEW m \in Good, state[m] # "closed", Conforms(m)
    PROVE  /\ state'[m] # "closed" => Conforms(m)'
           /\ state'[m] = "closed" => loaded' = N + 1 /\ (garbled' \/ ~running')
<1>0. m \in Module /\ Typed
  BY ModuleRuntimeAssumption DEF Base
<1>1. CASE LoadModule
  <2>1. state'[m] # "closed"
    BY <1>0, <1>1 DEF LoadModule, ManifestRefused, StartModuleProcess, Typed, TypeOK
  <2> QED BY <1>0, <1>1, <2>1, ConformsQuiet DEF LoadModule, pipes
<1>2. CASE StartWorker
  <2>1. worker.at = "none" /\ loaded' = N + 1
    BY <1>2, ModuleRuntimeAssumption DEF StartWorker, Base, Control
  <2>2. CASE Close(Active) /\ UNCHANGED <<running, worker>>
    <3>1. ~running'
      BY <2>1, <2>2 DEF Base, Control
    <3>2. state'[m] # "closed" => stdout'[m] = stdout[m] /\ proc'[m] = proc[m]
      BY <1>0, <2>2, CloseStep
    <3> QED BY <1>0, <2>1, <2>2, <3>1, <3>2, ConformsQuiet
  <2>3. CASE worker' = [worker EXCEPT !.at = "check"] /\ UNCHANGED <<state, pipes>>
    <3>1. worker'.at = "check"
      BY <2>3, WorkerAt DEF Base, Typed, TypeOK, Workers
    <3>2. Accepted(m)' = 0
      BY <3>1 DEF Accepted
    <3> QED BY <1>0, <2>3, <3>2, ConformsQuiet DEF pipes
  <2> QED BY <1>2, <2>2, <2>3 DEF StartWorker
<1>3. CASE ShutdownJoined
  <2>1. loaded' = N + 1 /\ ~running' /\ worker' = worker
    BY <1>3 DEF ShutdownJoined
  <2>2. state'[m] # "closed" => stdout'[m] = stdout[m] /\ proc'[m] = proc[m]
    BY <1>0, <1>3, CloseStep DEF ShutdownJoined
  <2> QED BY <1>0, <2>1, <2>2, ConformsQuiet
<1>4. CASE Shutdown \/ Post
  BY <1>0, <1>4, ConformsQuiet DEF Shutdown, Post, pipes
<1>5. CASE CheckRunning \/ Dequeue
  <2>1. worker'.at # "read"
    <3>1. CASE CheckRunning
      BY <3>1, NoWorkType DEF CheckRunning
    <3>2. CASE Dequeue
      <4>1. worker'.at = "write" \/ worker' = [worker EXCEPT !.at = "check"]
        BY <3>2 DEF Dequeue, Take
      <4>2. worker \in Workers
        BY DEF Base, Typed, TypeOK, Workers
      <4> QED BY <4>1, <4>2, WorkerAt
    <3> QED BY <1>5, <3>1, <3>2
  <2>2. Accepted(m)' = 0
    BY <2>1 DEF Accepted
  <2> QED BY <1>0, <1>5, <2>2, ConformsQuiet DEF CheckRunning, Dequeue, pipes
<1>6. CASE SkipModule \/ ReadTimeout
  <2>1. NextModule /\ worker.mod \in Module
    BY <1>6 DEF SkipModule, ReadTimeout, Base, Control
  <2>2. Accepted(m)' = 0
    BY <1>0, <2>1, NextModuleStep DEF Accepted
  <2> QED BY <1>0, <1>6, <2>2, ConformsQuiet DEF SkipModule, ReadTimeout, pipes
<1>7. CASE WriteEvent
  <2>1. worker \in Workers /\ worker' = [worker EXCEPT !.at = "read"] /\ worker.responses = 0
    BY <1>7 DEF WriteEvent, Base, Control, Typed, TypeOK, Workers
  <2>2. Accepted(m)' = 0
    BY <2>1, WorkerAt DEF Accepted
  <2> QED BY <1>0, <1>7, <2>2, ConformsQuiet DEF WriteEvent
<1>8. CASE Disable /\ (WriteFails \/ ReadFails \/ ReadLine)
  <2>1. /\ worker.at \in {"write", "read"} /\ worker.mod \in Module /\ worker.mod \in Active
        /\ NextModule /\ Close({worker.mod}) /\ UNCHANGED <<loaded, garbled>> /\ loaded = N + 1
    BY <1>8 DEF WriteFails, ReadFails, ReadLine, Base, Control, Disable, history
  <2>2. CASE m = worker.mod
    <3>1. garbled
      BY <1>8, <2>1, <2>2, NoFault
    <3>2. state'[m] = "closed"
      BY <1>0, <2>1, <2>2, CloseStep
    <3> QED BY <2>1, <3>1, <3>2
  <2>3. CASE m # worker.mod
    <3>1. state'[m] = state[m] /\ stdout'[m] = stdout[m] /\ proc'[m] = proc[m]
      BY <1>0, <2>1, <2>3, CloseStep
    <3>2. Accepted(m)' = 0
      BY <1>0, <2>1, NextModuleStep DEF Accepted
    <3> QED BY <1>0, <3>1, <3>2, ConformsQuiet
  <2> QED BY <2>2, <2>3
<1>9. CASE ReadLine /\ ~Disable
  <2> DEFINE w == worker.mod
             l == Head(stdout[w])
  <2>1. /\ worker.at = "read" /\ w \in Module /\ stdout[w] # <<>>
        /\ stdout' = [stdout EXCEPT ![w] = Tail(stdout[w])] /\ state' = state /\ proc' = proc
        /\ \/ /\ l.kind = "create" /\ ~TooMany
              /\ worker' = [worker EXCEPT !.responses = worker.responses + 1]
           \/ NextModule
    BY <1>9, ReadLineStep
  <2>2. /\ \A k \in Module \ {w} : stdout'[k] = stdout[k]
        /\ Len(stdout[w]) \in Nat \ {0} /\ Len(stdout'[w]) = Len(stdout[w]) - 1
        /\ \A i \in 1 .. Len(stdout'[w]) : stdout'[w][i] = stdout[w][i + 1]
        /\ l = stdout[w][1]
    BY <1>0, <2>1, ConsumeType
  <2>3. \/ worker'.at # "read"
        \/ /\ l.kind = "create" /\ worker'.at = "read" /\ worker'.mod = w
           /\ worker'.responses = worker.responses + 1
    <3>1. CASE NextModule
      BY <1>0, <2>1, <3>1, NextModuleStep
    <3>2. CASE l.kind = "create" /\ ~TooMany
               /\ worker' = [worker EXCEPT !.responses = worker.responses + 1]
      <4>1. worker \in Workers /\ MaxResponses \in Nat
        BY <1>0, ModuleRuntimeAssumption DEF Typed, TypeOK, Workers
      <4>2. worker.responses \in 0 .. MaxResponses
        BY <4>1 DEF Workers
      <4>3. worker.responses + 1 \in 0 .. MaxResponses
        BY <3>2, <4>1, <4>2 DEF TooMany
      <4> QED BY <2>1, <3>2, <4>1, <4>3, WorkerResponses
    <3> QED BY <2>1, <3>1, <3>2
  <2>4. CASE m = w
    <3>1. \/ Accepted(m)' = 0
          \/ stdout[m][1].kind = "create" /\ Accepted(m)' = Accepted(m) + 1
      BY <2>1, <2>2, <2>3, <2>4 DEF Accepted
    <3> QED BY <1>0, <2>1, <2>2, <2>4, <3>1, ConformsConsume
  <2>5. CASE m # w
    <3>1. Accepted(m)' = 0 /\ stdout'[m] = stdout[m]
      BY <1>0, <2>2, <2>3, <2>5 DEF Accepted
    <3> QED BY <1>0, <2>1, <3>1, ConformsQuiet
  <2> QED BY <2>4, <2>5
<1>10. ASSUME NEW k \in Module, \/ ProcRead(k) \/ ProcAnswer(k)
                                \/ ProcWrite(k) \/ ProcWriteRest(k) \/ ProcExit(k)
       PROVE  Conforms(m)' /\ state' = state
  <2>1. ProcStep(k) /\ state' = state /\ worker' = worker
    BY <1>0, <1>10, ProcReadStep, ProcAnswerStep, ProcWriteStep, ProcWriteRestStep, ProcExitStep
       DEF ProcStep
  <2>2. CASE k # m
    BY <1>0, <2>1, <2>2, ConformsQuiet DEF ProcStep
  <2>3. CASE k = m
    <3>1. CASE ProcRead(m)
      BY <1>0, <2>1, <3>1, ProcReadStep, ConformsReads
    <3>2. CASE ProcAnswer(m)
      BY <1>0, <2>1, <3>2, ProcAnswerStep, ConformsAdds
    <3>3. ~ProcWrite(m) /\ ~ProcExit(m)
      BY DEF ProcWrite, ProcExit
    <3>4. ~ProcWriteRest(m)
      BY <1>0, ProcWriteRestStep DEF Conforms
    <3> QED BY <1>10, <2>1, <2>3, <3>1, <3>2, <3>3, <3>4
  <2> QED BY <2>1, <2>2, <2>3
<1>11. CASE UNCHANGED vars
  BY <1>0, <1>11, ConformsQuiet DEF vars, pipes
<1>12. WriteFails \/ ReadFails => Disable
  BY DEF WriteFails, ReadFails
<1> QED BY <1>1, <1>2, <1>3, <1>4, <1>5, <1>6, <1>7, <1>8, <1>9, <1>10, <1>11, <1>12
        DEF Next, WorkerStep

(* A disabled module stays disabled.                                       *)
LEMMA ClosedStays ==
    ASSUME Base, [Next]_vars, NEW m \in Module, state[m] = "closed", loaded = N + 1,
           garbled \/ ~running
    PROVE  state'[m] = "closed" /\ loaded' = N + 1 /\ (garbled' \/ ~running')
<1>0. Typed /\ N \in Nat /\ m \notin Active
  BY ModuleRuntimeAssumption DEF Base, Active
<1>1. CASE LoadModule \/ StartWorker
  BY <1>0, <1>1 DEF LoadModule, StartWorker
<1>2. CASE Shutdown \/ Post
  BY <1>2 DEF Shutdown, Post, history
<1>3. CASE ShutdownJoined
  BY <1>0, <1>3, CloseStep DEF ShutdownJoined, history
<1>4. CASE CheckRunning \/ Dequeue \/ SkipModule \/ ReadTimeout \/ WriteEvent
  <2>1. UNCHANGED <<state, loaded, running>>
    BY <1>4 DEF CheckRunning, Dequeue, SkipModule, ReadTimeout, WriteEvent
  <2>2. garbled' = garbled \/ \E odd \in BOOLEAN : garbled' = (garbled \/ odd)
    BY <1>4, Zenon DEF CheckRunning, Dequeue, SkipModule, ReadTimeout, WriteEvent, Take, history
  <2> QED BY <2>1, <2>2
<1>5. CASE Disable
  <2>1. Close({worker.mod}) /\ UNCHANGED <<loaded, running, garbled>>
    BY <1>5 DEF Disable, history
  <2>2. state'[m] = "closed"
    BY <1>0, <2>1, CloseStep
  <2> QED BY <2>1, <2>2
<1>6. CASE ReadLine /\ ~Disable
  BY <1>6, ReadLineStep
<1>7. ASSUME NEW k \in Module, \/ ProcRead(k) \/ ProcAnswer(k)
                               \/ ProcWrite(k) \/ ProcWriteRest(k) \/ ProcExit(k)
      PROVE  UNCHANGED <<state, loaded, running, garbled>>
  BY <1>0, <1>7, ProcReadStep, ProcAnswerStep, ProcWriteStep, ProcWriteRestStep, ProcExitStep
     DEF ProcStep, history
<1>8. CASE UNCHANGED vars
  BY <1>8 DEF vars, history
<1>9. WriteFails \/ ReadFails => Disable
  BY DEF WriteFails, ReadFails
<1> QED BY <1>1, <1>2, <1>3, <1>4, <1>5, <1>6, <1>7, <1>8, <1>9 DEF Next, WorkerStep

LEMMA GoodStep == Base /\ GoodInv /\ [Next]_vars => GoodInv'
<1> SUFFICES ASSUME Base, GoodInv, [Next]_vars, NEW m \in Good
             PROVE  /\ state'[m] # "closed" => Conforms(m)'
                    /\ state'[m] = "closed" => loaded' = N + 1 /\ (garbled' \/ ~running')
  BY DEF GoodInv
<1>1. m \in Module
  BY ModuleRuntimeAssumption
<1>2. CASE state[m] # "closed"
  BY <1>2, GoodKept DEF GoodInv
<1>3. CASE state[m] = "closed"
  BY <1>1, <1>3, ClosedStays DEF GoodInv
<1> QED BY <1>2, <1>3

(* A module that answers every event, however late, with at most           *)
(* MaxResponses lines is never disabled by the worker, unless a message    *)
(* that cannot be encoded came along or the runtime is shut down: late     *)
(* answers are taken for other events, and still the limit on responses    *)
(* per event is not reached.                                               *)
THEOREM GoodModulesKept == Spec => []ConformingKept
<1>1. Init => GoodInv
  <2> SUFFICES ASSUME Init, NEW m \in Good PROVE state[m] # "closed" /\ Conforms(m)
    BY DEF GoodInv
  <2>1. m \in Module /\ MaxResponses \in Nat \ {0}
    BY ModuleRuntimeAssumption
  <2> DEFINE p == [exited |-> FALSE, busy |-> FALSE, lines |-> 0, made |-> 0, cut |-> "no"]
  <2>2. /\ state[m] = "off" /\ Len(stdout[m]) = 0 /\ proc[m] = p
        /\ worker.at = "none"
    BY <2>1 DEF Init, NoWork
  <2>3. proc[m].exited = FALSE /\ proc[m].cut = "no" /\ proc[m].busy = FALSE
    BY <2>2
  <2>4. Accepted(m) = 0
    BY <2>2 DEF Accepted
  <2>5. \A i \in 0 .. 0 : i = 0
    OBVIOUS
  <2> QED BY <2>1, <2>2, <2>3, <2>4, <2>5 DEF Conforms
<1>2. GoodInv => ConformingKept
  BY DEF GoodInv, ConformingKept
<1> QED BY <1>1, <1>2, BaseInvariant, GoodStep, PTL DEF Spec

=============================================================================
