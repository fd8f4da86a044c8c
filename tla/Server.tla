------------------------------- MODULE Server --------------------------------
(***************************************************************************)
(* The life of the server process around Publication: main loads the log   *)
(* into the room, then sets up the host key and binds the port             *)
(* (ssh_server_init), and only then serves messages.  Generating a key     *)
(* takes seconds, so the log that was loaded may be an old one if another  *)
(* server was still running.                                               *)
(***************************************************************************)
EXTENDS Publication, HostKey

VARIABLE
    loaded   \* the room of a process that does not serve yet

serverVars == <<vars, keyVars, loaded>>

ServerInit ==
    /\ Empty /\ up = FALSE
    /\ KeyInit
    /\ loaded = [p \in Proc |-> <<>>]

-----------------------------------------------------------------------------

StartProcess(p) == Start(p) /\ UNCHANGED <<vars, loaded>>

(* room_create: the room's lock and messages, from message_load.           *)
RoomCreate(p) ==
    /\ LogLoaded(p)
    /\ loaded' = [loaded EXCEPT ![p] = Loaded]
    /\ UNCHANGED vars

(* setup_host_key; a process that ends frees its room.                     *)
SetupHostKey(p) ==
    /\ Setup(p)
    /\ loaded' = IF step'[p] = "off" THEN [loaded EXCEPT ![p] = <<>>] ELSE loaded
    /\ UNCHANGED vars

(* ssh_bind_listen succeeds and ssh_server_start accepts clients.          *)
Serve(p) ==
    /\ Listen(p)
    /\ up' = TRUE
    /\ room' = loaded[p]
    /\ loaded' = [loaded EXCEPT ![p] = <<>>]
    /\ UNCHANGED <<disk, pc, msg, posts, crashes, acked>>

PublishMessage(a) == Publish(a) /\ UNCHANGED <<keyVars, loaded>>

EndServer(p) == Crash /\ Stop(p) /\ UNCHANGED loaded

ServerNext ==
    \/ \E p \in Proc :
          StartProcess(p) \/ RoomCreate(p) \/ SetupHostKey(p) \/ Serve(p) \/ EndServer(p)
    \/ \E a \in Author : PublishMessage(a)

ServerSpec == ServerInit /\ [][ServerNext]_serverVars

-----------------------------------------------------------------------------

ServerTypeOK ==
    /\ TypeOK /\ KeyTypeOK
    /\ loaded \in [Proc -> Seq(Message)]
    /\ up = (Serving # {})

(* The log has both records, m before r.                                   *)
SavedBefore(m, r) == \E i, j \in 1 .. Len(log) : i < j /\ log[i] = m /\ log[j] = r

(* What was acknowledged before a stop is shown after the next start, when *)
(* servers run one after the other and the disk does not cut appends: the  *)
(* new server shows records in the order of the log, and an acknowledged   *)
(* message is missing only if rotation moved it to the backup, or if the   *)
(* room is full of records that were saved after it.  (The log is read     *)
(* before the host key is set up, and shown after that.  A system message  *)
(* is not acknowledged: one whose save failed is gone.)                    *)
RestartShowsAcked ==
    [][~up /\ up' /\ alone /\ ~faulty =>
          /\ \A i, j \in 1 .. Len(room') : i < j => SavedBefore(room'[i], room'[j])
          /\ \A m \in acked :
                \/ m \in ToSet(room') \cup ToSet(Valid(backup)) \cup replaced
                \/ Len(room') = MaxMessages /\ \A r \in ToSet(room') : SavedBefore(m, r)
      ]_serverVars
=============================================================================
