------------------------------ MODULE Admission ------------------------------
(***************************************************************************)
(* From a TCP connection to a session in the room and back: the accept     *)
(* loop of ssh_server.c, the rate-limit table and connection counter of    *)
(* ratelimit.c, the handshake of bootstrap.c and the entry and cleanup     *)
(* paths of input_run_session.                                             *)
(*                                                                         *)
(* stage[s] is the program counter of connection s: of the accept loop in  *)
(* the AcceptStages, of s's own detached thread afterwards.  One action is *)
(* one critical section of g_rate_limit_lock, g_conn_count_lock or the     *)
(* room lock, or one callback that libssh runs inside ssh_event_dopoll.    *)
(***************************************************************************)
EXTENDS RateLimit, FiniteSets

CONSTANTS
    Session,          \* connection attempts, reused once they have ended
    MaxConnections,   \* g_max_connections; also the room's capacity
    MaxAuthAttempts,  \* password attempts before auth_password disconnects (3)
    MaxTime           \* bound of the clock

ASSUME AdmissionAssumption ==
    /\ IsFiniteSet(Session)
    /\ MaxConnections \in Nat \ {0}
    /\ MaxAuthAttempts \in Nat
    /\ MaxTime \in Nat

VARIABLES
    table,     \* g_rate_limits
    total,     \* g_total_connections
    room,      \* g_room->clients
    now,       \* time(NULL)
    token,     \* TNT_ACCESS_TOKEN is set: read once at startup
    stage,     \* where each connection is
    addr,      \* client_ip of each connection
    sampled,   \* the local `now' a locked operation reads before its lock
    attempts,  \* ctx->auth_attempts
    authed,    \* ctx->auth_success
    channel    \* ctx->channel, channel_ready and exec_command

shared   == <<table, total, room>>
outside  == <<now, token>>
context  == <<attempts, authed, channel>>
vars     == <<shared, outside, stage, addr, sampled, context>>

-----------------------------------------------------------------------------
(* Stages, in the order a connection goes through them.                    *)

AcceptStages == {"counting", "checking", "spawning", "spawn_failed", "rejected"}
HandshakeStages == {"bootstrap", "kex", "polling", "recording", "client"}
SessionStages == {"login", "joined", "leaving"}
CleanupStages == {"failed", "cleanup", "released"}
Stages == {"idle"} \cup AcceptStages \cup HandshakeStages
                   \cup SessionStages \cup CleanupStages

(* Connections counted in total, and those holding a place of their        *)
(* address: between the increment and the decrement of each counter.       *)
Live    == {s \in Session : stage[s] \notin {"idle", "counting"}}
Holding == {s \in Session : stage[s] \notin {"idle", "counting", "checking",
                                             "rejected", "released"}}
Holders(a) == {s \in Holding : addr[s] = a}

Ready == {"shell", "exec"}

Goto(s, st) == stage' = [stage EXCEPT ![s] = st]

(* ssh_free / the end of the thread: the connection is gone.               *)
End(s) ==
    /\ Goto(s, "idle")
    /\ addr' = [addr EXCEPT ![s] = NoIP]
    /\ attempts' = [attempts EXCEPT ![s] = 0]
    /\ authed' = [authed EXCEPT ![s] = FALSE]
    /\ channel' = [channel EXCEPT ![s] = "none"]

Init ==
    /\ table = [i \in Slot |-> EmptyEntry]
    /\ total = 0
    /\ room = {}
    /\ now = 0
    /\ token \in BOOLEAN
    /\ stage = [s \in Session |-> "idle"]
    /\ addr = [s \in Session |-> NoIP]
    /\ sampled = [s \in Session |-> 0]
    /\ attempts = [s \in Session |-> 0]
    /\ authed = [s \in Session |-> FALSE]
    /\ channel = [s \in Session |-> "none"]

-----------------------------------------------------------------------------
(* ssh_server_start: one thread, so one connection in AcceptStages.        *)

Accept(s, a) ==
    /\ stage[s] = "idle"
    /\ \A r \in Session : stage[r] \notin AcceptStages
    /\ Goto(s, "counting")
    /\ addr' = [addr EXCEPT ![s] = a]
    /\ UNCHANGED <<shared, outside, sampled, context>>

(* ratelimit_check_and_increment_total.  ratelimit_check_ip, called next,  *)
(* reads the clock before its lock; only this thread reads either value,   *)
(* so the read joins this step.                                            *)
CheckTotal(s) ==
    /\ stage[s] = "counting"
    /\ IF total >= MaxConnections
       THEN End(s) /\ UNCHANGED <<total, sampled>>
       ELSE /\ total' = total + 1
            /\ sampled' = [sampled EXCEPT ![s] = now]
            /\ Goto(s, "checking")
            /\ UNCHANGED <<addr, context>>
    /\ UNCHANGED <<table, room, outside>>

CheckIp(s) ==
    LET e == GetEntry(table, addr[s], now)
    IN  /\ stage[s] = "checking"
        /\ table' = Store(table, addr[s], CheckedEntry(e, sampled[s]))
        /\ Goto(s, IF Admits(e, sampled[s]) THEN "spawning" ELSE "rejected")
        /\ sampled' = [sampled EXCEPT ![s] = 0]
        /\ UNCHANGED <<total, room, outside, addr, context>>

(* The handler thread is created, or calloc / pthread_create fails.        *)
Spawn(s) ==
    /\ stage[s] = "spawning"
    /\ \E st \in {"bootstrap", "spawn_failed"} : Goto(s, st)
    /\ UNCHANGED <<shared, outside, addr, sampled, context>>

-----------------------------------------------------------------------------
(* The two halves of every exit path, in the code's order: the address is  *)
(* released, then the total.  The accept loop's failed spawn, bootstrap's  *)
(* cleanup_failed_session and input_run_session's cleanup all end so.      *)

ReleaseIp(s) ==
    LET e == GetEntry(table, addr[s], now)
    IN  /\ stage[s] \in {"spawn_failed", "failed", "cleanup"}
        /\ table' = Store(table, addr[s], ReleasedEntry(e))
        /\ Goto(s, IF stage[s] = "spawn_failed" THEN "rejected" ELSE "released")
        /\ UNCHANGED <<total, room, outside, addr, sampled, context>>

(* A refused connection that keeps its place in the total.                 *)
DecrementTotalLeak(s) ==
    /\ stage[s] \in {"rejected", "released"}
    /\ total' = IF stage[s] = "released" THEN total - 1 ELSE total
    /\ End(s)
    /\ UNCHANGED <<table, room, outside, sampled>>

DecrementTotal(s) ==
    /\ stage[s] \in {"rejected", "released"}
    /\ total' = IF total > 0 THEN total - 1 ELSE total
    /\ End(s)
    /\ UNCHANGED <<table, room, outside, sampled>>

-----------------------------------------------------------------------------
(* bootstrap_run.                                                          *)

(* The context is allocated; the key exchange completes and the session    *)
(* joins an event loop; the client is built and its callbacks installed.   *)
(* Each of these can fail, and every failure is a cleanup_failed_session   *)
(* (or its inlined equivalent when there is no context).                   *)
HandshakeStep(s, from, to) ==
    /\ stage[s] = from
    /\ \E st \in {to, "failed"} : Goto(s, st)
    /\ UNCHANGED <<shared, outside, addr, sampled, context>>

StartBootstrap(s) == HandshakeStep(s, "bootstrap", "kex")
KeyExchange(s)    == HandshakeStep(s, "kex", "polling")
CreateClient(s)   == HandshakeStep(s, "client", "login")

(* libssh runs no callback of a session auth_password has disconnected,    *)
(* and no authentication callback after a success.                         *)
Connected(s) == stage[s] = "polling" /\ attempts[s] <= MaxAuthAttempts
Authenticating(s) == Connected(s) /\ ~authed[s]

(* Does auth_password accept the attempt it has just counted?              *)
PasswordAccepted(s, matches) ==
    attempts[s] < MaxAuthAttempts /\ (token => matches)

(* auth_password up to the lock of ratelimit_record_auth_failure.          *)
AuthPassword(s, matches) ==
    /\ Authenticating(s)
    /\ attempts' = [attempts EXCEPT ![s] = @ + 1]
    /\ IF PasswordAccepted(s, matches)
       THEN /\ authed' = [authed EXCEPT ![s] = TRUE]
            /\ UNCHANGED <<stage, sampled>>
       ELSE /\ Goto(s, "recording")
            /\ sampled' = [sampled EXCEPT ![s] = now]
            /\ UNCHANGED authed
    /\ UNCHANGED <<shared, outside, addr, channel>>

RecordAuthFailure(s) ==
    /\ stage[s] = "recording"
    /\ table' = LET e == GetEntry(table, addr[s], now)
                IN  IF RateLimitEnabled
                    THEN Store(table, addr[s], FailedEntry(e, sampled[s]))
                    ELSE table
    /\ Goto(s, "polling")
    /\ sampled' = [sampled EXCEPT ![s] = 0]
    /\ UNCHANGED <<total, room, outside, addr, context>>

(* auth_none, and auth_pubkey once libssh has verified the signature: both *)
(* deny when a token is configured and change nothing else.                *)
AuthWithoutPassword(s) ==
    /\ Authenticating(s)
    /\ ~token
    /\ authed' = [authed EXCEPT ![s] = TRUE]
    /\ UNCHANGED <<shared, outside, stage, addr, sampled, attempts, channel>>

(* channel_open_request_session (a second channel replaces the first and   *)
(* changes nothing here), channel_shell_request and channel_exec_request,  *)
(* whose empty command is stored too and leaves what a shell request does. *)
ChannelRequest(s, from, to) ==
    /\ Connected(s)
    /\ channel[s] \in from
    /\ channel' = [channel EXCEPT ![s] = to]
    /\ UNCHANGED <<shared, outside, stage, addr, sampled, attempts, authed>>

ChannelOpen(s)  == ChannelRequest(s, {"none"}, "open")
ChannelShell(s) == ChannelRequest(s, {"open"}, "shell")
ChannelExec(s)  ==
    \E to \in Ready : ChannelRequest(s, {"open", "shell", "exec"}, to)

(* Trusting the channel alone, as if it implied authentication.            *)
HandshakeCompleteNoAuth(s, timed_out) == channel[s] \in Ready /\ ~timed_out

(* The checks that follow the poll loop.                                   *)
HandshakeComplete(s, timed_out) ==
    authed[s] /\ channel[s] \in Ready /\ ~timed_out

(* A loop without its ten-second limit.                                    *)
PollExitNoTimeout(s) ==
    /\ stage[s] = "polling"
    /\ HandshakeComplete(s, FALSE) \/ attempts[s] > MaxAuthAttempts
    /\ Goto(s, IF HandshakeComplete(s, FALSE) THEN "client" ELSE "failed")
    /\ UNCHANGED <<shared, outside, addr, sampled, context>>

(* The loop ends: everything is there, the poll failed (the peer may leave *)
(* at any moment), or ten seconds have passed.                             *)
PollExit(s) ==
    /\ stage[s] = "polling"
    /\ \E timed_out \in BOOLEAN :
          Goto(s, IF HandshakeComplete(s, timed_out) THEN "client" ELSE "failed")
    /\ UNCHANGED <<shared, outside, addr, sampled, context>>

-----------------------------------------------------------------------------
(* input_run_session.                                                      *)

(* exec_dispatch runs the command and the channel is closed.               *)
ExecDispatch(s) ==
    /\ stage[s] = "login"
    /\ channel[s] = "exec"
    /\ Goto(s, "cleanup")
    /\ UNCHANGED <<shared, outside, addr, sampled, context>>

(* read_username gives up: the peer has left or pressed Ctrl+C or Ctrl+D.  *)
(* Every other input is a name, "anonymous" if it is not a valid one.      *)
ReadUsernameFails(s) ==
    /\ stage[s] = "login"
    /\ channel[s] = "shell"
    /\ Goto(s, "cleanup")
    /\ UNCHANGED <<shared, outside, addr, sampled, context>>

(* room_add_client; a full room sends the client straight to cleanup.      *)
RoomAddClient(s) ==
    /\ stage[s] = "login"
    /\ channel[s] = "shell"
    /\ IF Cardinality(room) >= MaxConnections
       THEN Goto(s, "cleanup") /\ UNCHANGED room
       ELSE Goto(s, "joined") /\ room' = room \cup {s}
    /\ UNCHANGED <<table, total, outside, addr, sampled, context>>

(* The main loop ends: quit, Ctrl+C, idle timeout, a closed channel.       *)
LeaveLoop(s) ==
    /\ stage[s] = "joined"
    /\ Goto(s, "leaving")
    /\ UNCHANGED <<shared, outside, addr, sampled, context>>

(* Cleanup that leaves the client in the room.                             *)
RoomRemoveClientSkipped(s) ==
    /\ stage[s] = "leaving"
    /\ UNCHANGED room
    /\ Goto(s, "cleanup")
    /\ UNCHANGED <<table, total, outside, addr, sampled, context>>

RoomRemoveClient(s) ==
    /\ stage[s] = "leaving"
    /\ room' = room \ {s}
    /\ Goto(s, "cleanup")
    /\ UNCHANGED <<table, total, outside, addr, sampled, context>>

Tick ==
    /\ now < MaxTime
    /\ now' = now + 1
    /\ UNCHANGED <<shared, token, stage, addr, sampled, context>>

-----------------------------------------------------------------------------

(* What the accept loop and the session threads do on their own.           *)
ThreadStep(s) ==
    \/ CheckTotal(s) \/ CheckIp(s) \/ Spawn(s)
    \/ ReleaseIp(s) \/ DecrementTotal(s)
    \/ StartBootstrap(s) \/ KeyExchange(s) \/ CreateClient(s)
    \/ RecordAuthFailure(s) \/ PollExit(s)
    \/ RoomRemoveClient(s)

(* What the peer makes happen: connecting, authenticating, asking for a    *)
(* channel, giving a name, leaving.                                        *)
PeerStep(s) ==
    \/ \E a \in IP : Accept(s, a)
    \/ \E matches \in BOOLEAN : AuthPassword(s, matches)
    \/ AuthWithoutPassword(s)
    \/ ChannelOpen(s) \/ ChannelShell(s) \/ ChannelExec(s)
    \/ ExecDispatch(s) \/ ReadUsernameFails(s)
    \/ RoomAddClient(s) \/ LeaveLoop(s)

Next == Tick \/ \E s \in Session : ThreadStep(s) \/ PeerStep(s)

Spec == Init /\ [][Next]_vars

(* Threads are scheduled, ssh_handle_key_exchange gives up after libssh's  *)
(* default timeout and the poll loop after ten seconds; peers owe nothing. *)
FairSpec == Spec /\ \A s \in Session : WF_vars(ThreadStep(s))

-----------------------------------------------------------------------------

TypeOK ==
    /\ table \in [Slot -> Entry]
    /\ total \in Nat
    /\ room \subseteq Session
    /\ now \in Nat
    /\ token \in BOOLEAN
    /\ stage \in [Session -> Stages]
    /\ addr \in [Session -> IP \cup {NoIP}]
    /\ sampled \in [Session -> Nat]
    /\ attempts \in [Session -> Nat]
    /\ authed \in [Session -> BOOLEAN]
    /\ channel \in [Session -> {"none", "open", "shell", "exec"}]

(* What the table says of an address.                                      *)
Active(a) == GetEntry(table, a, now).active

(* g_total_connections is exactly the number of connections between their  *)
(* increment and their decrement, whichever of the accept loop's,          *)
(* bootstrap_run's and input_run_session's error paths they take.          *)
TotalExact == total = Cardinality(Live)

(* There are never more connections than TNT_MAX_CONNECTIONS at once.      *)
ConnectionLimit == Cardinality(Live) <= MaxConnections

(* The table has the number of the connections that an address has open.   *)
Exact(a) == Active(a) = Cardinality(Holders(a))

(* All slots have open connections, and the slot of this address is given  *)
(* to another one: get_rate_limit_entry then forgets its connections.      *)
EvictedActive(a) ==
    Inactive(table) = {} /\ Tracked(table, a) # {} /\ Tracked(table, a)' = {}

(* A step after which no count is above the connections that are open, and *)
(* none is below that was not, unless it was forgotten.                    *)
CountsFollow ==
    \A a \in IP : /\ Active(a)' <= Cardinality(Holders(a))'
                  /\ Exact(a) => Exact(a)' \/ EvictedActive(a)

(* The table never counts more connections of an address than are open,    *)
(* and a count that is right stays right: no release finds the wrong entry *)
(* or a fresh one, no reuse of a slot drops a connection that is still     *)
(* open while there is another slot to reuse.                              *)
ActiveExact == [][CountsFollow]_vars

(* An address never has more connections open than TNT_MAX_CONN_PER_IP,    *)
(* counted over the connections themselves and not over the table.         *)
PerIpLimit == \A a \in IP : Cardinality(Holders(a)) <= MaxConnPerIp

(* The room holds the joined clients only, and always has space for a      *)
(* client that is about to join: the room-full branch of input_run_session *)
(* cannot be taken, because a client leaves the room before it leaves the  *)
(* total and both limits come from TNT_MAX_CONNECTIONS.                    *)
RoomNeverFull ==
    /\ \A s \in room : stage[s] \in {"joined", "leaving"}
    /\ \A s \in Session : stage[s] = "login" => Cardinality(room) < MaxConnections

(* The inductive strengthening of TotalExact, ConnectionLimit and          *)
(* RoomNeverFull.                                                          *)
CountInv ==
    /\ TotalExact
    /\ total <= MaxConnections
    /\ \A s \in room : stage[s] \in {"joined", "leaving"}

(* The inductive strengthening of ActiveExact: no address has two entries, *)
(* and none counts more connections than are open.                         *)
CountsBounded ==
    /\ \A s \in Session : stage[s] # "idle" => addr[s] \in IP
    /\ \A i, j \in Slot : table[i].ip = table[j].ip /\ table[i].ip # NoIP => i = j
    /\ \A i \in Slot : table[i].ip = NoIP => table[i].active = 0
    /\ \A i \in Slot, a \in IP :
          table[i].ip = a => table[i].active <= Cardinality(Holders(a))

(* The inductive strengthening of PerIpLimit, while there are at least as  *)
(* many slots as connections: no address has two entries, and the entry of *)
(* every address with a connection open is there and exact.                *)
AccountInv ==
    /\ \A s \in Session : stage[s] # "idle" => addr[s] \in IP
    /\ \A i, j \in Slot : table[i].ip = table[j].ip /\ table[i].ip # NoIP => i = j
    /\ \A i \in Slot : table[i].ip = NoIP => table[i].active = 0
    /\ \A i \in Slot, a \in IP :
          table[i].ip = a => table[i].active = Cardinality(Holders(a))
    /\ \A a \in IP : Holders(a) # {} => Tracked(table, a) # {}
    /\ PerIpLimit

(* No connection becomes a client_t, let alone a member of the room,       *)
(* before an authentication callback accepted it, in whatever order the    *)
(* peer sends channel and authentication requests.                         *)
ClientsAuthenticated ==
    \A s \in Session : stage[s] \in {"client"} \cup SessionStages => authed[s]

(* A peer that stops talking during the handshake cannot keep its place:   *)
(* every handshake ends in a running session or in a released connection.  *)
HandshakeEnds ==
    \A s \in Session :
        stage[s] \in HandshakeStages ~> stage[s] \in {"login", "idle"}
=============================================================================
