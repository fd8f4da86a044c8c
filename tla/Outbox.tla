------------------------------- MODULE Outbox --------------------------------
(***************************************************************************)
(* The output path of client.c: client_send queues bytes in a bounded      *)
(* buffer and writes as much of it as the channel's window and a budget    *)
(* allow; the main loop flushes the rest with client_flush_output.  An     *)
(* exec session writes directly and treats a closed window as a failure.   *)
(* Every operation runs under io_lock, so each is one action.              *)
(*                                                                         *)
(* The n-th byte handed to client_send is the number n: what counts is     *)
(* which bytes arrive, and in which order.                                 *)
(***************************************************************************)
EXTENDS Integers, Sequences

CONSTANTS
    Capacity,    \* CLIENT_OUTBOX_CAPACITY
    Budget,      \* CLIENT_OUTBOX_FLUSH_BUDGET
    MaxSend,     \* longest buffer handed to client_send
    MaxBytes,    \* bound of the bytes handed over
    MaxWindow    \* bound of the channel window

ASSUME OutboxAssumption ==
    /\ Capacity \in Nat \ {0}
    /\ Budget \in Nat \ {0}
    /\ MaxSend \in Nat
    /\ MaxBytes \in Nat
    /\ MaxWindow \in Nat \ {0}

VARIABLES
    exec,       \* client_is_exec
    allocated,  \* client->outbox is not NULL
    buf,        \* the bytes of client->outbox
    len,        \* outbox_len
    pos,        \* outbox_pos
    connected,  \* client->connected
    given,      \* bytes handed to client_send so far
    wire,       \* bytes the channel has taken
    window      \* ssh_channel_window_size

vars == <<exec, allocated, buf, len, pos, connected, given, wire, window>>

Min2(a, b) == IF a <= b THEN a ELSE b

Init ==
    /\ exec \in BOOLEAN
    /\ allocated = FALSE
    /\ buf = [i \in 1 .. Capacity |-> 0]
    /\ len = 0 /\ pos = 0
    /\ connected = TRUE
    /\ given = 0
    /\ wire = <<>>
    /\ window \in 0 .. MaxWindow

-----------------------------------------------------------------------------
(* client_compact_outbox and the memcpy of client_enqueue_output_locked.   *)

Compacted == [i \in 1 .. Capacity |-> IF i <= len - pos THEN buf[i + pos] ELSE buf[i]]

Room(n) == len - pos + n <= Capacity

(* The buffer with n more bytes after the m that are there.                *)
Enqueued(b, m, n) ==
    [i \in 1 .. Capacity |-> IF i > m /\ i <= m + n THEN given + i - m ELSE b[i]]

(* client_write_direct_locked: k bytes of b from offset p on are written.  *)
Write(b, p, k) ==
    /\ wire' = wire \o [i \in 1 .. k |-> b[p + i]]
    /\ window' = window - k

(* The position after k of m bytes are written: reset at the end.          *)
Advance(p, m, k) ==
    IF p + k >= m THEN pos' = 0 /\ len' = 0 ELSE pos' = p + k /\ len' = m

(* client_flush_output_locked on m bytes from position p of buffer b.      *)
(* An error may come after some bytes were written; the position then      *)
(* stays, and the bytes are not sent again because nothing is.             *)
FlushLocked(b, p, m) ==
    LET k == Min2(Min2(m - p, Budget), window)
    IN  \/ /\ Write(b, p, k)
           /\ Advance(p, m, k)
           /\ UNCHANGED connected
        \/ /\ k > 0
           /\ \E j \in 0 .. k - 1 : Write(b, p, j)
           /\ connected' = FALSE
           /\ pos' = p /\ len' = m

-----------------------------------------------------------------------------
(* client_send.                                                            *)

Handed(n) == given + n <= MaxBytes /\ given' = given + n

(* More than the queue can ever hold, no memory for it, or no room: the    *)
(* client is given up.                                                     *)
SendRejected(n) ==
    /\ connected /\ ~exec
    /\ Handed(n)
    /\ n > Capacity \/ ~allocated \/ ~Room(n)
    /\ connected' = FALSE
    /\ IF n > Capacity \/ ~allocated
       THEN UNCHANGED <<buf, len, pos>>
       ELSE buf' = Compacted /\ len' = len - pos /\ pos' = 0
    /\ UNCHANGED <<exec, allocated, wire, window>>

(* Sending without asking whether the connection still stands.             *)
SendUnchecked(n) ==
    /\ ~exec
    /\ Handed(n)
    /\ n <= Capacity /\ Room(n)
    /\ allocated' = TRUE
    /\ buf' = Enqueued(Compacted, len - pos, n)
    /\ FlushLocked(buf', 0, len - pos + n)
    /\ UNCHANGED exec

Send(n) ==
    /\ connected /\ ~exec
    /\ Handed(n)
    /\ n <= Capacity /\ Room(n)
    /\ allocated' = TRUE
    /\ buf' = Enqueued(Compacted, len - pos, n)
    /\ FlushLocked(buf', 0, len - pos + n)
    /\ UNCHANGED exec

(* The direct write of an exec session.                                    *)
SendExec(n) ==
    /\ connected /\ exec
    /\ Handed(n)
    /\ \E k \in 0 .. Min2(n, window) :
          /\ Write([i \in 1 .. n |-> given + i], 0, k)
          /\ connected' = (k = n)
    /\ UNCHANGED <<exec, allocated, buf, len, pos>>

(* A flush that only ever empties the whole queue.                         *)
FlushOutputAll ==
    /\ connected /\ ~exec
    /\ len - pos <= Min2(Budget, window)
    /\ Write(buf, pos, len - pos)
    /\ pos' = 0 /\ len' = 0
    /\ UNCHANGED <<exec, allocated, buf, connected, given>>

(* client_flush_output, from the main loop.                                *)
FlushOutput ==
    /\ connected /\ ~exec
    /\ IF pos >= len
       THEN pos' = 0 /\ len' = 0 /\ UNCHANGED <<connected, wire, window>>
       ELSE FlushLocked(buf, pos, len)
    /\ UNCHANGED <<exec, allocated, buf, given>>

(* The peer reads (libssh); the peer closes (client_channel_eof and        *)
(* client_channel_close).                                                  *)
WindowAdjust ==
    /\ window < MaxWindow
    /\ window' = window + 1
    /\ UNCHANGED <<exec, allocated, buf, len, pos, connected, given, wire>>

ChannelClose ==
    /\ connected
    /\ connected' = FALSE
    /\ UNCHANGED <<exec, allocated, buf, len, pos, given, wire, window>>

Next ==
    \/ \E n \in 1 .. MaxSend : Send(n) \/ SendRejected(n) \/ SendExec(n)
    \/ FlushOutput \/ WindowAdjust \/ ChannelClose

Spec == Init /\ [][Next]_vars

(* The main loop flushes at least every MAIN_LOOP_POLL_TIMEOUT_MS, and the *)
(* peer keeps reading what it is sent.                                     *)
FairSpec == Spec /\ WF_vars(FlushOutput) /\ WF_vars(WindowAdjust)

-----------------------------------------------------------------------------

TypeOK ==
    /\ exec \in BOOLEAN
    /\ allocated \in BOOLEAN
    /\ buf \in [1 .. Capacity -> Nat]
    /\ len \in 0 .. Capacity
    /\ pos \in 0 .. len
    /\ connected \in BOOLEAN
    /\ given \in Nat
    /\ wire \in Seq(Nat)
    /\ window \in Nat

(* The terminal gets a prefix of what was handed to client_send: nothing   *)
(* is lost, repeated or reordered, whatever the window does, also when the *)
(* connection fails in the middle of a write.                              *)
WireInOrder == \A i \in 1 .. Len(wire) : wire[i] = i

(* While the connection stands, everything handed over and not yet written *)
(* is in the queue, next byte first.                                       *)
QueueComplete ==
    connected => /\ given = Len(wire) + len - pos
                 /\ \A i \in 1 .. len - pos : buf[pos + i] = Len(wire) + i

(* With these the two are inductive: no byte is written that was not       *)
(* handed over, and an exec session queues nothing.                        *)
OutboxInv ==
    /\ TypeOK /\ WireInOrder /\ QueueComplete
    /\ Len(wire) <= given
    /\ exec => len = 0 /\ pos = 0

(* Every operation is a step of OutputStream.                              *)
Stream == INSTANCE OutputStream WITH
    Backlog <- Capacity,
    accepted <- given, delivered <- Len(wire), failed <- ~connected

(* client.c implements OutputStream.                                       *)
ImplementsStream == Stream!Spec

(* What was handed over reaches the terminal, or the connection is lost.   *)
Drains ==
    \A n \in 1 .. MaxBytes :
        (connected /\ given >= n) ~> (Len(wire) >= n \/ ~connected)
=============================================================================
