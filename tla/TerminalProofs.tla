--------------------------- MODULE TerminalProofs ----------------------------
(***************************************************************************)
(* What reaches a user's terminal.  First the output queue: Outbox keeps   *)
(* the stream in order and implements OutputStream, for every capacity,    *)
(* budget and bound.  Then the history view, for every room, any sizes of  *)
(* the terminal and any number of messages: a screen at the live tail      *)
(* shows the newest message, and one in the past is left alone.            *)
(***************************************************************************)
EXTENDS Outbox, HistoryView, FiniteSetTheorems, SequenceTheorems, NaturalsInduction,
        WellFoundedInduction, TLAPS

-----------------------------------------------------------------------------
(* Outbox.                                                                 *)

(* Writing k bytes that continue the wire.                                 *)
LEMMA WriteStep ==
    ASSUME wire \in Seq(Nat), WireInOrder, window \in Nat,
           NEW b, NEW p, NEW k \in Nat, k <= window,
           \A i \in 1 .. k : b[p + i] = Len(wire) + i,
           Write(b, p, k)
    PROVE  /\ wire' \in Seq(Nat) /\ Len(wire') = Len(wire) + k
           /\ WireInOrder' /\ window' \in Nat
<1> DEFINE s == [i \in 1 .. k |-> b[p + i]]
<1>1. Len(wire) \in Nat
  OBVIOUS
<1>2. \A i \in 1 .. k : s[i] = Len(wire) + i /\ s[i] \in Nat
  BY <1>1
<1>3. s \in Seq(Nat) /\ Len(s) = k
  <2>1. s \in [1 .. k -> Nat]
    BY <1>2
  <2> HIDE DEF s
  <2> QED BY <2>1
<1>4. wire' = wire \o s /\ window' = window - k
  BY DEF Write
<1> HIDE DEF s
<1>5. /\ wire' \in Seq(Nat) /\ Len(wire') = Len(wire) + k
      /\ \A i \in 1 .. Len(wire) + Len(s) :
            wire'[i] = IF i <= Len(wire) THEN wire[i] ELSE s[i - Len(wire)]
  BY <1>3, <1>4, ConcatProperties
<1>6. ASSUME NEW i \in 1 .. Len(wire') PROVE wire'[i] = i
  <2>1. CASE i <= Len(wire)
    <3>1. wire'[i] = wire[i]
      BY <1>3, <1>5, <2>1
    <3> QED BY <3>1, <2>1 DEF WireInOrder
  <2>2. CASE i > Len(wire)
    <3>1. wire'[i] = s[i - Len(wire)] /\ i - Len(wire) \in 1 .. k
      BY <1>1, <1>3, <1>5, <2>2
    <3> QED BY <3>1, <1>1, <1>2
  <2> QED BY <1>1, <1>5, <2>1, <2>2
<1>7. WireInOrder'
  BY <1>6 DEF WireInOrder
<1> QED BY <1>4, <1>5, <1>7

(* client_flush_output_locked on a queue that continues the wire: either   *)
(* the rest continues what is written then, or the connection is lost.     *)
LEMMA FlushStep ==
    ASSUME wire \in Seq(Nat), WireInOrder, window \in Nat, connected = TRUE,
           NEW b, NEW m \in 0 .. Capacity, NEW p \in 0 .. m,
           \A i \in 1 .. m - p : b[p + i] = Len(wire) + i,
           FlushLocked(b, p, m)
    PROVE  /\ wire' \in Seq(Nat) /\ WireInOrder' /\ window' \in Nat
           /\ len' \in 0 .. Capacity /\ pos' \in 0 .. len' /\ connected' \in BOOLEAN
           /\ Len(wire') \in Len(wire) .. Len(wire) + (m - p)
           /\ connected' => /\ Len(wire') + (len' - pos') = Len(wire) + (m - p)
                            /\ \A i \in 1 .. len' - pos' : b[pos' + i] = Len(wire') + i
<1> DEFINE k == Min2(Min2(m - p, Budget), window)
<1>1. k \in Nat /\ k <= window /\ k <= m - p
  BY OutboxAssumption DEF Min2
<1>2. \/ Write(b, p, k) /\ Advance(p, m, k) /\ UNCHANGED connected
      \/ /\ k > 0 /\ \E j \in 0 .. k - 1 : Write(b, p, j)
         /\ connected' = FALSE /\ pos' = p /\ len' = m
  BY DEF FlushLocked
<1> HIDE DEF k
<1>3. Len(wire) \in Nat /\ Capacity \in Nat
  BY OutboxAssumption
<1>4. CASE Write(b, p, k) /\ Advance(p, m, k) /\ UNCHANGED connected
  <2>1. \A i \in 1 .. k : b[p + i] = Len(wire) + i
    BY <1>1
  <2>2. /\ wire' \in Seq(Nat) /\ Len(wire') = Len(wire) + k
        /\ WireInOrder' /\ window' \in Nat
    BY <1>1, <1>4, <2>1, WriteStep
  <2>3. CASE p + k >= m
    <3>1. pos' = 0 /\ len' = 0 /\ k = m - p /\ connected' = TRUE
      BY <1>1, <1>4, <2>3 DEF Advance
    <3>2. /\ len' \in 0 .. Capacity /\ pos' \in 0 .. len'
          /\ Len(wire') \in Len(wire) .. Len(wire) + (m - p)
          /\ Len(wire') + (len' - pos') = Len(wire) + (m - p)
      BY <1>1, <1>3, <2>2, <3>1
    <3>3. \A i \in 1 .. len' - pos' : b[pos' + i] = Len(wire') + i
      BY <3>1
    <3> QED BY <2>2, <3>1, <3>2, <3>3
  <2>4. CASE p + k < m
    <3>1. pos' = p + k /\ len' = m
      BY <1>1, <1>4, <2>4 DEF Advance
    <3>2. ASSUME NEW i \in 1 .. len' - pos' PROVE b[pos' + i] = Len(wire') + i
      <4>1. k + i \in 1 .. m - p /\ p + (k + i) = pos' + i
        BY <1>1, <3>1
      <4>2. b[p + (k + i)] = Len(wire) + (k + i)
        BY <4>1
      <4> QED BY <1>1, <1>3, <2>2, <4>1, <4>2
    <3>3. /\ len' \in 0 .. Capacity /\ pos' \in 0 .. len'
          /\ Len(wire') \in Len(wire) .. Len(wire) + (m - p)
          /\ Len(wire') + (len' - pos') = Len(wire) + (m - p)
      BY <1>1, <1>3, <2>2, <2>4, <3>1
    <3>4. connected' = TRUE
      BY <1>4
    <3> QED BY <2>2, <3>2, <3>3, <3>4
  <2> QED BY <1>1, <2>3, <2>4
<1>5. CASE /\ k > 0 /\ \E j \in 0 .. k - 1 : Write(b, p, j)
           /\ connected' = FALSE /\ pos' = p /\ len' = m
  <2>1. PICK j \in 0 .. k - 1 : Write(b, p, j)
    BY <1>5
  <2>2. j \in Nat /\ j <= window /\ j <= m - p
    BY <1>1
  <2>3. \A i \in 1 .. j : b[p + i] = Len(wire) + i
    BY <2>2
  <2>4. /\ wire' \in Seq(Nat) /\ Len(wire') = Len(wire) + j
        /\ WireInOrder' /\ window' \in Nat
    BY <2>1, <2>2, <2>3, WriteStep
  <2>5. /\ len' \in 0 .. Capacity /\ pos' \in 0 .. len'
        /\ Len(wire') \in Len(wire) .. Len(wire) + (m - p)
    BY <1>3, <1>5, <2>2, <2>4
  <2> QED BY <1>5, <2>4, <2>5
<1> QED BY <1>2, <1>4, <1>5

-----------------------------------------------------------------------------
(* Every step keeps the invariant, and is one of OutputStream or none.     *)

StreamStep == [Stream!Next]_(Stream!vars)

(* While the connection stands a step between good states that takes       *)
(* nothing back is a transfer or a failure.                                *)
LEMMA StreamMoves ==
    ASSUME OutboxInv, OutboxInv', connected = TRUE,
           given' >= given, Len(wire') >= Len(wire)
    PROVE  StreamStep
<1>1. /\ given \in Nat /\ given' \in Nat /\ Len(wire) \in Nat /\ Len(wire') \in Nat
      /\ Len(wire') <= given'
  BY DEF OutboxInv, TypeOK
<1>2. connected' \in BOOLEAN
  BY DEF OutboxInv, TypeOK
<1>3. CASE connected' = TRUE
  <2>1. given' - Len(wire') <= Capacity
    <3>1. given' = Len(wire') + len' - pos'
      BY <1>3 DEF OutboxInv, QueueComplete
    <3>2. len' \in 0 .. Capacity /\ pos' \in 0 .. len'
      BY DEF OutboxInv, TypeOK
    <3> QED BY <1>1, <3>1, <3>2, OutboxAssumption
  <2>2. ~(~connected) /\ (~connected)' = ~connected
    BY <1>3
  <2>3. Stream!Transfer
    BY <1>1, <2>1, <2>2 DEF Stream!Transfer
  <2> QED BY <2>3 DEF StreamStep, Stream!Next
<1>4. CASE connected' = FALSE
  <2>1. ~(~connected) /\ (~connected)' = TRUE
    BY <1>4
  <2>2. Stream!Fail
    BY <1>1, <2>1 DEF Stream!Fail
  <2> QED BY <2>2 DEF StreamStep, Stream!Next
<1> QED BY <1>2, <1>3, <1>4

(* A step that the stream does not see.                                    *)
LEMMA StreamStutters ==
    ASSUME UNCHANGED <<given, wire, connected>>
    PROVE  StreamStep
BY DEF StreamStep, Stream!vars

(* client_send of an interactive session: compact, append, flush.          *)
LEMMA SendKeeps ==
    ASSUME OutboxInv, NEW n \in 1 .. MaxSend, Send(n)
    PROVE  OutboxInv' /\ StreamStep
<1> DEFINE m == len - pos
           b == Enqueued(Compacted, m, n)
<1>1. /\ wire \in Seq(Nat) /\ Len(wire) \in Nat /\ window \in Nat /\ given \in Nat
      /\ len \in 0 .. Capacity /\ pos \in 0 .. len /\ Capacity \in Nat /\ n \in Nat
      /\ m \in Nat /\ connected = TRUE /\ exec = FALSE
  BY OutboxAssumption DEF OutboxInv, TypeOK, Send
<1>2. /\ given = Len(wire) + m /\ WireInOrder
      /\ \A i \in 1 .. m : buf[pos + i] = Len(wire) + i
  BY <1>1 DEF OutboxInv, QueueComplete
<1>3. m + n \in 0 .. Capacity
  BY <1>1 DEF Send, Room
<1>4. \A i \in 1 .. m + n : b[i] = Len(wire) + i
  <2> SUFFICES ASSUME NEW i \in 1 .. m + n PROVE b[i] = Len(wire) + i
    OBVIOUS
  <2>1. CASE i <= m
    BY <1>1, <1>2, <1>3, <2>1 DEF Enqueued, Compacted
  <2>2. CASE i > m
    BY <1>1, <1>2, <1>3, <2>2 DEF Enqueued
  <2> QED BY <1>1, <2>1, <2>2
<1>5. b \in [1 .. Capacity -> Nat]
  <2>1. Compacted \in [1 .. Capacity -> Nat]
    BY <1>1 DEF Compacted, OutboxInv, TypeOK
  <2> QED BY <1>1, <2>1 DEF Enqueued
<1>6. /\ buf' = b /\ given' = given + n /\ exec' = exec /\ allocated' = TRUE
      /\ FlushLocked(b, 0, m + n)
  BY DEF Send, Handed
<1> HIDE DEF b
<1>7. /\ wire' \in Seq(Nat) /\ WireInOrder' /\ window' \in Nat
      /\ len' \in 0 .. Capacity /\ pos' \in 0 .. len' /\ connected' \in BOOLEAN
      /\ Len(wire') \in Len(wire) .. Len(wire) + (m + n)
      /\ connected' => /\ Len(wire') + (len' - pos') = Len(wire) + (m + n)
                       /\ \A i \in 1 .. len' - pos' : b[pos' + i] = Len(wire') + i
  <2>1. 0 \in 0 .. m + n /\ (m + n) - 0 = m + n
    BY <1>1
  <2>2. \A i \in 1 .. (m + n) - 0 : b[0 + i] = Len(wire) + i
    BY <1>1, <1>4
  <2> HIDE DEF m
  <2> QED BY <1>1, <1>2, <1>3, <1>6, <2>1, <2>2, FlushStep
<1>8. TypeOK' /\ QueueComplete' /\ Len(wire') <= given'
  <2>1. TypeOK'
    <3>1. exec' \in BOOLEAN /\ allocated' \in BOOLEAN
      BY <1>1, <1>6
    <3>2. buf' \in [1 .. Capacity -> Nat]
      BY <1>5, <1>6
    <3>3. given' \in Nat
      BY <1>1, <1>6
    <3> QED BY <1>7, <3>1, <3>2, <3>3 DEF TypeOK
  <2>2. QueueComplete'
    <3> SUFFICES ASSUME connected'
                 PROVE  /\ given' = Len(wire') + len' - pos'
                        /\ \A i \in 1 .. len' - pos' : buf'[pos' + i] = Len(wire') + i
      BY DEF QueueComplete
    <3>1. /\ Len(wire') + (len' - pos') = Len(wire) + (m + n)
          /\ \A i \in 1 .. len' - pos' : b[pos' + i] = Len(wire') + i
      BY <1>7
    <3>2. given' = Len(wire) + (m + n) /\ buf' = b
      BY <1>1, <1>2, <1>6
    <3>3. Len(wire') \in Nat /\ len' \in Nat /\ pos' \in Nat
      BY <1>1, <1>7
    <3>4. given' = Len(wire') + len' - pos'
      BY <3>1, <3>2, <3>3
    <3> QED BY <3>1, <3>2, <3>4
  <2>3. Len(wire') <= given'
    BY <1>1, <1>2, <1>6, <1>7
  <2> QED BY <2>1, <2>2, <2>3
<1>9. OutboxInv'
  BY <1>1, <1>6, <1>7, <1>8 DEF OutboxInv
<1>10. given' >= given /\ Len(wire') >= Len(wire)
  BY <1>1, <1>6, <1>7
<1> QED BY <1>1, <1>9, <1>10, StreamMoves

(* client_send that gives the client up.                                   *)
LEMMA RejectKeeps ==
    ASSUME OutboxInv, NEW n \in 1 .. MaxSend, SendRejected(n)
    PROVE  OutboxInv' /\ StreamStep
<1>1. /\ wire \in Seq(Nat) /\ Len(wire) \in Nat /\ given \in Nat /\ Len(wire) <= given
      /\ len \in 0 .. Capacity /\ pos \in 0 .. len /\ Capacity \in Nat
      /\ buf \in [1 .. Capacity -> Nat]
  BY OutboxAssumption DEF OutboxInv, TypeOK
<1>2. /\ connected = TRUE /\ connected' = FALSE /\ exec = FALSE /\ exec' = FALSE
      /\ given' = given + n /\ wire' = wire /\ window' = window
      /\ allocated' = allocated
  BY DEF SendRejected, Handed, OutboxInv, TypeOK
<1>3. /\ buf' \in [1 .. Capacity -> Nat]
      /\ len' \in 0 .. Capacity /\ pos' \in 0 .. len'
  <2>1. CASE UNCHANGED <<buf, len, pos>>
    BY <1>1, <2>1
  <2>2. CASE buf' = Compacted /\ len' = len - pos /\ pos' = 0
    BY <1>1, <2>2 DEF Compacted
  <2> QED BY <2>1, <2>2 DEF SendRejected
<1>4. given' \in Nat /\ Len(wire') <= given' /\ given' >= given /\ Len(wire') >= Len(wire)
  BY <1>1, <1>2
<1>5. allocated' \in BOOLEAN /\ window' \in Nat /\ WireInOrder'
  BY <1>2 DEF OutboxInv, TypeOK, WireInOrder
<1>6. TypeOK'
  BY <1>1, <1>2, <1>3, <1>4, <1>5 DEF TypeOK
<1>7. QueueComplete'
  BY <1>2 DEF QueueComplete
<1>8. OutboxInv'
  BY <1>2, <1>4, <1>5, <1>6, <1>7 DEF OutboxInv
<1> QED BY <1>2, <1>4, <1>8, StreamMoves

(* An exec session has nothing queued, so that its bytes continue the wire. *)
LEMMA ExecKeeps ==
    ASSUME OutboxInv, NEW n \in 1 .. MaxSend, SendExec(n)
    PROVE  OutboxInv' /\ StreamStep
<1>1. /\ wire \in Seq(Nat) /\ Len(wire) \in Nat /\ given \in Nat /\ window \in Nat
      /\ WireInOrder /\ n \in Nat
  BY DEF OutboxInv, TypeOK
<1>2. /\ connected = TRUE /\ exec = TRUE /\ len = 0 /\ pos = 0 /\ given' = given + n
      /\ UNCHANGED <<exec, allocated, buf, len, pos>>
  BY DEF SendExec, Handed, OutboxInv, TypeOK
<1>3. given = Len(wire)
  BY <1>1, <1>2 DEF OutboxInv, QueueComplete
<1>4. PICK k \in 0 .. Min2(n, window) :
           Write([i \in 1 .. n |-> given + i], 0, k) /\ connected' = (k = n)
  BY DEF SendExec
<1>5. k \in Nat /\ k <= n /\ k <= window
  BY <1>1, <1>4 DEF Min2
<1>6. \A i \in 1 .. k : [j \in 1 .. n |-> given + j][0 + i] = Len(wire) + i
  BY <1>1, <1>3, <1>5
<1>7. /\ wire' \in Seq(Nat) /\ Len(wire') = Len(wire) + k
      /\ WireInOrder' /\ window' \in Nat
  BY <1>1, <1>4, <1>5, <1>6, WriteStep
<1>8. /\ given' \in Nat /\ Len(wire') <= given' /\ given' >= given
      /\ Len(wire') >= Len(wire)
  BY <1>1, <1>2, <1>3, <1>5, <1>7
<1>9. connected' \in BOOLEAN /\ exec' \in BOOLEAN /\ allocated' \in BOOLEAN
  BY <1>2, <1>4 DEF OutboxInv, TypeOK
<1>10. /\ buf' \in [1 .. Capacity -> Nat] /\ len' \in 0 .. Capacity
       /\ pos' \in 0 .. len' /\ len' = 0 /\ pos' = 0
  BY <1>2 DEF OutboxInv, TypeOK
<1>11. TypeOK'
  BY <1>7, <1>8, <1>9, <1>10 DEF TypeOK
<1>12. QueueComplete'
  <2> SUFFICES ASSUME connected'
               PROVE  /\ given' = Len(wire') + len' - pos'
                      /\ \A i \in 1 .. len' - pos' : buf'[pos' + i] = Len(wire') + i
    BY DEF QueueComplete
  <2>1. k = n
    BY <1>4
  <2> QED BY <1>1, <1>2, <1>3, <1>7, <1>10, <2>1
<1>13. OutboxInv'
  BY <1>7, <1>8, <1>10, <1>11, <1>12 DEF OutboxInv
<1> QED BY <1>2, <1>8, <1>13, StreamMoves

(* client_flush_output from the main loop.                                 *)
LEMMA FlushKeeps ==
    ASSUME OutboxInv, FlushOutput
    PROVE  OutboxInv' /\ StreamStep
<1>1. /\ wire \in Seq(Nat) /\ Len(wire) \in Nat /\ given \in Nat /\ window \in Nat
      /\ len \in 0 .. Capacity /\ pos \in 0 .. len /\ Capacity \in Nat
      /\ WireInOrder
  BY OutboxAssumption DEF OutboxInv, TypeOK
<1>2. /\ connected = TRUE /\ exec = FALSE
      /\ UNCHANGED <<exec, allocated, buf, given>>
  BY DEF FlushOutput, OutboxInv, TypeOK
<1>3. /\ given = Len(wire) + (len - pos)
      /\ \A i \in 1 .. len - pos : buf[pos + i] = Len(wire) + i
  BY <1>1, <1>2 DEF OutboxInv, QueueComplete
<1>4. /\ wire' \in Seq(Nat) /\ WireInOrder' /\ window' \in Nat
      /\ len' \in 0 .. Capacity /\ pos' \in 0 .. len' /\ connected' \in BOOLEAN
      /\ Len(wire') \in Len(wire) .. Len(wire) + (len - pos)
      /\ connected' => /\ Len(wire') + (len' - pos') = Len(wire) + (len - pos)
                       /\ \A i \in 1 .. len' - pos' : buf[pos' + i] = Len(wire') + i
  <2>1. CASE pos >= len
    <3>1. /\ pos' = 0 /\ len' = 0 /\ connected' = TRUE /\ wire' = wire
          /\ window' = window /\ len - pos = 0
      BY <1>1, <1>2, <2>1 DEF FlushOutput
    <3>2. /\ len' \in 0 .. Capacity /\ pos' \in 0 .. len'
          /\ Len(wire') \in Len(wire) .. Len(wire) + (len - pos)
          /\ Len(wire') + (len' - pos') = Len(wire) + (len - pos)
          /\ \A i \in 1 .. len' - pos' : buf[pos' + i] = Len(wire') + i
      BY <1>1, <3>1
    <3>3. WireInOrder'
      BY <1>1, <3>1 DEF WireInOrder
    <3> QED BY <1>1, <3>1, <3>2, <3>3
  <2>2. CASE pos < len
    <3>1. ~(pos >= len)
      BY <1>1, <2>2
    <3>2. FlushLocked(buf, pos, len)
      BY <3>1 DEF FlushOutput
    <3> QED BY <1>1, <1>2, <1>3, <3>2, FlushStep
  <2> QED BY <1>1, <2>1, <2>2
<1>5. given' \in Nat /\ given' >= given /\ Len(wire') <= given' /\ Len(wire') >= Len(wire)
  BY <1>1, <1>2, <1>3, <1>4
<1>6. exec' \in BOOLEAN /\ allocated' \in BOOLEAN /\ buf' \in [1 .. Capacity -> Nat]
  BY <1>2 DEF OutboxInv, TypeOK
<1>7. TypeOK'
  BY <1>4, <1>5, <1>6 DEF TypeOK
<1>8. QueueComplete'
  <2> SUFFICES ASSUME connected'
               PROVE  /\ given' = Len(wire') + len' - pos'
                      /\ \A i \in 1 .. len' - pos' : buf'[pos' + i] = Len(wire') + i
    BY DEF QueueComplete
  <2>1. /\ Len(wire') + (len' - pos') = Len(wire) + (len - pos)
        /\ \A i \in 1 .. len' - pos' : buf[pos' + i] = Len(wire') + i
    BY <1>4
  <2>2. given' = Len(wire) + (len - pos) /\ buf' = buf
    BY <1>2, <1>3
  <2>3. Len(wire') \in Nat /\ len' \in Nat /\ pos' \in Nat
    BY <1>1, <1>4
  <2>4. given' = Len(wire') + len' - pos'
    BY <2>1, <2>2, <2>3
  <2> QED BY <2>1, <2>2, <2>4
<1>9. OutboxInv'
  BY <1>2, <1>4, <1>5, <1>7, <1>8 DEF OutboxInv
<1> QED BY <1>2, <1>5, <1>9, StreamMoves

(* A wider window changes nothing that is queued.                          *)
LEMMA WindowKeeps ==
    ASSUME OutboxInv, WindowAdjust
    PROVE  OutboxInv' /\ StreamStep
<1>1. UNCHANGED <<exec, allocated, buf, len, pos, connected, given, wire>>
  BY DEF WindowAdjust
<1>2. window' \in Nat
  BY DEF WindowAdjust, OutboxInv, TypeOK
<1>3. OutboxInv'
  BY <1>1, <1>2 DEF OutboxInv, TypeOK, WireInOrder, QueueComplete
<1> QED BY <1>1, <1>3, StreamStutters

(* A closed channel stops the stream.                                      *)
LEMMA CloseKeeps ==
    ASSUME OutboxInv, ChannelClose
    PROVE  OutboxInv' /\ StreamStep
<1>1. /\ connected = TRUE /\ connected' = FALSE
      /\ UNCHANGED <<exec, allocated, buf, len, pos, given, wire, window>>
  BY DEF ChannelClose, OutboxInv, TypeOK
<1>2. OutboxInv'
  BY <1>1 DEF OutboxInv, TypeOK, WireInOrder, QueueComplete
<1>3. given' >= given /\ Len(wire') >= Len(wire)
  BY <1>1 DEF OutboxInv, TypeOK
<1> QED BY <1>1, <1>2, <1>3, StreamMoves

-----------------------------------------------------------------------------

(* A new client has sent nothing, concretely and abstractly.               *)
LEMMA InitOutbox == Init => OutboxInv /\ Stream!Init
<1> SUFFICES ASSUME Init PROVE OutboxInv /\ Stream!Init
  OBVIOUS
<1>1. /\ exec \in BOOLEAN /\ allocated = FALSE /\ len = 0 /\ pos = 0 /\ connected = TRUE
      /\ given = 0 /\ wire = <<>> /\ window \in 0 .. MaxWindow
      /\ buf = [i \in 1 .. Capacity |-> 0]
  BY DEF Init
<1>2. wire \in Seq(Nat) /\ Len(wire) = 0 /\ window \in Nat
  BY <1>1, OutboxAssumption
<1>3. TypeOK
  <2>1. buf \in [1 .. Capacity -> Nat]
    BY <1>1
  <2>2. len \in 0 .. Capacity /\ pos \in 0 .. len /\ given \in Nat
    BY <1>1, OutboxAssumption
  <2>3. allocated \in BOOLEAN /\ connected \in BOOLEAN
    BY <1>1
  <2> QED BY <1>1, <1>2, <2>1, <2>2, <2>3 DEF TypeOK
<1>4. WireInOrder /\ QueueComplete
  BY <1>1, <1>2 DEF WireInOrder, QueueComplete
<1>5. Stream!Init
  BY <1>1, <1>2 DEF Stream!Init
<1> QED BY <1>1, <1>2, <1>3, <1>4, <1>5 DEF OutboxInv

(* One step per action: each keeps the invariant and is a step of          *)
(* OutputStream or a stutter.                                              *)
LEMMA StepOutbox == OutboxInv /\ [Next]_vars => OutboxInv' /\ StreamStep
<1> SUFFICES ASSUME OutboxInv, [Next]_vars PROVE OutboxInv' /\ StreamStep
  OBVIOUS
<1>1. ASSUME NEW n \in 1 .. MaxSend, Send(n) \/ SendRejected(n) \/ SendExec(n)
      PROVE  OutboxInv' /\ StreamStep
  BY <1>1, SendKeeps, RejectKeeps, ExecKeeps
<1>2. CASE FlushOutput \/ WindowAdjust \/ ChannelClose
  BY <1>2, FlushKeeps, WindowKeeps, CloseKeeps
<1>3. CASE UNCHANGED vars
  <2>1. OutboxInv'
    BY <1>3 DEF vars, OutboxInv, TypeOK, WireInOrder, QueueComplete
  <2> QED BY <1>3, <2>1, StreamStutters DEF vars
<1> QED BY <1>1, <1>2, <1>3 DEF Next

(* The inductive invariant of the output queue.                            *)
THEOREM OutboxInvariant == Spec => []OutboxInv
<1> QED BY InitOutbox, StepOutbox, PTL DEF Spec

(* Positions and lengths stay within the buffer.                           *)
THEOREM OutboxTypeCorrect == Spec => []TypeOK
<1>1. OutboxInv => TypeOK
  BY DEF OutboxInv
<1> QED BY <1>1, OutboxInvariant, PTL

(* For every capacity, budget and sequence of sends the terminal gets a    *)
(* prefix of what was handed to client_send.                               *)
THEOREM WireIsInOrder == Spec => []WireInOrder
<1>1. OutboxInv => WireInOrder
  BY DEF OutboxInv
<1> QED BY <1>1, OutboxInvariant, PTL

(* While the connection stands the queue is the rest of the stream.        *)
THEOREM QueueIsComplete == Spec => []QueueComplete
<1>1. OutboxInv => QueueComplete
  BY DEF OutboxInv
<1> QED BY <1>1, OutboxInvariant, PTL

(* client_send and client_flush_output implement the abstract stream.      *)
THEOREM OutboxImplementsStream == Spec => ImplementsStream
<1>1. Init => Stream!Init
  BY InitOutbox
<1>2. OutboxInv /\ [Next]_vars => [Stream!Next]_(Stream!vars)
  BY StepOutbox DEF StreamStep
<1> QED BY <1>1, <1>2, OutboxInvariant, PTL DEF Spec, Stream!Spec, ImplementsStream

-----------------------------------------------------------------------------
(* Induction, for the least element of a set and for scans.                *)

LEMMA LeastNatural ==
    ASSUME NEW U \in SUBSET Nat, U # {}
    PROVE  \E k \in U : \A j \in U : k <= j
<1> DEFINE R == OpToRel(<, Nat)
<1>1. IsWellFoundedOn(R, Nat)
  BY NatLessThanWellFounded
<1>2. \A i, j \in Nat : i < j => <<i, j>> \in R
  BY DEF OpToRel
<1> HIDE DEF R
<1>3. \E k \in U : \A j \in U : ~(<<j, k>> \in R)
  BY <1>1, WFMin
<1>4. PICK k \in U : \A j \in U : ~(<<j, k>> \in R)
  BY <1>3
<1>5. ASSUME NEW j \in U
      PROVE  k <= j
  <2>1. k \in Nat /\ j \in Nat /\ ~(j < k)
    BY <1>2, <1>4, <1>5
  <2> QED BY <2>1
<1> QED BY <1>5

LEMMA IndexInduction ==
    ASSUME NEW n \in Nat, NEW T \in SUBSET (0 .. n), 0 \in T,
           \A i \in T : i < n => i + 1 \in T
    PROVE  \A i \in 0 .. n : i \in T
<1>1. SUFFICES ASSUME NEW m \in 0 .. n, m \notin T
               PROVE  FALSE
  OBVIOUS
<1> DEFINE U == {i \in Nat : i <= n /\ i \notin T}
<1>2. U \in SUBSET Nat /\ U # {}
  BY <1>1
<1>3. PICK k \in U : \A j \in U : k <= j
  BY <1>2, LeastNatural
<1>4. k # 0 /\ k - 1 \in 0 .. n /\ k - 1 \in T
  BY <1>3
<1> QED BY <1>3, <1>4

LEMMA LeastOf ==
    ASSUME NEW U \in SUBSET Nat, U # {}
    PROVE  Min(U) \in U
<1>1. \E k \in U : \A j \in U : k =< j
  BY LeastNatural
<1> QED BY <1>1 DEF Min

LEMMA GreatestOf ==
    ASSUME NEW n \in Nat, NEW U \in SUBSET (0 .. n), U # {}
    PROVE  Max(U) \in U /\ \A j \in U : j <= Max(U)
<1> DEFINE W == {n - i : i \in U}
<1>1. W \in SUBSET Nat /\ W # {}
  OBVIOUS
<1>2. PICK w \in W : \A v \in W : w <= v
  BY <1>1, LeastNatural
<1>3. PICK k \in U : w = n - k
  BY <1>2
<1>4. ASSUME NEW j \in U
      PROVE  k >= j
  <2>1. n - j \in W
    OBVIOUS
  <2>2. n - k <= n - j
    BY <1>2, <1>3, <2>1
  <2> QED BY <2>2
<1>5. \E x \in U : \A y \in U : x >= y
  BY <1>4
<1>6. Max(U) \in U /\ \A y \in U : Max(U) >= y
  BY <1>5 DEF Max
<1> QED BY <1>6

-----------------------------------------------------------------------------
(* The messages a user sees.                                               *)

ChatStep(s, f, i) ==
    IF i = 0 THEN <<>> ELSE IF s[i].sys THEN f[i - 1] ELSE Append(f[i - 1], s[i])

ChatScan(s) == CHOOSE f : f = [i \in 0 .. Len(s) |-> ChatStep(s, f, i)]

LEMMA ChatIsScan ==
    ASSUME NEW s
    PROVE  Chat(s) = ChatScan(s)[Len(s)]
  BY DEF Chat, ChatScan, ChatStep

(* The recursive function of Chat exists: its values up to n + 1 follow    *)
(* from those up to n.                                                     *)
LEMMA ChatScanExists ==
    ASSUME NEW s, Len(s) \in Nat
    PROVE  ChatScan(s) = [i \in 0 .. Len(s) |-> ChatStep(s, ChatScan(s), i)]
<1> DEFINE T == {n \in 0 .. Len(s) : \E f : f = [i \in 0 .. n |-> ChatStep(s, f, i)]}
<1>1. 0 \in T
  <2> DEFINE f == [i \in 0 .. 0 |-> <<>>]
  <2>1. f = [i \in 0 .. 0 |-> ChatStep(s, f, i)]
    BY DEF ChatStep
  <2>2. 0 \in 0 .. Len(s)
    OBVIOUS
  <2> QED BY <2>1, <2>2
<1>2. ASSUME NEW n \in T, n < Len(s)
      PROVE  n + 1 \in T
  <2>1. n \in 0 .. Len(s) /\ n + 1 \in 0 .. Len(s)
    BY <1>2
  <2>2. PICK f : f = [i \in 0 .. n |-> ChatStep(s, f, i)]
    BY <1>2
  <2> DEFINE g == [i \in 0 .. n + 1 |-> IF i = n + 1 THEN ChatStep(s, f, i) ELSE f[i]]
  <2>3. ASSUME NEW i \in 0 .. n + 1
        PROVE  g[i] = ChatStep(s, g, i)
    <3>1. g[i] = ChatStep(s, f, i)
      BY <2>1, <2>2, <2>3
    <3>2. CASE i = 0
      BY <3>1, <3>2 DEF ChatStep
    <3>3. CASE i # 0
      <4>1. i - 1 \in 0 .. n + 1 /\ i - 1 # n + 1
        BY <2>1, <2>3, <3>3
      <4>2. g[i - 1] = f[i - 1]
        BY <4>1
      <4> HIDE DEF g
      <4> QED BY <3>1, <3>3, <4>2 DEF ChatStep
    <3> QED BY <3>2, <3>3
  <2>4. g = [i \in 0 .. n + 1 |-> g[i]]
    OBVIOUS
  <2> HIDE DEF g
  <2>5. g = [i \in 0 .. n + 1 |-> ChatStep(s, g, i)]
    BY <2>3, <2>4
  <2> QED BY <2>1, <2>5
<1> HIDE DEF T
<1>3. T \in SUBSET (0 .. Len(s))
  BY DEF T
<1>4. Len(s) \in T
  <2>1. \A i \in 0 .. Len(s) : i \in T
    BY <1>1, <1>2, <1>3, IndexInduction
  <2> QED BY <2>1
<1>5. \E f : f = [i \in 0 .. Len(s) |-> ChatStep(s, f, i)]
  BY <1>4 DEF T
<1> QED BY <1>5 DEF ChatScan

LEMMA ChatScanSteps ==
    ASSUME NEW s, Len(s) \in Nat
    PROVE  /\ ChatScan(s)[0] = <<>>
           /\ \A i \in 1 .. Len(s) :
                 /\ s[i].sys => ChatScan(s)[i] = ChatScan(s)[i - 1]
                 /\ ~s[i].sys => ChatScan(s)[i] = Append(ChatScan(s)[i - 1], s[i])
<1>1. \A i \in 0 .. Len(s) : ChatScan(s)[i] = ChatStep(s, ChatScan(s), i)
  BY ChatScanExists
<1>2. ChatStep(s, ChatScan(s), 0) = <<>>
  BY DEF ChatStep
<1>3. ASSUME NEW i \in 1 .. Len(s)
      PROVE  /\ i \in 0 .. Len(s) /\ i # 0
             /\ s[i].sys => ChatStep(s, ChatScan(s), i) = ChatScan(s)[i - 1]
             /\ ~s[i].sys => ChatStep(s, ChatScan(s), i) = Append(ChatScan(s)[i - 1], s[i])
  BY DEF ChatStep
<1> QED BY <1>1, <1>2, <1>3

(* A scan depends on what it has read only.                                *)
LEMMA ChatScanPrefix ==
    ASSUME NEW s, NEW t, Len(s) \in Nat, Len(t) \in Nat, Len(s) <= Len(t),
           \A i \in 1 .. Len(s) : t[i] = s[i]
    PROVE  \A i \in 0 .. Len(s) : ChatScan(t)[i] = ChatScan(s)[i]
<1> DEFINE T == {i \in 0 .. Len(s) : ChatScan(t)[i] = ChatScan(s)[i]}
<1>1. 0 \in T
  BY ChatScanSteps
<1>2. ASSUME NEW i \in T, i < Len(s)
      PROVE  i + 1 \in T
  <2>1. /\ i + 1 \in 1 .. Len(s) /\ i + 1 \in 1 .. Len(t) /\ i + 1 \in 0 .. Len(s)
        /\ (i + 1) - 1 = i
    BY <1>2
  <2>2. ChatScan(t)[i] = ChatScan(s)[i] /\ t[i + 1] = s[i + 1]
    BY <1>2, <2>1
  <2>3. ChatScan(t)[i + 1] = ChatScan(s)[i + 1]
    <3>1. CASE s[i + 1].sys
      BY <2>1, <2>2, <3>1, ChatScanSteps
    <3>2. CASE ~s[i + 1].sys
      <4>1. ChatScan(s)[i + 1] = Append(ChatScan(s)[(i + 1) - 1], s[i + 1])
        BY <2>1, <3>2, ChatScanSteps
      <4>2. ChatScan(t)[i + 1] = Append(ChatScan(t)[(i + 1) - 1], t[i + 1])
        BY <2>1, <2>2, <3>2, ChatScanSteps
      <4>3. ChatScan(t)[(i + 1) - 1] = ChatScan(s)[(i + 1) - 1]
        BY <2>1, <2>2
      <4> QED BY <2>2, <4>1, <4>2, <4>3
    <3> QED BY <3>1, <3>2
  <2> QED BY <2>1, <2>3
<1> HIDE DEF T
<1>3. T \in SUBSET (0 .. Len(s))
  BY DEF T
<1>4. \A i \in 0 .. Len(s) : i \in T
  BY <1>1, <1>2, <1>3, IndexInduction
<1> QED BY <1>4 DEF T

(* What a reader of s has seen of it at place n.                           *)
ReadUpTo(r, s, n) ==
    /\ r \in Seq(Message) /\ Len(r) <= n
    /\ \A k \in 1 .. Len(r) : \E i \in 1 .. n : r[k] = s[i] /\ ~s[i].sys
    /\ \A i \in 1 .. n : ~s[i].sys => Len(r) > 0 /\ \E j \in i .. n : r[Len(r)] = s[j]

LEMMA ReadUpToMore ==
    ASSUME NEW s, NEW n \in Nat, NEW r, ReadUpTo(r, s, n)
    PROVE  /\ s[n + 1].sys => ReadUpTo(r, s, n + 1)
           /\ ~s[n + 1].sys /\ s[n + 1] \in Message => ReadUpTo(Append(r, s[n + 1]), s, n + 1)
<1>1. /\ r \in Seq(Message) /\ Len(r) <= n /\ Len(r) \in Nat
      /\ \A k \in 1 .. Len(r) : \E i \in 1 .. n : r[k] = s[i] /\ ~s[i].sys
      /\ \A i \in 1 .. n : ~s[i].sys => Len(r) > 0 /\ \E j \in i .. n : r[Len(r)] = s[j]
  BY LenProperties DEF ReadUpTo
<1>2. ASSUME s[n + 1].sys
      PROVE  ReadUpTo(r, s, n + 1)
  <2>1. \A k \in 1 .. Len(r) : \E i \in 1 .. n + 1 : r[k] = s[i] /\ ~s[i].sys
    BY <1>1
  <2>2. ASSUME NEW i \in 1 .. n + 1, ~s[i].sys
        PROVE  Len(r) > 0 /\ \E j \in i .. n + 1 : r[Len(r)] = s[j]
    <3>1. i \in 1 .. n
      BY <1>2, <2>2
    <3>2. PICK j \in i .. n : r[Len(r)] = s[j]
      BY <1>1, <2>2, <3>1
    <3>3. j \in i .. n + 1
      BY <3>1
    <3> QED BY <1>1, <2>2, <3>1, <3>2, <3>3
  <2> QED BY <1>1, <2>1, <2>2 DEF ReadUpTo
<1>3. ASSUME ~s[n + 1].sys, s[n + 1] \in Message
      PROVE  ReadUpTo(Append(r, s[n + 1]), s, n + 1)
  <2> DEFINE w == Append(r, s[n + 1])
  <2>1. /\ w \in Seq(Message) /\ Len(w) = Len(r) + 1 /\ w[Len(r) + 1] = s[n + 1]
        /\ \A k \in 1 .. Len(r) : w[k] = r[k]
    BY <1>1, <1>3, AppendProperties
  <2> HIDE DEF w
  <2>2. ASSUME NEW k \in 1 .. Len(w)
        PROVE  \E i \in 1 .. n + 1 : w[k] = s[i] /\ ~s[i].sys
    <3>1. CASE k \in 1 .. Len(r)
      <4>1. PICK i \in 1 .. n : r[k] = s[i] /\ ~s[i].sys
        BY <1>1, <3>1
      <4> QED BY <2>1, <3>1, <4>1
    <3>2. CASE k = Len(r) + 1
      BY <1>3, <2>1, <3>2
    <3> QED BY <1>1, <2>1, <3>1, <3>2
  <2>3. \A i \in 1 .. n + 1 : \E j \in i .. n + 1 : w[Len(w)] = s[j]
    BY <2>1
  <2>4. Len(w) > 0 /\ Len(w) <= n + 1
    BY <1>1, <2>1
  <2> QED BY <2>1, <2>2, <2>3, <2>4 DEF ReadUpTo, w
<1> QED BY <1>2, <1>3

LEMMA ChatReads ==
    ASSUME NEW s \in Seq(Message)
    PROVE  ReadUpTo(Chat(s), s, Len(s))
<1> DEFINE T == {i \in 0 .. Len(s) : ReadUpTo(ChatScan(s)[i], s, i)}
<1>1. Len(s) \in Nat /\ \A i \in 1 .. Len(s) : s[i] \in Message
  BY LenProperties, ElementOfSeq
<1>2. 0 \in T
  <2>1. ChatScan(s)[0] = <<>>
    BY <1>1, ChatScanSteps
  <2>2. ReadUpTo(<<>>, s, 0)
    BY EmptySeq DEF ReadUpTo
  <2> QED BY <1>1, <2>1, <2>2
<1>3. ASSUME NEW i \in T, i < Len(s)
      PROVE  i + 1 \in T
  <2>1. i + 1 \in 1 .. Len(s) /\ i + 1 \in 0 .. Len(s) /\ (i + 1) - 1 = i /\ i \in Nat
    BY <1>1, <1>3
  <2>2. ReadUpTo(ChatScan(s)[i], s, i)
    BY <1>3
  <2> HIDE DEF T
  <2>3. ReadUpTo(ChatScan(s)[i + 1], s, i + 1)
    <3>1. CASE s[i + 1].sys
      <4>1. ChatScan(s)[i + 1] = ChatScan(s)[(i + 1) - 1]
        BY <1>1, <2>1, <3>1, ChatScanSteps
      <4> QED BY <2>1, <2>2, <3>1, <4>1, ReadUpToMore
    <3>2. CASE ~s[i + 1].sys
      <4>1. ChatScan(s)[i + 1] = Append(ChatScan(s)[(i + 1) - 1], s[i + 1])
        BY <1>1, <2>1, <3>2, ChatScanSteps
      <4> QED BY <1>1, <2>1, <2>2, <3>2, <4>1, ReadUpToMore
    <3> QED BY <3>1, <3>2
  <2> QED BY <2>1, <2>3 DEF T
<1>4. T \in SUBSET (0 .. Len(s))
  OBVIOUS
<1> HIDE DEF T
<1>5. \A i \in 0 .. Len(s) : i \in T
  BY <1>1, <1>2, <1>3, <1>4, IndexInduction
<1>6. Len(s) \in T
  BY <1>1, <1>5
<1> QED BY <1>6, ChatIsScan DEF T

(* One more message is seen after the others, or not at all.               *)
LEMMA ChatMore ==
    ASSUME NEW s \in Seq(Message), NEW m \in Message
    PROVE  Chat(Append(s, m)) = IF m.sys THEN Chat(s) ELSE Append(Chat(s), m)
<1> DEFINE t == Append(s, m)
           n == Len(s)
<1>1. /\ t \in Seq(Message) /\ Len(t) = n + 1 /\ t[n + 1] = m
      /\ \A i \in 1 .. n : t[i] = s[i]
      /\ n \in Nat /\ Len(t) \in Nat
  BY AppendProperties, LenProperties
<1> HIDE DEF t
<1>2. Chat(t) = ChatScan(t)[n + 1] /\ Chat(s) = ChatScan(s)[n]
  BY <1>1, ChatIsScan
<1>3. ChatScan(t)[n] = ChatScan(s)[n]
  BY <1>1, ChatScanPrefix
<1>4. n + 1 \in 1 .. Len(t) /\ (n + 1) - 1 = n
  BY <1>1
<1>5. CASE m.sys
  <2>1. ChatScan(t)[n + 1] = ChatScan(t)[(n + 1) - 1]
    BY <1>1, <1>4, <1>5, ChatScanSteps
  <2> QED BY <1>2, <1>3, <1>4, <1>5, <2>1 DEF t
<1>6. CASE ~m.sys
  <2>1. ChatScan(t)[n + 1] = Append(ChatScan(t)[(n + 1) - 1], t[n + 1])
    BY <1>1, <1>4, <1>6, ChatScanSteps
  <2> QED BY <1>1, <1>2, <1>3, <1>4, <1>6, <2>1 DEF t
<1> QED BY <1>5, <1>6

(* What the user sees are messages of the room, no newer one is hidden     *)
(* than the last, and what comes is seen after it.                         *)
LEMMA VisibleReads ==
    ASSUME messages \in Seq(Message), mute \in BOOLEAN
    PROVE  /\ Visible \in Seq(Message) /\ Len(Visible) \in Nat
           /\ Len(Visible) <= Len(messages) /\ (~mute => Visible = messages)
           /\ \A k \in 1 .. Len(Visible) :
                 \E i \in 1 .. Len(messages) : /\ Visible[k] = messages[i]
                                               /\ mute => ~messages[i].sys
           /\ \A i \in 1 .. Len(messages) : ~mute \/ ~messages[i].sys =>
                 Len(Visible) > 0 /\ \E j \in i .. Len(messages) : Visible[Len(Visible)] = messages[j]
<1>1. Len(messages) \in Nat
  BY LenProperties
<1>2. CASE mute
  <2>1. Visible = Chat(messages) /\ ReadUpTo(Chat(messages), messages, Len(messages))
    BY <1>2, ChatReads DEF Visible
  <2> QED BY <1>1, <1>2, <2>1, LenProperties DEF ReadUpTo
<1>3. CASE ~mute
  <2>1. Visible = messages
    BY <1>3 DEF Visible
  <2> QED BY <1>1, <1>3, <2>1
<1> QED BY <1>2, <1>3

-----------------------------------------------------------------------------
(* Rows and slices.                                                        *)

LEMMA HeightType ==
    ASSUME NEW h \in Heights
    PROVE  h \in Nat /\ Height(h) \in Nat /\ Height(h) >= 1
  BY HistoryAssumption DEF Height, Larger

LEMMA RowsBounds ==
    ASSUME NEW s, Len(s) \in Nat
    PROVE  Rows(s) \in Nat /\ Len(s) <= Rows(s) /\ Rows(s) <= 2 * Len(s)
<1> DEFINE n == Len(s)
           D == {i \in 1 .. n : i = 1 \/ s[i].day # s[i - 1].day}
<1>1. IsFiniteSet(1 .. n) /\ Cardinality(1 .. n) = n
  <2>1. 1 \in Int /\ n \in Int /\ n \in Nat /\ (1 > n => n = 0) /\ n - 1 + 1 = n
    OBVIOUS
  <2> HIDE DEF n
  <2>2. IsFiniteSet(1 .. n) /\ Cardinality(1 .. n) = IF 1 > n THEN 0 ELSE n - 1 + 1
    BY <2>1, FS_Interval
  <2> QED BY <2>1, <2>2
<1>2. D \subseteq 1 .. n
  OBVIOUS
<1>3. Rows(s) = n + Cardinality(D)
  BY DEF Rows
<1> HIDE DEF D, n
<1>4. Cardinality(D) \in Nat /\ Cardinality(D) <= n
  BY <1>1, <1>2, FS_Subset, FS_CardinalityType
<1> QED BY <1>3, <1>4 DEF n

(* A slice that fits is drawn, and what is drawn begins a slice.           *)
LEMMA DrawnSlice ==
    ASSUME NEW s \in Seq(Message), NEW h
    PROVE  /\ Drawn(s, h) \in Seq(Message)
           /\ Rows(s) <= h => Drawn(s, h) = s
<1> DEFINE n == Len(s)
           U == {0} \cup {i \in 1 .. n : Rows(SubSeq(s, 1, i)) <= h}
           m == Max(U)
<1>1. n \in Nat /\ \A i \in 1 .. n : s[i] \in Message
  BY LenProperties, ElementOfSeq
<1>2. U \in SUBSET (0 .. n) /\ U # {}
  BY <1>1
<1>3. Rows(s) <= h => n \in U
  <2>1. SubSeq(s, 1, n) = s
    BY SubSeqFull
  <2> HIDE DEF n
  <2>2. ASSUME Rows(s) <= h, n # 0
        PROVE  n \in {i \in 1 .. n : Rows(SubSeq(s, 1, i)) <= h}
    <3>1. n \in 1 .. n
      BY <1>1, <2>2
    <3>2. Rows(SubSeq(s, 1, n)) <= h
      <4> DEFINE w == SubSeq(s, 1, n)
      <4>1. w = s
        BY <2>1
      <4> HIDE DEF w
      <4>2. Rows(w) <= h
        BY <2>2, <4>1
      <4> QED BY <4>2 DEF w
    <3> QED BY <3>1, <3>2
  <2> QED BY <2>2
<1>4. Drawn(s, h) = SubSeq(s, 1, m)
  BY DEF Drawn
<1> HIDE DEF U, n
<1>5. m \in U /\ \A j \in U : j <= m
  BY <1>1, <1>2, GreatestOf
<1> HIDE DEF m
<1>6. m \in 0 .. n
  BY <1>2, <1>5
<1>7. SubSeq(s, 1, m) \in Seq(Message)
  <2>1. m \in Int /\ 1 \in Int /\ \A i \in 1 .. m : s[i] \in Message
    BY <1>1, <1>6
  <2> QED BY <2>1, SubSeqProperties
<1>8. ASSUME Rows(s) <= h
      PROVE  Drawn(s, h) = s
  <2>1. m = n
    BY <1>1, <1>3, <1>5, <1>6, <1>8
  <2> QED BY <1>4, <2>1, SubSeqFull DEF n
<1> QED BY <1>4, <1>7, <1>8

(* The latest messages fit, if there are two rows for one.                 *)
LEMMA LatestFits ==
    ASSUME NEW s \in Seq(Message), NEW h \in Nat
    PROVE  /\ LatestStart(s, h) \in Nat /\ LatestStart(s, h) <= Len(s)
           /\ Len(s) > 0 /\ h >= 2 =>
                 /\ LatestStart(s, h) < Len(s)
                 /\ Rows(SubSeq(s, LatestStart(s, h) + 1, Len(s))) <= h
<1> DEFINE n == Len(s)
           Fits(l) == Rows(SubSeq(s, l + 1, n)) <= h
           U == {k \in 0 .. n - 1 : \A l \in k .. n - 1 : Fits(l)}
<1>1. n \in Nat /\ \A i \in 1 .. n : s[i] \in Message
  BY LenProperties, ElementOfSeq
<1>2. LatestStart(s, h) = IF U = {} THEN Larger(n - 1, 0) ELSE Min(U)
  BY DEF LatestStart
<1>3. ASSUME n > 0, h >= 2
      PROVE  n - 1 \in U
  <2>1. Fits(n - 1)
    <3> DEFINE t == SubSeq(s, n, n)
    <3>1. n \in Int /\ n - n + 1 = 1 /\ \A i \in n .. n : s[i] \in Message
      BY <1>1, <1>3
    <3>2. Len(t) = IF n <= n THEN n - n + 1 ELSE 0
      BY <3>1, SubSeqProperties
    <3>3. Len(t) = 1
      BY <3>1, <3>2
    <3>4. (n - 1) + 1 = n
      BY <1>1
    <3> HIDE DEF t, n
    <3>5. Rows(t) \in Nat /\ Rows(t) <= 2 * Len(t)
      <4>1. Len(t) \in Nat
        BY <3>3
      <4> QED BY <4>1, RowsBounds
    <3>6. Rows(t) <= h
      BY <1>3, <3>3, <3>5
    <3> QED BY <3>4, <3>6 DEF t
  <2>2. \A l \in n - 1 .. n - 1 : l = n - 1
    BY <1>1
  <2> HIDE DEF Fits
  <2> QED BY <1>1, <1>3, <2>1, <2>2
<1>4. \A k \in U : k \in 0 .. n - 1 /\ Fits(k)
  <2> HIDE DEF Fits
  <2>1. \A k \in 0 .. n - 1 : k \in k .. n - 1
    BY <1>1
  <2> QED BY <2>1
<1>5. U \in SUBSET Nat
  BY <1>1
<1> HIDE DEF U
<1>6. CASE U = {}
  <2>1. LatestStart(s, h) = Larger(n - 1, 0)
    BY <1>2, <1>6
  <2>2. ~(n > 0 /\ h >= 2)
    BY <1>3, <1>6
  <2> QED BY <1>1, <2>1, <2>2 DEF Larger
<1>7. CASE U # {}
  <2> DEFINE k == LatestStart(s, h)
  <2>1. k \in U
    BY <1>2, <1>5, <1>7, LeastOf
  <2>2. k \in 0 .. n - 1 /\ Fits(k)
    BY <1>4, <2>1
  <2> QED BY <1>1, <2>2
<1> QED BY <1>6, <1>7

(* Where the user has scrolled to, when the screen is not at the latest.   *)
InPast(count) == mode = "normal" /\ ~follow /\ scroll + Height(height) < count

LEMMA SliceIs ==
    ASSUME NEW count \in Nat, height \in Heights, scroll \in Nat
    PROVE  LET s == Slice(count)
           IN  /\ s.count = count /\ s.start \in Nat /\ s.end \in Nat
               /\ s.start <= s.end /\ s.end <= count
               /\ s.anchor \in BOOLEAN /\ (s.anchor <=> ~InPast(count))
               /\ InPast(count) => s.start = scroll /\ s.end = scroll + Height(height)
<1> DEFINE h == Height(height)
           latest == MaxScroll(count, h)
           start == IF mode = "normal" THEN Smaller(scroll, latest) ELSE latest
           end == Smaller(start + h, count)
           anchor == mode # "normal" \/ follow \/ scroll >= latest
<1>1. h \in Nat /\ h >= 1
  BY HeightType
<1>2. /\ Slice(count).count = count /\ Slice(count).start = start
      /\ Slice(count).end = end /\ Slice(count).anchor = anchor
  BY DEF Slice
<1>3. latest = IF count - h > 0 THEN count - h ELSE 0
  BY DEF MaxScroll, Larger
<1> HIDE DEF h, latest
<1>4. latest \in Nat /\ latest <= count
  BY <1>1, <1>3
<1>5. start \in Nat /\ start <= latest
  BY <1>4 DEF Smaller
<1>6. end \in Nat /\ start <= end /\ end <= count
  <2> HIDE DEF start
  <2> QED BY <1>1, <1>4, <1>5 DEF Smaller
<1>7. (scroll >= latest) = ~(scroll + h < count)
  BY <1>1, <1>3
<1>8. anchor \in BOOLEAN /\ (anchor <=> ~InPast(count))
  BY <1>7 DEF InPast, h
<1>9. ASSUME InPast(count)
      PROVE  start = scroll /\ end = scroll + h
  <2>1. mode = "normal" /\ scroll + h < count
    BY <1>9 DEF InPast, h
  <2>2. start = scroll
    BY <1>1, <1>3, <1>4, <2>1 DEF Smaller
  <2> HIDE DEF start
  <2> QED BY <1>1, <2>1, <2>2 DEF Smaller
<1> HIDE DEF start, end, anchor
<1> QED BY <1>2, <1>5, <1>6, <1>8, <1>9 DEF h

-----------------------------------------------------------------------------
(* The inductive invariant of the history view.                            *)

(* Messages the room no longer has.                                        *)
Dropped == seq - Len(messages)

(* The room has the last messages, numbered as they came.                  *)
Numbered ==
    /\ Len(messages) <= seq
    /\ messages = <<>> => seq = 0
    /\ \A i \in 1 .. Len(messages) : messages[i].id = Dropped + i /\ messages[i].day <= seq

(* A slice that waits to be copied was chosen for the view as it still is, *)
(* among no more messages than there are now; the newest message of then   *)
(* is still seen, unless the room has dropped it.                          *)
Planned ==
    pc = "copy" =>
        /\ plan.count <= Len(messages)
        /\ LET s == Slice(plan.count)
           IN  plan.start = s.start /\ plan.end = s.end /\ plan.anchor = s.anchor
        /\ plan.newest <= seq
        /\ plan.newest > Dropped => /\ plan.count > 0
                                    /\ mute => ~messages[plan.newest - Dropped].sys

Window == SubSeq(Visible, scroll + 1, scroll + Height(height))

(* As long as nothing but new messages could have moved the view, a screen *)
(* that is not at the latest shows the window at scroll_pos.               *)
Browsing ==
    cause = "none" /\ ~screen.anchor =>
        /\ pc # "sync" /\ InPast(Len(Visible))
        /\ pc = "copy" => InPast(plan.count)
        /\ screen.shown = Id(Drawn(Window, Height(height)))

ViewInv == ViewTypeOK /\ Numbered /\ Planned /\ Browsing

(* LatestShown, whatever the thread does.                                  *)
Shown ==
    screen.anchor /\ screen.newest > Dropped
        => \E i \in 1 .. Len(screen.shown) : screen.shown[i] >= screen.newest

-----------------------------------------------------------------------------
(* The copy of the messages that the second pass takes.                    *)

LEMMA IdType ==
    ASSUME NEW s \in Seq(Message)
    PROVE  /\ Id(s) \in Seq(1 .. MaxMsgs) /\ Len(Id(s)) = Len(s)
           /\ \A i \in 1 .. Len(s) : Id(s)[i] = s[i].id
<1> DEFINE n == Len(s)
           f == [i \in 1 .. n |-> s[i].id]
<1>1. n \in Nat /\ \A i \in 1 .. n : s[i] \in Message
  BY LenProperties, ElementOfSeq
<1>2. Id(s) = f
  BY DEF Id
<1> HIDE DEF n
<1> DEFINE E == 1 .. MaxMsgs
<1>3. f \in [1 .. n -> E]
  BY <1>1 DEF Message
<1>4. \A i \in 1 .. n : f[i] = s[i].id
  OBVIOUS
<1> HIDE DEF f, E
<1>5. f \in Seq(E) /\ Len(f) = n
  BY <1>1, <1>3
<1> QED BY <1>2, <1>4, <1>5 DEF n, E

LEMMA SliceOf ==
    ASSUME NEW s \in Seq(Message), NEW a \in Nat, NEW b \in Nat, b <= Len(s)
    PROVE  /\ SubSeq(s, a + 1, b) \in Seq(Message)
           /\ a <= b => Len(SubSeq(s, a + 1, b)) = b - a
           /\ \A i \in 1 .. b - a : SubSeq(s, a + 1, b)[i] = s[a + i]
<1> DEFINE t == SubSeq(s, a + 1, b)
<1>1. Len(s) \in Nat /\ \A i \in 1 .. Len(s) : s[i] \in Message
  BY LenProperties, ElementOfSeq
<1>2. a + 1 \in Int /\ b \in Int /\ \A i \in a + 1 .. b : s[i] \in Message
  BY <1>1
<1>3. /\ t \in Seq(Message) /\ Len(t) = IF a + 1 <= b THEN b - (a + 1) + 1 ELSE 0
      /\ \A i \in 1 .. b - (a + 1) + 1 : t[i] = s[(a + 1) + i - 1]
  BY <1>2, SubSeqProperties
<1> HIDE DEF t
<1>4. a <= b => Len(t) = b - a
  BY <1>3
<1>5. ASSUME NEW i \in 1 .. b - a
      PROVE  t[i] = s[a + i]
  <2>1. i \in 1 .. b - (a + 1) + 1 /\ (a + 1) + i - 1 = a + i
    BY <1>5
  <2> QED BY <1>3, <2>1
<1> QED BY <1>3, <1>4, <1>5 DEF t

(* The slice of Copied, by name.                                           *)
CopiedPlan ==
    IF mute /\ plan.count > 0 THEN Slice(Len(Visible))
    ELSE [plan EXCEPT !.end = Smaller(@, Len(Visible)),
                      !.start = Smaller(@, Smaller(plan.end, Len(Visible)))]
CopiedStart ==
    IF CopiedPlan.anchor THEN LatestStart(Visible, Height(height)) ELSE CopiedPlan.start
CopiedEnd == IF CopiedPlan.anchor THEN Len(Visible) ELSE CopiedPlan.end
CopiedPart == SubSeq(Visible, CopiedStart + 1, CopiedEnd)
CopiedSlice ==
    IF plan.count = 0 \/ (~mute /\ Len(CopiedPart) > Height(height)) THEN <<>> ELSE CopiedPart

LEMMA CopiedIs ==
    Copied = [shown |-> Id(Drawn(CopiedSlice, Height(height))),
              anchor |-> CopiedPlan.anchor, newest |-> plan.newest]
  BY DEF Copied, CopiedSlice, CopiedPart, CopiedEnd, CopiedStart, CopiedPlan

LEMMA CopiedBounds ==
    ASSUME ViewTypeOK, Planned, pc = "copy"
    PROVE  /\ Visible \in Seq(Message) /\ Len(Visible) \in Nat
           /\ CopiedPlan.anchor \in BOOLEAN
           /\ CopiedStart \in Nat /\ CopiedEnd \in Nat
           /\ CopiedStart <= CopiedEnd /\ CopiedEnd <= Len(Visible)
           /\ ~CopiedPlan.anchor => /\ InPast(Len(Visible)) /\ plan.count # 0
                                    /\ CopiedStart = scroll
                                    /\ CopiedEnd = scroll + Height(height)
           /\ InPast(Len(Visible)) /\ InPast(plan.count) => ~CopiedPlan.anchor
<1> DEFINE n == Len(Visible)
           h == Height(height)
           s == Slice(n)
           c == plan.count
<1>1. /\ Visible \in Seq(Message) /\ n \in Nat /\ (~mute => n = Len(messages))
      /\ mute \in BOOLEAN
  BY VisibleReads DEF ViewTypeOK
<1>2. h \in Nat /\ h >= 1 /\ scroll \in Nat /\ height \in Heights
  BY HeightType, HistoryAssumption DEF ViewTypeOK
<1>3. /\ plan \in Plans /\ c \in Nat /\ c <= Len(messages)
      /\ plan.start = Slice(c).start /\ plan.end = Slice(c).end /\ plan.anchor = Slice(c).anchor
  BY HistoryAssumption DEF ViewTypeOK, Planned, Plans
<1>4. /\ plan.start \in Nat /\ plan.end \in Nat /\ plan.start <= plan.end /\ plan.end <= c
      /\ plan.anchor \in BOOLEAN /\ (plan.anchor <=> ~InPast(c))
      /\ InPast(c) => plan.start = scroll /\ plan.end = scroll + h
  BY <1>2, <1>3, SliceIs
<1>5. LatestStart(Visible, h) \in Nat /\ LatestStart(Visible, h) <= n
  BY <1>1, <1>2, LatestFits
<1>6. CASE mute /\ c > 0
  <2>1. CopiedPlan = s
    BY <1>6 DEF CopiedPlan
  <2>2. /\ s.start \in Nat /\ s.end \in Nat /\ s.start <= s.end /\ s.end <= n
        /\ s.anchor \in BOOLEAN /\ (s.anchor <=> ~InPast(n))
        /\ InPast(n) => s.start = scroll /\ s.end = scroll + h
    BY <1>1, <1>2, SliceIs
  <2> HIDE DEF s, n, h
  <2>3. /\ CopiedStart = IF s.anchor THEN LatestStart(Visible, h) ELSE s.start
        /\ CopiedEnd = IF s.anchor THEN n ELSE s.end
    BY <2>1 DEF CopiedStart, CopiedEnd, n, h
  <2>5. CASE s.anchor
    <3>1. /\ CopiedStart = LatestStart(Visible, h) /\ CopiedEnd = n
          /\ CopiedPlan.anchor \in BOOLEAN /\ CopiedPlan.anchor /\ ~InPast(n)
      BY <2>1, <2>2, <2>3, <2>5
    <3> QED BY <1>1, <1>5, <3>1 DEF n, h
  <2>6. CASE ~s.anchor
    <3>1. InPast(n) /\ CopiedStart = scroll /\ CopiedEnd = scroll + h /\ c # 0
      BY <1>3, <1>6, <2>2, <2>3, <2>6
    <3>2. CopiedStart \in Nat /\ CopiedEnd \in Nat /\ CopiedStart <= CopiedEnd /\ CopiedEnd <= n
      BY <2>2, <2>3, <2>6
    <3>3. CopiedPlan.anchor \in BOOLEAN /\ ~CopiedPlan.anchor
      BY <2>1, <2>2, <2>6
    <3> QED BY <1>1, <3>1, <3>2, <3>3 DEF n, h
  <2> QED BY <2>5, <2>6
<1>7. CASE ~(mute /\ c > 0)
  <2> DEFINE q == CopiedPlan
  <2>1. /\ q.anchor = plan.anchor /\ q.end = Smaller(plan.end, n)
        /\ q.start = Smaller(plan.start, Smaller(plan.end, n))
    BY <1>3, <1>7 DEF CopiedPlan, Plans
  <2>2. q.end = (IF plan.end < n THEN plan.end ELSE n)
    BY <2>1 DEF Smaller
  <2>3. q.start = IF plan.start < q.end THEN plan.start ELSE q.end
    BY <2>1 DEF Smaller
  <2>4. /\ CopiedStart = IF q.anchor THEN LatestStart(Visible, h) ELSE q.start
        /\ CopiedEnd = IF q.anchor THEN n ELSE q.end
    BY DEF CopiedStart, CopiedEnd
  <2> HIDE DEF q, n, h, c
  <2>5. q.end \in Nat /\ q.start \in Nat /\ q.start <= q.end /\ q.end <= n
    BY <1>1, <1>4, <2>2, <2>3
  <2>6. ASSUME ~q.anchor
        PROVE  /\ InPast(n) /\ c # 0
               /\ q.start = scroll /\ q.end = scroll + h
    <3>1. InPast(c) /\ plan.start = scroll /\ plan.end = scroll + h
      BY <1>4, <2>1, <2>6
    <3>2. scroll + h < c /\ mode = "normal" /\ ~follow
      BY <3>1 DEF InPast, h
    <3>3. c # 0 /\ ~mute
      BY <1>2, <1>3, <1>7, <3>2
    <3>4. c <= n
      BY <1>1, <1>3, <3>3
    <3>5. scroll + h < n
      BY <1>1, <1>2, <1>3, <3>2, <3>4
    <3> QED BY <1>1, <1>2, <2>2, <2>3, <3>1, <3>2, <3>3, <3>5 DEF InPast, h
  <2>7. InPast(c) => ~q.anchor
    BY <1>4, <2>1
  <2>8. q.anchor \in BOOLEAN
    BY <1>3, <2>1 DEF Plans
  <2> QED BY <1>1, <1>5, <2>4, <2>5, <2>6, <2>7, <2>8 DEF q, n, h, c
<1> QED BY <1>6, <1>7

(* A screen in the past shows the window at scroll_pos.                    *)
LEMMA CopiedPast ==
    ASSUME ViewTypeOK, Planned, pc = "copy"
    PROVE  /\ Copied \in Screens /\ Copied.newest = plan.newest
           /\ Copied.anchor = CopiedPlan.anchor
           /\ ~Copied.anchor => /\ InPast(Len(Visible))
                                /\ Copied.shown = Id(Drawn(Window, Height(height)))
<1> DEFINE h == Height(height)
           sh == Id(Drawn(CopiedSlice, h))
<1>1. CopiedPart \in Seq(Message) /\ Len(CopiedPart) = CopiedEnd - CopiedStart
  BY CopiedBounds, SliceOf DEF CopiedPart
<1>2. CopiedSlice \in Seq(Message)
  <2>1. <<>> \in Seq(Message)
    BY EmptySeq
  <2> QED BY <1>1, <2>1 DEF CopiedSlice
<1>3. Drawn(CopiedSlice, h) \in Seq(Message)
  BY <1>2, DrawnSlice
<1>4. sh \in Seq(1 .. MaxMsgs)
  BY <1>3, IdType
<1> HIDE DEF sh
<1>5. Copied = [shown |-> sh, anchor |-> CopiedPlan.anchor, newest |-> plan.newest]
  BY CopiedIs DEF sh
<1>6. plan.newest \in 0 .. MaxMsgs
  BY DEF ViewTypeOK, Plans
<1>7. Copied \in Screens
  BY <1>4, <1>5, <1>6, CopiedBounds DEF Screens
<1>8. ASSUME ~CopiedPlan.anchor
      PROVE  InPast(Len(Visible)) /\ sh = Id(Drawn(Window, h))
  <2>1. /\ InPast(Len(Visible)) /\ plan.count # 0
        /\ CopiedStart = scroll /\ CopiedEnd = scroll + h
    BY <1>8, CopiedBounds
  <2>2. h \in Nat /\ scroll \in Nat
    BY HeightType, HistoryAssumption DEF ViewTypeOK
  <2>3. CopiedPart = Window /\ Len(CopiedPart) = h
    <3> HIDE DEF h
    <3>1. CopiedPart = Window
      BY <2>1 DEF CopiedPart, Window, h
    <3> QED BY <1>1, <2>1, <2>2, <3>1
  <2>4. ~(Len(CopiedPart) > h)
    BY <2>2, <2>3
  <2>5. CopiedSlice = Window
    BY <2>1, <2>3, <2>4 DEF CopiedSlice
  <2> QED BY <2>1, <2>5 DEF sh
<1> QED BY <1>5, <1>7, <1>8

-----------------------------------------------------------------------------
(* Steps.                                                                  *)

LEMMA ViewInitInv == ViewInit => ViewInv
<1> SUFFICES ASSUME ViewInit PROVE ViewInv
  OBVIOUS
<1>1. <<>> \in Seq(Message) /\ Len(<<>>) = 0 /\ <<>> \in Seq(1 .. MaxMsgs)
  BY EmptySeq
<1>2. ViewTypeOK
  <2>1. 0 \in 0 .. RoomSize /\ 0 \in 0 .. MaxMsgs /\ Len(messages) <= RoomSize
    BY <1>1, HistoryAssumption DEF ViewInit
  <2>2. NotSeen \in NotSeen .. MaxMsgs
    BY HistoryAssumption DEF NotSeen
  <2>3. NoPlan \in Plans
    BY <2>1 DEF NoPlan, Plans
  <2>4. Blank \in Screens
    BY <1>1, <2>1 DEF Blank, Screens
  <2> QED BY <1>1, <2>1, <2>2, <2>3, <2>4 DEF ViewInit, ViewTypeOK
<1>3. Numbered /\ Planned /\ Browsing
  BY <1>1 DEF ViewInit, Numbered, Planned, Browsing, Dropped
<1> QED BY <1>2, <1>3 DEF ViewInv

(* The latest place to scroll to is in the room.                           *)
LEMMA LatestType ==
    ASSUME ViewTypeOK
    PROVE  MaxScroll(Len(Visible), Height(height)) \in 0 .. RoomSize
<1>1. Len(Visible) \in Nat /\ Len(Visible) <= Len(messages) /\ Len(messages) <= RoomSize
      /\ Len(messages) \in Nat
  BY VisibleReads, LenProperties DEF ViewTypeOK
<1>2. Height(height) \in Nat
  BY HeightType DEF ViewTypeOK
<1> QED BY <1>1, <1>2, HistoryAssumption DEF MaxScroll, Larger

LEMMA StepsType ==
    ASSUME ViewTypeOK
    PROVE  Steps \subseteq Int
<1>1. Height(height) \in Nat
  BY HeightType DEF ViewTypeOK
<1>2. Height(height) \div 2 \in Int
  BY <1>1
<1> QED BY <1>1, <1>2 DEF Steps, Larger

LEMMA UserTypes ==
    ASSUME ViewTypeOK, UserStep
    PROVE  ViewTypeOK' /\ pc' \in {"loop", "draw"} /\ cause' # "none"
           /\ UNCHANGED <<messages, seq, plan, screen>>
<1> DEFINE latest == MaxScroll(Len(Visible), Height(height))
<1>1. latest \in 0 .. RoomSize
  BY LatestType
<1>2. ASSUME NEW d \in Steps, KeyScroll(d)
      PROVE  scroll' \in 0 .. RoomSize /\ follow' \in BOOLEAN
  <2> DEFINE from == IF follow /\ d < 0 THEN latest ELSE scroll
  <2>1. d \in Int /\ scroll \in 0 .. RoomSize
    BY StepsType DEF ViewTypeOK
  <2>2. scroll' = Smaller(Larger(from + d, 0), latest) /\ follow' = (scroll' >= latest)
    BY <1>2 DEF KeyScroll
  <2> HIDE DEF latest
  <2>3. from \in Int
    BY <1>1, <2>1
  <2> HIDE DEF from
  <2> QED BY <1>1, <2>1, <2>2, <2>3, HistoryAssumption DEF Smaller, Larger
<1>3. ASSUME ToLatest
      PROVE  scroll' \in 0 .. RoomSize /\ follow' \in BOOLEAN
  BY <1>1, <1>3 DEF ToLatest
<1> HIDE DEF latest
<1>4. ASSUME NEW d \in Steps, KeyScroll(d)
      PROVE  ViewTypeOK' /\ pc' \in {"loop", "draw"} /\ cause' # "none"
             /\ UNCHANGED <<messages, seq, plan, screen>>
  BY <1>2, <1>4 DEF ViewTypeOK, KeyScroll, Key, Goto, room
<1>5. CASE KeyOldest
  <2>1. 0 \in 0 .. RoomSize
    BY HistoryAssumption
  <2> QED BY <1>5, <2>1 DEF ViewTypeOK, KeyOldest, Key, Goto, room
<1>6. CASE KeyLatest
  BY <1>3, <1>6 DEF ViewTypeOK, KeyLatest, Key, Goto, room
<1>7. CASE KeyInsert
  BY <1>7 DEF ViewTypeOK, KeyInsert, Key, Goto, room
<1>8. CASE KeyNormal
  BY <1>3, <1>8 DEF ViewTypeOK, KeyNormal, Key, Goto, room
<1>9. CASE KeyCommand
  BY <1>9 DEF ViewTypeOK, KeyCommand, Key, Goto, room
<1>10. CASE KeyAbandon
  BY <1>10 DEF ViewTypeOK, KeyAbandon, Key, Goto, room
<1>11. CASE KeyHelp
  BY <1>11 DEF ViewTypeOK, KeyHelp, Key, Goto, room
<1>12. CASE KeyClose
  <2>1. scroll' \in 0 .. RoomSize /\ follow' \in BOOLEAN
    BY <1>3, <1>12 DEF KeyClose, ViewTypeOK
  <2>2. mode' \in {"insert", "normal", "command"} /\ overlay' = "none"
    BY <1>12 DEF KeyClose, ViewTypeOK
  <2> QED BY <1>12, <2>1, <2>2 DEF ViewTypeOK, KeyClose, Key, Goto, room
<1>13. ASSUME NEW toggle \in BOOLEAN, KeyRun(toggle)
       PROVE  ViewTypeOK' /\ pc' \in {"loop", "draw"} /\ cause' # "none"
              /\ UNCHANGED <<messages, seq, plan, screen>>
  BY <1>13 DEF ViewTypeOK, KeyRun, Key, Goto, room
<1>14. ASSUME NEW h \in Heights, Resize(h)
       PROVE  ViewTypeOK' /\ pc' \in {"loop", "draw"} /\ cause' # "none"
              /\ UNCHANGED <<messages, seq, plan, screen>>
  BY <1>14 DEF ViewTypeOK, Resize, room
<1> QED BY <1>4, <1>5, <1>6, <1>7, <1>8, <1>9, <1>10, <1>11, <1>12, <1>13, <1>14 DEF UserStep

LEMMA UserKeeps ==
    ASSUME ViewInv, UserStep
    PROVE  ViewInv'
<1>1. /\ ViewTypeOK' /\ pc' \in {"loop", "draw"} /\ cause' # "none"
      /\ UNCHANGED <<messages, seq, plan, screen>>
  BY UserTypes DEF ViewInv
<1>2. Numbered'
  BY <1>1 DEF ViewInv, Numbered, Dropped
<1> QED BY <1>1, <1>2 DEF ViewInv, Planned, Browsing

(* What the view depends on.                                               *)
LEMMA ViewSame ==
    ASSUME UNCHANGED <<messages, mute, mode, follow, scroll, height>>
    PROVE  /\ Visible' = Visible /\ Window' = Window
           /\ \A c : InPast(c)' = InPast(c) /\ Slice(c)' = Slice(c)
  BY DEF Visible, Window, InPast, Slice

(* Steps of the thread that leave the room, the view and the screen.       *)
LEMMA LoopKeeps ==
    ASSUME ViewInv, Enter \/ Poll
    PROVE  ViewInv'
<1>1. /\ UNCHANGED <<messages, seq, mode, overlay, scroll, follow, mute, height, plan, screen, cause>>
      /\ pc' \in {"loop", "sync", "draw"} /\ (pc' = "sync" => follow) /\ seen' = seq
  BY DEF Enter, Poll, Goto, room, client
<1>2. ViewTypeOK'
  BY <1>1 DEF ViewInv, ViewTypeOK, NotSeen
<1>3. Numbered'
  BY <1>1 DEF ViewInv, Numbered, Dropped
<1>4. Planned'
  BY <1>1 DEF Planned
<1>5. Visible' = Visible /\ Window' = Window /\ \A c : InPast(c)' = InPast(c)
  BY <1>1, ViewSame
<1>6. Browsing'
  <2> SUFFICES ASSUME cause' = "none", ~screen'.anchor
               PROVE  /\ pc' # "sync" /\ InPast(Len(Visible))'
                      /\ pc' = "copy" => InPast(plan.count)'
                      /\ screen'.shown = Id(Drawn(Window', Height(height')))
    BY DEF Browsing
  <2>1. /\ InPast(Len(Visible)) /\ screen.shown = Id(Drawn(Window, Height(height)))
    BY <1>1 DEF ViewInv, Browsing
  <2>2. ~follow
    BY <2>1 DEF InPast
  <2>3. InPast(Len(Visible))'
    BY <1>1, <1>5, <2>1 DEF InPast
  <2> QED BY <1>1, <1>5, <2>1, <2>2, <2>3
<1> QED BY <1>2, <1>3, <1>4, <1>6 DEF ViewInv

LEMMA SyncKeeps ==
    ASSUME ViewInv, Sync
    PROVE  ViewInv'
<1>1. /\ UNCHANGED <<messages, seq, mode, overlay, mute, height, seen, plan, screen, cause>>
      /\ pc = "sync" /\ pc' = "draw"
      /\ scroll' = MaxScroll(Len(Visible), Height(height)) /\ follow' = TRUE
  BY DEF Sync, ToLatest, Goto, room
<1>2. ViewTypeOK'
  BY <1>1, LatestType DEF ViewInv, ViewTypeOK
<1>3. Numbered'
  BY <1>1 DEF ViewInv, Numbered, Dropped
<1>4. ~(cause = "none" /\ ~screen.anchor)
  BY <1>1 DEF ViewInv, Browsing
<1> QED BY <1>1, <1>2, <1>3, <1>4 DEF ViewInv, Planned, Browsing

LEMMA PlanKeeps ==
    ASSUME ViewInv, DrawPlan
    PROVE  ViewInv'
<1> DEFINE c == Len(messages)
           s == Slice(c)
           newest == IF Visible = <<>> THEN 0 ELSE Last(Visible).id
<1>1. /\ UNCHANGED <<messages, seq, mode, overlay, scroll, follow, mute, height, seen, screen, cause>>
      /\ pc' = "copy" /\ pc = "draw"
      /\ plan' = [count |-> s.count, start |-> s.start, end |-> s.end,
                  anchor |-> s.anchor, newest |-> newest]
  BY DEF DrawPlan, Goto, room, client
<1>2. /\ c \in Nat /\ c <= RoomSize /\ scroll \in Nat /\ height \in Heights
      /\ messages \in Seq(Message) /\ seq \in 0 .. MaxMsgs
      /\ RoomSize \in Nat /\ MaxMsgs \in Nat /\ mute \in BOOLEAN
  BY LenProperties, HistoryAssumption DEF ViewInv, ViewTypeOK
<1>3. /\ s.count = c /\ s.start \in Nat /\ s.end \in Nat
      /\ s.start <= s.end /\ s.end <= c
      /\ s.anchor \in BOOLEAN
  BY <1>2, SliceIs
<1>4. /\ Visible \in Seq(Message) /\ Len(Visible) \in Nat /\ Len(Visible) <= c
      /\ \A k \in 1 .. Len(Visible) :
            \E i \in 1 .. c : /\ Visible[k] = messages[i]
                              /\ mute => ~messages[i].sys
  BY <1>2, VisibleReads
<1>5. /\ newest \in 0 .. seq
      /\ newest > Dropped => c > 0 /\ (mute => ~messages[newest - Dropped].sys)
  <2>1. Numbered
    BY DEF ViewInv
  <2>2. Dropped \in Nat
    BY <1>2, <2>1 DEF Numbered, Dropped
  <2>3. CASE Visible = <<>>
    BY <1>2, <2>2, <2>3
  <2>4. CASE Visible # <<>>
    <3>1. Len(Visible) \in 1 .. Len(Visible) /\ newest = Visible[Len(Visible)].id
      BY <1>4, <2>4, EmptySeq DEF Last
    <3> HIDE DEF newest
    <3>2. PICK i \in 1 .. c : /\ Visible[Len(Visible)] = messages[i]
                              /\ mute => ~messages[i].sys
      BY <1>4, <3>1
    <3>3. newest = Dropped + i
      BY <2>1, <3>1, <3>2 DEF Numbered
    <3>4. newest - Dropped = i /\ newest \in 0 .. seq /\ c > 0
      BY <1>2, <2>2, <3>2, <3>3 DEF Dropped
    <3> QED BY <3>2, <3>4
  <2> QED BY <2>3, <2>4
<1> HIDE DEF newest, s
<1>6. /\ plan'.count = c /\ plan'.start = s.start /\ plan'.end = s.end
      /\ plan'.anchor = s.anchor /\ plan'.newest = newest
  BY <1>1, <1>3
<1>7. plan' \in Plans
  <2>1. /\ s.count \in 0 .. RoomSize /\ s.start \in 0 .. RoomSize /\ s.end \in 0 .. RoomSize
        /\ newest \in 0 .. MaxMsgs
    BY <1>2, <1>3, <1>5
  <2> QED BY <1>1, <1>3, <2>1 DEF Plans
<1>8. ViewTypeOK'
  BY <1>1, <1>7 DEF ViewInv, ViewTypeOK
<1>9. Numbered'
  BY <1>1 DEF ViewInv, Numbered, Dropped
<1>10. /\ Visible' = Visible /\ Window' = Window
       /\ InPast(Len(Visible))' = InPast(Len(Visible))
       /\ Slice(plan.count)' = s
  BY <1>1, <1>6 DEF Visible, Window, InPast, Slice, s
<1>11. Planned'
  <2>1. plan'.newest <= seq' /\ plan'.count <= Len(messages')
    BY <1>1, <1>2, <1>5, <1>6
  <2>2. plan'.newest > Dropped' => /\ plan'.count > 0
                                   /\ mute' => ~messages'[plan'.newest - Dropped'].sys
    BY <1>1, <1>5, <1>6 DEF Dropped
  <2> QED BY <1>6, <1>10, <2>1, <2>2 DEF Planned
<1>12. Browsing'
  <2> SUFFICES ASSUME cause' = "none", ~screen'.anchor
               PROVE  /\ pc' # "sync" /\ InPast(Len(Visible))' /\ InPast(plan.count)'
                      /\ screen'.shown = Id(Drawn(Window', Height(height')))
    BY DEF Browsing
  <2>1. /\ InPast(Len(Visible)) /\ screen.shown = Id(Drawn(Window, Height(height)))
    BY <1>1 DEF ViewInv, Browsing
  <2>2. InPast(plan.count)'
    <3>1. mode = "normal" /\ ~follow /\ scroll + Height(height) < Len(Visible)
      BY <2>1 DEF InPast
    <3>2. Height(height) \in Nat
      BY <1>2, HeightType
    <3>3. scroll + Height(height) < c
      BY <1>2, <1>4, <3>1, <3>2
    <3> QED BY <1>1, <1>6, <3>1, <3>3 DEF InPast
  <2> QED BY <1>1, <1>10, <2>1, <2>2
<1> QED BY <1>8, <1>9, <1>11, <1>12 DEF ViewInv

LEMMA CopyKeeps ==
    ASSUME ViewInv, DrawCopy
    PROVE  ViewInv'
<1>1. /\ UNCHANGED <<messages, seq, mode, overlay, scroll, follow, mute, height, seen>>
      /\ pc = "copy" /\ pc' \in {"enter", "loop"}
      /\ screen' = Copied /\ plan' = NoPlan /\ cause' = "none"
  BY DEF DrawCopy, Goto, room, client
<1>2. /\ Copied \in Screens
      /\ ~Copied.anchor => /\ InPast(Len(Visible))
                           /\ Copied.shown = Id(Drawn(Window, Height(height)))
  BY <1>1, CopiedPast DEF ViewInv
<1>3. NoPlan \in Plans
  BY HistoryAssumption DEF NoPlan, Plans
<1>4. ViewTypeOK'
  BY <1>1, <1>2, <1>3 DEF ViewInv, ViewTypeOK
<1>5. Numbered'
  BY <1>1 DEF ViewInv, Numbered, Dropped
<1>6. Planned'
  BY <1>1 DEF Planned
<1>7. /\ Visible' = Visible /\ Window' = Window
      /\ InPast(Len(Visible))' = InPast(Len(Visible))
  BY <1>1 DEF Visible, Window, InPast
<1>8. Browsing'
  BY <1>1, <1>2, <1>7 DEF Browsing
<1> QED BY <1>4, <1>5, <1>6, <1>8 DEF ViewInv

(* A message that comes while there is space, or in the place of the       *)
(* oldest one.                                                             *)
LEMMA RoomGets ==
    ASSUME ViewInv, NEW sys \in BOOLEAN, NEW newday \in BOOLEAN, Broadcast(sys, newday)
    PROVE  \E m \in Message :
              /\ m.id = seq + 1 /\ m.day <= seq + 1
              /\ Len(messages) < RoomSize => messages' = Append(messages, m)
              /\ ~(Len(messages) < RoomSize) => messages' = Append(Tail(messages), m)
<1> DEFINE today == IF messages = <<>> THEN 0 ELSE Last(messages).day
           day == IF newday THEN today + 1 ELSE today
           m == [id |-> seq + 1, sys |-> sys, day |-> day]
<1>1. messages' = Append(IF Len(messages) < RoomSize THEN messages ELSE Tail(messages), m)
  BY DEF Broadcast
<1>2. seq \in 0 .. MaxMsgs /\ seq < MaxMsgs /\ MaxMsgs \in Nat
  BY HistoryAssumption DEF ViewInv, ViewTypeOK, Broadcast
<1>3. today \in 0 .. seq
  <2>1. CASE messages = <<>>
    BY <1>2, <2>1
  <2>2. CASE messages # <<>>
    <3>1. messages \in Seq(Message) /\ Len(messages) \in 1 .. Len(messages)
      BY <2>2, EmptySeq, LenProperties DEF ViewInv, ViewTypeOK
    <3>2. messages[Len(messages)] \in Message /\ messages[Len(messages)].day <= seq
      BY <3>1, ElementOfSeq DEF ViewInv, Numbered
    <3> QED BY <1>2, <2>2, <3>2 DEF Last, Message
  <2> QED BY <2>1, <2>2
<1> HIDE DEF today
<1>4. day \in 0 .. seq + 1 /\ day \in 0 .. MaxMsgs /\ seq + 1 \in 1 .. MaxMsgs
  BY <1>2, <1>3
<1> HIDE DEF day
<1>5. m \in Message /\ m.id = seq + 1 /\ m.day <= seq + 1
  BY <1>4 DEF Message
<1> HIDE DEF m
<1> QED BY <1>1, <1>5

(* The room after a broadcast of m by which d messages were dropped.       *)
Moved(d, m) ==
    /\ m.id = seq + 1 /\ m.day <= seq + 1
    /\ messages' \in Seq(Message) /\ Len(messages') <= RoomSize
    /\ d <= Len(messages) /\ Len(messages') = Len(messages) + 1 - d
    /\ \A i \in d + 1 .. Len(messages) : messages'[i - d] = messages[i]
    /\ messages'[Len(messages) + 1 - d] = m
    /\ d = 0 => messages' = Append(messages, m)
    /\ cause' = IF d = 1 THEN "dropped" ELSE cause

LEMMA RoomMoves ==
    ASSUME ViewInv, NEW sys \in BOOLEAN, NEW newday \in BOOLEAN, Broadcast(sys, newday)
    PROVE  \E d \in {0, 1}, m \in Message : Moved(d, m)
<1> DEFINE n == Len(messages)
<1>1. /\ messages \in Seq(Message) /\ n \in Nat /\ n <= RoomSize /\ RoomSize \in Nat \ {0}
  BY LenProperties, HistoryAssumption DEF ViewInv, ViewTypeOK
<1>2. PICK m \in Message :
              /\ m.id = seq + 1 /\ m.day <= seq + 1
              /\ n < RoomSize => messages' = Append(messages, m)
              /\ ~(n < RoomSize) => messages' = Append(Tail(messages), m)
  BY RoomGets
<1>3. cause' = IF n >= RoomSize THEN "dropped" ELSE cause
  BY DEF Broadcast
<1> DEFINE w == messages'
<1>4. CASE n < RoomSize
  <2>1. /\ w = Append(messages, m) /\ w \in Seq(Message) /\ Len(w) = n + 1 /\ w[n + 1] = m
        /\ \A i \in 1 .. n : w[i] = messages[i]
    BY <1>1, <1>2, <1>4, AppendProperties
  <2>2. cause' = cause
    BY <1>1, <1>3, <1>4
  <2> HIDE DEF n, w
  <2>3. /\ 0 <= n /\ Len(w) <= RoomSize /\ Len(w) = n + 1 - 0
        /\ \A i \in 0 + 1 .. n : w[i - 0] = messages[i]
        /\ w[n + 1 - 0] = m
    BY <1>1, <1>4, <2>1
  <2>4. Moved(0, m)
    BY <1>2, <2>1, <2>2, <2>3 DEF Moved, n, w
  <2> QED BY <2>4
<1>5. CASE ~(n < RoomSize)
  <2> DEFINE t == Tail(messages)
  <2>1. n # 0 /\ messages # <<>>
    BY <1>1, <1>5, EmptySeq
  <2>2. /\ t \in Seq(Message) /\ Len(t) = n - 1
        /\ \A i \in 1 .. Len(t) : t[i] = messages[i + 1]
    BY <1>1, <2>1, HeadTailProperties
  <2> HIDE DEF t
  <2>3. w = Append(t, m)
    BY <1>2, <1>5 DEF t
  <2> HIDE DEF w
  <2>4. /\ w \in Seq(Message) /\ Len(w) = Len(t) + 1 /\ w[Len(t) + 1] = m
        /\ \A i \in 1 .. Len(t) : w[i] = t[i]
    BY <1>2, <2>2, <2>3, AppendProperties
  <2>5. cause' = "dropped"
    BY <1>1, <1>3, <1>5
  <2> HIDE DEF n
  <2>6. ASSUME NEW i \in 1 + 1 .. n
        PROVE  w[i - 1] = messages[i]
    <3>1. i - 1 \in 1 .. Len(t) /\ (i - 1) + 1 = i
      BY <1>1, <2>1, <2>2, <2>6
    <3>2. w[i - 1] = t[i - 1] /\ t[i - 1] = messages[(i - 1) + 1]
      BY <2>2, <2>4, <3>1
    <3> QED BY <3>1, <3>2
  <2>7. 1 <= n /\ Len(w) <= RoomSize /\ Len(w) = n + 1 - 1 /\ w[n + 1 - 1] = m
    BY <1>1, <2>1, <2>2, <2>4
  <2>8. Moved(1, m)
    BY <1>2, <2>4, <2>5, <2>6, <2>7 DEF Moved, n, w
  <2> QED BY <2>8
<1> QED BY <1>4, <1>5

(* The window of a user in the past stays as it is when messages are       *)
(* appended.                                                               *)
LEMMA WindowKept ==
    ASSUME NEW v \in Seq(Message), NEW m \in Message, NEW a \in Nat, NEW b \in Nat, b <= Len(v)
    PROVE  SubSeq(Append(v, m), a + 1, b) = SubSeq(v, a + 1, b)
<1> DEFINE w == Append(v, m)
           s == SubSeq(v, a + 1, b)
           t == SubSeq(w, a + 1, b)
<1>1. /\ w \in Seq(Message) /\ Len(w) = Len(v) + 1 /\ \A i \in 1 .. Len(v) : w[i] = v[i]
      /\ Len(v) \in Nat /\ b <= Len(w)
  BY AppendProperties, LenProperties
<1> HIDE DEF w
<1>2. /\ s \in Seq(Message) /\ (a <= b => Len(s) = b - a)
      /\ \A i \in 1 .. b - a : s[i] = v[a + i]
  BY SliceOf
<1>3. /\ t \in Seq(Message) /\ (a <= b => Len(t) = b - a)
      /\ \A i \in 1 .. b - a : t[i] = w[a + i]
  BY <1>1, SliceOf
<1>4. CASE a <= b
  <2> HIDE DEF s, t
  <2>1. ASSUME NEW i \in 1 .. Len(s)
        PROVE  s[i] = t[i]
    <3>1. i \in 1 .. b - a /\ a + i \in 1 .. Len(v)
      BY <1>1, <1>2, <1>4, <2>1
    <3> QED BY <1>1, <1>2, <1>3, <3>1
  <2>2. Len(s) = Len(t)
    BY <1>2, <1>3, <1>4
  <2>3. s = t
    BY <1>2, <1>3, <2>1, <2>2, SeqEqual
  <2> QED BY <2>3 DEF s, t, w
<1>5. CASE ~(a <= b)
  <2>1. Len(s) = 0 /\ Len(t) = 0
    <3>1. a + 1 \in Int /\ b \in Int /\ ~(a + 1 <= b)
      BY <1>5
    <3>2. \A i \in a + 1 .. b : v[i] \in Message /\ w[i] \in Message
      BY <3>1
    <3> QED BY <3>1, <3>2, SubSeqProperties
  <2> HIDE DEF s, t
  <2>2. s = <<>> /\ t = <<>>
    BY <1>2, <1>3, <2>1, EmptySeq
  <2> QED BY <2>2 DEF s, t, w
<1> QED BY <1>4, <1>5

LEMMA BroadcastKeeps ==
    ASSUME ViewInv, NEW sys \in BOOLEAN, NEW newday \in BOOLEAN, Broadcast(sys, newday)
    PROVE  ViewInv' /\ Dropped' >= Dropped
<1> DEFINE n == Len(messages)
<1>1. /\ UNCHANGED <<mode, overlay, scroll, follow, mute, height, seen, pc, plan, screen>>
      /\ seq' = seq + 1 /\ seq < MaxMsgs
  BY DEF Broadcast, client
<1>2. PICK d \in {0, 1}, m \in Message : Moved(d, m)
  BY RoomMoves
<1>3. /\ m.id = seq + 1 /\ m.day <= seq + 1
      /\ messages' \in Seq(Message) /\ Len(messages') <= RoomSize
      /\ d <= n /\ Len(messages') = n + 1 - d
      /\ \A i \in d + 1 .. n : messages'[i - d] = messages[i]
      /\ messages'[n + 1 - d] = m
      /\ d = 0 => messages' = Append(messages, m)
      /\ cause' = IF d = 1 THEN "dropped" ELSE cause
  BY <1>2 DEF Moved
<1>4. /\ n \in Nat /\ messages \in Seq(Message) /\ seq \in 0 .. MaxMsgs /\ MaxMsgs \in Nat
      /\ mute \in BOOLEAN /\ scroll \in Nat /\ height \in Heights
  BY LenProperties, HistoryAssumption DEF ViewInv, ViewTypeOK
<1>5. ViewTypeOK'
  <2>1. seq' \in 0 .. MaxMsgs
    BY <1>1, <1>4
  <2>2. cause' \in {"none", "key", "up", "dropped"}
    BY <1>3 DEF ViewInv, ViewTypeOK
  <2> QED BY <1>1, <1>3, <2>1, <2>2 DEF ViewInv, ViewTypeOK
<1>6. Dropped \in Nat /\ Dropped' = Dropped + d /\ Dropped = seq - n
  BY <1>1, <1>3, <1>4 DEF ViewInv, Numbered, Dropped
<1>7. \A i \in 1 .. n : messages[i].id = Dropped + i /\ messages[i].day <= seq
                        /\ messages[i] \in Message
  BY <1>4, ElementOfSeq DEF ViewInv, Numbered
<1> HIDE DEF n
<1>8. Numbered'
  <2>1. Len(messages') <= seq'
    BY <1>1, <1>3, <1>4, <1>6
  <2>2. messages' # <<>>
    <3>1. Len(messages') # 0
      BY <1>3, <1>4
    <3> QED BY <3>1, EmptySeq
  <2>3. ASSUME NEW i \in 1 .. Len(messages')
        PROVE  messages'[i].id = Dropped' + i /\ messages'[i].day <= seq'
    <3>1. CASE i = n + 1 - d
      <4>1. messages'[i] = m /\ seq' = seq + 1
        BY <1>1, <1>3, <3>1
      <4>2. m.id = seq + 1 /\ m.day <= seq + 1
        BY <1>3
      <4>3. Dropped' + i = seq + 1
        <5>1. d \in Int /\ Dropped' = (seq - n) + d
          BY <1>6
        <5> QED BY <1>4, <3>1, <5>1
      <4> QED BY <4>1, <4>2, <4>3
    <3>2. CASE i # n + 1 - d
      <4>1. i + d \in d + 1 .. n /\ i + d \in 1 .. n /\ (i + d) - d = i
        <5>1. d \in Int /\ 0 <= d /\ Len(messages') = n + 1 - d
          BY <1>3
        <5>2. i \in Int /\ 1 <= i /\ i <= n + 1 - d
          BY <1>4, <2>3, <5>1
        <5> QED BY <1>4, <3>2, <5>1, <5>2
      <4>2. messages'[i] = messages[i + d]
        BY <1>3, <4>1
      <4>3. messages[i + d].id = Dropped + (i + d) /\ messages[i + d].day <= seq
            /\ messages[i + d].day \in Nat
        BY <1>4, <1>7, <4>1 DEF Message
      <4> QED BY <1>1, <1>4, <1>6, <4>1, <4>2, <4>3
    <3> QED BY <3>1, <3>2
  <2> QED BY <2>1, <2>2, <2>3 DEF Numbered
<1>9. Planned'
  <2> SUFFICES ASSUME pc' = "copy"
               PROVE  /\ plan'.count <= Len(messages')
                      /\ plan'.start = Slice(plan.count)'.start
                      /\ plan'.end = Slice(plan.count)'.end
                      /\ plan'.anchor = Slice(plan.count)'.anchor
                      /\ plan'.newest <= seq'
                      /\ plan'.newest > Dropped' =>
                            plan'.count > 0 /\ (mute' => ~messages'[plan'.newest - Dropped'].sys)
    BY DEF Planned
  <2>1. /\ plan.count <= n /\ plan.newest <= seq
        /\ plan.start = Slice(plan.count).start
        /\ plan.end = Slice(plan.count).end
        /\ plan.anchor = Slice(plan.count).anchor
        /\ plan.newest > Dropped => plan.count > 0 /\ (mute => ~messages[plan.newest - Dropped].sys)
    BY <1>1 DEF ViewInv, Planned, n
  <2>2. Slice(plan.count)' = Slice(plan.count)
    BY <1>1 DEF Slice
  <2>3. plan.count \in Nat /\ plan.newest \in Nat
    BY HistoryAssumption DEF ViewInv, ViewTypeOK, Plans
  <2>4. plan.count <= Len(messages') /\ plan.newest <= seq'
    BY <1>1, <1>3, <1>4, <2>1, <2>3
  <2>5. ASSUME plan.newest > Dropped'
        PROVE  plan.count > 0 /\ (mute => ~messages'[plan.newest - Dropped'].sys)
    <3> DEFINE i == plan.newest - Dropped
    <3>1. /\ plan.newest > Dropped /\ i \in d + 1 .. n /\ i - d = plan.newest - Dropped'
      BY <1>3, <1>4, <1>6, <2>1, <2>3, <2>5, SMTT(30)
    <3>2. messages'[i - d] = messages[i]
      BY <1>3, <3>1
    <3> QED BY <2>1, <3>1, <3>2
  <2> QED BY <1>1, <2>1, <2>2, <2>4, <2>5
<1>10. Browsing'
  <2> SUFFICES ASSUME cause' = "none", ~screen'.anchor
               PROVE  /\ pc' # "sync" /\ InPast(Len(Visible))'
                      /\ pc' = "copy" => InPast(plan.count)'
                      /\ screen'.shown = Id(Drawn(Window', Height(height')))
    BY DEF Browsing
  <2>1. d = 0 /\ cause = "none" /\ messages' = Append(messages, m)
    BY <1>3
  <2>2. /\ pc # "sync" /\ InPast(Len(Visible)) /\ (pc = "copy" => InPast(plan.count))
        /\ screen.shown = Id(Drawn(Window, Height(height)))
    BY <1>1, <2>1 DEF ViewInv, Browsing
  <2> DEFINE v == Visible
             h == Height(height)
  <2>3. v \in Seq(Message) /\ Len(v) \in Nat /\ h \in Nat
    BY <1>4, VisibleReads, HeightType
  <2>4. Visible' = v \/ Visible' = Append(v, m)
    <3>1. CASE mute
      <4>1. Visible' = Chat(Append(messages, m)) /\ v = Chat(messages)
        BY <1>1, <2>1, <3>1 DEF Visible
      <4>2. Chat(Append(messages, m)) = IF m.sys THEN Chat(messages) ELSE Append(Chat(messages), m)
        BY <1>4, ChatMore
      <4> QED BY <4>1, <4>2
    <3>2. CASE ~mute
      BY <1>1, <2>1, <3>2 DEF Visible
    <3> QED BY <3>1, <3>2
  <2>5. scroll + h < Len(v) /\ mode = "normal" /\ ~follow
    BY <2>2 DEF InPast
  <2>6. Window = SubSeq(v, scroll + 1, scroll + h) /\ Window' = SubSeq(Visible', scroll + 1, scroll + h)
    BY <1>1 DEF Window
  <2> HIDE DEF v, h
  <2>7. Window' = Window
    <3>1. SubSeq(Append(v, m), scroll + 1, scroll + h) = SubSeq(v, scroll + 1, scroll + h)
      <4>1. scroll + h \in Nat /\ scroll + h <= Len(v)
        BY <1>4, <2>3, <2>5
      <4> QED BY <1>4, <2>3, <4>1, WindowKept
    <3> QED BY <2>4, <2>6, <3>1
  <2>8. Len(Visible') \in Nat /\ Len(v) <= Len(Visible')
    <3>1. Len(Append(v, m)) = Len(v) + 1
      BY <2>3, AppendProperties
    <3> QED BY <2>3, <2>4, <3>1
  <2>9. InPast(Len(Visible))'
    <3>1. scroll + h < Len(Visible')
      BY <1>4, <2>3, <2>5, <2>8
    <3> QED BY <1>1, <2>5, <3>1 DEF InPast, h
  <2>10. InPast(plan.count)' = InPast(plan.count)
    BY <1>1 DEF InPast
  <2> QED BY <1>1, <2>2, <2>7, <2>9, <2>10 DEF h
<1>11. Dropped' >= Dropped
  BY <1>3, <1>6
<1> QED BY <1>5, <1>8, <1>9, <1>10, <1>11 DEF ViewInv

LEMMA ViewNextInv == ViewInv /\ [ViewNext]_viewVars => ViewInv'
<1> SUFFICES ASSUME ViewInv, [ViewNext]_viewVars PROVE ViewInv'
  OBVIOUS
<1>1. CASE UNCHANGED viewVars
  <2>1. UNCHANGED <<messages, seq, mode, overlay, scroll, follow, mute, height, seen, pc, plan,
                    screen, cause>>
    BY <1>1 DEF viewVars, room, client
  <2>2. ViewTypeOK' /\ Numbered'
    BY <2>1 DEF ViewInv, ViewTypeOK, Numbered, Dropped
  <2>3. /\ Visible' = Visible /\ Window' = Window
        /\ InPast(Len(Visible))' = InPast(Len(Visible)) /\ InPast(plan.count)' = InPast(plan.count)
        /\ Slice(plan.count)' = Slice(plan.count) /\ Dropped' = Dropped
    BY <2>1 DEF Visible, Window, InPast, Slice, Dropped
  <2>4. Planned' /\ Browsing'
    BY <2>1, <2>3 DEF ViewInv, Planned, Browsing
  <2> QED BY <2>2, <2>4 DEF ViewInv
<1>2. CASE ViewNext
  BY <1>2, UserKeeps, LoopKeeps, SyncKeeps, PlanKeeps, CopyKeeps, BroadcastKeeps DEF ViewNext
<1> QED BY <1>1, <1>2

(* The types, and what a screen is made of between the two passes, hold    *)
(* whatever other sessions do to the room meanwhile.                       *)
THEOREM ViewInvariant == ViewSpec => []ViewInv
  BY ViewInitInv, ViewNextInv, PTL DEF ViewSpec

(* The room holds at most RoomSize messages, the scroll position is within *)
(* them, and what is planned and what is drawn are of their types, for     *)
(* every size of the room and of the window.                               *)
THEOREM ViewTypesAlways == ViewSpec => []ViewTypeOK
<1>1. ViewInv => ViewTypeOK
  BY DEF ViewInv
<1> QED BY <1>1, ViewInvariant, PTL

(* A user who browses the history is left alone, for every size of the     *)
(* room and of the window, muted or not, on any dates.                     *)
THEOREM BrowsingAlwaysStable == ViewSpec => BrowsingStable
<1>1. ViewInv /\ [ViewNext]_viewVars
         => [DrawCopy /\ cause = "none" /\ ~screen.anchor => screen'.shown = screen.shown]_viewVars
  <2> SUFFICES ASSUME ViewInv, DrawCopy, cause = "none", ~screen.anchor
               PROVE  screen'.shown = screen.shown
    OBVIOUS
  <2>1. pc = "copy" /\ screen' = Copied
    BY DEF DrawCopy
  <2>2. /\ InPast(Len(Visible)) /\ InPast(plan.count)
        /\ screen.shown = Id(Drawn(Window, Height(height)))
    BY <2>1 DEF ViewInv, Browsing
  <2>3. ~CopiedPlan.anchor
    BY <2>1, <2>2, CopiedBounds DEF ViewInv
  <2>4. Copied.shown = Id(Drawn(Window, Height(height)))
    BY <2>1, <2>3, CopiedPast DEF ViewInv
  <2> QED BY <2>1, <2>2, <2>4
<1> QED BY <1>1, ViewInvariant, PTL DEF ViewSpec, BrowsingStable

-----------------------------------------------------------------------------
(* The newest message.                                                     *)

(* A message and its divider fit on the screen: five rows or more.         *)
TwoRows == \A h \in Heights : Height(h) >= 2

(* A copy at the latest shows the last visible message, and so one no      *)
(* older than the newest there was at the first pass.                      *)
LEMMA CopiedLatest ==
    ASSUME TwoRows, ViewInv, pc = "copy", Copied.anchor, plan.newest > Dropped
    PROVE  \E i \in 1 .. Len(Copied.shown) : Copied.shown[i] >= plan.newest
<1> DEFINE v == Visible
           n == Len(v)
           h == Height(height)
           k == LatestStart(v, h)
           part == CopiedPart
<1>1. /\ messages \in Seq(Message) /\ mute \in BOOLEAN /\ height \in Heights
      /\ Len(messages) \in Nat /\ seq \in Nat /\ plan.newest \in Nat
  BY LenProperties, HistoryAssumption DEF ViewInv, ViewTypeOK, Plans
<1>2. h \in Nat /\ h >= 2
  BY <1>1, HeightType DEF TwoRows
<1>3. v \in Seq(Message) /\ n \in Nat
  BY <1>1, VisibleReads
<1>4. n > 0 /\ v[n].id >= plan.newest
  <2> DEFINE i == plan.newest - Dropped
  <2>1. /\ Len(messages) <= seq /\ plan.newest <= seq
        /\ mute => ~messages[i].sys
        /\ \A j \in 1 .. Len(messages) : messages[j].id = Dropped + j
    BY DEF ViewInv, Planned, Numbered
  <2>2. i \in 1 .. Len(messages) /\ Dropped + i = plan.newest /\ Dropped \in Nat
    BY <1>1, <2>1 DEF Dropped
  <2> HIDE DEF i
  <2>3. ~mute \/ ~messages[i].sys
    BY <2>1
  <2>4. n > 0 /\ \E j \in i .. Len(messages) : v[n] = messages[j]
    BY <1>1, <2>2, <2>3, VisibleReads
  <2>5. PICK j \in i .. Len(messages) : v[n] = messages[j]
    BY <2>4
  <2>6. v[n].id = Dropped + j /\ j >= i
    BY <2>1, <2>2, <2>5
  <2> QED BY <2>2, <2>4, <2>6
<1>5. k \in Nat /\ k < n /\ Rows(SubSeq(v, k + 1, n)) <= h
  BY <1>2, <1>3, <1>4, LatestFits
<1>6. CopiedPlan.anchor /\ Copied.newest = plan.newest
  BY CopiedPast DEF ViewInv
<1>7. part = SubSeq(v, k + 1, n)
  BY <1>6 DEF CopiedPart, CopiedStart, CopiedEnd
<1>8. plan.count # 0
  BY DEF ViewInv, Planned
<1> HIDE DEF v, n, h, k, part
<1>9. Rows(part) <= h
  BY <1>5, <1>7
<1>10. /\ part \in Seq(Message) /\ Len(part) = n - k
      /\ \A i \in 1 .. n - k : part[i] = v[k + i]
  <2>1. n \in Nat /\ n <= Len(v) /\ k <= n
    BY <1>3, <1>5 DEF n
  <2> QED BY <1>3, <1>5, <1>7, <2>1, SliceOf
<1>11. ~(Len(part) > h)
  <2>1. Len(part) \in Nat
    BY <1>10, LenProperties
  <2>2. Rows(part) \in Nat /\ Len(part) <= Rows(part)
    BY <2>1, RowsBounds
  <2> QED BY <1>2, <1>9, <2>1, <2>2
<1>12. CopiedSlice = part
  BY <1>8, <1>11 DEF CopiedSlice, part, h
<1>13. Drawn(part, h) = part
  BY <1>9, <1>10, DrawnSlice
<1>14. Copied.shown = Id(part)
  BY <1>12, <1>13, CopiedIs DEF h
<1>15. Len(Id(part)) = n - k /\ \A i \in 1 .. n - k : Id(part)[i] = part[i].id
  BY <1>10, IdType
<1>16. n - k \in 1 .. n - k /\ k + (n - k) = n
  BY <1>3, <1>5
<1>17. Id(part)[n - k] = v[n].id
  BY <1>10, <1>15, <1>16
<1> QED BY <1>4, <1>14, <1>15, <1>16, <1>17

LEMMA ShownKept ==
    ASSUME TwoRows, ViewInv, Shown, [ViewNext]_viewVars
    PROVE  Shown'
<1>1. ASSUME UNCHANGED <<messages, seq, screen>>
      PROVE  Shown'
  BY <1>1 DEF Shown, Dropped
<1>2. CASE UNCHANGED viewVars
  BY <1>1, <1>2 DEF viewVars, room
<1>3. CASE UserStep
  BY <1>1, <1>3, UserTypes DEF ViewInv
<1>4. CASE Enter \/ Poll \/ Sync \/ DrawPlan
  BY <1>1, <1>4 DEF Enter, Poll, Sync, DrawPlan, room
<1>5. CASE DrawCopy
  <2>1. screen' = Copied /\ pc = "copy" /\ Dropped' = Dropped
    BY <1>5 DEF DrawCopy, Dropped, room
  <2>2. Copied.newest = plan.newest
    BY <2>1, CopiedPast DEF ViewInv
  <2> QED BY <2>1, <2>2, CopiedLatest DEF Shown
<1>6. ASSUME NEW sys \in BOOLEAN, NEW newday \in BOOLEAN, Broadcast(sys, newday)
      PROVE  Shown'
  <2>1. Dropped' >= Dropped /\ screen' = screen
    BY <1>6, BroadcastKeeps DEF Broadcast
  <2>2. Dropped \in Int /\ Dropped' \in Int /\ screen.newest \in Int
    <3>1. ViewTypeOK /\ ViewTypeOK'
      BY <1>6, BroadcastKeeps DEF ViewInv
    <3>2. seq \in Int /\ Len(messages) \in Int /\ screen.newest \in Int
      BY <3>1, LenProperties DEF ViewTypeOK, Screens
    <3>3. seq' \in Int /\ Len(messages') \in Int
      BY <3>1, LenProperties DEF ViewTypeOK
    <3> QED BY <3>2, <3>3 DEF Dropped
  <2>3. screen.newest > Dropped' => screen.newest > Dropped
    BY <2>1, <2>2
  <2> QED BY <2>1, <2>3 DEF Shown
<1> QED BY <1>2, <1>3, <1>4, <1>5, <1>6 DEF ViewNext

(* "date dividers cannot push the newest messages off-screen": a screen at *)
(* the live tail shows the newest message, on terminals of five rows or    *)
(* more, for every room, any dates and any number of resizes and mutings.  *)
THEOREM LatestAlwaysShown ==
    ASSUME TwoRows
    PROVE  ViewSpec => []LatestShown
<1>1. ViewInit => Shown
  BY DEF ViewInit, Shown, Blank, Dropped
<1>2. ViewInv /\ Shown /\ [ViewNext]_viewVars => Shown'
  BY ShownKept
<1>3. ViewInv /\ Shown => LatestShown
  <2> SUFFICES ASSUME ViewInv, Shown, screen.anchor,
                      screen.newest \in {m.id : m \in ToSet(Visible)}
               PROVE  \E i \in 1 .. Len(screen.shown) : screen.shown[i] >= screen.newest
    BY DEF LatestShown
  <2>1. PICK k \in 1 .. Len(Visible) : screen.newest = Visible[k].id
    BY DEF ToSet
  <2>2. PICK i \in 1 .. Len(messages) : Visible[k] = messages[i]
    BY VisibleReads DEF ViewInv, ViewTypeOK
  <2>3. screen.newest = Dropped + i
    BY <2>1, <2>2 DEF ViewInv, Numbered
  <2>4. Dropped \in Int
    BY LenProperties DEF ViewInv, ViewTypeOK, Dropped
  <2>5. screen.newest > Dropped
    BY <2>3, <2>4
  <2> QED BY <2>5 DEF Shown
<1> QED BY <1>1, <1>2, <1>3, ViewInvariant, PTL DEF ViewSpec
=============================================================================
