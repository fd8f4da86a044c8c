-------------------------- MODULE AdmissionHistory ---------------------------
(***************************************************************************)
(* Admission with history variables, for what the documentation promises   *)
(* about bans and rates over time.  They observe the steps of Admission    *)
(* and restrict none of them.                                              *)
(***************************************************************************)
EXTENDS Admission

VARIABLES
    ban,       \* the end of the last block written for each address
    streak,    \* failed passwords of each address since its last success, up to
               \* MaxAuthFailures
    arrivals   \* how often each address was let in with a clock of at most t

history == <<ban, streak, arrivals>>

(* A server with a token: without one no password is ever refused before   *)
(* the attempts run out.                                                   *)
HInit ==
    /\ Init
    /\ token
    /\ ban = [a \in IP |-> 0]
    /\ streak = [a \in IP |-> 0]
    /\ arrivals = [a \in IP |-> [t \in 0 .. MaxTime |-> 0]]

(* s is let in; a password of s was refused; s was authenticated.         *)
LetIn(s)  == stage[s] = "checking" /\ stage'[s] = "spawning"
Failed(s) == stage[s] = "recording" /\ stage'[s] = "polling"
Passed(s) == ~authed[s] /\ authed'[s]

Capped(n) == IF n > MaxAuthFailures THEN MaxAuthFailures ELSE n

Observe ==
    /\ ban' = [a \in IP |->
          LET blocked == {i \in Slot : table'[i].ip = a /\ table'[i].blocked}
          IN  IF blocked # {} THEN table'[First(blocked)].until ELSE ban[a]]
    /\ streak' = [a \in IP |->
          IF \E s \in Session : addr[s] = a /\ Passed(s) THEN 0
          ELSE IF \E s \in Session : addr[s] = a /\ Failed(s) THEN Capped(streak[a] + 1)
          ELSE streak[a]]
    /\ arrivals' = [a \in IP |-> [t \in 0 .. MaxTime |->
          arrivals[a][t] + Cardinality({s \in Session :
                              addr[s] = a /\ LetIn(s) /\ sampled[s] <= t})]]

HNext == Next /\ Observe

HSpec == HInit /\ [][HNext]_<<vars, history>>

(* With the fairness of Admission.                                         *)
HFairSpec == HSpec /\ \A s \in Session : WF_vars(ThreadStep(s))

-----------------------------------------------------------------------------

(* An address that was blocked, for too many failures or too many          *)
(* connections, is not let in again before the block is over: nothing the  *)
(* other operations do to the table in between makes it forget.  (While    *)
(* the table has a slot for every address.)                                *)
BanHonoured ==
    [][\A s \in Session : LetIn(s) => sampled[s] >= ban[addr[s]]]_<<vars, history>>

(* MaxAuthFailures wrong passwords in a row have led to a block, however   *)
(* they were spread over connections and threads.                          *)
FailuresBan == \A a \in IP : streak[a] >= MaxAuthFailures => ban[a] # 0

(* What the entry of a tracked address keeps of its bans: a blocked entry  *)
(* holds the end of the last one; the last one of any other entry is over, *)
(* for the connection being checked too, whose clock was read before; and  *)
(* failures that have led to no block are all counted.                     *)
BanKept(e, a) ==
    /\ e.blocked => RateLimitEnabled /\ ban[a] = e.until /\ e.until # 0
    /\ ~e.blocked => /\ ban[a] <= now
                     /\ \A s \in Session : stage[s] = "checking" => ban[a] <= sampled[s]
    /\ RateLimitEnabled =>
          ban[a] # 0 \/ (streak[a] <= e.failures /\ e.failures < MaxAuthFailures)

(* One connection is in the accept loop at a time, and no clock that was   *)
(* read before a lock is ahead of the time.                                *)
ClockInv ==
    /\ \A s \in Session : stage[s] # "idle" => addr[s] \in IP
    /\ \A r, s \in Session :
          stage[r] \in AcceptStages /\ stage[s] \in AcceptStages => r = s
    /\ \A s \in Session : sampled[s] <= now

(* The inductive strengthening of BanHonoured and FailuresBan, for a table *)
(* with a slot for every address.                                          *)
BanInv ==
    /\ ban \in [IP -> Nat] /\ streak \in [IP -> Nat]
    /\ \A i, j \in Slot : table[i].ip = table[j].ip /\ table[i].ip # NoIP => i = j
    /\ \A a \in IP : Tracked(table, a) = {} =>
          ban[a] = 0 /\ (RateLimitEnabled => streak[a] = 0)
    /\ \A i \in Slot : table[i].ip \in IP => BanKept(table[i], table[i].ip)

(* How often a was let in by the tick t, which may be before the first.    *)
ArrivedBy(a, t) == IF t < 0 THEN 0 ELSE arrivals[a][t]

(* How often a was let in during the RateLimitWindow ticks that end at t.  *)
RecentArrivals(a, t) == ArrivedBy(a, t) - ArrivedBy(a, t - RateLimitWindow)

(* The limiter's windows are fixed, not sliding: a window starts with an   *)
(* arrival, so across its end an address can get in 2N - 1 times in the    *)
(* time for which N are configured, and never more.                        *)
BurstBounded ==
    \A a \in IP : \A t \in 0 .. MaxTime :
        RecentArrivals(a, t) <= 2 * MaxConnRatePerIp - 1

(* What the entry of an address keeps of its arrivals.  Its window began   *)
(* with one, so that after it there were fewer than were counted, and than *)
(* are allowed; a window that ends at its beginning has one less of the    *)
(* last limiter window.                                                    *)
RateKept(e, a) ==
    LET granted == IF e.recent < MaxConnRatePerIp THEN e.recent ELSE MaxConnRatePerIp
    IN  /\ e.recent >= 1 /\ e.window_start <= now
        /\ \A s \in Session : stage[s] = "checking" => e.window_start <= sampled[s]
        /\ arrivals[a][MaxTime] - arrivals[a][e.window_start] <= granted - 1
        /\ arrivals[a][MaxTime] - ArrivedBy(a, e.window_start - RateLimitWindow)
              <= MaxConnRatePerIp - 1 + granted

(* The inductive strengthening of BurstBounded, where rates are limited    *)
(* and the table has a slot for every address.                             *)
RateInv ==
    /\ now <= MaxTime
    /\ arrivals \in [IP -> [0 .. MaxTime -> Nat]]
    /\ \A a \in IP : \A t, u \in 0 .. MaxTime : t <= u => arrivals[a][t] <= arrivals[a][u]
    /\ \A a \in IP : arrivals[a][now] = arrivals[a][MaxTime]
    /\ \A a \in IP, s \in Session :
          stage[s] = "checking" => arrivals[a][sampled[s]] = arrivals[a][MaxTime]
    /\ \A s \in Holding : Tracked(table, addr[s]) # {}
    /\ \A a \in IP : Tracked(table, a) = {} => arrivals[a][MaxTime] = 0
    /\ \A i \in Slot : table[i].ip \in IP => RateKept(table[i], table[i].ip)
    /\ BurstBounded
=============================================================================
