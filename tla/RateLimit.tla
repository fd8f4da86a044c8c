------------------------------ MODULE RateLimit ------------------------------
(***************************************************************************)
(* The per-address table of src/ratelimit.c as pure operators: which slot  *)
(* an address gets, and what each locked operation does to its entry.      *)
(* Every operator takes the table as an argument; Admission.tla holds the  *)
(* table as state and calls them once per critical section.                *)
(***************************************************************************)
EXTENDS Integers

CONSTANTS
    IP,                 \* peer addresses ("unknown" is one of them)
    NoIP,               \* the empty address of an unused slot
    MaxTrackedIPs,      \* MAX_TRACKED_IPS: slots of the table
    MaxConnPerIp,       \* g_max_conn_per_ip
    MaxConnRatePerIp,   \* g_max_conn_rate_per_ip
    RateLimitEnabled,   \* g_rate_limit_enabled
    RateLimitWindow,    \* RATE_LIMIT_WINDOW, in clock ticks
    MaxAuthFailures,    \* MAX_AUTH_FAILURES
    BlockDuration       \* BLOCK_DURATION, in clock ticks

ASSUME RateLimitAssumption ==
    /\ NoIP \notin IP
    /\ MaxTrackedIPs \in Nat \ {0}
    /\ MaxConnPerIp \in Nat \ {0}
    /\ MaxConnRatePerIp \in Nat \ {0}
    /\ RateLimitEnabled \in BOOLEAN
    /\ RateLimitWindow \in Nat \ {0}
    /\ MaxAuthFailures \in Nat \ {0}
    /\ BlockDuration \in Nat \ {0}

Slot == 1 .. MaxTrackedIPs

(* ip_rate_limit_t *)
Entry == [ip : IP \cup {NoIP}, window_start : Nat, recent : Nat,
          active : Nat, failures : Nat, blocked : BOOLEAN, until : Nat]

(* The zeroed static array, and a slot that get_rate_limit_entry resets.   *)
EmptyEntry == [ip |-> NoIP, window_start |-> 0, recent |-> 0, active |-> 0,
               failures |-> 0, blocked |-> FALSE, until |-> 0]

FreshEntry(a, clock) == [EmptyEntry EXCEPT !.ip = a, !.window_start = clock]

-----------------------------------------------------------------------------
(* Slot selection of get_rate_limit_entry.                                 *)

Tracked(tbl, a) == {i \in Slot : tbl[i].ip = a}
Inactive(tbl)   == {i \in Slot : tbl[i].active = 0}

First(S) == CHOOSE i \in S : \A j \in S : i <= j

(* The scans compare with a strict <: first among equal window starts.     *)
Oldest(tbl, S) ==
    First({i \in S : \A j \in S : tbl[i].window_start <= tbl[j].window_start})

(* What a scan that ignores active connections would reuse.                *)
ReusableAny(tbl) == Slot

(* The slots that may be reused: the inactive ones, unless all are active. *)
Reusable(tbl) == IF Inactive(tbl) # {} THEN Inactive(tbl) ELSE Slot

SlotFor(tbl, a) ==
    IF Tracked(tbl, a) # {} THEN First(Tracked(tbl, a))
    ELSE IF Tracked(tbl, NoIP) # {} THEN First(Tracked(tbl, NoIP))
    ELSE Oldest(tbl, Reusable(tbl))

(* The entry the caller gets; `clock' is time(NULL) inside the lock.       *)
GetEntry(tbl, a, clock) ==
    IF Tracked(tbl, a) # {} THEN tbl[SlotFor(tbl, a)] ELSE FreshEntry(a, clock)

Store(tbl, a, e) == [tbl EXCEPT ![SlotFor(tbl, a)] = e]

-----------------------------------------------------------------------------
(* ratelimit_check_ip; `t' is the `now' it read before taking the lock.    *)

Refused(e, t) == \/ e.active >= MaxConnPerIp
                 \/ RateLimitEnabled /\ e.blocked /\ t < e.until

(* Reached only when not Refused, so a blocked entry's time is up.         *)
Unblocked(e) == IF e.blocked THEN [e EXCEPT !.blocked = FALSE, !.failures = 0]
                             ELSE e

(* A window that starts again at every check.                              *)
WindowedAlways(e, t) == [e EXCEPT !.window_start = t, !.recent = 0]

Windowed(e, t) ==
    IF t - e.window_start >= RateLimitWindow
    THEN [e EXCEPT !.window_start = t, !.recent = 0]
    ELSE e

Counted(e, t) ==
    IF RateLimitEnabled THEN [Windowed(Unblocked(e), t) EXCEPT !.recent = @ + 1]
                        ELSE e

OverRate(e, t) == RateLimitEnabled /\ Counted(e, t).recent > MaxConnRatePerIp

Block(e, t) == [e EXCEPT !.blocked = TRUE, !.until = t + BlockDuration]

Admits(e, t) == ~Refused(e, t) /\ ~OverRate(e, t)

CheckedEntry(e, t) ==
    IF Refused(e, t) THEN e
    ELSE IF OverRate(e, t) THEN Block(Counted(e, t), t)
    ELSE [Counted(e, t) EXCEPT !.active = @ + 1]

-----------------------------------------------------------------------------
(* ratelimit_record_auth_failure and ratelimit_release_ip.                 *)

(* A failure count that never blocks.                                      *)
FailedEntryNoBlock(e, t) == [e EXCEPT !.failures = @ + 1]

FailedEntry(e, t) ==
    LET f == [e EXCEPT !.failures = @ + 1]
    IN  IF f.failures >= MaxAuthFailures THEN Block(f, t) ELSE f

(* A release that forgets to give the connection back, and one that frees  *)
(* the slot with the last connection.                                      *)
ReleasedEntryKept(e) == e
ReleasedEntryFreed(e) ==
    IF e.active > 1 THEN [e EXCEPT !.active = @ - 1] ELSE EmptyEntry

ReleasedEntry(e) == IF e.active > 0 THEN [e EXCEPT !.active = @ - 1] ELSE e
=============================================================================
