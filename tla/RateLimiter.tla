---------------------------- MODULE RateLimiter ----------------------------
(***************************************************************************)
(* The sliding-window rate limiter of the cache manager (core/cache.py,    *)
(* check_rate_limit) for one key.                                          *)
(*                                                                         *)
(* A call reads the time, then sends one transaction to Redis that drops   *)
(* the entries that have left the window, counts the others, adds its own  *)
(* and renews the life of the key.  A call that is over the limit takes    *)
(* its entry back with a second command.  Entries are named by their       *)
(* times, so two calls of the same instant share one.  Callers share one   *)
(* clock; between the steps of a call others run and time passes.  A       *)
(* command that fails may have been executed; the call is then allowed.    *)
(***************************************************************************)
EXTENDS Integers, FiniteSets

CONSTANTS
    Callers,     \* the calls that may be in flight together
    Limit,       \* max_requests
    Window,      \* window_seconds
    MaxClock,    \* bound: when the clock stops
    MaxFailures  \* bound: how many commands may fail

ASSUME LimitAssumption == Limit \in Nat
ASSUME WindowAssumption == Window \in Nat \ {0}
ASSUME LimiterBoundsAssumption == MaxClock \in Nat /\ MaxFailures \in Nat

VARIABLES
    clock,      \* the time
    entries,    \* the members of the sorted set, which are their scores
    ttl,        \* the time at which the key expires
    stage,      \* stage[c]: where caller c stands
    stamp,      \* stamp[c]: the time that c has read
    admitted,   \* history: the times of the calls allowed by the count
    used,       \* history: the times that were read
    shared,     \* history: whether two calls have read the same time
    failures    \* history: the commands that failed

limiterVars == <<clock, entries, ttl, stage, stamp, admitted, used, shared, failures>>

LimiterInit ==
    /\ clock = 0
    /\ entries = {}
    /\ ttl = 0
    /\ stage = [c \in Callers |-> "idle"]
    /\ stamp = [c \in Callers |-> 0]
    /\ admitted = {}
    /\ used = {}
    /\ shared = FALSE
    /\ failures = 0

GoOn(c, from, to) ==
    /\ stage[c] = from
    /\ stage' = [stage EXCEPT ![c] = to]

SpendFailure ==
    /\ failures < MaxFailures
    /\ failures' = failures + 1

\* now = time.time().
ReadTime(c) ==
    /\ GoOn(c, "idle", "check")
    /\ stamp' = [stamp EXCEPT ![c] = clock]
    /\ used' = used \cup {clock}
    /\ shared' = (shared \/ clock \in used)
    /\ UNCHANGED <<clock, entries, ttl, admitted, failures>>

\* zremrangebyscore: what is left of the window that ends at time t.
KeptShort(t) == {e \in entries : e > t - Window + 1}
Kept(t) == {e \in entries : e > t - Window}

\* expire: the key lives for a window from now.
LifeUnset == ttl
Life == clock + Window

\* The transaction, whatever its caller learns of it.
Transaction(c) ==
    /\ entries' = Kept(stamp[c]) \cup {stamp[c]}
    /\ ttl' = Life

\* Where a call goes that is over the limit.
DeniedKeepsEntry == "idle"
Denied == "withdraw"

CheckLimit(c) ==
    /\ Transaction(c)
    /\ \/ /\ Cardinality(Kept(stamp[c])) < Limit
          /\ GoOn(c, "check", "idle")
          /\ admitted' = admitted \cup {stamp[c]}
       \/ /\ Cardinality(Kept(stamp[c])) >= Limit
          /\ GoOn(c, "check", Denied)
          /\ UNCHANGED admitted
    /\ UNCHANGED <<clock, stamp, used, shared, failures>>

\* zrem of the entry of a denied call.
Withdraw(c) ==
    /\ GoOn(c, "withdraw", "idle")
    /\ entries' = entries \ {stamp[c]}
    /\ UNCHANGED <<clock, ttl, stamp, admitted, used, shared, failures>>

\* A RedisError, before or after the command was executed: the call is allowed,
\* also one that was about to be denied.
CheckFails(c) ==
    /\ SpendFailure
    /\ GoOn(c, "check", "idle")
    /\ Transaction(c) \/ UNCHANGED <<entries, ttl>>
    /\ UNCHANGED <<clock, stamp, admitted, used, shared>>

WithdrawFails(c) ==
    /\ SpendFailure
    /\ GoOn(c, "withdraw", "idle")
    /\ entries' \in {entries, entries \ {stamp[c]}}
    /\ UNCHANGED <<clock, ttl, stamp, admitted, used, shared>>

\* Redis drops a key whose life has ended.
TimePasses ==
    /\ clock < MaxClock
    /\ clock' = clock + 1
    /\ entries' = IF clock' >= ttl THEN {} ELSE entries
    /\ UNCHANGED <<ttl, stage, stamp, admitted, used, shared, failures>>

LimiterNext ==
    \/ \E c \in Callers : ReadTime(c) \/ CheckLimit(c) \/ Withdraw(c) \/ CheckFails(c) \/ WithdrawFails(c)
    \/ TimePasses

LimiterSpec == LimiterInit /\ [][LimiterNext]_limiterVars

-----------------------------------------------------------------------------
(* Properties.                                                             *)

\* The type invariant: times are times that were read and have come, and a key
\* holds entries only while it lives.
LimiterTypeOK ==
    /\ clock \in Nat /\ ttl \in Nat /\ failures \in Nat /\ shared \in BOOLEAN
    /\ stage \in [Callers -> {"idle", "check", "withdraw"}]
    /\ stamp \in [Callers -> 0..clock]
    /\ used \subseteq 0..clock
    /\ entries \subseteq used /\ admitted \subseteq used
    /\ \A c \in Callers : stage[c] # "idle" => stamp[c] \in used
    /\ entries # {} => clock < ttl

\* The times of the calls that were denied and have not taken their entry back.
Withdrawing == {stamp[c] : c \in {d \in Callers : stage[d] = "withdraw"}}

\* The calls admitted in the window that ends now.
Recent == {t \in admitted : t > clock - Window}

\* As long as no command has failed and no two calls were of the same instant, at
\* most Limit of the calls that have run were admitted in the window that ends now,
\* however calls overlap and however late their transactions run.  Nothing is said
\* of earlier windows: a call that runs late may be admitted into one whose entries
\* others have dropped.
AdmittedBounded == failures = 0 /\ ~shared => Cardinality(Recent) <= Limit

\* Nothing else uses up the limit: without a failed command every entry is that
\* of an admitted call or of a denied one that is about to take it back.
EntriesExplained == failures = 0 => entries \subseteq admitted \cup Withdrawing
=============================================================================
