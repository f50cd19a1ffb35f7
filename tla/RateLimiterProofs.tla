------------------------- MODULE RateLimiterProofs -------------------------
(***************************************************************************)
(* Proofs about RateLimiter, for any number of callers, any limit and any  *)
(* window.                                                                 *)
(*                                                                         *)
(* That the window which ends now holds no more than the limit rests on    *)
(* two facts.  While no two calls read the same time, the entry that a     *)
(* denied call takes back is nobody else's (OwnTimes).  And while no       *)
(* command fails, every call admitted in the window that ends now is among *)
(* the entries (Counted): a transaction that runs late drops only what has *)
(* left the window even longer ago, and the key outlives the window of     *)
(* each of its entries (KeyOutlives).  For windows that ended earlier this *)
(* fails: their entries may be gone when a late call is counted.           *)
(***************************************************************************)
EXTENDS Cache, FiniteSetTheorems, TLAPS

\* A call in progress.
Busy(c) == stage[c] # "idle"

OwnTimes ==
    ~shared => \A c \in Callers :
                 Busy(c) => /\ stamp[c] \notin admitted
                            /\ \A d \in Callers : Busy(d) /\ d # c => stamp[d] # stamp[c]

KeyOutlives == \A t \in admitted : t + Window <= ttl

Counted == failures = 0 /\ ~shared => Recent \subseteq entries

\* The inductive invariant.
IInv == LimiterTypeOK /\ OwnTimes /\ KeyOutlives /\ Counted /\ AdmittedBounded

USE LimitAssumption, WindowAssumption, LimiterBoundsAssumption

-----------------------------------------------------------------------------
(* Type correctness.                                                       *)

LEMMA TypeInit == LimiterInit => LimiterTypeOK
<1> SUFFICES ASSUME LimiterInit PROVE LimiterTypeOK
  OBVIOUS
<1>1. /\ clock = 0 /\ ttl = 0 /\ failures = 0 /\ shared = FALSE
      /\ entries = {} /\ admitted = {} /\ used = {}
      /\ stage = [c \in Callers |-> "idle"] /\ stamp = [c \in Callers |-> 0]
  BY DEF LimiterInit
<1>2. stamp \in [Callers -> 0..clock]
  BY <1>1, SMT
<1>3. stage \in [Callers -> {"idle", "check", "withdraw"}]
  BY <1>1
<1> QED
  BY <1>1, <1>2, <1>3 DEF LimiterTypeOK

\* What the type of the times says of each of them.
LEMMA Times ==
    ASSUME LimiterTypeOK
    PROVE  /\ \A t \in used \cup admitted \cup entries : t \in Nat /\ t <= clock
           /\ \A c \in Callers : stamp[c] \in Nat /\ stamp[c] <= clock
           /\ clock \in Nat /\ ttl \in Nat /\ Window \in Nat /\ Window > 0
<1>1. /\ used \subseteq 0..clock /\ admitted \subseteq used /\ entries \subseteq used
      /\ stamp \in [Callers -> 0..clock] /\ clock \in Nat /\ ttl \in Nat
  BY DEF LimiterTypeOK
<1>2. \A t \in 0..clock : t \in Nat /\ t <= clock
  BY <1>1, SMT
<1>3. used \cup admitted \cup entries \subseteq 0..clock
  BY <1>1
<1>4. \A c \in Callers : stamp[c] \in 0..clock
  BY <1>1
<1> QED
  BY <1>1, <1>2, <1>3, <1>4, SMT

\* Every step keeps the types.
LEMMA TypeStep == LimiterTypeOK /\ [LimiterNext]_limiterVars => LimiterTypeOK'
<1> SUFFICES ASSUME LimiterTypeOK, [LimiterNext]_limiterVars PROVE LimiterTypeOK'
  OBVIOUS
<1>0. clock < clock + Window /\ clock \in 0..clock
  BY Times, SMT
<1>1. ASSUME NEW c \in Callers, ReadTime(c) PROVE LimiterTypeOK'
  BY <1>0, <1>1, SMT DEF LimiterTypeOK, ReadTime, GoOn
<1>2. ASSUME NEW c \in Callers, CheckLimit(c) PROVE LimiterTypeOK'
  <2>1. /\ entries' = Kept(stamp[c]) \cup {stamp[c]} /\ ttl' = clock + Window /\ stage[c] = "check"
        /\ UNCHANGED <<clock, stamp, used, shared, failures>>
        /\ \/ stage' = [stage EXCEPT ![c] = "idle"] /\ admitted' = admitted \cup {stamp[c]}
           \/ stage' = [stage EXCEPT ![c] = "withdraw"] /\ admitted' = admitted
    BY <1>2 DEF CheckLimit, Transaction, GoOn, Life, Denied
  <2>2. entries' \subseteq used /\ admitted' \subseteq used
    BY <1>2, <2>1 DEF LimiterTypeOK, Kept
  <2>3. stage' \in [Callers -> {"idle", "check", "withdraw"}]
    BY <2>1 DEF LimiterTypeOK
  <2>4. \A d \in Callers : stage'[d] # "idle" => stage[d] # "idle"
    BY <2>1 DEF LimiterTypeOK
  <2>5. ttl' \in Nat /\ clock < ttl'
    BY <1>0, <2>1, Times, SMT
  <2> QED
    BY <2>1, <2>2, <2>3, <2>4, <2>5 DEF LimiterTypeOK
<1>3. ASSUME NEW c \in Callers, Withdraw(c) PROVE LimiterTypeOK'
  <2>1. /\ stage[c] = "withdraw" /\ stage' = [stage EXCEPT ![c] = "idle"] /\ entries' = entries \ {stamp[c]}
        /\ UNCHANGED <<clock, ttl, stamp, admitted, used, shared, failures>>
    BY <1>3 DEF Withdraw, GoOn
  <2>2. /\ stage' \in [Callers -> {"idle", "check", "withdraw"}]
        /\ \A d \in Callers : stage'[d] # "idle" => stage[d] # "idle"
    BY <2>1 DEF LimiterTypeOK
  <2>3. entries' \subseteq used /\ (entries' # {} => clock < ttl)
    BY <2>1 DEF LimiterTypeOK
  <2> QED
    BY <2>1, <2>2, <2>3 DEF LimiterTypeOK
<1>4. ASSUME NEW c \in Callers, CheckFails(c) PROVE LimiterTypeOK'
  <2>1. /\ stage[c] = "check" /\ stage' = [stage EXCEPT ![c] = "idle"] /\ failures' = failures + 1
        /\ UNCHANGED <<clock, stamp, admitted, used, shared>>
        /\ \/ entries' = Kept(stamp[c]) \cup {stamp[c]} /\ ttl' = clock + Window
           \/ UNCHANGED <<entries, ttl>>
    BY <1>4 DEF CheckFails, GoOn, SpendFailure, Transaction, Life
  <2>2. /\ stage' \in [Callers -> {"idle", "check", "withdraw"}]
        /\ \A d \in Callers : stage'[d] # "idle" => stage[d] # "idle"
    BY <2>1 DEF LimiterTypeOK
  <2>3. entries' \subseteq used
    <3>1. stamp[c] \in used /\ entries \subseteq used
      BY <2>1 DEF LimiterTypeOK
    <3> QED
      BY <2>1, <3>1 DEF Kept
  <2>4. ttl' \in Nat /\ failures' \in Nat
    BY <2>1, SMT DEF LimiterTypeOK
  <2>5. entries' # {} => clock < ttl'
    BY <1>0, <2>1 DEF LimiterTypeOK
  <2> QED
    BY <2>1, <2>2, <2>3, <2>4, <2>5 DEF LimiterTypeOK
<1>5. ASSUME NEW c \in Callers, WithdrawFails(c) PROVE LimiterTypeOK'
  BY <1>5, SMT DEF LimiterTypeOK, WithdrawFails, GoOn, SpendFailure
<1>6. CASE TimePasses
  <2>1. clock' = clock + 1 /\ entries' = (IF clock' >= ttl THEN {} ELSE entries)
        /\ UNCHANGED <<ttl, stage, stamp, admitted, used, shared, failures>>
    BY <1>6 DEF TimePasses
  <2>2. clock' \in Nat /\ (entries' # {} => clock' < ttl)
    BY <2>1, Times, SMT
  <2>3. 0..clock \subseteq 0..clock'
    BY <2>1, Times, SMT
  <2>4. entries' \subseteq used
    BY <2>1 DEF LimiterTypeOK
  <2> QED
    BY <2>1, <2>2, <2>3, <2>4 DEF LimiterTypeOK
<1>7. CASE UNCHANGED limiterVars
  BY <1>7 DEF LimiterTypeOK, limiterVars
<1> QED
  BY <1>1, <1>2, <1>3, <1>4, <1>5, <1>6, <1>7 DEF LimiterNext

-----------------------------------------------------------------------------
(* The entry of a call is its own.                                         *)

\* Every step keeps the times of the calls apart.
LEMMA OwnTimesStep == LimiterTypeOK /\ OwnTimes /\ [LimiterNext]_limiterVars => OwnTimes'
<1> SUFFICES ASSUME LimiterTypeOK, OwnTimes, [LimiterNext]_limiterVars PROVE OwnTimes'
  OBVIOUS
<1> USE DEF LimiterTypeOK, OwnTimes, Busy
<1>1. ASSUME NEW c \in Callers, ReadTime(c) PROVE OwnTimes'
  <2>1. /\ stage' = [stage EXCEPT ![c] = "check"] /\ stamp' = [stamp EXCEPT ![c] = clock]
        /\ admitted' = admitted /\ (~shared' => ~shared /\ clock \notin used)
    BY <1>1 DEF ReadTime, GoOn
  <2>2. \A d \in Callers : d # c => stage'[d] = stage[d] /\ stamp'[d] = stamp[d]
    BY <2>1
  <2>3. stamp'[c] = clock
    BY <2>1
  <2> QED
    BY <2>1, <2>2, <2>3
<1>2. ASSUME NEW c \in Callers, CheckLimit(c) PROVE OwnTimes'
  BY <1>2, SMT DEF CheckLimit, GoOn, Denied
<1>3. ASSUME NEW c \in Callers, Withdraw(c) PROVE OwnTimes'
  BY <1>3, SMT DEF Withdraw, GoOn
<1>4. ASSUME NEW c \in Callers, CheckFails(c) PROVE OwnTimes'
  BY <1>4, SMT DEF CheckFails, GoOn
<1>5. ASSUME NEW c \in Callers, WithdrawFails(c) PROVE OwnTimes'
  BY <1>5, SMT DEF WithdrawFails, GoOn
<1>6. CASE TimePasses
  BY <1>6, SMT DEF TimePasses
<1>7. CASE UNCHANGED limiterVars
  BY <1>7, SMT DEF limiterVars
<1> QED
  BY <1>1, <1>2, <1>3, <1>4, <1>5, <1>6, <1>7 DEF LimiterNext

-----------------------------------------------------------------------------
(* The key outlives the window of every admitted call.                     *)

\* Every step keeps the key as long as what it counts.
LEMMA KeyOutlivesStep == LimiterTypeOK /\ KeyOutlives /\ [LimiterNext]_limiterVars => KeyOutlives'
<1> SUFFICES ASSUME LimiterTypeOK, KeyOutlives, [LimiterNext]_limiterVars PROVE KeyOutlives'
  OBVIOUS
<1> USE DEF LimiterTypeOK, KeyOutlives
<1>1. ASSUME NEW c \in Callers, ReadTime(c) PROVE KeyOutlives'
  BY <1>1, SMT DEF ReadTime
<1>2. ASSUME NEW c \in Callers, CheckLimit(c) PROVE KeyOutlives'
  <2>1. ttl' = clock + Window /\ admitted' \subseteq admitted \cup {stamp[c]}
    BY <1>2 DEF CheckLimit, Transaction, Life
  <2>2. \A t \in admitted \cup {stamp[c]} : t + Window <= clock + Window
    BY Times, SMT
  <2> QED
    BY <2>1, <2>2
<1>3. ASSUME NEW c \in Callers, Withdraw(c) PROVE KeyOutlives'
  BY <1>3, SMT DEF Withdraw
<1>4. ASSUME NEW c \in Callers, CheckFails(c) PROVE KeyOutlives'
  BY <1>4, SMT DEF CheckFails, Transaction, Life
<1>5. ASSUME NEW c \in Callers, WithdrawFails(c) PROVE KeyOutlives'
  BY <1>5, SMT DEF WithdrawFails
<1>6. CASE TimePasses
  BY <1>6, SMT DEF TimePasses
<1>7. CASE UNCHANGED limiterVars
  BY <1>7, SMT DEF limiterVars
<1> QED
  BY <1>1, <1>2, <1>3, <1>4, <1>5, <1>6, <1>7 DEF LimiterNext

-----------------------------------------------------------------------------
(* What was admitted lately is counted.                                    *)

\* A transaction keeps every entry of the window that ends now.
LEMMA KeptRecent ==
    ASSUME LimiterTypeOK, Counted, failures = 0, ~shared, NEW c \in Callers
    PROVE  Recent \subseteq Kept(stamp[c])
<1>1. \A t \in Recent : t \in entries /\ t > clock - Window /\ t \in Nat
  BY Times DEF Counted, Recent
<1>2. stamp[c] \in Nat /\ stamp[c] <= clock /\ clock \in Nat /\ Window \in Nat
  BY Times
<1>3. \A t \in Recent : t > stamp[c] - Window
  BY <1>1, <1>2, SMT
<1> QED
  BY <1>1, <1>3 DEF Kept

\* Without faults, every step keeps what was admitted counted.
LEMMA CountedStep == IInv /\ [LimiterNext]_limiterVars => Counted'
<1> SUFFICES ASSUME IInv, [LimiterNext]_limiterVars, (failures = 0 /\ ~shared)' PROVE (Recent \subseteq entries)'
  BY DEF Counted
<1> USE DEF LimiterTypeOK
<1>0. LimiterTypeOK /\ OwnTimes /\ KeyOutlives /\ Counted
  BY DEF IInv
<1>1. ASSUME NEW c \in Callers, ReadTime(c) PROVE (Recent \subseteq entries)'
  BY <1>0, <1>1, SMT DEF ReadTime, Counted, Recent
<1>2. ASSUME NEW c \in Callers, CheckLimit(c) PROVE (Recent \subseteq entries)'
  <2>1. Recent \subseteq Kept(stamp[c])
    BY <1>0, <1>2, KeptRecent DEF CheckLimit
  <2> QED
    BY <1>0, <1>2, <2>1, SMT DEF CheckLimit, Transaction, Recent
<1>3. ASSUME NEW c \in Callers, Withdraw(c) PROVE (Recent \subseteq entries)'
  BY <1>0, <1>3, SMT DEF Withdraw, GoOn, Counted, OwnTimes, Busy, Recent
<1>4. ASSUME NEW c \in Callers, CheckFails(c) PROVE (Recent \subseteq entries)'
  BY <1>0, <1>4, SMT DEF CheckFails, SpendFailure
<1>5. ASSUME NEW c \in Callers, WithdrawFails(c) PROVE (Recent \subseteq entries)'
  BY <1>0, <1>5, SMT DEF WithdrawFails, SpendFailure
<1>6. CASE TimePasses
  <2>1. /\ clock' = clock + 1 /\ entries' = (IF clock' >= ttl THEN {} ELSE entries)
        /\ admitted' = admitted /\ ttl' = ttl /\ failures = 0 /\ ~shared
    BY <1>6 DEF TimePasses
  <2>2. \A t \in admitted : t \in Nat /\ t + Window <= ttl
    BY <1>0, Times DEF KeyOutlives
  <2>3. \A t \in admitted : t > clock' - Window => t > clock - Window /\ clock' < ttl
    <3>1. clock \in Nat /\ Window \in Nat /\ ttl \in Nat
      BY <1>0, Times
    <3> QED
      BY <2>1, <2>2, <3>1, SMT
  <2>4. ASSUME NEW t \in Recent' PROVE t \in entries'
    <3>1. t \in admitted /\ t > clock' - Window
      BY <2>1 DEF Recent
    <3>2. t \in entries
      BY <1>0, <2>1, <2>3, <3>1 DEF Counted, Recent
    <3>3. ~(clock' >= ttl)
      <4>1. clock' < ttl /\ clock' \in Nat /\ ttl \in Nat
        BY <1>0, <2>1, <2>3, <3>1, Times
      <4> QED
        BY <4>1, SMT
    <3> QED
      BY <2>1, <3>2, <3>3
  <2> QED
    BY <2>4
<1>7. CASE UNCHANGED limiterVars
  BY <1>0, <1>7, SMT DEF limiterVars, Counted, Recent
<1> QED
  BY <1>1, <1>2, <1>3, <1>4, <1>5, <1>6, <1>7 DEF LimiterNext

-----------------------------------------------------------------------------
(* The limit holds of the window that ends now.                            *)

LEMMA TimesFinite == ASSUME LimiterTypeOK PROVE IsFiniteSet(used)
<1>1. IsFiniteSet(0..clock)
  BY FS_Interval, SMT DEF LimiterTypeOK
<1> QED
  BY <1>1, FS_Subset DEF LimiterTypeOK

\* Every step keeps the bound.
LEMMA BoundStep == IInv /\ [LimiterNext]_limiterVars => AdmittedBounded'
<1> SUFFICES ASSUME IInv, [LimiterNext]_limiterVars, (failures = 0 /\ ~shared)'
             PROVE  Cardinality(Recent') <= Limit
  BY DEF AdmittedBounded
<1>0. LimiterTypeOK /\ Counted /\ AdmittedBounded
  BY DEF IInv
<1>a. IsFiniteSet(Recent) /\ IsFiniteSet(entries)
  BY <1>0, TimesFinite, FS_Subset DEF LimiterTypeOK, Recent
<1>b. ASSUME Recent' \subseteq Recent, failures = 0, ~shared PROVE Cardinality(Recent') <= Limit
  <2>1. Cardinality(Recent') <= Cardinality(Recent)
    BY <1>a, <1>b, FS_Subset
  <2>2. Cardinality(Recent) \in Nat /\ Cardinality(Recent') \in Nat
    BY <1>a, <1>b, FS_Subset, FS_CardinalityType
  <2>3. Cardinality(Recent) <= Limit
    BY <1>0, <1>b DEF AdmittedBounded
  <2> QED
    BY <2>1, <2>2, <2>3, SMT
<1>1. ASSUME NEW c \in Callers, ReadTime(c) PROVE Cardinality(Recent') <= Limit
  BY <1>0, <1>1, <1>b, SMT DEF ReadTime, Recent, LimiterTypeOK
<1>2. ASSUME NEW c \in Callers, CheckLimit(c) PROVE Cardinality(Recent') <= Limit
  <2>1. CASE UNCHANGED admitted
    BY <1>0, <1>2, <2>1, <1>b, SMT DEF CheckLimit, Recent
  <2>2. CASE Cardinality(Kept(stamp[c])) < Limit /\ admitted' = admitted \cup {stamp[c]}
    <3>1. Recent \subseteq Kept(stamp[c])
      BY <1>0, <1>2, KeptRecent DEF CheckLimit
    <3>2. IsFiniteSet(Kept(stamp[c]))
      BY <1>a, FS_Subset DEF Kept
    <3>3. /\ Cardinality(Recent) <= Cardinality(Kept(stamp[c]))
          /\ Cardinality(Recent) \in Nat /\ Cardinality(Kept(stamp[c])) \in Nat
      BY <1>a, <3>1, <3>2, FS_Subset, FS_CardinalityType
    <3>4. Recent' \subseteq Recent \cup {stamp[c]}
      BY <1>2, <2>2 DEF CheckLimit, Recent
    <3>5. /\ IsFiniteSet(Recent \cup {stamp[c]})
          /\ Cardinality(Recent \cup {stamp[c]}) <= Cardinality(Recent) + 1
      <4>1. /\ IsFiniteSet(Recent \cup {stamp[c]})
            /\ \/ Cardinality(Recent \cup {stamp[c]}) = Cardinality(Recent)
               \/ Cardinality(Recent \cup {stamp[c]}) = Cardinality(Recent) + 1
        BY <1>a, FS_AddElement
      <4> QED
        BY <3>3, <4>1, SMT
    <3>6. /\ Cardinality(Recent') <= Cardinality(Recent \cup {stamp[c]})
          /\ Cardinality(Recent') \in Nat /\ Cardinality(Recent \cup {stamp[c]}) \in Nat
      BY <3>4, <3>5, FS_Subset, FS_CardinalityType
    <3> QED
      BY <2>2, <3>3, <3>5, <3>6, SMT
  <2> QED
    BY <1>2, <2>1, <2>2 DEF CheckLimit
<1>3. ASSUME NEW c \in Callers, Withdraw(c) PROVE Cardinality(Recent') <= Limit
  BY <1>3, <1>b, SMT DEF Withdraw, Recent
<1>4. ASSUME NEW c \in Callers, CheckFails(c) PROVE Cardinality(Recent') <= Limit
  BY <1>0, <1>4, SMT DEF CheckFails, SpendFailure, LimiterTypeOK
<1>5. ASSUME NEW c \in Callers, WithdrawFails(c) PROVE Cardinality(Recent') <= Limit
  BY <1>0, <1>5, SMT DEF WithdrawFails, SpendFailure, LimiterTypeOK
<1>6. CASE TimePasses
  <2>1. Recent' \subseteq Recent
    <3>1. clock' = clock + 1 /\ admitted' = admitted
      BY <1>6 DEF TimePasses
    <3>2. \A t \in admitted : t > clock' - Window => t > clock - Window
      BY <1>0, <3>1, Times, SMT
    <3> QED
      BY <3>1, <3>2 DEF Recent
  <2> QED
    BY <1>6, <2>1, <1>b DEF TimePasses
<1>7. CASE UNCHANGED limiterVars
  BY <1>7, <1>b DEF limiterVars, Recent
<1> QED
  BY <1>1, <1>2, <1>3, <1>4, <1>5, <1>6, <1>7 DEF LimiterNext

\* The inductive invariant holds of every state.
LEMMA InductiveInvariant == LimiterSpec => []IInv
<1>1. LimiterInit => IInv
  <2> SUFFICES ASSUME LimiterInit PROVE IInv
    OBVIOUS
  <2>1. LimiterTypeOK
    BY TypeInit
  <2>2. Recent = {}
    BY DEF LimiterInit, Recent
  <2>3. OwnTimes /\ KeyOutlives /\ Counted
    BY <2>2 DEF LimiterInit, OwnTimes, Busy, KeyOutlives, Counted
  <2>4. AdmittedBounded
    BY <2>2, FS_EmptySet, SMT DEF AdmittedBounded
  <2> QED
    BY <2>1, <2>3, <2>4 DEF IInv
<1>2. IInv /\ [LimiterNext]_limiterVars => IInv'
  BY TypeStep, OwnTimesStep, KeyOutlivesStep, CountedStep, BoundStep DEF IInv
<1> QED
  BY <1>1, <1>2, PTL DEF LimiterSpec

\* The state of the limiter keeps its types: in particular every entry is a time
\* that was read and a key that holds entries has not expired.
THEOREM TypeCorrect == LimiterSpec => []LimiterTypeOK
BY InductiveInvariant, PTL DEF IInv

\* While no command fails and no two calls share an instant, the window that ends
\* at each moment holds at most Limit admitted calls of those whose transaction has
\* run by then (check_rate_limit).
THEOREM LastWindowLimited == LimiterSpec => []AdmittedBounded
BY InductiveInvariant, PTL DEF IInv

-----------------------------------------------------------------------------
(* Entries have owners.                                                    *)

\* Every step keeps the entries explained.
LEMMA ExplainedStep == LimiterTypeOK /\ EntriesExplained /\ [LimiterNext]_limiterVars => EntriesExplained'
<1> SUFFICES ASSUME LimiterTypeOK, EntriesExplained, [LimiterNext]_limiterVars, failures' = 0
             PROVE  (entries \subseteq admitted \cup Withdrawing)'
  BY DEF EntriesExplained
<1> USE DEF LimiterTypeOK, EntriesExplained, Withdrawing
<1>1. ASSUME NEW c \in Callers, ReadTime(c) PROVE (entries \subseteq admitted \cup Withdrawing)'
  BY <1>1, SMT DEF ReadTime, GoOn
<1>2. ASSUME NEW c \in Callers, CheckLimit(c) PROVE (entries \subseteq admitted \cup Withdrawing)'
  <2>1. /\ entries' = Kept(stamp[c]) \cup {stamp[c]} /\ stage[c] = "check" /\ stamp' = stamp
        /\ \/ stage' = [stage EXCEPT ![c] = "idle"] /\ admitted' = admitted \cup {stamp[c]}
           \/ stage' = [stage EXCEPT ![c] = "withdraw"] /\ admitted' = admitted
        /\ entries \subseteq admitted \cup Withdrawing
    BY <1>2 DEF CheckLimit, GoOn, Transaction, Denied
  <2>2. Kept(stamp[c]) \subseteq entries
    BY DEF Kept
  <2>3. Withdrawing \subseteq Withdrawing'
    BY <2>1
  <2>4. stamp[c] \in admitted' \cup Withdrawing'
    BY <2>1
  <2> QED
    BY <2>1, <2>2, <2>3, <2>4
<1>3. ASSUME NEW c \in Callers, Withdraw(c) PROVE (entries \subseteq admitted \cup Withdrawing)'
  <2>1. /\ entries' = entries \ {stamp[c]} /\ stage' = [stage EXCEPT ![c] = "idle"]
        /\ stamp' = stamp /\ admitted' = admitted /\ entries \subseteq admitted \cup Withdrawing
    BY <1>3 DEF Withdraw, GoOn
  <2>2. Withdrawing \subseteq Withdrawing' \cup {stamp[c]}
    BY <2>1
  <2> QED
    BY <2>1, <2>2
<1>4. ASSUME NEW c \in Callers, CheckFails(c) PROVE (entries \subseteq admitted \cup Withdrawing)'
  BY <1>4, SMT DEF CheckFails, SpendFailure
<1>5. ASSUME NEW c \in Callers, WithdrawFails(c)
      PROVE  (entries \subseteq admitted \cup Withdrawing)'
  BY <1>5, SMT DEF WithdrawFails, SpendFailure
<1>6. CASE TimePasses
  BY <1>6 DEF TimePasses
<1>7. CASE UNCHANGED limiterVars
  BY <1>7, SMT DEF limiterVars
<1> QED
  BY <1>1, <1>2, <1>3, <1>4, <1>5, <1>6, <1>7 DEF LimiterNext

\* While no command fails, only admitted calls and denied ones that are about to
\* take their entry back use up the limit.
THEOREM NothingElseCounts == LimiterSpec => []EntriesExplained
<1>1. LimiterInit => EntriesExplained
  BY DEF LimiterInit, EntriesExplained
<1> QED
  BY <1>1, ExplainedStep, TypeCorrect, PTL DEF LimiterSpec

-----------------------------------------------------------------------------
(* The uses of the cache side by side.                                     *)

\* Every behaviour of Cache is one of the tokens alone and one of the limiter
\* alone: what is proved of them holds of it.
THEOREM UsesAlone == CacheSpec => Spec /\ LimiterSpec
<1>1. CacheInit => Init /\ LimiterInit
  BY DEF CacheInit
<1>2. [CacheNext]_cacheVars => [Next]_vars /\ [LimiterNext]_limiterVars
  BY DEF CacheNext, cacheVars, vars, limiterVars
<1> QED
  BY <1>1, <1>2, PTL DEF CacheSpec, Spec, LimiterSpec
=============================================================================
