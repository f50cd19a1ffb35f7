--------------------------- MODULE PlatformProofs ---------------------------
(***************************************************************************)
(* Proofs about Backend, Forecaster, Platform and Service, for any         *)
(* requests, pool size, processes and bounds.                              *)
(*                                                                         *)
(* The pool counts the requests that stand where a connection is held.     *)
(* Why a request suffers is known by what it left behind: what is down, or *)
(* exhausted, is among the troubles of this life of the process            *)
(* (TroubleInv), and a request whose answer is bad, or whose event is lost,*)
(* is in flight in a life that has seen the cause (CauseInv).  The models  *)
(* that a process answers with come from one training.  Platform, which    *)
(* explores one part while the others rest, behaves in each part as the    *)
(* part alone does, and so keeps what is proved of each part; likewise     *)
(* Service, which adds the accounts.                                       *)
(***************************************************************************)
EXTENDS Service, InsightsProofs

-----------------------------------------------------------------------------
(* The API process.                                                        *)

\* What is down or exhausted, or failed to start, is among the troubles.
TroubleInv ==
    /\ \A d \in Deps : ~up[d] => d \in troubled
    /\ stage = "down" => checkedout = 0
    /\ checkedout = PoolSize => "pool" \in troubled
    /\ stage \in {"start storage", "serving", "stop producer"} =>
          producer = "live" \/ "kafka" \in troubled

\* A request whose answer is bad, or whose event is lost, has seen the cause.
CauseInv ==
    /\ \A r \in Requests : at[r] = "absent" => answer[r] = NoAnswer
    /\ \A r \in InFlight :
          /\ answer[r] \in {"unready", "degraded"} => troubled \cap {"database", "pool"} # {}
          /\ at[r] \in {"ping", "list", "listing"} => kind[r] = "health"
          /\ at[r] = "commit" /\ kind[r] = "create" => r \in delivered \/ "kafka" \in troubled

\* The inductive invariant.
IInv == BackendTypeOK /\ NoConnectionLeaked /\ TroubleInv /\ CauseInv

USE RequestsAssumption, PoolAssumption, BackendBoundsAssumption

-----------------------------------------------------------------------------
(* A step of the process, or of what it depends on, moves no request.      *)

\* Where a request holds a connection.
Holding == {"query", "publish", "commit"}

\* One request more, or less, holds one connection more, or less.
LEMMA HoldersCount ==
    ASSUME BackendTypeOK, NEW r \in Requests
    PROVE  /\ IsFiniteSet(Holders) /\ Cardinality(Holders) \in Nat
           /\ Cardinality(Holders \cup {r}) =
                 IF r \in Holders THEN Cardinality(Holders) ELSE Cardinality(Holders) + 1
           /\ Cardinality(Holders \ {r}) =
                 IF r \in Holders THEN Cardinality(Holders) - 1 ELSE Cardinality(Holders)
<1>1. IsFiniteSet(Holders)
  BY FS_Subset DEF Holders
<1> QED
  BY <1>1, FS_CardinalityType, FS_AddElement, FS_RemoveElement

\* Troubles are added while the process lives; no request is moved.
LEMMA ProcessStep ==
    ASSUME IInv, UNCHANGED <<at, answer, kind, delivered, checkedout>>,
           up' \in [Deps -> BOOLEAN], \A d \in Deps : ~up'[d] => d \in troubled',
           stage' \in {"down", "start database", "start producer", "start storage", "serving",
                       "stop producer", "stop database"},
           producer' \in {"none", "live", "silent"}, loop' = loop,
           troubled \subseteq troubled', troubled' \subseteq Deps \cup {"pool"},
           outages' \in 0..Outages, stops' \in 0..Stops,
           InFlight # {} => stage' \in {"serving", "stop producer"},
           stage' = "down" => checkedout = 0,
           stage' \in {"start storage", "serving", "stop producer"} =>
              producer' = "live" \/ "kafka" \in troubled'
    PROVE  IInv'
<1>1. InFlight' = InFlight /\ Holders' = Holders
  BY DEF InFlight, Holders
<1>2. BackendTypeOK'
  BY <1>1 DEF IInv, BackendTypeOK
<1>3. NoConnectionLeaked'
  BY <1>1 DEF IInv, NoConnectionLeaked
<1>4. TroubleInv'
  BY DEF IInv, TroubleInv
<1>5. CauseInv'
  BY <1>1 DEF IInv, CauseInv
<1> QED
  BY <1>2, <1>3, <1>4, <1>5 DEF IInv

\* A process that ends has no request left: nobody holds a connection.
LEMMA EndStep ==
    ASSUME IInv, stage' = "down", producer' = "none", checkedout' = 0,
           loop' \in Requests \cup {Free},
           at' = [r \in Requests |-> IF r \in InFlight THEN "dropped" ELSE at[r]],
           stops' \in 0..Stops, UNCHANGED <<up, kind, answer, historyVars, outages>>
    PROVE  IInv'
<1>1. \A r \in Requests :
        at'[r] \in {"absent", "answered", "dropped"} /\ (at'[r] = at[r] \/ at'[r] = "dropped")
  BY DEF InFlight
<1>2. InFlight' = {} /\ Holders' = {}
  BY <1>1 DEF InFlight, Holders
<1>3. BackendTypeOK'
  <2>1. at' \in [Requests -> {"absent", "arrived", "query", "publish", "commit", "ping", "list",
                              "listing", "answered", "dropped"}]
    BY <1>1
  <2>2. checkedout' \in 0..PoolSize
    OBVIOUS
  <2> QED
    BY <1>2, <2>1, <2>2 DEF IInv, BackendTypeOK, historyVars
<1>4. NoConnectionLeaked'
  BY <1>2, FS_EmptySet DEF NoConnectionLeaked
<1>5. TroubleInv'
  BY DEF IInv, TroubleInv, historyVars
<1>6. CauseInv'
  BY <1>1, <1>2 DEF IInv, CauseInv
<1> QED
  BY <1>3, <1>4, <1>5, <1>6 DEF IInv

-----------------------------------------------------------------------------
(* A step of one request.                                                  *)

\* It takes or returns a connection as it enters or leaves the places where one
\* is held, and what it will be answered has its cause.
LEMMA RequestStep ==
    ASSUME IInv, NEW r \in Requests, r \in InFlight,
           NEW to \in {"query", "publish", "commit", "ping", "list", "listing", "answered"},
           at' = [at EXCEPT ![r] = to],
           UNCHANGED <<up, stage, producer, kind, outages, stops>>,
           loop' \in Requests \cup {Free},
           delivered' \in {delivered, delivered \cup {r}},
           troubled \subseteq troubled', troubled' \subseteq Deps \cup {"pool"},
           answer' \in [Requests -> {NoAnswer, "ok", "refused", "error", "unready", "degraded"}],
           \A s \in Requests : s # r => answer'[s] = answer[s],
           \/ (at[r] \in Holding <=> to \in Holding) /\ checkedout' = checkedout
           \/ /\ at[r] \notin Holding /\ to \in Holding /\ checkedout < PoolSize
              /\ checkedout' = checkedout + 1 /\ (checkedout' = PoolSize => "pool" \in troubled')
           \/ at[r] \in Holding /\ to \notin Holding /\ checkedout' = checkedout - 1,
           to # "answered" => \/ answer'[r] = answer[r]
                              \/ answer'[r] \notin {"unready", "degraded"}
                              \/ troubled \cap {"database", "pool"} # {},
           to \in {"ping", "list", "listing"} => kind[r] = "health",
           to = "commit" /\ kind[r] = "create" => r \in delivered' \/ "kafka" \in troubled
    PROVE  IInv'
<1>1. /\ at'[r] = to /\ \A s \in Requests : s # r => at'[s] = at[s]
      /\ at' \in [Requests -> {"absent", "arrived", "query", "publish", "commit", "ping", "list",
                               "listing", "answered", "dropped"}]
  BY DEF IInv, BackendTypeOK
<1>2. InFlight' \subseteq InFlight /\ Holders \subseteq InFlight
  BY <1>1 DEF InFlight, Holders
<1>3. checkedout' = Cardinality(Holders') /\ checkedout' \in 0..PoolSize
  <2>1. /\ Cardinality(Holders) = checkedout /\ Cardinality(Holders) \in Nat
        /\ checkedout \in 0..PoolSize
    BY HoldersCount DEF IInv, BackendTypeOK, NoConnectionLeaked
  <2>2. r \in Holders <=> at[r] \in Holding
    BY DEF Holders, Holding
  <2>3. CASE to \in Holding
    <3>1. Holders' = Holders \cup {r}
      BY <1>1, <2>3 DEF Holders, Holding
    <3> QED
      BY <2>1, <2>2, <2>3, <3>1, HoldersCount DEF IInv
  <2>4. CASE to \notin Holding
    <3>1. Holders' = Holders \ {r}
      BY <1>1, <2>4 DEF Holders, Holding
    <3>2. Cardinality(Holders') =
             IF at[r] \in Holding THEN checkedout - 1 ELSE checkedout
      BY <2>1, <2>2, <3>1, HoldersCount DEF IInv
    <3>3. Cardinality(Holders') \in Nat
      BY <3>1, FS_RemoveElement, FS_CardinalityType, HoldersCount DEF IInv
    <3> QED
      BY <2>1, <2>4, <3>2, <3>3
  <2> QED
    BY <2>3, <2>4
<1>4. BackendTypeOK'
  BY <1>1, <1>2, <1>3 DEF IInv, BackendTypeOK
<1>5. NoConnectionLeaked'
  BY <1>3 DEF NoConnectionLeaked
<1>6. TroubleInv'
  <2>1. stage # "down"
    BY DEF IInv, BackendTypeOK
  <2>2. checkedout' = PoolSize => "pool" \in troubled'
    <3>1. checkedout \in 0..PoolSize /\ (checkedout = PoolSize => "pool" \in troubled)
      BY DEF IInv, BackendTypeOK, TroubleInv
    <3>2. checkedout - 1 # PoolSize
      BY <3>1
    <3> QED
      BY <3>1, <3>2
  <2> QED
    BY <2>1, <2>2 DEF IInv, TroubleInv
<1>7. CauseInv'
  <2>1. ASSUME NEW s \in InFlight', s # r
        PROVE  /\ answer'[s] \in {"unready", "degraded"} =>
                     troubled' \cap {"database", "pool"} # {}
               /\ at'[s] \in {"ping", "list", "listing"} => kind'[s] = "health"
               /\ at'[s] = "commit" /\ kind'[s] = "create" =>
                     s \in delivered' \/ "kafka" \in troubled'
    BY <1>1, <1>2, <2>1 DEF IInv, CauseInv, InFlight
  <2>2. ASSUME r \in InFlight'
        PROVE  /\ answer'[r] \in {"unready", "degraded"} =>
                     troubled' \cap {"database", "pool"} # {}
               /\ at'[r] \in {"ping", "list", "listing"} => kind'[r] = "health"
               /\ at'[r] = "commit" /\ kind'[r] = "create" =>
                     r \in delivered' \/ "kafka" \in troubled'
    BY <1>1, <2>2 DEF IInv, CauseInv, InFlight
  <2>3. \A s \in Requests : at'[s] = "absent" => answer'[s] = NoAnswer
    BY <1>1 DEF IInv, CauseInv
  <2> QED
    BY <2>1, <2>2, <2>3 DEF CauseInv
<1> QED
  BY <1>4, <1>5, <1>6, <1>7 DEF IInv

\* A request that is answered at once, or fails for want of the database, says so.
LEMMA FailedStep ==
    ASSUME IInv, NEW r \in Requests, NEW from \in {"arrived", "query"}, FailedBy(r, from),
           "database" \in troubled \/ "pool" \in troubled,
           \/ from = "arrived" /\ checkedout' = checkedout
           \/ from = "query" /\ checkedout' = checkedout - 1,
           UNCHANGED <<loop, historyVars>>
    PROVE  IInv'
<1>1. PICK to \in {"answered", "ping"}, what \in {"unready", "degraded", "error"} :
        /\ Steps(r, from, to) /\ Say(r, what)
        /\ to = "ping" => kind[r] = "health"
  BY DEF FailedBy, Answer, AnswerTo, Status
<1>2. /\ at[r] = from /\ r \in InFlight /\ at' = [at EXCEPT ![r] = to]
      /\ UNCHANGED <<up, stage, producer, kind, outages, stops, loop, delivered, troubled>>
  BY <1>1 DEF Steps, InFlight, boundVars, historyVars
<1>3. /\ answer' \in [Requests -> {NoAnswer, "ok", "refused", "error", "unready", "degraded"}]
      /\ \A s \in Requests : s # r => answer'[s] = answer[s]
  BY <1>1 DEF Say, IInv, BackendTypeOK
<1> QED
  BY <1>1, <1>2, <1>3, RequestStep DEF IInv, BackendTypeOK, Holding

\* Whatever a request does next keeps the invariant.
LEMMA ProceedStep ==
    ASSUME IInv, NEW r \in Requests, Proceed(r)
    PROVE  IInv'
<1> DEFINE Answers == {NoAnswer, "ok", "refused", "error", "unready", "degraded"}
<1>1. ASSUME NEW from \in {"arrived", "query", "publish", "commit", "ping", "list"},
             NEW to \in {"query", "publish", "commit", "ping", "list", "listing", "answered"},
             Steps(r, from, to)
      PROVE  /\ at[r] = from /\ r \in InFlight /\ at' = [at EXCEPT ![r] = to] /\ loop = Free
             /\ UNCHANGED <<up, stage, producer, kind, outages, stops>>
  BY <1>1 DEF Steps, InFlight, boundVars
<1>2. ASSUME NEW what \in Answers, Say(r, what)
      PROVE  /\ answer' \in [Requests -> Answers] /\ answer'[r] = what
             /\ \A s \in Requests : s # r => answer'[s] = answer[s]
  BY <1>2 DEF Say, IInv, BackendTypeOK
<1>3. \A e \in DOMAIN Status : AnswerTo(e) \in {"refused", "error"}
  BY DEF AnswerTo
<1>4. /\ loop \in Requests \cup {Free} /\ troubled \subseteq Deps \cup {"pool"}
      /\ answer \in [Requests -> Answers] /\ checkedout \in 0..PoolSize
      /\ delivered \subseteq Requests
  BY DEF IInv, BackendTypeOK
<1>5. ASSUME AnswerLive(r) \/ Refuse(r) PROVE IInv'
  <2>1. PICK what \in Answers : Steps(r, "arrived", "answered") /\ Say(r, what)
    BY <1>3, <1>5 DEF AnswerLive, Refuse, Answer, AnswerTo, Status
  <2>2. UNCHANGED <<checkedout, loop, delivered, troubled>>
    BY <1>5 DEF AnswerLive, Refuse, Others, historyVars
  <2> QED
    BY <1>1, <1>2, <1>4, <2>1, <2>2, RequestStep DEF Holding
<1>6. ASSUME Checkout(r) PROVE IInv'
  <2>1. /\ Steps(r, "arrived", "query") /\ UNCHANGED <<answer, loop, delivered>>
        /\ checkedout < PoolSize /\ checkedout' = checkedout + 1
        /\ troubled \subseteq troubled' /\ troubled' \subseteq Deps \cup {"pool"}
        /\ checkedout' = PoolSize => "pool" \in troubled'
    BY <1>4, <1>6 DEF Checkout
  <2> QED
    BY <1>1, <1>4, <2>1, RequestStep DEF Holding
<1>7. ASSUME CheckoutFails(r) PROVE IInv'
  BY <1>7, FailedStep DEF CheckoutFails, Others, IInv, TroubleInv, Deps
<1>8. ASSUME QueryFails(r) PROVE IInv'
  BY <1>8, FailedStep DEF QueryFails, Others, Release, IInv, TroubleInv, Deps
<1>9. ASSUME ProbeAnswered(r) PROVE IInv'
  <2>1. /\ Say(r, "ok") /\ checkedout' = checkedout - 1
        /\ UNCHANGED <<loop, delivered, troubled>>
        /\ \/ Steps(r, "query", "answered")
           \/ kind[r] = "health" /\ Steps(r, "query", "ping")
    BY <1>9 DEF ProbeAnswered, Answer, Release, Others, historyVars
  <2> QED
    BY <1>1, <1>2, <1>4, <2>1, RequestStep DEF Holding
<1>10. ASSUME Handled(r) PROVE IInv'
  <2>1. /\ UNCHANGED <<answer, checkedout, loop, delivered, troubled>>
        /\ \/ Steps(r, "query", "publish")
           \/ kind[r] = "other" /\ Steps(r, "query", "commit")
    BY <1>10 DEF Handled, Hold, Others, historyVars
  <2> QED
    BY <1>1, <1>4, <2>1, RequestStep DEF Holding
<1>11. ASSUME Raises(r) PROVE IInv'
  <2>1. PICK what \in Answers : Steps(r, "query", "answered") /\ Say(r, what)
    BY <1>3, <1>11 DEF Raises, Answer
  <2>2. checkedout' = checkedout - 1 /\ UNCHANGED <<loop, delivered, troubled>>
    BY <1>11 DEF Raises, Release, Others, historyVars
  <2> QED
    BY <1>1, <1>2, <1>4, <2>1, <2>2, RequestStep DEF Holding
<1>12. ASSUME Publish(r) PROVE IInv'
  <2>1. /\ Steps(r, "publish", "commit") /\ UNCHANGED <<answer, loop, troubled, checkedout>>
        /\ delivered' \in {delivered, delivered \cup {r}}
        /\ producer = "live" /\ up["kafka"] => r \in delivered'
    BY <1>12 DEF Publish, Hold
  <2>2. r \in InFlight
    BY <1>1, <2>1
  <2>3. stage \in {"serving", "stop producer"}
    BY <2>2 DEF IInv, BackendTypeOK
  <2>4. r \in delivered' \/ "kafka" \in troubled
    BY <2>1, <2>3 DEF IInv, TroubleInv, Deps
  <2> QED
    BY <1>1, <1>4, <2>1, <2>4, RequestStep DEF Holding
<1>13. ASSUME Commit(r) \/ CommitFails(r) PROVE IInv'
  <2>1. PICK what \in Answers : Steps(r, "commit", "answered") /\ Say(r, what)
    BY <1>13 DEF Commit, CommitFails, Answer, AnswerTo, Status
  <2>2. checkedout' = checkedout - 1 /\ UNCHANGED <<loop, delivered, troubled>>
    BY <1>13 DEF Commit, CommitFails, Release, Others, historyVars
  <2> QED
    BY <1>1, <1>2, <1>4, <2>1, <2>2, RequestStep DEF Holding
<1>14. ASSUME Ping(r) \/ List(r) PROVE IInv'
  <2>1. /\ UNCHANGED <<answer, checkedout, delivered, troubled>> /\ loop' \in Requests \cup {Free}
        /\ Steps(r, "ping", "list") \/ Steps(r, "list", "listing")
    BY <1>4, <1>14 DEF Ping, List, Hold, Others, historyVars
  <2>2. r \in InFlight /\ at[r] \in {"ping", "list"}
    BY <1>1, <2>1
  <2>3. kind[r] = "health"
    BY <2>2 DEF IInv, CauseInv
  <2> QED
    BY <1>1, <1>4, <2>1, <2>3, RequestStep DEF Holding
<1>15. ASSUME Listed(r) PROVE IInv'
  <2>1. /\ at[r] = "listing" /\ at' = [at EXCEPT ![r] = "answered"] /\ loop' = Free
        /\ UNCHANGED <<up, stage, producer, checkedout, answer, kind, delivered, troubled,
                       outages, stops>>
    BY <1>15 DEF Listed, historyVars, boundVars
  <2>2. r \in InFlight
    BY <2>1 DEF InFlight
  <2> QED
    BY <1>4, <2>1, <2>2, RequestStep DEF Holding
<1> QED
  BY <1>5, <1>6, <1>7, <1>8, <1>9, <1>10, <1>11, <1>12, <1>13, <1>14, <1>15 DEF Proceed

-----------------------------------------------------------------------------
(* The invariant.                                                          *)

\* IInv holds in every state of every behaviour.
LEMMA InductiveInvariant == BackendSpec => []IInv
<1>1. BackendInit => IInv
  <2> SUFFICES ASSUME BackendInit PROVE IInv
    OBVIOUS
  <2>1. InFlight = {} /\ Holders = {}
    BY DEF BackendInit, InFlight, Holders
  <2>2. BackendTypeOK
    BY <2>1 DEF BackendInit, BackendTypeOK, Kinds
  <2>3. NoConnectionLeaked
    BY <2>1, FS_EmptySet DEF BackendInit, NoConnectionLeaked
  <2> QED
    BY <2>1, <2>2, <2>3 DEF BackendInit, IInv, TroubleInv, CauseInv
<1>2. IInv /\ [BackendNext]_backendVars => IInv'
  <2> SUFFICES ASSUME IInv, [BackendNext]_backendVars PROVE IInv'
    OBVIOUS
  <2> USE DEF lifeVars, requestVars, historyVars, boundVars
  <2>1. ASSUME NEW d \in Deps, GoDown(d) \/ ComeBack(d) PROVE IInv'
    <3>1. /\ \/ up' = [up EXCEPT ![d] = FALSE] /\ troubled' = troubled \cup {d}
             \/ up' = [up EXCEPT ![d] = TRUE] /\ troubled' = troubled
          /\ UNCHANGED <<at, answer, kind, delivered, checkedout, stage, producer, loop, stops>>
      <4>1. CASE GoDown(d)
        BY <4>1 DEF GoDown
      <4>2. CASE ComeBack(d)
        BY <4>2 DEF ComeBack
      <4> QED
        BY <2>1, <4>1, <4>2
    <3>2. outages' = outages \/ (outages < Outages /\ outages' = outages + 1)
      BY <2>1 DEF GoDown, ComeBack
    <3>3. outages \in 0..Outages
      BY DEF IInv, BackendTypeOK
    <3>4. outages' \in 0..Outages
      BY <3>2, <3>3, BackendBoundsAssumption DEF BackendBoundsAssumption
    <3>5. /\ up \in [Deps -> BOOLEAN] /\ troubled \subseteq Deps \cup {"pool"}
          /\ \A e \in Deps : ~up[e] => e \in troubled
      BY DEF IInv, BackendTypeOK, TroubleInv
    <3>6. /\ up' \in [Deps -> BOOLEAN] /\ \A e \in Deps : ~up'[e] => ~up[e] \/ e \in troubled'
          /\ troubled \subseteq troubled' /\ troubled' \subseteq Deps \cup {"pool"}
      BY <3>1, <3>5
    <3> QED
      BY <3>1, <3>4, <3>6, ProcessStep DEF IInv, BackendTypeOK, TroubleInv
  <2>2. CASE Launch
    <3>1. /\ stage = "down" /\ stage' = "start database"
          /\ troubled' = {d \in Deps : ~up[d]}
          /\ UNCHANGED <<up, loop, at, answer, kind, delivered, outages, stops, producer,
                         checkedout>>
      BY <2>2 DEF Launch, Enter
    <3>2. InFlight = {} /\ InFlight' = {} /\ Holders' = Holders
      BY <3>1 DEF IInv, BackendTypeOK, InFlight, Holders
    <3>3. BackendTypeOK'
      BY <3>1, <3>2 DEF IInv, BackendTypeOK
    <3>4. NoConnectionLeaked'
      BY <3>1, <3>2 DEF IInv, NoConnectionLeaked
    <3>5. checkedout' = 0 /\ checkedout' # PoolSize
      BY <3>1 DEF IInv, TroubleInv
    <3>6. TroubleInv'
      BY <3>1, <3>5 DEF IInv, TroubleInv
    <3>7. CauseInv'
      BY <3>1, <3>2 DEF IInv, CauseInv
    <3> QED
      BY <3>3, <3>4, <3>6, <3>7 DEF IInv
  <2>3. CASE OpenDatabase \/ StartProducer \/ StartStorage \/ StopProducer
    <3>1. /\ UNCHANGED <<up, loop, at, answer, kind, delivered, outages, stops, checkedout,
                         troubled>>
          /\ \/ stage = "start database" /\ stage' = "start producer" /\ producer' = producer
             \/ /\ stage = "start producer" /\ stage' = "start storage"
                /\ producer' = IF up["kafka"] THEN "live" ELSE "silent"
             \/ stage = "start storage" /\ stage' = "serving" /\ producer' = producer
             \/ /\ stage = "stop producer" /\ stage' = "stop database" /\ InFlight = {}
                /\ producer' \in {producer, "none"}
      BY <2>3 DEF OpenDatabase, StartProducer, StartStorage, StopProducer, Enter
    <3>2. up["kafka"] \/ "kafka" \in troubled
      BY DEF IInv, TroubleInv, Deps
    <3> QED
      BY <3>1, <3>2, ProcessStep DEF IInv, BackendTypeOK, TroubleInv
  <2>4. CASE Stop
    <3>1. /\ UNCHANGED <<up, loop, at, answer, kind, delivered, outages, checkedout, troubled,
                         producer>>
          /\ stage = "serving" /\ stage' = "stop producer"
      BY <2>4 DEF Stop
    <3>2. stops < Stops /\ stops' = stops + 1
      BY <2>4 DEF Stop
    <3>3. stops \in 0..Stops
      BY DEF IInv, BackendTypeOK
    <3>4. stops' \in 0..Stops
      BY <3>2, <3>3, BackendBoundsAssumption DEF BackendBoundsAssumption
    <3> QED
      BY <3>1, <3>4, ProcessStep DEF IInv, BackendTypeOK, TroubleInv
  <2>5. CASE StopDatabase
    <3>1. /\ stage = "stop database" /\ stage' = "down" /\ producer' = "none"
          /\ checkedout' = 0
          /\ UNCHANGED <<up, loop, at, answer, kind, delivered, outages, stops, troubled>>
      BY <2>5 DEF StopDatabase, Enter
    <3>2. at' = [r \in Requests |-> IF r \in InFlight THEN "dropped" ELSE at[r]]
      BY <3>1 DEF IInv, BackendTypeOK
    <3> QED
      BY <3>1, <3>2, EndStep DEF IInv, BackendTypeOK
  <2>6. CASE Kill
    <3>1. stops < Stops /\ stops' = stops + 1
      BY <2>6 DEF Kill
    <3>2. stops \in 0..Stops
      BY DEF IInv, BackendTypeOK
    <3>3. stops' \in 0..Stops
      BY <3>1, <3>2, BackendBoundsAssumption DEF BackendBoundsAssumption
    <3> QED
      BY <2>6, <3>3, EndStep DEF Kill
  <2>7. ASSUME NEW r \in Requests, NEW k \in Kinds, Arrive(r, k) PROVE IInv'
    <3>1. /\ stage = "serving" /\ at[r] = "absent" /\ at'[r] = "arrived"
          /\ \A s \in Requests : s # r => at'[s] = at[s] /\ kind'[s] = kind[s]
          /\ at' \in [Requests -> {"absent", "arrived", "query", "publish", "commit", "ping",
                                   "list", "listing", "answered", "dropped"}]
          /\ kind' \in [Requests -> Kinds]
          /\ UNCHANGED <<up, stage, producer, loop, checkedout, answer, delivered, troubled,
                         outages, stops>>
      BY <2>7 DEF Arrive, IInv, BackendTypeOK
    <3>2. InFlight' = InFlight \cup {r} /\ Holders' = Holders
      BY <3>1 DEF InFlight, Holders
    <3>3. BackendTypeOK'
      BY <3>1, <3>2 DEF IInv, BackendTypeOK
    <3>4. NoConnectionLeaked' /\ TroubleInv'
      BY <3>1, <3>2 DEF IInv, NoConnectionLeaked, TroubleInv
    <3>5. CauseInv'
      BY <3>1, <3>2 DEF IInv, CauseInv, InFlight, NoAnswer
    <3> QED
      BY <3>3, <3>4, <3>5 DEF IInv
  <2>8. CASE UNCHANGED backendVars
    <3>1. UNCHANGED <<up, stage, producer, loop, checkedout, at, answer, kind, delivered,
                      troubled, outages, stops>>
      BY <2>8 DEF backendVars
    <3> QED
      BY <3>1, ProcessStep DEF IInv, BackendTypeOK, TroubleInv
  <2> QED
    BY <2>1, <2>2, <2>3, <2>4, <2>5, <2>6, <2>7, <2>8, ProceedStep DEF BackendNext, Lifespan
<1> QED
  BY <1>1, <1>2, PTL DEF BackendSpec

-----------------------------------------------------------------------------
(* The properties.                                                         *)

\* Every variable keeps its type; only a process that serves or stops has requests.
THEOREM TypeCorrect == BackendSpec => []BackendTypeOK
<1>1. IInv => BackendTypeOK
  BY DEF IInv
<1> QED
  BY <1>1, InductiveInvariant, PTL

\* Each way out of a handler returns the connection that it took.
THEOREM PoolCounts == BackendSpec => []NoConnectionLeaked
<1>1. IInv => NoConnectionLeaked
  BY DEF IInv
<1> QED
  BY <1>1, InductiveInvariant, PTL

\* A probe fails only after the database was down or the pool exhausted, a request
\* is dropped only by a stop or while MinIO hangs, and the event of a creation
\* that succeeds is lost only in a process that has seen the broker down.
THEOREM FaultsHaveCauses == BackendSpec => FaultsExplained
<1> USE DEF lifeVars, requestVars, historyVars, boundVars
<1>1. ASSUME IInv, [BackendNext]_backendVars, NEW r \in Requests, at'[r] # at[r]
      PROVE  \/ Proceed(r)
             \/ at'[r] = "arrived"
             \/ at'[r] = "dropped" /\ (stage = "stop producer" \/ ~up["storage"])
  <2>1. at \in [Requests -> {"absent", "arrived", "query", "publish", "commit", "ping", "list",
                             "listing", "answered", "dropped"}]
    BY <1>1 DEF IInv, BackendTypeOK
  <2>2. ASSUME NEW s \in Requests, Proceed(s) PROVE s = r
    BY <1>1, <2>1, <2>2 DEF Proceed, AnswerLive, Refuse, Checkout, CheckoutFails, FailedBy,
       ProbeAnswered, Handled, Raises, QueryFails, Publish, Commit, CommitFails, Ping, List,
       Listed, Answer, Steps
  <2>3. ASSUME NEW s \in Requests, NEW k \in Kinds, Arrive(s, k) PROVE at'[r] = "arrived"
    BY <1>1, <2>1, <2>3 DEF Arrive
  <2>4. CASE Kill
    BY <1>1, <2>4 DEF Kill, Hung
  <2>5. ASSUME NEW d \in Deps, GoDown(d) \/ ComeBack(d) PROVE FALSE
    BY <1>1, <2>5 DEF GoDown, ComeBack
  <2>6. ~(Launch \/ Lifespan \/ Stop)
    BY <1>1 DEF Launch, Lifespan, OpenDatabase, StartProducer, StartStorage, StopProducer,
                StopDatabase, Enter, Stop
  <2> QED
    BY <1>1, <2>2, <2>3, <2>4, <2>5, <2>6 DEF BackendNext, backendVars
<1>2. ASSUME IInv, NEW r \in Requests, Proceed(r), at'[r] = "answered",
             answer'[r] \in {"unready", "degraded"}
      PROVE  troubled \cap {"database", "pool"} # {}
  <2>1. /\ answer \in [Requests -> {NoAnswer, "ok", "refused", "error", "unready", "degraded"}]
        /\ at \in [Requests -> {"absent", "arrived", "query", "publish", "commit", "ping",
                                "list", "listing", "answered", "dropped"}]
    BY <1>2 DEF IInv, BackendTypeOK
  <2>2. CASE answer'[r] = answer[r]
    <3>1. r \in InFlight
      BY <1>2, <2>1 DEF InFlight, Proceed, AnswerLive, Refuse, Checkout, CheckoutFails, FailedBy,
         ProbeAnswered, Handled, Raises, QueryFails, Publish, Commit, CommitFails, Ping, List,
         Listed, Answer, Steps
    <3> QED
      BY <1>2, <2>2, <3>1 DEF IInv, CauseInv
  <2>3. CASE answer'[r] # answer[r]
    <3>1. CheckoutFails(r) \/ QueryFails(r)
      BY <1>2, <2>1, <2>3 DEF Proceed, AnswerLive, Refuse, Checkout, ProbeAnswered, Handled,
         Raises, Publish, Commit, CommitFails, Ping, List, Listed, Answer, Say, AnswerTo, Status
    <3> QED
      BY <1>2, <3>1 DEF CheckoutFails, QueryFails, IInv, TroubleInv, Deps
  <2> QED
    BY <2>2, <2>3
<1>3. ASSUME IInv, NEW r \in Requests, Proceed(r), at'[r] = "answered", kind[r] = "create",
             answer'[r] = "ok"
      PROVE  r \in delivered \/ "kafka" \in troubled
  <2>1. /\ answer \in [Requests -> {NoAnswer, "ok", "refused", "error", "unready", "degraded"}]
        /\ at \in [Requests -> {"absent", "arrived", "query", "publish", "commit", "ping",
                                "list", "listing", "answered", "dropped"}]
    BY <1>3 DEF IInv, BackendTypeOK
  <2>2. ~Listed(r)
    BY <1>3 DEF Listed, IInv, CauseInv, InFlight
  <2>3. Commit(r)
    BY <1>3, <2>1, <2>2 DEF Proceed, AnswerLive, Refuse, Checkout, CheckoutFails, FailedBy,
       ProbeAnswered, Handled, Raises, QueryFails, Publish, CommitFails, Ping, List, Answer,
       Steps, Say, AnswerTo, Status
  <2> QED
    BY <1>3, <2>3 DEF Commit, Answer, Steps, IInv, CauseInv, InFlight
<1>4. ASSUME IInv, NEW r \in Requests, Proceed(r)
      PROVE  at'[r] # "dropped"
  <2>1. at \in [Requests -> {"absent", "arrived", "query", "publish", "commit", "ping", "list",
                             "listing", "answered", "dropped"}]
    BY <1>4 DEF IInv, BackendTypeOK
  <2> QED
    BY <1>4, <2>1 DEF Proceed, AnswerLive, Refuse, Checkout, CheckoutFails, FailedBy,
       ProbeAnswered, Handled, Raises, QueryFails, Publish, Commit, CommitFails, Ping, List,
       Listed, Answer, Steps
<1>5. IInv /\ [BackendNext]_backendVars => [\A r \in Requests : at'[r] # at[r] =>
         /\ at'[r] = "answered" /\ answer'[r] \in {"unready", "degraded"} =>
              troubled \cap {"database", "pool"} # {}
         /\ at'[r] = "dropped" => stage = "stop producer" \/ ~up["storage"]
         /\ at'[r] = "answered" /\ kind[r] = "create" /\ answer'[r] = "ok" =>
              r \in delivered \/ "kafka" \in troubled]_backendVars
  BY <1>1, <1>2, <1>3, <1>4
<1> QED
  BY <1>5, InductiveInvariant, PTL DEF BackendSpec, FaultsExplained

-----------------------------------------------------------------------------
(* The demand models.                                                      *)

\* The forecasters inside save_model.
Savers == {f \in Forecasters : doing[f] \in {"opening", "dumping"}}

\* The models a call has dealt with when it is at a given one.
Past == [main |-> {}, lower |-> {"main"}, upper |-> {"main", "lower"}]

\* Between saves the three files are alike, and one save at a time is under way,
\* which has written its own model so far.
FilesInv ==
    /\ Savers = {} => \A p \in Parts : file[p] = file["main"]
    /\ \A f \in Savers :
         /\ Savers = {f}
         /\ \A p \in Past[part[f]] : file[p] = Pickled(held[f]["main"])

\* Outside a training and a load the three models agree.  A training has replaced
\* the models up to the one it fits; a load that has read a file runs during no
\* save, and holds what the first file holds.
HeldInv ==
    \A f \in Forecasters :
      /\ doing[f] \notin {"training", "loading"} => Same(held[f])
      /\ doing[f] = "training" =>
           \A p \in Past[part[f]] \cup {part[f]} : held[f][p] = held[f]["main"]
      /\ doing[f] = "loading" /\ part[f] # "main" =>
           Savers = {} /\ \A p \in Past[part[f]] : held[f][p] = file["main"].model

\* The inductive invariant.
ModelsInv == ForecasterTypeOK /\ (spoiled \/ (FilesInv /\ HeldInv))

USE DEF countVars

-----------------------------------------------------------------------------
(* The type invariant.                                                     *)

\* What a call begins with, and how it goes on, has its type.
LEMMA CallTypes ==
  ASSUME ForecasterTypeOK, NEW f \in Forecasters,
         NEW what \in {"idle", "loading", "training", "opening", "unborn"}, NEW from,
         Call(f, from, what) \/ (GoOn(f, what) /\ what \in {"loading", "training"})
  PROVE  /\ doing' \in [Forecasters -> {"unborn", "idle", "loading", "training", "opening",
                                        "dumping"}]
         /\ part' \in [Forecasters -> Parts]
<1>1. CASE Call(f, from, what)
  BY <1>1 DEF Call, ForecasterTypeOK, Parts
<1>2. CASE part[f] # "upper" /\ GoOn(f, what)
  <2>1. After[part[f]] \in Parts
    BY <1>2 DEF ForecasterTypeOK, Parts, After
  <2> QED
    BY <1>2, <2>1 DEF GoOn, ForecasterTypeOK
<1>3. CASE part[f] = "upper" /\ GoOn(f, what)
  BY <1>3 DEF GoOn, Call, ForecasterTypeOK, Parts
<1> QED
  BY <1>1, <1>2, <1>3

\* A mishap is counted.
LEMMA MishapTypes == ForecasterTypeOK /\ Mishap => mishaps' \in 0..MaxMishaps
BY TrainingsAssumption DEF ForecasterTypeOK, Mishap, TrainingsAssumption

\* A file that can be read holds the model of a training, or none.
LEMMA ReadableHolds ==
  ForecasterTypeOK => \A p \in Parts : file[p].model \in 0..MaxTrainings
BY TrainingsAssumption DEF ForecasterTypeOK, Absent, Torn, Pickled, None, TrainingsAssumption

\* Every step keeps the types.
LEMMA ModelsTypeStep == ForecasterTypeOK /\ [ForecasterNext]_forecasterVars => ForecasterTypeOK'
<1> SUFFICES ASSUME ForecasterTypeOK, [ForecasterNext]_forecasterVars PROVE ForecasterTypeOK'
  OBVIOUS
<1>1. CASE UNCHANGED forecasterVars
  BY <1>1 DEF forecasterVars, ForecasterTypeOK
<1>2. ASSUME NEW f \in Forecasters, Create(f) \/ Load(f) PROVE ForecasterTypeOK'
  BY <1>2, CallTypes DEF Create, Load, ForecasterTypeOK
<1>3. ASSUME NEW f \in Forecasters, LoadPart(f) PROVE ForecasterTypeOK'
  <2>1. held' \in [Forecasters -> [Parts -> 0..MaxTrainings]]
    BY <1>3, ReadableHolds DEF LoadPart, ForecasterTypeOK
  <2>2. trained' \in [Forecasters -> BOOLEAN] /\ spoiled' \in BOOLEAN
    BY <1>3 DEF LoadPart, ForecasterTypeOK, SavingElsewhere
  <2> QED
    BY <1>3, <2>1, <2>2, CallTypes DEF LoadPart, ForecasterTypeOK
<1>4. ASSUME NEW f \in Forecasters, LoadFails(f) PROVE ForecasterTypeOK'
  BY <1>4, CallTypes DEF LoadFails, ForecasterTypeOK
<1>5. ASSUME NEW f \in Forecasters, TrainWithoutLibrary(f) PROVE ForecasterTypeOK'
  BY <1>5 DEF TrainWithoutLibrary, ForecasterTypeOK
<1>6. ASSUME NEW f \in Forecasters, Train(f) PROVE ForecasterTypeOK'
  <2>1. trainings' \in 0..MaxTrainings
    BY <1>6, TrainingsAssumption DEF Train, ForecasterTypeOK, TrainingsAssumption
  <2>2. held' \in [Forecasters -> [Parts -> 0..MaxTrainings]]
    BY <1>6, <2>1 DEF Train, ForecasterTypeOK
  <2> QED
    BY <1>6, <2>1, <2>2, CallTypes DEF Train, ForecasterTypeOK
<1>7. ASSUME NEW f \in Forecasters, Fit(f) PROVE ForecasterTypeOK'
  <2>1. held' \in [Forecasters -> [Parts -> 0..MaxTrainings]]
    BY <1>7 DEF Fit, ForecasterTypeOK, Parts
  <2>2. trained' \in [Forecasters -> BOOLEAN]
    BY <1>7 DEF Fit, ForecasterTypeOK
  <2> QED
    BY <1>7, <2>1, <2>2, CallTypes DEF Fit, ForecasterTypeOK
<1>8. ASSUME NEW f \in Forecasters, FitRaises(f) PROVE ForecasterTypeOK'
  BY <1>8, CallTypes, MishapTypes DEF FitRaises, ForecasterTypeOK
<1>9. ASSUME NEW f \in Forecasters, Save(f) PROVE ForecasterTypeOK'
  <2>1. saves' \in 0..MaxSaves
    BY <1>9, TrainingsAssumption DEF Save, ForecasterTypeOK, TrainingsAssumption
  <2>2. spoiled' \in BOOLEAN
    BY <1>9 DEF Save, ForecasterTypeOK
  <2> QED
    BY <1>9, <2>1, <2>2, CallTypes DEF Save, ForecasterTypeOK
<1>10. ASSUME NEW f \in Forecasters, OpenFile(f) PROVE ForecasterTypeOK'
  BY <1>10 DEF OpenFile, ForecasterTypeOK
<1>11. ASSUME NEW f \in Forecasters, Dump(f) PROVE ForecasterTypeOK'
  <2>1. file' \in [Parts -> {Absent, Torn} \cup {Pickled(n) : n \in 0..MaxTrainings}]
    BY <1>11 DEF Dump, ForecasterTypeOK
  <2>2. part' \in [Forecasters -> Parts]
    BY <1>11 DEF Dump, ForecasterTypeOK, Parts, After
  <2> QED
    BY <1>11, <2>1, <2>2 DEF Dump, ForecasterTypeOK
<1>12. ASSUME NEW f \in Forecasters, Die(f) PROVE ForecasterTypeOK'
  <2>1. NoModels \in [Parts -> 0..MaxTrainings]
    BY TrainingsAssumption DEF NoModels, None, TrainingsAssumption
  <2> QED
    BY <1>12, <2>1, CallTypes, MishapTypes DEF Die, ForecasterTypeOK
<1> QED
  BY <1>1, <1>2, <1>3, <1>4, <1>5, <1>6, <1>7, <1>8, <1>9, <1>10, <1>11, <1>12 DEF ForecasterNext

-----------------------------------------------------------------------------
(* The inductive invariant.                                                *)

\* A step that neither begins nor goes on with a save leaves the files as they
\* are, and keeps FilesInv if no saver's models change.
LEMMA FilesStep ==
  ASSUME FilesInv, NEW f \in Forecasters, file' = file,
         doing[f] \notin {"opening", "dumping"}, doing'[f] \notin {"opening", "dumping"},
         \A g \in Peers(f) :
           doing'[g] = doing[g] /\ part'[g] = part[g] /\ held'[g] = held[g]
  PROVE  Savers' = Savers /\ FilesInv'
<1>1. Savers' = Savers
  BY DEF Savers, Peers
<1> QED
  BY <1>1 DEF FilesInv, Savers, Peers

\* A step of f that leaves the files and the savers alone keeps HeldInv if it
\* keeps it for f.
LEMMA HeldStep ==
  ASSUME HeldInv, NEW f \in Forecasters, file' = file, Savers' = Savers,
         \A g \in Peers(f) :
           doing'[g] = doing[g] /\ part'[g] = part[g] /\ held'[g] = held[g],
         doing'[f] \notin {"training", "loading"} => Same(held'[f]),
         doing'[f] = "training" =>
           \A p \in Past[part'[f]] \cup {part'[f]} : held'[f][p] = held'[f]["main"],
         doing'[f] = "loading" /\ part'[f] # "main" =>
           Savers = {} /\ \A p \in Past[part'[f]] : held'[f][p] = file["main"].model
  PROVE  HeldInv'
BY DEF HeldInv, Peers, Same

\* Every step that spoils nothing keeps the models and the files together.
LEMMA AgreementStep ==
  ASSUME ForecasterTypeOK, ~spoiled, FilesInv, HeldInv, ~spoiled', [ForecasterNext]_forecasterVars
  PROVE  FilesInv' /\ HeldInv'
<1> USE DEF Parts, Past, After, Same, Peers
<1>1. CASE UNCHANGED forecasterVars
  BY <1>1 DEF forecasterVars, FilesInv, HeldInv, Savers
<1>2. ASSUME NEW f \in Forecasters, Create(f) \/ Load(f) PROVE FilesInv' /\ HeldInv'
  <2>1. /\ doing[f] \in {"unborn", "idle"} /\ doing'[f] \in {"idle", "loading"}
        /\ part'[f] = "main" /\ held' = held /\ file' = file
        /\ \A g \in Peers(f) : doing'[g] = doing[g] /\ part'[g] = part[g]
    BY <1>2 DEF Create, Load, Call, ForecasterTypeOK
  <2>2. Savers' = Savers /\ FilesInv'
    BY <2>1, FilesStep
  <2>3. Same(held'[f])
    BY <2>1 DEF HeldInv
  <2> QED
    BY <2>1, <2>2, <2>3, HeldStep
<1>3. ASSUME NEW f \in Forecasters, LoadPart(f) PROVE FilesInv' /\ HeldInv'
  <2>1. /\ doing[f] = "loading" /\ file' = file /\ Savers = {}
        /\ \A g \in Peers(f) :
             doing'[g] = doing[g] /\ part'[g] = part[g] /\ held'[g] = held[g]
    BY <1>3 DEF LoadPart, GoOn, Call, ForecasterTypeOK, SavingElsewhere, Savers
  <2>2. /\ held'[f][part[f]] = file[part[f]].model
        /\ \A p \in Parts \ {part[f]} : held'[f][p] = held[f][p]
    BY <1>3 DEF LoadPart, ForecasterTypeOK
  <2>3. \/ part[f] = "upper" /\ doing'[f] = "idle"
        \/ /\ part[f] # "upper" /\ doing'[f] = "loading" /\ part'[f] = After[part[f]]
    BY <1>3 DEF LoadPart, GoOn, Call, ForecasterTypeOK
  <2>4. Savers' = Savers /\ FilesInv'
    BY <2>1, <2>3, FilesStep
  <2>5. file[part[f]] = file["main"] /\ part[f] \in Parts
    BY <2>1 DEF FilesInv, ForecasterTypeOK
  <2>6. part[f] # "main" => \A p \in Past[part[f]] : held[f][p] = file["main"].model
    BY <2>1 DEF HeldInv
  <2>7. \A p \in Past[part[f]] \cup {part[f]} : held'[f][p] = file["main"].model
    BY <2>2, <2>5, <2>6
  <2> QED
    BY <2>1, <2>3, <2>4, <2>5, <2>7, HeldStep
<1>4. ASSUME NEW f \in Forecasters, TrainWithoutLibrary(f) PROVE FilesInv' /\ HeldInv'
  BY <1>4 DEF TrainWithoutLibrary, FilesInv, HeldInv, Savers
<1>5. ASSUME NEW f \in Forecasters, Train(f) \/ Fit(f) PROVE FilesInv' /\ HeldInv'
  <2>1. /\ doing[f] \in {"idle", "training"} /\ doing'[f] \in {"idle", "training"}
        /\ file' = file
        /\ \A g \in Peers(f) :
             doing'[g] = doing[g] /\ part'[g] = part[g] /\ held'[g] = held[g]
    BY <1>5 DEF Train, Fit, GoOn, Call, ForecasterTypeOK
  <2>2. Savers' = Savers /\ FilesInv'
    BY <2>1, FilesStep
  <2>3. CASE Train(f)
    BY <2>1, <2>2, <2>3, HeldStep DEF Train, Call, ForecasterTypeOK
  <2>4. CASE Fit(f)
    <3>1. \A p \in Past[part[f]] \cup {part[f]} : held[f][p] = held[f]["main"]
      BY <2>4 DEF Fit, GoOn, Call, HeldInv
    <3>2. CASE part[f] = "upper"
      BY <2>1, <2>2, <2>4, <3>1, <3>2, HeldStep DEF Fit, GoOn, Call, ForecasterTypeOK
    <3>3. CASE part[f] # "upper"
      <4>1. part[f] \in {"main", "lower"}
        BY <3>3 DEF ForecasterTypeOK
      <4>2. /\ doing'[f] = "training" /\ part'[f] = After[part[f]]
            /\ held'[f] = [held[f] EXCEPT ![After[part[f]]] = held[f]["main"]]
        BY <2>4, <3>3 DEF Fit, GoOn, ForecasterTypeOK
      <4>3. \A p \in Past[part'[f]] \cup {part'[f]} : held'[f][p] = held'[f]["main"]
        BY <3>1, <4>1, <4>2 DEF ForecasterTypeOK
      <4> QED
        BY <2>1, <2>2, <4>2, <4>3, HeldStep
    <3> QED
      BY <3>2, <3>3
  <2> QED
    BY <1>5, <2>3, <2>4
<1>6. ASSUME NEW f \in Forecasters, Save(f) PROVE FilesInv' /\ HeldInv'
  <2>1. /\ doing[f] = "idle" /\ doing' = [doing EXCEPT ![f] = "opening"]
        /\ part' = [part EXCEPT ![f] = "main"] /\ file' = file /\ held' = held
        /\ \A g \in Peers(f) : doing[g] \notin {"opening", "dumping", "loading"}
    BY <1>6 DEF Save, Call
  <2>2. Savers' = {f}
    BY <2>1 DEF Savers, ForecasterTypeOK
  <2>3. part'[f] = "main"
    BY <2>1 DEF ForecasterTypeOK
  <2>4. FilesInv'
    BY <2>2, <2>3 DEF FilesInv
  <2> QED
    BY <2>1, <2>4 DEF HeldInv, ForecasterTypeOK
<1>7. ASSUME NEW f \in Forecasters, OpenFile(f) PROVE FilesInv' /\ HeldInv'
  <2>1. /\ doing[f] = "opening" /\ doing' = [doing EXCEPT ![f] = "dumping"]
        /\ part' = part /\ held' = held /\ part[f] \in Parts
        /\ \A p \in Parts \ {part[f]} : file'[p] = file[p]
    BY <1>7 DEF OpenFile, ForecasterTypeOK
  <2>2. Savers = {f} /\ Savers' = {f}
    BY <2>1 DEF Savers, FilesInv, ForecasterTypeOK
  <2>3. FilesInv'
    BY <2>1, <2>2 DEF FilesInv
  <2> QED
    BY <2>1, <2>2, <2>3 DEF HeldInv, ForecasterTypeOK
<1>8. ASSUME NEW f \in Forecasters, Dump(f) PROVE FilesInv' /\ HeldInv'
  <2>1. /\ doing[f] = "dumping" /\ held' = held /\ part[f] \in Parts
        /\ file'[part[f]] = Pickled(held[f][part[f]])
        /\ \A p \in Parts \ {part[f]} : file'[p] = file[p]
        /\ \A g \in Peers(f) : doing'[g] = doing[g] /\ part'[g] = part[g]
        /\ \/ part[f] = "upper" /\ doing'[f] = "idle"
           \/ part[f] # "upper" /\ doing'[f] = "opening" /\ part'[f] = After[part[f]]
    BY <1>8 DEF Dump, ForecasterTypeOK
  <2>2. Savers = {f} /\ held[f][part[f]] = held[f]["main"]
    BY <2>1 DEF Savers, FilesInv, HeldInv
  <2>3. \A p \in Past[part[f]] \cup {part[f]} : file'[p] = Pickled(held[f]["main"])
    BY <2>1, <2>2 DEF FilesInv
  <2>4. Savers' = IF part[f] = "upper" THEN {} ELSE {f}
    BY <2>1, <2>2 DEF Savers
  <2>5. FilesInv'
    BY <2>1, <2>3, <2>4 DEF FilesInv
  <2> QED
    BY <2>1, <2>2, <2>5 DEF HeldInv
<1>9. ASSUME NEW f \in Forecasters, Die(f) PROVE FilesInv' /\ HeldInv'
  <2>1. /\ doing[f] \notin {"opening", "dumping"} /\ doing'[f] = "unborn" /\ file' = file
        /\ held'[f] = NoModels
        /\ \A g \in Peers(f) :
             doing'[g] = doing[g] /\ part'[g] = part[g] /\ held'[g] = held[g]
    BY <1>9 DEF Die, Call, ForecasterTypeOK
  <2>2. Savers' = Savers /\ FilesInv'
    BY <2>1, FilesStep
  <2> QED
    BY <2>1, <2>2, HeldStep DEF NoModels
<1>10. ASSUME NEW f \in Forecasters PROVE ~LoadFails(f) /\ ~FitRaises(f)
  BY DEF LoadFails, FitRaises
<1> QED
  BY <1>1, <1>2, <1>3, <1>4, <1>5, <1>6, <1>7, <1>8, <1>9, <1>10 DEF ForecasterNext

\* What spoiled the models once stays on record.
LEMMA SpoiledStays == ForecasterTypeOK /\ spoiled /\ [ForecasterNext]_forecasterVars => spoiled'
BY DEF ForecasterTypeOK, ForecasterNext, forecasterVars, Create, Load, LoadPart, LoadFails,
       TrainWithoutLibrary, Train, Fit, FitRaises, Save, OpenFile, Dump, Die

\* The models agree in every reachable state that nothing spoiled.
LEMMA ModelsInvariant == ForecasterSpec => []ModelsInv
<1>1. ForecasterInit => ModelsInv
  <2> SUFFICES ASSUME ForecasterInit PROVE ModelsInv
    OBVIOUS
  <2>1. NoModels \in [Parts -> 0..MaxTrainings]
    BY TrainingsAssumption DEF NoModels, None, TrainingsAssumption
  <2>2. ForecasterTypeOK
    <3>1. 0 \in 0..MaxTrainings /\ 0 \in 0..MaxSaves /\ 0 \in 0..MaxMishaps
      BY TrainingsAssumption DEF TrainingsAssumption
    <3>2. file \in [Parts -> {Absent}] /\ part \in [Forecasters -> Parts]
      BY DEF ForecasterInit, Parts
    <3> QED
      BY <2>1, <3>1, <3>2 DEF ForecasterInit, ForecasterTypeOK
  <2>3. Savers = {}
    BY DEF ForecasterInit, Savers
  <2>4. FilesInv
    BY <2>3 DEF ForecasterInit, FilesInv, Parts
  <2>5. HeldInv
    BY DEF ForecasterInit, HeldInv, Same, NoModels, Parts
  <2> QED
    BY <2>2, <2>4, <2>5 DEF ModelsInv
<1>2. ModelsInv /\ [ForecasterNext]_forecasterVars => ModelsInv'
  BY ModelsTypeStep, AgreementStep, SpoiledStays DEF ModelsInv
<1> QED
  BY <1>1, <1>2, PTL DEF ForecasterSpec

-----------------------------------------------------------------------------

\* Every variable keeps its type (DemandForecaster's models, files and flags).
THEOREM ModelsTyped == ForecasterSpec => []ForecasterTypeOK
BY ModelsInvariant, PTL DEF ModelsInv

\* However many processes train, save, load and restart, one that answers with
\* models and is at rest has all three of them from one training, unless a
\* training raised, a save crashed or was overlapped, or a load failed
\* (train, save_model, load_model, get_demand_forecaster).
THEOREM OneTraining == ForecasterSpec => []ModelsAgree
<1>1. ModelsInv => ModelsAgree
  <2> SUFFICES ASSUME ModelsInv, ~spoiled, NEW f \in Forecasters, doing[f] = "idle", Modelled(f)
               PROVE  ~BoundMissing(f) /\ Same(held[f])
    BY DEF ModelsAgree
  <2>1. Same(held[f])
    BY DEF ModelsInv, HeldInv
  <2> QED
    BY <2>1 DEF Modelled, BoundMissing, Same, Parts
<1> QED
  BY <1>1, ModelsInvariant, PTL

-----------------------------------------------------------------------------
(* The parts side by side.                                                 *)

\* Every behaviour of Platform is one of the API process alone and one of the
\* forecasters alone: what is proved of them holds of it.
THEOREM PartsAlone == Spec => BackendSpec /\ ForecasterSpec
<1>1. Init => BackendInit /\ ForecasterInit
  BY DEF Init
<1>2. [Next]_vars => [BackendNext]_backendVars /\ [ForecasterNext]_forecasterVars
  BY DEF Next, vars, backendVars, forecasterVars
<1> QED
  BY <1>1, <1>2, PTL DEF Spec, BackendSpec, ForecasterSpec

\* Every behaviour of Service is one of Platform alone and one of the accounts
\* alone, with the fairness of both.
THEOREM ServiceParts == ServiceSpec => Spec /\ AccountsSpec
<1>1. ServiceInit => Init /\ AccountsInit
  BY DEF ServiceInit
<1>2. [ServiceNext]_serviceVars => [Next]_vars /\ [AccountsNext]_accountsVars
  BY DEF ServiceNext, serviceVars, vars, accountsVars
<1> QED
  BY <1>1, <1>2, PTL DEF ServiceSpec, Spec, AccountsSpec

\* Every variable of the API process and of the forecasters keeps its type.
THEOREM PlatformTyped == Spec => []TypeOK
<1>1. BackendTypeOK /\ ForecasterTypeOK => TypeOK
  BY DEF TypeOK
<1> QED
  BY <1>1, PartsAlone, TypeCorrect, ModelsTyped, PTL

-----------------------------------------------------------------------------
(* Questions to the algorithms.                                            *)

\* Every question is one that may be asked.
LEMMA QuestionsAsked == Spec => []QuestionInv
<1>1. Init => QuestionInv
  BY QuestionSteps DEF Init
<1>2. QuestionInv /\ [Next]_vars => QuestionInv'
  <2>1. [Next]_vars => [InsightsNext]_asked
    BY DEF Next, vars
  <2> QED
    BY <2>1, QuestionSteps
<1> QED
  BY <1>1, <1>2, PTL DEF Spec

\* Between any two moments of any carts, migrations are found only from a cell that
\* lost the threshold to a neighbour that gained it, and each such pair is found in
\* the order of the cells or in its reverse; and demand zones are the crowded zones, numbered without gaps, with all
\* their demand (detect_demand_migration, generate_heatmap, cluster_demand_zones).
THEOREM SwarmDescribed == Spec => []SwarmAgrees
BY QuestionsAsked, SwarmKeeps, PTL

\* Whatever the events, the demand multiplier of a cart and the multipliers of its
\* categories move only for a reason that one of them is (compute_mood_score).
THEOREM MoodReasons == Spec => []MoodExplained
BY QuestionsAsked, MoodKeeps, PTL

\* Dates, histories of any length, any weather and mood, any photos and the inputs
\* of the page are read as what is made of them promises (_is_school_vacation,
\* engineer_historical_features, predict, analyze_photo, updateOrchestratorState).
THEOREM ReadingsRight == Spec => []ReadingsAgree
BY QuestionsAsked, ReadingsKeep, PTL
=============================================================================
