------------------------------ MODULE Backend ------------------------------
(***************************************************************************)
(* One worker process of the API: its lifespan (main.py), the connection   *)
(* pool (database.py), the event producer (core/events.py), the health     *)
(* endpoints (api/health.py) and what the exception handlers answer.       *)
(*                                                                         *)
(* The process needs PostgreSQL, Kafka and MinIO, which go down and come   *)
(* back.  Requests interleave at every await; the calls to MinIO are       *)
(* synchronous, so that while one is made nothing else runs.  Kubernetes   *)
(* and gunicorn, who probe, stop, kill and restart the process, are        *)
(* external, modelled from infra/k8s/base and backend/Dockerfile.  Redis   *)
(* is left out: its client connects to nothing when it is made, and every  *)
(* caller treats a failure as an answer.                                   *)
(***************************************************************************)
EXTENDS Naturals, FiniteSets

CONSTANTS
    Requests,   \* the requests the process gets, each once
    PoolSize,   \* pool_size + max_overflow
    Outages,    \* bound: how often something goes down
    Stops       \* bound: how often the process is stopped or killed

ASSUME RequestsAssumption == IsFiniteSet(Requests)
ASSUME PoolAssumption == PoolSize \in Nat \ {0}
ASSUME BackendBoundsAssumption == Outages \in Nat /\ Stops \in Nat

Deps == {"database", "kafka", "storage"}

\* The liveness and readiness probes, the health report, the creation of a
\* distributor, which publishes an event, and any other operation.
Kinds == {"live", "ready", "health", "create", "other"}

VARIABLES
    up,         \* up[d]: whether d can be reached
    stage,      \* where the process is in its life
    producer,   \* the singleton: none, live, or silent as its start has failed
    checkedout, \* connections taken from the pool
    loop,       \* the request whose synchronous call blocks the event loop, or Free
    at,         \* at[r]: where request r is
    kind,       \* kind[r]: what r asks for
    answer,     \* answer[r]: what r was, or is going to be, answered
    delivered,  \* history: the creations whose event reached the broker
    troubled,   \* history: what was down, or exhausted, in this life of the process
    outages, stops

lifeVars == <<stage, producer, loop>>
requestVars == <<at, answer>>
historyVars == <<delivered, troubled>>
boundVars == <<outages, stops>>
backendVars == <<up, lifeVars, checkedout, requestVars, kind, historyVars, boundVars>>

Free == "free"      \* no request blocks the event loop
NoAnswer == "none"

InFlight == {r \in Requests : at[r] \notin {"absent", "answered", "dropped"}}
Holders == {r \in Requests : at[r] \in {"query", "publish", "commit"}}

BackendInit ==
    /\ up = [d \in Deps |-> TRUE]
    /\ stage = "down" /\ producer = "none" /\ loop = Free
    /\ checkedout = 0
    /\ at = [r \in Requests |-> "absent"]
    /\ kind = [r \in Requests |-> "live"]
    /\ answer = [r \in Requests |-> NoAnswer]
    /\ delivered = {} /\ troubled = {}
    /\ outages = 0 /\ stops = 0

-----------------------------------------------------------------------------
(* What the process depends on.                                            *)

GoDown(d) ==
    /\ stage # "down"
    /\ outages < Outages
    /\ up[d]
    /\ up' = [up EXCEPT ![d] = FALSE]
    /\ troubled' = troubled \cup {d}
    /\ outages' = outages + 1
    /\ UNCHANGED <<lifeVars, checkedout, requestVars, kind, delivered, stops>>

ComeBack(d) ==
    /\ stage # "down"
    /\ ~up[d]
    /\ up' = [up EXCEPT ![d] = TRUE]
    /\ UNCHANGED <<lifeVars, checkedout, requestVars, kind, historyVars, boundVars>>

-----------------------------------------------------------------------------
(* The lifespan.  Each step of the start swallows its failure.             *)

Enter(from, to) ==
    /\ stage = from
    /\ stage' = to
    /\ UNCHANGED <<up, loop, requestVars, kind, delivered, boundVars>>

Launch ==
    /\ Enter("down", "start database")
    /\ troubled' = {d \in Deps : ~up[d]}
    /\ UNCHANGED <<producer, checkedout>>

\* init_db takes a connection, asks one question and returns it; whether that
\* worked is only logged, as it is for Redis, whose client is made here too.
OpenDatabase ==
    /\ Enter("start database", "start producer")
    /\ UNCHANGED <<producer, checkedout, troubled>>

StartProducerUnawaited ==
    /\ Enter("start producer", "start storage")
    /\ producer' = "silent"
    /\ UNCHANGED <<checkedout, troubled>>

\* The singleton is kept when its start fails: nothing starts it again.
StartProducer ==
    /\ Enter("start producer", "start storage")
    /\ producer' = IF up["kafka"] THEN "live" ELSE "silent"
    /\ UNCHANGED <<checkedout, troubled>>

\* A synchronous call; which buckets it finds or makes concerns no request.
StartStorage ==
    /\ Enter("start storage", "serving")
    /\ UNCHANGED <<producer, checkedout, troubled>>

\* SIGTERM: the process accepts nothing more and lets its requests end.
Stop ==
    /\ stops < Stops
    /\ stage = "serving" /\ loop = Free
    /\ stage' = "stop producer"
    /\ stops' = stops + 1
    /\ UNCHANGED <<up, producer, loop, checkedout, requestVars, kind, historyVars, outages>>

\* A producer that fails to flush is not forgotten; the process ends anyway.
StopProducer ==
    /\ InFlight = {}
    /\ Enter("stop producer", "stop database")
    /\ producer' = IF producer = "live" /\ ~up["kafka"] THEN producer ELSE "none"
    /\ UNCHANGED <<checkedout, troubled>>

\* Redis and the engine are closed, and the process exits.
StopDatabase ==
    /\ Enter("stop database", "down")
    /\ producer' = "none"
    /\ checkedout' = 0
    /\ UNCHANGED troubled

Lifespan ==
    \/ OpenDatabase \/ StartProducer \/ StartStorage \/ StopProducer \/ StopDatabase

\* MinIO does not answer a synchronous call: no probe is answered meanwhile.
Hung == (loop # Free \/ stage = "start storage") /\ ~up["storage"]

\* A process that hangs, or whose requests outlive the graceful timeout, is killed.
Kill ==
    /\ stops < Stops
    /\ Hung \/ stage = "stop producer"
    /\ stage' = "down" /\ producer' = "none" /\ loop' = Free
    /\ checkedout' = 0
    /\ at' = [r \in Requests |-> IF r \in InFlight THEN "dropped" ELSE at[r]]
    /\ stops' = stops + 1
    /\ UNCHANGED <<up, kind, answer, historyVars, outages>>

-----------------------------------------------------------------------------
(* Requests.                                                               *)

Arrive(r, k) ==
    /\ stage = "serving"
    /\ at[r] = "absent"
    /\ at' = [at EXCEPT ![r] = "arrived"]
    /\ kind' = [kind EXCEPT ![r] = k]
    /\ UNCHANGED <<up, lifeVars, checkedout, answer, historyVars, boundVars>>

\* A step of r between two awaits, from one place to another.
Steps(r, from, to) ==
    /\ loop = Free
    /\ at[r] = from
    /\ at' = [at EXCEPT ![r] = to]
    /\ UNCHANGED <<up, stage, producer, kind, boundVars>>

Say(r, what) == answer' = [answer EXCEPT ![r] = what]

Answer(r, from, what) == Steps(r, from, "answered") /\ Say(r, what)

Release == checkedout' = checkedout - 1
Hold == checkedout' = checkedout

Others == UNCHANGED <<loop, historyVars>>

\* The liveness probe touches nothing.
AnswerLive(r) ==
    /\ kind[r] = "live"
    /\ Answer(r, "arrived", "ok")
    /\ UNCHANGED checkedout /\ Others

\* What an exception is answered with, by the class that sets the status.
Status ==
    [AuthenticationError |-> 401, InsufficientPermissionsError |-> 403,
     NotFoundError |-> 404, ConflictError |-> 409, ValidationError |-> 422,
     BusinessRuleError |-> 422, RateLimitExceededError |-> 429,
     ExternalServiceError |-> 502, Exception |-> 500]

AnswerTo(error) == IF Status[error] < 500 THEN "refused" ELSE "error"

\* A token, its permissions or a body that is refused costs no connection.
Refuse(r) ==
    /\ kind[r] \in {"create", "other"}
    /\ \E e \in {"AuthenticationError", "InsufficientPermissionsError", "ValidationError"} :
          Answer(r, "arrived", AnswerTo(e))
    /\ UNCHANGED checkedout /\ Others

NeedsConnection(r) == at[r] = "arrived" /\ kind[r] # "live"

CheckoutUnbounded(r) ==
    /\ NeedsConnection(r)
    /\ up["database"]
    /\ Steps(r, "arrived", "query")
    /\ checkedout' = checkedout + 1
    /\ UNCHANGED <<answer, loop, historyVars>>

\* The first query takes a connection, which is pinged before it is used.
Checkout(r) ==
    /\ NeedsConnection(r)
    /\ checkedout < PoolSize /\ up["database"]
    /\ Steps(r, "arrived", "query")
    /\ checkedout' = checkedout + 1
    /\ troubled' = IF checkedout' = PoolSize THEN troubled \cup {"pool"} ELSE troubled
    /\ UNCHANGED <<answer, loop, delivered>>

\* What becomes of r when the database fails it: a probe reports it, the health
\* report goes on, any other exception is an internal error.
FailedBy(r, from) ==
    CASE kind[r] = "ready"  -> Answer(r, from, "unready")
      [] kind[r] = "health" -> Steps(r, from, "ping") /\ Say(r, "degraded")
      [] OTHER              -> Answer(r, from, AnswerTo("Exception"))

\* There is no connection: the database is down, or all are taken and
\* pool_timeout is over.
CheckoutFails(r) ==
    /\ NeedsConnection(r)
    /\ ~up["database"] \/ checkedout = PoolSize
    /\ FailedBy(r, "arrived")
    /\ UNCHANGED checkedout /\ Others

\* A probe's question is answered, and its connection returned.
ProbeAnswered(r) ==
    /\ up["database"]
    /\ \/ kind[r] = "ready" /\ Answer(r, "query", "ok")
       \/ kind[r] = "health" /\ Steps(r, "query", "ping") /\ Say(r, "ok")
    /\ Release /\ Others

\* The handler has done its queries.
Handled(r) ==
    /\ up["database"]
    /\ \/ kind[r] = "create" /\ Steps(r, "query", "publish")
       \/ kind[r] = "other" /\ Steps(r, "query", "commit")
    /\ UNCHANGED answer /\ Hold /\ Others

RaisesLeaking(r) ==
    /\ kind[r] \in {"create", "other"}
    /\ \E e \in DOMAIN Status : Answer(r, "query", AnswerTo(e))
    /\ Hold /\ Others

\* The handler raises an application error, or anything else; the session is
\* rolled back and closed.
Raises(r) ==
    /\ kind[r] \in {"create", "other"}
    /\ \E e \in DOMAIN Status : Answer(r, "query", AnswerTo(e))
    /\ Release /\ Others

\* A query that the database does not answer ends after command_timeout.
QueryFails(r) ==
    /\ ~up["database"]
    /\ FailedBy(r, "query")
    /\ Release /\ Others

\* Only a live producer reaches the broker; otherwise the event is logged.  A
\* broker that is down keeps the request, and its connection, until the send
\* times out.
Publish(r) ==
    /\ Steps(r, "publish", "commit")
    /\ delivered' = IF producer = "live" /\ up["kafka"] THEN delivered \cup {r} ELSE delivered
    /\ UNCHANGED <<answer, loop, troubled>> /\ Hold

\* The response is built, the transaction commits and the session is closed; or
\* one of the three fails.
Commit(r) ==
    /\ up["database"]
    /\ Answer(r, "commit", "ok")
    /\ Release /\ Others

CommitFails(r) ==
    /\ Answer(r, "commit", AnswerTo("Exception"))
    /\ Release /\ Others

\* The health report asks Redis, then MinIO; their failures are its content.
Ping(r) ==
    /\ Steps(r, "ping", "list")
    /\ UNCHANGED answer /\ Hold /\ Others

List(r) ==
    /\ Steps(r, "list", "listing")
    /\ loop' = r
    /\ UNCHANGED <<answer, checkedout, historyVars>>

ListedWhenUp(r) ==
    /\ loop = r /\ at[r] = "listing"
    /\ up["storage"]
    /\ loop' = Free
    /\ at' = [at EXCEPT ![r] = "answered"]
    /\ UNCHANGED <<up, stage, producer, checkedout, answer, kind, historyVars, boundVars>>

Listed(r) ==
    /\ loop = r /\ at[r] = "listing"
    /\ loop' = Free
    /\ at' = [at EXCEPT ![r] = "answered"]
    /\ UNCHANGED <<up, stage, producer, checkedout, answer, kind, historyVars, boundVars>>

Proceed(r) ==
    \/ AnswerLive(r) \/ Refuse(r) \/ Checkout(r) \/ CheckoutFails(r)
    \/ ProbeAnswered(r) \/ Handled(r) \/ Raises(r) \/ QueryFails(r)
    \/ Publish(r) \/ Commit(r) \/ CommitFails(r)
    \/ Ping(r) \/ List(r) \/ Listed(r)

BackendNext ==
    \/ \E d \in Deps : GoDown(d) \/ ComeBack(d)
    \/ Launch \/ Lifespan \/ Stop \/ Kill
    \/ \E r \in Requests : Proceed(r) \/ \E k \in Kinds : Arrive(r, k)

\* The event loop resumes every handler, since each await has a timeout, and the
\* lifespan goes on.  Nothing has to arrive, stop, fail or recover.
BackendFairness ==
    /\ WF_backendVars(Lifespan)
    /\ \A r \in Requests : WF_backendVars(Proceed(r))

BackendSpec == BackendInit /\ [][BackendNext]_backendVars /\ BackendFairness

-----------------------------------------------------------------------------
(* Properties.                                                             *)

\* Every variable keeps its type; only a process that serves or stops has requests.
BackendTypeOK ==
    /\ up \in [Deps -> BOOLEAN]
    /\ stage \in {"down", "start database", "start producer", "start storage", "serving",
                  "stop producer", "stop database"}
    /\ producer \in {"none", "live", "silent"}
    /\ checkedout \in 0..PoolSize
    /\ loop \in Requests \cup {Free}
    /\ at \in [Requests -> {"absent", "arrived", "query", "publish", "commit", "ping", "list",
                            "listing", "answered", "dropped"}]
    /\ kind \in [Requests -> Kinds]
    /\ answer \in [Requests -> {NoAnswer, "ok", "refused", "error", "unready", "degraded"}]
    /\ delivered \subseteq Requests
    /\ troubled \subseteq Deps \cup {"pool"}
    /\ outages \in 0..Outages /\ stops \in 0..Stops
    /\ InFlight # {} => stage \in {"serving", "stop producer"}

\* The pool counts exactly the requests that hold a connection: each way out of
\* a handler, by an answer, an exception or a timeout, returns what it took
\* (get_db_session, check_db_health).
NoConnectionLeaked == checkedout = Cardinality(Holders)

\* What clients and operators suffer comes from where it should, although all
\* requests share one pool and one event loop: a probe fails only after the
\* database was down or the pool was exhausted; a request is dropped only by a
\* stop or while MinIO hangs; and the event of a creation that succeeds is lost
\* only in a process that has seen the broker down, be it at its start only.
FaultsExplained ==
    [][\A r \in Requests : at'[r] # at[r] =>
         /\ at'[r] = "answered" /\ answer'[r] \in {"unready", "degraded"} =>
              troubled \cap {"database", "pool"} # {}
         /\ at'[r] = "dropped" => stage = "stop producer" \/ ~up["storage"]
         /\ at'[r] = "answered" /\ kind[r] = "create" /\ answer'[r] = "ok" =>
              r \in delivered \/ "kafka" \in troubled]_backendVars

\* Every request that arrives is answered, unless the process is killed: no
\* request waits for ever for a connection, a broker or the event loop.
EveryRequestAnswered ==
    \A r \in Requests : at[r] = "arrived" ~> at[r] \in {"answered", "dropped"}
=============================================================================
