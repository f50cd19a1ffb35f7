---------------------------- MODULE Distributors ----------------------------
(***************************************************************************)
(* Distributors: creation, update with its status transitions, and soft    *)
(* deletion (services/distributor_service.py, repositories/), each request *)
(* in a transaction of its own (database.py).                              *)
(*                                                                         *)
(* The database is PostgreSQL at READ COMMITTED: a query sees the rows     *)
(* committed before it; an INSERT or UPDATE waits for an open transaction  *)
(* that holds the same row or the same GSTIN, then works on the row as it  *)
(* is by then.  The ORM writes only the columns that the handler changed.  *)
(* No code of the repository changes a cart: whether a distributor has     *)
(* active carts is left open.                                              *)
(***************************************************************************)
EXTENDS Naturals, FiniteSets

CONSTANTS
    Handlers,   \* the requests that may be in flight together
    Gstins,     \* GST identification numbers
    Null,       \* a value that is None, a column that is NULL
    Absent,     \* a row that is not stored
    NoJob,      \* a handler that works on nothing
    Wants,      \* the updates that clients ask for
    MaxRows,    \* bound: how many distributors may be created
    MaxFaults   \* bound: how many faults may happen

ASSUME BoundsAssumption == MaxRows \in Nat /\ MaxFaults \in Nat

VARIABLES
    rows,       \* rows[i]: the committed row of distributor i
    announced,  \* the distributors whose creation was published
    pc,         \* pc[h]: where handler h stands
    job,        \* job[h]: the request of handler h and what it has read
    patch,      \* patch[h]: the columns that h has written and not committed
    failed,     \* history: creations that failed after their publication
    faults      \* history: the faults so far

vars == <<rows, announced, pc, job, patch, failed, faults>>

Ids == 1..MaxRows
Statuses == {"ONBOARDING", "ACTIVE", "SUSPENDED", "INACTIVE"}
Row == [gstin : Gstins \cup {Null}, status : Statuses, deleted : BOOLEAN]
Want == [gstin : Gstins \cup {Null}, status : Statuses \cup {Null}]
ASSUME WantsAssumption == Wants \subseteq Want

Unwanted == [gstin |-> Null, status |-> Null]
Job == [task : {"create", "update", "delete"}, id : Ids, want : Want,
        read : Row \cup {Absent}]
NoPatch == [c \in {} |-> Null]

ASSUME ValuesAssumption ==
    Null \notin Gstins \cup Statuses /\ Absent \notin Row /\ NoJob \notin Job

Stored == {i \in Ids : rows[i] # Absent}
Live == {i \in Stored : ~rows[i].deleted}

Init ==
    /\ rows = [i \in Ids |-> Absent]
    /\ announced = {}
    /\ pc = [h \in Handlers |-> "idle"]
    /\ job = [h \in Handlers |-> NoJob]
    /\ patch = [h \in Handlers |-> NoPatch]
    /\ failed = {}
    /\ faults = 0

Goto(h, from, to) ==
    /\ pc[h] = from
    /\ pc' = [pc EXCEPT ![h] = to]

\* The transaction of h ends; what it held is free.
End(h) ==
    /\ pc' = [pc EXCEPT ![h] = "idle"]
    /\ job' = [job EXCEPT ![h] = NoJob]
    /\ patch' = [patch EXCEPT ![h] = NoPatch]

Spend ==
    /\ faults < MaxFaults
    /\ faults' = faults + 1

Working(i) == {h \in Handlers : pc[h] # "idle" /\ job[h].id = i}

-----------------------------------------------------------------------------
(* Requests.                                                               *)

\* valid_transitions of _validate_status_transition.
Targets(status) ==
    CASE status = "ONBOARDING" -> {"ACTIVE", "INACTIVE"}
      [] status = "ACTIVE"     -> {"SUSPENDED", "INACTIVE"}
      [] status = "SUSPENDED"  -> {"ACTIVE", "INACTIVE"}
      [] status = "INACTIVE"   -> {"ACTIVE"}

AcceptsAny(want, row) == TRUE

\* The status that an update asks for is validated against the row it has read.
Accepts(want, row) == want.status # Null => want.status \in Targets(row.status)

\* A GSTIN is looked up only when it is given and not that of the row already.
LooksUp(want, row) == want.gstin # Null /\ (row # Absent => want.gstin # row.gstin)

\* A request begins with the row that it has read.
Begin(h, task, i, want, next) ==
    /\ Goto(h, "idle", next)
    /\ job' = [job EXCEPT ![h] = [task |-> task, id |-> i, want |-> want, read |-> rows[i]]]
    /\ UNCHANGED <<rows, announced, patch, failed, faults>>

\* A creation has an identifier of its own, that of the row it will store.
Fresh(i) == i \notin Stored \cup failed /\ Working(i) = {}

Create(h, i, g) ==
    LET want == [gstin |-> g, status |-> "ONBOARDING"] IN
    /\ Fresh(i) /\ \A j \in Ids : Fresh(j) => i <= j
    /\ Begin(h, "create", i, want, IF LooksUp(want, Absent) THEN "gstin" ELSE "write")

\* Requests that find no live row end at once and change nothing; so do
\* updates that ask for an invalid status and look up no GSTIN.
Update(h, i, want) ==
    /\ i \in Live
    /\ \/ LooksUp(want, rows[i]) /\ Begin(h, "update", i, want, "gstin")
       \/ /\ ~LooksUp(want, rows[i]) /\ Accepts(want, rows[i])
          /\ Begin(h, "update", i, want, "write")

Delete(h, i) ==
    /\ i \in Live
    /\ Begin(h, "delete", i, Unwanted, "carts")

-----------------------------------------------------------------------------
(* Checks.                                                                 *)

\* get_by_gstin, then for an update the validation of its status.
CheckRequest(h) ==
    LET refused == \/ \E j \in Live : rows[j].gstin = job[h].want.gstin
                   \/ job[h].task = "update" /\ ~Accepts(job[h].want, job[h].read) IN
    /\ pc[h] = "gstin"
    /\ \/ refused /\ End(h)
       \/ ~refused /\ Goto(h, "gstin", "write") /\ UNCHANGED <<job, patch>>
    /\ UNCHANGED <<rows, announced, failed, faults>>

\* get_active_cart_count: a distributor with active carts is not deleted.
CountCarts(h) ==
    /\ pc[h] = "carts"
    /\ \/ End(h)
       \/ Goto(h, "carts", "write") /\ UNCHANGED <<job, patch>>
    /\ UNCHANGED <<rows, announced, failed, faults>>

-----------------------------------------------------------------------------
(* Writes.                                                                 *)

\* The columns that the handler sets to another value than it has read: all
\* of them for a creation, those that are given for an update.
WholeRow(h) ==
    LET w == job[h].want
        r == job[h].read IN
    CASE job[h].task = "create" ->
           [gstin |-> w.gstin, status |-> w.status, deleted |-> FALSE]
      [] job[h].task = "update" ->
           [c \in {"gstin", "status", "deleted"} |->
              IF c # "deleted" /\ w[c] # Null THEN w[c] ELSE r[c]]
      [] job[h].task = "delete" -> [c \in {"deleted"} |-> TRUE]

Changes(h) ==
    LET w == job[h].want
        r == job[h].read IN
    CASE job[h].task = "create" ->
           [gstin |-> w.gstin, status |-> w.status, deleted |-> FALSE]
      [] job[h].task = "update" ->
           [c \in {c \in {"gstin", "status"} : w[c] \notin {Null, r[c]}} |-> w[c]]
      [] job[h].task = "delete" -> [c \in {"deleted"} |-> TRUE]

Gives(p, g) == "gstin" \in DOMAIN p /\ p["gstin"] = g /\ g # Null

\* The stored rows that the unique GSTIN of h clashes with.
Clashes(h) == {j \in Stored \ {job[h].id} : Gives(Changes(h), rows[j].gstin)}

WaitsNever(h) == FALSE

\* The write of h waits for a transaction that holds its row or its GSTIN.
\* One that changes nothing is no statement at all.
Waits(h) ==
    /\ Changes(h) # NoPatch
    /\ \E k \in Handlers \ {h} :
          /\ patch[k] # NoPatch
          /\ \/ job[k].id = job[h].id
             \/ \E g \in Gstins : Gives(patch[k], g) /\ Gives(Changes(h), g)
             \/ job[k].id \in Clashes(h) /\ "gstin" \in DOMAIN patch[k]

AfterWrite(h) == IF job[h].task = "create" THEN "publish" ELSE "commit"

WriteUnchecked(h) ==
    /\ pc[h] = "write" /\ ~Waits(h)
    /\ Goto(h, "write", AfterWrite(h))
    /\ patch' = [patch EXCEPT ![h] = Changes(h)]
    /\ UNCHANGED <<rows, announced, job, failed, faults>>

WriteAnnouncing(h) ==
    /\ pc[h] = "write" /\ ~Waits(h)
    /\ \/ /\ Clashes(h) = {}
          /\ Goto(h, "write", AfterWrite(h))
          /\ patch' = [patch EXCEPT ![h] = Changes(h)]
          /\ UNCHANGED <<announced, job>>
       \/ /\ Clashes(h) # {}
          /\ announced' = announced \cup {job[h].id}
          /\ End(h)
    /\ UNCHANGED <<rows, failed, faults>>

\* The flush.  A GSTIN that is taken raises IntegrityError, an error 500.
Write(h) ==
    /\ pc[h] = "write"
    /\ ~Waits(h)
    /\ \/ /\ Clashes(h) = {}
          /\ Goto(h, "write", AfterWrite(h))
          /\ patch' = [patch EXCEPT ![h] = Changes(h)]
          /\ UNCHANGED job
       \/ /\ Clashes(h) # {}
          /\ End(h)
    /\ UNCHANGED <<rows, announced, failed, faults>>

\* distributor.created is published before the commit; a failure is logged.
Publish(h) ==
    /\ Goto(h, "publish", "commit")
    /\ \/ announced' = announced \cup {job[h].id} /\ UNCHANGED faults
       \/ Spend /\ UNCHANGED announced
    /\ UNCHANGED <<rows, job, patch, failed>>

Applied(h) ==
    LET i == job[h].id IN
    IF rows[i] = Absent
    THEN [rows EXCEPT ![i] = patch[h]]
    ELSE [rows EXCEPT ![i] = [c \in DOMAIN rows[i] |->
            IF c \in DOMAIN patch[h] THEN patch[h][c] ELSE rows[i][c]]]

\* The response is built, the session commits.
Commit(h) ==
    /\ pc[h] = "commit"
    /\ rows' = Applied(h)
    /\ End(h)
    /\ UNCHANGED <<announced, failed, faults>>

-----------------------------------------------------------------------------
(* The environment.                                                        *)

\* The request fails: its process dies, a query or the response raises, or
\* the commit fails, perhaps only with its acknowledgement.
Fail(h) ==
    /\ pc[h] # "idle"
    /\ Spend
    /\ \/ UNCHANGED rows
       \/ pc[h] = "commit" /\ rows' = Applied(h)
    /\ failed' = failed \cup ({job[h].id} \cap announced)
    /\ End(h)
    /\ UNCHANGED announced

Handle(h) ==
    CheckRequest(h) \/ CountCarts(h) \/ Write(h) \/ Publish(h) \/ Commit(h)

Next ==
    \/ \E h \in Handlers, i \in Ids :
          \/ \E g \in Gstins \cup {Null} : Create(h, i, g)
          \/ \E want \in Wants : Update(h, i, want)
          \/ Delete(h, i)
    \/ \E h \in Handlers : Handle(h) \/ Fail(h)

Spec == Init /\ [][Next]_vars

-----------------------------------------------------------------------------
(* Properties.                                                             *)

\* The type invariant: rows, jobs and patches keep their shape, and no two
\* transactions hold one row.
TypeOK ==
    /\ rows \in [Ids -> Row \cup {Absent}]
    /\ announced \subseteq Ids /\ failed \subseteq Ids
    /\ pc \in [Handlers -> {"idle", "gstin", "carts", "write", "publish", "commit"}]
    /\ job \in [Handlers -> Job \cup {NoJob}]
    /\ \A h \in Handlers :
          /\ (pc[h] = "idle") = (job[h] = NoJob)
          /\ patch[h] # NoPatch => pc[h] \in {"publish", "commit"}
          /\ DOMAIN patch[h] \subseteq {"gstin", "status", "deleted"}
    /\ \A h, k \in Handlers :
          patch[h] # NoPatch /\ patch[k] # NoPatch /\ job[h].id = job[k].id => h = k
    /\ faults \in 0..MaxFaults

\* However requests overlap, no two stored distributors share a GSTIN, the
\* soft-deleted ones included.
GstinUnique ==
    \A i, j \in Stored : i # j /\ rows[i].gstin # Null => rows[i].gstin # rows[j].gstin

\* A status only changes to one that the code calls valid, except when another
\* request has changed it since the one that commits read the row: then that
\* request overwrites a status it never saw.
StatusChanges(i) ==
    i \in Stored /\ rows[i].status # rows'[i].status

TransitionExplained ==
    [][\A i \in Ids :
          StatusChanges(i) /\ rows'[i].status \notin Targets(rows[i].status) =>
              \E h \in Handlers :
                  /\ pc[h] = "commit" /\ pc'[h] = "idle" /\ job[h].id = i
                  /\ job[h].read.status # rows[i].status]_vars

\* A soft-deleted distributor stays deleted, whatever requests that read it
\* before write afterwards, and a row is never lost.
DeletedStaysDeleted ==
    [][\A i \in Stored :
          /\ rows'[i] # Absent
          /\ rows[i].deleted => rows'[i].deleted]_vars

\* An announced distributor is stored, or its request is still running, or
\* its request has failed after the announcement, which cannot be taken back.
AnnouncedExplained ==
    \A i \in announced : i \in Stored \/ i \in failed \/ Working(i) # {}

\* services/distributor_service.py:377 says "Validate distributor status
\* transitions.": no stored status changes to one that is not valid after it.
ValidTransitionsOnly ==
    [][\A i \in Ids : StatusChanges(i) => rows'[i].status \in Targets(rows[i].status)]_vars
=============================================================================
