--------------------------- MODULE PhotoPipeline ---------------------------
(***************************************************************************)
(* The photo processor: workers of one Kafka consumer group that take cart *)
(* photo events from a partition of jersey.cart.photo, download and        *)
(* analyse the photo, save the analysis in one database transaction,       *)
(* publish an inventory event, request a refill when stock is low, and     *)
(* commit the offset by hand (workers/photo_processor.py and the           *)
(* EventConsumer of core/events.py).                                       *)
(*                                                                         *)
(* The broker's side of the group protocol (which worker owns the          *)
(* partition, when an owner is evicted) is external; it is modelled from   *)
(* the way the consumer is configured.  Faults of the environment spend a  *)
(* shared budget, MaxFaults.                                               *)
(***************************************************************************)
EXTENDS Naturals, Sequences, FiniteSets

CONSTANTS
    Workers,      \* worker processes of the consumer group
    NoWorker,     \* nobody owns the partition
    Photos,       \* photo identifiers, numbered in the order of captured_at
    Rowless,      \* photos that have no row in cart_photos
    Corrupt,      \* photos whose bytes PIL cannot decode
    CartOf,       \* the cart of each photo
    Logs,         \* the partition contents to start from
    Counts,       \* product counts an analysis can report
    LowCounts,    \* those with total_units <= 5
    EmptyCounts,  \* the counts of _empty_result
    None,         \* Python's None
    FaultKinds,   \* the kinds of fault that may happen
    MaxFaults     \* how many faults may happen

Kinds == {"photo", "invalid", "notdict", "undecodable"}
Faults == {"crash", "evict", "storage", "inference", "database", "broker"}
Message == [kind : Kinds, photo : Photos]
Baselines == Photos \cup {None}
Analysis == [counts : Counts, baseline : Baselines]

ASSUME WorkersAssumption == NoWorker \notin Workers
ASSUME PhotosAssumption == Photos \subseteq Nat /\ None \notin Photos
ASSUME LogsAssumption == Logs \subseteq Seq(Message)
ASSUME CountsAssumption ==
    /\ EmptyCounts \in LowCounts
    /\ LowCounts \subseteq Counts
    /\ None \notin Counts
    /\ None \notin Analysis
ASSUME FaultsAssumption == MaxFaults \in Nat

VARIABLES
    log,        \* the partition's messages; offset o is log[o]
    committed,  \* the group's committed offset: how many messages are behind it
    owner,      \* the worker the coordinator has assigned the partition to
    assigned,   \* assigned[w]: w believes that the partition is its own
    pos,        \* pos[w]: how many messages w's consumer has passed
    pc,         \* pc[w]: where w stands
    cur,        \* cur[w]: the offset w is processing, 0 when none
    baseline,   \* baseline[w]: the photo whose counts w compares with
    counts,     \* counts[w]: result.product_counts
    status,     \* cart_photos.processing_status, "absent" when there is no row
    analysis,   \* photo_analysis_results, by its unique photo_id
    inventory,  \* inventory[p]: the INVENTORY_UPDATED events sent for p
    refills,    \* refills[p]: the REFILL_REQUESTED events sent for p
    outcomes,   \* history: how handlers of offset o have ended
    deliveries, \* history: how often offset o was handed to a handler
    faults      \* history: the faults so far

group == <<committed, owner>>
local == <<pos, cur, baseline, counts>>
db == <<status, analysis>>
events == <<inventory, refills>>
history == <<outcomes, deliveries>>
vars == <<log, group, assigned, pc, local, db, events, history, faults>>

Offsets == DOMAIN log
PhotoAt(o) == log[o].photo
Handling == {"download", "previous", "infer", "save", "markfailed",
             "publish", "refill"}
Outcomes == {"invalid", "marked", "marklost", "saved", "savelost"}

Init ==
    /\ log \in Logs
    /\ committed = 0
    /\ owner = NoWorker
    /\ assigned = [w \in Workers |-> FALSE]
    /\ pos = [w \in Workers |-> 0]
    /\ pc = [w \in Workers |-> "down"]
    /\ cur = [w \in Workers |-> 0]
    /\ baseline = [w \in Workers |-> None]
    /\ counts = [w \in Workers |-> EmptyCounts]
    /\ status = [p \in Photos |-> IF p \in Rowless THEN "absent" ELSE "pending"]
    /\ analysis = [p \in Photos |-> None]
    /\ inventory = [p \in Photos |-> <<>>]
    /\ refills = [p \in Photos |-> <<>>]
    /\ outcomes = [o \in Offsets |-> {}]
    /\ deliveries = [o \in Offsets |-> 0]
    /\ faults = 0

(***************************************************************************)
(* A fault of kind k happens, within the budget.                           *)
(***************************************************************************)
Spend(k) ==
    /\ k \in FaultKinds
    /\ faults < MaxFaults
    /\ faults' = faults + 1

Goto(w, from, to) ==
    /\ pc[w] = from
    /\ pc' = [pc EXCEPT ![w] = to]

\* The locals of a handler die with its call.
Forget(w) ==
    /\ cur' = [cur EXCEPT ![w] = 0]
    /\ baseline' = [baseline EXCEPT ![w] = None]
    /\ counts' = [counts EXCEPT ![w] = EmptyCounts]

-----------------------------------------------------------------------------
(* The consumer group.                                                     *)

\* start: the process comes up and its consumer joins the group.
Start(w) ==
    /\ Goto(w, "down", "idle")
    /\ UNCHANGED <<log, group, assigned, local, db, events, history, faults>>

\* The coordinator gives the free partition to a member; its consumer resumes
\* at the committed offset, even when the worker is still busy with a message.
Assign(w) ==
    /\ owner = NoWorker
    /\ pc[w] # "down"
    /\ ~assigned[w]
    /\ owner' = w
    /\ assigned' = [assigned EXCEPT ![w] = TRUE]
    /\ pos' = [pos EXCEPT ![w] = committed]
    /\ UNCHANGED <<log, committed, pc, cur, baseline, counts, db, events,
                   history, faults>>

\* The session of the owner times out: always when the process that joined is
\* gone (a restarted one joins as a new member), as a fault when the blocking
\* download or inference starves the heartbeat.
Evict ==
    /\ owner # NoWorker
    /\ IF assigned[owner] THEN Spend("evict") ELSE UNCHANGED faults
    /\ owner' = NoWorker
    /\ UNCHANGED <<log, committed, assigned, pc, local, db, events, history>>

\* A worker that lost the partition hears of it at a heartbeat and rejoins.
Notice(w) ==
    /\ assigned[w]
    /\ owner # w
    /\ assigned' = [assigned EXCEPT ![w] = FALSE]
    /\ UNCHANGED <<log, group, pc, local, db, events, history, faults>>

\* The process dies without leaving the group.
Crash(w) ==
    /\ pc[w] # "down"
    /\ Spend("crash")
    /\ pc' = [pc EXCEPT ![w] = "down"]
    /\ assigned' = [assigned EXCEPT ![w] = FALSE]
    /\ Forget(w)
    /\ UNCHANGED <<log, group, pos, db, events, history>>

\* An exception leaves start(): its finally stops the consumer, which leaves
\* the group, and the process ends.
StopWorker(w) ==
    /\ pc' = [pc EXCEPT ![w] = "down"]
    /\ assigned' = [assigned EXCEPT ![w] = FALSE]
    /\ Forget(w)
    /\ owner' = IF owner = w THEN NoWorker ELSE owner
    /\ UNCHANGED <<log, pos, db, events, history>>

-----------------------------------------------------------------------------
(* One message through the handler.                                        *)

\* The handler returns; what it did with its message goes to the history.
Return(w, from, outcome) ==
    /\ Goto(w, from, "commit")
    /\ outcomes' = [outcomes EXCEPT ![cur[w]] = @ \cup {outcome}]

\* A message that stops the worker that meets it: the deserializer raises
\* outside the try of consume(), or start()'s own except clause raises on an
\* event that is not a dict.
Fatal(kind) == kind \in {"notdict", "undecodable"}

\* The consumer yields the next message and _process_photo_event reads its
\* payload.  A payload without the required fields ends the handler at once.
Fetch(w) ==
    LET o == pos[w] + 1 IN
    /\ assigned[w]
    /\ pc[w] = "idle"
    /\ o \in Offsets
    /\ ~Fatal(log[o].kind)
    /\ pos' = [pos EXCEPT ![w] = o]
    /\ cur' = [cur EXCEPT ![w] = o]
    /\ deliveries' = [deliveries EXCEPT ![o] = @ + 1]
    /\ \/ /\ log[o].kind = "photo"
          /\ pc' = [pc EXCEPT ![w] = "download"]
          /\ UNCHANGED outcomes
       \/ /\ log[o].kind = "invalid"
          /\ pc' = [pc EXCEPT ![w] = "commit"]
          /\ outcomes' = [outcomes EXCEPT ![o] = @ \cup {"invalid"}]
    /\ UNCHANGED <<log, group, assigned, baseline, counts, db, events, faults>>

\* Nothing is committed for a message that stops the worker.
Poisoned(w) ==
    LET o == pos[w] + 1 IN
    /\ assigned[w]
    /\ pc[w] = "idle"
    /\ o \in Offsets
    /\ Fatal(log[o].kind)
    /\ StopWorker(w)
    /\ UNCHANGED <<committed, faults>>

\* Step 1: download_object.
Download(w) ==
    /\ \/ Goto(w, "download", "previous") /\ UNCHANGED faults
       \/ Goto(w, "download", "markfailed") /\ Spend("storage")
    /\ UNCHANGED <<log, group, assigned, local, db, events, history>>

\* _get_previous_counts: the latest COMPLETED photo of the cart that has an
\* analysis; None when there is none, when its counts are empty, and when the
\* query fails.
CandidatesOfAnyCart(p) ==
    {q \in Photos : status[q] = "completed" /\ analysis[q] # None}

Candidates(p) ==
    {q \in Photos : /\ CartOf[q] = CartOf[p]
                    /\ status[q] = "completed"
                    /\ analysis[q] # None}

Previous(p) ==
    IF \E q \in Candidates(p) : \A r \in Candidates(p) : r <= q
    THEN LET q == CHOOSE q \in Candidates(p) : \A r \in Candidates(p) : r <= q
         IN  IF analysis[q].counts = EmptyCounts THEN None ELSE q
    ELSE None

LoadPrevious(w) ==
    /\ Goto(w, "previous", "infer")
    /\ \/ /\ baseline' = [baseline EXCEPT ![w] = Previous(PhotoAt(cur[w]))]
          /\ UNCHANGED faults
       \/ /\ baseline' = [baseline EXCEPT ![w] = None]
          /\ Spend("database")
    /\ UNCHANGED <<log, group, assigned, pos, cur, counts, db, events, history>>

\* Step 2: analyze_photo.  A photo that cannot be decoded gets the empty
\* result, not an exception.
Infer(w) ==
    /\ \/ /\ Goto(w, "infer", "save")
          /\ \E c \in Counts :
                /\ PhotoAt(cur[w]) \in Corrupt => c = EmptyCounts
                /\ counts' = [counts EXCEPT ![w] = c]
          /\ UNCHANGED faults
       \/ /\ Goto(w, "infer", "markfailed")
          /\ PhotoAt(cur[w]) \notin Corrupt
          /\ Spend("inference")
          /\ UNCHANGED counts
    /\ UNCHANGED <<log, group, assigned, pos, cur, baseline, db, events, history>>

\* The transaction of step 3 as the database applies it.
WriteStatusOnly(w, p) ==
    /\ status[p] # "absent"
    /\ status' = [status EXCEPT ![p] = "completed"]
    /\ UNCHANGED analysis

OverwriteAnalysis(w, p) ==
    /\ status[p] # "absent"
    /\ status' = [status EXCEPT ![p] = "completed"]
    /\ analysis' = [analysis EXCEPT ![p] =
                      [counts |-> counts[w], baseline |-> baseline[w]]]

WriteAnalysis(w, p) ==
    /\ status[p] # "absent"
    /\ analysis[p] = None
    /\ status' = [status EXCEPT ![p] = "completed"]
    /\ analysis' = [analysis EXCEPT ![p] =
                      [counts |-> counts[w], baseline |-> baseline[w]]]

\* Step 3: saved, or no row to save to; rolled back by the unique photo_id or
\* by a database error; or committed with the acknowledgement lost.  Any
\* exception ends the handler.
Save(w) ==
    LET p == PhotoAt(cur[w]) IN
    /\ \/ /\ Goto(w, "save", "publish")
          /\ \/ WriteAnalysis(w, p)
             \/ status[p] = "absent" /\ UNCHANGED db
          /\ UNCHANGED <<outcomes, faults>>
       \/ /\ Return(w, "save", "savelost")
          /\ status[p] # "absent"
          /\ analysis[p] # None
          /\ UNCHANGED <<db, faults>>
       \/ /\ Return(w, "save", "savelost")
          /\ Spend("database")
          /\ WriteAnalysis(w, p) \/ UNCHANGED db
    /\ UNCHANGED <<log, group, assigned, local, events, deliveries>>

\* _mark_photo_failed: whatever the photo's status was.
NeverFailed(p) == status

Failed(p) ==
    IF status[p] = "absent" THEN status ELSE [status EXCEPT ![p] = "failed"]

MarkFailed(w) ==
    LET p == PhotoAt(cur[w]) IN
    /\ \/ /\ Return(w, "markfailed", "marked")
          /\ status' = Failed(p)
          /\ UNCHANGED faults
       \/ /\ Return(w, "markfailed", "marklost")
          /\ Spend("database")
          /\ status' \in {status, Failed(p)}
    /\ UNCHANGED <<log, group, assigned, local, analysis, events, deliveries>>

\* Steps 4 and 5: after the inventory event, a refill when stock is low.
\* publish() swallows its errors, so a lost event changes nothing else.
Sent(channel, p, c) == [channel EXCEPT ![p] = Append(@, c)]

Publish(w) ==
    /\ pc[w] = "publish"
    /\ \/ /\ inventory' = Sent(inventory, PhotoAt(cur[w]), counts[w])
          /\ UNCHANGED faults
       \/ /\ Spend("broker")
          /\ UNCHANGED inventory
    /\ \/ /\ counts[w] \in LowCounts
          /\ Goto(w, "publish", "refill")
          /\ UNCHANGED outcomes
       \/ /\ counts[w] \notin LowCounts
          /\ Return(w, "publish", "saved")
    /\ UNCHANGED <<log, group, assigned, local, db, refills, deliveries>>

Refill(w) ==
    /\ Return(w, "refill", "saved")
    /\ \/ /\ refills' = Sent(refills, PhotoAt(cur[w]), counts[w])
          /\ UNCHANGED faults
       \/ /\ Spend("broker")
          /\ UNCHANGED refills
    /\ UNCHANGED <<log, group, assigned, local, db, inventory, deliveries>>

\* consume() resumes and commits the consumer's position.  A worker that has
\* rejoined without the partition commits nothing.  When the commit fails and
\* fails again in the except clause - the worker has not noticed its eviction
\* and is refused, or the broker does not answer - the worker stops.
PositionOfMessage(w) == cur[w]
PositionAhead(w) == pos[w] + 1
PositionBefore(w) == pos[w] - 1

Position(w) == pos[w]

Commit(w) ==
    /\ pc[w] = "commit"
    /\ \/ /\ owner = w \/ ~assigned[w]
          /\ committed' = IF owner = w THEN Position(w) ELSE committed
          /\ pc' = [pc EXCEPT ![w] = "idle"]
          /\ Forget(w)
          /\ UNCHANGED <<log, owner, assigned, pos, db, events, history,
                         faults>>
       \/ /\ owner # w /\ assigned[w]
          /\ StopWorker(w)
          /\ UNCHANGED <<committed, faults>>
       \/ /\ owner = w
          /\ Spend("broker")
          /\ committed' \in {committed, Position(w)}
          /\ StopWorker(w)

-----------------------------------------------------------------------------
Handle(w) ==
    \/ Fetch(w) \/ Poisoned(w)
    \/ Download(w) \/ LoadPrevious(w) \/ Infer(w) \/ Save(w) \/ MarkFailed(w)
    \/ Publish(w) \/ Refill(w)
    \/ Commit(w)

Next ==
    \/ Evict
    \/ \E w \in Workers :
          \/ Start(w) \/ Assign(w) \/ Notice(w) \/ Crash(w)
          \/ Handle(w)

Spec == Init /\ [][Next]_vars

(***************************************************************************)
(* A worker that is up keeps taking the steps of its loop, a process that  *)
(* ended is started again by its supervisor, the coordinator expires the   *)
(* session of a dead member and hands out a free partition, and a member   *)
(* hears of its eviction.  Nothing is assumed of the order of steps, nor   *)
(* that a fault happens.                                                   *)
(***************************************************************************)
Fairness ==
    /\ WF_vars(Evict /\ ~assigned[owner])
    /\ WF_vars(\E w \in Workers : Assign(w))
    /\ \A w \in Workers : WF_vars(Start(w)) /\ WF_vars(Notice(w))
    /\ \A w \in Workers : WF_vars(Handle(w))

FairSpec == Spec /\ Fairness

-----------------------------------------------------------------------------
(* Properties.                                                             *)

\* The type invariant of the pipeline's state: every variable keeps its
\* shape, and offsets stay inside the partition.
TypeOK ==
    /\ log \in Logs
    /\ committed \in 0..Len(log)
    /\ owner \in Workers \cup {NoWorker}
    /\ assigned \in [Workers -> BOOLEAN]
    /\ pos \in [Workers -> 0..Len(log)]
    /\ pc \in [Workers -> Handling \cup {"down", "idle", "commit"}]
    /\ cur \in [Workers -> 0..Len(log)]
    /\ baseline \in [Workers -> Baselines]
    /\ counts \in [Workers -> Counts]
    /\ status \in [Photos -> {"absent", "pending", "completed", "failed"}]
    /\ analysis \in [Photos -> Analysis \cup {None}]
    /\ inventory \in [Photos -> Seq(Counts)]
    /\ refills \in [Photos -> Seq(Counts)]
    /\ outcomes \in [Offsets -> SUBSET Outcomes]
    /\ deliveries \in [Offsets -> Nat]
    /\ faults \in 0..MaxFaults

\* At-least-once processing (core/events.py:18): no offset is committed past
\* a message whose handler has not run to one of its ends, whichever worker
\* commits and however often the partition changed hands.
HandledBeforeCommitted ==
    \A o \in 1..committed : outcomes[o] # {}

\* The committed offset never moves back, although a worker may commit after
\* it lost the partition and got it again.
CommittedNeverRegresses == [][committed' >= committed]_vars

\* A photo whose message has been committed is still PENDING only when a
\* database error swallowed the handler's last write: crashes, evictions and
\* storage or inference errors alone never leave one behind.
PendingOnlyAfterDbError ==
    \A o \in 1..committed :
        /\ log[o].kind = "photo"
        /\ status[PhotoAt(o)] = "pending"
        => outcomes[o] \cap {"savelost", "marklost"} # {}

\* COMPLETED and the analysis row appear together: no reader sees a completed
\* photo without its analysis, nor an analysis of a photo still PENDING.
CompletedWithAnalysis ==
    \A p \in Photos :
        /\ status[p] = "completed" => analysis[p] # None
        /\ analysis[p] # None => status[p] \in {"completed", "failed"}

\* The producer's promise (core/events.py:21, 148): events of one cart arrive in
\* the order in which their photos were captured, and none arrives twice.
InOrder ==
    \A l \in Logs : \A i, j \in DOMAIN l :
        /\ i < j /\ l[i].kind = "photo" /\ l[j].kind = "photo"
        /\ CartOf[l[i].photo] = CartOf[l[j].photo]
        => l[i].photo < l[j].photo

\* Sold units are counted against an earlier photo of the same cart, when photos
\* arrive in order.  Only a photo that was delivered more than once may have been
\* compared with a later one (another worker moved on past it).
BaselineIsEarlier ==
    \A o \in Offsets :
        LET p == PhotoAt(o) IN
        /\ log[o].kind = "photo"
        /\ analysis[p] # None
        /\ analysis[p].baseline # None
        => LET q == analysis[p].baseline IN
           /\ CartOf[q] = CartOf[p]
           /\ q < p \/ deliveries[o] >= 2

\* The pipeline implements PhotoEffects: whatever crashes, evictions and
\* duplicate deliveries do, a photo that has a row is analysed at most once,
\* announced at most once with the saved counts, refilled at most once.
Tracked == {p \in Photos : status[p] # "absent"}
Found == [p \in Photos |->
            IF analysis[p] = None THEN None ELSE analysis[p].counts]
Announced == [p \in Photos |-> IF p \in Tracked THEN inventory[p] ELSE <<>>]
Refilled == [p \in Photos |-> IF p \in Tracked THEN refills[p] ELSE <<>>]

Effects == INSTANCE PhotoEffects WITH
    Unanalysed <- None, tracked <- Tracked, found <- Found,
    announced <- Announced, refilled <- Refilled

ImplementsEffects == Effects!Spec

\* With a supervisor that restarts workers, every message that no fatal
\* message precedes is eventually committed, whatever faults strike.
EventuallyCommitted ==
    \A o \in 1..3 :
        (o \in Offsets /\ \A i \in 1..o : i \in Offsets => ~Fatal(log[i].kind))
            ~> (committed >= o)

\* workers/photo_processor.py:16 says "message reprocessed (idempotent)"
\* after a crash: reprocessing completes the effects, so that a committed
\* photo that was analysed has its inventory event when no event was lost
\* on the way to the broker.
ReprocessingCompletes ==
    \A o \in 1..committed :
        LET p == PhotoAt(o) IN
        log[o].kind = "photo" /\ analysis[p] # None => inventory[p] # <<>>

\* core/events.py:26 says "Serialization error: Dead letter queue (DLQ) for
\* poison messages": the consumer gets past a poison message.
PoisonIsPassed ==
    \A o \in 1..3 : (o \in Offsets) ~> (committed >= o)
=============================================================================
