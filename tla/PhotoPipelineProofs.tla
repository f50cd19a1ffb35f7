------------------------ MODULE PhotoPipelineProofs ------------------------
(***************************************************************************)
(* Safety of the photo pipeline, for every set of workers, photos, counts, *)
(* partition contents and every budget of faults.                          *)
(***************************************************************************)
EXTENDS PhotoPipeline, TLAPS

-----------------------------------------------------------------------------
(* Types.                                                                  *)

\* Parts of TypeOK, grouped by the actions that disturb them.
LEMMA InitType == Init => TypeOK
  <1> SUFFICES ASSUME Init PROVE TypeOK
    OBVIOUS
  <1>1. log \in Seq(Message)
    BY LogsAssumption DEF Init
  <1>2. analysis \in [Photos -> Analysis \cup {None}]
    BY DEF Init
  <1>3. inventory \in [Photos -> Seq(Counts)] /\ refills \in [Photos -> Seq(Counts)]
    BY DEF Init
  <1> QED
    BY <1>1, <1>2, <1>3, CountsAssumption, FaultsAssumption
    DEF Init, TypeOK, Offsets, Baselines

\* What happens to the group keeps the types.
LEMMA GroupType ==
  ASSUME TypeOK, NEW w \in Workers,
         Start(w) \/ Assign(w) \/ Notice(w) \/ Crash(w) \/ Evict
  PROVE  TypeOK'
  <1> USE DEF TypeOK, Offsets, Handling, group, local, db, events, history
  <1>1. CASE Start(w)
    BY <1>1 DEF Start, Goto
  <1>2. CASE Assign(w)
    BY <1>2 DEF Assign
  <1>3. CASE Notice(w)
    BY <1>3 DEF Notice
  <1>4. CASE Crash(w)
    BY <1>4, CountsAssumption, FaultsAssumption
    DEF Crash, Spend, Forget, Baselines
  <1>5. CASE Evict
    BY <1>5, FaultsAssumption DEF Evict, Spend
  <1> QED
    BY <1>1, <1>2, <1>3, <1>4, <1>5

\* An offset of the log is that of a message.
LEMMA LogType ==
  ASSUME TypeOK
  PROVE  /\ Len(log) \in Nat
         /\ Offsets = 1..Len(log)
         /\ \A o \in Offsets : log[o] \in Message
  BY LogsAssumption DEF TypeOK, Offsets

\* A worker that handles a message holds its offset, and a worker that is
\* down believes in no assignment.
BusyWorker(w) ==
    /\ pc[w] \in Handling \cup {"commit"} => cur[w] \in Offsets
    /\ pc[w] \in Handling => log[cur[w]].kind = "photo"
    /\ pc[w] = "down" => ~assigned[w]
    /\ owner = w /\ pc[w] \in Handling \cup {"commit"} => assigned[w]

Busy == \A w \in Workers : BusyWorker(w)

\* A worker that handles a message handles a photo.
LEMMA HandlingPhoto ==
  ASSUME TypeOK, Busy, NEW w \in Workers, pc[w] \in Handling
  PROVE  /\ cur[w] \in Offsets
         /\ log[cur[w]].kind = "photo"
         /\ PhotoAt(cur[w]) \in Photos
  BY LogType DEF Busy, BusyWorker, PhotoAt, Message

\* The end of a handling keeps the types.
LEMMA ReturnType ==
  ASSUME TypeOK, NEW w \in Workers, cur[w] \in Offsets,
         NEW from, NEW outcome \in Outcomes, Return(w, from, outcome)
  PROVE  outcomes' \in [Offsets -> SUBSET Outcomes]
  <1>1. outcomes[cur[w]] \cup {outcome} \in SUBSET Outcomes
    BY DEF TypeOK
  <1> QED
    BY <1>1 DEF Return, TypeOK

\* An event channel keeps its type when an event is sent on it.
LEMMA SentType ==
  ASSUME NEW channel \in [Photos -> Seq(Counts)],
         NEW p \in Photos, NEW c \in Counts
  PROVE  Sent(channel, p, c) \in [Photos -> Seq(Counts)]
  <1>1. Append(channel[p], c) \in Seq(Counts)
    OBVIOUS
  <1> QED
    BY <1>1 DEF Sent

\* The handling of a message keeps the types.
LEMMA HandleType ==
  ASSUME TypeOK, Busy, NEW w \in Workers, Handle(w)
  PROVE  TypeOK'
  <1> USE DEF TypeOK, Offsets, Handling, Outcomes, group, local, db, events,
              history, Goto, Return
  <1>0. /\ Len(log) \in Nat
        /\ Offsets = 1..Len(log)
        /\ \A o \in Offsets : log[o] \in Message
    BY LogType
  <1>1. CASE Fetch(w)
    <2>1. pos[w] + 1 \in 1..Len(log)
      BY <1>0, <1>1 DEF Fetch
    <2>2. pc' \in [Workers -> Handling \cup {"down", "idle", "commit"}]
      <3>1. \/ pc' = [pc EXCEPT ![w] = "download"]
            \/ pc' = [pc EXCEPT ![w] = "commit"]
        BY <1>1 DEF Fetch
      <3> QED
        BY <3>1
    <2>3. pos' \in [Workers -> 0..Len(log)] /\ cur' \in [Workers -> 0..Len(log)]
      BY <1>1, <2>1 DEF Fetch
    <2>4. outcomes' \in [Offsets -> SUBSET Outcomes]
      <3>1. outcomes[pos[w] + 1] \cup {"invalid"} \in SUBSET Outcomes
        BY <1>0, <2>1
      <3>2. \/ UNCHANGED outcomes
            \/ outcomes' = [outcomes EXCEPT ![pos[w] + 1] = @ \cup {"invalid"}]
        BY <1>1 DEF Fetch
      <3> QED
        BY <3>1, <3>2
    <2>5. deliveries' \in [Offsets -> Nat]
      BY <1>1, <2>1, <1>0 DEF Fetch
    <2>6. UNCHANGED <<log, group, assigned, baseline, counts, db, events, faults>>
      BY <1>1 DEF Fetch
    <2> QED
      BY <2>1, <2>2, <2>3, <2>4, <2>5, <2>6
  <1>2. CASE Poisoned(w)
    <2>1. owner' \in Workers \cup {NoWorker} /\ assigned' \in [Workers -> BOOLEAN]
      BY <1>2 DEF Poisoned, StopWorker
    <2>2. pc' \in [Workers -> Handling \cup {"down", "idle", "commit"}]
      BY <1>2 DEF Poisoned, StopWorker
    <2>3. /\ cur' \in [Workers -> 0..Len(log)]
          /\ baseline' \in [Workers -> Baselines]
          /\ counts' \in [Workers -> Counts]
      BY <1>2, <1>0, CountsAssumption DEF Poisoned, StopWorker, Forget, Baselines
    <2>4. UNCHANGED <<log, committed, pos, db, events, history, faults>>
      BY <1>2 DEF Poisoned, StopWorker
    <2> QED
      BY <2>1, <2>2, <2>3, <2>4
  <1>3. CASE Download(w)
    <2>1. pc' \in [Workers -> Handling \cup {"down", "idle", "commit"}]
      BY <1>3 DEF Download
    <2>2. faults' \in 0..MaxFaults
      BY <1>3, FaultsAssumption DEF Download, Spend
    <2>3. UNCHANGED <<log, group, assigned, local, db, events, history>>
      BY <1>3 DEF Download
    <2> QED
      BY <2>1, <2>2, <2>3
  <1>4. CASE LoadPrevious(w)
    <2>1. Previous(PhotoAt(cur[w])) \in Baselines
      BY DEF Previous, Candidates, Baselines
    <2>2. baseline' \in [Workers -> Baselines]
      BY <1>4, <2>1 DEF LoadPrevious, Baselines
    <2>3. pc' \in [Workers -> Handling \cup {"down", "idle", "commit"}]
      BY <1>4 DEF LoadPrevious
    <2>4. faults' \in 0..MaxFaults
      BY <1>4, FaultsAssumption DEF LoadPrevious, Spend
    <2>5. UNCHANGED <<log, group, assigned, pos, cur, counts, db, events, history>>
      BY <1>4 DEF LoadPrevious
    <2> QED
      BY <2>1, <2>2, <2>3, <2>4, <2>5
  <1>5. CASE Infer(w)
    <2>1. counts' \in [Workers -> Counts]
      BY <1>5 DEF Infer
    <2>2. pc' \in [Workers -> Handling \cup {"down", "idle", "commit"}]
      <3>1. \/ pc' = [pc EXCEPT ![w] = "save"]
            \/ pc' = [pc EXCEPT ![w] = "markfailed"]
        BY <1>5 DEF Infer
      <3> QED
        BY <3>1
    <2>3. faults' \in 0..MaxFaults
      BY <1>5, FaultsAssumption DEF Infer, Spend
    <2>4. UNCHANGED <<log, group, assigned, pos, cur, baseline, db, events, history>>
      BY <1>5 DEF Infer
    <2> QED
      BY <2>1, <2>2, <2>3, <2>4
  <1>6. CASE Save(w)
    <2>1. pc[w] = "save"
      BY <1>6 DEF Save
    <2>2. cur[w] \in Offsets /\ PhotoAt(cur[w]) \in Photos
      BY <2>1, <1>0 DEF Busy, BusyWorker, PhotoAt, Message
    <2>3. ASSUME WriteAnalysis(w, PhotoAt(cur[w]))
          PROVE  /\ status' \in [Photos -> {"absent", "pending", "completed", "failed"}]
                 /\ analysis' \in [Photos -> Analysis \cup {None}]
      BY <2>2, <2>3 DEF WriteAnalysis, Analysis
    <2>4. /\ status' \in [Photos -> {"absent", "pending", "completed", "failed"}]
          /\ analysis' \in [Photos -> Analysis \cup {None}]
      BY <1>6, <2>3 DEF Save
    <2>5. pc' \in [Workers -> Handling \cup {"down", "idle", "commit"}]
      <3>1. \/ pc' = [pc EXCEPT ![w] = "publish"]
            \/ pc' = [pc EXCEPT ![w] = "commit"]
        BY <1>6 DEF Save
      <3> QED
        BY <3>1
    <2>6. outcomes' \in [Offsets -> SUBSET Outcomes]
      <3>1. UNCHANGED outcomes \/ Return(w, "save", "savelost")
        BY <1>6 DEF Save
      <3> QED
        BY <2>2, <3>1, ReturnType
    <2>7. faults' \in 0..MaxFaults
      BY <1>6, FaultsAssumption DEF Save, Spend
    <2>8. UNCHANGED <<log, group, assigned, local, events, deliveries>>
      BY <1>6 DEF Save
    <2> QED
      BY <2>1, <2>2, <2>3, <2>4, <2>5, <2>6, <2>7, <2>8
  <1>7. CASE MarkFailed(w)
    <2>1. status' \in [Photos -> {"absent", "pending", "completed", "failed"}]
      BY <1>7 DEF MarkFailed, Failed
    <2>2. pc' \in [Workers -> Handling \cup {"down", "idle", "commit"}]
      <3>1. pc' = [pc EXCEPT ![w] = "commit"]
        BY <1>7 DEF MarkFailed
      <3> QED
        BY <3>1
    <2>3. outcomes' \in [Offsets -> SUBSET Outcomes]
      <3>1. pc[w] \in Handling
        BY <1>7 DEF MarkFailed
      <3>2. Return(w, "markfailed", "marked") \/ Return(w, "markfailed", "marklost")
        BY <1>7 DEF MarkFailed
      <3> QED
        BY <3>1, <3>2, HandlingPhoto, ReturnType
    <2>4. faults' \in 0..MaxFaults
      BY <1>7, FaultsAssumption DEF MarkFailed, Spend
    <2>5. UNCHANGED <<log, group, assigned, local, analysis, events, deliveries>>
      BY <1>7 DEF MarkFailed
    <2> QED
      BY <2>1, <2>2, <2>3, <2>4, <2>5
  <1>8. CASE Publish(w)
    <2>1. inventory' \in [Photos -> Seq(Counts)]
      <3>1. pc[w] \in Handling
        BY <1>8 DEF Publish
      <3>2. Sent(inventory, PhotoAt(cur[w]), counts[w]) \in [Photos -> Seq(Counts)]
        BY <3>1, HandlingPhoto, SentType
      <3>3. \/ inventory' = Sent(inventory, PhotoAt(cur[w]), counts[w])
            \/ UNCHANGED inventory
        BY <1>8 DEF Publish
      <3> QED
        BY <3>2, <3>3
    <2>2. pc' \in [Workers -> Handling \cup {"down", "idle", "commit"}]
      <3>1. \/ pc' = [pc EXCEPT ![w] = "refill"]
            \/ pc' = [pc EXCEPT ![w] = "commit"]
        BY <1>8 DEF Publish
      <3> QED
        BY <3>1
    <2>3. outcomes' \in [Offsets -> SUBSET Outcomes]
      <3>1. pc[w] \in Handling
        BY <1>8 DEF Publish
      <3>2. UNCHANGED outcomes \/ Return(w, "publish", "saved")
        BY <1>8 DEF Publish
      <3> QED
        BY <3>1, <3>2, HandlingPhoto, ReturnType
    <2>4. faults' \in 0..MaxFaults
      BY <1>8, FaultsAssumption DEF Publish, Spend
    <2>5. UNCHANGED <<log, group, assigned, local, db, refills, deliveries>>
      BY <1>8 DEF Publish
    <2> QED
      BY <2>1, <2>2, <2>3, <2>4, <2>5
  <1>9. CASE Refill(w)
    <2>0. pc[w] \in Handling /\ Return(w, "refill", "saved")
      BY <1>9 DEF Refill
    <2>1. refills' \in [Photos -> Seq(Counts)]
      <3>1. Sent(refills, PhotoAt(cur[w]), counts[w]) \in [Photos -> Seq(Counts)]
        BY <2>0, HandlingPhoto, SentType
      <3>2. \/ refills' = Sent(refills, PhotoAt(cur[w]), counts[w])
            \/ UNCHANGED refills
        BY <1>9 DEF Refill
      <3> QED
        BY <3>1, <3>2
    <2>2. pc' \in [Workers -> Handling \cup {"down", "idle", "commit"}]
      BY <1>9 DEF Refill
    <2>3. outcomes' \in [Offsets -> SUBSET Outcomes]
      BY <2>0, HandlingPhoto, ReturnType
    <2>4. faults' \in 0..MaxFaults
      BY <1>9, FaultsAssumption DEF Refill, Spend
    <2>5. UNCHANGED <<log, group, assigned, local, db, inventory, deliveries>>
      BY <1>9 DEF Refill
    <2> QED
      BY <2>1, <2>2, <2>3, <2>4, <2>5
  <1>10. CASE Commit(w)
    <2>1. committed' \in 0..Len(log) /\ faults' \in 0..MaxFaults
      BY <1>10, FaultsAssumption DEF Commit, Position, Spend
    <2>2. owner' \in Workers \cup {NoWorker} /\ log' = log
      BY <1>10 DEF Commit, StopWorker
    <2>3. assigned' \in [Workers -> BOOLEAN]
      BY <1>10 DEF Commit, StopWorker
    <2>4. pc' \in [Workers -> Handling \cup {"down", "idle", "commit"}]
      BY <1>10 DEF Commit, StopWorker
    <2>5. /\ cur' \in [Workers -> 0..Len(log)]
          /\ baseline' \in [Workers -> Baselines]
          /\ counts' \in [Workers -> Counts]
      <3>1. Forget(w)
        BY <1>10 DEF Commit, StopWorker
      <3> QED
        BY <1>0, <3>1, CountsAssumption DEF Forget, Baselines
    <2>6. UNCHANGED <<pos, db, events, history>>
      BY <1>10 DEF Commit, StopWorker
    <2> QED
      BY <2>1, <2>2, <2>3, <2>4, <2>5, <2>6
  <1> QED
    BY <1>1, <1>2, <1>3, <1>4, <1>5, <1>6, <1>7, <1>8, <1>9, <1>10 DEF Handle

\* Every step keeps the types.
LEMMA StepType == TypeOK /\ Busy /\ [Next]_vars => TypeOK'
  <1> SUFFICES ASSUME TypeOK, Busy, [Next]_vars PROVE TypeOK'
    OBVIOUS
  <1>1. CASE Evict \/ \E w \in Workers : Start(w) \/ Assign(w) \/ Notice(w) \/ Crash(w)
    <2>1. CASE Evict
      <3>1. PICK w \in Workers : w = owner
        BY <2>1 DEF Evict, TypeOK
      <3> QED
        BY <2>1, <3>1, GroupType
    <2> QED
      BY <1>1, <2>1, GroupType
  <1>2. ASSUME NEW w \in Workers, Handle(w) PROVE TypeOK'
    BY <1>2, HandleType
  <1>3. CASE UNCHANGED vars
    BY <1>3 DEF TypeOK, vars, Offsets, group, local, db, events, history
  <1> QED
    BY <1>1, <1>2, <1>3 DEF Next

-----------------------------------------------------------------------------
(* Who holds which message.                                                *)

\* Every step keeps what a worker holds.
LEMMA StepBusy == TypeOK /\ Busy /\ [Next]_vars => Busy'
  <1> SUFFICES ASSUME TypeOK, Busy, [Next]_vars, NEW v \in Workers
               PROVE  BusyWorker(v)'
    BY DEF Busy
  <1> USE DEF TypeOK, Busy, BusyWorker, Handling, group, local, db, events,
              history, Goto, Return
  <1>0. log' = log /\ Offsets' = Offsets
    BY DEF Next, vars, Offsets, Start, Assign, Evict, Notice, Crash, Handle, Fetch,
           Poisoned, Download, LoadPrevious, Infer, Save, MarkFailed, Publish,
           Refill, Commit, StopWorker
  <1>1. CASE Evict
    BY <1>0, <1>1, WorkersAssumption DEF Evict
  <1>2. ASSUME NEW w \in Workers, Start(w) \/ Assign(w) \/ Notice(w) \/ Crash(w)
        PROVE  BusyWorker(v)'
    BY <1>0, <1>2 DEF Start, Assign, Notice, Crash, Forget
  <1>3. ASSUME NEW w \in Workers, Fetch(w)
        PROVE  BusyWorker(v)'
    <2>1. /\ pos[w] + 1 \in Offsets
          /\ assigned[w]
          /\ pc' = [pc EXCEPT ![w] = "download"] => log[pos[w] + 1].kind = "photo"
      BY <1>3 DEF Fetch
    <2>2. /\ \/ pc' = [pc EXCEPT ![w] = "download"]
             \/ pc' = [pc EXCEPT ![w] = "commit"]
          /\ cur' = [cur EXCEPT ![w] = pos[w] + 1]
          /\ UNCHANGED <<owner, assigned>>
      BY <1>3 DEF Fetch
    <2> QED
      BY <1>0, <2>1, <2>2
  <1>4. ASSUME NEW w \in Workers,
               \/ Download(w) \/ LoadPrevious(w) \/ Infer(w) \/ Save(w)
               \/ MarkFailed(w) \/ Publish(w) \/ Refill(w)
        PROVE  BusyWorker(v)'
    <2>1. /\ pc[w] \in Handling
          /\ \E to \in Handling \cup {"commit"} : pc' = [pc EXCEPT ![w] = to]
          /\ UNCHANGED <<owner, assigned, cur>>
      BY <1>4 DEF Download, LoadPrevious, Infer, Save, MarkFailed, Publish, Refill
    <2> QED
      BY <1>0, <2>1
  <1>5. ASSUME NEW w \in Workers, Poisoned(w) \/ Commit(w)
        PROVE  BusyWorker(v)'
    BY <1>0, <1>5, WorkersAssumption DEF Poisoned, Commit, StopWorker, Forget
  <1>6. CASE UNCHANGED vars
    BY <1>6 DEF vars, Offsets
  <1> QED
    BY <1>1, <1>2, <1>3, <1>4, <1>5, <1>6 DEF Next, Handle

\* The types, and what a worker holds.
LEMMA Typed == Spec => [](TypeOK /\ Busy)
  <1>1. Init => TypeOK /\ Busy
    <2>1. Init => Busy
      BY DEF Init, Busy, BusyWorker, Handling
    <2> QED
      BY <2>1, InitType
  <1> QED
    BY <1>1, StepType, StepBusy, PTL DEF Spec

\* Every reachable state is well typed: offsets stay inside the partition and
\* every variable keeps its shape, for any number of workers and faults.
THEOREM TypeCorrect == Spec => []TypeOK
  BY Typed, PTL

-----------------------------------------------------------------------------
(* Nothing is committed before it is handled.                              *)

\* A worker that believes in its assignment has handled all it has passed,
\* except the message it is at; the owner's position is not behind the
\* committed offset.
Passed(w) ==
    assigned[w] => \A o \in 1..pos[w] :
                      outcomes[o] # {} \/ (pc[w] \in Handling /\ o = cur[w])
Ahead(w) == owner = w /\ assigned[w] => committed <= pos[w]

\* What is committed, or passed by a worker, was handled.
QueueInv ==
    /\ \A w \in Workers : Passed(w) /\ Ahead(w)
    /\ HandledBeforeCommitted

\* What was handled stays handled.
LEMMA OutcomesGrow ==
  ASSUME TypeOK, Busy, [Next]_vars, NEW o \in Offsets
  PROVE  outcomes[o] \subseteq outcomes'[o]
  <1> USE DEF TypeOK, group, local, db, events, history
  <1>1. CASE UNCHANGED outcomes
    BY <1>1
  <1>2. CASE \E i \in Offsets, out \in Outcomes :
               outcomes' = [outcomes EXCEPT ![i] = @ \cup {out}]
    BY <1>2
  <1>3. ASSUME NEW w \in Workers, Handle(w)
        PROVE  outcomes[o] \subseteq outcomes'[o]
    <2>1. ASSUME NEW from \in Handling, NEW out \in Outcomes, Return(w, from, out)
          PROVE  outcomes[o] \subseteq outcomes'[o]
      <3>1. cur[w] \in Offsets
        BY <2>1, HandlingPhoto DEF Return, Goto
      <3> QED
        BY <2>1, <3>1, <1>2 DEF Return
    <2>2. CASE Fetch(w)
      BY <2>2, <1>1, <1>2 DEF Fetch, Outcomes
    <2>3. CASE Poisoned(w) \/ Download(w) \/ LoadPrevious(w) \/ Infer(w) \/ Commit(w)
      BY <2>3, <1>1 DEF Poisoned, Download, LoadPrevious, Infer, Commit, StopWorker
    <2>4. CASE Save(w) \/ MarkFailed(w) \/ Publish(w) \/ Refill(w)
      <3>1. \/ UNCHANGED outcomes
            \/ \E from \in Handling, out \in Outcomes : Return(w, from, out)
        BY <2>4 DEF Save, MarkFailed, Publish, Refill, Handling, Outcomes
      <3> QED
        BY <1>1, <2>1, <3>1
    <2> QED
      BY <1>3, <2>2, <2>3, <2>4 DEF Handle
  <1>4. CASE Evict \/ \E w \in Workers : Start(w) \/ Assign(w) \/ Notice(w) \/ Crash(w)
    BY <1>4, <1>1 DEF Evict, Start, Assign, Notice, Crash
  <1> QED
    BY <1>1, <1>3, <1>4 DEF Next, vars

\* What the steps between fetch and commit do to the group and to pc.
LEMMA MiddleStep ==
  ASSUME TypeOK, Busy, NEW w \in Workers,
         \/ Download(w) \/ LoadPrevious(w) \/ Infer(w) \/ Save(w)
         \/ MarkFailed(w) \/ Publish(w) \/ Refill(w)
  PROVE  /\ pc[w] \in Handling
         /\ UNCHANGED <<log, committed, owner, assigned, pos, cur, deliveries>>
         /\ \/ \E to \in Handling : pc' = [pc EXCEPT ![w] = to]
            \/ /\ pc' = [pc EXCEPT ![w] = "commit"]
               /\ outcomes'[cur[w]] # {}
  <1> USE DEF group, local, db, events, history, Goto, Handling
  <1>1. ASSUME NEW from \in Handling, NEW out, Return(w, from, out)
        PROVE  /\ pc' = [pc EXCEPT ![w] = "commit"]
               /\ outcomes'[cur[w]] # {}
    <2>1. pc[w] \in Handling
      BY <1>1 DEF Return
    <2>2. cur[w] \in Offsets
      BY <2>1, HandlingPhoto
    <2> QED
      BY <1>1, <2>2 DEF Return, TypeOK
  <1>2. CASE Download(w) \/ LoadPrevious(w) \/ Infer(w)
    BY <1>2 DEF Download, LoadPrevious, Infer
  <1>3. CASE Save(w) \/ MarkFailed(w) \/ Publish(w) \/ Refill(w)
    <2>1. /\ pc[w] \in Handling
          /\ UNCHANGED <<log, committed, owner, assigned, pos, cur, deliveries>>
          /\ \/ \E to \in Handling : pc' = [pc EXCEPT ![w] = to]
             \/ \E from \in Handling, out \in Outcomes : Return(w, from, out)
      BY <1>3 DEF Save, MarkFailed, Publish, Refill, Return, Outcomes
    <2> QED
      BY <2>1, <1>1
  <1> QED
    BY <1>2, <1>3

\* Every step keeps QueueInv and commits forward.
LEMMA StepQueue ==
  ASSUME TypeOK, Busy, TypeOK', QueueInv, [Next]_vars
  PROVE  QueueInv' /\ committed <= committed'
  <1> USE DEF Handling, group, local, db, events, history, Goto
  <1>0. /\ log' = log /\ Offsets' = Offsets /\ Offsets = 1..Len(log)
        /\ Len(log) \in Nat /\ committed \in 0..Len(log)
        /\ \A v \in Workers : pos[v] \in 0..Len(log)
        /\ \A o \in Offsets : outcomes[o] # {} => outcomes'[o] # {}
        /\ \A v \in Workers : \A o \in 1..pos[v] : outcomes[o] # {} => outcomes'[o] # {}
        /\ \A o \in 1..committed : outcomes'[o] # {}
    <2>1. log' = log
      BY DEF Next, vars, Start, Assign, Evict, Notice, Crash, Handle, Fetch,
             Poisoned, Download, LoadPrevious, Infer, Save, MarkFailed, Publish,
             Refill, Commit, StopWorker
    <2>2. \A o \in Offsets : outcomes[o] # {} => outcomes'[o] # {}
      BY OutcomesGrow
    <2>3. /\ Offsets = 1..Len(log) /\ Len(log) \in Nat
          /\ committed \in 0..Len(log)
          /\ \A v \in Workers : pos[v] \in 0..Len(log)
      BY LogType DEF TypeOK
    <2>4. \A v \in Workers : \A o \in 1..pos[v] : outcomes[o] # {} => outcomes'[o] # {}
      BY <2>2, <2>3
    <2>5. \A o \in 1..committed : outcomes'[o] # {}
      BY <2>2, <2>3 DEF QueueInv, HandledBeforeCommitted
    <2> QED
      BY <2>1, <2>2, <2>3, <2>4, <2>5 DEF Offsets
  <1>i. \A v \in Workers : Passed(v) /\ Ahead(v)
    BY DEF QueueInv
  <1>1. ASSUME UNCHANGED committed PROVE HandledBeforeCommitted'
    BY <1>0, <1>1 DEF QueueInv, HandledBeforeCommitted
  <1>2. ASSUME UNCHANGED <<committed, owner, assigned, pos, pc, cur>>
        PROVE  QueueInv' /\ committed <= committed'
    BY <1>0, <1>1, <1>2 DEF QueueInv, Passed, Ahead
  <1>3. CASE Evict
    BY <1>0, <1>1, <1>3, WorkersAssumption DEF Evict, QueueInv, Passed, Ahead
  <1>4. ASSUME NEW w \in Workers, Start(w) \/ Notice(w)
        PROVE  QueueInv' /\ committed <= committed'
    <2>1. /\ UNCHANGED <<committed, owner, pos, cur>>
          /\ \A v \in Workers : assigned'[v] => assigned[v] /\ pc'[v] = pc[v]
      BY <1>4 DEF Start, Notice, TypeOK, Busy, BusyWorker
    <2>2. \A v \in Workers : Passed(v)' /\ Ahead(v)'
      BY <1>0, <1>i, <2>1 DEF Passed, Ahead
    <2> QED
      BY <1>0, <1>1, <2>1, <2>2 DEF QueueInv
  <1>5. ASSUME NEW w \in Workers, Crash(w)
        PROVE  QueueInv' /\ committed <= committed'
    BY <1>0, <1>1, <1>5 DEF Crash, Forget, QueueInv, Passed, Ahead, TypeOK
  <1>6. ASSUME NEW w \in Workers, Assign(w)
        PROVE  QueueInv' /\ committed <= committed'
    <2>1. /\ UNCHANGED <<committed, pc, cur>>
          /\ owner' = w /\ pos'[w] = committed
          /\ \A v \in Workers \ {w} : assigned'[v] = assigned[v] /\ pos'[v] = pos[v]
      BY <1>6 DEF Assign, TypeOK
    <2>2. ASSUME NEW v \in Workers PROVE Passed(v)' /\ Ahead(v)'
      <3>1. CASE v = w
        BY <1>0, <2>1, <3>1 DEF Passed, Ahead
      <3>2. CASE v # w
        BY <1>0, <1>i, <2>1, <3>2 DEF Passed, Ahead
      <3> QED
        BY <3>1, <3>2
    <2> QED
      BY <1>0, <1>1, <2>1, <2>2 DEF QueueInv
  <1>7. ASSUME NEW w \in Workers, Fetch(w)
        PROVE  QueueInv' /\ committed <= committed'
    <2>1. /\ assigned[w] /\ pc[w] = "idle"
          /\ UNCHANGED <<committed, owner, assigned>>
          /\ pos' = [pos EXCEPT ![w] = pos[w] + 1]
          /\ cur' = [cur EXCEPT ![w] = pos[w] + 1]
          /\ pos[w] + 1 \in Offsets
      BY <1>7 DEF Fetch
    <2>2. \/ pc' = [pc EXCEPT ![w] = "download"]
          \/ /\ pc' = [pc EXCEPT ![w] = "commit"]
             /\ outcomes'[pos[w] + 1] # {}
      <3>1. \/ pc' = [pc EXCEPT ![w] = "download"]
            \/ /\ pc' = [pc EXCEPT ![w] = "commit"]
               /\ outcomes' = [outcomes EXCEPT ![pos[w] + 1] = @ \cup {"invalid"}]
        BY <1>7 DEF Fetch
      <3>2. outcomes' = [outcomes EXCEPT ![pos[w] + 1] = @ \cup {"invalid"}]
            => "invalid" \in outcomes'[pos[w] + 1]
        BY <2>1 DEF TypeOK
      <3> QED
        BY <3>1, <3>2
    <2>3. \A o \in 1..pos[w] : outcomes[o] # {}
      BY <2>1 DEF QueueInv, Passed
    <2>4. ASSUME NEW v \in Workers PROVE Passed(v)' /\ Ahead(v)'
      <3>1. CASE v = w
        <4>1. /\ pos'[w] = pos[w] + 1 /\ cur'[w] = pos[w] + 1
              /\ pc'[w] \in Handling \/ outcomes'[pos[w] + 1] # {}
          BY <2>1, <2>2 DEF TypeOK
        <4>2. \A o \in 1..pos'[w] : o \in 1..pos[w] \/ o = pos[w] + 1
          BY <1>0, <4>1
        <4> QED
          BY <1>0, <1>i, <2>1, <2>3, <3>1, <4>1, <4>2 DEF Passed, Ahead
      <3>2. CASE v # w
        <4>1. /\ pos'[v] = pos[v] /\ cur'[v] = cur[v] /\ pc'[v] = pc[v]
              /\ assigned'[v] = assigned[v]
          BY <2>1, <2>2, <3>2 DEF TypeOK
        <4> QED
          BY <1>0, <1>i, <2>1, <4>1 DEF Passed, Ahead
      <3> QED
        BY <3>1, <3>2
    <2> QED
      BY <1>0, <1>1, <2>1, <2>4 DEF QueueInv
  <1>8. ASSUME NEW w \in Workers,
               \/ Download(w) \/ LoadPrevious(w) \/ Infer(w) \/ Save(w)
               \/ MarkFailed(w) \/ Publish(w) \/ Refill(w)
        PROVE  QueueInv' /\ committed <= committed'
    <2>1. /\ pc[w] \in Handling
          /\ UNCHANGED <<log, committed, owner, assigned, pos, cur, deliveries>>
          /\ \/ \E to \in Handling : pc' = [pc EXCEPT ![w] = to]
             \/ /\ pc' = [pc EXCEPT ![w] = "commit"]
                /\ outcomes'[cur[w]] # {}
      BY <1>8, MiddleStep
    <2>2. ASSUME NEW v \in Workers PROVE Passed(v)' /\ Ahead(v)'
      <3>1. CASE v = w
        <4>1. pc'[w] \in Handling \/ outcomes'[cur[w]] # {}
          BY <2>1 DEF TypeOK
        <4> QED
          BY <1>0, <1>i, <2>1, <3>1, <4>1 DEF Passed, Ahead
      <3>2. CASE v # w
        <4>1. pc'[v] = pc[v]
          BY <2>1, <3>2 DEF TypeOK
        <4> QED
          BY <1>0, <1>i, <2>1, <4>1 DEF Passed, Ahead
      <3> QED
        BY <3>1, <3>2
    <2> QED
      BY <1>0, <1>1, <2>1, <2>2 DEF QueueInv
  <1>9. ASSUME NEW w \in Workers, Poisoned(w)
        PROVE  QueueInv' /\ committed <= committed'
    BY <1>0, <1>1, <1>9, WorkersAssumption
    DEF Poisoned, StopWorker, Forget, QueueInv, Passed, Ahead, TypeOK
  <1>10. ASSUME NEW w \in Workers, Commit(w)
         PROVE  QueueInv' /\ committed <= committed'
    <2>1. /\ pc[w] = "commit"
          /\ owner = w => assigned[w]
      BY <1>10 DEF Commit, Busy, BusyWorker
    <2>2. owner = w => \A o \in 1..pos[w] : outcomes[o] # {}
      BY <2>1 DEF QueueInv, Passed
    <2>3. \/ committed' = committed
          \/ owner = w /\ committed' = pos[w]
      BY <1>10 DEF Commit, Position
    <2>4. HandledBeforeCommitted' /\ committed <= committed'
      BY <1>0, <2>1, <2>2, <2>3 DEF QueueInv, HandledBeforeCommitted, Ahead
    <2>5. ASSUME NEW v \in Workers PROVE Passed(v)' /\ Ahead(v)'
      <3>1. /\ pos' = pos
            /\ v # w => pc'[v] = pc[v] /\ cur'[v] = cur[v] /\ assigned'[v] = assigned[v]
            /\ owner' = owner \/ (owner = w /\ owner' = NoWorker)
            /\ assigned'[w] => assigned[w]
        BY <1>10 DEF Commit, StopWorker, Forget, TypeOK
      <3>2. CASE v = w
        BY <1>0, <2>1, <2>3, <3>1, <3>2, WorkersAssumption DEF QueueInv, Passed, Ahead
      <3>3. CASE v # w
        BY <1>0, <2>1, <2>3, <3>1, <3>3, WorkersAssumption DEF QueueInv, Passed, Ahead
      <3> QED
        BY <3>2, <3>3
    <2> QED
      BY <2>4, <2>5 DEF QueueInv
  <1>11. CASE UNCHANGED vars
    BY <1>2, <1>11 DEF vars
  <1> QED
    BY <1>3, <1>4, <1>5, <1>6, <1>7, <1>8, <1>9, <1>10, <1>11 DEF Next, Handle

\* Nothing is committed that was not handled.
LEMMA QueueInvariant == Spec => [](TypeOK /\ Busy /\ QueueInv)
  <1>1. Init => QueueInv
    BY DEF Init, QueueInv, Passed, Ahead, HandledBeforeCommitted
  <1>2. TypeOK /\ Busy /\ TypeOK' /\ QueueInv /\ [Next]_vars => QueueInv'
    BY StepQueue
  <1> QED
    BY <1>1, <1>2, Typed, PTL DEF Spec

\* At-least-once processing (core/events.py:18): an offset is committed only
\* when every message up to it has been handled to one of its ends.
THEOREM NothingSkipped == Spec => []HandledBeforeCommitted
  <1>1. QueueInv => HandledBeforeCommitted
    BY DEF QueueInv
  <1> QED
    BY <1>1, QueueInvariant, PTL

\* The committed offset never moves back, whoever commits.
THEOREM CommittedMonotone == Spec => CommittedNeverRegresses
  <1>1. TypeOK /\ Busy /\ TypeOK' /\ QueueInv /\ [Next]_vars
        => [committed' >= committed]_vars
    BY StepQueue DEF TypeOK
  <1> QED
    BY <1>1, QueueInvariant, PTL DEF Spec, CommittedNeverRegresses

-----------------------------------------------------------------------------
(* The lasting effects of a photo.                                         *)

\* A worker about to publish for a photo that has a row saved the photo's
\* analysis itself, and nobody has announced or refilled for it before.
Announcing(w) == pc[w] \in {"publish", "refill"}
Photo(w) == PhotoAt(cur[w])

Announcer(w) ==
    Announcing(w) /\ Photo(w) \in Tracked =>
        /\ analysis[Photo(w)] # None
        /\ analysis[Photo(w)].counts = counts[w]
        /\ refills[Photo(w)] = <<>>
        /\ pc[w] = "publish" => inventory[Photo(w)] = <<>>
        /\ pc[w] = "refill" => counts[w] \in LowCounts

\* No two workers announce the same photo.
Alone(v, w) ==
    Announcing(v) /\ Announcing(w) /\ Photo(v) = Photo(w) /\ Photo(v) \in Tracked
        => v = w

\* No event is sent for a photo that has a row and no analysis.
Quiet(p) ==
    p \in Tracked /\ analysis[p] = None => inventory[p] = <<>> /\ refills[p] = <<>>

\* Effects follow a saved analysis.
EffectInv ==
    /\ \A w \in Workers : Announcer(w)
    /\ \A v, w \in Workers : Alone(v, w)
    /\ \A p \in Photos : Quiet(p)
    /\ CompletedWithAnalysis

\* A step that writes nothing and starts no announcement keeps EffectInv and
\* is a stuttering step of PhotoEffects.
LEMMA EffectFrame ==
  ASSUME TypeOK, EffectInv, UNCHANGED <<log, db, events>>,
         \A v \in Workers :
            Announcing(v)' => /\ pc'[v] = pc[v]
                              /\ cur'[v] = cur[v]
                             /\ counts'[v] = counts[v]
  PROVE  EffectInv' /\ UNCHANGED Effects!vars
  <1> USE DEF db, events
  <1>1. /\ UNCHANGED <<log, status, analysis, inventory, refills>>
        /\ Tracked' = Tracked
    BY DEF Tracked
  <1>2. \A v \in Workers : Announcing(v)' => Announcing(v) /\ Photo(v)' = Photo(v)
    BY <1>1 DEF Announcing, Photo, PhotoAt
  <1>3. \A v \in Workers : Announcer(v)'
    BY <1>1, <1>2 DEF EffectInv, Announcer
  <1>4. \A v, w \in Workers : Alone(v, w)'
    BY <1>1, <1>2 DEF EffectInv, Alone
  <1>5. \A p \in Photos : Quiet(p)'
    BY <1>1 DEF EffectInv, Quiet
  <1>6. CompletedWithAnalysis'
    BY <1>1 DEF EffectInv, CompletedWithAnalysis
  <1>7. UNCHANGED Effects!vars
    BY <1>1 DEF Effects!vars, Found, Announced, Refilled
  <1> QED
    BY <1>3, <1>4, <1>5, <1>6, <1>7 DEF EffectInv

\* The steps that write nothing.
LEMMA FrameSteps ==
  ASSUME TypeOK, Busy, EffectInv,
         \/ Evict
         \/ \E w \in Workers :
               \/ Start(w) \/ Assign(w) \/ Notice(w) \/ Crash(w) \/ Fetch(w)
               \/ Poisoned(w) \/ Download(w) \/ LoadPrevious(w) \/ Infer(w)
               \/ Commit(w)
         \/ UNCHANGED vars
  PROVE  EffectInv' /\ UNCHANGED Effects!vars
  <1> USE DEF group, local, db, events, history, Announcing, Goto, TypeOK
  <1>1. UNCHANGED <<log, db, events>>
    BY DEF vars, Evict, Start, Assign, Notice, Crash, Fetch, Poisoned, Download,
           LoadPrevious, Infer, Commit, StopWorker
  <1>2. ASSUME NEW v \in Workers, Announcing(v)'
        PROVE  pc'[v] = pc[v] /\ cur'[v] = cur[v] /\ counts'[v] = counts[v]
    <2>1. CASE Evict \/ UNCHANGED vars
      BY <2>1 DEF vars, Evict
    <2>2. ASSUME NEW w \in Workers,
                 Start(w) \/ Assign(w) \/ Notice(w) \/ Crash(w) \/ Poisoned(w)
          PROVE  pc'[v] = pc[v] /\ cur'[v] = cur[v] /\ counts'[v] = counts[v]
      BY <1>2, <2>2 DEF Start, Assign, Notice, Crash, Poisoned, StopWorker, Forget
    <2>3. ASSUME NEW w \in Workers, Commit(w)
          PROVE  pc'[v] = pc[v] /\ cur'[v] = cur[v] /\ counts'[v] = counts[v]
      BY <1>2, <2>3 DEF Commit, StopWorker, Forget
    <2>4. ASSUME NEW w \in Workers, Fetch(w)
          PROVE  pc'[v] = pc[v] /\ cur'[v] = cur[v] /\ counts'[v] = counts[v]
      <3>1. /\ \/ pc' = [pc EXCEPT ![w] = "download"]
               \/ pc' = [pc EXCEPT ![w] = "commit"]
            /\ \E o : cur' = [cur EXCEPT ![w] = o]
            /\ UNCHANGED counts
        BY <2>4 DEF Fetch
      <3> QED
        BY <1>2, <3>1
    <2>5. ASSUME NEW w \in Workers, Download(w) \/ LoadPrevious(w) \/ Infer(w)
          PROVE  pc'[v] = pc[v] /\ cur'[v] = cur[v] /\ counts'[v] = counts[v]
      BY <1>2, <2>5 DEF Download, LoadPrevious, Infer
    <2> QED
      BY <2>1, <2>2, <2>3, <2>4, <2>5
  <1> QED
    BY <1>1, <1>2, EffectFrame

\* Marking a photo as failed changes at most its status.
LEMMA FailedShape ==
  ASSUME TypeOK, NEW p \in Photos, NEW q
  PROVE  \/ Failed(q)[p] = status[p]
         \/ Failed(q)[p] = "failed" /\ status[p] # "absent"
  <1>1. status \in [Photos -> {"absent", "pending", "completed", "failed"}]
    BY DEF TypeOK
  <1> QED
    BY <1>1 DEF Failed

\* A photo that is marked as failed takes no effect.
LEMMA MarkFailedEffects ==
  ASSUME TypeOK, Busy, EffectInv, NEW w \in Workers, MarkFailed(w)
  PROVE  EffectInv' /\ UNCHANGED Effects!vars
  <1> USE DEF group, local, db, events, history
  <1>1. UNCHANGED <<log, analysis, inventory, refills, cur, counts>>
    BY DEF MarkFailed
  <1>2. \A p \in Photos : \/ status'[p] = status[p]
                          \/ status'[p] = "failed" /\ status[p] # "absent"
    <2> DEFINE marked == Failed(PhotoAt(cur[w]))
    <2>1. status' = status \/ status' = marked
      BY DEF MarkFailed
    <2>2. \A p \in Photos : \/ marked[p] = status[p]
                            \/ marked[p] = "failed" /\ status[p] # "absent"
      BY FailedShape
    <2> HIDE DEF marked
    <2> QED
      BY <2>1, <2>2
  <1>3. Tracked' = Tracked
    BY <1>2 DEF Tracked
  <1>4. \A v \in Workers : /\ Photo(v)' = Photo(v)
                           /\ Announcing(v)' => Announcing(v) /\ pc'[v] = pc[v]
    BY <1>1 DEF MarkFailed, Return, Goto, Announcing, Photo, PhotoAt, TypeOK
  <1>5. \A v \in Workers : Announcer(v)'
    BY <1>1, <1>3, <1>4 DEF EffectInv, Announcer
  <1>6. \A u, v \in Workers : Alone(u, v)'
    BY <1>3, <1>4 DEF EffectInv, Alone
  <1>7. \A p \in Photos : Quiet(p)'
    BY <1>1, <1>3 DEF EffectInv, Quiet
  <1>8. CompletedWithAnalysis'
    BY <1>1, <1>2 DEF EffectInv, CompletedWithAnalysis
  <1>9. UNCHANGED Effects!vars
    BY <1>1, <1>3 DEF Effects!vars, Found, Announced, Refilled
  <1> QED
    BY <1>5, <1>6, <1>7, <1>8, <1>9 DEF EffectInv

\* The first analysis saved for a photo is the one that is announced.
LEMMA SaveEffects ==
  ASSUME TypeOK, Busy, EffectInv, NEW w \in Workers, Save(w)
  PROVE  EffectInv' /\ [Effects!Next]_(Effects!vars)
  <1> DEFINE p == Photo(w)
  <1> USE DEF group, local, db, events, history, Goto, Return
  <1>1. pc[w] = "save" /\ p \in Photos
    BY HandlingPhoto DEF Save, Handling, Photo
  <1>2. UNCHANGED <<log, cur, counts, inventory, refills>>
    BY DEF Save
  <1>3. \A v \in Workers : /\ Photo(v)' = Photo(v)
                           /\ v # w => pc'[v] = pc[v]
    BY <1>2 DEF Save, Photo, PhotoAt, TypeOK
  <1>4. pc'[w] \in {"publish", "commit"}
    BY DEF Save, TypeOK
  <1>5. ASSUME WriteAnalysis(w, p)
        PROVE  EffectInv' /\ [Effects!Next]_(Effects!vars)
    <2>1. /\ p \in Tracked /\ analysis[p] = None
          /\ \A q \in Photos \ {p} : status'[q] = status[q] /\ analysis'[q] = analysis[q]
          /\ status'[p] = "completed"
          /\ analysis'[p] # None /\ analysis'[p].counts = counts[w]
      BY <1>1, <1>5, CountsAssumption DEF WriteAnalysis, TypeOK, Analysis, Tracked
    <2>2. Tracked' = Tracked
      BY <2>1 DEF Tracked
    <2>3. inventory[p] = <<>> /\ refills[p] = <<>>
      BY <1>1, <2>1 DEF EffectInv, Quiet
    <2>4. \A v \in Workers \ {w} : Announcing(v) => Photo(v) # p
      BY <2>1 DEF EffectInv, Announcer
    <2>5. ASSUME NEW v \in Workers PROVE Announcer(v)'
      <3>1. CASE v = w
        BY <1>2, <1>3, <1>4, <2>1, <2>3, <3>1 DEF Announcer, Announcing
      <3>2. CASE v # w
        <4>1. SUFFICES ASSUME Announcing(v)', Photo(v)' \in Tracked'
                       PROVE  Announcer(v)'
          BY DEF Announcer
        <4>2. Announcing(v) /\ Photo(v) \in Tracked /\ Photo(v) \in Photos \ {p}
          BY <1>3, <2>2, <2>4, <3>2, <4>1 DEF Announcing, Tracked
        <4> QED
          BY <1>2, <1>3, <2>1, <3>2, <4>2 DEF EffectInv, Announcer
      <3> QED
        BY <3>1, <3>2
    <2>6. \A u, v \in Workers : Alone(u, v)'
      BY <1>3, <2>2, <2>4 DEF EffectInv, Alone, Announcing
    <2>7. \A q \in Photos : Quiet(q)'
      BY <1>2, <2>1, <2>2 DEF EffectInv, Quiet
    <2>8. CompletedWithAnalysis'
      BY <2>1 DEF EffectInv, CompletedWithAnalysis
    <2>9. Effects!Analyse(p)
      <3>1. /\ Found[p] = None
            /\ Found' = [Found EXCEPT ![p] = counts[w]]
            /\ counts[w] \in Counts
        BY <1>1, <2>1 DEF Found, TypeOK
      <3>2. Announced' = Announced /\ Refilled' = Refilled
        BY <1>2, <2>2 DEF Announced, Refilled
      <3> QED
        BY <2>1, <2>2, <3>1, <3>2 DEF Effects!Analyse
    <2> QED
      BY <1>1, <2>5, <2>6, <2>7, <2>8, <2>9 DEF EffectInv, Effects!Next
  <1>6. ASSUME UNCHANGED <<status, analysis>>, p \notin Tracked \/ pc'[w] = "commit"
        PROVE  EffectInv' /\ UNCHANGED Effects!vars
    <2>1. Tracked' = Tracked
      BY <1>6 DEF Tracked
    <2>2. \A v \in Workers : Announcing(v)' /\ Photo(v)' \in Tracked =>
                               Announcing(v) /\ pc'[v] = pc[v]
      BY <1>3, <1>6 DEF Announcing
    <2>3. \A v \in Workers : Announcer(v)'
      BY <1>2, <1>3, <1>6, <2>1, <2>2 DEF EffectInv, Announcer
    <2>4. \A u, v \in Workers : Alone(u, v)'
      BY <1>3, <2>1, <2>2 DEF EffectInv, Alone
    <2>5. (\A q \in Photos : Quiet(q)') /\ CompletedWithAnalysis'
      BY <1>2, <1>6, <2>1 DEF EffectInv, Quiet, CompletedWithAnalysis
    <2>6. UNCHANGED Effects!vars
      BY <1>2, <1>6, <2>1 DEF Effects!vars, Found, Announced, Refilled
    <2> QED
      BY <2>3, <2>4, <2>5, <2>6 DEF EffectInv
  <1> QED
    BY <1>1, <1>5, <1>6 DEF Save, Photo, Tracked, TypeOK

\* What is published is what was saved.
LEMMA PublishEffects ==
  ASSUME TypeOK, Busy, EffectInv, NEW w \in Workers, Publish(w)
  PROVE  EffectInv' /\ [Effects!Next]_(Effects!vars)
  <1> DEFINE p == Photo(w)
  <1> USE DEF group, local, db, events, history, Goto, Return
  <1>1. pc[w] = "publish" /\ p \in Photos
    BY HandlingPhoto DEF Publish, Handling, Photo
  <1>2. UNCHANGED <<log, cur, counts, status, analysis, refills>>
    BY DEF Publish
  <1>3. /\ Tracked' = Tracked
        /\ \A v \in Workers : /\ Photo(v)' = Photo(v)
                              /\ v # w => pc'[v] = pc[v]
        /\ \/ pc'[w] = "refill" /\ counts[w] \in LowCounts
           \/ pc'[w] = "commit"
    BY <1>2 DEF Publish, Tracked, Photo, PhotoAt, TypeOK
  <1>4. \A q \in Photos \ {p} : inventory'[q] = inventory[q]
    BY <1>1 DEF Publish, Sent, TypeOK, Photo
  <1>5. \A v \in Workers \ {w} :
          Announcing(v) /\ Photo(v) \in Tracked => Photo(v) \in Photos \ {p}
    BY <1>1 DEF EffectInv, Alone, Announcing, Tracked
  <1>6. ASSUME NEW v \in Workers PROVE Announcer(v)'
    <2>1. CASE v = w
      BY <1>1, <1>2, <1>3, <2>1 DEF EffectInv, Announcer, Announcing
    <2>2. CASE v # w
      BY <1>2, <1>3, <1>4, <1>5, <2>2 DEF EffectInv, Announcer, Announcing
    <2> QED
      BY <2>1, <2>2
  <1>7. \A u, v \in Workers : Alone(u, v)'
    BY <1>1, <1>3 DEF EffectInv, Alone, Announcing
  <1>8. ASSUME NEW q \in Photos PROVE Quiet(q)'
    <2>1. CASE q = p
      BY <1>1, <1>2, <1>3, <2>1 DEF EffectInv, Announcer, Announcing, Quiet
    <2>2. CASE q # p
      BY <1>2, <1>3, <1>4, <2>2 DEF EffectInv, Quiet
    <2> QED
      BY <2>1, <2>2
  <1>9. CompletedWithAnalysis'
    BY <1>2 DEF EffectInv, CompletedWithAnalysis
  <1>10. Found' = Found /\ Refilled' = Refilled
    BY <1>2, <1>3 DEF Found, Refilled
  <1>11. CASE p \in Tracked /\ inventory' = Sent(inventory, p, counts[w])
    <2>1. /\ analysis[p] # None /\ analysis[p].counts = counts[w]
          /\ inventory[p] = <<>> /\ refills[p] = <<>>
      BY <1>1, <1>11 DEF EffectInv, Announcer, Announcing
    <2>2. /\ Found[p] = counts[w] /\ Found[p] # None
          /\ Announced[p] = <<>> /\ Refilled[p] = <<>>
      BY <1>1, <1>11, <2>1, CountsAssumption DEF Found, Announced, Refilled, TypeOK
    <2>3. Announced' = [Announced EXCEPT ![p] = Append(@, Found[p])]
      BY <1>1, <1>3, <1>11, <2>2 DEF Announced, Sent, TypeOK
    <2>4. Effects!Announce(p)
      BY <1>3, <1>10, <1>11, <2>2, <2>3 DEF Effects!Announce
    <2> QED
      BY <1>1, <1>6, <1>7, <1>8, <1>9, <2>4 DEF EffectInv, Effects!Next
  <1>12. CASE p \notin Tracked \/ inventory' = inventory
    <2>1. Announced' = Announced
      BY <1>3, <1>4, <1>12 DEF Announced, Tracked
    <2> QED
      BY <1>3, <1>6, <1>7, <1>8, <1>9, <1>10, <2>1 DEF EffectInv, Effects!vars
  <1> QED
    BY <1>11, <1>12 DEF Publish, Photo

\* A refill follows the analysis that called for it.
LEMMA RefillEffects ==
  ASSUME TypeOK, Busy, EffectInv, NEW w \in Workers, Refill(w)
  PROVE  EffectInv' /\ [Effects!Next]_(Effects!vars)
  <1> DEFINE p == Photo(w)
  <1> USE DEF group, local, db, events, history, Goto, Return
  <1>1. pc[w] = "refill" /\ p \in Photos
    BY HandlingPhoto DEF Refill, Handling, Photo
  <1>2. UNCHANGED <<log, cur, counts, status, analysis, inventory>>
    BY DEF Refill
  <1>3. /\ Tracked' = Tracked
        /\ pc'[w] = "commit"
        /\ \A v \in Workers : /\ Photo(v)' = Photo(v)
                              /\ v # w => pc'[v] = pc[v]
    BY <1>2 DEF Refill, Tracked, Photo, PhotoAt, TypeOK
  <1>4. \A q \in Photos \ {p} : refills'[q] = refills[q]
    BY <1>1 DEF Refill, Sent, TypeOK, Photo
  <1>5. \A v \in Workers \ {w} :
          Announcing(v) /\ Photo(v) \in Tracked => Photo(v) \in Photos \ {p}
    BY <1>1 DEF EffectInv, Alone, Announcing, Tracked
  <1>6. ASSUME NEW v \in Workers PROVE Announcer(v)'
    <2>1. CASE v = w
      BY <1>3, <2>1 DEF Announcer, Announcing
    <2>2. CASE v # w
      BY <1>2, <1>3, <1>4, <1>5, <2>2 DEF EffectInv, Announcer, Announcing
    <2> QED
      BY <2>1, <2>2
  <1>7. \A u, v \in Workers : Alone(u, v)'
    BY <1>1, <1>3 DEF EffectInv, Alone, Announcing
  <1>8. ASSUME NEW q \in Photos PROVE Quiet(q)'
    <2>1. CASE q = p
      BY <1>1, <1>2, <1>3, <2>1 DEF EffectInv, Announcer, Announcing, Quiet
    <2>2. CASE q # p
      BY <1>2, <1>3, <1>4, <2>2 DEF EffectInv, Quiet
    <2> QED
      BY <2>1, <2>2
  <1>9. CompletedWithAnalysis'
    BY <1>2 DEF EffectInv, CompletedWithAnalysis
  <1>10. Found' = Found /\ Announced' = Announced
    BY <1>2, <1>3 DEF Found, Announced
  <1>11. CASE p \in Tracked /\ refills' = Sent(refills, p, counts[w])
    <2>1. /\ analysis[p] # None /\ analysis[p].counts = counts[w]
          /\ refills[p] = <<>> /\ counts[w] \in LowCounts
      BY <1>1, <1>11 DEF EffectInv, Announcer, Announcing
    <2>2. /\ Found[p] = counts[w] /\ Found[p] \in LowCounts
          /\ Refilled[p] = <<>>
      BY <1>1, <1>11, <2>1 DEF Found, Refilled
    <2>3. Refilled' = [Refilled EXCEPT ![p] = Append(@, Found[p])]
      BY <1>1, <1>3, <1>11, <2>2 DEF Refilled, Sent, TypeOK
    <2>4. Effects!Refill(p)
      BY <1>3, <1>10, <1>11, <2>2, <2>3 DEF Effects!Refill
    <2> QED
      BY <1>1, <1>6, <1>7, <1>8, <1>9, <2>4 DEF EffectInv, Effects!Next
  <1>12. CASE p \notin Tracked \/ refills' = refills
    <2>1. Refilled' = Refilled
      BY <1>3, <1>4, <1>12 DEF Refilled, Tracked
    <2> QED
      BY <1>3, <1>6, <1>7, <1>8, <1>9, <1>10, <2>1 DEF EffectInv, Effects!vars
  <1> QED
    BY <1>11, <1>12 DEF Refill, Photo

\* Every step is a step of PhotoEffects, or stutters.
LEMMA StepEffects ==
  TypeOK /\ Busy /\ EffectInv /\ [Next]_vars
    => EffectInv' /\ [Effects!Next]_(Effects!vars)
  <1> SUFFICES ASSUME TypeOK, Busy, EffectInv, [Next]_vars
               PROVE  EffectInv' /\ [Effects!Next]_(Effects!vars)
    OBVIOUS
  <1>1. CASE UNCHANGED vars
    BY <1>1, FrameSteps
  <1>2. CASE Evict
    BY <1>2, FrameSteps
  <1>3. ASSUME NEW w \in Workers,
               \/ Start(w) \/ Assign(w) \/ Notice(w) \/ Crash(w) \/ Fetch(w)
               \/ Poisoned(w) \/ Download(w) \/ LoadPrevious(w) \/ Infer(w)
               \/ Commit(w)
        PROVE  EffectInv' /\ [Effects!Next]_(Effects!vars)
    BY <1>3, FrameSteps
  <1>4. ASSUME NEW w \in Workers, MarkFailed(w)
        PROVE  EffectInv' /\ [Effects!Next]_(Effects!vars)
    BY <1>4, MarkFailedEffects
  <1>5. ASSUME NEW w \in Workers, Save(w) \/ Publish(w) \/ Refill(w)
        PROVE  EffectInv' /\ [Effects!Next]_(Effects!vars)
    BY <1>5, SaveEffects, PublishEffects, RefillEffects
  <1> QED
    BY <1>1, <1>2, <1>3, <1>4, <1>5 DEF Next, Handle

\* The initial states are those of PhotoEffects.
LEMMA InitEffects == Init => EffectInv /\ Effects!Init
  <1> SUFFICES ASSUME Init PROVE EffectInv /\ Effects!Init
    OBVIOUS
  <1>1. /\ \A w \in Workers : ~Announcing(w)
        /\ \A p \in Photos : /\ inventory[p] = <<>>
                             /\ refills[p] = <<>>
                             /\ analysis[p] = None
                             /\ status[p] # "completed"
    BY DEF Init, Announcing
  <1>2. EffectInv
    BY <1>1 DEF EffectInv, Announcer, Alone, Quiet, CompletedWithAnalysis
  <1>3. Effects!Init
    BY <1>1 DEF Effects!Init, Tracked, Found, Announced, Refilled
  <1> QED
    BY <1>2, <1>3

\* Whatever crashes, evictions, faults and duplicate deliveries do, a photo
\* with a row is analysed at most once, and announced and refilled at most
\* once with the saved counts: the pipeline implements PhotoEffects.
THEOREM Implementation == Spec => ImplementsEffects
  <1> USE DEF ImplementsEffects, Effects!Spec
  <1> QED
    BY InitEffects, StepEffects, Typed, PTL DEF Spec

\* No reader of the database sees a completed photo without its analysis.
THEOREM AnalysisOfCompleted == Spec => []CompletedWithAnalysis
  <1>1. EffectInv => CompletedWithAnalysis
    BY DEF EffectInv
  <1> QED
    BY <1>1, InitEffects, StepEffects, Typed, PTL DEF Spec

-----------------------------------------------------------------------------
(* What the outcomes of a message say of its photo's status.               *)

\* A handler of a photo message ends as marked, saved or with a database
\* error; once marked or saved the photo is no longer pending.
Ledger(o) ==
    log[o].kind = "photo" =>
        /\ outcomes[o] \subseteq {"marked", "marklost", "saved", "savelost"}
        /\ outcomes[o] \cap {"marked", "saved"} # {} => status[PhotoAt(o)] # "pending"

\* A worker that publishes has moved the photo on.
SavedBefore(w) == Announcing(w) => status[Photo(w)] # "pending"

LedgerInv ==
    /\ \A o \in Offsets : Ledger(o)
    /\ \A w \in Workers : SavedBefore(w)

\* No step makes a photo pending again.
LEMMA NeverPendingAgain ==
  ASSUME TypeOK, Busy, [Next]_vars, NEW p \in Photos, status[p] # "pending"
  PROVE  status'[p] # "pending"
  <1> USE DEF group, local, db, events, history
  <1>1. CASE UNCHANGED status
    BY <1>1
  <1>2. ASSUME NEW w \in Workers, Save(w) PROVE status'[p] # "pending"
    <2>1. \/ UNCHANGED status
          \/ status' = [status EXCEPT ![PhotoAt(cur[w])] = "completed"]
      BY <1>2 DEF Save, WriteAnalysis
    <2> QED
      BY <2>1 DEF TypeOK
  <1>3. ASSUME NEW w \in Workers, MarkFailed(w) PROVE status'[p] # "pending"
    <2> DEFINE marked == Failed(PhotoAt(cur[w]))
    <2>1. status' = status \/ status' = marked
      BY <1>3 DEF MarkFailed
    <2>2. marked[p] # "pending"
      BY FailedShape
    <2> HIDE DEF marked
    <2> QED
      BY <2>1, <2>2
  <1>4. UNCHANGED status \/ \E w \in Workers : Save(w) \/ MarkFailed(w)
    BY DEF Next, vars, Handle, Evict, Start, Assign, Notice, Crash, Fetch, Poisoned,
           Download, LoadPrevious, Infer, Publish, Refill, Commit, StopWorker
  <1> QED
    BY <1>1, <1>2, <1>3, <1>4

\* A step that ends no handler and starts no announcement keeps LedgerInv.
LEMMA LedgerFrame ==
  ASSUME TypeOK, Busy, LedgerInv, [Next]_vars, UNCHANGED <<log, outcomes>>,
         \A v \in Workers :
            Announcing(v)' => (Announcing(v) /\ cur'[v] = cur[v])
  PROVE  LedgerInv'
  <1>1. Offsets' = Offsets /\ \A o \in Offsets : PhotoAt(o)' = PhotoAt(o) /\ PhotoAt(o) \in Photos
    BY LogType DEF Offsets, PhotoAt, Message
  <1>2. \A o \in Offsets : Ledger(o)'
    BY <1>1, NeverPendingAgain DEF LedgerInv, Ledger
  <1>3. \A w \in Workers : Announcing(w) => Photo(w) \in Photos
    BY HandlingPhoto DEF Announcing, Handling, Photo
  <1>4. \A w \in Workers : SavedBefore(w)'
    BY <1>3, NeverPendingAgain DEF LedgerInv, SavedBefore, Photo, PhotoAt
  <1> QED
    BY <1>1, <1>2, <1>4 DEF LedgerInv

\* A step that ends the handler of w with an outcome that is true of its
\* photo keeps LedgerInv.
LEMMA LedgerReturn ==
  ASSUME TypeOK, Busy, LedgerInv, [Next]_vars, NEW w \in Workers,
         NEW from \in Handling,
         NEW out \in {"marked", "marklost", "saved", "savelost"},
         Return(w, from, out), UNCHANGED <<log, cur>>,
         out \in {"marked", "saved"} => status'[Photo(w)] # "pending"
  PROVE  LedgerInv'
  <1>1. /\ cur[w] \in Offsets /\ Photo(w) \in Photos
        /\ pc' = [pc EXCEPT ![w] = "commit"]
        /\ outcomes' = [outcomes EXCEPT ![cur[w]] = @ \cup {out}]
    BY HandlingPhoto DEF Return, Goto, Photo
  <1>2. Offsets' = Offsets /\ \A o \in Offsets : PhotoAt(o)' = PhotoAt(o) /\ PhotoAt(o) \in Photos
    BY LogType DEF Offsets, PhotoAt, Message
  <1>3. ASSUME NEW o \in Offsets PROVE Ledger(o)'
    <2>1. CASE o = cur[w]
      <3>1. outcomes'[o] = outcomes[o] \cup {out}
        BY <1>1, <2>1 DEF TypeOK
      <3> QED
        BY <1>2, <2>1, <3>1, NeverPendingAgain DEF LedgerInv, Ledger, Photo
    <2>2. CASE o # cur[w]
      <3>1. outcomes'[o] = outcomes[o]
        BY <1>1, <2>2 DEF TypeOK
      <3> QED
        BY <1>2, <3>1, NeverPendingAgain DEF LedgerInv, Ledger
    <2> QED
      BY <2>1, <2>2
  <1>4. ASSUME NEW v \in Workers PROVE SavedBefore(v)'
    <2>1. Announcing(v)' => v # w /\ Announcing(v)
      BY <1>1 DEF Announcing, TypeOK
    <2>2. Announcing(v) => Photo(v) \in Photos /\ status[Photo(v)] # "pending"
      BY HandlingPhoto DEF LedgerInv, SavedBefore, Announcing, Handling, Photo
    <2> QED
      BY <2>1, <2>2, NeverPendingAgain DEF SavedBefore, Photo, PhotoAt
  <1> QED
    BY <1>2, <1>3, <1>4 DEF LedgerInv

\* Every step keeps LedgerInv.
LEMMA StepLedger == TypeOK /\ Busy /\ LedgerInv /\ [Next]_vars => LedgerInv'
  <1> SUFFICES ASSUME TypeOK, Busy, LedgerInv, [Next]_vars PROVE LedgerInv'
    OBVIOUS
  <1> USE DEF group, local, db, events, history, Goto
  <1>1. CASE UNCHANGED vars
    BY <1>1, LedgerFrame DEF vars, Announcing
  <1>2. CASE Evict
    BY <1>2, LedgerFrame DEF Evict, Announcing
  <1>3. ASSUME NEW w \in Workers,
               Start(w) \/ Assign(w) \/ Notice(w) \/ Crash(w) \/ Poisoned(w)
        PROVE  LedgerInv'
    <2>1. UNCHANGED <<log, outcomes>>
      BY <1>3 DEF Start, Assign, Notice, Crash, Poisoned, StopWorker
    <2>2. \A v \in Workers : Announcing(v)' => (Announcing(v) /\ cur'[v] = cur[v])
      BY <1>3 DEF Start, Assign, Notice, Crash, Poisoned, StopWorker, Forget,
                  Announcing, TypeOK
    <2> QED
      BY <2>1, <2>2, LedgerFrame
  <1>4. ASSUME NEW w \in Workers, Download(w) \/ LoadPrevious(w) \/ Infer(w)
        PROVE  LedgerInv'
    <2>1. UNCHANGED <<log, outcomes, cur>>
      BY <1>4 DEF Download, LoadPrevious, Infer
    <2>2. \A v \in Workers : Announcing(v)' => Announcing(v)
      BY <1>4 DEF Download, LoadPrevious, Infer, Announcing, TypeOK
    <2> QED
      BY <2>1, <2>2, LedgerFrame
  <1>5. ASSUME NEW w \in Workers, Commit(w) PROVE LedgerInv'
    <2>1. UNCHANGED <<log, outcomes>>
      BY <1>5 DEF Commit, StopWorker
    <2>2. \A v \in Workers : Announcing(v)' => (Announcing(v) /\ cur'[v] = cur[v])
      BY <1>5 DEF Commit, StopWorker, Forget, Announcing, TypeOK
    <2> QED
      BY <2>1, <2>2, LedgerFrame
  <1>6. ASSUME NEW w \in Workers, Fetch(w) PROVE LedgerInv'
    <2> DEFINE i == pos[w] + 1
    <2>1. /\ log' = log /\ i \in Offsets
          /\ \/ pc' = [pc EXCEPT ![w] = "download"]
             \/ pc' = [pc EXCEPT ![w] = "commit"]
          /\ cur' = [cur EXCEPT ![w] = i]
          /\ \/ outcomes' = outcomes
             \/ /\ log[i].kind = "invalid"
                /\ outcomes' = [outcomes EXCEPT ![i] = @ \cup {"invalid"}]
      BY <1>6 DEF Fetch
    <2>2. \A v \in Workers : Announcing(v)' => (Announcing(v) /\ cur'[v] = cur[v])
      BY <2>1 DEF Announcing, TypeOK
    <2>3. \A o \in Offsets : log[o].kind = "photo" => outcomes'[o] = outcomes[o]
      BY <2>1 DEF TypeOK
    <2> HIDE DEF i
    <2>4. Offsets' = Offsets /\ \A o \in Offsets : PhotoAt(o)' = PhotoAt(o) /\ PhotoAt(o) \in Photos
      BY <2>1, LogType DEF Offsets, PhotoAt, Message
    <2>5. \A o \in Offsets : Ledger(o)'
      BY <2>1, <2>3, <2>4, NeverPendingAgain DEF LedgerInv, Ledger
    <2>6. \A v \in Workers : Announcing(v) => Photo(v) \in Photos
      BY HandlingPhoto DEF Announcing, Handling, Photo
    <2>7. \A v \in Workers : SavedBefore(v)'
      BY <2>1, <2>2, <2>6, NeverPendingAgain DEF LedgerInv, SavedBefore, Photo, PhotoAt
    <2> QED
      BY <2>4, <2>5, <2>7 DEF LedgerInv
  <1>7. ASSUME NEW w \in Workers, MarkFailed(w) PROVE LedgerInv'
    <2>1. UNCHANGED <<log, cur>>
      BY <1>7 DEF MarkFailed
    <2>2. CASE Return(w, "markfailed", "marklost")
      BY <2>1, <2>2, LedgerReturn DEF Handling
    <2>3. CASE Return(w, "markfailed", "marked") /\ status' = Failed(PhotoAt(cur[w]))
      <3>1. Photo(w) \in Photos /\ status \in [Photos -> {"absent", "pending", "completed", "failed"}]
        BY <2>3, HandlingPhoto DEF Return, Handling, Photo, TypeOK
      <3>2. status'[Photo(w)] # "pending"
        BY <2>3, <3>1 DEF Failed, Photo
      <3> QED
        BY <2>1, <2>3, <3>2, LedgerReturn DEF Handling
    <2> QED
      BY <1>7, <2>2, <2>3 DEF MarkFailed
  <1>8. ASSUME NEW w \in Workers, Save(w) PROVE LedgerInv'
    <2>1. UNCHANGED <<log, cur>>
      BY <1>8 DEF Save
    <2>2. CASE Return(w, "save", "savelost")
      BY <2>1, <2>2, LedgerReturn DEF Handling
    <2>3. CASE /\ pc' = [pc EXCEPT ![w] = "publish"]
               /\ pc[w] = "save"
               /\ UNCHANGED outcomes
               /\ WriteAnalysis(w, Photo(w)) \/ (status[Photo(w)] = "absent" /\ UNCHANGED db)
      <3>1. Offsets' = Offsets /\ \A o \in Offsets : PhotoAt(o)' = PhotoAt(o) /\ PhotoAt(o) \in Photos
        BY <2>1, LogType DEF Offsets, PhotoAt, Message
      <3>2. \A o \in Offsets : Ledger(o)'
        BY <2>1, <2>3, <3>1, NeverPendingAgain DEF LedgerInv, Ledger
      <3>3. Photo(w) \in Photos /\ \A v \in Workers : Announcing(v) => Photo(v) \in Photos
        BY <2>3, HandlingPhoto DEF Announcing, Handling, Photo
      <3>4. status'[Photo(w)] # "pending"
        BY <2>3, <3>3 DEF WriteAnalysis, TypeOK
      <3>5. \A v \in Workers : Announcing(v)' => v = w \/ Announcing(v)
        BY <2>3 DEF Announcing, TypeOK
      <3>6. \A v \in Workers : SavedBefore(v)'
        BY <2>1, <3>3, <3>4, <3>5, NeverPendingAgain DEF LedgerInv, SavedBefore, Photo, PhotoAt
      <3> QED
        BY <3>1, <3>2, <3>6 DEF LedgerInv
    <2> QED
      BY <1>8, <2>2, <2>3 DEF Save, Photo
  <1>9. ASSUME NEW w \in Workers, Publish(w) \/ Refill(w) PROVE LedgerInv'
    <2>1. /\ UNCHANGED <<log, cur, status>>
          /\ pc[w] \in {"publish", "refill"}
      BY <1>9 DEF Publish, Refill, Return
    <2>2. status'[Photo(w)] # "pending"
      BY <2>1 DEF LedgerInv, SavedBefore, Announcing
    <2>3. CASE \E from \in Handling : Return(w, from, "saved")
      BY <2>1, <2>2, <2>3, LedgerReturn
    <2>4. CASE UNCHANGED outcomes /\ pc' = [pc EXCEPT ![w] = "refill"]
      <3>1. \A v \in Workers : Announcing(v)' => (Announcing(v) /\ cur'[v] = cur[v])
        BY <2>1, <2>4 DEF Announcing, TypeOK
      <3> QED
        BY <2>1, <2>4, <3>1, LedgerFrame
    <2> QED
      BY <1>9, <2>3, <2>4 DEF Publish, Refill, Handling
  <1> QED
    BY <1>1, <1>2, <1>3, <1>4, <1>5, <1>6, <1>7, <1>8, <1>9 DEF Next, Handle

\* Only a database error leaves a committed photo pending: crashes, evictions
\* and storage, inference or broker errors never do.
THEOREM PendingExplained == Spec => []PendingOnlyAfterDbError
  <1>1. Init => LedgerInv
    BY DEF Init, LedgerInv, Ledger, SavedBefore, Announcing
  <1>2. ASSUME TypeOK, HandledBeforeCommitted, LedgerInv
        PROVE  PendingOnlyAfterDbError
    <2> SUFFICES ASSUME NEW o \in 1..committed, log[o].kind = "photo",
                        status[PhotoAt(o)] = "pending"
                 PROVE  outcomes[o] \cap {"savelost", "marklost"} # {}
      BY DEF PendingOnlyAfterDbError
    <2>1. o \in Offsets /\ outcomes[o] # {}
      BY <1>2, LogType DEF TypeOK, HandledBeforeCommitted
    <2> QED
      BY <1>2, <2>1 DEF LedgerInv, Ledger
  <1> QED
    BY <1>1, <1>2, StepLedger, Typed, NothingSkipped, PTL DEF Spec

-----------------------------------------------------------------------------
(* What a photo is compared with.                                          *)

\* What a worker has passed, what is committed and what a worker holds was
\* delivered, and messages are delivered in order.
DeliveredInv ==
    /\ \A w \in Workers : \A o \in 1..pos[w] : deliveries[o] >= 1
    /\ \A o \in 1..committed : deliveries[o] >= 1
    /\ \A w \in Workers : cur[w] # 0 => deliveries[cur[w]] >= 1
    /\ \A o \in Offsets : deliveries[o] >= 1 => \A i \in 1..o : deliveries[i] >= 1

\* While a worker holds a message that was delivered to nobody else, nobody is
\* past it: the next owner would start at or before it.
Solo(w) ==
    cur[w] # 0 /\ deliveries[cur[w]] = 1 =>
        /\ committed < cur[w]
        /\ \A v \in Workers \ {w} : pos[v] < cur[w] /\ cur[v] # cur[w]
        /\ \A o \in Offsets : o > cur[w] => deliveries[o] = 0

\* A message delivered once is in one pair of hands.
OrderInv == DeliveredInv /\ \A w \in Workers : Solo(w)

\* Before it saves, a worker that holds its message alone finds no analysis.
Fresh(w) ==
    pc[w] \in {"download", "previous", "infer", "save"} /\ deliveries[cur[w]] = 1
        => analysis[Photo(w)] = None

\* What a worker compares with, as BaselineIsEarlier says it of what is saved.
Compared(w) ==
    baseline[w] # None =>
        /\ pc[w] \notin {"idle", "down", "download", "previous"}
        /\ CartOf[baseline[w]] = CartOf[Photo(w)]
        /\ baseline[w] < Photo(w) \/ deliveries[cur[w]] >= 2

\* A photo with an analysis was delivered; a fresh one has none.
ComparedInv ==
    /\ \A p \in Photos :
         analysis[p] # None =>
           \E o \in Offsets :
             log[o].kind = "photo" /\ PhotoAt(o) = p /\ deliveries[o] >= 1
    /\ \A w \in Workers : Fresh(w) /\ Compared(w)
    /\ BaselineIsEarlier

\* The shape of the steps, as far as the order of deliveries goes.
LEMMA OrderShapes ==
  ASSUME TypeOK, Busy, [Next]_vars
  PROVE  /\ log' = log
         /\ \/ /\ UNCHANGED <<pos, deliveries>>
               /\ \A v \in Workers : cur'[v] = cur[v] \/ cur'[v] = 0
               /\ \/ committed' = committed
                  \/ \E w \in Workers : cur'[w] = 0 /\ committed' = pos[w]
            \/ \E w \in Workers : Assign(w) \/ Fetch(w)
  <1> USE DEF group, local, db, events, history, Goto
  <1>1. CASE Evict \/ UNCHANGED vars
    BY <1>1 DEF Evict, vars
  <1>2. ASSUME NEW w \in Workers,
               Start(w) \/ Notice(w) \/ Crash(w) \/ Poisoned(w)
        PROVE  /\ log' = log /\ UNCHANGED <<pos, deliveries, committed>>
               /\ \A v \in Workers : cur'[v] = cur[v] \/ cur'[v] = 0
    BY <1>2 DEF Start, Notice, Crash, Poisoned, StopWorker, Forget, TypeOK
  <1>3. ASSUME NEW w \in Workers,
               \/ Download(w) \/ LoadPrevious(w) \/ Infer(w) \/ Save(w)
               \/ MarkFailed(w) \/ Publish(w) \/ Refill(w)
        PROVE  UNCHANGED <<log, pos, deliveries, committed, cur>>
    BY <1>3, MiddleStep
  <1>4. ASSUME NEW w \in Workers, Commit(w)
        PROVE  /\ log' = log /\ UNCHANGED <<pos, deliveries>>
               /\ \A v \in Workers : cur'[v] = cur[v] \/ cur'[v] = 0
               /\ committed' = committed \/ (cur'[w] = 0 /\ committed' = pos[w])
    BY <1>4 DEF Commit, Position, StopWorker, Forget, TypeOK
  <1>5. ASSUME NEW w \in Workers, Assign(w) \/ Fetch(w) PROVE log' = log
    BY <1>5 DEF Assign, Fetch
  <1> QED
    BY <1>1, <1>2, <1>3, <1>4, <1>5 DEF Next, Handle

\* Every step keeps OrderInv.
LEMMA StepOrder ==
  ASSUME TypeOK, Busy, TypeOK', OrderInv, [Next]_vars
  PROVE  OrderInv' /\ \A o \in Offsets : deliveries[o] <= deliveries'[o]
  <1> USE DEF group, local, db, events, history
  <1>0. /\ log' = log /\ Offsets' = Offsets /\ Offsets = 1..Len(log) /\ Len(log) \in Nat
        /\ committed \in 0..Len(log) /\ \A v \in Workers : pos[v] \in 0..Len(log)
        /\ \A o \in Offsets : deliveries[o] \in Nat
        /\ \A v \in Workers : cur[v] \in 0..Len(log)
    BY OrderShapes, LogType DEF TypeOK, Offsets
  <1>1. ASSUME UNCHANGED <<pos, deliveries>>,
               \A v \in Workers : cur'[v] = cur[v] \/ cur'[v] = 0,
               \/ committed' = committed
               \/ \E w \in Workers : cur'[w] = 0 /\ committed' = pos[w]
        PROVE  OrderInv' /\ \A o \in Offsets : deliveries[o] <= deliveries'[o]
    <2>1. DeliveredInv'
      BY <1>0, <1>1 DEF OrderInv, DeliveredInv
    <2>2. ASSUME NEW v \in Workers, cur'[v] # 0, deliveries'[cur'[v]] = 1
          PROVE  /\ committed' < cur'[v]
                 /\ \A u \in Workers \ {v} : pos'[u] < cur'[v] /\ cur'[u] # cur'[v]
                 /\ \A o \in Offsets : o > cur'[v] => deliveries'[o] = 0
      <3>1. cur'[v] = cur[v] /\ deliveries[cur[v]] = 1
        BY <1>1, <2>2
      <3>2. /\ committed < cur[v]
            /\ \A u \in Workers \ {v} : pos[u] < cur[v] /\ cur[u] # cur[v]
            /\ \A o \in Offsets : o > cur[v] => deliveries[o] = 0
        BY <2>2, <3>1 DEF OrderInv, Solo
      <3>3. committed' < cur[v]
        <4>1. CASE committed' = committed
          BY <3>2, <4>1
        <4>2. CASE committed' # committed
          <5>1. PICK w \in Workers : cur'[w] = 0 /\ committed' = pos[w]
            BY <1>1, <4>2
          <5>2. w # v
            BY <2>2, <5>1
          <5> QED
            BY <3>2, <5>1, <5>2
        <4> QED
          BY <4>1, <4>2
      <3> QED
        BY <1>1, <2>2, <3>1, <3>2, <3>3
    <2> QED
      BY <1>0, <1>1, <2>1, <2>2 DEF OrderInv, Solo
  <1>2. ASSUME NEW w \in Workers, Assign(w)
        PROVE  OrderInv' /\ \A o \in Offsets : deliveries[o] <= deliveries'[o]
    <2>1. /\ UNCHANGED <<committed, cur, deliveries>>
          /\ \A v \in Workers : pos'[v] = IF v = w THEN committed ELSE pos[v]
      BY <1>2 DEF Assign, TypeOK
    <2>2. DeliveredInv'
      BY <1>0, <2>1 DEF OrderInv, DeliveredInv
    <2>3. \A v \in Workers : Solo(v)'
      BY <1>0, <2>1 DEF OrderInv, Solo
    <2> QED
      BY <1>0, <2>1, <2>2, <2>3 DEF OrderInv
  <1>3. ASSUME NEW w \in Workers, Fetch(w)
        PROVE  OrderInv' /\ \A o \in Offsets : deliveries[o] <= deliveries'[o]
    <2> DEFINE k == pos[w] + 1
    <2>1. /\ UNCHANGED committed /\ k \in Offsets
          /\ \A v \in Workers : /\ pos'[v] = IF v = w THEN k ELSE pos[v]
                                /\ cur'[v] = IF v = w THEN k ELSE cur[v]
          /\ \A o \in Offsets : deliveries'[o] = IF o = k THEN deliveries[k] + 1 ELSE deliveries[o]
      BY <1>3 DEF Fetch, TypeOK
    <2>2. \A o \in 1..pos[w] : deliveries[o] >= 1
      BY DEF OrderInv, DeliveredInv
    <2>3. pos[w] \in Nat /\ k \in Nat \ {0} /\ \A o \in 1..k : o \in 1..pos[w] \/ o = k
      BY <1>0
    <2>k. pos[w] < k
      BY <2>3
    <2> HIDE DEF k
    <2>4. \A o \in Offsets : deliveries'[o] \in Nat /\ deliveries[o] <= deliveries'[o]
      BY <1>0, <2>1
    <2>5. \A o \in 1..k : o \in Offsets /\ deliveries'[o] >= 1
      <3>1. \A o \in 1..k : o \in Offsets
        BY <1>0, <2>1
      <3>2. deliveries'[k] >= 1
        BY <1>0, <2>1
      <3>3. \A o \in 1..pos[w] : o \in Offsets /\ deliveries'[o] >= 1
        BY <1>0, <2>2, <2>4
      <3> QED
        BY <2>3, <3>1, <3>2, <3>3
    <2>6. DeliveredInv'
      <3>1. \A v \in Workers : \A o \in 1..pos'[v] : deliveries'[o] >= 1
        <4> SUFFICES ASSUME NEW v \in Workers, NEW o \in 1..pos'[v] PROVE deliveries'[o] >= 1
          OBVIOUS
        <4>1. CASE v = w
          BY <2>1, <2>5, <4>1
        <4>2. CASE v # w
          <5>1. o \in 1..pos[v] /\ o \in Offsets
            BY <1>0, <2>1, <4>2
          <5>2. deliveries[o] >= 1
            BY <5>1 DEF OrderInv, DeliveredInv
          <5> QED
            BY <1>0, <2>4, <5>1, <5>2
        <4> QED
          BY <4>1, <4>2
      <3>2. \A o \in 1..committed' : deliveries'[o] >= 1
        <4> SUFFICES ASSUME NEW o \in 1..committed PROVE deliveries'[o] >= 1
          BY <2>1
        <4>1. o \in Offsets /\ deliveries[o] >= 1
          BY <1>0 DEF OrderInv, DeliveredInv
        <4> QED
          BY <1>0, <2>4, <4>1
      <3>3. \A v \in Workers : cur'[v] # 0 => deliveries'[cur'[v]] >= 1
        <4> SUFFICES ASSUME NEW v \in Workers, cur'[v] # 0 PROVE deliveries'[cur'[v]] >= 1
          OBVIOUS
        <4>1. CASE v = w
          BY <2>1, <2>5, <2>3, <4>1
        <4>2. CASE v # w
          <5>1. cur'[v] = cur[v] /\ cur[v] \in Offsets
            BY <1>0, <2>1, <4>2
          <5>2. deliveries[cur[v]] >= 1
            BY <5>1 DEF OrderInv, DeliveredInv
          <5> QED
            BY <1>0, <2>4, <5>1, <5>2
        <4> QED
          BY <4>1, <4>2
      <3>4. ASSUME NEW o \in Offsets, deliveries'[o] >= 1, NEW i \in 1..o
            PROVE  deliveries'[i] >= 1
        <4>1. CASE o = k
          BY <2>5, <3>4, <4>1
        <4>2. CASE o # k
          <5>1. deliveries[o] >= 1 /\ i \in Offsets
            BY <1>0, <2>1, <3>4, <4>2
          <5>2. deliveries[i] >= 1
            BY <5>1 DEF OrderInv, DeliveredInv
          <5> QED
            BY <1>0, <2>4, <5>1, <5>2
        <4> QED
          BY <4>1, <4>2
      <3> QED
        BY <1>0, <3>1, <3>2, <3>3, <3>4 DEF DeliveredInv
    <2>7. ASSUME NEW v \in Workers, cur'[v] # 0, deliveries'[cur'[v]] = 1
          PROVE  /\ committed' < cur'[v]
                 /\ \A u \in Workers \ {v} : pos'[u] < cur'[v] /\ cur'[u] # cur'[v]
                 /\ \A o \in Offsets : o > cur'[v] => deliveries'[o] = 0
      <3>1. CASE v = w
        <4>1. cur'[v] = k /\ deliveries[k] = 0
          BY <1>0, <2>1, <2>7, <3>1
        <4>2. committed < k
          <5>1. k \notin 1..committed
            BY <4>1 DEF OrderInv, DeliveredInv
          <5> QED
            BY <1>0, <2>3, <5>1
        <4>3. ASSUME NEW u \in Workers \ {v} PROVE pos[u] < k /\ cur[u] # k
          <5>1. k \notin 1..pos[u]
            BY <4>1 DEF OrderInv, DeliveredInv
          <5>2. cur[u] # 0 => cur[u] # k
            BY <4>1 DEF OrderInv, DeliveredInv
          <5> QED
            BY <1>0, <2>3, <5>1, <5>2
        <4>4. ASSUME NEW o \in Offsets, o > k PROVE deliveries'[o] = 0
          <5>1. k \in 1..o /\ o # k
            BY <1>0, <2>3, <4>4
          <5>2. ~(deliveries[o] >= 1)
            BY <4>1, <5>1 DEF OrderInv, DeliveredInv
          <5> QED
            BY <1>0, <2>1, <5>1, <5>2
        <4> QED
          BY <2>1, <3>1, <4>1, <4>2, <4>3, <4>4
      <3>2. CASE v # w
        <4>1. cur'[v] = cur[v] /\ cur[v] \in Offsets
          BY <1>0, <2>1, <2>7, <3>2
        <4>2. cur[v] # k /\ deliveries[cur[v]] = 1
          <5>1. deliveries[cur[v]] >= 1
            BY <2>7, <4>1 DEF OrderInv, DeliveredInv
          <5> QED
            BY <1>0, <2>1, <2>7, <4>1, <5>1
        <4>3. /\ committed < cur[v]
              /\ \A u \in Workers \ {v} : pos[u] < cur[v] /\ cur[u] # cur[v]
              /\ \A o \in Offsets : o > cur[v] => deliveries[o] = 0
          BY <2>7, <4>1, <4>2 DEF OrderInv, Solo
        <4>4. k < cur[v]
          <5>1. pos[w] < cur[v] /\ pos[w] \in Nat /\ cur[v] \in Nat
            BY <1>0, <3>2, <4>3
          <5> QED
            BY <4>2, <5>1 DEF k
        <4>5. \A o \in Offsets : o > cur[v] => deliveries'[o] = 0
          BY <1>0, <2>1, <2>3, <4>3, <4>4
        <4> QED
          BY <2>1, <3>2, <4>1, <4>2, <4>3, <4>4, <4>5
      <3> QED
        BY <3>1, <3>2
    <2> QED
      BY <1>0, <2>4, <2>6, <2>7 DEF OrderInv, Solo
  <1> QED
    BY <1>1, <1>2, <1>3, OrderShapes

\* The order of deliveries, in every state.
LEMMA OrderInvariant == Spec => [](TypeOK /\ Busy /\ OrderInv)
  <1>1. ASSUME Init PROVE OrderInv
    <2>1. /\ committed = 0
          /\ \A w \in Workers : pos[w] = 0 /\ cur[w] = 0
          /\ \A o \in Offsets : deliveries[o] = 0
      BY <1>1 DEF Init
    <2> QED
      BY <2>1 DEF OrderInv, DeliveredInv, Solo
  <1>2. TypeOK /\ Busy /\ TypeOK' /\ OrderInv /\ [Next]_vars => OrderInv'
    BY StepOrder
  <1> QED
    BY <1>1, <1>2, Typed, PTL DEF Spec

\* In a partition that is in order, a cart's photo has one message, and those
\* before it are of earlier photos.
LEMMA InOrderOffsets ==
  ASSUME TypeOK, InOrder, NEW i \in Offsets, NEW j \in Offsets,
         log[i].kind = "photo", log[j].kind = "photo",
         CartOf[PhotoAt(i)] = CartOf[PhotoAt(j)]
  PROVE  /\ i < j => PhotoAt(i) < PhotoAt(j)
         /\ PhotoAt(i) = PhotoAt(j) => i = j
  <1>1. log \in Logs /\ i \in Nat /\ j \in Nat /\ i \in DOMAIN log /\ j \in DOMAIN log
    BY LogType DEF TypeOK, Offsets
  <1>2. PhotoAt(i) \in Nat /\ PhotoAt(j) \in Nat
    BY LogType, PhotosAssumption DEF PhotoAt, Message
  <1>3. /\ i < j => PhotoAt(i) < PhotoAt(j)
        /\ j < i => PhotoAt(j) < PhotoAt(i)
    BY <1>1 DEF InOrder, PhotoAt
  <1> QED
    BY <1>1, <1>2, <1>3

\* An analysis belongs to a message that was delivered; while it is written, what
\* it says of its baseline is true.
LEMMA StepCompared ==
  ASSUME InOrder, TypeOK, Busy, TypeOK', OrderInv, ComparedInv, [Next]_vars
  PROVE  ComparedInv'
  <1> USE DEF group, local, db, events, history, Goto
  <1>0. /\ log' = log /\ Offsets' = Offsets /\ Offsets = 1..Len(log) /\ Len(log) \in Nat
        /\ \A o \in Offsets : /\ deliveries[o] \in Nat /\ deliveries'[o] \in Nat
                              /\ deliveries[o] <= deliveries'[o]
                              /\ PhotoAt(o)' = PhotoAt(o)
                              /\ log[o].kind = "photo" => PhotoAt(o) \in Photos
    <2>1. log' = log /\ \A o \in Offsets : deliveries[o] <= deliveries'[o]
      BY OrderShapes, StepOrder
    <2>2. Offsets' = Offsets
      BY <2>1 DEF Offsets
    <2>3. \A o \in Offsets : deliveries[o] \in Nat /\ deliveries'[o] \in Nat
      BY <2>2 DEF TypeOK
    <2> QED
      BY <2>1, <2>2, <2>3, LogType DEF PhotoAt, Message
  <1>h. \A v \in Workers : pc[v] \in Handling => /\ cur[v] \in Offsets
                                                 /\ log[cur[v]].kind = "photo"
                                                 /\ Photo(v) \in Photos
    BY HandlingPhoto DEF Photo
  \* Deliveries only grow: what was said of two deliveries stays true.
  <1>1. ASSUME UNCHANGED analysis PROVE /\ \A p \in Photos :
                                             analysis'[p] # None =>
                                               \E o \in Offsets' :
                                                 /\ log'[o].kind = "photo" /\ PhotoAt(o)' = p
                                                 /\ deliveries'[o] >= 1
                                        /\ BaselineIsEarlier'
    <2>1. ASSUME NEW p \in Photos, analysis'[p] # None
          PROVE  \E o \in Offsets' :
                   log'[o].kind = "photo" /\ PhotoAt(o)' = p /\ deliveries'[o] >= 1
      <3>1. PICK o \in Offsets : log[o].kind = "photo" /\ PhotoAt(o) = p /\ deliveries[o] >= 1
        BY <1>1, <2>1 DEF ComparedInv
      <3> QED
        BY <1>0, <3>1
    <2>2. BaselineIsEarlier'
      BY <1>0, <1>1 DEF ComparedInv, BaselineIsEarlier
    <2> QED
      BY <2>1, <2>2
  <1>2. ASSUME UNCHANGED analysis, NEW v \in Workers, pc'[v] = pc[v], cur'[v] = cur[v],
               baseline'[v] = baseline[v]
        PROVE  Fresh(v)' /\ Compared(v)'
    <2>1. cur[v] \in Offsets \/ pc[v] \in {"idle", "down"}
      BY DEF Busy, BusyWorker, TypeOK, Handling
    <2>2. CASE pc[v] \in {"idle", "down"}
      BY <1>2, <2>2 DEF ComparedInv, Fresh, Compared
    <2>3. CASE cur[v] \in Offsets
      <3>1. Photo(v)' = Photo(v)
        BY <1>0, <1>2, <2>3 DEF Photo, PhotoAt
      <3>2. Compared(v)'
        BY <1>0, <1>2, <2>3, <3>1 DEF ComparedInv, Compared
      <3>3. ASSUME pc[v] \in {"download", "previous", "infer", "save"}, deliveries'[cur[v]] = 1
            PROVE  analysis'[Photo(v)] = None
        <4>1. deliveries[cur[v]] = 1
          <5>1. cur[v] # 0
            BY <1>0, <2>3
          <5>2. deliveries[cur[v]] >= 1
            BY <5>1 DEF OrderInv, DeliveredInv
          <5> QED
            BY <1>0, <2>3, <3>3, <5>2
        <4> QED
          BY <1>2, <3>3, <4>1 DEF ComparedInv, Fresh
      <3> QED
        BY <1>2, <3>1, <3>2, <3>3 DEF Fresh
    <2> QED
      BY <2>1, <2>2, <2>3
  \* A worker whose handler has ended compares with nothing.
  <1>3. ASSUME NEW v \in Workers, baseline'[v] = None,
               pc'[v] \notin {"download", "previous", "infer", "save"}
        PROVE  Fresh(v)' /\ Compared(v)'
    BY <1>3 DEF Fresh, Compared
  <1>4. CASE UNCHANGED vars
    BY <1>0, <1>1, <1>2, <1>4 DEF vars, ComparedInv
  <1>5. CASE Evict
    BY <1>0, <1>1, <1>2, <1>5 DEF Evict, ComparedInv
  <1>6. ASSUME NEW w \in Workers, Start(w) \/ Assign(w) \/ Notice(w) PROVE ComparedInv'
    <2>1. /\ UNCHANGED <<analysis, cur, baseline>>
          /\ \A v \in Workers : \/ pc'[v] = pc[v]
                                \/ pc[v] = "down" /\ pc'[v] = "idle"
      BY <1>6 DEF Start, Assign, Notice, TypeOK
    <2>2. \A v \in Workers : pc[v] = "down" => baseline[v] = None
      BY DEF ComparedInv, Compared
    <2>3. \A v \in Workers : Fresh(v)' /\ Compared(v)'
      BY <1>2, <1>3, <2>1, <2>2
    <2> QED
      BY <1>0, <1>1, <2>1, <2>3 DEF ComparedInv
  <1>7. ASSUME NEW w \in Workers, Crash(w) \/ Poisoned(w) \/ Commit(w) PROVE ComparedInv'
    <2>1. /\ UNCHANGED analysis /\ baseline'[w] = None /\ pc'[w] \in {"idle", "down"}
          /\ \A v \in Workers \ {w} :
               pc'[v] = pc[v] /\ cur'[v] = cur[v] /\ baseline'[v] = baseline[v]
      BY <1>7 DEF Crash, Poisoned, Commit, StopWorker, Forget, TypeOK
    <2>2. \A v \in Workers : Fresh(v)' /\ Compared(v)'
      BY <1>2, <1>3, <2>1
    <2> QED
      BY <1>0, <1>1, <2>1, <2>2 DEF ComparedInv
  <1>8. ASSUME NEW w \in Workers, Fetch(w) PROVE ComparedInv'
    <2> DEFINE k == pos[w] + 1
    <2>1. /\ UNCHANGED <<analysis, baseline>> /\ pc[w] = "idle" /\ k \in Offsets
          /\ cur'[w] = k /\ deliveries'[k] = deliveries[k] + 1
          /\ \/ log[k].kind = "photo" /\ pc'[w] = "download"
             \/ pc'[w] = "commit"
          /\ \A v \in Workers \ {w} : pc'[v] = pc[v] /\ cur'[v] = cur[v]
      <3>1. \/ log[k].kind = "photo" /\ pc' = [pc EXCEPT ![w] = "download"]
            \/ pc' = [pc EXCEPT ![w] = "commit"]
        BY <1>8 DEF Fetch
      <3> QED
        BY <1>8, <3>1 DEF Fetch, TypeOK
    <2> HIDE DEF k
    <2>2. baseline'[w] = None
      BY <2>1 DEF ComparedInv, Compared
    <2>3. ASSUME pc'[w] = "download", deliveries'[k] = 1 PROVE analysis[PhotoAt(k)] = None
      <3>1. log[k].kind = "photo" /\ deliveries[k] = 0 /\ PhotoAt(k) \in Photos
        BY <1>0, <2>1, <2>3
      <3>2. ASSUME analysis[PhotoAt(k)] # None PROVE FALSE
        <4>1. PICK o \in Offsets :
                log[o].kind = "photo" /\ PhotoAt(o) = PhotoAt(k) /\ deliveries[o] >= 1
          BY <3>1, <3>2 DEF ComparedInv
        <4>2. o = k
          BY <2>1, <3>1, <4>1, InOrderOffsets
        <4> QED
          BY <3>1, <4>1, <4>2
      <3> QED
        BY <3>2
    <2>4. Fresh(w)' /\ Compared(w)'
      <3>1. Photo(w)' = PhotoAt(k)
        BY <1>0, <2>1 DEF Photo, PhotoAt
      <3> QED
        BY <2>1, <2>2, <2>3, <3>1 DEF Fresh, Compared
    <2>5. \A v \in Workers : Fresh(v)' /\ Compared(v)'
      BY <1>2, <2>1, <2>4
    <2> QED
      BY <1>0, <1>1, <2>1, <2>5 DEF ComparedInv
  \* Steps of a handler that leave its baseline and the analyses alone.
  <1>9. ASSUME NEW w \in Workers, UNCHANGED <<analysis, cur, baseline, deliveries>>,
               pc[w] \in Handling, pc'[w] \notin {"idle", "down", "download"},
               pc'[w] \in {"previous", "infer", "save"} =>
                 pc[w] \in {"download", "previous", "infer", "save"},
               pc'[w] = "previous" => pc[w] = "download",
               \A v \in Workers \ {w} : pc'[v] = pc[v]
        PROVE  ComparedInv'
    <2>1. Photo(w)' = Photo(w)
      BY <1>0, <1>9 DEF Photo, PhotoAt
    <2>2. Fresh(w)' /\ Compared(w)'
      BY <1>9, <2>1 DEF ComparedInv, Fresh, Compared
    <2>3. \A v \in Workers : Fresh(v)' /\ Compared(v)'
      BY <1>2, <1>9, <2>2
    <2> QED
      BY <1>0, <1>1, <1>9, <2>3 DEF ComparedInv
  <1>10. ASSUME NEW w \in Workers, Download(w) \/ Infer(w) PROVE ComparedInv'
    <2>1. /\ UNCHANGED <<analysis, cur, baseline, deliveries>>
          /\ \/ pc[w] = "download" /\ pc'[w] \in {"previous", "markfailed"}
             \/ pc[w] = "infer" /\ pc'[w] \in {"save", "markfailed"}
          /\ \A v \in Workers \ {w} : pc'[v] = pc[v]
      BY <1>10 DEF Download, Infer, TypeOK
    <2> QED
      BY <1>9, <2>1 DEF Handling
  <1>11. ASSUME NEW w \in Workers, MarkFailed(w) \/ Publish(w) \/ Refill(w) PROVE ComparedInv'
    <2>1. /\ UNCHANGED <<analysis, cur, baseline, deliveries>>
          /\ pc[w] \in {"markfailed", "publish", "refill"} /\ pc'[w] \in {"refill", "commit"}
          /\ \A v \in Workers \ {w} : pc'[v] = pc[v]
      BY <1>11 DEF MarkFailed, Publish, Refill, Return, TypeOK
    <2> QED
      BY <1>9, <2>1 DEF Handling
  <1>12. ASSUME NEW w \in Workers, LoadPrevious(w) PROVE ComparedInv'
    <2> DEFINE p == Photo(w)
    <2>1. /\ UNCHANGED <<analysis, cur, deliveries, status>>
          /\ pc[w] = "previous" /\ pc'[w] = "infer"
          /\ baseline'[w] \in {Previous(p), None}
          /\ \A v \in Workers \ {w} : pc'[v] = pc[v] /\ baseline'[v] = baseline[v]
      BY <1>12 DEF LoadPrevious, Photo, TypeOK
    <2>2. cur[w] \in Offsets /\ log[cur[w]].kind = "photo" /\ p \in Photos
      BY <1>h, <2>1 DEF Handling
    <2>3. ASSUME NEW q \in Candidates(p) PROVE q < p \/ deliveries[cur[w]] >= 2
      <3>1. q \in Photos /\ CartOf[q] = CartOf[p] /\ analysis[q] # None
        BY DEF Candidates
      <3>2. deliveries[cur[w]] >= 1 /\ cur[w] # 0
        BY <1>0, <2>2 DEF OrderInv, DeliveredInv
      <3>3. CASE deliveries[cur[w]] = 1
        <4>1. PICK o \in Offsets : log[o].kind = "photo" /\ PhotoAt(o) = q /\ deliveries[o] >= 1
          BY <3>1 DEF ComparedInv
        <4>2. ~(o > cur[w])
          BY <3>2, <3>3, <4>1 DEF OrderInv, Solo
        <4>3. analysis[p] = None
          BY <2>1, <3>3 DEF ComparedInv, Fresh
        <4>4. o # cur[w]
          BY <3>1, <4>1, <4>3 DEF Photo
        <4>5. o < cur[w]
          BY <1>0, <2>2, <4>2, <4>4
        <4>6. PhotoAt(cur[w]) = p
          BY DEF Photo
        <4> HIDE DEF p
        <4> QED
          BY <2>2, <3>1, <4>1, <4>5, <4>6, InOrderOffsets
      <3> QED
        BY <1>0, <2>2, <3>2, <3>3
    <2>4. baseline'[w] # None => baseline'[w] \in Candidates(p)
      <3>1. Previous(p) # None => Previous(p) \in Candidates(p)
        BY DEF Previous
      <3> QED
        BY <2>1, <3>1
    <2>5. Photo(w)' = p
      BY <1>0, <2>1 DEF Photo, PhotoAt
    <2>6. Compared(w)'
      <3>1. \A q \in Candidates(p) : CartOf[q] = CartOf[p]
        BY DEF Candidates
      <3> HIDE DEF p
      <3> QED
        BY <2>1, <2>3, <2>4, <2>5, <3>1 DEF Compared
    <2>7. Fresh(w)'
      BY <2>1, <2>5 DEF ComparedInv, Fresh
    <2>8. \A v \in Workers : Fresh(v)' /\ Compared(v)'
      BY <1>2, <2>1, <2>6, <2>7
    <2> QED
      BY <1>0, <1>1, <2>1, <2>8 DEF ComparedInv
  <1>13. ASSUME NEW w \in Workers, Save(w) PROVE ComparedInv'
    <2> DEFINE p == Photo(w)
    <2>1. /\ UNCHANGED <<cur, deliveries, baseline>>
          /\ pc[w] = "save" /\ pc'[w] \in {"publish", "commit"}
          /\ UNCHANGED analysis \/ WriteAnalysis(w, p)
          /\ \A v \in Workers \ {w} : pc'[v] = pc[v]
      BY <1>13 DEF Save, Return, Photo, TypeOK
    <2>2. CASE UNCHANGED analysis
      BY <1>9, <2>1, <2>2 DEF Handling
    <2>3. CASE WriteAnalysis(w, p)
      <3>1. cur[w] \in Offsets /\ log[cur[w]].kind = "photo" /\ p \in Photos /\ PhotoAt(cur[w]) = p
        BY <1>h, <2>1 DEF Handling, Photo
      <3>2. /\ analysis[p] = None /\ analysis'[p] # None
            /\ analysis'[p].baseline = baseline[w]
            /\ \A q \in Photos \ {p} : analysis'[q] = analysis[q]
        BY <2>3, <3>1, CountsAssumption DEF WriteAnalysis, TypeOK, Analysis
      <3>3. deliveries[cur[w]] >= 1 /\ cur[w] # 0
        BY <1>0, <3>1 DEF OrderInv, DeliveredInv
      <3>4. baseline[w] # None => /\ CartOf[baseline[w]] = CartOf[p]
                                  /\ baseline[w] < p \/ deliveries[cur[w]] >= 2
        BY DEF ComparedInv, Compared
      <3> HIDE DEF p
      <3>5. ASSUME NEW q \in Photos, analysis'[q] # None
            PROVE  \E o \in Offsets' :
                     log'[o].kind = "photo" /\ PhotoAt(o)' = q /\ deliveries'[o] >= 1
        <4>1. CASE q = p
          BY <1>0, <2>1, <3>1, <3>3, <4>1
        <4>2. CASE q # p
          <5>1. PICK o \in Offsets :
                  log[o].kind = "photo" /\ PhotoAt(o) = q /\ deliveries[o] >= 1
            BY <3>2, <3>5, <4>2 DEF ComparedInv
          <5> QED
            BY <1>0, <2>1, <5>1
        <4> QED
          BY <4>1, <4>2
      <3>6. BaselineIsEarlier'
        <4> SUFFICES ASSUME NEW o \in Offsets, log[o].kind = "photo",
                            analysis'[PhotoAt(o)] # None, analysis'[PhotoAt(o)].baseline # None
                     PROVE  LET q == analysis'[PhotoAt(o)].baseline IN
                            /\ CartOf[q] = CartOf[PhotoAt(o)]
                            /\ q < PhotoAt(o) \/ deliveries[o] >= 2
          BY <1>0, <2>1 DEF BaselineIsEarlier
        <4>1. CASE PhotoAt(o) = p
          <5>1. o = cur[w]
            BY <3>1, <4>1, InOrderOffsets
          <5> QED
            BY <3>2, <3>4, <4>1, <5>1
        <4>2. CASE PhotoAt(o) # p
          <5>1. analysis'[PhotoAt(o)] = analysis[PhotoAt(o)]
            BY <1>0, <3>2, <4>2
          <5> QED
            BY <5>1 DEF ComparedInv, BaselineIsEarlier
        <4> QED
          BY <4>1, <4>2
      <3>7. \A v \in Workers : Photo(v)' = Photo(v)
        BY <1>0, <2>1 DEF Photo, PhotoAt
      <3>8. ASSUME NEW v \in Workers PROVE Compared(v)'
        BY <2>1, <3>7 DEF ComparedInv, Compared
      <3>9. ASSUME NEW v \in Workers PROVE Fresh(v)'
        <4>1. CASE v = w
          BY <2>1, <4>1 DEF Fresh
        <4>2. CASE v # w
          <5> SUFFICES ASSUME pc[v] \in {"download", "previous", "infer", "save"},
                              deliveries[cur[v]] = 1
                       PROVE  analysis'[Photo(v)] = None
            BY <2>1, <3>7, <4>2 DEF Fresh
          <5>1. /\ cur[v] \in Offsets /\ log[cur[v]].kind = "photo" /\ Photo(v) \in Photos
                /\ PhotoAt(cur[v]) = Photo(v)
            BY <1>h DEF Handling, Photo
          <5>2. cur[v] # cur[w]
            BY <1>0, <4>2, <5>1 DEF OrderInv, Solo
          <5>3. Photo(v) # p
            BY <3>1, <5>1, <5>2, InOrderOffsets
          <5>4. analysis[Photo(v)] = None
            BY DEF ComparedInv, Fresh
          <5> QED
            BY <3>2, <5>1, <5>3, <5>4
        <4> QED
          BY <4>1, <4>2
      <3> QED
        BY <1>0, <3>5, <3>6, <3>8, <3>9 DEF ComparedInv
    <2> QED
      BY <2>1, <2>2, <2>3
  <1> QED
    BY <1>4, <1>5, <1>6, <1>7, <1>8, <1>10, <1>11, <1>12, <1>13 DEF Next, Handle

\* When the events of a cart arrive in the order of its photos, a photo is
\* compared with an earlier one of the same cart, unless it was delivered more
\* than once (_get_previous_counts).
THEOREM ComparedWithEarlier == InOrder => (Spec => []BaselineIsEarlier)
  <1> SUFFICES ASSUME InOrder PROVE Spec => []BaselineIsEarlier
    OBVIOUS
  <1>1. ASSUME Init PROVE ComparedInv
    <2>1. /\ \A p \in Photos : analysis[p] = None
          /\ \A w \in Workers : pc[w] = "down" /\ baseline[w] = None
      BY <1>1 DEF Init
    <2>2. \A o \in Offsets : log[o].kind = "photo" => PhotoAt(o) \in Photos
      <3>1. log \in Seq(Message)
        BY <1>1, LogsAssumption DEF Init
      <3> SUFFICES ASSUME NEW o \in Offsets PROVE log[o].photo \in Photos
        BY DEF PhotoAt
      <3>2. log[o] \in Message
        BY <3>1 DEF Offsets
      <3> QED
        BY <3>2 DEF Message
    <2> QED
      BY <2>1, <2>2 DEF ComparedInv, Fresh, Compared, BaselineIsEarlier
  <1>2. TypeOK /\ Busy /\ TypeOK' /\ OrderInv /\ ComparedInv /\ [Next]_vars => ComparedInv'
    BY StepCompared
  <1>3. ComparedInv => BaselineIsEarlier
    BY DEF ComparedInv
  <1> QED
    BY <1>1, <1>2, <1>3, OrderInvariant, PTL DEF Spec
=============================================================================
