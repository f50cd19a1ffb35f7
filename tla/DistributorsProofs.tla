------------------------- MODULE DistributorsProofs -------------------------
(***************************************************************************)
(* Proofs about Distributors, for any requests, identification numbers,    *)
(* updates and bounds.                                                     *)
(*                                                                         *)
(* What an open transaction has written is what its request asked for      *)
(* (PatchInv), and a row that is being created is nobody else's (JobInv).  *)
(* The uniqueness of GSTINs rests on the locks: the number that an open    *)
(* transaction holds is in no other row and no other open transaction      *)
(* (KeysInv), which is what the flush checks and waits for.  A published   *)
(* creation that is not stored stands before its commit (AnnouncedInv).    *)
(***************************************************************************)
EXTENDS Distributors, TLAPS

\* A handler at work, and one whose row is written and not committed.
Active(h) == pc[h] # "idle"
Writing(h) == pc[h] \in {"publish", "commit"}

\* What is written and not committed is what the request asked for.
PatchInv == patch = [h \in Handlers |-> IF Writing(h) THEN Changes(h) ELSE NoPatch]

\* A row that is being created is new, and is of one handler.
CreationInv(h) ==
    /\ rows[job[h].id] = Absent
    /\ job[h].want.status = "ONBOARDING"
    /\ \A k \in Handlers : Active(k) /\ k # h => job[k].id # job[h].id

\* What a handler knows of its row.
JobInv ==
    \A h \in Handlers : Active(h) =>
        /\ job[h].task = "create" => CreationInv(h)
        /\ job[h].task # "create" => job[h].id \in Stored /\ job[h].read \in Row
        /\ job[h].task = "update" /\ pc[h] \in {"write", "commit"} =>
              Accepts(job[h].want, job[h].read)
        /\ pc[h] = "carts" => job[h].task = "delete"
        /\ pc[h] = "publish" => job[h].task = "create"

\* The number that an open transaction holds is held nowhere else.
KeysInv ==
    /\ GstinUnique
    /\ \A h, k \in Handlers, g \in Gstins :
          Gives(patch[h], g) /\ Gives(patch[k], g) => h = k
    /\ \A h \in Handlers, j \in Stored :
          Writing(h) /\ j # job[h].id => ~Gives(patch[h], rows[j].gstin)

\* What was announced is stored, has failed, or stands before its commit.
AnnouncedInv ==
    \A i \in announced :
        \/ i \in Stored
        \/ i \in failed
        \/ \E h \in Handlers : pc[h] = "commit" /\ job[h].id = i

\* The inductive invariant.
IInv == TypeOK /\ PatchInv /\ JobInv /\ KeysInv /\ AnnouncedInv

USE BoundsAssumption, WantsAssumption, ValuesAssumption

-----------------------------------------------------------------------------
(* What a request has written.                                             *)

\* A patch sets columns to values of their types; that of a creation is a row.
LEMMA ChangesType ==
    ASSUME NEW h \in Handlers, job[h] \in Job,
           job[h].task = "create" => job[h].want.status = "ONBOARDING",
           job[h].task # "create" => job[h].read \in Row
    PROVE  /\ DOMAIN Changes(h) \subseteq {"gstin", "status", "deleted"}
           /\ "gstin" \in DOMAIN Changes(h) => Changes(h)["gstin"] \in Gstins \cup {Null}
           /\ "status" \in DOMAIN Changes(h) => Changes(h)["status"] \in Statuses
           /\ "deleted" \in DOMAIN Changes(h) => Changes(h)["deleted"] \in BOOLEAN
           /\ job[h].task = "create" => Changes(h) \in Row
           /\ job[h].task # "create" /\ "deleted" \in DOMAIN Changes(h) => Changes(h)["deleted"]
           /\ job[h].task = "update" /\ "status" \in DOMAIN Changes(h) =>
                 /\ Changes(h)["status"] = job[h].want.status
                 /\ job[h].want.status \notin {Null, job[h].read.status}
           /\ job[h].task = "delete" => "status" \notin DOMAIN Changes(h)
<1> DEFINE w == job[h].want
           r == job[h].read
<1>1. w \in Want /\ job[h].task \in {"create", "update", "delete"}
  BY DEF Job
<1>2. CASE job[h].task = "create"
  <2>1. Changes(h) = [gstin |-> w.gstin, status |-> w.status, deleted |-> FALSE]
    BY <1>2 DEF Changes
  <2> QED
    BY <1>1, <1>2, <2>1 DEF Want, Row, Statuses
<1>3. CASE job[h].task = "update"
  <2>1. Changes(h) = [c \in {c \in {"gstin", "status"} : w[c] \notin {Null, r[c]}} |-> w[c]]
    BY <1>3 DEF Changes
  <2> QED
    BY <1>1, <1>3, <2>1 DEF Want
<1>4. CASE job[h].task = "delete"
  <2>1. Changes(h) = [c \in {"deleted"} |-> TRUE]
    BY <1>4 DEF Changes
  <2> QED
    BY <1>4, <2>1
<1> QED
  BY <1>1, <1>2, <1>3, <1>4

\* The commit of h writes its patch onto the row as it is by then.
LEMMA AppliedRow ==
    ASSUME IInv, NEW h \in Handlers, pc[h] = "commit", rows' = Applied(h),
           NEW i, i = job[h].id
    PROVE  /\ rows' \in [Ids -> Row \cup {Absent}]
           /\ \A j \in Ids : j # i => rows'[j] = rows[j]
           /\ i \in Ids /\ rows'[i] \in Row
           /\ rows[i] = Absent => rows'[i] = Changes(h) /\ "gstin" \in DOMAIN Changes(h)
           /\ rows[i] # Absent => \A c \in {"gstin", "status", "deleted"} :
                rows'[i][c] = IF c \in DOMAIN Changes(h) THEN Changes(h)[c] ELSE rows[i][c]
<1>1. /\ job[h] \in Job /\ i \in Ids
      /\ rows \in [Ids -> Row \cup {Absent}]
      /\ patch[h] = Changes(h)
  BY DEF IInv, TypeOK, PatchInv, Writing, Job
<1>2. /\ job[h].task = "create" => job[h].want.status = "ONBOARDING" /\ rows[i] = Absent
      /\ job[h].task # "create" => job[h].read \in Row /\ i \in Stored
  BY DEF IInv, JobInv, CreationInv, Active
<1>3. CASE rows[i] = Absent
  <2>1. job[h].task = "create"
    BY <1>2, <1>3 DEF Stored
  <2>2. Changes(h) \in Row
    BY <1>1, <1>2, <2>1, ChangesType
  <2>3. rows' = [rows EXCEPT ![i] = Changes(h)]
    BY <1>1, <1>3 DEF Applied
  <2>4. "gstin" \in DOMAIN Changes(h)
    BY <2>2 DEF Row
  <2> QED
    BY <1>1, <1>3, <2>2, <2>3, <2>4
<1>4. CASE rows[i] # Absent
  <2> DEFINE new == [c \in DOMAIN rows[i] |->
                       IF c \in DOMAIN Changes(h) THEN Changes(h)[c] ELSE rows[i][c]]
  <2>1. rows[i] \in Row /\ DOMAIN rows[i] = {"gstin", "status", "deleted"}
    BY <1>1, <1>4 DEF Row
  <2>2. job[h].read \in Row /\ job[h].task # "create"
    BY <1>2, <1>4
  <2>3. /\ "gstin" \in DOMAIN Changes(h) => Changes(h)["gstin"] \in Gstins \cup {Null}
        /\ "status" \in DOMAIN Changes(h) => Changes(h)["status"] \in Statuses
        /\ "deleted" \in DOMAIN Changes(h) => Changes(h)["deleted"] \in BOOLEAN
    BY <1>1, <2>2, ChangesType
  <2>4. new \in Row
    <3> HIDE DEF Changes
    <3> QED
      BY <2>1, <2>3 DEF Row
  <2>5. rows' = [rows EXCEPT ![i] = new]
    BY <1>1, <1>4 DEF Applied
  <2> QED
    BY <1>1, <1>4, <2>1, <2>4, <2>5
<1> QED
  BY <1>3, <1>4

-----------------------------------------------------------------------------
(* The ways in which requests move.                                        *)

\* A transaction that ends, stored or not, leaves the others as they were.
LEMMA EndStep ==
    ASSUME IInv, NEW h \in Handlers, Active(h), End(h),
           announced' = announced, failed' \in SUBSET Ids, failed \subseteq failed',
           faults' \in 0..MaxFaults,
           \/ rows' = rows /\ (pc[h] = "commit" => {job[h].id} \cap announced \subseteq failed')
           \/ rows' = Applied(h) /\ pc[h] = "commit"
    PROVE  IInv'
<1> DEFINE i == job[h].id
<1>1. /\ pc' = [pc EXCEPT ![h] = "idle"]
      /\ job' = [job EXCEPT ![h] = NoJob]
      /\ patch' = [patch EXCEPT ![h] = NoPatch]
  BY DEF End
<1>2. /\ pc'[h] = "idle" /\ job'[h] = NoJob /\ patch'[h] = NoPatch
      /\ \A k \in Handlers : k # h => pc'[k] = pc[k] /\ job'[k] = job[k] /\ patch'[k] = patch[k]
      /\ pc' \in [Handlers -> {"idle", "gstin", "carts", "write", "publish", "commit"}]
      /\ job' \in [Handlers -> Job \cup {NoJob}]
  BY <1>1 DEF IInv, TypeOK, PatchInv
<1>3. job[h] \in Job /\ i \in Ids
  BY DEF IInv, TypeOK, Active, Job
<1>4. PatchInv'
  <2>1. \A k \in Handlers : k # h => Writing(k)' = Writing(k) /\ Changes(k)' = Changes(k)
    BY <1>2 DEF Writing, Changes
  <2>2. ~Writing(h)'
    BY <1>2 DEF Writing
  <2> QED
    BY <1>1, <1>2, <2>1, <2>2 DEF IInv, PatchInv
<1>5. \A j \in Ids : rows'[j] = rows[j] \/ (j = i /\ pc[h] = "commit" /\ rows'[j] \in Row)
  BY <1>3, AppliedRow
<1>6. /\ rows' \in [Ids -> Row \cup {Absent}]
      /\ \A j \in Stored : j \in Stored'
  <2>1. CASE rows' = rows
    BY <2>1 DEF IInv, TypeOK, Stored
  <2>2. CASE rows' = Applied(h) /\ pc[h] = "commit"
    BY <2>2, <1>3, <1>5, AppliedRow DEF Stored
  <2> QED
    BY <2>1, <2>2
<1>7. TypeOK'
  <2>1. DOMAIN NoPatch = {}
    BY DEF NoPatch
  <2>2. \A k \in Handlers :
          /\ (pc'[k] = "idle") = (job'[k] = NoJob)
          /\ patch'[k] # NoPatch => pc'[k] \in {"publish", "commit"}
          /\ DOMAIN patch'[k] \subseteq {"gstin", "status", "deleted"}
    BY <1>2, <2>1 DEF IInv, TypeOK
  <2>3. \A k, l \in Handlers :
          patch'[k] # NoPatch /\ patch'[l] # NoPatch /\ job'[k].id = job'[l].id => k = l
    BY <1>2 DEF IInv, TypeOK
  <2> QED
    BY <1>2, <1>6, <2>2, <2>3 DEF IInv, TypeOK
<1>8. JobInv'
  <2> SUFFICES ASSUME NEW k \in Handlers, k # h, Active(k)
               PROVE  /\ job[k].task = "create" => CreationInv(k)'
                      /\ job[k].task # "create" => job[k].id \in Stored' /\ job[k].read \in Row
                      /\ job[k].task = "update" /\ pc[k] \in {"write", "commit"} =>
                            Accepts(job[k].want, job[k].read)
                      /\ pc[k] = "carts" => job[k].task = "delete"
                      /\ pc[k] = "publish" => job[k].task = "create"
    BY <1>2 DEF JobInv, Active
  <2>1. job[k].task = "create" => CreationInv(k)'
    <3> SUFFICES ASSUME job[k].task = "create" PROVE CreationInv(k)'
      OBVIOUS
    <3>1. CreationInv(k)
      BY DEF IInv, JobInv
    <3>2. job[k] \in Job /\ job[k].id \in Ids
      BY DEF IInv, TypeOK, Active, Job
    <3>3. job[k].id # i
      BY <3>1 DEF CreationInv
    <3>4. rows'[job[k].id] = Absent
      BY <1>5, <3>1, <3>2, <3>3 DEF CreationInv
    <3>5. \A l \in Handlers : Active(l)' => Active(l) /\ job'[l] = job[l]
      BY <1>2 DEF Active
    <3> QED
      BY <1>2, <3>1, <3>4, <3>5 DEF CreationInv
  <2> QED
    BY <1>6, <2>1 DEF IInv, JobInv
<1>9. KeysInv'
  <2>1. \A k \in Handlers, g \in Gstins : Gives(patch'[k], g) => k # h /\ Gives(patch[k], g)
    BY <1>2 DEF Gives, NoPatch
  <2>2. \A k, l \in Handlers, g \in Gstins :
          Gives(patch'[k], g) /\ Gives(patch'[l], g) => k = l
    BY <2>1 DEF IInv, KeysInv
  <2>3. CASE rows' = rows
    BY <1>2, <2>2, <2>3 DEF IInv, KeysInv, GstinUnique, Gives, NoPatch, Stored, Writing
  <2>4. CASE rows' = Applied(h) /\ pc[h] = "commit"
    <3>1. \/ rows'[i].gstin = Null
          \/ Gives(patch[h], rows'[i].gstin)
          \/ i \in Stored /\ rows'[i].gstin = rows[i].gstin
      <4>1. patch[h] = Changes(h)
        BY <2>4 DEF IInv, PatchInv, Writing
      <4>2. rows'[i]["gstin"] =
              IF "gstin" \in DOMAIN patch[h] THEN patch[h]["gstin"] ELSE rows[i]["gstin"]
        BY <2>4, <4>1, AppliedRow
      <4>3. rows[i] = Absent => "gstin" \in DOMAIN patch[h]
        BY <2>4, <4>1, AppliedRow
      <4> QED
        BY <1>3, <4>2, <4>3 DEF Gives, Stored
    <3>2. \A j \in Stored' : j # i => j \in Stored /\ rows'[j] = rows[j]
      BY <1>5, <1>3 DEF Stored
    <3>3. \A j \in Stored : j # i /\ rows[j].gstin # Null => rows'[i].gstin # rows[j].gstin
      BY <1>3, <2>4, <3>1 DEF IInv, KeysInv, GstinUnique, Writing
    <3>4. GstinUnique'
      BY <3>2, <3>3, <1>6 DEF IInv, KeysInv, GstinUnique
    <3>5. ASSUME NEW k \in Handlers, NEW j \in Stored', Writing(k)', j # job'[k].id
          PROVE  ~Gives(patch'[k], rows'[j].gstin)
      <4>1. k # h /\ Writing(k) /\ patch'[k] = patch[k] /\ j # job[k].id
        BY <1>2, <3>5 DEF Writing
      <4>2. CASE j # i
        BY <3>2, <4>1, <4>2 DEF IInv, KeysInv
      <4>3. CASE j = i
        <5>1. rows'[i].gstin \in Gstins \cup {Null}
          BY <2>4, AppliedRow DEF Row
        <5>2. Gives(patch[k], rows'[i].gstin) => rows'[i].gstin \in Gstins
          BY <5>1 DEF Gives
        <5>3. ~(Gives(patch[h], rows'[i].gstin) /\ Gives(patch[k], rows'[i].gstin))
          BY <4>1, <5>2 DEF IInv, KeysInv
        <5>4. i \in Stored => ~Gives(patch[k], rows[i].gstin)
          BY <4>1, <4>3 DEF IInv, KeysInv
        <5> QED
          BY <3>1, <4>1, <4>3, <5>3, <5>4 DEF Gives
      <4> QED
        BY <4>2, <4>3
    <3> QED
      BY <2>2, <3>4, <3>5 DEF KeysInv
  <2> QED
    BY <2>3, <2>4
<1>10. AnnouncedInv'
  <2> SUFFICES ASSUME NEW j \in announced
               PROVE  \/ j \in Stored'
                      \/ j \in failed'
                      \/ \E k \in Handlers : pc'[k] = "commit" /\ job'[k].id = j
    BY DEF AnnouncedInv
  <2>1. CASE j \in Stored \cup failed
    BY <1>6, <2>1
  <2>2. CASE \E k \in Handlers : pc[k] = "commit" /\ job[k].id = j
    <3>1. PICK k \in Handlers : pc[k] = "commit" /\ job[k].id = j
      BY <2>2
    <3>2. CASE k # h
      BY <1>2, <3>1, <3>2
    <3>3. CASE k = h
      <4>1. rows' = Applied(h) => j \in Stored'
        BY <1>3, <3>1, <3>3, AppliedRow DEF Stored
      <4> QED
        BY <3>1, <3>3, <4>1
    <3> QED
      BY <3>2, <3>3
  <2> QED
    BY <2>1, <2>2 DEF IInv, AnnouncedInv
<1> QED
  BY <1>4, <1>7, <1>8, <1>9, <1>10 DEF IInv

\* A request begins with a row that it may create, or one that it has read.
LEMMA BeginStep ==
    ASSUME IInv, NEW h \in Handlers, NEW task \in {"create", "update", "delete"},
           NEW i \in Ids, NEW want \in Want, NEW next \in {"gstin", "carts", "write"},
           Begin(h, task, i, want, next),
           task = "create" => Fresh(i) /\ want.status = "ONBOARDING",
           task # "create" => i \in Stored,
           next = "carts" => task = "delete",
           task = "update" /\ next = "write" => Accepts(want, rows[i])
    PROVE  IInv'
<1> DEFINE J == [task |-> task, id |-> i, want |-> want, read |-> rows[i]]
<1>1. /\ pc[h] = "idle"
      /\ pc' = [pc EXCEPT ![h] = next]
      /\ job' = [job EXCEPT ![h] = J]
      /\ UNCHANGED <<rows, announced, patch, failed, faults>>
  BY DEF Begin, Goto
<1>2. J \in Job /\ (task # "create" => rows[i] \in Row)
  BY DEF IInv, TypeOK, Job, Stored
<1>3. /\ pc'[h] = next /\ job'[h] = J
      /\ \A k \in Handlers : k # h => pc'[k] = pc[k] /\ job'[k] = job[k]
      /\ pc' \in [Handlers -> {"idle", "gstin", "carts", "write", "publish", "commit"}]
      /\ job' \in [Handlers -> Job \cup {NoJob}]
  BY <1>1, <1>2 DEF IInv, TypeOK
<1>4. PatchInv'
  <2>1. \A k \in Handlers : k # h => Writing(k)' = Writing(k) /\ Changes(k)' = Changes(k)
    BY <1>3 DEF Writing, Changes
  <2>2. ~Writing(h)' /\ ~Writing(h)
    BY <1>1, <1>3 DEF Writing
  <2> QED
    BY <1>1, <2>1, <2>2 DEF IInv, PatchInv
<1>5. TypeOK'
  <2>1. patch[h] = NoPatch
    BY <1>1 DEF IInv, TypeOK
  <2>2. \A k \in Handlers :
          /\ (pc'[k] = "idle") = (job'[k] = NoJob)
          /\ patch'[k] # NoPatch => pc'[k] \in {"publish", "commit"}
          /\ DOMAIN patch'[k] \subseteq {"gstin", "status", "deleted"}
    BY <1>1, <1>2, <1>3, <2>1 DEF IInv, TypeOK
  <2>3. \A k, l \in Handlers :
          patch'[k] # NoPatch /\ patch'[l] # NoPatch /\ job'[k].id = job'[l].id => k = l
    BY <1>1, <1>3, <2>1 DEF IInv, TypeOK
  <2> QED
    BY <1>1, <1>3, <2>2, <2>3 DEF IInv, TypeOK
<1>6. JobInv'
  <2>1. \A k \in Handlers : Active(k) /\ job[k].task = "create" => job[k].id # i
    BY DEF IInv, JobInv, CreationInv, Fresh, Stored, Working, Active
  <2>2. ASSUME NEW k \in Handlers, k # h, Active(k)', job[k].task = "create"
        PROVE  CreationInv(k)'
    <3>1. Active(k) /\ CreationInv(k)
      BY <1>3, <2>2 DEF Active, IInv, JobInv
    <3> QED
      BY <1>1, <1>3, <2>1, <2>2, <3>1 DEF CreationInv, Active
  <2>3. task = "create" => CreationInv(h)'
    BY <1>1, <1>3 DEF CreationInv, Fresh, Working, Stored, Active
  <2>4. ASSUME NEW k \in Handlers, k # h, Active(k)'
        PROVE  /\ job'[k].task = "create" => CreationInv(k)'
               /\ job'[k].task # "create" => job'[k].id \in Stored' /\ job'[k].read \in Row
               /\ job'[k].task = "update" /\ pc'[k] \in {"write", "commit"} =>
                     Accepts(job'[k].want, job'[k].read)
               /\ pc'[k] = "carts" => job'[k].task = "delete"
               /\ pc'[k] = "publish" => job'[k].task = "create"
    BY <1>1, <1>3, <2>2, <2>4 DEF IInv, JobInv, Active, Stored
  <2>5. /\ J.task # "create" => J.id \in Stored' /\ J.read \in Row
        /\ J.task = "update" /\ next = "write" => Accepts(J.want, J.read)
    BY <1>1, <1>2 DEF Stored
  <2> QED
    BY <1>3, <2>3, <2>4, <2>5 DEF JobInv
<1>7. KeysInv'
  BY <1>1, <1>3 DEF IInv, KeysInv, GstinUnique, Stored, Writing
<1>8. AnnouncedInv'
  BY <1>1, <1>3 DEF IInv, AnnouncedInv, Stored
<1> QED
  BY <1>4, <1>5, <1>6, <1>7, <1>8 DEF IInv

\* A check that passes moves its handler on to the write.
LEMMA PassStep ==
    ASSUME IInv, NEW h \in Handlers, pc[h] \in {"gstin", "carts"}, Goto(h, pc[h], "write"),
           job[h].task = "update" => Accepts(job[h].want, job[h].read),
           UNCHANGED <<rows, announced, job, patch, failed, faults>>
    PROVE  IInv'
<1>1. /\ pc'[h] = "write" /\ \A k \in Handlers : k # h => pc'[k] = pc[k]
      /\ pc' \in [Handlers -> {"idle", "gstin", "carts", "write", "publish", "commit"}]
  BY DEF Goto, IInv, TypeOK
<1>2. \A k \in Handlers : Writing(k)' = Writing(k) /\ Changes(k)' = Changes(k) /\ Active(k)' = Active(k)
  BY <1>1 DEF Writing, Changes, Active
<1>3. PatchInv'
  BY <1>2 DEF IInv, PatchInv
<1>4. TypeOK'
  BY <1>1 DEF IInv, TypeOK
<1>5. JobInv'
  BY <1>1, <1>2 DEF IInv, JobInv, CreationInv, Active, Stored
<1>6. KeysInv'
  BY <1>2 DEF IInv, KeysInv, GstinUnique, Stored
<1>7. AnnouncedInv'
  BY <1>1 DEF IInv, AnnouncedInv, Stored
<1> QED
  BY <1>3, <1>4, <1>5, <1>6, <1>7 DEF IInv

-----------------------------------------------------------------------------
(* The invariant.                                                          *)

\* A flush that neither waits nor clashes holds a number that nobody else holds.
LEMMA WriteStep == ASSUME IInv, NEW h \in Handlers, Write(h) PROVE IInv'
<1>1. pc[h] = "write" /\ ~Waits(h) /\ UNCHANGED <<rows, announced, failed, faults>>
  BY DEF Write
<1>2. CASE Clashes(h) # {}
  BY <1>1, <1>2, EndStep DEF Write, Active, IInv, TypeOK
<1>3. CASE Clashes(h) = {}
  <2>1. /\ pc' = [pc EXCEPT ![h] = AfterWrite(h)]
        /\ patch' = [patch EXCEPT ![h] = Changes(h)]
        /\ UNCHANGED job
    BY <1>1, <1>3 DEF Write, Goto
  <2>2. /\ AfterWrite(h) \in {"publish", "commit"}
        /\ AfterWrite(h) = "publish" => job[h].task = "create"
    BY DEF AfterWrite
  <2>3. /\ pc'[h] = AfterWrite(h) /\ patch'[h] = Changes(h) /\ patch[h] = NoPatch
        /\ \A k \in Handlers : k # h => pc'[k] = pc[k] /\ patch'[k] = patch[k]
        /\ pc' \in [Handlers -> {"idle", "gstin", "carts", "write", "publish", "commit"}]
    BY <1>1, <2>1, <2>2 DEF IInv, TypeOK, PatchInv
  <2>4. job[h] \in Job /\ Active(h)
    BY <1>1 DEF IInv, TypeOK, Active
  <2>5. DOMAIN Changes(h) \subseteq {"gstin", "status", "deleted"}
    BY <2>4, ChangesType DEF IInv, JobInv, CreationInv
  <2>6. \A k \in Handlers : k # h /\ Changes(h) # NoPatch /\ patch[k] # NoPatch =>
          /\ job[k].id # job[h].id
          /\ \A g \in Gstins : ~(Gives(patch[k], g) /\ Gives(Changes(h), g))
    BY <1>1 DEF Waits
  <2>7. \A g \in Gstins, k \in Handlers :
          /\ Gives(Changes(h), g) => Changes(h) # NoPatch
          /\ Gives(patch[k], g) => patch[k] # NoPatch
    BY DEF Gives, NoPatch
  <2>8. PatchInv'
    <3>1. \A k \in Handlers : k # h => Writing(k)' = Writing(k) /\ Changes(k)' = Changes(k)
      BY <2>1, <2>3 DEF Writing, Changes
    <3>2. Writing(h)' /\ Changes(h)' = Changes(h)
      BY <2>1, <2>2, <2>3 DEF Writing, Changes
    <3> QED
      BY <2>1, <3>1, <3>2 DEF IInv, PatchInv
  <2>9. TypeOK'
    <3>1. \A k \in Handlers :
            /\ (pc'[k] = "idle") = (job'[k] = NoJob)
            /\ patch'[k] # NoPatch => pc'[k] \in {"publish", "commit"}
            /\ DOMAIN patch'[k] \subseteq {"gstin", "status", "deleted"}
      BY <1>1, <2>1, <2>2, <2>3, <2>5 DEF IInv, TypeOK
    <3>2. \A k, l \in Handlers :
            patch'[k] # NoPatch /\ patch'[l] # NoPatch /\ job'[k].id = job'[l].id => k = l
      BY <2>1, <2>3, <2>6 DEF IInv, TypeOK
    <3> QED
      BY <1>1, <2>1, <2>3, <3>1, <3>2 DEF IInv, TypeOK
  <2>10. JobInv'
    <3>1. \A k \in Handlers : Active(k)' = Active(k)
      BY <1>1, <2>2, <2>3 DEF Active
    <3>2. \A k \in Handlers : CreationInv(k) => CreationInv(k)'
      BY <1>1, <2>1, <3>1 DEF CreationInv
    <3> QED
      BY <1>1, <2>1, <2>2, <2>3, <3>1, <3>2 DEF IInv, JobInv, Stored
  <2>11. KeysInv'
    <3>1. GstinUnique'
      BY <1>1 DEF IInv, KeysInv, GstinUnique, Stored
    <3>2. \A k, l \in Handlers, g \in Gstins :
            Gives(patch'[k], g) /\ Gives(patch'[l], g) => k = l
      BY <2>3, <2>6, <2>7 DEF IInv, KeysInv
    <3>3. \A j \in Stored : j # job[h].id => ~Gives(Changes(h), rows[j].gstin)
      BY <1>3 DEF Clashes
    <3>4. \A k \in Handlers, j \in Stored' :
            Writing(k)' /\ j # job'[k].id => ~Gives(patch'[k], rows'[j].gstin)
      BY <1>1, <2>1, <2>3, <3>3 DEF IInv, KeysInv, Writing, Stored
    <3> QED
      BY <3>1, <3>2, <3>4 DEF KeysInv
  <2>12. AnnouncedInv'
    BY <1>1, <2>1, <2>3 DEF IInv, AnnouncedInv, Stored
  <2> QED
    BY <2>8, <2>9, <2>10, <2>11, <2>12 DEF IInv
<1> QED
  BY <1>2, <1>3

\* IInv holds in every state of every behaviour.
LEMMA InductiveInvariant == Spec => []IInv
<1>1. Init => IInv
  <2> SUFFICES ASSUME Init PROVE IInv
    OBVIOUS
  <2>1. /\ \A h \in Handlers : pc[h] = "idle" /\ job[h] = NoJob /\ patch[h] = NoPatch
        /\ \A i \in Ids : rows[i] = Absent
        /\ announced = {} /\ failed = {} /\ faults = 0
    BY DEF Init
  <2>2. DOMAIN NoPatch = {}
    BY DEF NoPatch
  <2>3. TypeOK
    BY <2>1, <2>2 DEF Init, TypeOK
  <2> QED
    BY <2>1, <2>2, <2>3 DEF Init, IInv, PatchInv, JobInv, KeysInv, GstinUnique, AnnouncedInv,
                            Stored, Active, Writing, Gives
<1>2. IInv /\ [Next]_vars => IInv'
  <2> SUFFICES ASSUME IInv, [Next]_vars PROVE IInv'
    OBVIOUS
  <2>1. ASSUME NEW h \in Handlers, NEW i \in Ids, NEW g \in Gstins \cup {Null}, Create(h, i, g)
        PROVE  IInv'
    <3>1. [gstin |-> g, status |-> "ONBOARDING"] \in Want
      BY DEF Want, Statuses
    <3> QED
      BY <2>1, <3>1, BeginStep DEF Create
  <2>2. ASSUME NEW h \in Handlers, NEW i \in Ids, NEW want \in Wants, Update(h, i, want)
        PROVE  IInv'
    BY <2>2, BeginStep DEF Update, Live
  <2>3. ASSUME NEW h \in Handlers, NEW i \in Ids, Delete(h, i) PROVE IInv'
    <3>1. Unwanted \in Want
      BY DEF Unwanted, Want
    <3> QED
      BY <2>3, <3>1, BeginStep DEF Delete, Live
  <2>4. ASSUME NEW h \in Handlers, CheckRequest(h) PROVE IInv'
    BY <2>4, EndStep, PassStep DEF CheckRequest, Active, IInv, TypeOK
  <2>5. ASSUME NEW h \in Handlers, CountCarts(h) PROVE IInv'
    <3>1. pc[h] = "carts" /\ Active(h) /\ job[h].task = "delete"
      BY <2>5 DEF CountCarts, Active, IInv, JobInv
    <3> QED
      BY <2>5, <3>1, EndStep, PassStep DEF CountCarts, IInv, TypeOK
  <2>6. ASSUME NEW h \in Handlers, Publish(h) PROVE IInv'
    <3>1. /\ pc[h] = "publish" /\ pc'[h] = "commit"
          /\ \A k \in Handlers : k # h => pc'[k] = pc[k]
          /\ pc' \in [Handlers -> {"idle", "gstin", "carts", "write", "publish", "commit"}]
          /\ announced' \in {announced, announced \cup {job[h].id}}
          /\ faults' \in 0..MaxFaults
          /\ UNCHANGED <<rows, job, patch, failed>>
      BY <2>6 DEF Publish, Goto, Spend, IInv, TypeOK
    <3>2. job[h].id \in Ids /\ job[h].task = "create"
      BY <3>1 DEF IInv, TypeOK, JobInv, Active, Job
    <3>3. \A k \in Handlers : /\ Writing(k)' = Writing(k)
                              /\ Active(k)' = Active(k)
                              /\ Changes(k)' = Changes(k)
      BY <3>1 DEF Writing, Active, Changes
    <3>4. PatchInv'
      BY <3>1, <3>3 DEF IInv, PatchInv
    <3>5. TypeOK'
      BY <3>1, <3>2 DEF IInv, TypeOK
    <3>6. JobInv'
      BY <3>1, <3>2, <3>3 DEF IInv, JobInv, CreationInv, Stored
    <3>7. KeysInv'
      BY <3>1, <3>3 DEF IInv, KeysInv, GstinUnique, Stored
    <3>8. AnnouncedInv'
      BY <3>1 DEF IInv, AnnouncedInv, Stored
    <3> QED
      BY <3>4, <3>5, <3>6, <3>7, <3>8 DEF IInv
  <2>7. ASSUME NEW h \in Handlers, Commit(h) PROVE IInv'
    BY <2>7, EndStep DEF Commit, Active, IInv, TypeOK
  <2>8. ASSUME NEW h \in Handlers, Fail(h) PROVE IInv'
    BY <2>8, EndStep DEF Fail, Spend, Active, IInv, TypeOK
  <2>9. CASE UNCHANGED vars
    <3>1. TypeOK'
      BY <2>9 DEF vars, IInv, TypeOK
    <3>2. PatchInv'
      BY <2>9 DEF vars, IInv, PatchInv, Writing, Changes
    <3>3. JobInv'
      BY <2>9 DEF vars, IInv, JobInv, CreationInv, Stored, Active
    <3>4. KeysInv' /\ AnnouncedInv'
      BY <2>9 DEF vars, IInv, KeysInv, GstinUnique, AnnouncedInv, Stored, Writing
    <3> QED
      BY <3>1, <3>2, <3>3, <3>4 DEF IInv
  <2> QED
    BY <2>1, <2>2, <2>3, <2>4, <2>5, <2>6, <2>7, <2>8, <2>9, WriteStep DEF Next, Handle
<1> QED
  BY <1>1, <1>2, PTL DEF Spec

-----------------------------------------------------------------------------
(* The properties.                                                         *)

\* Rows, jobs and patches keep their shape, and no two open transactions hold
\* one row.
THEOREM TypeCorrect == Spec => []TypeOK
<1>1. IInv => TypeOK
  BY DEF IInv
<1> QED
  BY <1>1, InductiveInvariant, PTL

\* No two stored distributors share a GSTIN, however creations and updates
\* overlap: what the check missed, the unique constraint and its locks refuse.
THEOREM GstinsUnique == Spec => []GstinUnique
<1>1. IInv => GstinUnique
  BY DEF IInv, KeysInv
<1> QED
  BY <1>1, InductiveInvariant, PTL

\* An announced distributor is stored, or on its way, or its creation failed.
THEOREM AnnouncementsExplained == Spec => []AnnouncedExplained
<1>1. IInv => AnnouncedExplained
  BY DEF IInv, AnnouncedInv, AnnouncedExplained, Working
<1> QED
  BY <1>1, InductiveInvariant, PTL

\* Rows change only when a transaction commits.
LEMMA RowsChange ==
    ASSUME IInv, [Next]_vars
    PROVE  \/ rows' = rows
           \/ \E h \in Handlers : /\ pc[h] = "commit" /\ pc'[h] = "idle"
                                  /\ rows' = Applied(h)
<1>1. ASSUME NEW h \in Handlers, Commit(h) \/ Fail(h), rows' # rows
      PROVE  pc[h] = "commit" /\ pc'[h] = "idle" /\ rows' = Applied(h)
  BY <1>1 DEF Commit, Fail, End, IInv, TypeOK
<1>2. ASSUME NEW h \in Handlers,
             CheckRequest(h) \/ CountCarts(h) \/ Write(h) \/ Publish(h)
      PROVE  rows' = rows
  BY <1>2 DEF CheckRequest, CountCarts, Write, Publish
<1>3. ASSUME NEW h \in Handlers, NEW i \in Ids,
             \/ \E g \in Gstins \cup {Null} : Create(h, i, g)
             \/ \E want \in Wants : Update(h, i, want)
             \/ Delete(h, i)
      PROVE  rows' = rows
  BY <1>3 DEF Create, Update, Delete, Begin
<1> QED
  BY <1>1, <1>2, <1>3 DEF Next, Handle, vars

\* A status changes to an invalid one only by a request that read another one:
\* the validation holds of what was read, and nothing repeats it at the commit.
THEOREM TransitionsExplained == Spec => TransitionExplained
<1>1. ASSUME IInv, [Next]_vars, NEW i \in Ids, StatusChanges(i),
             rows'[i].status \notin Targets(rows[i].status)
      PROVE  \E h \in Handlers : /\ pc[h] = "commit" /\ pc'[h] = "idle" /\ job[h].id = i
                                 /\ job[h].read.status # rows[i].status
  <2>1. PICK h \in Handlers : pc[h] = "commit" /\ pc'[h] = "idle" /\ rows' = Applied(h)
    BY <1>1, RowsChange DEF StatusChanges
  <2>2. job[h].id = i
    BY <1>1, <2>1, AppliedRow DEF StatusChanges
  <2>3. /\ "status" \in DOMAIN Changes(h)
        /\ rows'[i].status = Changes(h)["status"]
    BY <1>1, <2>1, <2>2, AppliedRow DEF StatusChanges, Stored
  <2>4. job[h] \in Job /\ job[h].task # "create" /\ job[h].read \in Row
    BY <1>1, <2>1, <2>2 DEF IInv, TypeOK, JobInv, CreationInv, Active, StatusChanges, Stored
  <2>5. /\ job[h].task = "update"
        /\ rows'[i].status = job[h].want.status /\ job[h].want.status # Null
    BY <2>3, <2>4, ChangesType DEF Job
  <2>6. job[h].want.status \in Targets(job[h].read.status)
    BY <1>1, <2>1, <2>5 DEF IInv, JobInv, Active, Accepts
  <2> QED
    BY <1>1, <2>1, <2>2, <2>5, <2>6
<1>2. IInv /\ [Next]_vars => [\A i \in Ids :
          StatusChanges(i) /\ rows'[i].status \notin Targets(rows[i].status) =>
              \E h \in Handlers :
                  /\ pc[h] = "commit" /\ pc'[h] = "idle" /\ job[h].id = i
                  /\ job[h].read.status # rows[i].status]_vars
  BY <1>1
<1> QED
  BY <1>2, InductiveInvariant, PTL DEF Spec, TransitionExplained

\* No request brings a deleted distributor back, or loses a row, whatever it had
\* read before it writes: an update writes no column that it did not change.
THEOREM DeletionsLast == Spec => DeletedStaysDeleted
<1>1. ASSUME IInv, [Next]_vars, NEW i \in Stored
      PROVE  rows'[i] # Absent /\ (rows[i].deleted => rows'[i].deleted)
  <2>1. CASE rows' = rows
    BY <2>1 DEF Stored
  <2>2. ASSUME NEW h \in Handlers, pc[h] = "commit", rows' = Applied(h) 
        PROVE  rows'[i] # Absent /\ (rows[i].deleted => rows'[i].deleted)
    <3>1. CASE job[h].id # i
      BY <1>1, <2>2, <3>1, AppliedRow DEF Stored
    <3>2. CASE job[h].id = i
      <4>1. job[h] \in Job /\ job[h].task # "create" /\ job[h].read \in Row
        BY <1>1, <2>2, <3>2 DEF IInv, TypeOK, JobInv, CreationInv, Active, Stored
      <4>2. "deleted" \in DOMAIN Changes(h) => Changes(h)["deleted"]
        BY <4>1, ChangesType
      <4> QED
        BY <1>1, <2>2, <3>2, <4>2, AppliedRow DEF Stored
    <3> QED
      BY <3>1, <3>2
  <2> QED
    BY <1>1, <2>1, <2>2, RowsChange
<1>2. IInv /\ [Next]_vars => [\A i \in Stored :
          /\ rows'[i] # Absent
          /\ rows[i].deleted => rows'[i].deleted]_vars
  BY <1>1
<1> QED
  BY <1>2, InductiveInvariant, PTL DEF Spec, DeletedStaysDeleted
=============================================================================
