-------------------------- MODULE DashboardProofs --------------------------
(***************************************************************************)
(* Proofs about Dashboard: that deployments are credited once, that the    *)
(* badge counts the feed, and that ingestions and the storyboard settle on *)
(* what was chosen last, for every seed, text, input and number of things  *)
(* that the operator does.                                                 *)
(*                                                                         *)
(* The timers are a sequence; what the invariants say of it is said of the *)
(* timers of one kind: what they are about, how many they are and which of *)
(* them is the last.                                                       *)
(***************************************************************************)
EXTENDS Dashboard, FiniteSetTheorems, SequenceTheorems, TLAPS

-----------------------------------------------------------------------------
(* The timers of a kind.                                                   *)

\* Their places in a sequence of timers, and what they are about.
Of(ts, kind) == {i \in DOMAIN ts : ts[i].kind = kind}
Subject(t) == <<t.what, t.num>>
SubjectsAt(ts, places) == {Subject(ts[i]) : i \in places}
Subjects(ts, kind) == SubjectsAt(ts, Of(ts, kind))

\* No two of them are about the same.
Single(ts, kind) ==
    \A i, j \in Of(ts, kind) : Subject(ts[i]) = Subject(ts[j]) => i = j

\* The last of them has a number and data.
EndsAt(ts, places, num, data) ==
    \E j \in places : /\ \A k \in places : k <= j
                      /\ ts[j].num = num /\ ts[j].data = data
Ends(ts, kind, num, data) == EndsAt(ts, Of(ts, kind), num, data)

\* Nothing has changed about the timers of a kind.
Kept(kind, ts, us) ==
    /\ Subjects(us, kind) = Subjects(ts, kind)
    /\ Single(ts, kind) => Single(us, kind)
    /\ \A num, data : Ends(ts, kind, num, data) => Ends(us, kind, num, data)
    /\ Cardinality(Of(us, kind)) = Cardinality(Of(ts, kind))

\* Timer t was set.
Appended(t, ts, us) ==
    /\ \A kind : kind # t.kind => Kept(kind, ts, us)
    /\ Subjects(us, t.kind) = Subjects(ts, t.kind) \cup {Subject(t)}
    /\ Single(ts, t.kind) /\ Subject(t) \notin Subjects(ts, t.kind) => Single(us, t.kind)
    /\ Ends(us, t.kind, t.num, t.data)
    /\ Cardinality(Of(us, t.kind)) = Cardinality(Of(ts, t.kind)) + 1

\* Timer t, the first of its kind, has fired.
Expired(t, ts, us) ==
    /\ \A kind : kind # t.kind => Kept(kind, ts, us)
    /\ Subjects(us, t.kind) \subseteq Subjects(ts, t.kind)
    /\ Single(ts, t.kind) =>
         /\ Single(us, t.kind)
         /\ Subjects(us, t.kind) = Subjects(ts, t.kind) \ {Subject(t)}
    /\ Subjects(us, t.kind) # {} =>
         \A num, data : Ends(ts, t.kind, num, data) => Ends(us, t.kind, num, data)
    /\ Subjects(us, t.kind) = {} =>
         \A num, data : Ends(ts, t.kind, num, data) => t.num = num /\ t.data = data
    /\ Cardinality(Of(us, t.kind)) = Cardinality(Of(ts, t.kind)) - 1

\* What an identifier, a section or a timer may be named.
Names ==
    Pages \cup {"", "stable", "ingest-act", "act-outage-reroute", "act-strain-markdown",
                "act-stadium-refill", "act-heat-alert", "act-default-align"}
Ids == Names \X Nat

\* A timer.
Timers ==
    {t \in [kind : DOMAIN Delay, wait : 0..6, what : Names \cup Ids, num : Nat, data : Seq(Cart)] :
       t.wait <= Delay[t.kind]}

-----------------------------------------------------------------------------

\* The timers of a kind can be counted.
LEMMA OfIsFinite ==
  ASSUME NEW ts \in Seq(Timers), NEW kind
  PROVE  IsFiniteSet(Of(ts, kind)) /\ Of(ts, kind) \subseteq 1..Len(ts)
         /\ Cardinality(Of(ts, kind)) \in Nat
<1>1. Of(ts, kind) \subseteq 1..Len(ts) /\ Len(ts) \in Nat
  BY DEF Of
<1>2. IsFiniteSet(1..Len(ts))
  BY <1>1, FS_Interval
<1> QED
  BY <1>1, <1>2, FS_Subset, FS_CardinalityType

\* The place of a timer when the one at i has left.
Place(k, i) == IF k < i THEN k ELSE k - 1

\* The timers of a kind in us are those at the places I in ts, moved.
Moves(ts, us, kind, I, i) ==
    /\ I \subseteq Of(ts, kind) /\ i \notin I
    /\ Of(us, kind) = {Place(k, i) : k \in I}
    /\ \A k \in I : /\ Subject(us[Place(k, i)]) = Subject(ts[k])
                    /\ us[Place(k, i)].data = ts[k].data

\* Timers that only move keep what is said of their kind.
LEMMA Moved ==
  ASSUME NEW ts \in Seq(Timers), NEW us \in Seq(Timers), NEW kind, NEW I, NEW i \in Nat,
         Moves(ts, us, kind, I, i)
  PROVE  /\ Subjects(us, kind) = SubjectsAt(ts, I)
         /\ Single(ts, kind) => Single(us, kind)
         /\ \A num, data : EndsAt(ts, I, num, data) => Ends(us, kind, num, data)
         /\ Cardinality(Of(us, kind)) = Cardinality(I)
<1> DEFINE f == [k \in I |-> Place(k, i)]
<1>1. I \subseteq 1..Len(ts) /\ I \subseteq Nat /\ IsFiniteSet(I)
  BY OfIsFinite, FS_Subset DEF Moves
<1>2. \A k, l \in I : /\ Place(k, i) \in Nat
                      /\ Place(k, i) <= Place(l, i) <=> k <= l
                      /\ Place(k, i) = Place(l, i) <=> k = l
  <2>1. \A k \in I : k \in Nat \ {0} /\ k # i
    BY <1>1 DEF Moves
  <2> QED
    BY <2>1 DEF Place
<1>3. Subjects(us, kind) = SubjectsAt(ts, I)
  BY DEF Subjects, SubjectsAt, Moves
<1>4. Single(ts, kind) => Single(us, kind)
  BY DEF Single, Moves
<1>5. ASSUME NEW num, NEW data, EndsAt(ts, I, num, data) PROVE Ends(us, kind, num, data)
  <2> PICK j \in I : /\ \A k \in I : k <= j
                     /\ ts[j].num = num /\ ts[j].data = data
    BY <1>5 DEF EndsAt
  <2>1. /\ Place(j, i) \in Of(us, kind) /\ \A l \in Of(us, kind) : l <= Place(j, i)
    BY <1>2 DEF Moves
  <2>2. us[Place(j, i)].num = num /\ us[Place(j, i)].data = data
    BY DEF Moves, Subject
  <2> QED
    BY <2>1, <2>2 DEF Ends, EndsAt
<1>6. f \in Bijection(I, Of(us, kind))
  BY <1>2 DEF Bijection, Injection, Surjection, IsInjective, Moves
<1>7. Cardinality(Of(us, kind)) = Cardinality(I)
  BY <1>1, <1>6, FS_Bijection DEF ExistsBijection
<1> QED
  BY <1>3, <1>4, <1>5, <1>7

\* The same timers, at the same places or moved, are kept.
LEMMA KeptIfMoved ==
  ASSUME NEW ts \in Seq(Timers), NEW us \in Seq(Timers), NEW kind, NEW i \in Nat,
         Moves(ts, us, kind, Of(ts, kind), i)
  PROVE  Kept(kind, ts, us)
BY Moved DEF Kept, Ends, Subjects

-----------------------------------------------------------------------------

\* Setting a timer.
LEMMA AppendTimer ==
  ASSUME NEW ts \in Seq(Timers), NEW t \in Timers
  PROVE  Append(ts, t) \in Seq(Timers) /\ Appended(t, ts, Append(ts, t))
<1> DEFINE us == Append(ts, t)
           n == Len(ts) + 1
<1>1. /\ us \in Seq(Timers) /\ DOMAIN us = 1..n /\ us[n] = t /\ n \in Nat \ {0}
      /\ DOMAIN ts = 1..(n-1) /\ \A i \in 1..(n-1) : us[i] = ts[i] /\ i # n
  OBVIOUS
<1> HIDE DEF us, n
<1>2. ASSUME NEW kind, kind # t.kind PROVE Kept(kind, ts, us)
  <2>1. Of(us, kind) = Of(ts, kind)
    BY <1>1, <1>2 DEF Of
  <2>2. \A k \in Of(ts, kind) : us[k] = ts[k] /\ Place(k, n) = k /\ k # n
    BY <1>1 DEF Of, Place
  <2>3. Moves(ts, us, kind, Of(ts, kind), n)
    BY <2>1, <2>2 DEF Moves
  <2> QED
    BY <1>1, <2>3, KeptIfMoved
<1>3. Of(us, t.kind) = Of(ts, t.kind) \cup {n} /\ n \notin Of(ts, t.kind)
  BY <1>1 DEF Of
<1>4. \A k \in Of(ts, t.kind) : us[k] = ts[k] /\ k <= n
  BY <1>1 DEF Of
<1>5. Subjects(us, t.kind) = Subjects(ts, t.kind) \cup {Subject(t)}
  BY <1>1, <1>3, <1>4 DEF Subjects, SubjectsAt
<1>6. Single(ts, t.kind) /\ Subject(t) \notin Subjects(ts, t.kind) => Single(us, t.kind)
  BY <1>1, <1>3, <1>4 DEF Single, Subjects, SubjectsAt
<1>7. Ends(us, t.kind, t.num, t.data)
  BY <1>1, <1>3, <1>4 DEF Ends, EndsAt
<1>8. Cardinality(Of(us, t.kind)) = Cardinality(Of(ts, t.kind)) + 1
  BY <1>3, OfIsFinite, FS_AddElement
<1> QED
  BY <1>1, <1>2, <1>5, <1>6, <1>7, <1>8 DEF us, Appended

\* What RemoveAt leaves of a sequence.
LEMMA Removed ==
  ASSUME NEW S, NEW s \in Seq(S), NEW i \in DOMAIN s
  PROVE  /\ RemoveAt(s, i) \in Seq(S) /\ Len(RemoveAt(s, i)) = Len(s) - 1
         /\ \A j \in 1..(Len(s) - 1) : RemoveAt(s, i)[j] = s[IF j < i THEN j ELSE j + 1]
<1> DEFINE n == Len(s)
           u == SubSeq(s, 1, i-1)
           v == SubSeq(s, i+1, n)
<1>1. i \in 1..n /\ n \in Nat
  OBVIOUS
<1>2. u \in Seq(S) /\ Len(u) = i - 1 /\ \A j \in 1..(i-1) : u[j] = s[j]
  BY <1>1, SubSeqProperties
<1>3. v \in Seq(S) /\ Len(v) = n - i /\ \A j \in 1..(n - i) : v[j] = s[i+j]
  <2>1. \A j \in (i+1)..n : s[j] \in S
    BY <1>1
  <2>2. /\ v \in Seq(S) /\ Len(v) = IF i+1 <= n THEN n - (i+1) + 1 ELSE 0
        /\ \A j \in 1..(n - (i+1) + 1) : v[j] = s[(i+1)+j-1]
    BY <1>1, <2>1, SubSeqProperties
  <2>3. n - (i+1) + 1 = n - i /\ (i+1 > n => n - i = 0)
    BY <1>1
  <2>4. \A j \in 1..(n - i) : (i+1)+j-1 = i+j
    BY <1>1
  <2> HIDE DEF n, v
  <2> QED
    BY <1>1, <2>2, <2>3, <2>4
<1>4. RemoveAt(s, i) = u \o v
  BY DEF RemoveAt
<1> HIDE DEF n, u, v
<1>5. /\ u \o v \in Seq(S) /\ Len(u \o v) = Len(u) + Len(v)
      /\ \A j \in 1..(Len(u) + Len(v)) :
           (u \o v)[j] = IF j <= Len(u) THEN u[j] ELSE v[j - Len(u)]
  BY <1>2, <1>3, ConcatProperties
<1>6. Len(u) + Len(v) = n - 1
  BY <1>1, <1>2, <1>3
<1>7. ASSUME NEW j \in 1..(n - 1) PROVE (u \o v)[j] = s[IF j < i THEN j ELSE j + 1]
  <2>1. CASE j < i
    BY <1>1, <1>2, <1>5, <1>6, <2>1
  <2>2. CASE ~(j < i)
    <3>1. (u \o v)[j] = v[j - (i - 1)]
      <4>1. j \in 1..(Len(u) + Len(v)) /\ ~(j <= Len(u)) /\ j - Len(u) = j - (i - 1)
        BY <1>1, <1>2, <1>6, <2>2
      <4> QED
        BY <1>5, <4>1
    <3>2. j - (i - 1) \in 1..(n - i) /\ i + (j - (i - 1)) = j + 1
      BY <1>1, <2>2
    <3>3. v[j - (i - 1)] = s[i + (j - (i - 1))]
      BY <1>3, <3>2
    <3> QED
      BY <2>2, <3>1, <3>2, <3>3
  <2> QED
    BY <2>1, <2>2
<1> QED
  BY <1>4, <1>5, <1>6, <1>7 DEF n

\* The first timer of a kind expires.
LEMMA ExpireTimer ==
  ASSUME NEW ts \in Seq(Timers), NEW i \in DOMAIN ts,
         \A j \in Of(ts, ts[i].kind) : i <= j
  PROVE  RemoveAt(ts, i) \in Seq(Timers) /\ Expired(ts[i], ts, RemoveAt(ts, i))
<1> DEFINE us == RemoveAt(ts, i)
           n == Len(ts)
           t == ts[i]
           I == Of(ts, t.kind) \ {i}
<1>1. /\ us \in Seq(Timers) /\ Len(us) = n - 1 /\ n \in Nat /\ i \in 1..n
      /\ \A j \in 1..(n - 1) : us[j] = ts[IF j < i THEN j ELSE j + 1]
  <2>1. i \in 1..Len(ts) /\ Len(ts) \in Nat
    OBVIOUS
  <2>2. /\ RemoveAt(ts, i) \in Seq(Timers) /\ Len(RemoveAt(ts, i)) = Len(ts) - 1
        /\ \A j \in 1..(Len(ts) - 1) : RemoveAt(ts, i)[j] = ts[IF j < i THEN j ELSE j + 1]
    BY Removed
  <2> QED
    BY <2>1, <2>2
<1> HIDE DEF us, n
<1>2. DOMAIN us = 1..(n - 1) /\ DOMAIN ts = 1..n
  BY <1>1 DEF n
<1>3. \A j \in 1..(n - 1) : \E k \in (1..n) \ {i} : j = Place(k, i) /\ us[j] = ts[k]
  <2> SUFFICES ASSUME NEW j \in 1..(n - 1)
               PROVE  \E k \in (1..n) \ {i} : j = Place(k, i) /\ us[j] = ts[k]
    OBVIOUS
  <2>1. CASE j < i
    BY <1>1, <2>1 DEF Place
  <2>2. CASE ~(j < i)
    <3>1. j + 1 \in (1..n) \ {i} /\ j = Place(j + 1, i)
      BY <1>1, <2>2 DEF Place
    <3> QED
      BY <1>1, <2>2, <3>1
  <2> QED
    BY <2>1, <2>2
<1>4. \A k \in (1..n) \ {i} : Place(k, i) \in 1..(n - 1) /\ us[Place(k, i)] = ts[k]
  <2> SUFFICES ASSUME NEW k \in (1..n) \ {i}
               PROVE  Place(k, i) \in 1..(n - 1) /\ us[Place(k, i)] = ts[k]
    OBVIOUS
  <2>1. CASE k < i
    BY <1>1, <2>1 DEF Place
  <2>2. CASE i < k
    <3>1. Place(k, i) = k - 1 /\ k - 1 \in 1..(n - 1) /\ ~(k - 1 < i) /\ (k - 1) + 1 = k
      BY <1>1, <2>2 DEF Place
    <3>2. us[k - 1] = ts[(k - 1) + 1]
      BY <1>1, <3>1
    <3> QED
      BY <3>1, <3>2
  <2> QED
    BY <1>1, <2>1, <2>2
<1>5. ASSUME NEW kind PROVE Moves(ts, us, kind, Of(ts, kind) \ {i}, i)
  <2>1. Of(us, kind) = {Place(k, i) : k \in Of(ts, kind) \ {i}}
    BY <1>2, <1>3, <1>4 DEF Of
  <2>2. \A k \in Of(ts, kind) \ {i} : us[Place(k, i)] = ts[k]
    BY <1>2, <1>4 DEF Of
  <2> QED
    BY <2>1, <2>2 DEF Moves
<1>6. ASSUME NEW kind, kind # t.kind PROVE Kept(kind, ts, us)
  <2>1. Of(ts, kind) \ {i} = Of(ts, kind)
    BY <1>6 DEF Of
  <2>2. Moves(ts, us, kind, Of(ts, kind), i)
    BY <1>5, <2>1
  <2> QED
    BY <1>1, <2>2, KeptIfMoved
<1>7. Moves(ts, us, t.kind, I, i) /\ i \in Of(ts, t.kind)
  BY <1>2, <1>5, <1>1 DEF Of
<1> HIDE DEF I
<1>8. /\ Subjects(us, t.kind) = SubjectsAt(ts, I)
      /\ Single(ts, t.kind) => Single(us, t.kind)
      /\ \A num, data : EndsAt(ts, I, num, data) => Ends(us, t.kind, num, data)
      /\ Cardinality(Of(us, t.kind)) = Cardinality(I)
  BY <1>1, <1>7, Moved
<1>9. Subjects(us, t.kind) \subseteq Subjects(ts, t.kind)
  BY <1>8 DEF Subjects, SubjectsAt, I
<1>10. ASSUME Single(ts, t.kind)
       PROVE  Subjects(us, t.kind) = Subjects(ts, t.kind) \ {Subject(t)}
  <2>1. \A k \in I : k \in Of(ts, t.kind) /\ Subject(ts[k]) # Subject(t)
    BY <1>7, <1>10 DEF I, Single
  <2>2. \A k \in Of(ts, t.kind) : k \in I \/ k = i
    BY DEF I
  <2> QED
    BY <1>8, <2>1, <2>2 DEF Subjects, SubjectsAt
<1>11. ASSUME Subjects(us, t.kind) # {}, NEW num, NEW data, Ends(ts, t.kind, num, data)
       PROVE  Ends(us, t.kind, num, data)
  <2>1. I # {} /\ I \subseteq Of(ts, t.kind) /\ Of(ts, t.kind) \subseteq Nat
    BY <1>8, <1>11, OfIsFinite DEF SubjectsAt, I
  <2>2. PICK j \in Of(ts, t.kind) : /\ \A k \in Of(ts, t.kind) : k <= j
                                    /\ ts[j].num = num /\ ts[j].data = data
    BY <1>11 DEF Ends, EndsAt
  <2>3. \A k \in I : i < k
    BY <1>1, <2>1 DEF I
  <2>4. j \in I
    BY <1>1, <2>1, <2>2, <2>3 DEF I
  <2>5. EndsAt(ts, I, num, data)
    BY <2>1, <2>2, <2>4 DEF EndsAt
  <2> QED
    BY <1>8, <2>5
<1>12. Cardinality(Of(us, t.kind)) = Cardinality(Of(ts, t.kind)) - 1
  BY <1>7, <1>8, OfIsFinite, FS_RemoveElement DEF I
<1>13. ASSUME Subjects(us, t.kind) = {}, NEW num, NEW data, Ends(ts, t.kind, num, data)
       PROVE  t.num = num /\ t.data = data
  <2>1. I = {}
    BY <1>8, <1>13 DEF SubjectsAt
  <2> QED
    BY <1>13, <2>1 DEF I, Ends, EndsAt
<1> QED
  BY <1>1, <1>6, <1>8, <1>9, <1>10, <1>11, <1>12, <1>13 DEF us, Expired

\* A timer that waits for another time is the same timer otherwise.
LEMMA OtherWait ==
  ASSUME NEW D, NEW W, NEW C, NEW w \in 0..6,
         NEW t \in [kind : D, wait : 0..6, what : W, num : Nat, data : C]
  PROVE  /\ [t EXCEPT !.wait = w] \in [kind : D, wait : 0..6, what : W, num : Nat, data : C]
         /\ [t EXCEPT !.wait = w].kind = t.kind /\ [t EXCEPT !.wait = w].what = t.what
         /\ [t EXCEPT !.wait = w].num = t.num /\ [t EXCEPT !.wait = w].data = t.data
         /\ [t EXCEPT !.wait = w].wait = w
OBVIOUS

\* Time passes and no timer fires.
LEMMA TickTimers ==
  ASSUME NEW ts \in Seq(Timers), \A i \in DOMAIN ts : ts[i].wait > 0,
         NEW us, us = [i \in DOMAIN ts |-> [ts[i] EXCEPT !.wait = @ - 1]]
  PROVE  us \in Seq(Timers) /\ \A kind : Kept(kind, ts, us)
<1> DEFINE n == Len(ts)
<1>1. n \in Nat /\ DOMAIN ts = 1..n
  OBVIOUS
<1>2. \A i \in 1..n : /\ us[i] \in Timers
                      /\ us[i].kind = ts[i].kind /\ Subject(us[i]) = Subject(ts[i])
                      /\ us[i].data = ts[i].data
  <2> SUFFICES ASSUME NEW i \in 1..n
               PROVE  /\ us[i] \in Timers
                      /\ us[i].kind = ts[i].kind /\ Subject(us[i]) = Subject(ts[i])
                      /\ us[i].data = ts[i].data
    OBVIOUS
  <2> DEFINE t == ts[i]
  <2>1. t \in Timers /\ t.wait > 0
    BY <1>1
  <2>2. us[i] = [t EXCEPT !.wait = t.wait - 1]
    BY <1>1
  <2>3. Delay[t.kind] \in Nat /\ t.wait \in 0..6 /\ t.wait <= Delay[t.kind]
    BY <2>1 DEF Timers, Delay
  <2>4. t.wait - 1 \in 0..6 /\ t.wait - 1 <= Delay[t.kind]
    BY <2>1, <2>3
  <2> HIDE DEF t
  <2>5. /\ us[i].kind = t.kind /\ us[i].what = t.what /\ us[i].num = t.num
        /\ us[i].data = t.data /\ us[i].wait = t.wait - 1
        /\ us[i] \in [kind : DOMAIN Delay, wait : 0..6, what : Names \cup Ids, num : Nat,
                      data : Seq(Cart)]
    <3>1. t \in [kind : DOMAIN Delay, wait : 0..6, what : Names \cup Ids, num : Nat,
                 data : Seq(Cart)]
      BY <2>1 DEF Timers
    <3> DEFINE u == [t EXCEPT !.wait = t.wait - 1]
    <3>2. /\ u.kind = t.kind /\ u.what = t.what /\ u.num = t.num
          /\ u.data = t.data /\ u.wait = t.wait - 1
          /\ u \in [kind : DOMAIN Delay, wait : 0..6, what : Names \cup Ids, num : Nat,
                   data : Seq(Cart)]
      BY <2>4, <3>1, OtherWait, Zenon
    <3> HIDE DEF u
    <3>3. us[i] = u
      BY <2>2 DEF u
    <3> QED
      BY <3>2, <3>3
  <2>6. us[i] \in Timers
    BY <2>4, <2>5 DEF Timers
  <2> QED
    BY <2>5, <2>6 DEF Subject, t
<1>3. us \in Seq(Timers) /\ DOMAIN us = 1..n
  BY <1>1, <1>2
<1>4. ASSUME NEW kind PROVE Moves(ts, us, kind, Of(ts, kind), n + 1)
  <2>1. Of(us, kind) = Of(ts, kind)
    BY <1>1, <1>2, <1>3 DEF Of
  <2>2. \A k \in Of(ts, kind) : Place(k, n + 1) = k /\ k # n + 1 /\ k \in 1..n
    BY <1>1 DEF Of, Place
  <2> QED
    BY <1>2, <2>1, <2>2 DEF Moves
<1>5. n + 1 \in Nat
  BY <1>1
<1> HIDE DEF n
<1>6. ASSUME NEW kind PROVE Kept(kind, ts, us)
  <2>1. Moves(ts, us, kind, Of(ts, kind), n + 1)
    BY <1>4
  <2> QED
    BY <1>3, <1>5, <2>1, KeptIfMoved
<1> QED
  BY <1>3, <1>6

-----------------------------------------------------------------------------
(* What is selected from a sequence.                                       *)

\* A nonempty set of naturals has a least element.
LEMMA Least ==
  ASSUME NEW T \in SUBSET Nat, T # {}
  PROVE  \E m \in T : \A x \in T : m <= x
<1>1. \E m \in T : \A x \in T : ~(<<x, m>> \in OpToRel(<, Nat))
  BY NatLessThanWellFounded, WFMin
<1>2. PICK m \in T : \A x \in T : ~(<<x, m>> \in OpToRel(<, Nat))
  BY <1>1
<1>3. \A x \in T : ~(x < m)
  BY <1>2 DEF OpToRel
<1> QED
  BY <1>3

\* The places up to i, and that they can be counted.
Upto(places, i) == {j \in places : j <= i}

LEMMA FiniteSubset ==
  ASSUME NEW n \in Nat, NEW places \in SUBSET (1..n)
  PROVE  IsFiniteSet(places) /\ Cardinality(places) \in Nat
<1>1. IsFiniteSet(1..n)
  BY FS_Interval
<1>2. IsFiniteSet(places)
  BY <1>1, FS_Subset
<1> QED
  BY <1>2, FS_CardinalityType

\* Some place has each rank.
LEMMA Ranked ==
  ASSUME NEW n \in Nat, NEW places \in SUBSET (1..n), NEW k \in 1..Cardinality(places)
  PROVE  \E i \in places : Cardinality(Upto(places, i)) = k
<1> DEFINE T == {i \in Nat : Cardinality(Upto(places, i)) >= k}
<1>1. IsFiniteSet(places) /\ Cardinality(places) \in Nat
  BY FiniteSubset
<1> HIDE DEF T
<1>2. \A i \in Nat : /\ IsFiniteSet(Upto(places, i)) /\ Cardinality(Upto(places, i)) \in Nat
  BY <1>1, FS_Subset, FS_CardinalityType DEF Upto
<1>3. \A j \in places : j \in Nat /\ 0 < j /\ j <= n
  OBVIOUS
<1>4. n \in T /\ 0 \notin T /\ T \subseteq Nat
  <2>1. Upto(places, n) = places
    BY <1>3 DEF Upto
  <2>2. \A j \in places : ~(j <= 0)
    BY <1>3
  <2>3. Upto(places, 0) = {}
    BY <2>2 DEF Upto
  <2> QED
    BY <1>1, <2>1, <2>3, FS_EmptySet DEF T
<1>5. PICK m \in T : \A x \in T : m <= x
  BY <1>4, Least
<1>6. m \in Nat \ {0} /\ m - 1 \in Nat /\ m - 1 \notin T
  BY <1>4, <1>5
<1>7. Cardinality(Upto(places, m - 1)) < k /\ Cardinality(Upto(places, m)) >= k
  BY <1>2, <1>5, <1>6 DEF T
<1>8. Upto(places, m) = Upto(places, m - 1) \cup (places \cap {m})
  <2>1. \A j \in places : j <= m <=> j <= m - 1 \/ j = m
    BY <1>3, <1>6
  <2> QED
    BY <2>1 DEF Upto
<1>9. m \in places
  BY <1>2, <1>6, <1>7, <1>8
<1>10. Cardinality(Upto(places, m)) = Cardinality(Upto(places, m - 1)) + 1
  <2>1. Upto(places, m) = Upto(places, m - 1) \cup {m} /\ m \notin Upto(places, m - 1)
    BY <1>6, <1>8, <1>9 DEF Upto
  <2> QED
    BY <1>2, <1>6, <2>1, FS_AddElement
<1> QED
  BY <1>2, <1>6, <1>7, <1>9, <1>10

\* At is a sequence, as long as there are places, of what is at them.
LEMMA AtTypes ==
  ASSUME NEW S, NEW s \in Seq(S), NEW places \in SUBSET (DOMAIN s)
  PROVE  /\ IsFiniteSet(places) /\ Cardinality(places) \in Nat
         /\ Len(At(s, places)) = Cardinality(places)
         /\ At(s, places) \in Seq({s[i] : i \in places})
<1> DEFINE c == Cardinality(places)
           V == {s[i] : i \in places}
<1>1. Len(s) \in Nat /\ DOMAIN s = 1..Len(s)
  OBVIOUS
<1>2. IsFiniteSet(places) /\ c \in Nat
  BY <1>1, FiniteSubset
<1> HIDE DEF c
<1>3. At(s, places) =
        [k \in 1..c |-> s[CHOOSE i \in places : Cardinality(Upto(places, i)) = k]]
  BY DEF At, Upto, c
<1>4. ASSUME NEW k \in 1..c
      PROVE  (CHOOSE i \in places : Cardinality(Upto(places, i)) = k) \in places
  BY <1>1, Ranked DEF c
<1>5. \A k \in 1..c : At(s, places)[k] \in V
  BY <1>3, <1>4
<1> HIDE DEF V
<1>6. At(s, places) \in [1..c -> V]
  BY <1>3, <1>5
<1>7. At(s, places) \in Seq(V) /\ Len(At(s, places)) = c
  BY <1>2, <1>6
<1> QED
  BY <1>2, <1>7 DEF V, c

-----------------------------------------------------------------------------
(* Texts and carts.                                                        *)

\* A row that is read gives a cart.
LEMMA ReadTypes == \A row \in Row : Read(row) \in Cart /\ row.cart \in Cart
<1> SUFFICES ASSUME NEW row \in Row PROVE Read(row) \in Cart /\ row.cart \in Cart
  OBVIOUS
<1>1. row.cart \in Cart
  BY DEF Row
<1>2. Number(row.cart.stock) \in Int /\ Number(row.cart.temp) \in Int
  BY <1>1 DEF Cart, Number
<1> QED
  BY <1>1, <1>2 DEF Read, Cart

\* Whatever text is pasted, what is made of it are carts.
LEMMA ParseTypes ==
  ASSUME NEW text \in Text
  PROVE  ParseRawData(text) \in Seq(Cart)
<1> DEFINE rows == text.rows
<1>1. rows \in Seq(Row) /\ text.form \in Forms
  BY DEF Text
<1>2. ASSUME NEW some \in Seq(Row) PROVE Each(CartOf, some) \in Seq(Cart)
  BY <1>2, ReadTypes DEF Each, CartOf
<1>3. Nameless \in Cart
  BY DEF Nameless, Cart
<1>4. [i \in DOMAIN rows |-> Nameless] \in Seq(Cart)
  BY <1>1, <1>3
<1>5. ReadTable(rows) \in Seq(Cart)
  <2> DEFINE places == {i \in DOMAIN rows : rows[i].full}
             some == At(rows, places)
  <2>1. some \in Seq({rows[i] : i \in places})
    BY <1>1, AtTypes
  <2>2. {rows[i] : i \in places} \subseteq Row
    BY <1>1
  <2>3. some \in Seq(Row)
    BY <2>1, <2>2, SeqMonotonic
  <2>4. ReadTable(rows) = [i \in DOMAIN some |-> Read(some[i])]
    BY DEF ReadTable, Each, Select, Places, Full
  <2> HIDE DEF some
  <2> QED
    BY <2>3, <2>4, ReadTypes
<1>6. CASE text.form = "blank"
  BY <1>6 DEF ParseRawData
<1>7. CASE text.form \in {"array", "object"}
  BY <1>1, <1>2, <1>7 DEF ParseRawData
<1>8. CASE text.form = "broken"
  BY <1>4, <1>8 DEF ParseRawData
<1>9. CASE text.form = "table"
  BY <1>5, <1>9 DEF ParseRawData
<1> QED
  BY <1>1, <1>6, <1>7, <1>8, <1>9 DEF Forms

\* The carts that call for an action are those that the map counts as low or
\* offline; the others are active; and a refill is queued only for one of them.
LEMMA CartsCounted ==
  ASSUME NEW carts \in Seq(Cart)
  PROVE  /\ Warnings(carts) \in Seq(Cart) /\ Len(Warnings(carts)) \in Nat
         /\ DOMAIN Warnings(carts) = 1..Len(Warnings(carts))
         /\ Len(Warnings(carts)) = Overlay(carts)["low-stock"] + Overlay(carts)["offline"]
         /\ Overlay(carts)["active"] + Len(Warnings(carts)) = Len(carts)
         /\ Len(RefillQueue(carts)) <= Len(Warnings(carts))
<1> DEFINE A == {i \in DOMAIN carts : Status(carts[i]) = "active"}
           L == {i \in DOMAIN carts : Status(carts[i]) = "low-stock"}
           O == {i \in DOMAIN carts : Status(carts[i]) = "offline"}
           W == {i \in DOMAIN carts : CallsForAction(carts[i])}
           R == {i \in DOMAIN carts : Low(carts[i])}
<1>1. \A c \in Cart : /\ Status(c) \in {"active", "low-stock", "offline"}
                      /\ CallsForAction(c) <=> Status(c) \in {"low-stock", "offline"}
                      /\ Low(c) => CallsForAction(c)
  BY DEF Cart, Status, CallsForAction, Warm, Low, Empty
<1>2. \A i \in DOMAIN carts : carts[i] \in Cart
  OBVIOUS
<1>3. /\ W = L \cup O /\ L \cap O = {} /\ A \cup W = DOMAIN carts /\ A \cap W = {}
      /\ R \subseteq W /\ W \subseteq DOMAIN carts
      /\ A \subseteq DOMAIN carts /\ L \subseteq DOMAIN carts /\ O \subseteq DOMAIN carts
  BY <1>1, <1>2
<1>4. /\ Warnings(carts) = At(carts, W) /\ Refills(carts) = At(carts, R)
      /\ Overlay(carts)["active"] = Cardinality(A)
      /\ Overlay(carts)["low-stock"] = Cardinality(L)
      /\ Overlay(carts)["offline"] = Cardinality(O)
  BY DEF Warnings, Refills, Select, Places, Overlay, HowMany
<1>5. DOMAIN carts = 1..Len(carts) /\ Len(carts) \in Nat
  OBVIOUS
<1> HIDE DEF A, L, O, W, R
<1>6. IsFiniteSet(DOMAIN carts) /\ Cardinality(DOMAIN carts) = Len(carts)
  BY <1>5, FS_Interval
<1>7. /\ IsFiniteSet(A) /\ IsFiniteSet(W) /\ IsFiniteSet(L) /\ IsFiniteSet(O)
      /\ Cardinality(A) \in Nat /\ Cardinality(W) \in Nat
      /\ Cardinality(L) \in Nat /\ Cardinality(O) \in Nat
  BY <1>3, <1>6, FS_Subset, FS_CardinalityType
<1>8. Cardinality(W) = Cardinality(L) + Cardinality(O)
  <2>1. Cardinality(L \cup O) = Cardinality(L) + Cardinality(O) - Cardinality(L \cap O)
    BY <1>7, FS_Union
  <2>2. Cardinality(L \cap O) = 0
    BY <1>3, FS_EmptySet
  <2> QED
    BY <1>3, <1>7, <2>1, <2>2
<1>9. Cardinality(A) + Cardinality(W) = Len(carts)
  <2>1. Cardinality(A \cup W) = Cardinality(A) + Cardinality(W) - Cardinality(A \cap W)
    BY <1>7, FS_Union
  <2>2. Cardinality(A \cap W) = 0
    BY <1>3, FS_EmptySet
  <2> QED
    BY <1>3, <1>6, <1>7, <2>1, <2>2
<1>10. /\ Warnings(carts) \in Seq(Cart) /\ Len(Warnings(carts)) = Cardinality(W)
       /\ DOMAIN Warnings(carts) = 1..Cardinality(W)
  <2>1. At(carts, W) \in Seq({carts[i] : i \in W}) /\ Len(At(carts, W)) = Cardinality(W)
    BY <1>3, AtTypes
  <2>2. {carts[i] : i \in W} \subseteq Cart
    BY <1>2, <1>3
  <2>3. At(carts, W) \in Seq(Cart)
    BY <2>1, <2>2, SeqMonotonic
  <2> QED
    BY <1>4, <2>1, <2>3
<1>11. Len(RefillQueue(carts)) <= Cardinality(W)
  <2>1. /\ Refills(carts) \in Seq({carts[i] : i \in R})
        /\ Len(Refills(carts)) = Cardinality(R) /\ Cardinality(R) \in Nat
    BY <1>3, <1>4, AtTypes
  <2>2. RefillQueue(carts) = [i \in 1..Cardinality(R) |-> Priority(Refills(carts)[i])]
    BY <2>1 DEF RefillQueue, Each
  <2>3. Len(RefillQueue(carts)) = Cardinality(R)
    BY <2>1, <2>2
  <2>4. Cardinality(R) <= Cardinality(W)
    BY <1>3, <1>7, FS_Subset
  <2> QED
    BY <2>3, <2>4
<1> QED
  BY <1>4, <1>7, <1>8, <1>9, <1>10, <1>11

-----------------------------------------------------------------------------
(* The inductive invariant.                                                *)

\* The elements of the feed, and what tells them apart.
Items == [id : Ids, build : Nat \ {0}, state : {"ready", "deploying", "deployed"}, lit : BOOLEAN]
Key(item) == <<item.id, item.build>>

\* The sequences are sequences of what they should hold.
ShapeInv ==
    /\ feed \in Seq(Items) /\ timers \in Seq(Timers)
    /\ map \in Seq(Cart) /\ submitted \in Seq(Cart)
    /\ left \in [Kinds -> Nat]

\* The start of a section is pending at most once, before the section has started.
StartInv ==
    /\ Single(timers, "start")
    /\ Subjects(timers, "start") \subseteq {<<key, 0>> : key \in opened \ ready}

\* Identifiers tell the elements of one feed apart.  An element of this feed or
\* an earlier one is about to be deployed, or was, at most once, and one that can
\* still be clicked is neither.
DeployInv ==
    /\ \A j, k \in DOMAIN feed : feed[j].id = feed[k].id => j = k
    /\ Single(timers, "deploy")
    /\ Subjects(timers, "deploy") \subseteq Ids \X (1..builds)
    /\ deployed \subseteq Ids \X (1..builds) /\ IsFiniteSet(deployed)
    /\ Subjects(timers, "deploy") \cap deployed = {}
    /\ \A k \in DOMAIN feed :
         feed[k].state = "ready" =>
           Key(feed[k]) \notin Subjects(timers, "deploy") \cup deployed

\* Only an element with the identifier of a deployed one is removed.
RemovalInv ==
    \A s \in Subjects(timers, "remove") \cup Subjects(timers, "fade") :
      \E b \in 1..builds : <<s[1], b>> \in deployed

\* The last data submitted is under way, after all other data, or on the map.
IngestInv ==
    /\ Subjects(timers, "ingest") # {} => Ends(timers, "ingest", 0, submitted)
    /\ Subjects(timers, "ingest") = {} /\ submitted # <<>> => map = submitted

\* The step chosen last is to be shown, after all others, or highlighted.
TourInv ==
    /\ Subjects(timers, "step") \subseteq {""} \X Steps
    /\ tour.run =>
         /\ Subjects(timers, "step") # {} => Ends(timers, "step", tour.step, <<>>)
         /\ Subjects(timers, "step") = {} => Target[tour.step + 1] \in marks

\* The inductive invariant.
IInv ==
    /\ TypeOK /\ ShapeInv /\ StartInv /\ DeployInv /\ RemovalInv
    /\ ClicksCredited /\ BadgeCounts /\ IngestInv /\ TourInv

-----------------------------------------------------------------------------
(* Which changes keep the parts of the invariant.                          *)

\* The bounds that are spent are bounds.
LEMMA KindNames ==
  {"nav", "input", "click", "tour", "submit", "grow", "open"} \subseteq Kinds \ {"any"}
BY DEF Kinds

\* What the operator may still do is counted down.
LEMMA OperatorTypes ==
  ASSUME left \in [Kinds -> Nat], NEW kind \in Kinds \ {"any"}, NEW d, Operator(kind, d)
  PROVE  /\ left' \in [Kinds -> Nat]
         /\ kind # "click" => left'["click"] = left["click"]
         /\ kind = "click" => left["click"] > 0 /\ left'["click"] = left["click"] - 1
<1>1. left[kind] \in Nat \ {0} /\ left["any"] \in Nat \ {0}
  BY DEF Operator, Kinds
<1>2. left' = [left EXCEPT ![kind] = left[kind] - 1, !["any"] = left["any"] - 1]
  BY DEF Operator, Kinds
<1> QED
  BY <1>1, <1>2 DEF Kinds

\* A timer set or expired is of the timers, and those that stay have their type.
LEMMA TimerTypes ==
  ASSUME NEW ts \in Seq(Timers)
  PROVE  \A i \in DOMAIN ts : /\ ts[i] \in Timers /\ ts[i].kind \in DOMAIN Delay
                              /\ ts[i].wait \in 0..Delay[ts[i].kind]
<1> SUFFICES ASSUME NEW i \in DOMAIN ts
             PROVE  /\ ts[i] \in Timers /\ ts[i].kind \in DOMAIN Delay
                    /\ ts[i].wait \in 0..Delay[ts[i].kind]
  OBVIOUS
<1>1. ts[i] \in Timers
  OBVIOUS
<1>2. Delay[ts[i].kind] \in Nat
  BY <1>1 DEF Timers, Delay
<1> QED
  BY <1>1, <1>2 DEF Timers

\* Kept is transitive and reflexive.
LEMMA KeptTwice ==
  ASSUME NEW kind, NEW ts, NEW us, NEW vs, Kept(kind, ts, us), Kept(kind, us, vs)
  PROVE  Kept(kind, ts, vs)
BY DEF Kept

LEMMA KeptSame == \A kind, ts : Kept(kind, ts, ts)
BY DEF Kept

\* StartInv survives a step that changes no pending start.
LEMMA StartKept ==
  StartInv /\ Kept("start", timers, timers') /\ opened' = opened /\ ready' = ready => StartInv'
BY DEF StartInv, Kept

\* The elements keep what the invariant says of them, apart from highlights.
Alike(items, others) ==
    /\ DOMAIN others = DOMAIN items
    /\ \A k \in DOMAIN items : /\ others[k].id = items[k].id
                               /\ others[k].build = items[k].build
                               /\ others[k].state = items[k].state

\* DeployInv survives a step that changes the highlights of the feed at most.
LEMMA DeployKept ==
  ASSUME DeployInv, Alike(feed, feed'), Kept("deploy", timers, timers'),
         builds' = builds, deployed' = deployed
  PROVE  DeployInv'
<1>1. \A k \in DOMAIN feed : Key(feed[k])' = Key(feed[k])
  BY DEF Key, Alike
<1> QED
  BY <1>1 DEF DeployInv, Alike, Kept

\* The feed is built anew.
LEMMA DeployBuilt ==
  ASSUME DeployInv, builds \in Nat, NEW ids \in Seq(Ids), BuildFeed(ids),
         \A j, k \in DOMAIN ids : ids[j] = ids[k] => j = k,
         Kept("deploy", timers, timers'), deployed' = deployed
  PROVE  /\ DeployInv'
         /\ feed' \in Seq(Items) /\ Len(feed') = Len(ids) /\ builds' \in Nat
         /\ \A k \in DOMAIN feed' : feed'[k].build = builds' /\ feed'[k].id = ids[k]
<1>1. /\ builds' = builds + 1
      /\ feed' = [k \in 1..Len(ids) |->
                    [id |-> ids[k], build |-> builds + 1, state |-> "ready", lit |-> FALSE]]
  BY DEF BuildFeed, Each, Element
<1>2. Len(ids) \in Nat /\ \A k \in 1..Len(ids) : ids[k] \in Ids
  OBVIOUS
<1>3. \A k \in 1..Len(ids) : feed'[k] \in Items
  BY <1>1, <1>2 DEF Items
<1>4. feed' \in Seq(Items) /\ DOMAIN feed' = 1..Len(ids) /\ Len(feed') = Len(ids)
  BY <1>1, <1>2, <1>3
<1>5. \A k \in DOMAIN feed' : /\ feed'[k].build = builds + 1 /\ feed'[k].id = ids[k]
                              /\ Key(feed[k])' = <<ids[k], builds + 1>>
  BY <1>1, <1>4 DEF Key
<1>6. \A id : <<id, builds + 1>> \notin Ids \X (1..builds)
  OBVIOUS
<1>7. Ids \X (1..builds) \subseteq Ids \X (1..(builds + 1))
  OBVIOUS
<1>8. /\ Subjects(timers, "deploy")' = Subjects(timers, "deploy")
      /\ Single(timers, "deploy")'
  BY DEF DeployInv, Kept
<1>9. DeployInv'
  BY <1>1, <1>4, <1>5, <1>6, <1>7, <1>8 DEF DeployInv
<1> QED
  BY <1>1, <1>4, <1>5, <1>9

\* RemovalInv survives a step that deploys more, or removes less.
LEMMA RemovalKept ==
  ASSUME RemovalInv, builds \in Nat, builds' \in Nat, builds <= builds', deployed \subseteq deployed',
         Subjects(timers, "remove")' \subseteq Subjects(timers, "remove"),
         Subjects(timers, "fade")' \subseteq Subjects(timers, "fade")
  PROVE  RemovalInv'
BY DEF RemovalInv

\* ClicksCredited survives a step that saves nothing and clicks nothing.
LEMMA ClicksKept ==
  ASSUME ClicksCredited, Kept("deploy", timers, timers'), UNCHANGED savedVars,
         left'["click"] = left["click"]
  PROVE  ClicksCredited'
BY DEF ClicksCredited, savedVars, Kept, Of, Pending

\* BadgeCounts survives a step that changes the highlights of the feed at most.
LEMMA BadgeKept ==
  BadgeCounts /\ Alike(feed, feed') /\ feed \in Seq(Items) /\ feed' \in Seq(Items) /\ badge' = badge
  => BadgeCounts'
<1> SUFFICES ASSUME BadgeCounts, Alike(feed, feed'), feed \in Seq(Items), feed' \in Seq(Items),
                    badge' = badge
             PROVE  BadgeCounts'
  OBVIOUS
<1>1. Len(feed') = Len(feed)
  BY DEF Alike
<1> QED
  BY <1>1 DEF BadgeCounts, Alike

\* IngestInv survives a step that clears the map at most.
LEMMA IngestKept ==
  ASSUME IngestInv, Kept("ingest", timers, timers'), submitted' = submitted,
         map' = map \/ map = Unmapped
  PROVE  IngestInv'
BY DEF IngestInv, Kept, Unmapped

\* TourInv survives a step that keeps what is highlighted.
LEMMA TourKept ==
  ASSUME TourInv, Kept("step", timers, timers'), tour' = tour,
         \A k \in 1..5 : Target[k] \in marks => Target[k] \in marks',
         tour.step \in Steps
  PROVE  TourInv'
<1>1. tour.step + 1 \in 1..5
  BY DEF Steps
<1> QED
  BY <1>1 DEF TourInv, Kept

-----------------------------------------------------------------------------
(* Timers that are set and fire.                                           *)

\* What is set is a timer.
LEMMA TimerIsOne ==
  ASSUME NEW kind \in DOMAIN Delay, NEW what \in Names \cup Ids, NEW num \in Nat,
         NEW data \in Seq(Cart)
  PROVE  Timer(kind, what, num, data) \in Timers
<1>1. Delay[kind] \in 0..6
  BY DEF Delay
<1> QED
  BY <1>1 DEF Timer, Timers

LEMMA AboutIsOne ==
  ASSUME NEW kind \in DOMAIN Delay, NEW what \in Names \cup Ids, NEW num \in Nat
  PROVE  /\ About(kind, what, num) \in Timers
         /\ About(kind, what, num).kind = kind
         /\ Subject(About(kind, what, num)) = <<what, num>>
<1>1. <<>> \in Seq(Cart)
  OBVIOUS
<1> QED
  BY <1>1, TimerIsOne DEF About, Timer, Subject

\* The timer that fires is the first of its kind.
LEMMA FiredTimer ==
  ASSUME timers \in Seq(Timers), NEW i \in DOMAIN timers, NEW kind, Fires(i, kind)
  PROVE  /\ timers[i] \in Timers /\ timers[i].kind = kind
         /\ Subject(timers[i]) \in Subjects(timers, kind)
         /\ Others(i) \in Seq(Timers) /\ Expired(timers[i], timers, Others(i))
<1>1. timers[i].kind = kind /\ \A j \in Of(timers, timers[i].kind) : i <= j
  BY DEF Fires, Pending, Of
<1>2. i \in Of(timers, kind)
  BY <1>1 DEF Of
<1> QED
  BY <1>1, <1>2, ExpireTimer DEF Others, Subjects, SubjectsAt

\* Going to a section sets its start at most, when it was not shown before.
LEMMA Navigated ==
  ASSUME StartInv, opened \subseteq Lazy, ready \subseteq opened, NEW key \in Pages, NEW ts \in Seq(Timers),
         Kept("start", timers, ts), NavTo(key, ts), ready' = ready
  PROVE  /\ timers' \in Seq(Timers) /\ StartInv'
         /\ page' = key /\ opened' \subseteq Lazy /\ opened \subseteq opened'
         /\ \A kind : kind # "start" => Kept(kind, ts, timers')
<1> DEFINE t == About("start", key, 0)
<1>1. page' = key /\ opened' = opened \cup ({key} \cap Lazy)
  BY DEF NavTo
<1>2. StartInv' /\ timers' \in Seq(Timers) /\ \A kind : kind # "start" => Kept(kind, ts, timers')
  <2>1. CASE key \in Lazy \ opened
    <3>1. timers' = Append(ts, t)
      BY <2>1 DEF NavTo
    <3>2. t \in Timers /\ t.kind = "start" /\ Subject(t) = <<key, 0>>
      <4>1. "start" \in DOMAIN Delay /\ key \in Names \cup Ids /\ 0 \in Nat
        BY DEF Delay, Names, Pages
      <4> QED
        BY <4>1, AboutIsOne
    <3> HIDE DEF t
    <3>3. timers' \in Seq(Timers) /\ Appended(t, ts, timers')
      BY <3>1, <3>2, AppendTimer
    <3>4. /\ Subjects(timers', "start") = Subjects(ts, "start") \cup {<<key, 0>>}
          /\ Single(ts, "start") /\ <<key, 0>> \notin Subjects(ts, "start")
             => Single(timers', "start")
          /\ \A kind : kind # "start" => Kept(kind, ts, timers')
      BY <3>2, <3>3 DEF Appended
    <3>5. Subjects(ts, "start") = Subjects(timers, "start") /\ Single(ts, "start")
      BY DEF Kept, StartInv
    <3>6. <<key, 0>> \notin Subjects(ts, "start")
      BY <2>1, <3>5 DEF StartInv
    <3>7. \A k \in opened \ ready : k \in opened' \ ready'
      BY <1>1
    <3>8. key \in opened' \ ready'
      BY <1>1, <2>1
    <3> QED
      BY <3>3, <3>4, <3>5, <3>6, <3>7, <3>8 DEF StartInv
  <2>2. CASE key \notin Lazy \ opened
    <3>1. timers' = ts /\ opened' = opened
      BY <1>1, <2>2 DEF NavTo
    <3> QED
      BY <3>1, KeptSame, StartKept
  <2> QED
    BY <2>1, <2>2
<1> QED
  BY <1>1, <1>2

-----------------------------------------------------------------------------
(* The identifiers of a feed.                                              *)

\* No member of s occurs twice.
Distinct(s) == \A j, k \in DOMAIN s : s[j] = s[k] => j = k

\* One more action is offered, or not.
LEMMA OneMoreOffered ==
  ASSUME NEW s \in Seq(Names), Distinct(s), NEW name \in Names, NEW N \in SUBSET Names,
         \A k \in DOMAIN s : s[k] \in N, name \notin N, NEW when
  PROVE  LET r == s \o (IF when THEN <<name>> ELSE <<>>)
         IN  r \in Seq(Names) /\ Distinct(r) /\ \A k \in DOMAIN r : r[k] \in N \cup {name}
<1> DEFINE r == s \o (IF when THEN <<name>> ELSE <<>>)
<1>1. CASE when
  <2>1. r = Append(s, name)
    BY <1>1
  <2> HIDE DEF r
  <2>2. /\ r \in Seq(Names) /\ DOMAIN r = 1..(Len(s) + 1) /\ DOMAIN s = 1..Len(s)
        /\ Len(s) \in Nat /\ r[Len(s) + 1] = name /\ \A k \in 1..Len(s) : r[k] = s[k]
    BY <2>1
  <2>3. \A k \in DOMAIN r : \/ k \in DOMAIN s /\ r[k] = s[k]
                            \/ k = Len(s) + 1 /\ r[k] = name
    BY <2>2
  <2> QED
    BY <2>2, <2>3 DEF Distinct, r
<1>2. CASE ~when
  <2>1. r = s
    BY <1>2, ConcatEmptySeq
  <2> QED
    BY <2>1
<1> QED
  BY <1>1, <1>2

\* No action is offered twice.
LEMMA OfferedDistinct ==
  ASSUME NEW temp, NEW neighborhood, NEW telemetry
  PROVE  /\ Offered(temp, neighborhood, telemetry) \in Seq(Names)
         /\ Distinct(Offered(temp, neighborhood, telemetry))
<1> DEFINE Act(id, when) == IF when THEN <<id>> ELSE <<>>
           s0 == <<>>
           s1 == s0 \o Act("act-outage-reroute", telemetry = "outage")
           s2 == s1 \o Act("act-strain-markdown", telemetry \in {"strain", "outage"})
           s3 == s2 \o Act("act-stadium-refill", neighborhood = "stadium-ipl")
           s4 == s3 \o Act("act-heat-alert", temp >= 40 /\ telemetry = "normal")
           s5 == s4 \o Act("act-default-align", TRUE)
           N1 == {"act-outage-reroute"}
           N2 == N1 \cup {"act-strain-markdown"}
           N3 == N2 \cup {"act-stadium-refill"}
           N4 == N3 \cup {"act-heat-alert"}
<1>0. /\ N4 \cup {"act-default-align"} \subseteq Names
      /\ "act-strain-markdown" \notin N1 /\ "act-stadium-refill" \notin N2
      /\ "act-heat-alert" \notin N3 /\ "act-default-align" \notin N4
  BY DEF Names
<1>1. s1 \in Seq(Names) /\ Distinct(s1) /\ \A k \in DOMAIN s1 : s1[k] \in N1
  <2>1. /\ s0 \in Seq(Names) /\ Distinct(s0) /\ \A k \in DOMAIN s0 : s0[k] \in {}
        /\ {} \in SUBSET Names /\ "act-outage-reroute" \notin {}
    BY DEF Distinct
  <2> HIDE DEF s0
  <2>2. {} \cup {"act-outage-reroute"} = N1
    OBVIOUS
  <2> QED
    BY <1>0, <2>1, <2>2, OneMoreOffered
<1> HIDE DEF s1, N1
<1>2. s2 \in Seq(Names) /\ Distinct(s2) /\ \A k \in DOMAIN s2 : s2[k] \in N2
  BY <1>0, <1>1, OneMoreOffered
<1> HIDE DEF s2, N2
<1>3. s3 \in Seq(Names) /\ Distinct(s3) /\ \A k \in DOMAIN s3 : s3[k] \in N3
  BY <1>0, <1>2, OneMoreOffered
<1> HIDE DEF s3, N3
<1>4. s4 \in Seq(Names) /\ Distinct(s4) /\ \A k \in DOMAIN s4 : s4[k] \in N4
  BY <1>0, <1>3, OneMoreOffered
<1> HIDE DEF s4, N4
<1>5. s5 \in Seq(Names) /\ Distinct(s5)
  BY <1>0, <1>4, OneMoreOffered
<1>6. Offered(temp, neighborhood, telemetry) = s5
  BY <1>1, ConcatEmptySeq DEF Offered, s1, s2, s3, s4
<1> QED
  BY <1>5, <1>6

\* The orchestrator's feed has one element for each action on offer.
LEMMA OrchestratorIds ==
  ASSUME NEW in
  PROVE  LET ids == Each(Id, Offered(in.temp, in.neighborhood, in.telemetry))
         IN  ids \in Seq(Ids) /\ Distinct(ids)
<1> DEFINE s == Offered(in.temp, in.neighborhood, in.telemetry)
           ids == Each(Id, s)
<1>1. s \in Seq(Names) /\ Distinct(s)
  BY OfferedDistinct
<1> HIDE DEF s
<1>2. ids = [k \in DOMAIN s |-> <<s[k], 0>>]
  BY DEF Each, Id
<1>3. ids \in Seq(Ids) /\ DOMAIN ids = DOMAIN s
  BY <1>1, <1>2 DEF Ids
<1>4. Distinct(ids)
  BY <1>1, <1>2 DEF Distinct
<1> QED
  BY <1>3, <1>4 DEF s

\* So has the feed of an ingestion for each cart that calls for an action, or one
\* element that says that there is none.
LEMMA IngestIds ==
  ASSUME NEW carts \in Seq(Cart)
  PROVE  /\ IngestActions(carts) \in Seq(Ids) /\ Distinct(IngestActions(carts))
         /\ IF Len(Warnings(carts)) = 0 THEN IngestActions(carts) = <<Stable>>
            ELSE Len(IngestActions(carts)) = Len(Warnings(carts))
<1> DEFINE n == Len(Warnings(carts))
<1>1. n \in Nat /\ DOMAIN Warnings(carts) = 1..n /\ Warnings(carts) \in Seq(Cart)
  BY CartsCounted
<1>2. Stable \in Ids
  BY DEF Stable, Id, Ids, Names
<1>3. CASE Warnings(carts) = <<>>
  <2>1. IngestActions(carts) = <<Stable>> /\ n = 0
    BY <1>3 DEF IngestActions
  <2> QED
    BY <1>2, <2>1 DEF Distinct
<1>4. CASE Warnings(carts) # <<>>
  <2>1. IngestActions(carts) = [k \in 1..n |-> <<"ingest-act", k - 1>>]
    BY <1>1, <1>4 DEF IngestActions, IngestId
  <2>2. n # 0
    BY <1>1, <1>4, EmptySeq
  <2> HIDE DEF n
  <2>3. \A k \in 1..n : <<"ingest-act", k - 1>> \in Ids
    <3>1. \A k \in 1..n : k - 1 \in Nat
      BY <1>1
    <3> QED
      BY <3>1 DEF Ids, Names
  <2>4. IngestActions(carts) \in Seq(Ids) /\ Len(IngestActions(carts)) = n
    BY <1>1, <2>1, <2>3
  <2>5. Distinct(IngestActions(carts))
    BY <1>1, <2>1 DEF Distinct
  <2> QED
    BY <2>2, <2>4, <2>5 DEF n
<1> QED
  BY <1>3, <1>4

-----------------------------------------------------------------------------
(* The steps.                                                              *)

\* All but TypeOK.
CoreInv ==
    /\ ShapeInv /\ StartInv /\ DeployInv /\ RemovalInv
    /\ ClicksCredited /\ BadgeCounts /\ IngestInv /\ TourInv

\* A step that sets and fires no timer but those that mark the cart, and leaves
\* the feed and what was chosen alone.
LEMMA QuietStep ==
  ASSUME IInv, timers' \in Seq(Timers), \A kind : kind # "mark" => Kept(kind, timers, timers'),
         left' \in [Kinds -> Nat], left'["click"] = left["click"],
         UNCHANGED <<opened, ready, feed, builds, badge, savedVars, submitted, tour>>,
         map' = map \/ map = Unmapped, map' \in Seq(Cart),
         \A k \in 1..5 : Target[k] \in marks => Target[k] \in marks'
  PROVE  CoreInv'
<1>1. /\ Kept("start", timers, timers') /\ Kept("deploy", timers, timers')
      /\ Kept("remove", timers, timers') /\ Kept("fade", timers, timers')
      /\ Kept("step", timers, timers') /\ Kept("ingest", timers, timers')
  OBVIOUS
<1>2. ShapeInv' /\ StartInv' /\ IngestInv'
  BY <1>1, StartKept, IngestKept DEF IInv, ShapeInv
<1>3. DeployInv' /\ BadgeCounts' /\ ClicksCredited'
  <2>1. Alike(feed, feed')
    BY DEF Alike
  <2> QED
    BY <1>1, <2>1, DeployKept, BadgeKept, ClicksKept DEF IInv, ShapeInv, savedVars
<1>4. RemovalInv'
  <2>1. builds \in Nat /\ builds' = builds /\ deployed' = deployed
    BY DEF IInv, TypeOK, savedVars
  <2> QED
    BY <1>1, <2>1, RemovalKept DEF IInv, Kept
<1>5. TourInv'
  <2>1. tour.step \in Steps
    BY DEF IInv, TypeOK
  <2> QED
    BY <1>1, <2>1, TourKept DEF IInv
<1> QED
  BY <1>2, <1>3, <1>4, <1>5 DEF CoreInv

\* The clock moves no timer past another.
LEMMA TickStep == IInv /\ Tick => IInv'
<1> SUFFICES ASSUME IInv, Tick PROVE IInv'
  OBVIOUS
<1>1. timers' \in Seq(Timers) /\ \A kind : Kept(kind, timers, timers')
  BY TickTimers DEF Tick, IInv, ShapeInv
<1>2. /\ UNCHANGED <<page, opened, ready, inputs, feed, builds, badge, deployed, saved, map, overlay,
                     marker, refill, modal, submitted, tour, marks, expansion, left>>
  BY DEF Tick, pageVars, feedVars, savedVars, mapVars, tourVars
<1>3. CoreInv'
  BY <1>1, <1>2, QuietStep DEF IInv, ShapeInv, savedVars
<1>4. TypeOK'
  BY <1>1, <1>2, TimerTypes DEF IInv, TypeOK
<1> QED
  BY <1>3, <1>4 DEF CoreInv, IInv

\* Dialogs and expanded vectors touch no part of the invariant.
LEMMA DialogStep == IInv /\ (OpenDialog \/ HideDialog \/ \E v \in Vectors : Expand(v)) => IInv'
<1> SUFFICES ASSUME IInv, OpenDialog \/ HideDialog \/ \E v \in Vectors : Expand(v) PROVE IInv'
  OBVIOUS
<1>1. /\ UNCHANGED <<page, opened, ready, inputs, feed, builds, badge, deployed, saved, map, overlay,
                     marker, refill, submitted, tour, marks, timers>>
      /\ modal' \in BOOLEAN
  BY DEF OpenDialog, HideDialog, Expand, pageVars, feedVars, savedVars, mapVars, tourVars, IInv,
         TypeOK
<1>2. left' \in [Kinds -> Nat] /\ left'["click"] = left["click"]
  <2>1. CASE OpenDialog
    BY <2>1, OperatorTypes, KindNames DEF OpenDialog, IInv, ShapeInv
  <2>2. CASE HideDialog
    BY <2>2 DEF HideDialog, IInv, ShapeInv
  <2>3. ASSUME NEW v \in Vectors, Expand(v)
        PROVE  left' \in [Kinds -> Nat] /\ left'["click"] = left["click"]
    BY <2>3, OperatorTypes, KindNames DEF Expand, IInv, ShapeInv
  <2> QED
    BY <2>1, <2>2, <2>3
<1>3. CoreInv'
  BY <1>1, <1>2, KeptSame, QuietStep DEF IInv, ShapeInv, savedVars
<1>4. TypeOK'
  BY <1>1 DEF IInv, TypeOK
<1> QED
  BY <1>3, <1>4 DEF CoreInv, IInv

\* The storyboard's cart is looked up.
LEMMA MarkCartStep == ASSUME IInv, NEW i \in DOMAIN timers, MarkCart(i) PROVE IInv'
<1>1. /\ UNCHANGED <<page, opened, ready, inputs, feed, builds, badge, deployed, saved, map, overlay,
                     marker, refill, modal, submitted, tour, expansion, left>>
      /\ timers' = Others(i) /\ marks \subseteq marks' /\ marks' \subseteq marks \cup {"cart"}
      /\ Fires(i, "mark")
  BY DEF MarkCart, pageVars, feedVars, savedVars, mapVars
<1>2. timers' \in Seq(Timers) /\ \A kind : kind # "mark" => Kept(kind, timers, timers')
  BY <1>1, FiredTimer DEF IInv, ShapeInv, Expired
<1>3. CoreInv'
  BY <1>1, <1>2, QuietStep DEF IInv, ShapeInv, savedVars
<1>4. TypeOK'
  BY <1>1, <1>2, TimerTypes DEF IInv, TypeOK
<1> QED
  BY <1>3, <1>4 DEF CoreInv, IInv

\* The start of a section is set when it is opened for the first time.
LEMMA NavigateStep == ASSUME IInv, NEW key \in Pages, Navigate(key) PROVE IInv'
<1>1. /\ UNCHANGED <<ready, inputs, feed, builds, badge, deployed, saved, map, overlay,
                     marker, refill, modal, submitted, tour, marks, expansion>>
      /\ NavTo(key, timers) /\ Operator("nav", FALSE)
  BY DEF Navigate, feedVars, savedVars, mapVars, tourVars
<1>2. left' \in [Kinds -> Nat] /\ left'["click"] = left["click"]
  BY <1>1, OperatorTypes, KindNames DEF IInv, ShapeInv
<1>3. /\ timers' \in Seq(Timers) /\ StartInv'
      /\ page' = key /\ opened' \subseteq Lazy /\ opened \subseteq opened'
      /\ \A kind : kind # "start" => Kept(kind, timers, timers')
  BY <1>1, KeptSame, Navigated DEF IInv, ShapeInv, TypeOK
<1>4. ShapeInv' /\ IngestInv'
  BY <1>1, <1>2, <1>3, IngestKept DEF IInv, ShapeInv
<1>5. DeployInv' /\ BadgeCounts' /\ ClicksCredited'
  <2>1. Alike(feed, feed')
    BY <1>1 DEF Alike
  <2> QED
    BY <1>1, <1>2, <1>3, <2>1, DeployKept, BadgeKept, ClicksKept DEF IInv, ShapeInv, savedVars
<1>6. RemovalInv'
  <2>1. builds \in Nat
    BY DEF IInv, TypeOK
  <2> QED
    BY <1>1, <1>3, <2>1, RemovalKept DEF IInv, Kept
<1>7. TourInv'
  <2>1. tour.step \in Steps
    BY DEF IInv, TypeOK
  <2> QED
    BY <1>1, <1>3, <2>1, TourKept DEF IInv
<1>8. TypeOK'
  BY <1>1, <1>3, TimerTypes DEF IInv, TypeOK
<1> QED
  BY <1>3, <1>4, <1>5, <1>6, <1>7, <1>8 DEF IInv

\* An input is listened to: the feed is built anew, or stays.
LEMMA Listened ==
  ASSUME IInv, NEW in, Listen(in), Kept("deploy", timers, timers'), deployed' = deployed
  PROVE  /\ DeployInv' /\ BadgeCounts' /\ feed' \in Seq(Items)
         /\ builds' \in Nat /\ builds <= builds' /\ badge' \in Nat /\ inputs' = in
         /\ \A k \in DOMAIN feed' : feed'[k].build = builds'
<1> DEFINE ids == Each(Id, Offered(in.temp, in.neighborhood, in.telemetry))
<1>1. inputs' = in /\ builds \in Nat
  BY DEF Listen, IInv, TypeOK
<1>2. CASE "orchestrator" \in ready
  <2>1. BuildFeed(ids) /\ badge' = Len(ids)
    BY <1>2 DEF Listen, UpdateOrchestrator
  <2>2. ids \in Seq(Ids) /\ \A j, k \in DOMAIN ids : ids[j] = ids[k] => j = k
    BY OrchestratorIds DEF Distinct
  <2> HIDE DEF ids
  <2>3. /\ DeployInv' /\ feed' \in Seq(Items) /\ Len(feed') = Len(ids)
        /\ \A k \in DOMAIN feed' : feed'[k].build = builds'
    BY <1>1, <2>1, <2>2, DeployBuilt DEF IInv
  <2>4. builds' = builds + 1
    BY <2>1 DEF BuildFeed
  <2>5. Len(ids) \in Nat
    BY <2>2
  <2> QED
    BY <1>1, <2>1, <2>3, <2>4, <2>5 DEF BadgeCounts
<1>3. CASE "orchestrator" \notin ready
  <2>1. UNCHANGED <<feed, builds, badge>>
    BY <1>3 DEF Listen, feedVars
  <2>2. Alike(feed, feed')
    BY <2>1 DEF Alike
  <2> QED
    BY <1>1, <2>1, <2>2, DeployKept, BadgeKept DEF IInv, ShapeInv, TypeOK
<1> QED
  BY <1>2, <1>3

\* The elements of a feed whose types are known.
LEMMA FeedTypes ==
  ASSUME NEW items \in Seq(Items)
  PROVE  \A k \in DOMAIN items : /\ items[k].state \in {"ready", "deploying", "deployed"}
                                 /\ items[k].lit \in BOOLEAN
<1> SUFFICES ASSUME NEW k \in DOMAIN items
             PROVE  /\ items[k].state \in {"ready", "deploying", "deployed"}
                    /\ items[k].lit \in BOOLEAN
  OBVIOUS
<1>1. items[k] \in Items
  OBVIOUS
<1> QED
  BY <1>1 DEF Items

\* A changed input builds the feed anew.
LEMMA InputStep == ASSUME IInv, NEW in \in AllInputs, ChangeInput(in) PROVE IInv'
<1>1. /\ UNCHANGED <<page, opened, ready, deployed, saved, map, overlay, marker, refill, modal,
                     submitted, tour, marks, expansion, timers>>
      /\ Listen(in) /\ Operator("input", FALSE)
  BY DEF ChangeInput, pageVars, savedVars, mapVars, tourVars
<1>2. left' \in [Kinds -> Nat] /\ left'["click"] = left["click"]
  BY <1>1, OperatorTypes, KindNames DEF IInv, ShapeInv
<1>3. /\ DeployInv' /\ BadgeCounts' /\ feed' \in Seq(Items)
      /\ builds' \in Nat /\ builds <= builds' /\ badge' \in Nat /\ inputs' = in
      /\ \A k \in DOMAIN feed' : feed'[k].build = builds'
  BY <1>1, KeptSame, Listened
<1>4. in \in [temp : Temps, neighborhood : Neighborhoods, telemetry : Telemetries]
  BY InputsAssumption DEF AllInputs, InputsAssumption
<1>5. TypeOK'
  BY <1>1, <1>3, <1>4, FeedTypes DEF IInv, TypeOK
<1>6. ShapeInv' /\ StartInv' /\ IngestInv' /\ ClicksCredited'
  BY <1>1, <1>2, <1>3, KeptSame, StartKept, IngestKept, ClicksKept DEF IInv, ShapeInv, savedVars
<1>7. RemovalInv'
  <2>1. builds \in Nat
    BY DEF IInv, TypeOK
  <2> QED
    BY <1>1, <1>3, <2>1, RemovalKept DEF IInv
<1>8. TourInv'
  <2>1. tour.step \in Steps
    BY DEF IInv, TypeOK
  <2> QED
    BY <1>1, <2>1, KeptSame, TourKept DEF IInv
<1> QED
  BY <1>3, <1>5, <1>6, <1>7, <1>8 DEF IInv

\* A button is clicked: its deployment is pending, and it is clicked no more.
LEMMA ExecuteStep == ASSUME IInv, NEW k \in DOMAIN feed, Execute(k) PROVE IInv'
<1> DEFINE item == feed[k]
           t == About("deploy", item.id, item.build)
<1>1. /\ UNCHANGED <<page, opened, ready, inputs, builds, badge, deployed, saved, map, overlay, marker,
                     refill, modal, submitted, tour, marks, expansion>>
      /\ item.state = "ready" /\ Operator("click", FALSE)
      /\ feed' = [feed EXCEPT ![k].state = "deploying"]
      /\ timers' = Append(timers, t)
  BY DEF Execute, Clickable, pageVars, savedVars, mapVars, tourVars
<1>2. /\ item \in Items /\ item.build = builds /\ builds \in Nat
      /\ feed \in Seq(Items) /\ timers \in Seq(Timers)
  BY DEF IInv, ShapeInv, TypeOK
<1>3. t \in Timers /\ t.kind = "deploy" /\ Subject(t) = Key(item)
  <2>1. "deploy" \in DOMAIN Delay /\ item.id \in Names \cup Ids /\ item.build \in Nat
    BY <1>2 DEF Delay, Items
  <2> QED
    BY <2>1, AboutIsOne DEF Key
<1> HIDE DEF t
<1>4. timers' \in Seq(Timers) /\ Appended(t, timers, timers')
  BY <1>1, <1>2, <1>3, AppendTimer
<1>5. /\ Kept("start", timers, timers') /\ Kept("remove", timers, timers')
      /\ Kept("fade", timers, timers') /\ Kept("step", timers, timers')
      /\ Kept("ingest", timers, timers')
  BY <1>3, <1>4 DEF Appended
<1>6. /\ left' \in [Kinds -> Nat] /\ left["click"] > 0 /\ left'["click"] = left["click"] - 1
      /\ left["click"] \in Nat
  BY <1>1, OperatorTypes, KindNames DEF IInv, ShapeInv
<1>7. /\ DOMAIN feed' = DOMAIN feed /\ feed' \in Seq(Items) /\ Len(feed') = Len(feed)
      /\ \A j \in DOMAIN feed : /\ feed'[j].id = feed[j].id /\ feed'[j].build = feed[j].build
                                /\ feed'[j].lit = feed[j].lit
                                /\ feed'[j].state = IF j = k THEN "deploying" ELSE feed[j].state
  <2>1. feed' = [feed EXCEPT ![k] = [item EXCEPT !.state = "deploying"]]
    BY <1>1
  <2>2. [item EXCEPT !.state = "deploying"] \in Items
    BY <1>2 DEF Items
  <2>3. feed' \in Seq(Items)
    BY <1>2, <2>1, <2>2
  <2>4. DOMAIN feed' = DOMAIN feed /\ Len(feed') = Len(feed)
    BY <1>2, <2>1
  <2>5. \A j \in DOMAIN feed : feed[j] \in Items
    BY <1>2
  <2> QED
    BY <1>2, <2>1, <2>3, <2>4, <2>5 DEF Items
<1>8. ShapeInv' /\ StartInv' /\ IngestInv'
  BY <1>1, <1>4, <1>5, <1>6, <1>7, StartKept, IngestKept DEF IInv, ShapeInv
<1>9. DeployInv'
  <2>1. Key(item) \notin Subjects(timers, "deploy") \cup deployed
    BY <1>1 DEF IInv, DeployInv
  <2>2. /\ Subjects(timers, "deploy")' = Subjects(timers, "deploy") \cup {Key(item)}
        /\ Single(timers, "deploy")'
    BY <1>3, <1>4, <2>1 DEF Appended, IInv, DeployInv
  <2>3. Key(item) \in Ids \X (1..builds)
    BY <1>2 DEF Key, Items
  <2>4. \A j \in DOMAIN feed : /\ Key(feed'[j]) = Key(feed[j])
                               /\ j # k => Key(feed[j]) # Key(item)
    BY <1>7 DEF Key, IInv, DeployInv
  <2>5. \A j \in DOMAIN feed' :
          feed'[j].state = "ready" =>
            Key(feed'[j]) \notin Subjects(timers', "deploy") \cup deployed'
    <3> SUFFICES ASSUME NEW j \in DOMAIN feed, feed'[j].state = "ready"
                 PROVE  Key(feed[j]) \notin Subjects(timers', "deploy") \cup deployed
      BY <1>1, <1>7, <2>4
    <3>1. j # k /\ feed[j].state = "ready"
      BY <1>7
    <3> QED
      BY <2>2, <2>4, <3>1 DEF IInv, DeployInv
  <2> QED
    BY <1>1, <1>7, <2>1, <2>2, <2>3, <2>5 DEF IInv, DeployInv
<1>10. RemovalInv'
  <2>1. builds <= builds' /\ builds' \in Nat
    BY <1>1, <1>2
  <2> QED
    BY <1>1, <1>2, <1>5, <2>1, RemovalKept DEF IInv, Kept
<1>11. ClicksCredited'
  <2>1. Cardinality(Of(timers', "deploy")) = Cardinality(Of(timers, "deploy")) + 1
    BY <1>3, <1>4 DEF Appended
  <2>2. Cardinality(Of(timers, "deploy")) \in Nat
    BY <1>2, OfIsFinite
  <2>3. saved \in Nat /\ Limit["click"] \in Nat
    BY LimitAssumption DEF LimitAssumption, IInv, TypeOK, Kinds
  <2>4. /\ saved + Cardinality(Of(timers, "deploy")) = Limit["click"] - left["click"]
        /\ saved = Cardinality(deployed)
    BY DEF IInv, ClicksCredited, Of, Pending
  <2>5. saved + Cardinality(Of(timers', "deploy")) = Limit["click"] - left'["click"]
    BY <1>6, <2>1, <2>2, <2>3, <2>4
  <2> QED
    BY <1>1, <2>4, <2>5 DEF ClicksCredited, Of, Pending
<1>12. BadgeCounts'
  BY <1>1, <1>2, <1>7 DEF IInv, BadgeCounts
<1>13. TourInv'
  <2>1. tour.step \in Steps
    BY DEF IInv, TypeOK
  <2> QED
    BY <1>1, <1>5, <2>1, TourKept DEF IInv
<1>14. TypeOK'
  <2>1. \A j \in DOMAIN feed' : /\ feed'[j].state \in {"ready", "deploying", "deployed"}
                                /\ feed'[j].build = builds' /\ feed'[j].lit \in BOOLEAN
    BY <1>1, <1>7 DEF IInv, TypeOK
  <2> QED
    BY <1>1, <1>4, <2>1, TimerTypes DEF IInv, TypeOK
<1> QED
  BY <1>8, <1>9, <1>10, <1>11, <1>12, <1>13, <1>14 DEF IInv

\* A step of the storyboard is chosen.
LEMMA RunStepStep == ASSUME IInv, NEW step \in Steps, RunStep(step) PROVE IInv'
<1> DEFINE t == About("step", "", step)
           ts == Append(timers, t)
           key == Section[step + 1]
<1>1. /\ UNCHANGED <<ready, inputs, builds, badge, deployed, saved, map, overlay, marker,
                     refill, modal, submitted, expansion>>
      /\ Operator("tour", FALSE) /\ tour' = [step |-> step, run |-> TRUE] /\ marks' = {}
      /\ feed' = Unlit(feed) /\ NavTo(key, ts)
  BY DEF RunStep, savedVars, mapVars
<1>2. /\ feed \in Seq(Items) /\ timers \in Seq(Timers) /\ builds \in Nat
      /\ opened \subseteq Lazy /\ ready \subseteq opened
  BY DEF IInv, ShapeInv, TypeOK
<1>3. t \in Timers /\ t.kind = "step" /\ Subject(t) = <<"", step>> /\ t.num = step /\ t.data = <<>>
  <2>1. "step" \in DOMAIN Delay /\ "" \in Names \cup Ids /\ step \in Nat
    BY DEF Delay, Names, Steps
  <2> QED
    BY <2>1, AboutIsOne DEF About, Timer
<1>4. key \in Pages
  BY DEF Section, Steps, Pages
<1> HIDE DEF t, key
<1>5. ts \in Seq(Timers) /\ Appended(t, timers, ts)
  BY <1>2, <1>3, AppendTimer
<1> HIDE DEF ts
<1>6. \A kind : kind # "step" => Kept(kind, timers, ts)
  BY <1>3, <1>5 DEF Appended
<1>7. /\ timers' \in Seq(Timers) /\ StartInv'
      /\ page' = key /\ opened' \subseteq Lazy /\ opened \subseteq opened'
      /\ \A kind : kind # "start" => Kept(kind, ts, timers')
  BY <1>1, <1>2, <1>4, <1>5, <1>6, Navigated DEF IInv
<1>8. /\ Kept("deploy", timers, timers') /\ Kept("remove", timers, timers')
      /\ Kept("fade", timers, timers') /\ Kept("ingest", timers, timers')
  BY <1>6, <1>7, KeptTwice
<1>9. left' \in [Kinds -> Nat] /\ left'["click"] = left["click"]
  BY <1>1, OperatorTypes, KindNames DEF IInv, ShapeInv
<1>10. /\ feed' \in Seq(Items) /\ Alike(feed, feed')
       /\ \A k \in DOMAIN feed : feed'[k].lit = FALSE
  <2>1. feed' = [k \in DOMAIN feed |-> [feed[k] EXCEPT !.lit = FALSE]]
    BY <1>1 DEF Unlit
  <2>2. \A k \in DOMAIN feed : feed[k] \in Items
    BY <1>2
  <2>3. \A k \in DOMAIN feed : /\ feed'[k] \in Items /\ feed'[k].lit = FALSE
                               /\ feed'[k].id = feed[k].id /\ feed'[k].build = feed[k].build
                               /\ feed'[k].state = feed[k].state
    BY <2>1, <2>2 DEF Items
  <2>4. DOMAIN feed' = DOMAIN feed /\ DOMAIN feed = 1..Len(feed) /\ Len(feed) \in Nat
    BY <1>2, <2>1
  <2>5. feed' \in Seq(Items)
    BY <2>1, <2>3, <2>4
  <2> QED
    BY <2>3, <2>4, <2>5 DEF Alike
<1>11. ShapeInv' /\ IngestInv' /\ DeployInv' /\ BadgeCounts' /\ ClicksCredited'
  BY <1>1, <1>2, <1>7, <1>8, <1>9, <1>10, IngestKept, DeployKept, BadgeKept, ClicksKept
     DEF IInv, ShapeInv, savedVars
<1>12. RemovalInv'
  BY <1>1, <1>2, <1>8, RemovalKept DEF IInv, Kept
<1>13. TourInv'
  <2>1. /\ Subjects(ts, "step") = Subjects(timers, "step") \cup {<<"", step>>}
        /\ Ends(ts, "step", step, <<>>)
    BY <1>3, <1>5 DEF Appended
  <2>2. /\ Subjects(timers', "step") = Subjects(ts, "step")
        /\ Ends(timers', "step", step, <<>>)
    BY <1>7, <2>1 DEF Kept
  <2>3. Subjects(timers', "step") \subseteq {""} \X Steps
    <3>1. Subjects(timers, "step") \subseteq {""} \X Steps
      BY DEF IInv, TourInv
    <3>2. <<"", step>> \in {""} \X Steps
      OBVIOUS
    <3> QED
      BY <2>1, <2>2, <3>1, <3>2
  <2>4. tour'.step = step /\ Subjects(timers', "step") # {}
    BY <1>1, <2>1, <2>2
  <2> QED
    BY <2>2, <2>3, <2>4 DEF TourInv
<1>14. TypeOK'
  <2>1. \A k \in DOMAIN feed' : /\ feed'[k].state \in {"ready", "deploying", "deployed"}
                                /\ feed'[k].build = builds' /\ feed'[k].lit \in BOOLEAN
    BY <1>1, <1>10 DEF IInv, TypeOK, Alike
  <2>2. tour' \in [step : Steps, run : BOOLEAN]
    BY <1>1
  <2>3. page' \in Pages /\ ready' \subseteq opened'
    BY <1>1, <1>2, <1>4, <1>7
  <2> QED
    BY <1>1, <1>7, <2>1, <2>2, <2>3, TimerTypes DEF IInv, TypeOK
<1> QED
  BY <1>7, <1>11, <1>12, <1>13, <1>14 DEF IInv

\* Data is accepted: it is the last under way.
LEMMA SubmitStep == ASSUME IInv, NEW text \in Texts, Submit(text) PROVE IInv'
<1> DEFINE carts == ParseRawData(text)
           t == Timer("ingest", "", 0, carts)
<1>1. /\ UNCHANGED <<page, opened, ready, inputs, feed, builds, badge, deployed, saved, map, overlay,
                     marker, refill, modal, tour, marks, expansion>>
      /\ Operator("submit", TRUE) /\ submitted' = carts /\ timers' = Append(timers, t)
  BY DEF Submit, pageVars, feedVars, savedVars, mapVars, tourVars
<1>2. carts \in Seq(Cart)
  BY ParseTypes, TextsAssumption DEF TextsAssumption
<1> HIDE DEF carts
<1>3. t \in Timers /\ t.kind = "ingest" /\ t.num = 0 /\ t.data = carts
  <2>1. "ingest" \in DOMAIN Delay /\ "" \in Names \cup Ids /\ 0 \in Nat
    BY DEF Delay, Names
  <2> QED
    BY <1>2, <2>1, TimerIsOne DEF Timer
<1> HIDE DEF t
<1>4. timers' \in Seq(Timers) /\ Appended(t, timers, timers')
  BY <1>1, <1>3, AppendTimer DEF IInv, ShapeInv
<1>5. /\ Kept("start", timers, timers') /\ Kept("remove", timers, timers')
      /\ Kept("fade", timers, timers') /\ Kept("step", timers, timers')
      /\ Kept("deploy", timers, timers')
  BY <1>3, <1>4 DEF Appended
<1>6. left' \in [Kinds -> Nat] /\ left'["click"] = left["click"]
  BY <1>1, OperatorTypes, KindNames DEF IInv, ShapeInv
<1>7. ShapeInv' /\ StartInv'
  BY <1>1, <1>2, <1>4, <1>5, <1>6, StartKept DEF IInv, ShapeInv
<1>8. DeployInv' /\ BadgeCounts' /\ ClicksCredited'
  <2>1. Alike(feed, feed')
    BY <1>1 DEF Alike
  <2> QED
    BY <1>1, <1>5, <1>6, <2>1, DeployKept, BadgeKept, ClicksKept DEF IInv, ShapeInv, savedVars
<1>9. RemovalInv'
  <2>1. builds \in Nat
    BY DEF IInv, TypeOK
  <2> QED
    BY <1>1, <1>5, <2>1, RemovalKept DEF IInv, Kept
<1>10. IngestInv'
  <2>1. /\ Subjects(timers', "ingest") = Subjects(timers, "ingest") \cup {Subject(t)}
        /\ Ends(timers', "ingest", 0, carts)
    BY <1>3, <1>4 DEF Appended
  <2> QED
    BY <1>1, <2>1 DEF IngestInv
<1>11. TourInv'
  <2>1. tour.step \in Steps
    BY DEF IInv, TypeOK
  <2> QED
    BY <1>1, <1>5, <2>1, TourKept DEF IInv
<1>12. TypeOK'
  BY <1>1, <1>4, TimerTypes DEF IInv, TypeOK
<1> QED
  BY <1>7, <1>8, <1>9, <1>10, <1>11, <1>12 DEF IInv

\* What remains of a feed whose identifiers are distinct when an element leaves it.
LEMMA ElementGone ==
  ASSUME NEW s \in Seq(Items), NEW k \in DOMAIN s,
         \A i, j \in DOMAIN s : s[i].id = s[j].id => i = j
  PROVE  LET r == RemoveAt(s, k)
         IN  /\ r \in Seq(Items)
             /\ \A i, j \in DOMAIN r : r[i].id = r[j].id => i = j
             /\ \A j \in DOMAIN r : \E i \in DOMAIN s : r[j] = s[i]
             /\ \A i \in DOMAIN s : i # k => \E j \in DOMAIN r : r[j] = s[i]
<1> DEFINE r == RemoveAt(s, k)
           n == Len(s)
           Was(j) == IF j < k THEN j ELSE j + 1
<1>1. /\ r \in Seq(Items) /\ Len(r) = n - 1 /\ n \in Nat /\ k \in 1..n
      /\ DOMAIN s = 1..n /\ \A j \in 1..(n - 1) : r[j] = s[IF j < k THEN j ELSE j + 1]
  BY Removed
<1> HIDE DEF r, n
<1>2. DOMAIN r = 1..(n - 1)
  BY <1>1
<1>3. \A j \in 1..(n - 1) : r[j] = s[Was(j)] /\ Was(j) \in 1..n
  BY <1>1
<1>4. \A i, j \in 1..(n - 1) : Was(i) = Was(j) => i = j
  BY <1>1
<1>5. \A i \in 1..n : i # k => \E j \in 1..(n - 1) : Was(j) = i
  <2> SUFFICES ASSUME NEW i \in 1..n, i # k PROVE \E j \in 1..(n - 1) : Was(j) = i
    OBVIOUS
  <2>1. CASE i < k
    BY <1>1, <2>1
  <2>2. CASE k < i
    <3>1. i - 1 \in 1..(n - 1) /\ Was(i - 1) = i
      BY <1>1, <2>2
    <3> QED
      BY <3>1
  <2> QED
    BY <1>1, <2>1, <2>2
<1> HIDE DEF Was
<1>6. \A i, j \in DOMAIN r : r[i].id = r[j].id => i = j
  BY <1>1, <1>2, <1>3, <1>4
<1>7. \A j \in DOMAIN r : \E i \in DOMAIN s : r[j] = s[i]
  BY <1>1, <1>2, <1>3
<1>8. ASSUME NEW i \in DOMAIN s, i # k PROVE \E j \in DOMAIN r : r[j] = s[i]
  <2>1. PICK j \in 1..(n - 1) : Was(j) = i
    BY <1>1, <1>5, <1>8
  <2> QED
    BY <1>2, <1>3, <2>1
<1> QED
  BY <1>1, <1>6, <1>7, <1>8 DEF r

\* A deployment is credited, and its element is to be removed.
LEMMA DeployStep == ASSUME IInv, NEW i \in DOMAIN timers, Deploy(i) PROVE IInv'
<1> DEFINE t == timers[i]
           ts == Others(i)
           u == About("remove", t.what, t.num)
           key == <<t.what, t.num>>
<1>1. /\ UNCHANGED <<page, opened, ready, inputs, builds, badge, map, overlay, marker, refill, modal,
                     submitted, tour, marks, expansion, left>>
      /\ Fires(i, "deploy") /\ saved' = saved + 1 /\ deployed' = deployed \cup {key}
      /\ feed' = [k \in DOMAIN feed |->
                    IF Same(feed[k], t) THEN [feed[k] EXCEPT !.state = "deployed"] ELSE feed[k]]
      /\ timers' = Append(ts, u)
  BY DEF Deploy, Credit, pageVars, mapVars, tourVars
<1>2. feed \in Seq(Items) /\ timers \in Seq(Timers) /\ builds \in Nat
  BY DEF IInv, ShapeInv, TypeOK
<1>3. /\ t \in Timers /\ t.kind = "deploy" /\ Subject(t) = key
      /\ key \in Subjects(timers, "deploy") /\ ts \in Seq(Timers) /\ Expired(t, timers, ts)
  BY <1>1, <1>2, FiredTimer DEF Subject
<1>4. key \in Ids \X (1..builds) /\ key \notin deployed
  BY <1>3 DEF IInv, DeployInv
<1>5. t.what \in Ids /\ t.num \in 1..builds
  BY <1>4
<1> HIDE DEF t, ts
<1>6. u \in Timers /\ u.kind = "remove" /\ Subject(u) = key
  <2>1. "remove" \in DOMAIN Delay /\ t.what \in Names \cup Ids /\ t.num \in Nat
    BY <1>2, <1>5 DEF Delay
  <2> QED
    BY <2>1, AboutIsOne
<1> HIDE DEF u
<1>7. timers' \in Seq(Timers) /\ Appended(u, ts, timers')
  BY <1>1, <1>3, <1>6, AppendTimer
<1>8. /\ \A kind : kind # "deploy" => Kept(kind, timers, ts)
      /\ \A kind : kind # "remove" => Kept(kind, ts, timers')
  BY <1>3, <1>6, <1>7 DEF Expired, Appended
<1>9. /\ Kept("start", timers, timers') /\ Kept("fade", timers, timers')
      /\ Kept("step", timers, timers') /\ Kept("ingest", timers, timers')
      /\ Kept("remove", timers, ts) /\ Kept("deploy", ts, timers')
  BY <1>8, KeptTwice
<1>10. /\ feed' \in Seq(Items) /\ DOMAIN feed' = DOMAIN feed /\ Len(feed') = Len(feed)
       /\ \A k \in DOMAIN feed : /\ feed'[k].id = feed[k].id /\ feed'[k].build = feed[k].build
                                 /\ feed'[k].state = "ready" =>
                                      feed[k].state = "ready" /\ ~Same(feed[k], t)
  <2>1. \A k \in DOMAIN feed : feed[k] \in Items
    BY <1>2
  <2>2. \A k \in DOMAIN feed : [feed[k] EXCEPT !.state = "deployed"] \in Items
    BY <2>1 DEF Items
  <2>3. \A k \in DOMAIN feed : feed'[k] \in Items
    BY <1>1, <2>1, <2>2
  <2>4. DOMAIN feed' = DOMAIN feed /\ DOMAIN feed = 1..Len(feed) /\ Len(feed) \in Nat
    BY <1>1, <1>2
  <2>5. feed' \in Seq(Items) /\ Len(feed') = Len(feed)
    BY <1>1, <2>3, <2>4
  <2>6. \A k \in DOMAIN feed : /\ feed'[k].id = feed[k].id /\ feed'[k].build = feed[k].build
                               /\ feed'[k].state = "ready" =>
                                    feed[k].state = "ready" /\ ~Same(feed[k], t)
    BY <1>1, <2>1 DEF Items
  <2> QED
    BY <2>4, <2>5, <2>6
<1>11. ShapeInv' /\ StartInv' /\ IngestInv'
  BY <1>1, <1>7, <1>9, <1>10, StartKept, IngestKept DEF IInv, ShapeInv
<1>12. DeployInv'
  <2>1. Subjects(timers', "deploy") = Subjects(timers, "deploy") \ {key} /\ Single(timers', "deploy")
    BY <1>3, <1>9 DEF Expired, Kept, IInv, DeployInv
  <2>2. \A k \in DOMAIN feed : Key(feed'[k]) = Key(feed[k])
    BY <1>10 DEF Key
  <2>3. \A k \in DOMAIN feed' :
          feed'[k].state = "ready" =>
            Key(feed'[k]) \notin Subjects(timers', "deploy") \cup deployed'
    <3> SUFFICES ASSUME NEW k \in DOMAIN feed, feed'[k].state = "ready"
                 PROVE  Key(feed[k]) \notin Subjects(timers', "deploy") \cup deployed'
      BY <1>10, <2>2
    <3>1. feed[k].state = "ready" /\ ~Same(feed[k], t)
      BY <1>10
    <3>2. Key(feed[k]) \notin Subjects(timers, "deploy") \cup deployed
      BY <3>1 DEF IInv, DeployInv
    <3> QED
      BY <1>1, <1>3, <2>1, <3>2
  <2>4. deployed' \subseteq Ids \X (1..builds') /\ IsFiniteSet(deployed')
    BY <1>1, <1>4, FS_AddElement DEF IInv, DeployInv
  <2> QED
    BY <1>1, <1>10, <2>1, <2>3, <2>4 DEF IInv, DeployInv
<1>13. RemovalInv'
  <2>1. /\ Subjects(timers', "remove") = Subjects(timers, "remove") \cup {key}
        /\ Subjects(timers', "fade") = Subjects(timers, "fade")
    BY <1>6, <1>7, <1>9 DEF Appended, Kept
  <2>2. key[1] = t.what /\ <<t.what, t.num>> \in deployed'
    BY <1>1
  <2>3. ASSUME NEW s \in Subjects(timers', "remove") \cup Subjects(timers', "fade")
        PROVE  \E b \in 1..builds' : <<s[1], b>> \in deployed'
    <3>1. CASE s = key
      BY <1>1, <1>5, <2>2, <3>1
    <3>2. CASE s \in Subjects(timers, "remove") \cup Subjects(timers, "fade")
      BY <1>1, <3>2 DEF IInv, RemovalInv
    <3> QED
      BY <2>1, <2>3, <3>1, <3>2
  <2> QED
    BY <2>3 DEF RemovalInv
<1>14. ClicksCredited'
  <2>1. Cardinality(Of(timers', "deploy")) = Cardinality(Of(timers, "deploy")) - 1
    BY <1>3, <1>9 DEF Expired, Kept
  <2>2. Cardinality(Of(timers, "deploy")) \in Nat
    BY <1>2, OfIsFinite
  <2>3. saved \in Nat /\ Limit["click"] \in Nat /\ left["click"] \in Nat
    BY LimitAssumption DEF LimitAssumption, IInv, TypeOK, ShapeInv, Kinds
  <2>4. /\ saved + Cardinality(Of(timers, "deploy")) = Limit["click"] - left["click"]
        /\ saved = Cardinality(deployed)
    BY DEF IInv, ClicksCredited, Of, Pending
  <2>5. saved' + Cardinality(Of(timers', "deploy")) = Limit["click"] - left'["click"]
    BY <1>1, <2>1, <2>2, <2>3, <2>4
  <2>6. saved' = Cardinality(deployed')
    BY <1>1, <1>4, <2>4, FS_AddElement DEF IInv, DeployInv
  <2> QED
    BY <2>5, <2>6 DEF ClicksCredited, Of, Pending
<1>15. BadgeCounts'
  BY <1>1, <1>2, <1>10 DEF IInv, BadgeCounts
<1>16. TourInv'
  <2>1. tour.step \in Steps
    BY DEF IInv, TypeOK
  <2> QED
    BY <1>1, <1>9, <2>1, TourKept DEF IInv
<1>17. TypeOK'
  <2>1. saved' \in Nat
    BY <1>1 DEF IInv, TypeOK
  <2>2. \A k \in DOMAIN feed' : /\ feed'[k].state \in {"ready", "deploying", "deployed"}
                                /\ feed'[k].build = builds' /\ feed'[k].lit \in BOOLEAN
    BY <1>1, <1>10, FeedTypes DEF IInv, TypeOK
  <2> QED
    BY <1>1, <1>7, <2>1, <2>2, TimerTypes DEF IInv, TypeOK
<1> QED
  BY <1>11, <1>12, <1>13, <1>14, <1>15, <1>16, <1>17 DEF IInv

\* The element with the identifier of a deployed one begins to fade.
LEMMA FadeStep == ASSUME IInv, NEW i \in DOMAIN timers, Fade(i) PROVE IInv'
<1> DEFINE t == timers[i]
           ts == Others(i)
<1>1. /\ UNCHANGED <<page, opened, ready, inputs, feed, builds, badge, deployed, saved, map, overlay,
                     marker, refill, modal, submitted, tour, marks, expansion, left>>
      /\ Fires(i, "remove")
  BY DEF Fade, pageVars, feedVars, savedVars, mapVars, tourVars
<1>2. feed \in Seq(Items) /\ timers \in Seq(Timers) /\ builds \in Nat
  BY DEF IInv, ShapeInv, TypeOK
<1>3. /\ t \in Timers /\ t.kind = "remove" /\ <<t.what, t.num>> \in Subjects(timers, "remove")
      /\ ts \in Seq(Timers) /\ Expired(t, timers, ts)
  BY <1>1, <1>2, FiredTimer DEF Subject
<1>4. PICK b \in 1..builds : <<t.what, b>> \in deployed
  <2>1. <<t.what, t.num>>[1] = t.what
    OBVIOUS
  <2> QED
    BY <1>3, <2>1 DEF IInv, RemovalInv
<1>5. \/ timers' = ts
      \/ \E k \in DOMAIN feed : /\ feed[k].id = t.what
                                /\ timers' = Append(ts, About("fade", feed[k].id, feed[k].build))
  BY DEF Fade, Fading, SameId
<1> HIDE DEF t, ts
<1>6. /\ \A kind : kind # "remove" => Kept(kind, timers, ts)
      /\ Subjects(ts, "remove") \subseteq Subjects(timers, "remove")
  BY <1>3 DEF Expired
<1>7. /\ timers' \in Seq(Timers)
      /\ \A kind : kind \notin {"remove", "fade"} => Kept(kind, timers, timers')
      /\ \A s \in Subjects(timers', "remove") \cup Subjects(timers', "fade") :
           s \in Subjects(timers, "remove") \cup Subjects(timers, "fade") \/ s[1] = t.what
  <2>1. CASE timers' = ts
    BY <1>3, <1>6, <2>1 DEF Kept
  <2>2. ASSUME NEW k \in DOMAIN feed, feed[k].id = t.what,
               timers' = Append(ts, About("fade", feed[k].id, feed[k].build))
        PROVE  /\ timers' \in Seq(Timers)
               /\ \A kind : kind \notin {"remove", "fade"} => Kept(kind, timers, timers')
               /\ \A s \in Subjects(timers', "remove") \cup Subjects(timers', "fade") :
                    \/ s \in Subjects(timers, "remove") \cup Subjects(timers, "fade")
                    \/ s[1] = t.what
    <3> DEFINE u == About("fade", feed[k].id, feed[k].build)
    <3>1. "fade" \in DOMAIN Delay /\ feed[k].id \in Names \cup Ids /\ feed[k].build \in Nat
      <4>1. feed[k] \in Items
        BY <1>2
      <4> QED
        BY <4>1 DEF Delay, Items
    <3>2. u \in Timers /\ u.kind = "fade" /\ Subject(u) = <<t.what, feed[k].build>>
      BY <2>2, <3>1, AboutIsOne
    <3> HIDE DEF u
    <3>3. timers' \in Seq(Timers) /\ Appended(u, ts, timers')
      BY <1>3, <2>2, <3>2, AppendTimer DEF u
    <3>4. /\ \A kind : kind # "fade" => Kept(kind, ts, timers')
          /\ Subjects(timers', "fade") = Subjects(ts, "fade") \cup {<<t.what, feed[k].build>>}
      BY <3>2, <3>3 DEF Appended
    <3>5. \A kind : kind \notin {"remove", "fade"} => Kept(kind, timers, timers')
      BY <1>6, <3>4, KeptTwice
    <3>6. /\ Subjects(timers', "remove") = Subjects(ts, "remove")
          /\ Subjects(ts, "fade") = Subjects(timers, "fade")
      BY <1>6, <3>4 DEF Kept
    <3>7. <<t.what, feed[k].build>>[1] = t.what
      OBVIOUS
    <3> QED
      BY <1>6, <3>3, <3>4, <3>5, <3>6, <3>7
  <2> QED
    BY <1>5, <2>1, <2>2
<1>8. /\ Kept("start", timers, timers') /\ Kept("deploy", timers, timers')
      /\ Kept("step", timers, timers') /\ Kept("ingest", timers, timers')
  BY <1>7
<1>9. ShapeInv' /\ StartInv' /\ IngestInv'
  BY <1>1, <1>7, <1>8, StartKept, IngestKept DEF IInv, ShapeInv
<1>10. DeployInv' /\ BadgeCounts' /\ ClicksCredited'
  <2>1. Alike(feed, feed')
    BY <1>1 DEF Alike
  <2> QED
    BY <1>1, <1>8, <2>1, DeployKept, BadgeKept, ClicksKept DEF IInv, ShapeInv, savedVars
<1>11. RemovalInv'
  BY <1>1, <1>4, <1>7 DEF IInv, RemovalInv
<1>12. TourInv'
  <2>1. tour.step \in Steps
    BY DEF IInv, TypeOK
  <2> QED
    BY <1>1, <1>8, <2>1, TourKept DEF IInv
<1>13. TypeOK'
  BY <1>1, <1>7, TimerTypes DEF IInv, TypeOK
<1> QED
  BY <1>9, <1>10, <1>11, <1>12, <1>13 DEF IInv

\* An element leaves the page.
LEMMA RemoveStep == ASSUME IInv, NEW i \in DOMAIN timers, RemoveElement(i) PROVE IInv'
<1> DEFINE found == {k \in DOMAIN feed : Same(feed[k], timers[i])}
<1>1. /\ UNCHANGED <<page, opened, ready, inputs, builds, deployed, saved, map, overlay,
                     marker, refill, modal, submitted, tour, marks, expansion, left>>
      /\ Fires(i, "fade") /\ timers' = Others(i)
      /\ feed' = IF found = {} THEN feed ELSE RemoveAt(feed, CHOOSE k \in found : TRUE)
      /\ badge' = Len(feed')
  BY DEF RemoveElement, Count, pageVars, savedVars, mapVars, tourVars
<1>2. feed \in Seq(Items) /\ timers \in Seq(Timers) /\ builds \in Nat
  BY DEF IInv, ShapeInv, TypeOK
<1>3. /\ timers' \in Seq(Timers)
      /\ \A kind : kind # "fade" => Kept(kind, timers, timers')
      /\ Subjects(timers', "fade") \subseteq Subjects(timers, "fade")
  BY <1>1, <1>2, FiredTimer DEF Expired
<1>4. \A j, k \in DOMAIN feed : feed[j].id = feed[k].id => j = k
  BY DEF IInv, DeployInv
<1>5. /\ feed' \in Seq(Items)
      /\ \A j, k \in DOMAIN feed' : feed'[j].id = feed'[k].id => j = k
      /\ \A j \in DOMAIN feed' : \E k \in DOMAIN feed : feed'[j] = feed[k]
  <2>1. CASE found = {}
    BY <1>1, <1>2, <1>4, <2>1
  <2>2. CASE found # {}
    <3>1. PICK k \in DOMAIN feed : feed' = RemoveAt(feed, k)
      BY <1>1, <2>2
    <3> QED
      BY <1>2, <1>4, <3>1, ElementGone
  <2> QED
    BY <2>1, <2>2
<1>6. /\ Kept("start", timers, timers') /\ Kept("deploy", timers, timers')
      /\ Kept("step", timers, timers') /\ Kept("ingest", timers, timers')
      /\ Subjects(timers', "remove") = Subjects(timers, "remove")
  BY <1>3 DEF Kept
<1>7. ShapeInv' /\ StartInv' /\ IngestInv' /\ ClicksCredited' /\ BadgeCounts'
  BY <1>1, <1>3, <1>5, <1>6, StartKept, IngestKept, ClicksKept
     DEF IInv, ShapeInv, savedVars, BadgeCounts
<1>8. DeployInv'
  <2>1. /\ Subjects(timers', "deploy") = Subjects(timers, "deploy")
        /\ Single(timers', "deploy")
    BY <1>6 DEF Kept, IInv, DeployInv
  <2>2. \A j \in DOMAIN feed' :
          feed'[j].state = "ready" => Key(feed'[j]) \notin Subjects(timers', "deploy") \cup deployed'
    <3> SUFFICES ASSUME NEW j \in DOMAIN feed', feed'[j].state = "ready"
                 PROVE  Key(feed'[j]) \notin Subjects(timers, "deploy") \cup deployed
      BY <1>1, <2>1
    <3>1. PICK k \in DOMAIN feed : feed'[j] = feed[k]
      BY <1>5
    <3>2. Key(feed[k]) \notin Subjects(timers, "deploy") \cup deployed
      BY <3>1 DEF IInv, DeployInv
    <3> QED
      BY <3>1, <3>2
  <2> QED
    BY <1>1, <1>5, <2>1, <2>2 DEF IInv, DeployInv
<1>9. RemovalInv'
  BY <1>1, <1>2, <1>3, <1>6, RemovalKept DEF IInv
<1>10. TourInv'
  <2>1. tour.step \in Steps
    BY DEF IInv, TypeOK
  <2> QED
    BY <1>1, <1>6, <2>1, TourKept DEF IInv
<1>11. TypeOK'
  <2>1. badge' \in Nat
    BY <1>1, <1>5
  <2>2. \A j \in DOMAIN feed' : /\ feed'[j].state \in {"ready", "deploying", "deployed"}
                                /\ feed'[j].build = builds' /\ feed'[j].lit \in BOOLEAN
    <3> SUFFICES ASSUME NEW j \in DOMAIN feed'
                 PROVE  /\ feed'[j].state \in {"ready", "deploying", "deployed"}
                        /\ feed'[j].build = builds /\ feed'[j].lit \in BOOLEAN
      BY <1>1
    <3>1. PICK k \in DOMAIN feed : feed'[j] = feed[k]
      BY <1>5
    <3> QED
      BY <3>1 DEF IInv, TypeOK
  <2> QED
    BY <1>1, <1>3, <2>1, <2>2, TimerTypes DEF IInv, TypeOK
<1> QED
  BY <1>7, <1>8, <1>9, <1>10, <1>11 DEF IInv

\* The map of the seed is shown, unless there is a map.
LEMMA InitMapTypes ==
  ASSUME InitMap, map \in Seq(Cart), marker \in {Nobody, "shown", "removed"}
  PROVE  /\ map' = map \/ map = Unmapped
         /\ map' \in Seq(Cart) /\ marker' \in {Nobody, "shown", "removed"}
BY SeedAssumption DEF SeedAssumption, InitMap, RenderCarts, mapVars

\* A section starts.
LEMMA StartStep == ASSUME IInv, NEW i \in DOMAIN timers, StartSection(i) PROVE IInv'
<1> DEFINE t == timers[i]
<1>1. /\ UNCHANGED <<page, opened, inputs, deployed, saved, modal, submitted, tour, marks, left>>
      /\ Fires(i, "start") /\ timers' = Others(i) /\ ready' = ready \cup {t.what}
  BY DEF StartSection, savedVars, tourVars
<1>2. timers \in Seq(Timers) /\ builds \in Nat /\ badge \in Nat /\ feed \in Seq(Items)
  BY DEF IInv, ShapeInv, TypeOK
<1>3. /\ <<t.what, t.num>> \in Subjects(timers, "start") /\ timers' \in Seq(Timers)
      /\ t.kind = "start" /\ Expired(t, timers, timers')
  BY <1>1, <1>2, FiredTimer DEF Subject
<1>4. t.what \in opened \ ready /\ t.num = 0
  BY <1>3 DEF IInv, StartInv
<1>5. StartInv'
  <2>1. /\ Subjects(timers', "start") = Subjects(timers, "start") \ {<<t.what, 0>>}
        /\ Single(timers', "start")
    BY <1>3, <1>4 DEF Expired, IInv, StartInv, Subject
  <2> QED
    BY <1>1, <2>1 DEF IInv, StartInv
<1>6. /\ Kept("deploy", timers, timers') /\ Kept("remove", timers, timers')
      /\ Kept("fade", timers, timers') /\ Kept("step", timers, timers')
      /\ Kept("ingest", timers, timers')
  BY <1>3 DEF Expired
<1>7. /\ map' = map \/ map = Unmapped
      /\ map' \in Seq(Cart) /\ marker' \in {Nobody, "shown", "removed"}
      /\ refill'.from \in {Nobody, "seed", "ingest"}
  <2>1. CASE InitMap /\ refill' = Invented
    BY <2>1, InitMapTypes DEF Invented, IInv, ShapeInv, TypeOK
  <2>2. CASE UNCHANGED <<mapVars, refill>>
    BY <2>2 DEF mapVars, IInv, ShapeInv, TypeOK
  <2> QED
    BY <2>1, <2>2 DEF StartSection
<1>8. /\ DeployInv' /\ BadgeCounts' /\ feed' \in Seq(Items)
      /\ builds' \in Nat /\ builds <= builds' /\ badge' \in Nat
      /\ \A k \in DOMAIN feed' : feed'[k].build = builds'
  <2>1. CASE UNCHANGED feedVars
    <3>1. UNCHANGED <<feed, builds, badge>> /\ Alike(feed, feed')
      BY <2>1 DEF feedVars, Alike
    <3> QED
      BY <1>1, <1>2, <1>6, <3>1, DeployKept, BadgeKept DEF IInv, TypeOK
  <2>2. CASE UpdateOrchestrator(inputs)
    <3> DEFINE ids == Each(Id, Offered(inputs.temp, inputs.neighborhood, inputs.telemetry))
    <3>1. BuildFeed(ids) /\ badge' = Len(ids)
      BY <2>2 DEF UpdateOrchestrator
    <3>2. ids \in Seq(Ids) /\ \A j, k \in DOMAIN ids : ids[j] = ids[k] => j = k
      BY OrchestratorIds DEF Distinct
    <3> HIDE DEF ids
    <3>3. /\ DeployInv' /\ feed' \in Seq(Items) /\ Len(feed') = Len(ids)
          /\ \A k \in DOMAIN feed' : feed'[k].build = builds'
      BY <1>1, <1>2, <1>6, <3>1, <3>2, DeployBuilt DEF IInv
    <3>4. builds' = builds + 1 /\ Len(ids) \in Nat
      BY <3>1, <3>2 DEF BuildFeed
    <3> QED
      BY <1>2, <3>1, <3>3, <3>4 DEF BadgeCounts
  <2> QED
    BY <2>1, <2>2 DEF StartSection
<1>9. ShapeInv' /\ IngestInv' /\ ClicksCredited'
  BY <1>1, <1>3, <1>6, <1>7, <1>8, IngestKept, ClicksKept DEF IInv, ShapeInv, savedVars
<1>10. RemovalInv'
  BY <1>1, <1>2, <1>6, <1>8, RemovalKept DEF IInv, Kept
<1>11. TourInv'
  <2>1. tour.step \in Steps
    BY DEF IInv, TypeOK
  <2> QED
    BY <1>1, <1>6, <2>1, TourKept DEF IInv
<1>12. TypeOK'
  <2>1. ready' \subseteq opened'
    BY <1>1, <1>4 DEF IInv, TypeOK
  <2>2. \A k \in DOMAIN map' : map'[k] \in Cart
    BY <1>7
  <2> QED
    BY <1>1, <1>3, <1>7, <1>8, <2>1, <2>2, FeedTypes, TimerTypes DEF IInv, TypeOK
<1> QED
  BY <1>5, <1>8, <1>9, <1>10, <1>11, <1>12 DEF IInv

\* A step of the storyboard is shown.
LEMMA ShowStepStep == ASSUME IInv, NEW i \in DOMAIN timers, ShowStep(i) PROVE IInv'
<1> DEFINE t == timers[i]
           ts == Others(i)
           step == t.num
           u == About("mark", "", 0)
<1>1. /\ UNCHANGED <<page, opened, ready, deployed, saved, refill, modal, submitted, tour, left>>
      /\ Fires(i, "step") /\ marks' = Mark(step) \cup (IF step = 0 THEN {"alert"} ELSE {})
      /\ timers' = IF step = 1 THEN Append(ts, u) ELSE ts
      /\ InitMap \/ UNCHANGED mapVars
  BY DEF ShowStep, pageVars, savedVars
<1>2. /\ feed \in Seq(Items) /\ timers \in Seq(Timers) /\ builds \in Nat /\ badge \in Nat
      /\ tour.step \in Steps
  BY DEF IInv, ShapeInv, TypeOK
<1>3. /\ <<t.what, step>> \in Subjects(timers, "step") /\ ts \in Seq(Timers)
      /\ t.kind = "step" /\ Expired(t, timers, ts)
  BY <1>1, <1>2, FiredTimer DEF Subject
<1>4. step \in Steps
  BY <1>3 DEF IInv, TourInv
<1>5. \/ Listen([inputs EXCEPT !.temp = 38, !.telemetry = "strain"])
      \/ /\ feed' = [k \in DOMAIN feed |-> [feed[k] EXCEPT !.lit = @ \/ (step = 3 /\ k = 1)]]
         /\ UNCHANGED <<builds, badge, inputs>>
  BY DEF ShowStep
<1> HIDE DEF t, ts
<1>6. /\ timers' \in Seq(Timers) /\ \A kind : kind # "mark" => Kept(kind, ts, timers')
  <2>1. CASE step = 1
    <3>1. u \in Timers /\ u.kind = "mark"
      <4>1. "mark" \in DOMAIN Delay /\ "" \in Names \cup Ids /\ 0 \in Nat
        BY DEF Delay, Names
      <4> QED
        BY <4>1, AboutIsOne
    <3> HIDE DEF u
    <3> QED
      BY <1>1, <1>3, <2>1, <3>1, AppendTimer DEF Appended
  <2>2. CASE step # 1
    BY <1>1, <1>3, <2>2, KeptSame
  <2> QED
    BY <2>1, <2>2
<1>7. \A kind : kind # "step" => Kept(kind, timers, ts)
  BY <1>3 DEF Expired
<1>8. /\ Kept("start", timers, timers') /\ Kept("deploy", timers, timers')
      /\ Kept("remove", timers, timers') /\ Kept("fade", timers, timers')
      /\ Kept("ingest", timers, timers') /\ Kept("step", ts, timers')
  BY <1>6, <1>7, KeptTwice
<1>9. /\ map' = map \/ map = Unmapped
      /\ map' \in Seq(Cart) /\ marker' \in {Nobody, "shown", "removed"}
  BY <1>1, InitMapTypes DEF mapVars, IInv, ShapeInv, TypeOK
<1>10. /\ DeployInv' /\ BadgeCounts' /\ feed' \in Seq(Items)
       /\ builds' \in Nat /\ builds <= builds' /\ badge' \in Nat
       /\ \A k \in DOMAIN feed' : feed'[k].build = builds'
       /\ inputs' \in [temp : Temps, neighborhood : Neighborhoods, telemetry : Telemetries]
  <2> DEFINE in == [inputs EXCEPT !.temp = 38, !.telemetry = "strain"]
  <2>1. CASE Listen(in)
    <3>1. in \in [temp : Temps, neighborhood : Neighborhoods, telemetry : Telemetries]
      <4>1. inputs \in [temp : Temps, neighborhood : Neighborhoods, telemetry : Telemetries]
        BY DEF IInv, TypeOK
      <4>2. 38 \in Temps /\ "strain" \in Telemetries
        BY DEF Temps, Telemetries
      <4> QED
        BY <4>1, <4>2
    <3> HIDE DEF in
    <3> QED
      BY <1>1, <1>8, <2>1, <3>1, Listened
  <2>2. CASE /\ feed' = [k \in DOMAIN feed |-> [feed[k] EXCEPT !.lit = @ \/ (step = 3 /\ k = 1)]]
             /\ UNCHANGED <<builds, badge, inputs>>
    <3>1. \A k \in DOMAIN feed : feed[k] \in Items
      BY <1>2
    <3>2. \A k \in DOMAIN feed : /\ feed'[k] \in Items
                                 /\ feed'[k].id = feed[k].id /\ feed'[k].build = feed[k].build
                                 /\ feed'[k].state = feed[k].state
      BY <2>2, <3>1 DEF Items
    <3>3. DOMAIN feed' = DOMAIN feed /\ DOMAIN feed = 1..Len(feed) /\ Len(feed) \in Nat
      BY <1>2, <2>2
    <3>4. feed' \in Seq(Items) /\ Alike(feed, feed')
      BY <2>2, <3>2, <3>3 DEF Alike
    <3>5. \A k \in DOMAIN feed' : feed'[k].build = builds'
      BY <2>2, <3>2, <3>3 DEF IInv, TypeOK
    <3> QED
      <4>1. DeployInv' /\ BadgeCounts'
        BY <1>1, <1>2, <1>8, <2>2, <3>4, DeployKept, BadgeKept DEF IInv
      <4>2. inputs' \in [temp : Temps, neighborhood : Neighborhoods, telemetry : Telemetries]
        BY <2>2 DEF IInv, TypeOK
      <4> QED
        BY <1>2, <2>2, <3>4, <3>5, <4>1, <4>2
  <2> QED
    BY <1>5, <2>1, <2>2
<1>11. ShapeInv' /\ StartInv' /\ IngestInv' /\ ClicksCredited'
  BY <1>1, <1>6, <1>8, <1>9, <1>10, StartKept, IngestKept, ClicksKept
     DEF IInv, ShapeInv, savedVars
<1>12. RemovalInv'
  BY <1>1, <1>2, <1>8, <1>10, RemovalKept DEF IInv, Kept
<1>13. TourInv'
  <2>1. Subjects(timers', "step") = Subjects(ts, "step")
    BY <1>8 DEF Kept
  <2>2. Subjects(ts, "step") \subseteq Subjects(timers, "step")
    BY <1>3 DEF Expired
  <2>3. marks \subseteq marks' /\ Target[step + 1] \in marks'
    BY <1>1 DEF Mark
  <2>4. ASSUME tour.run, Subjects(ts, "step") # {} PROVE Ends(timers', "step", tour.step, <<>>)
    <3>1. Ends(timers, "step", tour.step, <<>>)
      BY <2>2, <2>4 DEF IInv, TourInv
    <3> QED
      BY <1>3, <1>8, <2>4, <3>1 DEF Expired, Kept
  <2>5. ASSUME tour.run, Subjects(ts, "step") = {} PROVE Target[tour.step + 1] \in marks'
    <3>1. Ends(timers, "step", tour.step, <<>>)
      BY <1>3, <2>5 DEF IInv, TourInv
    <3>2. step = tour.step
      BY <1>3, <2>5, <3>1 DEF Expired
    <3> QED
      BY <2>3, <3>2
  <2> QED
    BY <1>1, <2>1, <2>2, <2>4, <2>5 DEF IInv, TourInv
<1>14. TypeOK'
  <2>1. marks' \subseteq {Target[k] : k \in 1..5} \cup {"alert", "cart"}
    <3>1. step + 1 \in 1..5
      BY <1>4 DEF Steps
    <3> QED
      BY <1>1, <3>1 DEF IInv, TypeOK, Mark
  <2>2. \A k \in DOMAIN map' : map'[k] \in Cart
    BY <1>9
  <2> QED
    BY <1>1, <1>6, <1>9, <1>10, <2>1, <2>2, FeedTypes, TimerTypes DEF IInv, TypeOK
<1> QED
  BY <1>10, <1>11, <1>12, <1>13, <1>14 DEF IInv

\* Data that was accepted replaces what the pages show.
LEMMA IngestStep == ASSUME IInv, NEW i \in DOMAIN timers, Ingest(i) PROVE IInv'
<1> DEFINE t == timers[i]
           ts == Others(i)
           carts == t.data
           ids == IngestActions(carts)
<1>1. /\ UNCHANGED <<ready, inputs, deployed, saved, submitted, tour, expansion, left>>
      /\ Fires(i, "ingest") /\ RenderCarts(carts) /\ marks' = marks \ {"cart"}
      /\ refill'.from = "ingest" /\ BuildFeed(ids) /\ badge' = Len(Warnings(carts))
      /\ modal' = FALSE /\ NavTo("operations", ts)
  BY DEF Ingest, savedVars
<1>2. /\ feed \in Seq(Items) /\ timers \in Seq(Timers) /\ builds \in Nat
      /\ opened \subseteq Lazy /\ ready \subseteq opened /\ tour.step \in Steps
  BY DEF IInv, ShapeInv, TypeOK
<1>3. /\ t \in Timers /\ Subject(t) \in Subjects(timers, "ingest") /\ ts \in Seq(Timers)
      /\ t.kind = "ingest" /\ Expired(t, timers, ts)
  BY <1>1, <1>2, FiredTimer
<1>4. carts \in Seq(Cart)
  BY <1>3 DEF Timers
<1> HIDE DEF carts, ts, t
<1>5. \A kind : kind # "ingest" => Kept(kind, timers, ts)
  BY <1>3 DEF Expired
<1>6. /\ timers' \in Seq(Timers) /\ StartInv'
      /\ page' = "operations" /\ opened' \subseteq Lazy /\ opened \subseteq opened'
      /\ \A kind : kind # "start" => Kept(kind, ts, timers')
  <2>1. "operations" \in Pages
    BY DEF Pages
  <2> QED
    BY <1>1, <1>2, <1>3, <1>5, <2>1, Navigated DEF IInv
<1>7. /\ Kept("deploy", timers, timers') /\ Kept("remove", timers, timers')
      /\ Kept("fade", timers, timers') /\ Kept("step", timers, timers')
      /\ Kept("ingest", ts, timers')
  BY <1>5, <1>6, KeptTwice
<1>8. /\ ids \in Seq(Ids) /\ \A j, k \in DOMAIN ids : ids[j] = ids[k] => j = k
      /\ IF badge' = 0 THEN ids = <<Stable>> ELSE Len(ids) = badge'
      /\ badge' \in Nat
  BY <1>1, <1>4, IngestIds, CartsCounted DEF Distinct
<1> HIDE DEF ids
<1>9. /\ DeployInv' /\ feed' \in Seq(Items) /\ Len(feed') = Len(ids) /\ builds' \in Nat
      /\ \A k \in DOMAIN feed' : feed'[k].build = builds' /\ feed'[k].id = ids[k]
  BY <1>1, <1>2, <1>7, <1>8, DeployBuilt DEF IInv
<1>10. builds' = builds + 1
  BY <1>1 DEF BuildFeed
<1>11. BadgeCounts'
  <2>1. CASE badge' = 0
    <3>1. ids = <<Stable>> /\ Len(ids) = 1
      BY <1>8, <2>1
    <3>2. 1 \in DOMAIN feed'
      BY <1>9, <3>1
    <3>3. feed'[1].id = Stable
      BY <1>9, <3>1, <3>2
    <3> QED
      BY <1>9, <2>1, <3>1, <3>3 DEF BadgeCounts, Stable, Id
  <2>2. CASE badge' # 0
    BY <1>8, <1>9, <2>2 DEF BadgeCounts
  <2> QED
    BY <2>1, <2>2
<1>12. /\ map' = carts /\ marker' \in {Nobody, "shown", "removed"}
  BY <1>1 DEF RenderCarts
<1>13. ShapeInv' /\ ClicksCredited'
  BY <1>1, <1>4, <1>6, <1>7, <1>9, <1>12, ClicksKept DEF IInv, ShapeInv, savedVars
<1>14. RemovalInv'
  BY <1>1, <1>2, <1>7, <1>10, RemovalKept DEF IInv, Kept
<1>15. IngestInv'
  <2>1. Subjects(timers', "ingest") = Subjects(ts, "ingest")
    BY <1>7 DEF Kept
  <2>2. Ends(timers, "ingest", 0, submitted)
    BY <1>3 DEF IInv, IngestInv
  <2>3. ASSUME Subjects(ts, "ingest") # {} PROVE Ends(timers', "ingest", 0, submitted)
    BY <1>3, <1>7, <2>2, <2>3 DEF Expired, Kept
  <2>4. ASSUME Subjects(ts, "ingest") = {} PROVE map' = submitted
    BY <1>3, <1>12, <2>2, <2>4 DEF Expired, carts
  <2> QED
    BY <1>1, <2>1, <2>3, <2>4 DEF IngestInv
<1>16. TourInv'
  <2>1. \A k \in 1..5 : Target[k] # "cart"
    BY DEF Target
  <2> QED
    BY <1>1, <1>2, <1>7, <2>1, TourKept DEF IInv
<1>17. TypeOK'
  <2>1. \A k \in DOMAIN map' : map'[k] \in Cart
    BY <1>4, <1>12
  <2>2. ready' \subseteq opened' /\ page' \in Pages
    BY <1>1, <1>2, <1>6 DEF Pages
  <2>3. \A k \in DOMAIN feed' : /\ feed'[k].state \in {"ready", "deploying", "deployed"}
                                /\ feed'[k].build = builds' /\ feed'[k].lit \in BOOLEAN
    BY <1>9, FeedTypes
  <2> QED
    BY <1>1, <1>6, <1>8, <1>9, <1>12, <2>1, <2>2, <2>3, TimerTypes DEF IInv, TypeOK
<1> QED
  BY <1>6, <1>9, <1>11, <1>13, <1>14, <1>15, <1>16, <1>17 DEF IInv

-----------------------------------------------------------------------------
(* The theorems.                                                           *)

\* The seed has offered actions that differ, and nothing is pending.
LEMMA InitInv == Init => IInv
<1> SUFFICES ASSUME Init PROVE IInv
  OBVIOUS
<1>1. /\ page = "command-center" /\ opened = {} /\ ready = {}
      /\ inputs = [temp |-> 34, neighborhood |-> "typical-suburban", telemetry |-> "normal"]
      /\ feed = <<>> /\ builds = 0 /\ badge = 0 /\ deployed = {} /\ saved = 0
      /\ map = <<>> /\ marker = Nobody /\ refill = [from |-> Nobody, queue |-> <<>>]
      /\ modal = FALSE /\ submitted = <<>> /\ tour = [step |-> 0, run |-> FALSE] /\ marks = {}
      /\ timers = <<>> /\ left = Limit
  BY DEF Init, Unmapped
<1>2. \A kind : Of(timers, kind) = {} /\ Subjects(timers, kind) = {}
  BY <1>1 DEF Of, Subjects, SubjectsAt
<1>3. TypeOK
  <2>1. inputs \in [temp : Temps, neighborhood : Neighborhoods, telemetry : Telemetries]
    <3>1. 34 \in Temps /\ "typical-suburban" \in Neighborhoods /\ "normal" \in Telemetries
      BY DEF Temps, Neighborhoods, Telemetries
    <3> QED
      BY <1>1, <3>1
  <2>2. tour \in [step : Steps, run : BOOLEAN]
    <3>1. 0 \in Steps
      BY DEF Steps
    <3> QED
      BY <1>1, <3>1
  <2>3. DOMAIN feed = {} /\ DOMAIN timers = {} /\ DOMAIN map = {}
    BY <1>1
  <2>4. page \in Pages
    BY <1>1 DEF Pages
  <2>5. /\ builds \in Nat /\ badge \in Nat /\ saved \in Nat /\ marker = Nobody
        /\ refill.from = Nobody /\ modal \in BOOLEAN /\ marks = {} /\ opened = {} /\ ready = {}
    BY <1>1
  <2> QED
    BY <2>1, <2>2, <2>3, <2>4, <2>5 DEF TypeOK
<1>4. ShapeInv
  BY <1>1, LimitAssumption DEF LimitAssumption, ShapeInv
<1>5. StartInv /\ DeployInv /\ RemovalInv /\ IngestInv /\ TourInv
  <2>1. IsFiniteSet(deployed)
    BY <1>1, FS_EmptySet
  <2>2. StartInv /\ RemovalInv
    BY <1>2 DEF StartInv, RemovalInv, Single
  <2>3. DeployInv
    <3>1. DOMAIN feed = {} /\ deployed = {}
      BY <1>1
    <3> QED
      BY <1>2, <2>1, <3>1 DEF DeployInv, Single
  <2>4. IngestInv /\ TourInv
    BY <1>1, <1>2 DEF IngestInv, TourInv
  <2> QED
    BY <2>2, <2>3, <2>4
<1>6. ClicksCredited
  <2>1. Cardinality(Of(timers, "deploy")) = 0 /\ Cardinality(deployed) = 0
    BY <1>1, <1>2, FS_EmptySet
  <2>2. Limit["click"] \in Nat
    BY LimitAssumption DEF LimitAssumption, Kinds
  <2> QED
    BY <1>1, <2>1, <2>2 DEF ClicksCredited, Of, Pending
<1>7. BadgeCounts
  BY <1>1 DEF BadgeCounts
<1> QED
  BY <1>3, <1>4, <1>5, <1>6, <1>7 DEF IInv

\* Every step keeps the invariant: one case per action.
LEMMA NextInv == IInv /\ [Next]_vars => IInv'
<1> SUFFICES ASSUME IInv, [Next]_vars PROVE IInv'
  OBVIOUS
<1>1. CASE Tick
  BY <1>1, TickStep
<1>2. ASSUME NEW i \in DOMAIN timers, Fire(i) PROVE IInv'
  BY <1>2, StartStep, DeployStep, FadeStep, RemoveStep, ShowStepStep, MarkCartStep, IngestStep
     DEF Fire
<1>3. ASSUME NEW key \in Pages, Navigate(key) PROVE IInv'
  BY <1>3, NavigateStep
<1>4. ASSUME NEW in \in AllInputs, ChangeInput(in) PROVE IInv'
  BY <1>4, InputStep
<1>5. ASSUME NEW k \in DOMAIN feed, Execute(k) PROVE IInv'
  BY <1>5, ExecuteStep
<1>6. ASSUME NEW step \in Steps, RunStep(step) PROVE IInv'
  BY <1>6, RunStepStep
<1>7. CASE Back \/ Forward \/ \E step \in Steps : Dot(step)
  <2>1. tour.step \in Steps
    BY DEF IInv, TypeOK
  <2>2. (tour.step + 1) % 5 \in Steps /\ (tour.step > 0 => tour.step - 1 \in Steps)
    BY <2>1 DEF Steps
  <2> QED
    BY <1>6, <1>7, <2>2 DEF Back, Forward, Dot
<1>8. CASE OpenDialog \/ HideDialog \/ \E v \in Vectors : Expand(v)
  BY <1>8, DialogStep
<1>9. ASSUME NEW text \in Texts, Submit(text) PROVE IInv'
  BY <1>9, SubmitStep
<1>10. CASE UNCHANGED vars
  <2>1. /\ UNCHANGED <<page, opened, ready, inputs, feed, builds, badge, deployed, saved, map,
                       overlay, marker, refill, modal, submitted, tour, marks, expansion, timers,
                       left>>
    BY <1>10 DEF vars, pageVars, feedVars, savedVars, mapVars, tourVars
  <2>2. TypeOK'
    BY <2>1 DEF IInv, TypeOK
  <2>3. ShapeInv'
    BY <2>1 DEF IInv, ShapeInv
  <2>4. StartInv'
    BY <2>1 DEF IInv, StartInv
  <2>5. DeployInv'
    BY <2>1 DEF IInv, DeployInv
  <2>6. RemovalInv'
    BY <2>1 DEF IInv, RemovalInv
  <2>7. ClicksCredited'
    BY <2>1 DEF IInv, ClicksCredited, Pending
  <2>8. BadgeCounts'
    BY <2>1 DEF IInv, BadgeCounts
  <2>9. IngestInv'
    BY <2>1 DEF IInv, IngestInv
  <2>10. TourInv'
    BY <2>1 DEF IInv, TourInv
  <2> QED
    BY <2>2, <2>3, <2>4, <2>5, <2>6, <2>7, <2>8, <2>9, <2>10 DEF IInv
<1> QED
  BY <1>1, <1>2, <1>3, <1>4, <1>5, <1>7, <1>8, <1>9, <1>10 DEF Next, Clock, Operate

\* The inductive invariant holds of every state that the page can be in.
THEOREM InductiveInvariant == Spec => []IInv
BY InitInv, NextInv, PTL DEF Spec

\* Whatever the operator pastes, clicks and chooses, every variable keeps its
\* type.
THEOREM TypeCorrect == Spec => []TypeOK
<1>1. IInv => TypeOK
  BY DEF IInv
<1> QED
  BY <1>1, InductiveInvariant, PTL

\* A click on a recovery action is credited exactly once, however often the feed
\* was built anew in the meantime (executeOrchestratorAction).
THEOREM CreditedOnce == Spec => []ClicksCredited
<1>1. IInv => ClicksCredited
  BY DEF IInv
<1> QED
  BY <1>1, InductiveInvariant, PTL

\* The badge counts the elements of the feed, but for the one that says that
\* there is nothing to do.
THEOREM BadgeRight == Spec => []BadgeCounts
<1>1. IInv => BadgeCounts
  BY DEF IInv
<1> QED
  BY <1>1, InductiveInvariant, PTL

\* That no timer of a kind is pending, said of what they are about.
LEMMA NonePending ==
  ASSUME NEW kind
  PROVE  Pending(kind) = {} <=> Subjects(timers, kind) = {}
BY DEF Pending, Subjects, SubjectsAt, Of

\* Once no ingestion is under way the map shows the data accepted last.
THEOREM IngestSettles == Spec => []LastIngested
<1>1. IInv => LastIngested
  BY NonePending DEF IInv, IngestInv, LastIngested
<1> QED
  BY <1>1, InductiveInvariant, PTL

\* When the steps of the storyboard that were chosen have all been shown, the
\* target of the current one is highlighted.
THEOREM TourEnds == Spec => []TourSettles
<1>1. IInv => TourSettles
  BY NonePending DEF IInv, TourInv, TourSettles
<1> QED
  BY <1>1, InductiveInvariant, PTL

-----------------------------------------------------------------------------
(* What a step may never do.                                               *)

\* A step builds the feed anew, removes an element, or leaves the identifiers.
LEMMA FeedChanges ==
  ASSUME IInv, [Next]_vars
  PROVE  \/ builds' = builds + 1
         \/ \E i \in DOMAIN timers : RemoveElement(i)
         \/ DOMAIN feed' = DOMAIN feed /\ \A k \in DOMAIN feed : feed'[k].id = feed[k].id
<1> DEFINE Stays == DOMAIN feed' = DOMAIN feed /\ \A k \in DOMAIN feed : feed'[k].id = feed[k].id
<1>1. CASE UNCHANGED feed
  BY <1>1
<1>2. feed \in Seq(Items) /\ \A k \in DOMAIN feed : feed[k] \in Items
  BY DEF IInv, ShapeInv
<1>3. ASSUME NEW ids, BuildFeed(ids) PROVE builds' = builds + 1
  BY <1>3 DEF BuildFeed
<1>4. ASSUME NEW in, Listen(in) PROVE builds' = builds + 1 \/ UNCHANGED feed
  BY <1>4 DEF Listen, UpdateOrchestrator, BuildFeed, feedVars
<1>5. ASSUME NEW i \in DOMAIN timers, Fire(i)
      PROVE  builds' = builds + 1 \/ RemoveElement(i) \/ Stays
  <2>1. CASE StartSection(i)
    BY <1>3, <2>1 DEF StartSection, UpdateOrchestrator, feedVars
  <2>2. CASE Deploy(i)
    <3>1. feed' = [k \in DOMAIN feed |->
                     IF Same(feed[k], timers[i]) THEN [feed[k] EXCEPT !.state = "deployed"]
                     ELSE feed[k]]
      BY <2>2 DEF Deploy
    <3> QED
      BY <1>2, <3>1 DEF Items
  <2>3. CASE Fade(i) \/ MarkCart(i)
    BY <2>3 DEF Fade, MarkCart, feedVars
  <2>4. CASE ShowStep(i)
    <3>1. \/ Listen([inputs EXCEPT !.temp = 38, !.telemetry = "strain"])
          \/ feed' = [k \in DOMAIN feed |->
                        [feed[k] EXCEPT !.lit = @ \/ (timers[i].num = 3 /\ k = 1)]]
      BY <2>4 DEF ShowStep
    <3> QED
      BY <1>2, <1>4, <3>1 DEF Items
  <2>5. CASE Ingest(i)
    BY <1>3, <2>5 DEF Ingest
  <2>6. CASE RemoveElement(i)
    BY <2>6
  <2> QED
    BY <1>5, <2>1, <2>2, <2>3, <2>4, <2>5, <2>6 DEF Fire
<1>6. ASSUME NEW k \in DOMAIN feed, Execute(k) PROVE Stays
  <2>1. feed' = [feed EXCEPT ![k].state = "deploying"]
    BY <1>6 DEF Execute
  <2> QED
    BY <1>2, <2>1 DEF Items
<1>7. ASSUME NEW step, RunStep(step) PROVE Stays
  <2>1. feed' = [k \in DOMAIN feed |-> [feed[k] EXCEPT !.lit = FALSE]]
    BY <1>7 DEF RunStep, Unlit
  <2> QED
    BY <1>2, <2>1 DEF Items
<1>8. ASSUME NEW in \in AllInputs, ChangeInput(in) PROVE builds' = builds + 1 \/ Stays
  BY <1>4, <1>8 DEF ChangeInput
<1>9. CASE \/ Tick \/ OpenDialog \/ HideDialog \/ \E key \in Pages : Navigate(key)
           \/ \E v \in Vectors : Expand(v)
           \/ \E text \in Texts : Submit(text)
  BY <1>9 DEF Tick, OpenDialog, HideDialog, Navigate, Expand, Submit, feedVars
<1>10. CASE UNCHANGED vars
  BY <1>10 DEF vars, feedVars
<1>11. ASSUME Back \/ Forward \/ \E step \in Steps : Dot(step) PROVE Stays
  <2> HIDE DEF Stays
  <2>1. CASE Back
    BY <1>7, <2>1 DEF Back
  <2>2. CASE Forward
    BY <1>7, <2>2 DEF Forward
  <2>3. CASE \E step \in Steps : Dot(step)
    BY <1>7, <2>3 DEF Dot
  <2> QED
    BY <1>11, <2>1, <2>2, <2>3
<1> HIDE DEF Stays
<1>12. CASE \E i \in DOMAIN timers : Fire(i)
  BY <1>5, <1>12 DEF Stays
<1>13. CASE \E k \in DOMAIN feed : Execute(k)
  BY <1>6, <1>13 DEF Stays
<1>14. CASE \E in \in AllInputs : ChangeInput(in)
  BY <1>8, <1>14 DEF Stays
<1>15. CASE Back \/ Forward \/ \E step \in Steps : Dot(step)
  BY <1>11, <1>15 DEF Stays
<1>16. CASE Next
  BY <1>9, <1>12, <1>13, <1>14, <1>15, <1>16 DEF Next, Clock, Operate
<1> QED
  BY <1>10, <1>16

\* An action leaves the page when the feed is built anew or after an action with
\* its identifier was deployed, be it from an earlier feed.
THEOREM RemovalsExplained == Spec => VanishedExplained
<1> DEFINE Gone == \A k \in DOMAIN feed :
                     builds' = builds =>
                       \/ \E j \in DOMAIN feed' : feed'[j].id = feed[k].id
                       \/ \E b \in 1..builds : <<feed[k].id, b>> \in deployed
<1>1. ASSUME IInv, [Next]_vars PROVE Gone
  <2> SUFFICES ASSUME NEW k \in DOMAIN feed, builds' = builds,
                      \A j \in DOMAIN feed' : feed'[j].id # feed[k].id
               PROVE  \E b \in 1..builds : <<feed[k].id, b>> \in deployed
    OBVIOUS
  <2>1. builds \in Nat /\ feed \in Seq(Items) /\ timers \in Seq(Timers)
    BY <1>1 DEF IInv, TypeOK, ShapeInv
  <2>2. PICK i \in DOMAIN timers : RemoveElement(i)
    BY <1>1, <2>1, FeedChanges
  <2> DEFINE t == timers[i]
             found == {m \in DOMAIN feed : Same(feed[m], t)}
  <2>3. feed' = IF found = {} THEN feed ELSE RemoveAt(feed, CHOOSE m \in found : TRUE)
    BY <2>2 DEF RemoveElement
  <2>4. PICK m \in found : feed' = RemoveAt(feed, m)
    BY <2>3
  <2>5. \A j, l \in DOMAIN feed : feed[j].id = feed[l].id => j = l
    BY <1>1 DEF IInv, DeployInv
  <2>6. k = m
    BY <2>1, <2>4, <2>5, ElementGone
  <2>7. feed[k].id = t.what
    BY <2>6 DEF Same
  <2>8. <<t.what, t.num>> \in Subjects(timers, "fade")
    BY <2>1, <2>2, FiredTimer DEF RemoveElement, Subject
  <2>9. <<t.what, t.num>>[1] = t.what
    OBVIOUS
  <2> QED
    BY <1>1, <2>7, <2>8, <2>9 DEF IInv, RemovalInv
<1>2. IInv /\ [Next]_vars => [Gone]_vars
  BY <1>1
<1> QED
  BY <1>2, InductiveInvariant, PTL DEF Spec, VanishedExplained

\* Only what finishes an ingestion takes one of those under way.
LEMMA IngestChanges ==
  ASSUME IInv, [Next]_vars
  PROVE  \/ \E i \in DOMAIN timers : Ingest(i)
         \/ Cardinality(Of(timers', "ingest")) >= Cardinality(Of(timers, "ingest"))
<1> DEFINE Stays == Cardinality(Of(timers', "ingest")) = Cardinality(Of(timers, "ingest"))
           More == Cardinality(Of(timers', "ingest")) = Cardinality(Of(timers, "ingest")) + 1
<1>1. timers \in Seq(Timers) /\ Cardinality(Of(timers, "ingest")) \in Nat
  BY OfIsFinite DEF IInv, ShapeInv
<1>2. ASSUME NEW t \in Timers, NEW ts \in Seq(Timers), t.kind # "ingest"
      PROVE  Cardinality(Of(Append(ts, t), "ingest")) = Cardinality(Of(ts, "ingest"))
  BY <1>2, AppendTimer DEF Appended, Kept
<1>3. ASSUME NEW i \in DOMAIN timers, NEW kind, Fires(i, kind), kind # "ingest"
      PROVE  /\ Others(i) \in Seq(Timers)
             /\ Cardinality(Of(Others(i), "ingest")) = Cardinality(Of(timers, "ingest"))
  BY <1>1, <1>3, FiredTimer DEF Expired, Kept
<1>4. ASSUME NEW key \in Pages, NEW ts \in Seq(Timers), NavTo(key, ts)
      PROVE  Cardinality(Of(timers', "ingest")) = Cardinality(Of(ts, "ingest"))
  <2>1. About("start", key, 0) \in Timers /\ About("start", key, 0).kind # "ingest"
    <3>1. "start" \in DOMAIN Delay /\ key \in Names \cup Ids /\ 0 \in Nat
      BY DEF Delay, Names, Pages
    <3> QED
      BY <3>1, AboutIsOne
  <2> QED
    BY <1>2, <1>4, <2>1 DEF NavTo
<1> HIDE DEF Stays
<1>5. ASSUME UNCHANGED timers PROVE Stays
  BY <1>5 DEF Stays, Of
<1>6. ASSUME Tick PROVE Stays
  BY <1>1, <1>6, TickTimers DEF Tick, Kept, Stays
<1>7. ASSUME NEW i \in DOMAIN timers, Fire(i) PROVE Stays \/ Ingest(i)
  <2>1. CASE StartSection(i) \/ RemoveElement(i) \/ MarkCart(i)
    BY <1>3, <2>1 DEF StartSection, RemoveElement, MarkCart, Stays
  <2>2. CASE Deploy(i)
    <3> DEFINE u == About("remove", timers[i].what, timers[i].num)
    <3>1. timers' = Append(Others(i), u) /\ Fires(i, "deploy")
      BY <2>2 DEF Deploy
    <3>2. u \in Timers /\ u.kind = "remove"
      <4>1. timers[i] \in Timers
        BY <1>1
      <4>2. "remove" \in DOMAIN Delay /\ timers[i].what \in Names \cup Ids /\ timers[i].num \in Nat
        BY <4>1 DEF Timers, Delay
      <4> QED
        BY <4>2, AboutIsOne
    <3> HIDE DEF u
    <3>3. /\ Others(i) \in Seq(Timers)
          /\ Cardinality(Of(Others(i), "ingest")) = Cardinality(Of(timers, "ingest"))
      BY <1>3, <3>1
    <3>4. CASE timers' = Others(i)
      BY <3>3, <3>4 DEF Stays
    <3>5. CASE timers' # Others(i)
      BY <1>2, <3>1, <3>2, <3>3, <3>5 DEF Stays
    <3> QED
      BY <3>4, <3>5
  <2>3. CASE Fade(i)
    <3>1. /\ Fires(i, "remove")
          /\ \/ timers' = Others(i)
             \/ \E k \in DOMAIN feed :
                  timers' = Append(Others(i), About("fade", feed[k].id, feed[k].build))
      BY <2>3 DEF Fade, Fading
    <3>2. \A k \in DOMAIN feed : /\ About("fade", feed[k].id, feed[k].build) \in Timers
                                 /\ About("fade", feed[k].id, feed[k].build).kind = "fade"
      <4>1. \A k \in DOMAIN feed : feed[k].id \in Names \cup Ids /\ feed[k].build \in Nat
        <5> SUFFICES ASSUME NEW k \in DOMAIN feed
                     PROVE  feed[k].id \in Names \cup Ids /\ feed[k].build \in Nat
          OBVIOUS
        <5>1. feed[k] \in Items
          BY DEF IInv, ShapeInv
        <5> QED
          BY <5>1 DEF Items
      <4>2. "fade" \in DOMAIN Delay
        BY DEF Delay
      <4> QED
        BY <4>1, <4>2, AboutIsOne
    <3>3. /\ Others(i) \in Seq(Timers)
          /\ Cardinality(Of(Others(i), "ingest")) = Cardinality(Of(timers, "ingest"))
      BY <1>3, <3>1
    <3>4. CASE timers' = Others(i)
      BY <3>3, <3>4 DEF Stays
    <3>5. CASE timers' # Others(i)
      BY <1>2, <3>1, <3>2, <3>3, <3>5 DEF Stays
    <3> QED
      BY <3>4, <3>5
  <2>4. CASE ShowStep(i)
    <3>1. /\ Fires(i, "step")
          /\ timers' = Others(i) \/ timers' = Append(Others(i), About("mark", "", 0))
      BY <2>4 DEF ShowStep
    <3>2. About("mark", "", 0) \in Timers /\ About("mark", "", 0).kind = "mark"
      <4>1. "mark" \in DOMAIN Delay /\ "" \in Names \cup Ids /\ 0 \in Nat
        BY DEF Delay, Names
      <4> QED
        BY <4>1, AboutIsOne
    <3>3. /\ Others(i) \in Seq(Timers)
          /\ Cardinality(Of(Others(i), "ingest")) = Cardinality(Of(timers, "ingest"))
      BY <1>3, <3>1
    <3>4. CASE timers' = Others(i)
      BY <3>3, <3>4 DEF Stays
    <3>5. CASE timers' # Others(i)
      BY <1>2, <3>1, <3>2, <3>3, <3>5 DEF Stays
    <3> QED
      BY <3>4, <3>5
  <2> QED
    BY <1>7, <2>1, <2>2, <2>3, <2>4 DEF Fire
<1>8. ASSUME NEW key \in Pages, Navigate(key) PROVE Stays
  BY <1>1, <1>4, <1>8 DEF Navigate, Stays
<1>9. ASSUME NEW k \in DOMAIN feed, Execute(k) PROVE Stays
  <2> DEFINE u == About("deploy", feed[k].id, feed[k].build)
  <2>1. timers' = Append(timers, u)
    BY <1>9 DEF Execute
  <2>2. u \in Timers /\ u.kind = "deploy"
    <3>1. feed[k] \in Items
      BY DEF IInv, ShapeInv
    <3>2. "deploy" \in DOMAIN Delay /\ feed[k].id \in Names \cup Ids /\ feed[k].build \in Nat
      BY <3>1 DEF Delay, Items
    <3> QED
      BY <3>2, AboutIsOne
  <2> HIDE DEF u
  <2> QED
    BY <1>1, <1>2, <2>1, <2>2 DEF Stays
<1>10. ASSUME NEW step \in Steps, RunStep(step) PROVE Stays
  <2> DEFINE u == About("step", "", step)
  <2>1. NavTo(Section[step + 1], Append(timers, u))
    BY <1>10 DEF RunStep
  <2>2. u \in Timers /\ u.kind = "step"
    <3>1. "step" \in DOMAIN Delay /\ "" \in Names \cup Ids /\ step \in Nat
      BY DEF Delay, Names, Steps
    <3> QED
      BY <3>1, AboutIsOne
  <2>3. Section[step + 1] \in Pages
    BY DEF Section, Steps, Pages
  <2> HIDE DEF u
  <2>4. Append(timers, u) \in Seq(Timers)
    BY <1>1, <2>2, AppendTimer
  <2>5. Cardinality(Of(timers', "ingest")) = Cardinality(Of(Append(timers, u), "ingest"))
    BY <1>4, <2>1, <2>3, <2>4
  <2> QED
    BY <1>1, <1>2, <2>2, <2>5 DEF Stays
<1>11. ASSUME Back \/ Forward \/ \E step \in Steps : Dot(step) PROVE Stays
  <2>1. tour.step \in Steps
    BY DEF IInv, TypeOK
  <2>2. (tour.step + 1) % 5 \in Steps /\ (tour.step > 0 => tour.step - 1 \in Steps)
    BY <2>1 DEF Steps
  <2>3. CASE Back
    BY <1>10, <2>2, <2>3 DEF Back
  <2>4. CASE Forward
    BY <1>10, <2>2, <2>4 DEF Forward
  <2>5. CASE \E step \in Steps : Dot(step)
    BY <1>10, <2>5 DEF Dot
  <2> QED
    BY <1>11, <2>3, <2>4, <2>5
<1>12. ASSUME NEW text \in Texts, Submit(text) PROVE More
  <2> DEFINE carts == ParseRawData(text)
             u == Timer("ingest", "", 0, carts)
  <2>1. timers' = Append(timers, u)
    BY <1>12 DEF Submit
  <2>2. u \in Timers /\ u.kind = "ingest"
    <3>1. carts \in Seq(Cart)
      BY ParseTypes, TextsAssumption DEF TextsAssumption
    <3> HIDE DEF carts
    <3>2. "ingest" \in DOMAIN Delay /\ "" \in Names \cup Ids /\ 0 \in Nat
      BY DEF Delay, Names
    <3> QED
      BY <3>1, <3>2, TimerIsOne DEF Timer
  <2> HIDE DEF u
  <2> QED
    BY <1>1, <2>1, <2>2, AppendTimer DEF Appended
<1>13. ASSUME \/ OpenDialog \/ HideDialog \/ \E v \in Vectors : Expand(v)
              \/ \E in \in AllInputs : ChangeInput(in)
              \/ UNCHANGED vars
       PROVE  Stays
  BY <1>5, <1>13 DEF OpenDialog, HideDialog, Expand, ChangeInput, vars
<1> HIDE DEF More
<1>14. Stays \/ More \/ \E i \in DOMAIN timers : Ingest(i)
  BY <1>6, <1>7, <1>8, <1>9, <1>11, <1>12, <1>13 DEF Next, Clock, Operate
<1> QED
  BY <1>1, <1>14 DEF Stays, More

\* Invented refills replace an ingestion's only when the operations section
\* starts, and only an ingestion changes the refills otherwise.
LEMMA RefillChanges ==
  ASSUME IInv, [Next]_vars
  PROVE  \/ UNCHANGED refill
         \/ refill'.from = "ingest"
         \/ "operations" \in ready' \ ready
<1>1. ASSUME NEW i \in DOMAIN timers, StartSection(i)
      PROVE  UNCHANGED refill \/ "operations" \in ready' \ ready
  <2>1. CASE timers[i].what = "operations"
    <3>1. <<timers[i].what, timers[i].num>> \in Subjects(timers, "start")
      BY <1>1, FiredTimer DEF StartSection, Subject, IInv, ShapeInv
    <3>2. timers[i].what \in opened \ ready
      BY <3>1 DEF IInv, StartInv
    <3> QED
      BY <1>1, <2>1, <3>2 DEF StartSection
  <2>2. CASE timers[i].what # "operations"
    BY <1>1, <2>2 DEF StartSection
  <2> QED
    BY <2>1, <2>2
<1>2. ASSUME NEW i \in DOMAIN timers, Ingest(i) PROVE refill'.from = "ingest"
  BY <1>2 DEF Ingest
<1>3. CASE Next /\ ~\E i \in DOMAIN timers : StartSection(i) \/ Ingest(i)
  BY <1>3 DEF Next, Clock, Operate, Fire, Tick, Deploy, Fade, RemoveElement, ShowStep, MarkCart,
     Navigate, ChangeInput, Execute, Expand, Back, Forward, Dot, RunStep, OpenDialog, HideDialog,
     Submit
<1>4. CASE UNCHANGED vars
  BY <1>4 DEF vars
<1> QED
  BY <1>1, <1>2, <1>3, <1>4

\* When an ingestion finishes, the map, the feed's badge and the refill queue
\* agree on the data, and invented refills do not come back.
THEOREM ViewsAgree == Spec => IngestAgrees
<1> DEFINE Agree ==
      /\ Cardinality(Pending("ingest"))' < Cardinality(Pending("ingest")) =>
           /\ badge' = overlay'["low-stock"] + overlay'["offline"]
           /\ Len(refill'.queue) <= badge'
           /\ overlay'["active"] + badge' = Len(map')
      /\ refill.from = "ingest" /\ refill'.from = "seed" => "operations" \in ready' \ ready
<1>1. ASSUME IInv, [Next]_vars PROVE Agree
  <2>1. ASSUME NEW i \in DOMAIN timers, Ingest(i)
        PROVE  /\ badge' = overlay'["low-stock"] + overlay'["offline"]
               /\ Len(refill'.queue) <= badge'
               /\ overlay'["active"] + badge' = Len(map')
    <3> DEFINE carts == timers[i].data
    <3>1. carts \in Seq(Cart)
      <4>1. timers[i] \in Timers
        BY <1>1 DEF IInv, ShapeInv
      <4> QED
        BY <4>1 DEF Timers
    <3>2. /\ map' = carts /\ overlay' = Overlay(carts) /\ badge' = Len(Warnings(carts))
          /\ refill'.queue = RefillQueue(carts)
      BY <2>1 DEF Ingest, RenderCarts
    <3> HIDE DEF carts
    <3> QED
      BY <3>1, <3>2, CartsCounted
  <2>2. /\ Cardinality(Of(timers, "ingest")) \in Nat
        /\ Cardinality(Of(timers', "ingest")) \in Nat
    <3>1. IInv'
      BY <1>1, NextInv
    <3> QED
      BY <1>1, <3>1, OfIsFinite DEF IInv, ShapeInv
  <2>3. Cardinality(Pending("ingest"))' < Cardinality(Pending("ingest")) =>
          \E i \in DOMAIN timers : Ingest(i)
    BY <1>1, <2>2, IngestChanges DEF Pending, Of
  <2>4. refill.from = "ingest" /\ refill'.from = "seed" => "operations" \in ready' \ ready
    BY <1>1, RefillChanges
  <2> QED
    BY <2>1, <2>3, <2>4
<1>2. IInv /\ [Next]_vars => [Agree]_vars
  BY <1>1
<1> QED
  BY <1>2, InductiveInvariant, PTL DEF Spec, IngestAgrees
=============================================================================
