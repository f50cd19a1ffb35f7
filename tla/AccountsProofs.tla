--------------------------- MODULE AccountsProofs ---------------------------
(***************************************************************************)
(* Proofs about Accounts, for any requests, contacts and bounds.           *)
(*                                                                         *)
(* Contacts stay unique by the unique constraints and the locks of those   *)
(* who insert: what a transaction has inserted clashes with no row and     *)
(* with no other open insertion (KeysInv).  What remains for the           *)
(* constraint to refuse is what a check could not see; for that, each      *)
(* check that has passed is remembered as a fact about the rows that were  *)
(* stored when it was made (CheckedInv).                                   *)
(***************************************************************************)
EXTENDS Accounts, FiniteSetTheorems, TLAPS

\* A handler that is registering somebody.
Registers(h) == pc[h] \in {"email", "phone", "role", "insert", "inserted"}

\* There is room for those who register; who is waited for is known.
BoundInv ==
    /\ Len(users) + Cardinality(Registering) <= MaxUsers
    /\ \A h \in Handlers : Registers(h) => request[h] \in Calls /\ seen[h] <= Len(users)
    /\ \A h \in Handlers : locked[h] \in Ids \cup {NoUser}

\* What is stored, and what is being inserted, clashes with nothing.
KeysInv ==
    /\ KeysUnique
    /\ \A g, h \in Inserting : g # h => ~Clash(request[g], request[h])
    /\ \A h \in Inserting, i \in Ids : ~Clash(users[i].contacts, request[h])

\* The columns that a registration has checked.
Checked(h) ==
    IF pc[h] = "phone" THEN {"email"} ELSE IF pc[h] \in {"role", "insert"} THEN Columns ELSE {}

\* A check that has passed is still true of the rows that were there.
CheckedInv ==
    \A h \in Handlers : \A col \in Checked(h), i \in Ids :
        i <= seen[h] /\ users[i].live /\ Given(request[h][col]) =>
            users[i].contacts[col] # request[h][col]

\* The inductive invariant.
IInv == AccountsTypeOK /\ BoundInv /\ KeysInv /\ CheckedInv

USE BoundsAssumption, HandlersAssumption, NoUserAssumption DEF Ids

-----------------------------------------------------------------------------
(* What a commit and an administrator do to the stored users.              *)

\* The users are the same, with the same contacts, and none came back to life.
Kept ==
    /\ users' \in Seq(User)
    /\ Len(users') = Len(users)
    /\ \A i \in Ids : /\ users'[i].contacts = users[i].contacts
                      /\ users'[i].live => users[i].live

\* Every handler stands where it stood, or its transaction has ended.
OnlyEnds ==
    \A h \in Handlers :
        \/ pc'[h] = "idle"
        \/ pc'[h] = pc[h] /\ request'[h] = request[h] /\ seen'[h] = seen[h]

\* While users only change their counters and flags, what was unique and what
\* was checked remain so.
LEMMA KeptStep ==
    ASSUME IInv, Kept, OnlyEnds
    PROVE  KeysInv' /\ CheckedInv'
<1>1. Ids' = Ids
  BY DEF Kept, IInv, AccountsTypeOK
<1>2. \A i \in Ids : users'[i].contacts = users[i].contacts
  BY DEF Kept
<1>3. \A h \in Inserting' : h \in Inserting /\ request'[h] = request[h]
  BY DEF OnlyEnds, Inserting
<1>4. KeysUnique'
  BY <1>1, <1>2 DEF IInv, KeysInv, KeysUnique, Clash
<1>5. KeysInv'
  BY <1>1, <1>2, <1>3, <1>4 DEF IInv, KeysInv, Clash
<1>6. ASSUME NEW h \in Handlers, NEW col \in Checked(h)', NEW i \in Ids',
             i <= seen'[h], users'[i].live, Given(request'[h][col])
      PROVE  users'[i].contacts[col] # request'[h][col]
  <2>1. pc'[h] = pc[h] /\ request'[h] = request[h] /\ seen'[h] = seen[h] /\ col \in Checked(h)
    BY <1>6 DEF OnlyEnds, Checked
  <2> QED
    BY <1>1, <1>6, <2>1 DEF Kept, IInv, CheckedInv
<1> QED
  BY <1>5, <1>6 DEF CheckedInv

\* A login that commits resets the counter of its row, if it writes at all.
LEMMA LoggedInKeeps ==
    ASSUME IInv, NEW h \in Handlers, pc[h] = "right", users' = LoggedIn(h)
    PROVE  Kept
<1>1. locked[h] \in Ids /\ users \in Seq(User)
  BY DEF IInv, AccountsTypeOK
<1>2. CASE seen[h] = 0
  BY <1>1, <1>2 DEF LoggedIn, Kept
<1>3. CASE seen[h] # 0
  <2> DEFINE row == users[locked[h]]
             u == [contacts |-> row.contacts, live |-> row.live,
                   mayLogIn |-> row.mayLogIn, failed |-> 0]
  <2>1. row \in User
    BY <1>1
  <2>2. u \in User
    BY <2>1 DEF User
  <2>3. users' = [users EXCEPT ![locked[h]] = u]
    <3>1. [row EXCEPT !.failed = 0] = u
      BY <2>1 DEF User
    <3> QED
      BY <1>3, <3>1 DEF LoggedIn
  <2> QED
    BY <1>1, <2>2, <2>3 DEF Kept
<1> QED
  BY <1>2, <1>3

-----------------------------------------------------------------------------
(* The ways in which requests move.                                        *)

\* How many registrations are open when one more opens, or one ends.
LEMMA RegisteringCount ==
    ASSUME IInv, NEW h \in Handlers
    PROVE  /\ Cardinality(Registering) \in Nat
           /\ Registering' = Registering \cup {h} /\ h \notin Registering =>
                 Cardinality(Registering') = Cardinality(Registering) + 1
           /\ Registering' = Registering \ {h} =>
                 Cardinality(Registering') = IF h \in Registering
                                             THEN Cardinality(Registering) - 1
                                             ELSE Cardinality(Registering)
<1>1. IsFiniteSet(Registering)
  BY FS_Subset DEF Registering
<1> QED
  BY <1>1, FS_CardinalityType, FS_AddElement, FS_RemoveElement

\* A transaction that ends frees its row; the users that it may store are what
\* its place in the bound was for.
LEMMA EndStep ==
    ASSUME IInv, NEW h \in Handlers, pc[h] # "idle", End(h),
           attempts' \in [1..MaxUsers -> 0..MaxAttempts], faults' \in 0..MaxFaults,
           \/ users' = users
           \/ pc[h] = "right" /\ users' = LoggedIn(h)
           \/ pc[h] = "inserted" /\ users' = Stored(h)
    PROVE  IInv'
<1>1. /\ pc'[h] = "idle" /\ locked'[h] = NoUser
      /\ \A k \in Handlers : k # h => /\ pc'[k] = pc[k] /\ request'[k] = request[k]
                                      /\ seen'[k] = seen[k] /\ locked'[k] = locked[k]
      /\ pc' \in [Handlers -> {"idle", "email", "phone", "role", "insert", "inserted",
                               "password", "wrong", "right"}]
      /\ request' \in [Handlers -> Contacts]
      /\ seen' \in [Handlers -> Nat]
      /\ locked' \in [Handlers -> (1..MaxUsers) \cup {NoUser}]
  BY DEF End, IInv, AccountsTypeOK, NoRequest, Contacts
<1>2. Registering' = Registering \ {h}
  BY <1>1 DEF Registering
<1>3. OnlyEnds
  BY <1>1 DEF OnlyEnds
<1>7. /\ Cardinality(Registering) \in Nat /\ Cardinality(Registering') \in Nat
      /\ Cardinality(Registering') <= Cardinality(Registering)
      /\ h \in Registering => Cardinality(Registering') + 1 = Cardinality(Registering)
  <2>1. /\ Cardinality(Registering) \in Nat
        /\ Cardinality(Registering') = IF h \in Registering
                                       THEN Cardinality(Registering) - 1
                                       ELSE Cardinality(Registering)
    BY <1>2, RegisteringCount
  <2>2. Cardinality(Registering') \in Nat
    BY <1>2, FS_Subset, FS_CardinalityType DEF Registering
  <2> QED
    BY <2>1, <2>2
<1>8. /\ users \in Seq(User) /\ Len(users) \in Nat /\ Ids = 1..Len(users)
      /\ Len(users) + Cardinality(Registering) <= MaxUsers
      /\ NoUser \notin Ids
  BY DEF IInv, AccountsTypeOK, BoundInv
<1>4. CASE Kept
  <2>1. Ids' = Ids /\ Len(users') = Len(users)
    BY <1>4 DEF Kept, IInv, AccountsTypeOK
  <2>2. AccountsTypeOK'
    <3>1. \A k \in Handlers :
            (locked'[k] \in Ids') = (pc'[k] \in {"password", "wrong", "right"})
      <4> SUFFICES ASSUME NEW k \in Handlers
                   PROVE  (locked'[k] \in Ids) = (pc'[k] \in {"password", "wrong", "right"})
        BY <2>1
      <4>1. CASE k = h
        BY <1>1, <1>8, <4>1
      <4>2. CASE k # h
        <5>1. (locked[k] \in Ids) = (pc[k] \in {"password", "wrong", "right"})
          BY DEF IInv, AccountsTypeOK
        <5> QED
          BY <1>1, <4>2, <5>1
      <4> QED
        BY <4>1, <4>2
    <3>2. \A g, k \in Handlers, i \in Ids' : Holds(g, i)' /\ Holds(k, i)' => g = k
      <4>1. \A k \in Handlers, i \in Ids : Holds(k, i)' => Holds(k, i)
        BY <1>1 DEF Holds
      <4>2. \A g, k \in Handlers, i \in Ids : Holds(g, i) /\ Holds(k, i) => g = k
        BY DEF IInv, AccountsTypeOK
      <4> QED
        BY <2>1, <4>1, <4>2
    <3> QED
      BY <1>1, <1>4, <2>1, <3>1, <3>2 DEF IInv, AccountsTypeOK, Kept
  <2>3. BoundInv'
    <3>1. \A k \in Handlers : Registers(k)' => request'[k] \in Calls /\ seen'[k] <= Len(users')
      BY <1>1, <2>1 DEF IInv, BoundInv, Registers
    <3>2. Len(users') + Cardinality(Registering') <= MaxUsers
      BY <1>7, <1>8, <2>1
    <3>3. \A k \in Handlers : locked'[k] \in Ids' \cup {NoUser}
      BY <1>1, <2>1 DEF IInv, BoundInv
    <3> QED
      BY <3>1, <3>2, <3>3 DEF BoundInv
  <2> QED
    BY <1>3, <1>4, <2>2, <2>3, KeptStep DEF IInv
<1>5. CASE pc[h] = "inserted" /\ users' = Stored(h)
  <2> DEFINE u == [contacts |-> request[h], live |-> TRUE, mayLogIn |-> TRUE, failed |-> 0]
             n == Len(users)
  <2>1. u \in User /\ users' = Append(users, u) /\ users \in Seq(User) /\ n \in Nat
    BY <1>5 DEF IInv, AccountsTypeOK, User, Stored
  <2>2. /\ users' \in Seq(User) /\ Len(users') = n + 1
        /\ users'[n + 1] = u
        /\ \A i \in Ids : users'[i] = users[i]
        /\ Ids' = Ids \cup {n + 1}
        /\ Ids = 1..n
    BY <2>1
  <2>3. /\ h \in Registering /\ h \in Inserting
        /\ request[h] \in Calls
    BY <1>5 DEF Registering, Inserting, IInv, BoundInv, Registers
  <2>4. BoundInv'
    <3>1. \A k \in Handlers : Registers(k)' => request'[k] \in Calls /\ seen'[k] <= Len(users')
      <4>1. \A k \in Handlers : Registers(k)' => k # h /\ Registers(k)
        BY <1>1 DEF Registers
      <4>2. \A k \in Handlers : Registers(k) =>
              request[k] \in Calls /\ seen[k] \in Nat /\ seen[k] <= n
        BY DEF IInv, BoundInv, AccountsTypeOK
      <4>3. \A m \in Nat : m <= n => m <= n + 1
        BY <2>1
      <4> HIDE DEF n
      <4> QED
        BY <1>1, <2>2, <4>1, <4>2, <4>3 DEF Calls
    <3>2. Len(users') + Cardinality(Registering') <= MaxUsers
      BY <1>7, <1>8, <2>2, <2>3
    <3>3. \A k \in Handlers : locked'[k] \in Ids' \cup {NoUser}
      BY <1>1, <2>2 DEF IInv, BoundInv
    <3> QED
      BY <3>1, <3>2, <3>3 DEF BoundInv
  <2>5. n + 1 <= MaxUsers
    BY <1>7, <1>8, <2>3
  <2>6. \A k \in Handlers : locked[k] # n + 1
    <3>1. \A m \in Nat : m # NoUser
      OBVIOUS
    <3> HIDE DEF n, u
    <3>2. n + 1 \in Nat /\ n + 1 \notin Ids
      BY <2>1, <2>2
    <3>3. \A k \in Handlers : locked[k] \in Ids \cup {NoUser}
      BY DEF IInv, BoundInv
    <3> QED
      BY <3>1, <3>2, <3>3
  <2>7. AccountsTypeOK'
    <3> HIDE DEF n, u
    <3>1. \A k \in Handlers : locked[k] \in Ids' <=> locked[k] \in Ids
      BY <2>2, <2>6
    <3>2. NoUser \notin Ids'
      <4>1. \A m \in Nat : m # NoUser
        OBVIOUS
      <4> HIDE DEF n, u
      <4>2. Ids' \subseteq Nat
        BY <2>1, <2>2
      <4> QED
        BY <4>1, <4>2
    <3>3. \A k \in Handlers :
            (locked'[k] \in Ids') = (pc'[k] \in {"password", "wrong", "right"})
      <4>1. \A k \in Handlers :
              locked[k] \in Ids <=> pc[k] \in {"password", "wrong", "right"}
        BY DEF IInv, AccountsTypeOK
      <4>2. locked'[h] \notin Ids' /\ pc'[h] \notin {"password", "wrong", "right"}
        BY <1>1, <3>2
      <4>3. \A k \in Handlers : k # h => locked'[k] = locked[k] /\ pc'[k] = pc[k]
        BY <1>1
      <4> HIDE DEF Ids
      <4> QED
        BY <3>1, <4>1, <4>2, <4>3
    <3>4. \A g, k \in Handlers, i \in Ids' : Holds(g, i)' /\ Holds(k, i)' => g = k
      <4>1. \A k \in Handlers, i \in Ids' : Holds(k, i)' => Holds(k, i) /\ i \in Ids
        BY <1>1, <3>1 DEF Holds
      <4> QED
        BY <4>1 DEF IInv, AccountsTypeOK
    <3> QED
      BY <1>1, <2>2, <2>5, <3>3, <3>4 DEF IInv, AccountsTypeOK
  <2>8. KeysInv'
    <3>1. \A k \in Inserting' : k # h /\ k \in Inserting /\ request'[k] = request[k]
      BY <1>1 DEF Inserting
    <3>2. \A i \in Ids : ~Clash(users[i].contacts, u.contacts) /\ ~Clash(u.contacts, users[i].contacts)
      BY <2>3 DEF IInv, KeysInv, Clash
    <3>3. KeysUnique'
      BY <2>2, <2>3, <3>2 DEF IInv, KeysInv, KeysUnique, Calls
    <3>4. \A k \in Inserting', i \in Ids' : ~Clash(users'[i].contacts, request'[k])
      BY <2>2, <2>3, <3>1 DEF IInv, KeysInv
    <3> QED
      BY <3>1, <3>3, <3>4 DEF IInv, KeysInv
  <2>9. CheckedInv'
    <3> SUFFICES ASSUME NEW k \in Handlers, NEW col \in Checked(k)', NEW i \in Ids',
                        i <= seen'[k], users'[i].live, Given(request'[k][col])
                 PROVE  users'[i].contacts[col] # request'[k][col]
      BY DEF CheckedInv
    <3>1. /\ k # h /\ col \in Checked(k) /\ Registers(k)
          /\ request'[k] = request[k] /\ seen'[k] = seen[k]
      BY <1>1 DEF Checked, Registers
    <3>2. i \in Ids
      BY <2>2, <3>1 DEF IInv, BoundInv, AccountsTypeOK
    <3> QED
      BY <2>2, <3>1, <3>2 DEF IInv, CheckedInv
  <2> QED
    BY <2>4, <2>7, <2>8, <2>9 DEF IInv
<1>6. users' = users => Kept
  BY DEF Kept, IInv, AccountsTypeOK
<1> QED
  BY <1>4, <1>5, <1>6, LoggedInKeeps

\* A request that goes on takes a step of its program: a check passes, an
\* insertion finds its values free, a password is verified once the row is free.
LEMMA GoOnStep ==
    ASSUME IInv, NEW h \in Handlers, NEW from, NEW to, Goto(h, from, to),
           UNCHANGED <<users, request, seen, locked, attempts, faults>>,
           \/ /\ <<from, to>> \in {<<"email", "phone">>, <<"phone", "role">>}
              /\ ~(Given(request[h][from]) /\ Exists(from, request[h][from]))
           \/ from = "role" /\ to = "insert"
           \/ /\ from = "insert" /\ to = "inserted"
              /\ \A g \in Inserting : ~Clash(request[g], request[h])
              /\ \A i \in Ids : ~Clash(users[i].contacts, request[h])
           \/ from = "password" /\ to \in {"wrong", "right"} /\ RowFree(locked[h])
    PROVE  IInv'
<1>1. /\ pc[h] = from /\ pc'[h] = to
      /\ \A k \in Handlers : k # h => pc'[k] = pc[k]
      /\ pc' \in [Handlers -> {"idle", "email", "phone", "role", "insert", "inserted",
                               "password", "wrong", "right"}]
  BY DEF Goto, IInv, AccountsTypeOK
<1>2. /\ \A k \in Handlers : Registers(k)' <=> Registers(k)
      /\ Registering' = Registering
  BY <1>1 DEF Registers, Registering
<1>3. AccountsTypeOK'
  <2>1. \A k \in Handlers :
          (locked'[k] \in Ids') = (pc'[k] \in {"password", "wrong", "right"})
    <3>1. \A k \in Handlers : pc'[k] \in {"password", "wrong", "right"} <=>
                              pc[k] \in {"password", "wrong", "right"}
      BY <1>1
    <3>2. \A k \in Handlers : locked[k] \in Ids <=> pc[k] \in {"password", "wrong", "right"}
      BY DEF IInv, AccountsTypeOK
    <3> QED
      BY <1>1, <3>1, <3>2
  <2>2. \A k \in Handlers, i \in Ids : Holds(k, i)' =>
          Holds(k, i) \/ (k = h /\ i = locked[h] /\ RowFree(locked[h]))
    BY <1>1 DEF Holds
  <2>3. \A g, k \in Handlers, i \in Ids' : Holds(g, i)' /\ Holds(k, i)' => g = k
    BY <2>2 DEF IInv, AccountsTypeOK, RowFree
  <2> QED
    BY <1>1, <2>1, <2>3 DEF IInv, AccountsTypeOK
<1>4. BoundInv'
  BY <1>2 DEF IInv, BoundInv
<1>5. KeysInv'
  <2>1. CASE from # "insert"
    <3>1. Inserting' = Inserting
      BY <1>1, <2>1 DEF Inserting
    <3> QED
      BY <3>1 DEF IInv, KeysInv, KeysUnique
  <2>2. CASE from = "insert"
    <3>1. Inserting' = Inserting \cup {h}
      BY <1>1, <2>2 DEF Inserting
    <3>2. \A g \in Inserting : ~Clash(request[g], request[h]) /\ ~Clash(request[h], request[g])
      BY <2>2 DEF Clash
    <3>3. \A i \in Ids : ~Clash(users[i].contacts, request[h])
      BY <2>2
    <3> QED
      BY <3>1, <3>2, <3>3 DEF IInv, KeysInv, KeysUnique
  <2> QED
    BY <2>1, <2>2
<1>6. CheckedInv'
  <2>1. \A k \in Handlers : k # h => Checked(k)' = Checked(k)
    BY <1>1 DEF Checked
  <2>2. Checked(h)' \subseteq Checked(h) \cup (IF from \in Columns THEN {from} ELSE {})
    BY <1>1 DEF Checked, Columns
  <2>3. ASSUME from \in Columns, NEW i \in Ids, users[i].live, Given(request[h][from])
        PROVE  users[i].contacts[from] # request[h][from]
    BY <2>3 DEF Exists, Columns
  <2> QED
    BY <2>1, <2>2, <2>3 DEF IInv, CheckedInv
<1> QED
  BY <1>3, <1>4, <1>5, <1>6 DEF IInv

\* A registration takes a place in the bound; it has checked nothing yet.
LEMMA RegisterStep ==
    ASSUME IInv, NEW h \in Handlers, NEW r \in Calls, Register(h, r)
    PROVE  IInv'
<1>1. /\ pc[h] = "idle" /\ pc'[h] = "email"
      /\ request'[h] = r /\ seen'[h] = Len(users)
      /\ \A k \in Handlers : k # h => /\ pc'[k] = pc[k] /\ request'[k] = request[k]
                                      /\ seen'[k] = seen[k]
      /\ pc' \in [Handlers -> {"idle", "email", "phone", "role", "insert", "inserted",
                               "password", "wrong", "right"}]
      /\ request' \in [Handlers -> Contacts]
      /\ seen' \in [Handlers -> Nat]
      /\ UNCHANGED <<users, locked, attempts, faults>>
  BY DEF Register, Goto, IInv, AccountsTypeOK, Calls
<1>2. /\ Len(users) \in Nat
      /\ Len(users) + Cardinality(Registering) < MaxUsers
  BY DEF Register, IInv, AccountsTypeOK
<1>3. Registering' = Registering \cup {h} /\ h \notin Registering
  BY <1>1 DEF Registering
<1>4. Cardinality(Registering') = Cardinality(Registering) + 1 /\ Cardinality(Registering) \in Nat
  BY <1>3, RegisteringCount
<1>5. AccountsTypeOK'
  <2>1. \A k \in Handlers :
          (locked'[k] \in Ids') = (pc'[k] \in {"password", "wrong", "right"})
    <3>1. \A k \in Handlers : pc'[k] \in {"password", "wrong", "right"} <=>
                              pc[k] \in {"password", "wrong", "right"}
      BY <1>1
    <3>2. \A k \in Handlers : locked[k] \in Ids <=> pc[k] \in {"password", "wrong", "right"}
      BY DEF IInv, AccountsTypeOK
    <3> QED
      BY <1>1, <3>1, <3>2
  <2>2. \A g, k \in Handlers, i \in Ids' : Holds(g, i)' /\ Holds(k, i)' => g = k
    BY <1>1 DEF IInv, AccountsTypeOK, Holds
  <2> QED
    BY <1>1, <2>1, <2>2 DEF IInv, AccountsTypeOK
<1>6. BoundInv'
  <2>1. Len(users') + Cardinality(Registering') <= MaxUsers
    BY <1>1, <1>2, <1>4
  <2>2. \A k \in Handlers : Registers(k)' => request'[k] \in Calls /\ seen'[k] <= Len(users')
    BY <1>1, <1>2 DEF IInv, BoundInv, Registers
  <2> QED
    BY <1>1, <2>1, <2>2 DEF IInv, BoundInv
<1>7. KeysInv'
  <2>1. \A k \in Inserting' : k \in Inserting /\ request'[k] = request[k]
    BY <1>1 DEF Inserting
  <2> QED
    BY <1>1, <2>1 DEF IInv, KeysInv, KeysUnique
<1>8. CheckedInv'
  <2>1. \A k \in Handlers : Checked(k)' = (IF k = h THEN {} ELSE Checked(k))
    BY <1>1 DEF Checked
  <2> QED
    BY <1>1, <2>1 DEF IInv, CheckedInv
<1> QED
  BY <1>5, <1>6, <1>7, <1>8 DEF IInv

\* A login reads a row; it holds none yet.
LEMMA LoginStep ==
    ASSUME IInv, NEW h \in Handlers, NEW r \in Calls, Login(h, r)
    PROVE  IInv'
<1>1. PICK j \in Ids :
        /\ Goto(h, "idle", "password")
        /\ request' = [request EXCEPT ![h] = r]
        /\ seen' = [seen EXCEPT ![h] = users[j].failed]
        /\ locked' = [locked EXCEPT ![h] = j]
        /\ UNCHANGED <<users, attempts, faults>>
  BY DEF Login
<1>2. users[j].failed \in Nat /\ j \in 1..MaxUsers
  <2>1. users \in Seq(User) /\ Len(users) \in Nat /\ Len(users) <= MaxUsers
    BY DEF IInv, AccountsTypeOK
  <2>2. users[j] \in User
    BY <2>1
  <2> QED
    BY <2>1, <2>2 DEF User
<1>3. /\ pc[h] = "idle" /\ pc'[h] = "password"
      /\ locked'[h] = j
      /\ \A k \in Handlers : k # h => /\ pc'[k] = pc[k] /\ request'[k] = request[k]
                                      /\ seen'[k] = seen[k] /\ locked'[k] = locked[k]
  BY <1>1 DEF Goto, IInv, AccountsTypeOK
<1>4. AccountsTypeOK'
  <2>1. \A k \in Handlers :
          (locked'[k] \in Ids') = (pc'[k] \in {"password", "wrong", "right"})
    <3>1. j \in Ids' /\ Ids' = Ids
      BY <1>1
    <3> QED
      BY <1>3, <3>1 DEF IInv, AccountsTypeOK
  <2>2. \A g, k \in Handlers, i \in Ids' : Holds(g, i)' /\ Holds(k, i)' => g = k
    BY <1>1, <1>3 DEF IInv, AccountsTypeOK, Holds
  <2>3. pc' \in [Handlers -> {"idle", "email", "phone", "role", "insert", "inserted",
                              "password", "wrong", "right"}]
    BY <1>1 DEF Goto, IInv, AccountsTypeOK
  <2>4. /\ request' \in [Handlers -> Contacts]
        /\ seen' \in [Handlers -> Nat]
        /\ locked' \in [Handlers -> (1..MaxUsers) \cup {NoUser}]
    BY <1>1, <1>2 DEF IInv, AccountsTypeOK, Calls
  <2> QED
    BY <1>1, <2>1, <2>2, <2>3, <2>4 DEF IInv, AccountsTypeOK
<1>5. BoundInv'
  <2>1. Registering' = Registering /\ \A k \in Handlers : Registers(k)' => k # h /\ Registers(k)
    BY <1>3 DEF Registering, Registers
  <2> QED
    BY <1>1, <1>3, <2>1 DEF IInv, BoundInv
<1>6. KeysInv'
  <2>1. \A k \in Inserting' : k \in Inserting /\ request'[k] = request[k]
    BY <1>3 DEF Inserting
  <2> QED
    BY <1>1, <2>1 DEF IInv, KeysInv, KeysUnique
<1>7. CheckedInv'
  <2>1. \A k \in Handlers : Checked(k)' = (IF k = h THEN {} ELSE Checked(k))
    BY <1>3 DEF Checked
  <2> QED
    BY <1>1, <1>3, <2>1 DEF IInv, CheckedInv
<1> QED
  BY <1>4, <1>5, <1>6, <1>7 DEF IInv

\* Suspending or deleting a user, and doing nothing, leave every handler alone.
LEMMA StillStep ==
    ASSUME IInv, Kept, UNCHANGED <<pc, request, seen, locked, attempts, faults>>
    PROVE  IInv'
<1>1. Ids' = Ids /\ Len(users') = Len(users)
  BY DEF Kept, IInv, AccountsTypeOK
<1>2. OnlyEnds
  BY DEF OnlyEnds
<1>3. AccountsTypeOK'
  <2>1. \A k \in Handlers :
          (locked'[k] \in Ids') = (pc'[k] \in {"password", "wrong", "right"})
    BY <1>1 DEF IInv, AccountsTypeOK
  <2>2. \A g, k \in Handlers, i \in Ids' : Holds(g, i)' /\ Holds(k, i)' => g = k
    BY <1>1 DEF IInv, AccountsTypeOK, Holds
  <2> QED
    BY <1>1, <2>1, <2>2 DEF IInv, AccountsTypeOK, Kept
<1>4. BoundInv'
  <2>1. Registering' = Registering /\ \A k \in Handlers : Registers(k)' = Registers(k)
    BY DEF Registering, Registers
  <2> QED
    BY <1>1, <2>1 DEF IInv, BoundInv
<1> QED
  BY <1>2, <1>3, <1>4, KeptStep DEF IInv

-----------------------------------------------------------------------------
(* The invariant.                                                          *)

\* IInv holds in every state of every behaviour.
LEMMA InductiveInvariant == AccountsSpec => []IInv
<1>1. AccountsInit => IInv
  <2> SUFFICES ASSUME AccountsInit PROVE IInv
    OBVIOUS
  <2>1. /\ users = <<>> /\ Len(users) = 0 /\ Ids = {}
        /\ \A h \in Handlers : pc[h] = "idle" /\ locked[h] = NoUser
    BY DEF AccountsInit
  <2>2. AccountsTypeOK
    BY <2>1 DEF AccountsInit, AccountsTypeOK, NoRequest, Contacts
  <2>3. Registering = {} /\ Inserting = {} /\ \A h \in Handlers : ~Registers(h)
    BY <2>1 DEF Registering, Inserting, Registers
  <2>4. BoundInv
    BY <2>1, <2>3, FS_EmptySet DEF BoundInv
  <2>5. KeysInv /\ CheckedInv
    BY <2>1, <2>3 DEF KeysInv, KeysUnique, CheckedInv
  <2> QED
    BY <2>2, <2>4, <2>5 DEF IInv
<1>2. IInv /\ [AccountsNext]_accountsVars => IInv'
  <2> SUFFICES ASSUME IInv, [AccountsNext]_accountsVars PROVE IInv'
    OBVIOUS
  <2>1. ASSUME NEW h \in Handlers, CheckEmail(h) \/ CheckPhone(h) PROVE IInv'
    BY <2>1, EndStep, GoOnStep DEF CheckEmail, CheckPhone, CheckColumn, IInv, AccountsTypeOK
  <2>2. ASSUME NEW h \in Handlers, CheckRole(h) PROVE IInv'
    BY <2>2, EndStep, GoOnStep DEF CheckRole, IInv, AccountsTypeOK
  <2>3. ASSUME NEW h \in Handlers, Insert(h) PROVE IInv'
    BY <2>3, GoOnStep DEF Insert
  <2>4. ASSUME NEW h \in Handlers, InsertFails(h) PROVE IInv'
    BY <2>4, EndStep DEF InsertFails, IInv, AccountsTypeOK
  <2>5. ASSUME NEW h \in Handlers, CommitUser(h) PROVE IInv'
    BY <2>5, EndStep DEF CommitUser, IInv, AccountsTypeOK
  <2>6. ASSUME NEW h \in Handlers, Verify(h) PROVE IInv'
    BY <2>6, GoOnStep DEF Verify
  <2>7. ASSUME NEW h \in Handlers, RollbackLogin(h) PROVE IInv'
    <3>1. attempts' \in [1..MaxUsers -> 0..MaxAttempts]
      BY <2>7 DEF RollbackLogin, Count, IInv, AccountsTypeOK
    <3> QED
      BY <2>7, <3>1, EndStep DEF RollbackLogin, IInv, AccountsTypeOK
  <2>8. ASSUME NEW h \in Handlers, CommitLogin(h) PROVE IInv'
    <3>1. attempts' \in [1..MaxUsers -> 0..MaxAttempts]
      BY <2>8 DEF CommitLogin, IInv, AccountsTypeOK
    <3> QED
      BY <2>8, <3>1, EndStep DEF CommitLogin, IInv, AccountsTypeOK
  <2>9. ASSUME NEW h \in Handlers, AccountCommitFails(h) PROVE IInv'
    <3>1. faults' \in 0..MaxFaults
      BY <2>9 DEF AccountCommitFails, IInv, AccountsTypeOK
    <3> QED
      BY <2>9, <3>1, EndStep DEF AccountCommitFails, IInv, AccountsTypeOK
  <2>10. ASSUME NEW i \in Ids, Suspend(i) \/ SoftDelete(i) PROVE IInv'
    <3> DEFINE row == users[i]
               suspended == [row EXCEPT !.mayLogIn = FALSE]
               deleted == [row EXCEPT !.live = FALSE]
    <3>1. row \in User /\ users \in Seq(User)
      BY DEF IInv, AccountsTypeOK
    <3>2. /\ suspended \in User /\ suspended.contacts = row.contacts
          /\ suspended.live => row.live
      BY <3>1 DEF User
    <3>3. /\ deleted \in User /\ deleted.contacts = row.contacts
          /\ deleted.live => row.live
      BY <3>1 DEF User
    <3>4. \/ users' = [users EXCEPT ![i] = suspended]
          \/ users' = [users EXCEPT ![i] = deleted]
      BY <2>10 DEF Suspend, SoftDelete
    <3>5. Kept
      <4> HIDE DEF suspended, deleted
      <4> QED
        BY <3>1, <3>2, <3>3, <3>4 DEF Kept
    <3> QED
      BY <2>10, <3>5, StillStep DEF Suspend, SoftDelete
  <2>11. CASE UNCHANGED accountsVars
    <3>1. Kept
      BY <2>11 DEF Kept, accountsVars, IInv, AccountsTypeOK
    <3> QED
      BY <2>11, <3>1, StillStep DEF accountsVars
  <2> QED
    BY <2>1, <2>2, <2>3, <2>4, <2>5, <2>6, <2>7, <2>8, <2>9, <2>10, <2>11,
       RegisterStep, LoginStep DEF AccountsNext, Handle
<1> QED
  BY <1>1, <1>2, PTL DEF AccountsSpec

-----------------------------------------------------------------------------
(* The properties.                                                         *)

\* Rows and requests keep their shape, and no two transactions hold one row.
THEOREM TypeCorrect == AccountsSpec => []AccountsTypeOK
<1>1. IInv => AccountsTypeOK
  BY DEF IInv
<1> QED
  BY <1>1, InductiveInvariant, PTL

\* However registrations overlap, no two users share an e-mail address or a
\* phone number, and every user has one of them.
THEOREM ContactsUnique == AccountsSpec => []KeysUnique
<1>1. IInv => KeysUnique
  BY DEF IInv, KeysInv
<1> QED
  BY <1>1, InductiveInvariant, PTL

\* What the unique constraint refuses, although both checks passed, was stored
\* after the checks began, is soft-deleted, or is an empty string.
THEOREM RefusalsExplained == AccountsSpec => ServerErrorExplained
<1>1. ASSUME IInv, [AccountsNext]_accountsVars, NEW h \in Handlers, Refused(h)
      PROVE  \E i \in Ids :
                /\ Clash(users[i].contacts, request[h])
                /\ \/ i > seen[h]
                   \/ ~users[i].live
                   \/ \E col \in Columns :
                         users[i].contacts[col] = Blank /\ request[h][col] = Blank
  <2>1. PICK i \in Ids : Clash(users[i].contacts, request[h])
    BY <1>1 DEF Refused
  <2>2. PICK col \in Columns : /\ users[i].contacts[col] = request[h][col]
                               /\ request[h][col] # Null
    BY <2>1 DEF Clash
  <2>3. CASE Given(request[h][col])
    <3>1. Checked(h) = Columns
      BY <1>1 DEF Refused, Checked
    <3>2. ~(i <= seen[h] /\ users[i].live)
      BY <1>1, <2>2, <2>3, <3>1 DEF IInv, CheckedInv
    <3>3. i \in Nat /\ seen[h] \in Nat
      BY <1>1 DEF IInv, AccountsTypeOK
    <3> QED
      BY <2>1, <3>2, <3>3
  <2>4. CASE ~Given(request[h][col])
    BY <2>1, <2>2, <2>4 DEF Given
  <2> QED
    BY <2>3, <2>4
<1>2. IInv /\ [AccountsNext]_accountsVars => [\A h \in Handlers : Refused(h) =>
          \E i \in Ids :
              /\ Clash(users[i].contacts, request[h])
              /\ \/ i > seen[h]
                 \/ ~users[i].live
                 \/ \E col \in Columns :
                       users[i].contacts[col] = Blank /\ request[h][col] = Blank]_accountsVars
  BY <1>1
<1> QED
  BY <1>2, InductiveInvariant, PTL DEF AccountsSpec, ServerErrorExplained
=============================================================================
