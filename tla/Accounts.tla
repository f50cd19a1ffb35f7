------------------------------ MODULE Accounts ------------------------------
(***************************************************************************)
(* User accounts: registration and login (services/auth_service.py), each  *)
(* request in a transaction of its own (database.py).                      *)
(*                                                                         *)
(* The database is PostgreSQL at READ COMMITTED: a query sees the rows     *)
(* committed before it, an INSERT waits for an open transaction that holds *)
(* the same unique value, an UPDATE for one that holds the row.  Suspending*)
(* and soft-deleting users is done by no code of the repository; both are  *)
(* steps of an administrator here.                                         *)
(***************************************************************************)
EXTENDS Naturals, Sequences, FiniteSets

CONSTANTS
    Handlers,     \* the requests that may be in flight together
    Emails,       \* e-mail addresses
    Phones,       \* phone numbers
    Null,         \* a column that is NULL
    Blank,        \* a column that holds the empty string
    NoUser,       \* a handler that holds no row
    MaxFailed,    \* MAX_FAILED_ATTEMPTS
    MaxUsers,     \* bound: how many users may be stored
    MaxAttempts,  \* bound: how many wrong passwords are counted per user
    MaxFaults     \* bound: how often a commit may fail

ASSUME BoundsAssumption ==
    /\ MaxFailed \in Nat \ {0}
    /\ MaxUsers \in Nat /\ MaxAttempts \in Nat /\ MaxFaults \in Nat
ASSUME HandlersAssumption == IsFiniteSet(Handlers)
ASSUME NoUserAssumption == NoUser \notin Nat

VARIABLES
    users,     \* the committed rows, in the order of their commits
    pc,        \* pc[h]: where handler h stands
    request,   \* request[h]: the contacts that h was called with
    seen,      \* seen[h]: how many users were stored when h began its checks
    locked,    \* locked[h]: the row that h has read, then holds
    attempts,  \* history: wrong passwords per user since its last login
    faults     \* history: the commits that failed

accountsVars == <<users, pc, request, seen, locked, attempts, faults>>

Columns == {"email", "phone"}
Contacts == [email : Emails \cup {Null, Blank}, phone : Phones \cup {Null, Blank}]
User == [contacts : Contacts, live : BOOLEAN, mayLogIn : BOOLEAN, failed : Nat]
Ids == DOMAIN users

\* A value that is true in Python.
Given(v) == v \notin {Null, Blank}

\* RegisterRequest and LoginRequest: an e-mail address or a phone number.
Calls == {c \in Contacts : \E col \in Columns : Given(c[col])}
NoRequest == [email |-> Null, phone |-> Null]

AccountsInit ==
    /\ users = <<>>
    /\ pc = [h \in Handlers |-> "idle"]
    /\ request = [h \in Handlers |-> NoRequest]
    /\ seen = [h \in Handlers |-> 0]
    /\ locked = [h \in Handlers |-> NoUser]
    /\ attempts = [i \in 1..MaxUsers |-> 0]
    /\ faults = 0

Goto(h, from, to) ==
    /\ pc[h] = from
    /\ pc' = [pc EXCEPT ![h] = to]

\* The transaction of h ends, what it held is free.
End(h) ==
    /\ pc' = [pc EXCEPT ![h] = "idle"]
    /\ request' = [request EXCEPT ![h] = NoRequest]
    /\ seen' = [seen EXCEPT ![h] = 0]
    /\ locked' = [locked EXCEPT ![h] = NoUser]

-----------------------------------------------------------------------------
(* Registration.                                                           *)

Registering == {h \in Handlers : pc[h] \in {"email", "phone", "role", "insert", "inserted"}}

Register(h, r) ==
    /\ Len(users) + Cardinality(Registering) < MaxUsers
    /\ Goto(h, "idle", "email")
    /\ request' = [request EXCEPT ![h] = r]
    /\ seen' = [seen EXCEPT ![h] = Len(users)]
    /\ UNCHANGED <<users, locked, attempts, faults>>

\* email_exists and phone_exists count the rows that are not soft-deleted.
Exists(col, v) == \E i \in Ids : users[i].live /\ users[i].contacts[col] = v

\* The check of one column, when the request gives it.
CheckColumn(h, col, next) ==
    /\ pc[h] = col
    /\ \/ /\ ~(Given(request[h][col]) /\ Exists(col, request[h][col]))
          /\ Goto(h, col, next)
          /\ UNCHANGED <<request, seen, locked>>
       \/ /\ Given(request[h][col]) /\ Exists(col, request[h][col])
          /\ End(h)
    /\ UNCHANGED <<users, attempts, faults>>

CheckEmail(h) == CheckColumn(h, "email", "phone")

SkipPhone(h) ==
    /\ Goto(h, "phone", "role")
    /\ UNCHANGED <<users, request, seen, locked, attempts, faults>>

CheckPhone(h) == CheckColumn(h, "phone", "role")

\* The role that is asked for may be none of the Role enumeration.
CheckRole(h) ==
    /\ pc[h] = "role"
    /\ \/ Goto(h, "role", "insert") /\ UNCHANGED <<request, seen, locked>>
       \/ End(h)
    /\ UNCHANGED <<users, attempts, faults>>

\* The unique constraints: equal values clash unless they are NULL.
Clash(c, d) == \E col \in Columns : c[col] = d[col] /\ c[col] # Null

Inserting == {h \in Handlers : pc[h] = "inserted"}

InsertUnchecked(h) ==
    /\ Goto(h, "insert", "inserted")
    /\ UNCHANGED <<users, request, seen, locked, attempts, faults>>

Insert(h) ==
    /\ \A g \in Inserting : ~Clash(request[g], request[h])
    /\ \A i \in Ids : ~Clash(users[i].contacts, request[h])
    /\ Goto(h, "insert", "inserted")
    /\ UNCHANGED <<users, request, seen, locked, attempts, faults>>

\* The INSERT raises IntegrityError; the request is answered with an error 500.
InsertFails(h) ==
    /\ pc[h] = "insert"
    /\ \E i \in Ids : Clash(users[i].contacts, request[h])
    /\ End(h)
    /\ UNCHANGED <<users, attempts, faults>>

Stored(h) ==
    Append(users, [contacts |-> request[h], live |-> TRUE,
                   mayLogIn |-> TRUE, failed |-> 0])

CommitUser(h) ==
    /\ pc[h] = "inserted"
    /\ users' = Stored(h)
    /\ End(h)
    /\ UNCHANGED <<attempts, faults>>

-----------------------------------------------------------------------------
(* Login.                                                                  *)

\* get_by_email, or get_by_phone when no e-mail address is given.
Finds(i, r) ==
    LET col == IF Given(r.email) THEN "email" ELSE "phone" IN
    users[i].live /\ users[i].contacts[col] = r[col]

\* A user is found, may log in and is not locked out.  Every other login ends
\* without a change.
Login(h, r) ==
    \E i \in Ids :
        /\ Finds(i, r)
        /\ users[i].mayLogIn
        /\ users[i].failed < MaxFailed
        /\ Goto(h, "idle", "password")
        /\ request' = [request EXCEPT ![h] = r]
        /\ seen' = [seen EXCEPT ![h] = users[i].failed]
        /\ locked' = [locked EXCEPT ![h] = i]
        /\ UNCHANGED <<users, attempts, faults>>

Holds(h, i) == locked[h] = i /\ pc[h] \in {"wrong", "right"}

RowFree(i) == \A g \in Handlers : ~Holds(g, i)

VerifyUnlocked(h) ==
    /\ \E result \in {"wrong", "right"} : Goto(h, "password", result)
    /\ UNCHANGED <<users, request, seen, locked, attempts, faults>>

\* verify_password, then the UPDATE of the row: increment_failed_login before
\* InvalidCredentialsError, or reset_failed_login and update_last_login.
Verify(h) ==
    /\ pc[h] = "password"
    /\ RowFree(locked[h])
    /\ \E result \in {"wrong", "right"} : Goto(h, "password", result)
    /\ UNCHANGED <<users, request, seen, locked, attempts, faults>>

Count(i) == [attempts EXCEPT ![i] = IF @ < MaxAttempts THEN @ + 1 ELSE @]

\* The error rolls the increment back.
RollbackNothing(h) ==
    /\ pc[h] = "wrong"
    /\ attempts' = Count(locked[h])
    /\ UNCHANGED <<users, pc, request, seen, locked, faults>>

RollbackLogin(h) ==
    /\ pc[h] = "wrong"
    /\ attempts' = Count(locked[h])
    /\ End(h)
    /\ UNCHANGED <<users, faults>>

\* The ORM writes the counter only when it was not 0 already.
LoggedIn(h) ==
    IF seen[h] = 0 THEN users ELSE [users EXCEPT ![locked[h]].failed = 0]

CommitLogin(h) ==
    /\ pc[h] = "right"
    /\ users' = LoggedIn(h)
    /\ attempts' = [attempts EXCEPT ![locked[h]] = 0]
    /\ End(h)
    /\ UNCHANGED faults

-----------------------------------------------------------------------------
(* The environment.                                                        *)

\* A commit fails: the transaction is rolled back, or it is committed and only
\* the acknowledgement is lost.
AccountCommitFails(h) ==
    /\ faults < MaxFaults
    /\ faults' = faults + 1
    /\ \/ pc[h] = "inserted" /\ users' \in {users, Stored(h)}
       \/ pc[h] = "right" /\ users' \in {users, LoggedIn(h)}
    /\ End(h)
    /\ UNCHANGED attempts

\* An administrator suspends or soft-deletes a user.
Suspend(i) ==
    /\ RowFree(i)
    /\ users[i].mayLogIn
    /\ users' = [users EXCEPT ![i].mayLogIn = FALSE]
    /\ UNCHANGED <<pc, request, seen, locked, attempts, faults>>

SoftDelete(i) ==
    /\ RowFree(i)
    /\ users[i].live
    /\ users' = [users EXCEPT ![i].live = FALSE]
    /\ UNCHANGED <<pc, request, seen, locked, attempts, faults>>

Handle(h) ==
    \/ CheckEmail(h) \/ CheckPhone(h) \/ CheckRole(h)
    \/ Insert(h) \/ InsertFails(h) \/ CommitUser(h)
    \/ Verify(h) \/ RollbackLogin(h) \/ CommitLogin(h)

AccountsNext ==
    \/ \E h \in Handlers, r \in Calls : Register(h, r) \/ Login(h, r)
    \/ \E h \in Handlers : Handle(h) \/ AccountCommitFails(h)
    \/ \E i \in Ids : Suspend(i) \/ SoftDelete(i)

\* The event loop resumes every handler, and PostgreSQL grants a lock to its
\* waiters in turn.
Fairness == \A h \in Handlers : WF_accountsVars(Handle(h)) /\ SF_accountsVars(Verify(h))

AccountsSpec == AccountsInit /\ [][AccountsNext]_accountsVars /\ Fairness

-----------------------------------------------------------------------------
(* Properties.                                                             *)

\* The type invariant: rows and requests keep their shape, a handler that
\* verifies a password has a row, and no two transactions hold one row.
AccountsTypeOK ==
    /\ users \in Seq(User) /\ Len(users) <= MaxUsers
    /\ pc \in [Handlers -> {"idle", "email", "phone", "role", "insert", "inserted",
                            "password", "wrong", "right"}]
    /\ request \in [Handlers -> Contacts]
    /\ seen \in [Handlers -> Nat]
    /\ locked \in [Handlers -> (1..MaxUsers) \cup {NoUser}]
    /\ \A h \in Handlers :
          (locked[h] \in Ids) = (pc[h] \in {"password", "wrong", "right"})
    /\ \A g, h \in Handlers, i \in Ids : Holds(g, i) /\ Holds(h, i) => g = h
    /\ attempts \in [1..MaxUsers -> 0..MaxAttempts]
    /\ faults \in 0..MaxFaults

\* However registrations overlap, no two users share an e-mail address or a
\* phone number, and every user has one of them.
KeysUnique ==
    \A i \in Ids :
        /\ \E col \in Columns : Given(users[i].contacts[col])
        /\ \A j \in Ids : i # j => ~Clash(users[i].contacts, users[j].contacts)

\* The checks of a registration leave to the unique constraint only what they
\* cannot see: a user committed since they began, a soft-deleted user, or an
\* empty string, which counts as not given.
Refused(h) ==
    /\ pc[h] = "insert" /\ pc'[h] = "idle"
    /\ \E i \in Ids : Clash(users[i].contacts, request[h])

ServerErrorExplained ==
    [][\A h \in Handlers : Refused(h) =>
          \E i \in Ids :
              /\ Clash(users[i].contacts, request[h])
              /\ \/ i > seen[h]
                 \/ ~users[i].live
                 \/ \E col \in Columns :
                       users[i].contacts[col] = Blank /\ request[h][col] = Blank]_accountsVars

\* Requests that wait for each other's rows and values all end.
EveryRequestEnds ==
    \A h \in Handlers : pc[h] # "idle" ~> pc[h] = "idle"

\* services/auth_service.py:8 says "Account lockout after 5 failed attempts":
\* after that many wrong passwords in a row the stored counter locks the user
\* out.
LockedOut ==
    \A i \in Ids : attempts[i] >= MaxFailed => users[i].failed >= MaxFailed
=============================================================================
