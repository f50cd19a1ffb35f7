------------------------------ MODULE Sessions ------------------------------
(***************************************************************************)
(* The life of tokens: login issues an access and a refresh token, a       *)
(* refresh revokes the refresh token it was given and issues a new pair,   *)
(* logout revokes an access token, and every request with an access token  *)
(* is checked against the revoked ones (services/auth_service.py,          *)
(* core/security.py, dependencies.py).  Revoked tokens are keys of a       *)
(* blacklist in Redis that expire with the token (core/cache.py).          *)
(*                                                                         *)
(* Handlers of several requests interleave at every await.  Redis may fail *)
(* on a call or lose a key, a handler may die; such faults spend a shared  *)
(* budget, MaxFaults.  The clock of the application is that of Redis, and  *)
(* counts ticks of a fraction of a second.                                 *)
(***************************************************************************)
EXTENDS Naturals, Sequences, FiniteSets

CONSTANTS
    Handlers,        \* the requests that may be in flight together
    Users,           \* user identifiers
    NoJob,           \* a handler that works on nothing
    TicksPerSecond,  \* ticks of the clock in a second
    AccessLife,      \* jwt_access_token_expire_minutes, in seconds
    RefreshLife,     \* jwt_refresh_token_expire_days, in seconds
    MaxTokens,       \* bound: how many tokens may be issued
    MaxLogins,       \* bound: how many logins may succeed
    MaxTime,         \* bound: how far the clock runs
    FaultKinds,      \* the kinds of fault that may happen
    MaxFaults        \* bound: how many faults may happen

ASSUME HandlersAssumption == IsFiniteSet(Handlers)
ASSUME ClockAssumption == TicksPerSecond \in Nat \ {0}
ASSUME LivesAssumption == AccessLife \in Nat \ {0} /\ RefreshLife \in Nat \ {0}
ASSUME BoundsAssumption ==
    MaxTokens \in Nat /\ MaxLogins \in Nat /\ MaxTime \in Nat /\ MaxFaults \in Nat

VARIABLES
    now,         \* the clock, in ticks
    tokens,      \* the tokens issued so far; a token's jti is its index
    active,      \* the users whose row exists with status ACTIVE
    blacklist,   \* blacklist[j]: when the key of j expires, 0 when never set
    pc,          \* pc[h]: where handler h stands
    job,         \* job[h]: what handler h works on
    revoked,     \* history: the tokens whose revocation Redis acknowledged
    unfinished,  \* history: refresh tokens whose refresh was refused or died
    faults       \* history: the faults so far

vars == <<now, tokens, active, blacklist, pc, job, revoked, unfinished, faults>>

Tasks == {"login", "refresh", "logout"}
Jtis == 1..MaxTokens
NoJti == 0
Token == [type : {"access", "refresh"}, user : Users, exp : Nat,
          parent : Jtis \cup {NoJti}]
Job == [task : Tasks, user : Users, jti : Jtis \cup {NoJti}]

ASSUME NoJobAssumption == NoJob \notin Job

Issued == DOMAIN tokens

Init ==
    /\ now = 0
    /\ tokens = <<>>
    /\ active = Users
    /\ blacklist = [j \in Jtis |-> 0]
    /\ pc = [h \in Handlers |-> "idle"]
    /\ job = [h \in Handlers |-> NoJob]
    /\ revoked = {}
    /\ unfinished = {}
    /\ faults = 0

Spend(k) ==
    /\ k \in FaultKinds
    /\ faults < MaxFaults
    /\ faults' = faults + 1

Goto(h, from, to) ==
    /\ pc[h] = from
    /\ pc' = [pc EXCEPT ![h] = to]

\* The handler ends.
Leave(h, from) ==
    /\ Goto(h, from, "idle")
    /\ job' = [job EXCEPT ![h] = NoJob]

-----------------------------------------------------------------------------
(* The environment.                                                        *)

Tick ==
    /\ now < MaxTime
    /\ now' = now + 1
    /\ UNCHANGED <<tokens, active, blacklist, pc, job, revoked, unfinished, faults>>

\* An account is suspended or closed, by an administrator of the database.
Suspend(u) ==
    /\ u \in active
    /\ active' = active \ {u}
    /\ UNCHANGED <<now, tokens, blacklist, pc, job, revoked, unfinished, faults>>

\* Redis evicts a key (allkeys-lru) or restarts without its last second.
LoseKey(j) ==
    /\ blacklist[j] # 0
    /\ Spend("evict")
    /\ blacklist' = [blacklist EXCEPT ![j] = 0]
    /\ revoked' = revoked \ {j}
    /\ UNCHANGED <<now, tokens, active, pc, job, unfinished>>

\* The process of a handler dies, its client goes away or its query fails.
Die(h) ==
    /\ pc[h] # "idle"
    /\ Spend("crash")
    /\ Leave(h, pc[h])
    /\ unfinished' = unfinished \cup ({job[h].jti} \ {NoJti})
    /\ UNCHANGED <<now, tokens, active, blacklist, revoked>>

-----------------------------------------------------------------------------
(* Tokens.                                                                 *)

\* A JWT's exp is a whole number of seconds: the time of issue is cut off.
Expiry(life) == (now \div TicksPerSecond + life) * TicksPerSecond

\* create_token_pair.
Pair(u, parent) ==
    << [type |-> "access", user |-> u, exp |-> Expiry(AccessLife), parent |-> parent],
       [type |-> "refresh", user |-> u, exp |-> Expiry(RefreshLife), parent |-> parent] >>

\* decode_token refuses an expired token.
Valid(j) == now < tokens[j].exp

\* is_token_blacklisted, when Redis answers.
Blacklisted(j) == now < blacklist[j]

\* The TTL of a blacklist entry: the token's remaining whole seconds.
RemainingOfAccess(j) == IF Valid(j) THEN AccessLife ELSE 0

Remaining(j) ==
    IF Valid(j) THEN (tokens[j].exp - now) \div TicksPerSecond ELSE 0

-----------------------------------------------------------------------------
(* Handlers.                                                               *)

\* login: the user is found with a status that may log in, and the password
\* is right (Accounts models the rest of login).
Logins ==
    Cardinality({i \in Issued : tokens[i].type = "access" /\ tokens[i].parent = NoJti})
    + Cardinality({h \in Handlers : pc[h] = "issue" /\ job[h].jti = NoJti})

Login(h, u) ==
    /\ Logins < MaxLogins
    /\ u \in active
    /\ Goto(h, "idle", "issue")
    /\ job' = [job EXCEPT ![h] = [task |-> "login", user |-> u, jti |-> NoJti]]
    /\ UNCHANGED <<now, tokens, active, blacklist, revoked, unfinished, faults>>

\* refresh_token, or get_current_token in front of a request, of which logout
\* is the one that changes state: the token is decoded and must have the type
\* that is asked for.
BeginAnyType(h, j, task) ==
    /\ Valid(j)
    /\ Goto(h, "idle", "check")
    /\ job' = [job EXCEPT ![h] = [task |-> task, user |-> tokens[j].user, jti |-> j]]
    /\ UNCHANGED <<now, tokens, active, blacklist, revoked, unfinished, faults>>

Begin(h, j, task) ==
    /\ Valid(j)
    /\ (task = "refresh") = (tokens[j].type = "refresh")
    /\ Goto(h, "idle", "check")
    /\ job' = [job EXCEPT ![h] = [task |-> task, user |-> tokens[j].user, jti |-> j]]
    /\ UNCHANGED <<now, tokens, active, blacklist, revoked, unfinished, faults>>

\* The blacklist is read: a listed token is refused, and when Redis fails the
\* token passes.  A refresh whose call of Redis raises skips the revocation
\* too: both are in one try.
Passes(h) == Goto(h, "check", "revoke")

CheckNothing(h) ==
    /\ Passes(h)
    /\ UNCHANGED <<now, tokens, active, blacklist, job, revoked, unfinished, faults>>

Check(h) ==
    /\ pc[h] = "check"
    /\ \/ Blacklisted(job[h].jti) /\ Leave(h, "check") /\ UNCHANGED faults
       \/ ~Blacklisted(job[h].jti) /\ Passes(h) /\ UNCHANGED <<job, faults>>
       \/ Passes(h) /\ Spend("redis") /\ UNCHANGED job
       \/ /\ job[h].task = "refresh"
          /\ Goto(h, "check", "verify")
          /\ Spend("redis")
          /\ UNCHANGED job
    /\ UNCHANGED <<now, tokens, active, blacklist, revoked, unfinished>>

\* blacklist_token with the remaining lifetime, when that is positive.  A
\* failed call is ignored, whether or not Redis applied it.
Revoke(h) ==
    LET j == job[h].jti
        listed == [blacklist EXCEPT ![j] = now + Remaining(j) * TicksPerSecond] IN
    /\ pc[h] = "revoke"
    /\ \/ job[h].task = "logout" /\ Leave(h, "revoke")
       \/ job[h].task = "refresh" /\ Goto(h, "revoke", "verify") /\ UNCHANGED job
    /\ \/ /\ Remaining(j) > 0
          /\ blacklist' = listed
          /\ revoked' = revoked \cup {j}
          /\ UNCHANGED faults
       \/ /\ Remaining(j) > 0
          /\ blacklist' \in {blacklist, listed}
          /\ Spend("redis")
          /\ UNCHANGED revoked
       \/ /\ Remaining(j) = 0
          /\ UNCHANGED <<blacklist, revoked, faults>>
    /\ UNCHANGED <<now, tokens, active, unfinished>>

\* The user is read again: a refresh for a user who is not active fails.
Verify(h) ==
    /\ pc[h] = "verify"
    /\ \/ /\ job[h].user \in active
          /\ Goto(h, "verify", "issue")
          /\ UNCHANGED <<job, unfinished>>
       \/ /\ job[h].user \notin active
          /\ Leave(h, "verify")
          /\ unfinished' = unfinished \cup {job[h].jti}
    /\ UNCHANGED <<now, tokens, active, blacklist, revoked, faults>>

Issue(h) ==
    /\ Len(tokens) + 2 <= MaxTokens
    /\ Leave(h, "issue")
    /\ tokens' = tokens \o Pair(job[h].user, job[h].jti)
    /\ UNCHANGED <<now, active, blacklist, revoked, unfinished, faults>>

Handle(h) ==
    \/ \E u \in Users : Login(h, u)
    \/ \E j \in Issued, task \in Tasks \ {"login"} : Begin(h, j, task)
    \/ Check(h) \/ Revoke(h) \/ Verify(h) \/ Issue(h)
    \/ Die(h)

Next ==
    \/ Tick
    \/ \E u \in Users : Suspend(u)
    \/ \E j \in Jtis : LoseKey(j)
    \/ \E h \in Handlers : Handle(h)

Spec == Init /\ [][Next]_vars

-----------------------------------------------------------------------------
(* Properties.                                                             *)

\* The type invariant: tokens, the blacklist and the jobs of handlers keep
\* their shape, and a handler works on an issued token of the type it asked for.
TypeOK ==
    /\ now \in 0..MaxTime
    /\ tokens \in Seq(Token) /\ Len(tokens) <= MaxTokens
    /\ active \subseteq Users
    /\ blacklist \in [Jtis -> Nat]
    /\ pc \in [Handlers -> {"idle", "check", "revoke", "verify", "issue"}]
    /\ job \in [Handlers -> Job \cup {NoJob}]
    /\ \A h \in Handlers :
          /\ pc[h] = "idle" <=> job[h] = NoJob
          /\ pc[h] # "idle" => job[h].jti \in Issued \cup {NoJti}
          /\ pc[h] \in {"check", "revoke", "verify"} => job[h].jti \in Issued
          /\ pc[h] # "idle" /\ job[h].jti # NoJti =>
                (job[h].task = "refresh") = (tokens[job[h].jti].type = "refresh")
    /\ revoked \subseteq Issued
    /\ unfinished \subseteq Issued
    /\ faults \in 0..MaxFaults

\* Every request checks the blacklist before proceeding (auth_service.py:297):
\* a token whose revocation Redis acknowledged passes the check of no later
\* request, unless Redis fails at that very check or the token is in the last
\* second of its life, which the truncated TTL does not cover.
RevokedIsRefused ==
    [][\A h \in Handlers :
          /\ pc[h] = "check" /\ pc'[h] = "revoke"
          /\ job[h].jti \in revoked
          /\ faults' = faults
          => tokens[job[h].jti].exp < now + TicksPerSecond]_vars

\* However requests overlap, a refresh token is exchanged at most once for
\* every request that can be in flight, and again as often for each fault,
\* as long as its last second has not begun: rotation bounds reuse although
\* the check and the revocation are two steps.
Exchanges(j) == {i \in Issued : tokens[i].type = "access" /\ tokens[i].parent = j}
Claims(j) == {h \in Handlers : pc[h] \in {"revoke", "verify", "issue"} /\ job[h].jti = j}

ExchangesBounded ==
    \A j \in Issued :
        now + TicksPerSecond <= tokens[j].exp =>
            Cardinality(Exchanges(j)) + Cardinality(Claims(j))
                <= Cardinality(Handlers) * (faults + 1)

\* A revoked refresh token is never simply lost: it has been exchanged for a
\* new pair, or its handler is about to, or the user was no longer active,
\* or the handler died on the way.
NoTokenLost ==
    \A j \in revoked :
        tokens[j].type = "refresh" =>
            \/ Exchanges(j) # {}
            \/ Claims(j) # {}
            \/ j \in unfinished

\* services/auth_service.py:235 says "This ensures that stolen refresh tokens
\* can only be used once": no refresh token is exchanged twice.
RefreshSingleUse ==
    \A j \in Issued : Cardinality(Exchanges(j)) <= 1
=============================================================================
