--------------------------- MODULE SessionsProofs ---------------------------
(***************************************************************************)
(* Proofs about Sessions, for any requests, users, lives and bounds.       *)
(*                                                                         *)
(* A key of the blacklist outlives its token up to the token's last second *)
(* (ListedInv): the TTL is cut to whole seconds.  So before that second a  *)
(* token that is not listed has never been revoked, or its key was lost;   *)
(* the handlers that have passed the step of revocation all the same, and  *)
(* the pairs that they issued, are paid for by faults (ReuseInv).          *)
(***************************************************************************)
EXTENDS Sessions, FiniteSetTheorems, TLAPS

\* A key of the blacklist outlives its token, up to its last second.
ListedInv ==
    \A j \in Jtis : blacklist[j] # 0 \/ j \in revoked =>
        /\ j \in Issued
        /\ tokens[j].exp < blacklist[j] + TicksPerSecond

\* A token descends from an issued one.
ParentsInv == \A i \in Issued : tokens[i].parent \in Issued \cup {NoJti}

\* The claims on token j that are past the step of its revocation.
Settled(j) == {h \in Handlers : pc[h] \in {"verify", "issue"} /\ job[h].jti = j}

\* A token about to expire.
InLastSecond(j) == tokens[j].exp < now + TicksPerSecond

\* Exchanges, and claims on the way to one, are paid for by faults.
ReuseInv ==
    \A j \in Issued : InLastSecond(j) \/
        /\ Cardinality(Exchanges(j)) + Cardinality(Claims(j))
               <= Cardinality(Handlers) * (faults + 1)
        /\ blacklist[j] = 0 =>
               Cardinality(Exchanges(j)) + Cardinality(Settled(j))
                   <= Cardinality(Handlers) * faults

\* The inductive invariant.
IInv == TypeOK /\ ListedInv /\ ParentsInv /\ NoTokenLost /\ ReuseInv

USE HandlersAssumption, ClockAssumption, LivesAssumption, BoundsAssumption, NoJobAssumption

\* A token that was issued.
LEMMA TokenType ==
    ASSUME TypeOK, NEW j \in Issued
    PROVE  tokens[j] \in Token /\ tokens[j].exp \in Nat /\ j \in Jtis
<1>1. tokens \in Seq(Token) /\ Len(tokens) \in Nat /\ Len(tokens) <= MaxTokens
  BY DEF TypeOK
<1>2. tokens[j] \in Token /\ j \in 1..Len(tokens)
  BY <1>1 DEF Issued
<1> QED
  BY <1>1, <1>2 DEF Token, Jtis

-----------------------------------------------------------------------------
(* Counting.                                                               *)

\* What is counted is finite, and a claim that is settled is a claim.
LEMMA Counts ==
    ASSUME TypeOK, NEW j
    PROVE  /\ IsFiniteSet(Exchanges(j)) /\ Cardinality(Exchanges(j)) \in Nat
           /\ IsFiniteSet(Claims(j)) /\ Cardinality(Claims(j)) \in Nat
           /\ IsFiniteSet(Settled(j)) /\ Cardinality(Settled(j)) \in Nat
           /\ Cardinality(Handlers) \in Nat
           /\ Settled(j) \subseteq Claims(j)
           /\ Cardinality(Settled(j)) <= Cardinality(Claims(j))
           /\ Cardinality(Claims(j)) <= Cardinality(Handlers)
<1>1. Claims(j) \subseteq Handlers /\ Settled(j) \subseteq Claims(j)
  BY DEF Claims, Settled
<1>2. Exchanges(j) \subseteq 1..Len(tokens) /\ Len(tokens) \in Nat
  BY DEF Exchanges, Issued, TypeOK
<1>3. IsFiniteSet(Exchanges(j))
  <2>1. IsFiniteSet(1..Len(tokens))
    BY <1>2, FS_Interval
  <2> QED
    BY <1>2, <2>1, FS_Subset
<1>4. IsFiniteSet(Claims(j)) /\ Cardinality(Claims(j)) <= Cardinality(Handlers)
  BY <1>1, FS_Subset
<1>5. IsFiniteSet(Settled(j)) /\ Cardinality(Settled(j)) <= Cardinality(Claims(j))
  BY <1>1, <1>4, FS_Subset
<1> QED
  BY <1>1, <1>3, <1>4, <1>5, FS_CardinalityType

\* Dividing the clock into seconds cuts off less than a second.
LEMMA Seconds ==
    ASSUME NEW a \in Nat
    PROVE  /\ a \div TicksPerSecond \in Nat
           /\ (a \div TicksPerSecond) * TicksPerSecond \in Nat
           /\ a < (a \div TicksPerSecond) * TicksPerSecond + TicksPerSecond
<1>1. a \div TicksPerSecond \in Nat
  OBVIOUS
<1>2. a < (a \div TicksPerSecond) * TicksPerSecond + TicksPerSecond
  OBVIOUS
<1> QED
  BY <1>1, <1>2

\* One fault more pays for one more exchange of every handler.
LEMMA OneMore ==
    ASSUME NEW n \in Nat, NEW k \in Nat
    PROVE  n * k \in Nat /\ n * (k + 1) = n * k + n
OBVIOUS

\* Token j has been reused no more often than the faults allow.
Bounded(j) ==
    InLastSecond(j) \/
        /\ Cardinality(Exchanges(j)) + Cardinality(Claims(j))
               <= Cardinality(Handlers) * (faults + 1)
        /\ blacklist[j] = 0 =>
               Cardinality(Exchanges(j)) + Cardinality(Settled(j))
                   <= Cardinality(Handlers) * faults

\* A step that claims nothing new keeps the bound: it settles a claim on a token
\* that is not listed, or takes its key away, only by a fault.
LEMMA BoundedKept ==
    ASSUME IInv, TypeOK', NEW j \in Issued, tokens' = tokens, now <= now',
           faults <= faults', Claims(j)' \subseteq Claims(j),
           \/ InLastSecond(j)
           \/ blacklist'[j] # 0
           \/ blacklist[j] = 0 /\ Settled(j)' \subseteq Settled(j)
           \/ faults' = faults + 1
    PROVE  Bounded(j)'
<1> DEFINE N == Cardinality(Handlers)
           E == Cardinality(Exchanges(j))
           C == Cardinality(Claims(j))
           S == Cardinality(Settled(j))
<1>1. /\ now \in Nat /\ now' \in Nat /\ faults \in Nat /\ faults' \in Nat
      /\ tokens[j].exp \in Nat
  BY TokenType DEF IInv, TypeOK
<1>2. InLastSecond(j) => InLastSecond(j)'
  BY <1>1 DEF InLastSecond
<1>3. Exchanges(j)' = Exchanges(j)
  BY DEF Exchanges, Issued
<1>4. /\ N \in Nat /\ E \in Nat /\ C \in Nat /\ S \in Nat
      /\ C' \in Nat /\ S' \in Nat /\ C' <= C /\ S' <= C'
  <2>1. /\ IsFiniteSet(Claims(j)') /\ C' <= C
    BY Counts, FS_Subset DEF IInv
  <2>2. Settled(j)' \subseteq Claims(j)'
    BY DEF Settled, Claims
  <2>3. IsFiniteSet(Settled(j)') /\ S' <= C'
    BY <2>1, <2>2, FS_Subset
  <2> QED
    BY <2>1, <2>3, Counts, FS_CardinalityType DEF IInv
<1>5. Settled(j)' \subseteq Settled(j) => S' <= S
  BY Counts, FS_Subset DEF IInv
<1>6. N' = N /\ E' = E
  BY <1>3
<1>7. /\ N * faults \in Nat
      /\ N * (faults + 1) = N * faults + N
      /\ N * faults' \in Nat
      /\ N * (faults' + 1) = N * faults' + N
      /\ N * (faults + 1) <= N * (faults' + 1)
      /\ N * faults <= N * faults'
      /\ faults' = faults + 1 => N * faults' = N * faults + N
  BY <1>1, <1>4
<1>8. CASE InLastSecond(j)
  BY <1>2, <1>8 DEF Bounded
<1>9. CASE ~InLastSecond(j)
  <2>1. /\ E + C <= N * (faults + 1)
        /\ blacklist[j] = 0 => E + S <= N * faults
    BY <1>9 DEF IInv, ReuseInv
  <2> HIDE DEF N, E, C, S
  <2>2. E' + C' <= N' * (faults' + 1)
    BY <2>1, <1>4, <1>6, <1>7
  <2>3. blacklist'[j] = 0 => E' + S' <= N' * faults'
    BY <2>1, <1>4, <1>5, <1>6, <1>7, <1>9
  <2> QED
    BY <2>2, <2>3 DEF Bounded, N, E, C, S
<1> QED
  BY <1>8, <1>9

\* A claim of one more handler on a token is within the bound, if the token is
\* not listed or a fault let the handler pass.
LEMMA BoundedClaim ==
    ASSUME IInv, NEW j \in Issued, NEW h \in Handlers, tokens' = tokens, now' = now,
           blacklist' = blacklist, Claims(j)' \subseteq Claims(j) \cup {h},
           \/ faults' = faults + 1 /\ Settled(j)' \subseteq Settled(j) \cup {h}
           \/ /\ faults' = faults /\ Settled(j)' \subseteq Settled(j)
              /\ InLastSecond(j) \/ blacklist[j] = 0
    PROVE  Bounded(j)'
<1> DEFINE N == Cardinality(Handlers)
           E == Cardinality(Exchanges(j))
           C == Cardinality(Claims(j))
           S == Cardinality(Settled(j))
<1>1. faults \in Nat
  BY DEF IInv, TypeOK
<1>2. InLastSecond(j)' = InLastSecond(j) /\ N' = N /\ E' = E
  BY DEF InLastSecond, Exchanges, Issued
<1>3. N \in Nat /\ E \in Nat /\ C \in Nat /\ S \in Nat /\ C <= N /\ S <= C
  BY Counts DEF IInv
<1>4. C' \in Nat /\ C' <= C + 1 /\ C' <= N
  <2>1. IsFiniteSet(Claims(j) \cup {h}) /\ Cardinality(Claims(j) \cup {h}) <= C + 1
    <3>1. IsFiniteSet(Claims(j))
      BY Counts DEF IInv
    <3>2. /\ IsFiniteSet(Claims(j) \cup {h})
          /\ Cardinality(Claims(j) \cup {h}) = IF h \in Claims(j) THEN C ELSE C + 1
      BY <3>1, FS_AddElement
    <3> QED
      BY <1>3, <3>2
  <2>2. Claims(j)' \subseteq Handlers
    BY DEF Claims
  <2>3. IsFiniteSet(Claims(j)') /\ C' <= Cardinality(Claims(j) \cup {h}) /\ C' <= N
    BY <2>1, <2>2, FS_Subset
  <2>4. C' \in Nat /\ Cardinality(Claims(j) \cup {h}) \in Nat
    BY <2>1, <2>3, FS_CardinalityType
  <2> QED
    BY <1>3, <2>1, <2>3, <2>4
<1>5. ASSUME NEW T, IsFiniteSet(T), Settled(j)' \subseteq T
      PROVE  S' \in Nat /\ Cardinality(T) \in Nat /\ S' <= Cardinality(T)
  BY <1>5, FS_Subset, FS_CardinalityType
<1>6. IsFiniteSet(Settled(j) \cup {h}) /\ Cardinality(Settled(j) \cup {h}) \in {S, S + 1}
  BY Counts, FS_AddElement DEF IInv
<1>7. /\ S' \in Nat
      /\ faults' = faults + 1 => S' <= S + 1
      /\ faults' = faults => S' <= S
  <2>1. faults + 1 # faults
    BY <1>1
  <2>2. CASE Settled(j)' \subseteq Settled(j)
    BY <1>3, <1>5, <2>2, Counts DEF IInv
  <2>3. CASE Settled(j)' \subseteq Settled(j) \cup {h} /\ faults' = faults + 1
    BY <1>3, <1>5, <1>6, <2>1, <2>3
  <2> QED
    BY <2>2, <2>3
<1>8. /\ N * faults \in Nat
      /\ N * (faults + 1) = N * faults + N
      /\ N * (faults + 1 + 1) = N * (faults + 1) + N
      /\ N # 0
  <2>1. N # 0
    BY <1>4, FS_EmptySet
  <2> QED
    <3>1. N * faults \in Nat /\ N * (faults + 1) = N * faults + N
      BY <1>1, <1>3, OneMore
    <3>2. N * (faults + 1 + 1) = N * (faults + 1) + N
      BY <1>1, <1>3, OneMore
    <3> QED
      BY <2>1, <3>1, <3>2
<1>9. CASE InLastSecond(j)
  BY <1>2, <1>9 DEF Bounded
<1>10. CASE ~InLastSecond(j)
  <2>1. /\ E + C <= N * (faults + 1)
        /\ blacklist[j] = 0 => E + S <= N * faults
    BY <1>10 DEF IInv, ReuseInv
  <2> HIDE DEF N, E, C, S
  <2>2. E' + C' <= N' * (faults' + 1)
    BY <2>1, <1>1, <1>2, <1>3, <1>4, <1>8, <1>10
  <2>3. blacklist'[j] = 0 => E' + S' <= N' * faults'
    BY <2>1, <1>1, <1>2, <1>3, <1>7, <1>8, <1>10
  <2> QED
    BY <2>2, <2>3 DEF Bounded, N, E, C, S
<1> QED
  BY <1>9, <1>10

-----------------------------------------------------------------------------
(* Steps that issue no token.                                              *)

\* Such a step keeps the invariant when the keys that it sets outlive their
\* tokens, the claims that it gives up are accounted for, and the claims that it
\* makes are within the bound.
LEMMA SameTokens ==
    ASSUME IInv, TypeOK', tokens' = tokens, now <= now', faults <= faults',
           unfinished \subseteq unfinished',
           \A j \in Jtis : blacklist'[j] # 0 \/ j \in revoked' =>
              \/ blacklist'[j] = blacklist[j] /\ (j \in revoked' => j \in revoked)
              \/ j \in Issued /\ tokens[j].exp < blacklist'[j] + TicksPerSecond,
           \A j \in revoked' : tokens[j].type = "refresh" =>
              \/ j \in revoked /\ Claims(j) \subseteq Claims(j)'
              \/ Claims(j)' # {}
              \/ j \in unfinished',
           \A j \in Issued :
              \/ Bounded(j)'
              \/ /\ Claims(j)' \subseteq Claims(j)
                 /\ \/ InLastSecond(j)
                    \/ blacklist'[j] # 0
                    \/ blacklist[j] = 0 /\ Settled(j)' \subseteq Settled(j)
                    \/ faults' = faults + 1
    PROVE  IInv'
<1>1. Issued' = Issued
  BY DEF Issued
<1>2. ListedInv'
  BY <1>1 DEF IInv, ListedInv
<1>3. ParentsInv'
  BY <1>1 DEF IInv, ParentsInv
<1>4. NoTokenLost'
  <2>1. \A j : Exchanges(j)' = Exchanges(j)
    BY <1>1 DEF Exchanges
  <2> QED
    BY <2>1 DEF IInv, NoTokenLost
<1>5. ReuseInv'
  <2>1. \A j \in Issued : Bounded(j)'
    BY BoundedKept
  <2> QED
    BY <1>1, <2>1 DEF ReuseInv, Bounded
<1> QED
  BY <1>2, <1>3, <1>4, <1>5 DEF IInv

\* A handler that leaves gives up its claim.
LEMMA LeaveStep ==
    ASSUME IInv, NEW h \in Handlers, NEW from, from # "idle", Leave(h, from)
    PROVE  /\ pc[h] = from
           /\ pc' \in [Handlers -> {"idle", "check", "revoke", "verify", "issue"}]
           /\ job' \in [Handlers -> Job \cup {NoJob}]
           /\ pc'[h] = "idle" /\ job'[h] = NoJob
           /\ \A k \in Handlers : k # h => pc'[k] = pc[k] /\ job'[k] = job[k]
           /\ job[h].jti \in Issued \cup {NoJti}
           /\ \A j \in Jtis : /\ Claims(j)' = Claims(j) \ {h}
                              /\ Settled(j)' = Settled(j) \ {h}
                              /\ j # job[h].jti => Claims(j)' = Claims(j)
<1>1. /\ pc[h] = from
      /\ pc' \in [Handlers -> {"idle", "check", "revoke", "verify", "issue"}]
      /\ job' \in [Handlers -> Job \cup {NoJob}]
      /\ pc'[h] = "idle" /\ job'[h] = NoJob
      /\ \A k \in Handlers : k # h => pc'[k] = pc[k] /\ job'[k] = job[k]
  BY DEF Leave, Goto, IInv, TypeOK
<1>2. \A j \in Jtis : /\ Claims(j)' = Claims(j) \ {h}
                      /\ Settled(j)' = Settled(j) \ {h}
                      /\ j # job[h].jti => Claims(j)' = Claims(j)
  BY <1>1 DEF Claims, Settled
<1>3. job[h].jti \in Issued \cup {NoJti}
  BY <1>1 DEF IInv, TypeOK
<1> QED
  BY <1>1, <1>2, <1>3

\* A handler that goes on keeps its job.
LEMMA GoOnStep ==
    ASSUME IInv, NEW h \in Handlers, NEW from \in {"check", "revoke", "verify"},
           NEW to \in {"revoke", "verify", "issue"}, Goto(h, from, to), job' = job
    PROVE  /\ pc' \in [Handlers -> {"idle", "check", "revoke", "verify", "issue"}]
           /\ pc[h] = from /\ pc'[h] = to
           /\ \A k \in Handlers : k # h => pc'[k] = pc[k]
           /\ job[h].jti \in Issued
           /\ \A j \in Jtis : /\ Claims(j) \subseteq Claims(j)'
                              /\ Claims(j)' \subseteq Claims(j) \cup {h}
                              /\ Settled(j)' \subseteq Settled(j) \cup {h}
                              /\ from # "check" => Claims(j)' = Claims(j)
                              /\ to = "revoke" \/ from = "verify" =>
                                    Settled(j)' \subseteq Settled(j)
                              /\ j # job[h].jti =>
                                    Claims(j)' = Claims(j) /\ Settled(j)' = Settled(j)
           /\ h \in Claims(job[h].jti)'
<1>1. /\ pc' \in [Handlers -> {"idle", "check", "revoke", "verify", "issue"}]
      /\ pc[h] = from /\ pc'[h] = to
      /\ \A k \in Handlers : k # h => pc'[k] = pc[k]
  BY DEF Goto, IInv, TypeOK
<1>2. job[h].jti \in Issued
  BY <1>1 DEF IInv, TypeOK
<1>3. h \in Claims(job[h].jti)'
  BY <1>1 DEF Claims
<1>4. \A j \in Jtis : /\ Claims(j) \subseteq Claims(j)'
                      /\ Claims(j)' \subseteq Claims(j) \cup {h}
                      /\ from # "check" => Claims(j)' = Claims(j)
                      /\ j # job[h].jti => Claims(j)' = Claims(j)
  BY <1>1 DEF Claims
<1>5. \A j \in Jtis : /\ Settled(j)' \subseteq Settled(j) \cup {h}
                      /\ to = "revoke" \/ from = "verify" =>
                            Settled(j)' \subseteq Settled(j)
                      /\ j # job[h].jti => Settled(j)' = Settled(j)
  BY <1>1 DEF Settled
<1> QED
  BY <1>1, <1>2, <1>3, <1>4, <1>5

\* A handler that begins has a claim, and has settled nothing.
LEMMA BeginStep ==
    ASSUME IInv, NEW h \in Handlers,
           \/ \E u \in Users : Login(h, u)
           \/ \E j \in Issued, task \in Tasks \ {"login"} : Begin(h, j, task)
    PROVE  IInv'
<1>1. PICK J \in Job, to \in {"check", "issue"} :
        /\ Goto(h, "idle", to) /\ job' = [job EXCEPT ![h] = J]
        /\ J.jti \in Issued \cup {NoJti}
        /\ to = "check" => J.jti \in Issued
        /\ to = "issue" => J.jti = NoJti
        /\ J.jti # NoJti => (J.task = "refresh") = (tokens[J.jti].type = "refresh")
        /\ UNCHANGED <<now, tokens, active, blacklist, revoked, unfinished, faults>>
  <2>1. CASE \E u \in Users : Login(h, u)
    <3>1. PICK u \in Users : Login(h, u)
      BY <2>1
    <3>2. [task |-> "login", user |-> u, jti |-> NoJti] \in Job
      BY <3>1 DEF Job, Tasks, IInv, TypeOK
    <3> QED
      BY <3>1, <3>2 DEF Login
  <2>2. CASE \E j \in Issued, task \in Tasks \ {"login"} : Begin(h, j, task)
    <3>1. PICK j \in Issued, task \in Tasks \ {"login"} : Begin(h, j, task)
      BY <2>2
    <3>2. tokens[j] \in Token /\ j \in Jtis
      BY DEF IInv, TypeOK, Issued, Jtis
    <3>3. [task |-> task, user |-> tokens[j].user, jti |-> j] \in Job
      BY <3>2 DEF Job, Token
    <3> QED
      BY <3>1, <3>3 DEF Begin
  <2> QED
    BY <2>1, <2>2
<1>2. /\ pc[h] = "idle" /\ pc'[h] = to /\ job'[h] = J /\ job[h] = NoJob
      /\ \A k \in Handlers : k # h => pc'[k] = pc[k] /\ job'[k] = job[k]
      /\ pc' \in [Handlers -> {"idle", "check", "revoke", "verify", "issue"}]
      /\ job' \in [Handlers -> Job \cup {NoJob}]
  BY <1>1 DEF Goto, IInv, TypeOK
<1>3. TypeOK'
  <2>1. ASSUME NEW k \in Handlers
        PROVE  /\ pc'[k] = "idle" <=> job'[k] = NoJob
               /\ pc'[k] # "idle" => job'[k].jti \in Issued' \cup {NoJti}
               /\ pc'[k] \in {"check", "revoke", "verify"} => job'[k].jti \in Issued'
               /\ pc'[k] # "idle" /\ job'[k].jti # NoJti =>
                     (job'[k].task = "refresh") = (tokens'[job'[k].jti].type = "refresh")
    <3>1. CASE k = h
      BY <1>1, <1>2, <3>1 DEF Issued
    <3>2. CASE k # h
      BY <1>1, <1>2, <3>2 DEF IInv, TypeOK, Issued
    <3> QED
      BY <3>1, <3>2
  <2> QED
    BY <1>1, <1>2, <2>1 DEF IInv, TypeOK, Issued
<1>4. \A j \in Issued : Claims(j)' = Claims(j) /\ Settled(j)' = Settled(j)
  BY <1>1, <1>2 DEF Claims, Settled, Issued, NoJti, IInv, TypeOK
<1>5. revoked \subseteq Issued /\ now \in Nat /\ faults \in Nat
  BY DEF IInv, TypeOK
<1> QED
  BY <1>1, <1>3, <1>4, <1>5, SameTokens DEF IInv, ReuseInv, Bounded, InLastSecond

\* The check refuses a listed token; it lets one pass that is not listed, or any
\* token when Redis fails.
LEMMA CheckStep == ASSUME IInv, NEW h \in Handlers, Check(h) PROVE IInv'
<1>1. /\ pc[h] = "check"
      /\ UNCHANGED <<now, tokens, active, blacklist, revoked, unfinished>>
  BY DEF Check
<1>2. /\ revoked \subseteq Issued /\ now \in Nat /\ faults \in Nat /\ job[h].jti \in Issued
      /\ now \in 0..MaxTime /\ faults \in 0..MaxFaults
  BY <1>1 DEF IInv, TypeOK
<1>3. CASE Leave(h, "check") /\ UNCHANGED faults
  <2>1. TypeOK'
    BY <1>1, <1>3, LeaveStep DEF IInv, TypeOK, Issued
  <2>2. \A j \in Jtis : /\ Claims(j)' = Claims(j)
                        /\ Settled(j)' = Settled(j)
    <3>1. \A j \in Jtis : h \notin Claims(j) /\ h \notin Settled(j)
      BY <1>1 DEF Claims, Settled
    <3> QED
      BY <1>1, <1>3, <3>1 DEF Claims, Settled, Leave, Goto
  <2>3. Issued \subseteq Jtis
    BY DEF IInv, TypeOK, Issued, Jtis
  <2> QED
    BY <1>1, <1>2, <1>3, <2>1, <2>2, <2>3, SameTokens DEF IInv, ReuseInv, Bounded, InLastSecond
<1>4. ASSUME NEW to \in {"revoke", "verify"}, Goto(h, "check", to), job' = job,
             faults' \in 0..MaxFaults,
             \/ faults' = faults + 1
             \/ faults' = faults /\ to = "revoke" /\ ~Blacklisted(job[h].jti)
      PROVE  IInv'
  <2>1. Issued' = Issued /\ Issued \subseteq Jtis
    BY <1>1 DEF Issued, IInv, TypeOK, Jtis
  <2>2. TypeOK'
    <3>1. ASSUME NEW k \in Handlers
          PROVE  /\ pc'[k] = "idle" <=> job[k] = NoJob
                 /\ pc'[k] # "idle" => job[k].jti \in Issued \cup {NoJti}
                 /\ pc'[k] \in {"check", "revoke", "verify"} => job[k].jti \in Issued
                 /\ pc'[k] # "idle" /\ job[k].jti # NoJti =>
                       (job[k].task = "refresh") = (tokens[job[k].jti].type = "refresh")
      BY <1>1, <1>2, <1>4, GoOnStep DEF IInv, TypeOK
    <3> QED
      BY <1>1, <1>4, <2>1, <3>1, GoOnStep DEF IInv, TypeOK
  <2>3. \A j \in Jtis : /\ Claims(j) \subseteq Claims(j)'
                        /\ Claims(j)' \subseteq Claims(j) \cup {h}
                        /\ Settled(j)' \subseteq Settled(j) \cup {h}
                        /\ to = "revoke" => Settled(j)' \subseteq Settled(j)
                        /\ j # job[h].jti => Claims(j)' = Claims(j) /\ Settled(j)' = Settled(j)
    BY <1>4, GoOnStep
  <2>4. \A j \in Issued : Bounded(j)'
    <3> SUFFICES ASSUME NEW j \in Issued PROVE Bounded(j)'
      OBVIOUS
    <3>1. CASE faults' = faults + 1
      BY <1>1, <2>1, <2>3, <3>1, BoundedClaim
    <3>2. CASE faults' = faults /\ to = "revoke" /\ j = job[h].jti /\ ~Blacklisted(j)
      <4>1. InLastSecond(j) \/ blacklist[j] = 0
        <5>1. blacklist[j] \in Nat /\ tokens[j].exp \in Nat
          BY TokenType DEF IInv, TypeOK
        <5>2. blacklist[j] # 0 => tokens[j].exp < blacklist[j] + TicksPerSecond
          BY <2>1 DEF IInv, ListedInv
        <5> QED
          BY <1>2, <3>2, <5>1, <5>2 DEF InLastSecond, Blacklisted
      <4> QED
        BY <1>1, <2>1, <2>3, <3>2, <4>1, BoundedClaim
    <3>3. CASE faults' = faults /\ j # job[h].jti
      BY <1>1, <1>2, <2>1, <2>2, <2>3, <3>3, BoundedKept DEF IInv, ReuseInv, Bounded, InLastSecond
    <3> QED
      BY <1>4, <3>1, <3>2, <3>3
  <2> QED
    BY <1>1, <1>2, <1>4, <2>1, <2>2, <2>3, <2>4, SameTokens
<1>5. \/ ~Blacklisted(job[h].jti) /\ Passes(h) /\ UNCHANGED <<job, faults>>
      \/ Passes(h) /\ Spend("redis") /\ UNCHANGED job
      => IInv'
  BY <1>2, <1>4 DEF Passes, Spend
<1>6. Goto(h, "check", "verify") /\ Spend("redis") /\ UNCHANGED job => IInv'
  BY <1>2, <1>4 DEF Spend
<1> QED
  BY <1>3, <1>5, <1>6 DEF Check

\* The key that a revocation sets covers all but the token's last second.
LEMMA RevokedFor ==
    ASSUME IInv, NEW j \in Issued
    PROVE  /\ Remaining(j) \in Nat
           /\ now + Remaining(j) * TicksPerSecond \in Nat
           /\ Remaining(j) > 0 => now + Remaining(j) * TicksPerSecond # 0
           /\ Remaining(j) > 0 =>
                 tokens[j].exp < now + Remaining(j) * TicksPerSecond + TicksPerSecond
           /\ Remaining(j) = 0 => InLastSecond(j)
<1>1. now \in Nat /\ tokens[j].exp \in Nat
  BY TokenType DEF IInv, TypeOK
<1>2. CASE ~Valid(j)
  BY <1>1, <1>2 DEF Valid, Remaining, InLastSecond
<1>3. CASE Valid(j)
  <2> DEFINE left == tokens[j].exp - now
             r == left \div TicksPerSecond
  <2>1. left \in Nat /\ left > 0
    BY <1>1, <1>3 DEF Valid
  <2>2. r \in Nat /\ r * TicksPerSecond \in Nat /\ left < r * TicksPerSecond + TicksPerSecond
    BY <2>1, Seconds
  <2>3. Remaining(j) = r
    BY <1>3 DEF Remaining
  <2>4. r = 0 => r * TicksPerSecond = 0
    BY <2>2
  <2>5. r > 0 => r * TicksPerSecond > 0
    BY <2>2
  <2>6. left + now = tokens[j].exp
    BY <1>1
  <2> HIDE DEF r, left
  <2> QED
    <3>1. CASE r = 0
      <4>1. left < TicksPerSecond
        BY <2>1, <2>2, <2>4, <3>1
      <4>2. InLastSecond(j)
        BY <1>1, <2>1, <2>6, <4>1 DEF InLastSecond
      <4>3. now + Remaining(j) * TicksPerSecond = now
        BY <1>1, <2>3, <2>4, <3>1
      <4> QED
        BY <1>1, <2>3, <3>1, <4>2, <4>3
    <3>2. CASE r # 0
      BY <1>1, <2>1, <2>2, <2>3, <2>5, <2>6, <3>2
    <3> QED
      BY <3>1, <3>2
<1> QED
  BY <1>2, <1>3

\* A revocation that Redis acknowledges lists the token; one that is skipped
\* comes in the token's last second, one that fails is paid for.
LEMMA RevokeStep == ASSUME IInv, NEW h \in Handlers, Revoke(h) PROVE IInv'
<1>0. job[h].jti \in Issued
  BY DEF Revoke, IInv, TypeOK
<1> PICK i \in Issued : i = job[h].jti
  BY <1>0
<1> DEFINE listed == [blacklist EXCEPT ![i] = now + Remaining(i) * TicksPerSecond]
<1>1. /\ pc[h] = "revoke"
      /\ UNCHANGED <<now, tokens, active, unfinished>>
      /\ Issued' = Issued
  BY DEF Revoke, Issued
<1>2. /\ i \in Issued /\ i \in Jtis
      /\ Issued \subseteq Jtis
      /\ revoked \subseteq Issued /\ now \in Nat /\ faults \in Nat
      /\ (job[h].task = "refresh") = (tokens[i].type = "refresh")
      /\ job[h] \in Job
  BY <1>1, TokenType DEF IInv, TypeOK, Jtis, NoJti
<1>3. \/ job[h].task = "logout" /\ Leave(h, "revoke")
      \/ job[h].task = "refresh" /\ Goto(h, "revoke", "verify") /\ UNCHANGED job
  BY DEF Revoke
<1>4. \/ /\ Remaining(i) > 0
         /\ blacklist' = listed
         /\ revoked' = revoked \cup {i}
         /\ UNCHANGED faults
      \/ /\ Remaining(i) > 0
         /\ blacklist' \in {blacklist, listed}
         /\ Spend("redis")
         /\ UNCHANGED revoked
      \/ /\ Remaining(i) = 0
         /\ UNCHANGED <<blacklist, revoked, faults>>
  BY DEF Revoke
<1>5. /\ blacklist' \in [Jtis -> Nat]
      /\ \A j \in Jtis : j # i => blacklist'[j] = blacklist[j]
      /\ blacklist'[i] \in {blacklist[i], now + Remaining(i) * TicksPerSecond}
      /\ i \in revoked' /\ i \notin revoked =>
            blacklist'[i] = now + Remaining(i) * TicksPerSecond
      /\ Remaining(i) > 0 /\ faults' = faults => blacklist'[i] # 0
      /\ revoked' \in {revoked, revoked \cup {i}}
      /\ faults' \in 0..MaxFaults /\ faults' \in {faults, faults + 1}
  <2>1. blacklist \in [Jtis -> Nat] /\ faults \in 0..MaxFaults
    BY DEF IInv, TypeOK
  <2>2. /\ now + Remaining(i) * TicksPerSecond \in Nat
        /\ Remaining(i) > 0 => now + Remaining(i) * TicksPerSecond # 0
    BY <1>2, RevokedFor
  <2>3. /\ listed \in [Jtis -> Nat]
        /\ \A j \in Jtis : j # i => listed[j] = blacklist[j]
        /\ listed[i] = now + Remaining(i) * TicksPerSecond
    BY <1>2, <2>1, <2>2
  <2> HIDE DEF listed
  <2> QED
    BY <1>2, <1>4, <2>1, <2>2, <2>3 DEF Spend
<1>6. \A j \in Jtis : /\ Claims(j)' \subseteq Claims(j)
                      /\ tokens[i].type = "refresh" => Claims(j)' = Claims(j)
                      /\ j # i => Claims(j)' = Claims(j) /\ Settled(j)' \subseteq Settled(j)
  <2>1. CASE job[h].task = "logout" /\ Leave(h, "revoke")
    BY <1>1, <1>2, <2>1, LeaveStep
  <2>2. CASE job[h].task = "refresh" /\ Goto(h, "revoke", "verify") /\ UNCHANGED job
    BY <2>2, GoOnStep
  <2> QED
    BY <1>3, <2>1, <2>2
<1>7. tokens[i].type = "refresh" => h \in Claims(i)'
  <2>1. h \in Claims(i)
    BY <1>1 DEF Claims
  <2> QED
    BY <1>2, <1>6, <2>1
<1>8. TypeOK'
  <2>1. revoked' \subseteq Issued' /\ unfinished' \subseteq Issued'
    BY <1>1, <1>2, <1>5 DEF IInv, TypeOK
  <2>2. CASE job[h].task = "logout" /\ Leave(h, "revoke")
    <3>1. /\ pc' \in [Handlers -> {"idle", "check", "revoke", "verify", "issue"}]
          /\ job' \in [Handlers -> Job \cup {NoJob}]
          /\ pc'[h] = "idle" /\ job'[h] = NoJob
          /\ \A k \in Handlers : k # h => pc'[k] = pc[k] /\ job'[k] = job[k]
      BY <2>2, LeaveStep
    <3>2. /\ now' = now /\ tokens' = tokens /\ active' = active /\ Issued' = Issued
          /\ blacklist' \in [Jtis -> Nat] /\ faults' \in 0..MaxFaults
      BY <1>1, <1>5 DEF IInv, TypeOK
    <3>3. ASSUME NEW k \in Handlers
          PROVE  /\ pc'[k] = "idle" <=> job'[k] = NoJob
                 /\ pc'[k] # "idle" => k # h
      BY <3>1 DEF IInv, TypeOK
    <3>4. ASSUME NEW k \in Handlers, pc'[k] # "idle"
          PROVE  /\ job'[k].jti \in Issued \cup {NoJti}
                 /\ pc'[k] \in {"check", "revoke", "verify"} => job'[k].jti \in Issued
                 /\ job'[k].jti # NoJti =>
                      (job'[k].task = "refresh") = (tokens[job'[k].jti].type = "refresh")
      <4>1. pc'[k] = pc[k] /\ job'[k] = job[k] /\ k # h
        BY <3>1, <3>3, <3>4
      <4> QED
        BY <3>4, <4>1 DEF IInv, TypeOK
    <3>5. /\ tokens \in Seq(Token) /\ Len(tokens) <= MaxTokens
          /\ now \in 0..MaxTime /\ active \subseteq Users
      BY DEF IInv, TypeOK
    <3> QED
      BY <2>1, <3>1, <3>2, <3>3, <3>4, <3>5 DEF TypeOK
  <2>3. CASE job[h].task = "refresh" /\ Goto(h, "revoke", "verify") /\ UNCHANGED job
    BY <1>1, <1>5, <2>1, <2>3, GoOnStep DEF IInv, TypeOK
  <2> QED
    BY <1>3, <2>2, <2>3
<1>9. \A j \in Jtis : blacklist'[j] # 0 \/ j \in revoked' =>
        \/ blacklist'[j] = blacklist[j] /\ (j \in revoked' => j \in revoked)
        \/ j \in Issued /\ tokens[j].exp < blacklist'[j] + TicksPerSecond
  BY <1>2, <1>4, <1>5, RevokedFor
<1>10. \A j \in revoked' : tokens[j].type = "refresh" =>
         \/ j \in revoked /\ Claims(j) \subseteq Claims(j)'
         \/ Claims(j)' # {}
  BY <1>2, <1>5, <1>6, <1>7
<1>11. \A j \in Issued :
         /\ Claims(j)' \subseteq Claims(j)
         /\ \/ InLastSecond(j)
            \/ blacklist'[j] # 0
            \/ blacklist[j] = 0 /\ Settled(j)' \subseteq Settled(j)
            \/ faults' = faults + 1
  BY <1>2, <1>4, <1>5, <1>6, RevokedFor
<1>12. now <= now' /\ faults <= faults' /\ unfinished \subseteq unfinished'
  BY <1>1, <1>2, <1>5
<1> HIDE DEF listed
<1> QED
  BY <1>1, <1>8, <1>9, <1>10, <1>11, <1>12, SameTokens

\* A handler that ends without a pair leaves its token unfinished.
LEMMA GiveUpStep ==
    ASSUME IInv, NEW h \in Handlers, NEW from, from # "idle", Leave(h, from),
           unfinished' = unfinished \cup ({job[h].jti} \ {NoJti}),
           faults <= faults', faults' \in 0..MaxFaults,
           UNCHANGED <<now, tokens, active, blacklist, revoked>>
    PROVE  IInv'
<1>1. /\ Issued' = Issued /\ Issued \subseteq Jtis
      /\ revoked \subseteq Issued /\ now \in Nat /\ NoJti \notin Jtis
  BY TokenType DEF Issued, IInv, TypeOK, Jtis, NoJti
<1>2. /\ pc' \in [Handlers -> {"idle", "check", "revoke", "verify", "issue"}]
      /\ job' \in [Handlers -> Job \cup {NoJob}]
      /\ pc'[h] = "idle" /\ job'[h] = NoJob
      /\ \A k \in Handlers : k # h => pc'[k] = pc[k] /\ job'[k] = job[k]
      /\ job[h].jti \in Issued \cup {NoJti}
      /\ \A j \in Jtis : /\ Claims(j)' = Claims(j) \ {h}
                         /\ Settled(j)' = Settled(j) \ {h}
                         /\ j # job[h].jti => Claims(j)' = Claims(j)
  BY LeaveStep
<1>3. unfinished' \subseteq Issued
  BY <1>2 DEF IInv, TypeOK
<1>4. TypeOK'
  BY <1>1, <1>2, <1>3 DEF IInv, TypeOK
<1>5. \A j \in revoked' :
        \/ j \in revoked /\ Claims(j) \subseteq Claims(j)'
        \/ j \in unfinished'
  BY <1>1, <1>2
<1>6. \A j \in Issued : /\ Claims(j)' \subseteq Claims(j)
                        /\ Settled(j)' \subseteq Settled(j)
  BY <1>1, <1>2
<1> QED
  BY <1>1, <1>4, <1>5, <1>6, SameTokens

\* The user of a refresh is read again.
LEMMA VerifyStep == ASSUME IInv, NEW h \in Handlers, Verify(h) PROVE IInv'
<1>1. /\ pc[h] = "verify" /\ job[h].jti \in Issued
      /\ UNCHANGED <<now, tokens, active, blacklist, revoked, faults>>
  BY DEF Verify, IInv, TypeOK
<1>2. /\ Issued' = Issued /\ Issued \subseteq Jtis
      /\ revoked \subseteq Issued /\ now \in Nat /\ faults \in Nat /\ faults \in 0..MaxFaults
      /\ NoJti \notin Jtis
  BY <1>1, TokenType DEF Issued, IInv, TypeOK, Jtis, NoJti
<1>3. CASE Goto(h, "verify", "issue") /\ UNCHANGED <<job, unfinished>>
  <2>1. /\ pc' \in [Handlers -> {"idle", "check", "revoke", "verify", "issue"}]
        /\ pc'[h] = "issue" /\ \A k \in Handlers : k # h => pc'[k] = pc[k]
        /\ \A j \in Jtis : Claims(j)' = Claims(j) /\ Settled(j)' \subseteq Settled(j)
    BY <1>3, GoOnStep
  <2>2. TypeOK'
    BY <1>1, <1>2, <1>3, <2>1 DEF IInv, TypeOK
  <2> QED
    BY <1>1, <1>2, <1>3, <2>1, <2>2, SameTokens DEF IInv, ReuseInv, Bounded, InLastSecond
<1>4. CASE Leave(h, "verify") /\ unfinished' = unfinished \cup {job[h].jti}
  <2>1. unfinished' = unfinished \cup ({job[h].jti} \ {NoJti})
    BY <1>1, <1>2, <1>4
  <2> QED
    BY <1>1, <1>2, <1>4, <2>1, GiveUpStep
<1> QED
  BY <1>3, <1>4 DEF Verify

\* A key that is lost makes its token usable once more; the fault pays for it.
LEMMA LoseKeyStep == ASSUME IInv, NEW j \in Jtis, LoseKey(j) PROVE IInv'
<1>1. /\ UNCHANGED <<now, tokens, active, pc, job, unfinished>>
      /\ blacklist' = [blacklist EXCEPT ![j] = 0] /\ revoked' = revoked \ {j}
      /\ faults' = faults + 1 /\ faults < MaxFaults
  BY DEF LoseKey, Spend
<1>2. /\ Issued' = Issued /\ Issued \subseteq Jtis
      /\ revoked \subseteq Issued /\ now \in Nat /\ faults \in Nat
      /\ blacklist \in [Jtis -> Nat]
  BY <1>1, TokenType DEF Issued, IInv, TypeOK
<1>3. TypeOK'
  BY <1>1, <1>2 DEF IInv, TypeOK
<1>4. \A i \in Jtis : Claims(i)' = Claims(i)
  BY <1>1 DEF Claims
<1>5. \A i \in Jtis : blacklist'[i] # 0 \/ i \in revoked' => blacklist'[i] = blacklist[i]
  BY <1>1, <1>2
<1> QED
  BY <1>1, <1>2, <1>3, <1>4, <1>5, SameTokens

\* Time passes, a user is suspended, or nothing happens.
LEMMA StillStep ==
    ASSUME IInv, now <= now', now' \in 0..MaxTime, active' \subseteq Users,
           UNCHANGED <<tokens, blacklist, pc, job, revoked, unfinished, faults>>
    PROVE  IInv'
<1>1. /\ Issued' = Issued /\ Issued \subseteq Jtis
      /\ revoked \subseteq Issued /\ now \in Nat /\ faults \in Nat
  BY TokenType DEF Issued, IInv, TypeOK
<1>2. TypeOK'
  BY <1>1 DEF IInv, TypeOK
<1>3. \A j \in Jtis : Claims(j)' = Claims(j) /\ Settled(j)' = Settled(j)
  BY DEF Claims, Settled
<1> QED
  BY <1>1, <1>2, <1>3, SameTokens

-----------------------------------------------------------------------------
(* The step that issues a pair turns a claim into an exchange.             *)

\* The claim that the pair was issued for becomes an exchange.
LEMMA IssueStep == ASSUME IInv, NEW h \in Handlers, Issue(h) PROVE IInv'
<1> DEFINE n == Len(tokens)
<1>1. /\ pc[h] = "issue" /\ job[h] \in Job /\ job[h].jti \in Issued \cup {NoJti}
      /\ n \in Nat /\ n + 2 <= MaxTokens /\ Issued = 1..n
      /\ tokens \in Seq(Token)
      /\ UNCHANGED <<now, active, blacklist, revoked, unfinished, faults>>
      /\ now \in Nat /\ faults \in Nat
  BY DEF Issue, Leave, Goto, Issued, IInv, TypeOK
<1> PICK parent \in Issued \cup {NoJti} : parent = job[h].jti
  BY <1>1
<1> PICK user \in Users : user = job[h].user
  BY <1>1 DEF Job
<1> DEFINE access == [type |-> "access", user |-> user, exp |-> Expiry(AccessLife),
                      parent |-> parent]
           refresh == [type |-> "refresh", user |-> user, exp |-> Expiry(RefreshLife),
                       parent |-> parent]
<1>2. access \in Token /\ refresh \in Token
  <2>1. ASSUME NEW life \in Nat PROVE Expiry(life) \in Nat
    <3>1. now \div TicksPerSecond + life \in Nat
      BY <1>1, Seconds
    <3> QED
      BY <3>1 DEF Expiry
  <2>2. Expiry(AccessLife) \in Nat /\ Expiry(RefreshLife) \in Nat
    BY <2>1
  <2>3. parent \in Jtis \cup {NoJti}
    BY <1>1, TokenType DEF IInv
  <2> QED
    BY <2>2, <2>3 DEF Token
<1>3. /\ tokens' \in Seq(Token) /\ Len(tokens') = n + 2
      /\ Issued' = Issued \cup {n + 1, n + 2}
      /\ \A i \in Issued : tokens'[i] = tokens[i]
      /\ tokens'[n + 1] = access /\ tokens'[n + 2] = refresh
  <2>1. tokens' = tokens \o <<access, refresh>>
    BY DEF Issue, Pair
  <2>2. <<access, refresh>> \in Seq(Token) /\ Len(<<access, refresh>>) = 2
    BY <1>2
  <2> HIDE DEF access, refresh
  <2> QED
    BY <1>1, <2>1, <2>2 DEF Issued
<1>4. /\ pc' \in [Handlers -> {"idle", "check", "revoke", "verify", "issue"}]
      /\ job' \in [Handlers -> Job \cup {NoJob}]
      /\ pc'[h] = "idle" /\ job'[h] = NoJob
      /\ \A k \in Handlers : k # h => pc'[k] = pc[k] /\ job'[k] = job[k]
      /\ \A j \in Jtis : /\ Claims(j)' = Claims(j) \ {h}
                         /\ Settled(j)' = Settled(j) \ {h}
                         /\ j # parent => Claims(j)' = Claims(j)
  BY LeaveStep DEF Issue
<1>5. n + 1 \notin Issued /\ n + 2 \notin Issued /\ n + 1 # NoJti /\ n + 2 # NoJti
  BY <1>1 DEF NoJti
<1> HIDE DEF n
<1>6. TypeOK'
  <2>1. ASSUME NEW k \in Handlers
        PROVE  /\ pc'[k] = "idle" <=> job'[k] = NoJob
               /\ pc'[k] # "idle" => job'[k].jti \in Issued' \cup {NoJti}
               /\ pc'[k] \in {"check", "revoke", "verify"} => job'[k].jti \in Issued'
               /\ pc'[k] # "idle" /\ job'[k].jti # NoJti =>
                     (job'[k].task = "refresh") = (tokens'[job'[k].jti].type = "refresh")
    <3>1. CASE k = h
      BY <1>4, <3>1
    <3>2. CASE k # h
      BY <1>3, <1>4, <3>2 DEF IInv, TypeOK
    <3> QED
      BY <3>1, <3>2
  <2>2. revoked' \subseteq Issued' /\ unfinished' \subseteq Issued'
    BY <1>1, <1>3 DEF IInv, TypeOK
  <2> QED
    BY <1>1, <1>3, <1>4, <2>1, <2>2 DEF IInv, TypeOK
<1>7. ListedInv'
  BY <1>1, <1>3 DEF IInv, ListedInv
<1>8. ParentsInv'
  BY <1>3 DEF IInv, ParentsInv
<1>9. /\ \A j \in Issued : j # parent => Exchanges(j)' = Exchanges(j)
      /\ parent \in Issued => Exchanges(parent)' = Exchanges(parent) \cup {n + 1}
      /\ n + 1 \notin Exchanges(parent)
      /\ \A j \in {n + 1, n + 2} : Exchanges(j)' = {} /\ Claims(j)' = {} /\ Settled(j)' = {}
  <2>1. \A i \in Issued' : /\ i \in Issued \/ i = n + 1 \/ i = n + 2
                           /\ i \in Issued => tokens'[i] = tokens[i]
                           /\ tokens'[i].parent \in Issued \cup {NoJti}
    BY <1>3 DEF IInv, ParentsInv
  <2>2. /\ tokens'[n + 1].type = "access" /\ tokens'[n + 1].parent = parent
        /\ tokens'[n + 2].type = "refresh"
    BY <1>3
  <2>3. \A j \in Issued : j # parent => Exchanges(j)' = Exchanges(j)
    BY <1>3, <2>1, <2>2 DEF Exchanges
  <2>4. parent \in Issued => Exchanges(parent)' = Exchanges(parent) \cup {n + 1}
    BY <1>3, <2>1, <2>2 DEF Exchanges
  <2>5. n + 1 \notin Exchanges(parent)
    BY <1>5 DEF Exchanges
  <2>6. \A j \in {n + 1, n + 2} : Exchanges(j)' = {}
    BY <1>5, <2>1 DEF Exchanges
  <2>7. \A j \in {n + 1, n + 2} : Claims(j)' = {} /\ Settled(j)' = {}
    <3>1. \A k \in Handlers : pc'[k] # "idle" => job'[k].jti \in Issued \cup {NoJti}
      BY <1>4 DEF IInv, TypeOK
    <3> QED
      BY <1>5, <3>1 DEF Claims, Settled
  <2> QED
    BY <2>3, <2>4, <2>5, <2>6, <2>7
<1>10. NoTokenLost'
  <2>1. ASSUME NEW j \in revoked', tokens'[j].type = "refresh"
        PROVE  Exchanges(j)' # {} \/ Claims(j)' # {} \/ j \in unfinished'
    <3>1. j \in revoked /\ j \in Issued /\ j \in Jtis /\ tokens[j].type = "refresh"
      BY <1>1, <1>3, <2>1, TokenType DEF IInv, TypeOK
    <3>2. CASE j = parent
      BY <1>9, <3>1, <3>2
    <3>3. CASE j # parent
      BY <1>1, <1>4, <1>9, <3>1, <3>3 DEF IInv, NoTokenLost
    <3> QED
      BY <3>2, <3>3
  <2> QED
    BY <2>1 DEF NoTokenLost
<1>11. ReuseInv'
  <2> SUFFICES ASSUME NEW j \in Issued' PROVE Bounded(j)'
    BY DEF ReuseInv, Bounded
  <2>1. Cardinality(Handlers) \in Nat /\ Cardinality(Handlers)' = Cardinality(Handlers)
    BY Counts DEF IInv
  <2>2. /\ Cardinality(Handlers) * faults \in Nat
        /\ Cardinality(Handlers) * (faults + 1) \in Nat
    BY <1>1, <2>1
  <2>3. CASE j \in {n + 1, n + 2}
    <3>1. /\ Cardinality(Exchanges(j)') = 0 /\ Cardinality(Claims(j)') = 0
          /\ Cardinality(Settled(j)') = 0
      BY <1>9, <2>3, FS_EmptySet
    <3> QED
      BY <1>1, <2>2, <3>1 DEF Bounded
  <2>4. CASE j \in Issued
    <3> DEFINE E == Cardinality(Exchanges(j))
               C == Cardinality(Claims(j))
               S == Cardinality(Settled(j))
    <3>1. E \in Nat /\ C \in Nat /\ S \in Nat /\ j \in Jtis
      BY <2>4, Counts, TokenType DEF IInv
    <3>2. InLastSecond(j)' = InLastSecond(j)
      BY <1>1, <1>3, <2>4 DEF InLastSecond
    <3>3. E' + C' = E + C /\ E' + S' = E + S
      <4>1. CASE j # parent
        <5>1. Exchanges(j)' = Exchanges(j) /\ Claims(j)' = Claims(j)
          BY <1>4, <1>9, <2>4, <3>1, <4>1
        <5>2. Settled(j)' = Settled(j)
          <6>1. h \notin Settled(j)
            BY <4>1 DEF Settled
          <6>2. Settled(j)' = Settled(j) \ {h}
            BY <1>4, <3>1
          <6> QED
            BY <6>1, <6>2
        <5> QED
          BY <5>1, <5>2
      <4>2. CASE j = parent
        <5>1. h \in Claims(j) /\ h \in Settled(j)
          BY <1>1, <4>2 DEF Claims, Settled
        <5>2. /\ Claims(j)' = Claims(j) \ {h} /\ Settled(j)' = Settled(j) \ {h}
              /\ Exchanges(j)' = Exchanges(j) \cup {n + 1} /\ n + 1 \notin Exchanges(j)
          BY <1>4, <1>9, <2>4, <3>1, <4>2
        <5>3. IsFiniteSet(Claims(j)) /\ IsFiniteSet(Settled(j)) /\ IsFiniteSet(Exchanges(j))
          BY Counts DEF IInv
        <5>4. /\ Cardinality(Claims(j) \ {h}) = C - 1
              /\ Cardinality(Settled(j) \ {h}) = S - 1
          BY <5>1, <5>3, FS_RemoveElement
        <5>5. Cardinality(Exchanges(j) \cup {n + 1}) = E + 1
          BY <5>2, <5>3, FS_AddElement
        <5>6. C' = C - 1 /\ S' = S - 1 /\ E' = E + 1
          BY <5>2, <5>4, <5>5
        <5> QED
          BY <3>1, <5>6
      <4> QED
        BY <4>1, <4>2
    <3>4. Bounded(j)
      BY <2>4 DEF IInv, ReuseInv, Bounded
    <3> QED
      BY <1>1, <3>2, <3>3, <3>4 DEF Bounded
  <2> QED
    BY <1>3, <2>3, <2>4
<1> QED
  BY <1>6, <1>7, <1>8, <1>10, <1>11 DEF IInv

-----------------------------------------------------------------------------
(* The invariant.                                                          *)

\* IInv holds in every state of every behaviour.
LEMMA InductiveInvariant == Spec => []IInv
<1>1. Init => IInv
  <2> SUFFICES ASSUME Init PROVE IInv
    OBVIOUS
  <2>1. tokens = <<>> /\ Len(tokens) = 0 /\ Issued = {} /\ revoked = {}
    BY DEF Init, Issued
  <2>2. TypeOK
    BY <2>1 DEF Init, TypeOK
  <2> QED
    BY <2>1, <2>2 DEF Init, IInv, ListedInv, ParentsInv, NoTokenLost, ReuseInv
<1>2. IInv /\ [Next]_vars => IInv'
  <2> SUFFICES ASSUME IInv, [Next]_vars PROVE IInv'
    OBVIOUS
  <2>1. now \in Nat /\ now \in 0..MaxTime /\ active \subseteq Users /\ faults \in 0..MaxFaults
    BY DEF IInv, TypeOK
  <2>2. CASE Tick
    BY <2>1, <2>2, StillStep DEF Tick
  <2>3. ASSUME NEW u \in Users, Suspend(u) PROVE IInv'
    BY <2>1, <2>3, StillStep DEF Suspend
  <2>4. CASE UNCHANGED vars
    BY <2>1, <2>4, StillStep DEF vars
  <2>5. ASSUME NEW h \in Handlers, Die(h) PROVE IInv'
    <3>1. faults <= faults' /\ faults' \in 0..MaxFaults
      BY <2>1, <2>5 DEF Die, Spend
    <3> QED
      BY <2>5, <3>1, GiveUpStep DEF Die
  <2> QED
    BY <2>2, <2>3, <2>4, <2>5, LoseKeyStep, BeginStep, CheckStep, RevokeStep, VerifyStep,
       IssueStep DEF Next, Handle
<1> QED
  BY <1>1, <1>2, PTL DEF Spec

-----------------------------------------------------------------------------
(* The properties.                                                         *)

\* Tokens and jobs keep their shape, and a handler works on an issued token of
\* the type that it asked for.
THEOREM TypeCorrect == Spec => []TypeOK
<1>1. IInv => TypeOK
  BY DEF IInv
<1> QED
  BY <1>1, InductiveInvariant, PTL

\* However requests overlap, before its last second a refresh token is exchanged
\* at most once for every request that can be in flight, and again as often for
\* each fault.
THEOREM ReuseBounded == Spec => []ExchangesBounded
<1>1. ASSUME IInv, NEW j \in Issued, now + TicksPerSecond <= tokens[j].exp
      PROVE  Cardinality(Exchanges(j)) + Cardinality(Claims(j))
                 <= Cardinality(Handlers) * (faults + 1)
  <2>1. now \in Nat /\ tokens[j].exp \in Nat
    BY <1>1, TokenType DEF IInv, TypeOK
  <2>2. ~InLastSecond(j)
    BY <1>1, <2>1 DEF InLastSecond
  <2> QED
    BY <1>1, <2>2 DEF IInv, ReuseInv
<1>2. IInv => ExchangesBounded
  BY <1>1 DEF ExchangesBounded
<1> QED
  BY <1>2, InductiveInvariant, PTL

\* A revoked refresh token was exchanged for a pair, or is about to be, or its
\* refresh is known to have failed.
THEOREM TokensKept == Spec => []NoTokenLost
<1>1. IInv => NoTokenLost
  BY DEF IInv
<1> QED
  BY <1>1, InductiveInvariant, PTL

\* A token whose revocation Redis acknowledged passes the check of no later
\* request, unless Redis fails at that check or the token is in its last second.
THEOREM RevocationsHold == Spec => RevokedIsRefused
<1>1. ASSUME IInv, [Next]_vars, NEW h \in Handlers, pc[h] = "check", pc'[h] = "revoke",
             job[h].jti \in revoked, faults' = faults
      PROVE  tokens[job[h].jti].exp < now + TicksPerSecond
  <2> DEFINE j == job[h].jti
  <2>1. /\ pc \in [Handlers -> {"idle", "check", "revoke", "verify", "issue"}]
        /\ j \in Issued /\ j \in Jtis /\ j \in revoked /\ tokens[j].exp \in Nat
        /\ blacklist[j] \in Nat /\ now \in Nat /\ faults \in Nat
    BY <1>1, TokenType DEF IInv, TypeOK
  <2>2. Check(h)
    <3>1. ASSUME NEW k \in Handlers, Handle(k) PROVE k = h
      BY <1>1, <2>1, <3>1 DEF Handle, Login, Begin, Check, Passes, Revoke, Verify, Issue, Die,
                              Leave, Goto
    <3>2. Handle(h) => Check(h)
      BY <1>1, <2>1 DEF Handle, Login, Begin, Revoke, Verify, Issue, Die, Leave, Goto
    <3>3. Handle(h)
      BY <1>1, <3>1 DEF Next, Tick, Suspend, LoseKey, vars
    <3> QED
      BY <3>2, <3>3
  <2>3. ~Blacklisted(j)
    BY <1>1, <2>1, <2>2 DEF Check, Leave, Goto, Spend
  <2>4. tokens[j].exp < blacklist[j] + TicksPerSecond
    BY <1>1, <2>1 DEF IInv, ListedInv
  <2> QED
    BY <2>1, <2>3, <2>4 DEF Blacklisted
<1>2. IInv /\ [Next]_vars => [\A h \in Handlers :
          /\ pc[h] = "check" /\ pc'[h] = "revoke"
          /\ job[h].jti \in revoked
          /\ faults' = faults
          => tokens[job[h].jti].exp < now + TicksPerSecond]_vars
  BY <1>1
<1> QED
  BY <1>2, InductiveInvariant, PTL DEF Spec, RevokedIsRefused
=============================================================================
