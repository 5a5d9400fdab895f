---------------------------- MODULE TriageProofs ----------------------------
(***************************************************************************)
(* Proofs about Triage: Sentinel, the reviewers of its quarantine and a    *)
(* gated consumer, for every number of review requests in flight.          *)
(***************************************************************************)
EXTENDS Triage, SentinelProofs

-----------------------------------------------------------------------------
(* What the API does to Sentinel's invariant: nothing.                     *)

\* A step outside Sentinel that publishes, or moves a quarantine row from one
\* status to another, keeps Sentinel's invariant.
LEMMA OutsideKeeps ==
  ASSUME IInv, Grows, stream' \in [Topics -> Seq(Messages)],
         UNCHANGED <<cursor, pending, rows, handled, retried, procVars, outVars>>,
         quarantine' \in [Messages -> [Statuses -> Nat]], faults' \in Nat,
         \A m \in Messages : Held(m)' <=> Held(m), HeldOnce'
  PROVE  IInv'
<1> USE DEF procVars, outVars
<1>1. TypeOK
  BY DEF IInv
<1>2. \A t \in Topics : cursor'[t] \in 0..Len(stream'[t]) /\ pending'[t] \subseteq 1..cursor'[t]
  <2>1. ASSUME NEW t \in Topics PROVE cursor[t] \in 0..Len(stream'[t]) /\ pending[t] \subseteq 1..cursor[t]
    BY <1>1 DEF TypeOK, Grows
  <2> QED
    BY <2>1
<1>3. TypeOK'
  BY <1>1, <1>2 DEF TypeOK
<1>4. \A m : Current(m)' <=> Current(m)
  BY <1>1, CurrentKept
<1>5. \A m, l : Told(m, l)' <=> Told(m, l)
  BY DEF Told
<1>6. InOrder'
  <2>1. ASSUME NEW m \in Messages, Current(m)' PROVE Progress(m)'
    <3>1. Progress(m)
      BY <1>4, <2>1 DEF IInv, InOrder
    <3>2. Judgements(m)' = Judgements(m)
      BY DEF Judgements
    <3> QED
      BY <1>5, <3>1, <3>2 DEF Progress
  <2> QED
    BY <2>1 DEF InOrder
<1>7. \A m \in Messages : Acked(m)' => Acked(m)
  <2>1. ASSUME NEW m \in Messages, Acked(m)' PROVE Acked(m)
    <3> DEFINE t == TopicOf[m]
    <3>1. t \in Topics
      BY SentinelAssumption
    <3>2. PICK e \in 1..Len(stream'[t]) : stream'[t][e] = m /\ e \in 1..cursor[t] /\ e \notin pending[t]
      BY <2>1 DEF Acked, Settled
    <3>3. cursor[t] \in 0..Len(stream[t]) /\ Len(stream[t]) \in Nat
      BY <1>1, <3>1 DEF TypeOK
    <3>4. e \in 1..Len(stream[t]) /\ stream[t][e] = m
      BY <3>1, <3>2, <3>3 DEF Grows
    <3> QED
      BY <3>2, <3>4 DEF Acked, Settled
  <2> QED
    BY <2>1
<1>8. AckedIsJudged'
  BY <1>5, <1>7 DEF IInv, AckedIsJudged
<1>9. FailedIsHeld'
  BY <1>7 DEF IInv, FailedIsHeld, Decided
<1>10. FreshVerdict' /\ HeldByRow'
  BY <1>4 DEF IInv, FreshVerdict, HeldByRow, Deciding
<1>11. RetriedFirst' /\ OneReplay'
  BY DEF IInv, RetriedFirst, OneReplay
<1> QED
  BY <1>3, <1>6, <1>8, <1>9, <1>10, <1>11 DEF IInv

\* What Sentinel does to a quarantine row: it makes one, for a message that has
\* none.
LEMMA SentinelHolds ==
  ASSUME IInv, [Next]_vars, NEW m \in Messages
  PROVE  \/ quarantine'[m] = quarantine[m]
         \/ /\ ~Held(m) /\ Pending(m)'
            /\ \A s \in Statuses : s # "pending" => quarantine'[m][s] = quarantine[m][s]
<1>1. TypeOK
  BY DEF IInv
<1>2. CASE quarantine' = quarantine
  BY <1>2
<1>3. ASSUME NEW k \in Messages, Current(k), Hold(k)
      PROVE  \/ quarantine'[m] = quarantine[m]
             \/ /\ ~Held(m) /\ Pending(m)'
                /\ \A s \in Statuses : s # "pending" => quarantine'[m][s] = quarantine[m][s]
  <2>1. pc = "hold" /\ inserted /\ IdOf[k] = "uuid" /\ Progress(k)
    BY <1>3, TriageAssumption DEF Hold, IInv, InOrder
  <2>2. layer = Deciding(k)
    BY <1>1, <2>1, FailureDecides
  <2>3. ~Held(k)
    BY <1>3, <2>1, <2>2 DEF IInv, FreshVerdict
  <2>4. \A s \in Statuses :
          quarantine'[k][s] = IF s = "pending" THEN quarantine[k][s] + 1 ELSE quarantine[k][s]
    BY <1>1, <1>3, HoldAdds
  <2>5. CASE m = k
    <3>1. "pending" \in Statuses /\ quarantine[k]["pending"] \in Nat
      BY <1>1 DEF TypeOK, Statuses
    <3>2. quarantine'[k]["pending"] > 0
      BY <2>4, <3>1
    <3> QED
      BY <2>3, <2>4, <2>5, <3>2 DEF Pending
  <2>6. CASE m # k
    BY <1>1, <1>3, <2>6 DEF Hold, TypeOK
  <2> QED
    BY <2>5, <2>6
<1> QED
  BY <1>2, <1>3 DEF Next, Sweep, Verify, Publish, Remember, Skip, Claim, Record, RecordRaises,
     Announce, HoldRaises, Divert, Retry, Replay, Ack, LoopError, Abandon, vars, dbVars

\* One row for each message.
LEMMA OneRow ==
  ASSUME IInv, NEW m \in Messages
  PROVE  /\ \A s \in Statuses : quarantine[m][s] \in Nat
         /\ quarantine[m]["pending"] + quarantine[m]["released"] + quarantine[m]["discarded"] <= 1
BY TriageAssumption DEF IInv, HeldOnce, TypeOK, Statuses

-----------------------------------------------------------------------------
(* The invariant of the whole.  A request that is at work on a message was     *)
(* let in while its row was pending, before anyone released it; so those at    *)
(* work on it and the releases there were are different reviewers.             *)

BusyOn(m) == {r \in reviewers : step[r] # "idle" /\ item[r] = m}

ReleasesInv ==
  \A m \in Messages :
    /\ releases[m] > 0 => Held(m)
    /\ Pending(m) => releases[m] = 0 /\ \A r \in Requests : step[r] = "publish" => item[r] # m
    /\ releases[m] + Cardinality(BusyOn(m)) <= Cardinality(reviewers)

\* Where there is one reviewer, the row it looked at is as it saw it.
SingleInv ==
  Cardinality(reviewers) <= 1 => \A r \in Requests : step[r] = "checked" => Pending(item[r])

SysInv == IInv /\ SysTypeOK /\ ReleasesInv /\ ReleasedGoesOut /\ SingleInv

\* Reviewers are finitely many.
LEMMA ReviewersFinite ==
  ASSUME SysTypeOK
  PROVE  /\ IsFiniteSet(reviewers) /\ Cardinality(reviewers) \in Nat
         /\ \A m : /\ IsFiniteSet(BusyOn(m)) /\ Cardinality(BusyOn(m)) \in Nat
                   /\ Cardinality(BusyOn(m)) <= Cardinality(reviewers)
<1>1. IsFiniteSet(reviewers) /\ Cardinality(reviewers) \in Nat
  BY TriageAssumption, FS_Subset, FS_CardinalityType DEF SysTypeOK
<1>2. ASSUME NEW m
      PROVE  /\ IsFiniteSet(BusyOn(m)) /\ Cardinality(BusyOn(m)) \in Nat
             /\ Cardinality(BusyOn(m)) <= Cardinality(reviewers)
  <2>1. BusyOn(m) \in SUBSET reviewers
    BY DEF BusyOn
  <2> QED
    BY <1>1, <2>1, FS_Subset, FS_CardinalityType
<1> QED
  BY <1>1, <1>2

\* A set that has one element more than another is counted so.
LEMMA OneMore ==
  ASSUME NEW S, IsFiniteSet(S), NEW x, x \in S
  PROVE  /\ IsFiniteSet(S \ {x}) /\ Cardinality(S \ {x}) = Cardinality(S) - 1
         /\ Cardinality(S) \in Nat /\ Cardinality(S \ {x}) \in Nat
<1>1. IsFiniteSet(S \ {x}) /\ Cardinality(S \ {x}) = Cardinality(S) - 1
  BY FS_RemoveElement
<1> QED
  BY <1>1, FS_CardinalityType

\* Where no more releases are lost than before, the faults still explain them.
LEMMA NoneLost ==
  ASSUME SysInv, faults' \in Nat, faults <= faults', \A k \in Messages : Lost(k)' => Lost(k)
  PROVE  ReleasedGoesOut'
<1> DEFINE L == {k \in Messages : Lost(k)}
           M == {k \in Messages : Lost(k)'}
<1>1. IsFiniteSet(L) /\ faults \in Nat
  BY SentinelAssumption, FS_Subset DEF SysInv, SysTypeOK, TypeOK
<1>2. M \subseteq L
  OBVIOUS
<1>3. /\ Cardinality(M) <= Cardinality(L)
      /\ Cardinality(M) \in Nat /\ Cardinality(L) \in Nat
  BY <1>1, <1>2, FS_Subset, FS_CardinalityType
<1>4. Cardinality(L) <= faults
  BY DEF SysInv, ReleasedGoesOut
<1>5. Cardinality(M) <= faults'
  BY <1>1, <1>3, <1>4
<1> QED
  BY <1>5 DEF ReleasedGoesOut

LEMMA SysInitInv == SysInit => SysInv
<1> SUFFICES ASSUME SysInit PROVE SysInv
  OBVIOUS
<1>1. IInv /\ TypeOK
  BY InitIInv DEF SysInit, IInv
<1>2. SysTypeOK
  BY <1>1 DEF SysInit, SysTypeOK
<1>3. \A m \in Messages, s \in Statuses : quarantine[m][s] = 0
  BY DEF SysInit, Init
<1>4. \A m \in Messages : ~Pending(m) /\ quarantine[m]["released"] = 0
  BY <1>3 DEF Pending, Statuses
<1>5. ReleasesInv
  BY <1>2, <1>4, ReviewersFinite DEF SysInit, ReleasesInv
<1>6. ReleasedGoesOut
  <2>1. {m \in Messages : Lost(m)} = {}
    BY <1>4 DEF Lost
  <2>2. Cardinality({}) = 0 /\ faults = 0
    BY FS_EmptySet DEF SysInit, Init
  <2> QED
    BY <2>1, <2>2 DEF ReleasedGoesOut
<1>7. SingleInv
  BY DEF SysInit, SingleInv
<1> QED
  BY <1>1, <1>2, <1>5, <1>6, <1>7 DEF SysInv

\* Sentinel's steps, seen by the reviewers.
LEMMA SentinelStep ==
  ASSUME SysInv, [Next]_vars, UNCHANGED <<reviewVars, consumerVars>>
  PROVE  SysInv'
<1> USE DEF reviewVars, consumerVars
<1>1. IInv' /\ TypeOK /\ TypeOK' /\ TablesGrow
  BY NextIInv, NextTablesGrow DEF SysInv, IInv
<1>2. \A m \in Messages : Held(m) => Held(m)'
  BY <1>1 DEF TablesGrow
<1>3. ASSUME NEW m \in Messages
      PROVE  \/ quarantine'[m] = quarantine[m]
             \/ /\ ~Held(m) /\ Pending(m)'
                /\ \A s \in Statuses : s # "pending" => quarantine'[m][s] = quarantine[m][s]
  BY SentinelHolds DEF SysInv
<1>4. SysTypeOK'
  <2>1. \A r \in Requests : step[r] # "idle" => item[r] \in Messages
    BY DEF SysInv, SysTypeOK
  <2> QED
    BY <1>1, <1>2, <2>1 DEF SysInv, SysTypeOK
<1>5. ReleasesInv'
  <2> SUFFICES ASSUME NEW m \in Messages
               PROVE  /\ releases[m] > 0 => Held(m)'
                      /\ Pending(m)' => releases[m] = 0
                                        /\ \A r \in Requests : step[r] = "publish" => item[r] # m
                      /\ releases[m] + Cardinality(BusyOn(m)') <= Cardinality(reviewers)
    BY DEF ReleasesInv
  <2>1. BusyOn(m)' = BusyOn(m)
    BY DEF BusyOn
  <2>2. CASE quarantine'[m] = quarantine[m]
    BY <1>2, <2>1, <2>2 DEF SysInv, ReleasesInv, Pending
  <2>3. CASE ~Held(m)
    <3>1. releases[m] = 0
      BY <2>3 DEF SysInv, ReleasesInv, SysTypeOK
    <3>2. \A r \in Requests : step[r] # "idle" => item[r] # m
      BY <2>3 DEF SysInv, SysTypeOK
    <3> QED
      BY <2>1, <3>1, <3>2 DEF SysInv, ReleasesInv
  <2> QED
    BY <1>3, <2>2, <2>3
<1>6. ReleasedGoesOut'
  <2>1. \A m \in Messages : quarantine'[m]["released"] = quarantine[m]["released"]
    BY <1>3 DEF Statuses
  <2>2. faults' \in Nat /\ faults <= faults'
    BY <1>1 DEF TypeOK, Next, Sweep, Verify, Publish, Remember, Skip, Claim, Record, RecordRaises,
       Announce, Hold, HoldRaises, Divert, Retry, Replay, Ack, LoopError, Abandon, vars
  <2>3. \A m \in Messages : Lost(m)' => Lost(m)
    BY <2>1 DEF Lost
  <2> QED
    BY <2>2, <2>3, NoneLost
<1>7. SingleInv'
  <2>1. ASSUME NEW r \in Requests, step[r] = "checked", Pending(item[r]) PROVE Pending(item[r])'
    <3>1. item[r] \in Messages
      BY <2>1 DEF SysInv, SysTypeOK
    <3> QED
      BY <1>3, <2>1, <3>1 DEF Pending
  <2> QED
    BY <2>1 DEF SysInv, SingleInv
<1> QED
  BY <1>1, <1>4, <1>5, <1>6, <1>7 DEF SysInv

-----------------------------------------------------------------------------
(* The steps of a request. *)

\* Looking at a pending row.
LEMMA CheckStep ==
  ASSUME SysInv, NEW r \in Requests, NEW m \in Messages, NEW d \in {"released", "discarded"},
         Check(r, m, d)
  PROVE  SysInv'
<1>1. /\ r \in reviewers /\ step[r] = "idle" /\ Pending(m)
      /\ step' = [step EXCEPT ![r] = "checked"] /\ item' = [item EXCEPT ![r] = m]
      /\ decision' = [decision EXCEPT ![r] = d]
      /\ UNCHANGED <<vars, reviewers, releases, consumerVars>>
  BY DEF Check
<1>2. SysTypeOK /\ TypeOK
  BY DEF SysInv, SysTypeOK
<1>3. /\ step'[r] = "checked" /\ item'[r] = m
      /\ \A x \in Requests : x # r => step'[x] = step[x] /\ item'[x] = item[x]
  BY <1>1, <1>2 DEF SysTypeOK
<1>4. UNCHANGED <<stream, cursor, pending, rows, quarantine, handled, retried, procVars, outVars, faults>>
  BY <1>1 DEF vars, busVars, dbVars
<1>5. \A k : /\ Held(k)' <=> Held(k)
             /\ Pending(k)' <=> Pending(k)
  BY <1>4 DEF Held, Pending
<1>6. TypeOK' /\ IInv'
  <2>1. Grows /\ stream' \in [Topics -> Seq(Messages)]
    BY <1>2, <1>4, SameGrows DEF TypeOK
  <2>2. HeldOnce'
    BY <1>4 DEF SysInv, IInv, HeldOnce
  <2>3. IInv'
    BY <1>2, <1>4, <1>5, <2>1, <2>2, OutsideKeeps DEF SysInv, TypeOK
  <2> QED
    BY <2>3 DEF IInv
<1>7. Held(m)
  BY <1>1 DEF Pending, Held, Statuses
<1>8. SysTypeOK'
  BY <1>1, <1>2, <1>3, <1>5, <1>6, <1>7 DEF SysTypeOK, consumerVars
<1>9. ReleasesInv'
  <2> SUFFICES ASSUME NEW k \in Messages
               PROVE  /\ releases[k] > 0 => Held(k)
                      /\ Pending(k) => releases[k] = 0
                                       /\ \A x \in Requests : step'[x] = "publish" => item'[x] # k
                      /\ releases[k] + Cardinality(BusyOn(k)') <= Cardinality(reviewers)
    BY <1>1, <1>5 DEF ReleasesInv
  <2>1. /\ releases[k] > 0 => Held(k)
        /\ Pending(k) => releases[k] = 0
                         /\ \A x \in Requests : step'[x] = "publish" => item'[x] # k
    BY <1>3 DEF SysInv, ReleasesInv
  <2>2. CASE k = m
    <3>1. releases[k] = 0
      BY <1>1, <2>2 DEF SysInv, ReleasesInv
    <3>2. Cardinality(BusyOn(k)') <= Cardinality(reviewers) /\ Cardinality(BusyOn(k)') \in Nat
      <4>1. BusyOn(k)' \in SUBSET reviewers
        BY <1>1 DEF BusyOn
      <4>2. IsFiniteSet(reviewers)
        BY <1>2, ReviewersFinite
      <4> QED
        BY <4>1, <4>2, FS_Subset, FS_CardinalityType
    <3> QED
      BY <2>1, <3>1, <3>2
  <2>3. CASE k # m
    <3>1. BusyOn(k)' = BusyOn(k)
      BY <1>1, <1>2, <1>3, <2>3 DEF BusyOn, SysTypeOK
    <3> QED
      BY <2>1, <3>1 DEF SysInv, ReleasesInv
  <2> QED
    BY <2>2, <2>3
<1>10. ReleasedGoesOut'
  <2>1. ASSUME NEW k \in Messages, Lost(k)', NEW x \in reviewers, step[x] = "publish", item[x] = k
        PROVE  FALSE
    <3>1. x # r /\ x \in Requests
      BY <1>1, <1>2, <2>1 DEF SysTypeOK
    <3> QED
      BY <1>1, <1>3, <2>1, <3>1 DEF Lost
  <2>2. \A k \in Messages : Lost(k)' => Lost(k)
    BY <1>1, <1>4, <2>1 DEF Lost
  <2>3. faults' = faults /\ faults \in Nat
    BY <1>2, <1>4 DEF TypeOK
  <2> QED
    BY <2>2, <2>3, NoneLost
<1>11. SingleInv'
  BY <1>1, <1>3, <1>5 DEF SysInv, SingleInv
<1> QED
  BY <1>6, <1>8, <1>9, <1>10, <1>11 DEF SysInv

\* Of one reviewer or none, any two are the same.
LEMMA SingleIsOne ==
  ASSUME SysTypeOK, Cardinality(reviewers) <= 1, NEW r \in reviewers, NEW x \in reviewers
  PROVE  r = x
<1>1. IsFiniteSet(reviewers)
  BY ReviewersFinite
<1>2. SUFFICES ASSUME r # x PROVE FALSE
  OBVIOUS
<1>3. /\ IsFiniteSet(reviewers \ {r})
      /\ Cardinality(reviewers \ {r}) = Cardinality(reviewers) - 1
      /\ Cardinality(reviewers) \in Nat /\ Cardinality(reviewers \ {r}) \in Nat
  BY <1>1, OneMore
<1>4. x \in reviewers \ {r}
  BY <1>2
<1>5. /\ Cardinality((reviewers \ {r}) \ {x}) = Cardinality(reviewers \ {r}) - 1
      /\ Cardinality((reviewers \ {r}) \ {x}) \in Nat
  BY <1>3, <1>4, OneMore
<1> QED
  BY <1>3, <1>5

\* Marking the row.
LEMMA MarkStep ==
  ASSUME SysInv, NEW r \in Requests, Mark(r)
  PROVE  /\ SysInv'
         /\ Cardinality(reviewers) <= 1 => \A k \in Messages : ~Revised(k)
<1>0. PICK m : m = item[r]
  OBVIOUS
<1> DEFINE marked == [s \in Statuses |-> IF s = decision[r] THEN 1 ELSE 0]
<1>1. /\ step[r] = "checked" /\ quarantine' = [quarantine EXCEPT ![m] = marked]
      /\ step' = [step EXCEPT ![r] = IF decision[r] = "released" THEN "publish" ELSE "idle"]
      /\ item' = IF decision[r] = "released" THEN item ELSE [item EXCEPT ![r] = NoMessage]
      /\ UNCHANGED <<stream, cursor, pending, rows, handled, retried, procVars, outVars, faults,
                     reviewers, decision, releases, consumerVars>>
  BY <1>0 DEF Mark, busVars
<1>2. SysTypeOK /\ TypeOK
  BY DEF SysInv, SysTypeOK
<1>3. m \in Messages /\ r \in reviewers /\ Held(m) /\ decision[r] \in {"released", "discarded"}
  BY <1>0, <1>1, <1>2 DEF SysTypeOK
<1>4. /\ \A k \in Messages : k # m => quarantine'[k] = quarantine[k]
      /\ quarantine'[m] = marked
  BY <1>1, <1>2, <1>3 DEF TypeOK
<1>5. /\ marked["pending"] = 0
      /\ marked["released"] = (IF decision[r] = "released" THEN 1 ELSE 0)
      /\ marked["discarded"] = (IF decision[r] = "discarded" THEN 1 ELSE 0)
      /\ marked \in [Statuses -> Nat]
  BY <1>3 DEF Statuses
<1>6. /\ step'[r] = IF decision[r] = "released" THEN "publish" ELSE "idle"
      /\ decision[r] = "released" => item'[r] = m
      /\ \A x \in Requests : x # r => step'[x] = step[x] /\ item'[x] = item[x]
  BY <1>0, <1>1, <1>2 DEF SysTypeOK
<1> HIDE DEF marked
<1>7. \A k \in Messages : Held(k)' <=> Held(k)
  <2>1. Held(m)'
    BY <1>3, <1>4, <1>5 DEF Held, Statuses
  <2>2. ASSUME NEW k \in Messages, k # m PROVE Held(k)' <=> Held(k)
    BY <1>4, <2>2 DEF Held
  <2> QED
    BY <1>3, <2>1, <2>2
<1>8. HeldOnce'
  <2>1. ASSUME NEW k \in Messages, IdOf[k] = "uuid"
        PROVE  quarantine'[k]["pending"] + quarantine'[k]["released"] + quarantine'[k]["discarded"] <= 1
    <3>1. CASE k = m
      BY <1>3, <1>4, <1>5, <3>1
    <3>2. CASE k # m
      BY <1>4, <2>1, <3>2 DEF SysInv, IInv, HeldOnce
    <3> QED
      BY <3>1, <3>2
  <2> QED
    BY <2>1 DEF HeldOnce
<1>9. IInv' /\ TypeOK'
  <2>1. Grows /\ stream' \in [Topics -> Seq(Messages)] /\ faults' \in Nat
    BY <1>1, <1>2, SameGrows DEF TypeOK
  <2>2. quarantine' \in [Messages -> [Statuses -> Nat]]
    BY <1>1, <1>2, <1>5 DEF TypeOK
  <2>3. IInv'
    BY <1>1, <1>7, <1>8, <2>1, <2>2, OutsideKeeps DEF SysInv
  <2> QED
    BY <2>3 DEF IInv
<1>10. SysTypeOK'
  <2>1. step' \in [Requests -> {"idle", "checked", "publish"}]
        /\ item' \in [Requests -> Messages \cup {NoMessage}]
    BY <1>1, <1>2 DEF SysTypeOK
  <2>2. ASSUME NEW x \in Requests, step'[x] # "idle"
        PROVE  x \in reviewers /\ item'[x] \in Messages /\ Held(item[x])'
    <3>1. CASE x = r
      BY <1>3, <1>6, <1>7, <2>2, <3>1
    <3>2. CASE x # r
      BY <1>2, <1>6, <1>7, <2>2, <3>2 DEF SysTypeOK
    <3> QED
      BY <3>1, <3>2
  <2> QED
    BY <1>1, <1>2, <1>9, <2>1, <2>2 DEF SysTypeOK, consumerVars
<1>11. \A k \in Messages : Pending(k)' => k # m /\ Pending(k)
  BY <1>4, <1>5 DEF Pending
<1>12. ReleasesInv'
  <2> SUFFICES ASSUME NEW k \in Messages
               PROVE  /\ releases[k] > 0 => Held(k)'
                      /\ Pending(k)' => releases[k] = 0
                                        /\ \A x \in Requests : step'[x] = "publish" => item'[x] # k
                      /\ releases[k] + Cardinality(BusyOn(k)') <= Cardinality(reviewers)
    BY <1>1 DEF ReleasesInv
  <2>1. releases[k] > 0 => Held(k)'
    BY <1>7 DEF SysInv, ReleasesInv
  <2>2. Pending(k)' => releases[k] = 0 /\ \A x \in Requests : step'[x] = "publish" => item'[x] # k
    BY <1>6, <1>11 DEF SysInv, ReleasesInv
  <2>3. BusyOn(k)' \in SUBSET BusyOn(k)
    <3>1. ASSUME NEW x \in BusyOn(k)' PROVE x \in BusyOn(k)
      <4>1. x \in reviewers /\ x \in Requests /\ step'[x] # "idle" /\ item'[x] = k
        BY <1>1, <1>2 DEF BusyOn, SysTypeOK
      <4>2. CASE x = r
        BY <1>0, <1>1, <1>6, <4>1, <4>2 DEF BusyOn
      <4>3. CASE x # r
        BY <1>6, <4>1, <4>3 DEF BusyOn
      <4> QED
        BY <4>2, <4>3
    <3> QED
      BY <3>1
  <2>4. /\ IsFiniteSet(BusyOn(k)) /\ Cardinality(BusyOn(k)) \in Nat /\ Cardinality(reviewers) \in Nat
        /\ releases[k] \in Nat
        /\ releases[k] + Cardinality(BusyOn(k)) <= Cardinality(reviewers)
    BY <1>2, ReviewersFinite DEF SysInv, ReleasesInv, SysTypeOK
  <2>5. Cardinality(BusyOn(k)') \in Nat /\ Cardinality(BusyOn(k)') <= Cardinality(BusyOn(k))
    BY <2>3, <2>4, FS_Subset, FS_CardinalityType
  <2> QED
    BY <2>1, <2>2, <2>4, <2>5
<1>13. ReleasedGoesOut'
  <2>1. ASSUME NEW k \in Messages, Lost(k)' PROVE Lost(k)
    <3>1. /\ quarantine'[k]["released"] > 0 /\ releases[k] = 0
          /\ \A x \in reviewers : ~(step'[x] = "publish" /\ item'[x] = k)
      BY <1>1, <2>1 DEF Lost
    <3>2. k # m
      BY <1>3, <1>4, <1>5, <1>6, <3>1
    <3>3. \A x \in reviewers : step[x] = "publish" => x # r /\ x \in Requests
      BY <1>1, <1>2 DEF SysTypeOK
    <3> QED
      BY <1>4, <1>6, <3>1, <3>2, <3>3 DEF Lost
  <2>2. faults' = faults /\ faults \in Nat
    BY <1>1, <1>2 DEF TypeOK
  <2> QED
    BY <2>1, <2>2, NoneLost
<1>14. Cardinality(reviewers) <= 1 => \A x \in Requests : x # r => step[x] = "idle"
  BY <1>2, <1>3, SingleIsOne DEF SysTypeOK
<1>15. SingleInv'
  BY <1>1, <1>6, <1>14 DEF SingleInv
<1>16. ASSUME Cardinality(reviewers) <= 1, NEW k \in Messages PROVE ~Revised(k)
  <2>1. CASE k = m
    <3>1. quarantine[k]["pending"] > 0
      BY <1>0, <1>1, <1>16, <2>1 DEF SysInv, SingleInv, Pending
    <3>2. /\ \A s \in Statuses : quarantine[k][s] \in Nat
          /\ quarantine[k]["pending"] + quarantine[k]["released"] + quarantine[k]["discarded"] <= 1
      BY OneRow DEF SysInv
    <3>3. quarantine[k]["released"] = 0 /\ quarantine[k]["discarded"] = 0
      BY <3>1, <3>2 DEF Statuses
    <3> QED
      BY <3>3 DEF Revised
  <2>2. CASE k # m
    BY <1>4, <2>2 DEF Revised
  <2> QED
    BY <2>1, <2>2
<1> QED
  BY <1>9, <1>10, <1>12, <1>13, <1>15, <1>16 DEF SysInv

\* A request that ends: with its publish done, or by a fault.
LEMMA EndStep ==
  ASSUME SysInv, NEW r \in Requests, Republish(r) \/ ApiError(r)
  PROVE  SysInv'
<1>0. PICK m : m = item[r]
  OBVIOUS
<1>1. /\ step[r] # "idle" /\ step' = [step EXCEPT ![r] = "idle"]
      /\ item' = [item EXCEPT ![r] = NoMessage]
      /\ UNCHANGED <<cursor, pending, rows, quarantine, handled, retried, procVars, outVars,
                     reviewers, decision, consumerVars>>
  BY DEF Republish, ApiError, busVars, dbVars
<1>2. SysTypeOK /\ TypeOK
  BY DEF SysInv, SysTypeOK
<1>3. m \in Messages /\ r \in reviewers /\ Held(m)
  BY <1>0, <1>1, <1>2 DEF SysTypeOK
<1>4. \/ /\ step[r] = "publish" /\ releases' = [releases EXCEPT ![m] = @ + 1] /\ faults' = faults
         /\ Append1(m)
      \/ /\ releases' = releases /\ faults' = faults + 1 /\ stream' = stream
  BY <1>0 DEF Republish, ApiError, busVars
<1>5. /\ step'[r] = "idle"
      /\ \A x \in Requests : x # r => step'[x] = step[x] /\ item'[x] = item[x]
  BY <1>1, <1>2 DEF SysTypeOK
<1>6. \A k : /\ Held(k)' <=> Held(k)
             /\ Pending(k)' <=> Pending(k)
  BY <1>1 DEF Held, Pending
<1>7. IInv' /\ TypeOK'
  <2>1. Grows /\ stream' \in [Topics -> Seq(Messages)] /\ faults' \in Nat
    <3>1. faults \in Nat /\ stream \in [Topics -> Seq(Messages)]
      BY <1>2 DEF TypeOK
    <3>2. CASE Append1(m) /\ faults' = faults
      <4>1. stream' \in [Topics -> Seq(Messages)] /\ Grows
        BY <1>2, <1>3, <3>2, AppendGrows
      <4> QED
        BY <3>1, <3>2, <4>1
    <3>3. CASE stream' = stream /\ faults' = faults + 1
      <4>1. Grows
        BY <1>2, <3>3, SameGrows
      <4> QED
        BY <3>1, <3>3, <4>1
    <3> QED
      BY <1>4, <3>2, <3>3
  <2>2. HeldOnce' /\ quarantine' \in [Messages -> [Statuses -> Nat]]
    BY <1>1, <1>2 DEF SysInv, IInv, HeldOnce, TypeOK
  <2>3. IInv'
    BY <1>1, <1>6, <2>1, <2>2, OutsideKeeps DEF SysInv
  <2> QED
    BY <2>3 DEF IInv
<1>8. releases' \in [Messages -> Nat]
  BY <1>2, <1>3, <1>4, TickTyped DEF SysTypeOK
<1>9. SysTypeOK'
  <2>1. step' \in [Requests -> {"idle", "checked", "publish"}]
        /\ item' \in [Requests -> Messages \cup {NoMessage}]
    BY <1>1, <1>2 DEF SysTypeOK
  <2>2. ASSUME NEW x \in Requests, step'[x] # "idle"
        PROVE  x \in reviewers /\ item'[x] \in Messages /\ Held(item[x])' /\ item'[x] = item[x]
    BY <1>2, <1>5, <1>6, <2>2 DEF SysTypeOK
  <2> QED
    BY <1>1, <1>2, <1>6, <1>7, <1>8, <2>1, <2>2 DEF SysTypeOK, consumerVars
<1>10. ReleasesInv'
  <2> SUFFICES ASSUME NEW k \in Messages
               PROVE  /\ releases'[k] > 0 => Held(k)
                      /\ Pending(k) => releases'[k] = 0
                                       /\ \A x \in Requests : step'[x] = "publish" => item'[x] # k
                      /\ releases'[k] + Cardinality(BusyOn(k)') <= Cardinality(reviewers)
    BY <1>1, <1>6 DEF ReleasesInv
  <2>1. releases'[k] = releases[k] \/ (k = m /\ step[r] = "publish" /\ releases'[k] = releases[k] + 1)
    BY <1>2, <1>3, <1>4 DEF SysTypeOK
  <2>2. releases'[k] > 0 => Held(k)
    BY <1>3, <2>1 DEF SysInv, ReleasesInv
  <2>3. Pending(k) => releases'[k] = 0 /\ \A x \in Requests : step'[x] = "publish" => item'[x] # k
    BY <1>0, <1>5, <2>1 DEF SysInv, ReleasesInv
  <2>4. /\ IsFiniteSet(BusyOn(k)) /\ Cardinality(BusyOn(k)) \in Nat /\ Cardinality(reviewers) \in Nat
        /\ releases[k] \in Nat
        /\ releases[k] + Cardinality(BusyOn(k)) <= Cardinality(reviewers)
    BY <1>2, ReviewersFinite DEF SysInv, ReleasesInv, SysTypeOK
  <2>5. BusyOn(k)' = BusyOn(k) \ {r}
    BY <1>1, <1>2, <1>5 DEF BusyOn, SysTypeOK
  <2>6. CASE k = m
    <3>1. r \in BusyOn(k)
      BY <1>0, <1>1, <1>3, <2>6 DEF BusyOn
    <3>2. Cardinality(BusyOn(k)') = Cardinality(BusyOn(k)) - 1
      BY <2>4, <2>5, <3>1, OneMore
    <3>3. releases'[k] + (Cardinality(BusyOn(k)) - 1) <= Cardinality(reviewers)
      BY <2>1, <2>4
    <3> QED
      BY <2>2, <2>3, <3>2, <3>3
  <2>7. CASE k # m
    <3>1. BusyOn(k)' = BusyOn(k)
      BY <1>0, <2>5, <2>7 DEF BusyOn
    <3> QED
      BY <2>1, <2>2, <2>3, <2>4, <2>7, <3>1
  <2> QED
    BY <2>6, <2>7
<1>11. ReleasedGoesOut'
  <2> DEFINE L == {k \in Messages : Lost(k)}
             M == {k \in Messages : Lost(k)'}
  <2>1. ASSUME NEW k \in Messages, Lost(k)', k # m PROVE Lost(k)
    <3>1. /\ quarantine[k]["released"] > 0
          /\ \A x \in reviewers : ~(step'[x] = "publish" /\ item'[x] = k)
      BY <1>1, <2>1 DEF Lost
    <3>2. releases[k] = 0
      BY <1>2, <1>3, <1>4, <2>1 DEF Lost, SysTypeOK
    <3>3. \A x \in reviewers : item[x] = k => x # r /\ x \in Requests
      BY <1>0, <1>2, <2>1 DEF SysTypeOK
    <3> QED
      BY <1>5, <3>1, <3>2, <3>3 DEF Lost
  <2>2. faults \in Nat /\ releases[m] \in Nat
    BY <1>2, <1>3 DEF TypeOK, SysTypeOK
  <2>3. CASE releases' = [releases EXCEPT ![m] = @ + 1] /\ faults' = faults
    <3>1. releases'[m] > 0
      BY <1>2, <1>3, <2>2, <2>3 DEF SysTypeOK
    <3>2. \A k \in Messages : Lost(k)' => Lost(k)
      BY <2>1, <3>1 DEF Lost
    <3> QED
      BY <2>2, <2>3, <3>2, NoneLost
  <2>4. CASE faults' = faults + 1
    <3>1. IsFiniteSet(L) /\ Cardinality(L) <= faults
      BY SentinelAssumption, FS_Subset DEF SysInv, ReleasedGoesOut
    <3>2. /\ IsFiniteSet(L \cup {m}) /\ Cardinality(L) \in Nat
          /\ Cardinality(L \cup {m}) \in Nat
          /\ Cardinality(L \cup {m}) <= Cardinality(L) + 1
      <4> HIDE DEF L
      <4>1. Cardinality(L) \in Nat
        BY <3>1, FS_CardinalityType
      <4>2. /\ IsFiniteSet(L \cup {m})
            /\ Cardinality(L \cup {m}) = IF m \in L THEN Cardinality(L) ELSE Cardinality(L) + 1
        BY <3>1, FS_AddElement
      <4> QED
        BY <4>1, <4>2
    <3>3. M \subseteq L \cup {m}
      BY <2>1
    <3>4. Cardinality(M) <= Cardinality(L \cup {m}) /\ Cardinality(M) \in Nat
      BY <3>2, <3>3, FS_Subset, FS_CardinalityType
    <3>5. Cardinality(M) <= faults'
      BY <2>2, <2>4, <3>1, <3>2, <3>4
    <3> QED
      BY <3>5 DEF ReleasedGoesOut
  <2> QED
    BY <1>4, <2>3, <2>4
<1>12. SingleInv'
  BY <1>1, <1>5, <1>6 DEF SysInv, SingleInv
<1> QED
  BY <1>7, <1>9, <1>10, <1>11, <1>12 DEF SysInv

\* The consumer's steps touch nothing that others keep.
LEMMA ConsumerStep ==
  ASSUME SysInv, UNCHANGED <<vars, reviewVars>>, Consume \/ UNCHANGED consumerVars
  PROVE  SysInv'
<1> USE DEF reviewVars, consumerVars
<1> DEFINE Typed == /\ stage' \in {"waiting", "admitted", "handling"}
                    /\ IF stage' = "waiting" THEN inHand' = NoMessage ELSE inHand' \in Messages
                    /\ remembered' \subseteq Messages
                    /\ acted' \subseteq Messages
                    /\ settled' \in [Messages -> Nat]
<1>1. SysTypeOK
  BY DEF SysInv
<1>2. IInv'
  BY NextIInv DEF SysInv
<1>3. UNCHANGED <<quarantine, faults>>
  BY DEF vars, dbVars
<1>4. Typed
  <2>1. ASSUME NEW m \in Messages, settled' \in {settled, [settled EXCEPT ![m] = @ + 1]}
        PROVE  settled' \in [Messages -> Nat]
    BY <1>1, <2>1, TickTyped DEF SysTypeOK
  <2>2. ASSUME NEW m \in Messages, Admit(m) \/ Refuse(m) PROVE Typed
    <3>1. settled' \in [Messages -> Nat]
      BY <2>1, <2>2 DEF Admit, Refuse
    <3> QED
      BY <1>1, <2>2, <3>1 DEF Admit, Refuse, SysTypeOK
  <2>3. CASE Start
    BY <1>1, <2>3 DEF Start, SysTypeOK
  <2>4. CASE Finish \/ Lapse
    <3>1. inHand \in Messages
      BY <1>1, <2>4 DEF Finish, Lapse, SysTypeOK
    <3>2. settled' \in [Messages -> Nat]
      BY <2>1, <2>4, <3>1 DEF Finish, Lapse
    <3> QED
      BY <1>1, <2>4, <3>1, <3>2 DEF Finish, Lapse, SysTypeOK
  <2>5. CASE UNCHANGED consumerVars
    BY <1>1, <2>5 DEF SysTypeOK
  <2> QED
    BY <2>2, <2>3, <2>4, <2>5 DEF Consume
<1>5. SysTypeOK'
  BY <1>1, <1>2, <1>3, <1>4 DEF SysTypeOK, IInv, Held
<1>6. ReleasesInv' /\ SingleInv'
  BY <1>3 DEF SysInv, ReleasesInv, SingleInv, Held, Pending, BusyOn
<1>7. ReleasedGoesOut'
  BY <1>3 DEF SysInv, ReleasedGoesOut, Lost
<1> QED
  BY <1>2, <1>5, <1>6, <1>7 DEF SysInv

LEMMA SysStep == SysInv /\ [SysNext]_sysVars => SysInv'
<1> SUFFICES ASSUME SysInv, [SysNext]_sysVars PROVE SysInv'
  OBVIOUS
<1>1. CASE Next /\ UNCHANGED <<reviewVars, consumerVars>>
  BY <1>1, SentinelStep
<1>2. ASSUME NEW r \in Requests, Request(r) PROVE SysInv'
  BY <1>2, CheckStep, MarkStep, EndStep DEF Request
<1>3. CASE Consume
  <2>1. UNCHANGED <<vars, reviewVars>>
    BY <1>3 DEF Consume, Admit, Refuse, Start, Finish, Lapse
  <2> QED
    BY <1>3, <2>1, ConsumerStep
<1>4. CASE UNCHANGED sysVars
  BY <1>4, ConsumerStep DEF sysVars
<1> QED
  BY <1>1, <1>2, <1>3, <1>4 DEF SysNext

LEMMA SysAlways == SysSpec => []SysInv
  BY SysInitInv, SysStep, PTL DEF SysSpec

-----------------------------------------------------------------------------
\* Sentinel, the API and the gated consumer keep their tables in order, and a
\* request is never at work on a message that is not in quarantine.
THEOREM SysTypeCorrect == SysSpec => []SysTypeOK
<1>1. SysInv => SysTypeOK
  BY DEF SysInv
<1> QED
  BY <1>1, SysAlways, PTL

\* Reviewers do not change what the triage queue holds: one row for a message
\* (agent.py:218, api/main.py:402-417).
THEOREM ReviewedOnceHeld == SysSpec => []HeldOnce
<1>1. SysInv => HeldOnce
  BY DEF SysInv, IInv
<1> QED
  BY <1>1, SysAlways, PTL

\* However many requests race, an envelope goes back to the bus once for each
\* reviewer at most (api/main.py:402-417, 440-450).
THEOREM ReleasesStayBounded == SysSpec => []ReleasesBounded
<1>1. SysInv => ReleasesBounded
  <2>1. ASSUME SysInv, NEW m \in Messages PROVE releases[m] <= Cardinality(reviewers)
    <3>1. /\ releases[m] \in Nat /\ Cardinality(BusyOn(m)) \in Nat /\ Cardinality(reviewers) \in Nat
          /\ releases[m] + Cardinality(BusyOn(m)) <= Cardinality(reviewers)
      BY <2>1, ReviewersFinite DEF SysInv, ReleasesInv, SysTypeOK
    <3> QED
      BY <3>1
  <2> QED
    BY <2>1 DEF ReleasesBounded
<1> QED
  BY <1>1, SysAlways, PTL

\* Of the releases that were decided every fault loses one at most, and nothing
\* else loses any (api/main.py:405-418).
THEOREM ReleasesGoOut == SysSpec => []ReleasedGoesOut
<1>1. SysInv => ReleasedGoesOut
  BY DEF SysInv
<1> QED
  BY <1>1, SysAlways, PTL

\* Whatever reviewers decide, however often it is delivered and however often
\* the consumer dies over it, a message that lies in quarantine gets past the
\* gate no more; a delivery that is past it may still be handled
\* (verdict_gate.py:94-112, agent.py:218, base.py:225-238).
THEOREM HeldStaysOutAlways == SysSpec => HeldStaysOut
<1>1. ASSUME SysInv, [SysNext]_sysVars, NEW m \in Messages, Held(m), inHand # m
      PROVE  inHand' # m
  <2>1. ~GateOpens(m)
    <3>1. IdOf[m] = "uuid" /\ Deciding(m) \in Layers
      BY TriageAssumption DEF Deciding, Layers
    <3>2. rows[m][Deciding(m)] \in {"fail_hard", "fail_soft"}
      BY <1>1, <3>1 DEF SysInv, IInv, HeldByRow
    <3>3. \E l \in Layers : rows[m][l] = "fail_hard" \/ rows[m][l] = "fail_soft"
      BY <3>1, <3>2
    <3> QED
      BY <3>3 DEF GateOpens, Worst
  <2>2. m # NoMessage
    BY SentinelAssumption
  <2>3. CASE Consume
    BY <1>1, <2>1, <2>2, <2>3 DEF Consume, Admit, Refuse, Start, Finish, Lapse
  <2>4. ASSUME UNCHANGED consumerVars PROVE inHand' # m
    BY <1>1, <2>4 DEF consumerVars
  <2> QED
    BY <1>1, <2>3, <2>4 DEF SysNext, Request, Check, Mark, Republish, ApiError, sysVars
<1>2. SysInv /\ [SysNext]_sysVars
        => [\A m \in Messages : Held(m) /\ inHand # m => inHand' # m]_sysVars
  BY <1>1
<1> QED
  BY <1>2, SysAlways, PTL DEF SysSpec, HeldStaysOut

\* Where one reviewer works, what was decided is never revised
\* (api/main.py:405-408, 442-446).
THEOREM FinalForOneAlways == SysSpec => FinalForOne
<1>1. ASSUME SysInv, [SysNext]_sysVars, Cardinality(reviewers) <= 1, NEW m \in Messages
      PROVE  ~Revised(m)
  <2>1. CASE quarantine' = quarantine
    BY <2>1 DEF Revised
  <2>2. ASSUME NEW r \in Requests, Mark(r) PROVE ~Revised(m)
    BY <1>1, <2>2, MarkStep
  <2>3. CASE Next
    <3>1. [Next]_vars
      BY <2>3
    <3>2. \A s \in {"released", "discarded"} : quarantine'[m][s] = quarantine[m][s]
      BY <1>1, <3>1, SentinelHolds DEF SysInv, Statuses
    <3> QED
      BY <3>2 DEF Revised
  <2> QED
    BY <1>1, <2>1, <2>2, <2>3
       DEF SysNext, Request, Check, Republish, ApiError, Consume, Admit, Refuse, Start, Finish,
           Lapse, sysVars, vars, dbVars
<1>2. SysInv /\ [SysNext]_sysVars
        => [Cardinality(reviewers) <= 1 => \A m \in Messages : ~Revised(m)]_sysVars
  BY <1>1
<1> QED
  BY <1>2, SysAlways, PTL DEF SysSpec, FinalForOne
=============================================================================
