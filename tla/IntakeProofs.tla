---------------------------- MODULE IntakeProofs ----------------------------
(***************************************************************************)
(* Proofs about the gateway, for every number of workers, devices and      *)
(* submissions, every rate limit and every number of faults.               *)
(***************************************************************************)
EXTENDS Intake, FiniteSetTheorems, TLAPS

-----------------------------------------------------------------------------
(* Counting.                                                               *)

\* A set that gained one element at most counts one more at most.
LEMMA Grown ==
  ASSUME NEW S, IsFiniteSet(S), NEW x, NEW T \in SUBSET (S \cup {x})
  PROVE  Cardinality(S) \in Nat /\ Cardinality(T) \in Nat /\ Cardinality(T) <= Cardinality(S) + 1
<1>1. IsFiniteSet(S \cup {x}) /\ Cardinality(S \cup {x}) <= Cardinality(S) + 1 /\ Cardinality(S) \in Nat
  BY FS_AddElement, FS_CardinalityType
<1>2. IsFiniteSet(T) /\ Cardinality(T) <= Cardinality(S \cup {x})
  BY <1>1, FS_Subset
<1> QED
  BY <1>1, <1>2, FS_CardinalityType

\* A set that lost an element counts one less at least.
LEMMA Shrunk ==
  ASSUME NEW S, IsFiniteSet(S), NEW x \in S, NEW T \in SUBSET (S \ {x})
  PROVE  Cardinality(S) \in Nat /\ Cardinality(T) \in Nat /\ Cardinality(T) <= Cardinality(S) - 1
<1>1. IsFiniteSet(S \ {x}) /\ Cardinality(S \ {x}) = Cardinality(S) - 1 /\ Cardinality(S) \in Nat
  BY FS_RemoveElement, FS_CardinalityType
<1>2. IsFiniteSet(T) /\ Cardinality(T) <= Cardinality(S \ {x})
  BY <1>1, FS_Subset
<1> QED
  BY <1>1, <1>2, FS_CardinalityType

\* A set that gained nothing counts no more.
LEMMA Kept ==
  ASSUME NEW S, IsFiniteSet(S), NEW T \in SUBSET S
  PROVE  Cardinality(S) \in Nat /\ Cardinality(T) \in Nat /\ Cardinality(T) <= Cardinality(S)
BY FS_Subset, FS_CardinalityType

\* Where the elements of a longer sequence come from.
LEMMA AppendedFrom ==
  ASSUME NEW E, NEW q \in Seq(E), NEW x \in E, NEW i \in 1..Len(Append(q, x))
  PROVE  (i \in 1..Len(q) /\ Append(q, x)[i] = q[i]) \/ Append(q, x)[i] = x
OBVIOUS

\* Where the elements of a shorter one come from.
LEMMA TailFrom ==
  ASSUME NEW E, NEW q \in Seq(E), q # <<>>, NEW i \in 1..Len(Tail(q))
  PROVE  i + 1 \in 1..Len(q) /\ Tail(q)[i] = q[i + 1]
OBVIOUS

\* The sets that the invariant counts are finite.
LEMMA CountedAreFinite ==
  /\ \A d : IsFiniteSet(Accepted(d)) /\ IsFiniteSet(Admitted(d))
  /\ IsFiniteSet(Emitting)
  /\ IsFiniteSet(Submissions)
  /\ \A S : IsFiniteSet(S) => Cardinality(S) \in Nat
<1>1. IsFiniteSet(Submissions)
  BY IntakeAssumption, FS_Interval DEF Submissions
<1>2. ASSUME NEW d PROVE IsFiniteSet(Accepted(d)) /\ IsFiniteSet(Admitted(d))
  <2>1. Accepted(d) \in SUBSET Submissions /\ Admitted(d) \in SUBSET Workers
    BY DEF Accepted, Admitted
  <2> QED
    BY <1>1, <2>1, IntakeAssumption, FS_Subset
<1>3. Emitting \in SUBSET Workers
  BY DEF Emitting
<1>4. IsFiniteSet(Emitting)
  BY <1>3, IntakeAssumption, FS_Subset
<1> QED
  BY <1>1, <1>2, <1>4, FS_CardinalityType

\* What was accepted is among what was attempted.
LEMMA AcceptedAreAttempts ==
  ASSUME TypeOK, NEW d \in Devices
  PROVE  Cardinality(Accepted(d)) <= Attempts(d) /\ Attempts(d) \in Nat
<1> DEFINE Places == {i \in 1..Len(recent[d]) : recent[d][i][2] = "accepted"}
           Which == [i \in Places |-> recent[d][i][1]]
<1>1. Len(recent[d]) \in Nat
  BY DEF TypeOK
<1>2. IsFiniteSet(1..Len(recent[d])) /\ Cardinality(1..Len(recent[d])) = Len(recent[d])
  BY <1>1, FS_Interval
<1>3. IsFiniteSet(Places) /\ Cardinality(Places) <= Len(recent[d]) /\ Cardinality(Places) \in Nat
  BY <1>2, FS_Subset, FS_CardinalityType
<1>4. Which \in Surjection(Places, Accepted(d))
  <2>1. \A i \in 1..Len(recent[d]) :
           recent[d][i] \in Submissions \X {"accepted", "rejected", "rate_limited"}
    BY DEF TypeOK
  <2>2. \A i \in Places : Which[i] \in Accepted(d)
    BY <2>1 DEF Accepted
  <2>3. \A s \in Accepted(d) : \E i \in Places : Which[i] = s
    BY DEF Accepted
  <2> QED
    BY <2>2, <2>3 DEF Surjection
<1>5. Cardinality(Accepted(d)) <= Cardinality(Places) /\ Cardinality(Accepted(d)) \in Nat
  BY <1>3, <1>4, FS_Surjection, FS_CardinalityType
<1> QED
  BY <1>1, <1>3, <1>5 DEF Attempts

-----------------------------------------------------------------------------
(* Types.                                                                  *)

\* The initial state is typed.
LEMMA InitTypeOK == Init => TypeOK
BY IntakeAssumption DEF Init, TypeOK, Labels, NoSubmission

\* A worker that is in the middle of a request has a submission.
LEMMA BusyHasSubmission ==
  ASSUME TypeOK, NEW w \in Workers, pc[w] # "idle"
  PROVE  job[w] \in Submissions
BY DEF TypeOK

\* Every step keeps the types.
LEMMA NextTypeOK == TypeOK /\ [Next]_vars => TypeOK'
<1> SUFFICES ASSUME TypeOK, [Next]_vars PROVE TypeOK'
  OBVIOUS
<1> USE IntakeAssumption DEF Labels, Reasons, Flaws, Goto
<1>1. ASSUME NEW w \in Workers, Receive(w) PROVE TypeOK'
  <2>1. arrived + 1 \in Submissions /\ arrived + 1 # NoSubmission /\ arrived + 1 \in 0..NumSubmissions
    BY <1>1 DEF Receive, TypeOK, Submissions, NoSubmission
  <2> QED
    BY <1>1, <2>1 DEF Receive, TypeOK
<1>2. ASSUME NEW w \in Workers, Count(w) PROVE TypeOK'
  BY <1>2 DEF Count, TypeOK
<1>3. ASSUME NEW w \in Workers, Examine(w) PROVE TypeOK'
  BY <1>3 DEF Examine, TypeOK
<1>4. ASSUME NEW w \in Workers, PersistReport(w) PROVE TypeOK'
  BY <1>4, BusyHasSubmission DEF PersistReport, TypeOK
<1>5. ASSUME NEW w \in Workers, RecordAttempt(w) PROVE TypeOK'
  <2>1. <<job[w], Outcome(w)>> \in Submissions \X {"accepted", "rejected", "rate_limited"}
    BY <1>5, BusyHasSubmission DEF RecordAttempt, Outcome
  <2>2. recent' \in [Devices -> Seq(Submissions \X {"accepted", "rejected", "rate_limited"})]
    BY <1>5, <2>1 DEF RecordAttempt, TypeOK
  <2> QED
    BY <1>5, <2>2 DEF RecordAttempt, TypeOK
<1>6. ASSUME NEW w \in Workers, Archive(w) PROVE TypeOK'
  BY <1>6, BusyHasSubmission DEF Archive, TypeOK
<1>7. ASSUME NEW w \in Workers, Emit(w) PROVE TypeOK'
  <2>1. job[w] \in Submissions /\ reason[w] \in Reasons \cup {"none"}
    BY <1>7, BusyHasSubmission DEF Emit, TypeOK
  <2> QED
    BY <1>7, <2>1 DEF Emit, TypeOK
<1>8. ASSUME NEW w \in Workers, Answer(w) PROVE TypeOK'
  BY <1>8 DEF Answer, Release, TypeOK
<1>9. ASSUME NEW w \in Workers, Fail(w) PROVE TypeOK'
  BY <1>9 DEF Fail, Release, TypeOK
<1>10. ASSUME NEW d \in Devices, Expire(d) PROVE TypeOK'
  BY <1>10 DEF Expire, TypeOK, workVars
<1>11. ASSUME NEW s \in Submissions, Judge(s) PROVE TypeOK'
  BY <1>11 DEF Judge, TypeOK, workVars
<1>12. CASE UNCHANGED vars
  BY <1>12 DEF vars, workVars, TypeOK
<1> QED
  BY <1>1, <1>2, <1>3, <1>4, <1>5, <1>6, <1>7, <1>8, <1>9, <1>10, <1>11, <1>12 DEF Next, Handle

-----------------------------------------------------------------------------
(* Who works on what.                                                      *)

\* Steps that leave the workers' submissions alone.
LEMMA JobsKept ==
  ASSUME OneWorkerEach, UNCHANGED <<job, arrived>>
  PROVE  OneWorkerEach'
BY DEF OneWorkerEach

\* A worker that gives its submission up takes no other's.
LEMMA JobReleased ==
  ASSUME TypeOK, OneWorkerEach, NEW w \in Workers, Release(w), UNCHANGED arrived
  PROVE  OneWorkerEach'
BY DEF OneWorkerEach, Release, Goto, TypeOK, NoSubmission

\* Submissions are handed out one by one, each to one worker.
LEMMA NextOneWorkerEach ==
  TypeOK /\ OneWorkerEach /\ [Next]_vars => OneWorkerEach'
<1> SUFFICES ASSUME TypeOK, OneWorkerEach, [Next]_vars PROVE OneWorkerEach'
  OBVIOUS
<1>1. ASSUME NEW w \in Workers, Receive(w) PROVE OneWorkerEach'
  <2>1. \A v \in Workers : job[v] \in Int /\ job[v] <= arrived
    BY DEF OneWorkerEach, TypeOK, Submissions, NoSubmission
  <2>2. arrived \in Int
    BY DEF TypeOK
  <2>3. \A v \in Workers : job'[v] = IF v = w THEN arrived + 1 ELSE job[v]
    BY <1>1 DEF Receive, TypeOK
  <2> QED
    BY <1>1, <2>1, <2>2, <2>3 DEF OneWorkerEach, Receive
<1>2. ASSUME NEW w \in Workers, Answer(w) \/ Fail(w) PROVE OneWorkerEach'
  BY <1>2, JobReleased DEF Answer, Fail
<1>3. CASE UNCHANGED <<job, arrived>>
  BY <1>3, JobsKept
<1> QED
  BY <1>1, <1>2, <1>3 DEF Next, Handle, Count, Examine, PersistReport, RecordAttempt, Archive, Emit,
     Expire, Judge, vars, workVars

\* A submission that has not arrived is nobody's.
LEMMA BusyHasArrived ==
  ASSUME TypeOK, OneWorkerEach, NEW w \in Workers, NEW s \in Submissions, s > arrived
  PROVE  job[w] # s
BY DEF TypeOK, OneWorkerEach, Submissions, NoSubmission

\* Nothing is done for a submission before it arrives.
LEMMA NextNothingEarly ==
  TypeOK /\ OneWorkerEach /\ NothingEarly /\ [Next]_vars => NothingEarly'
<1> SUFFICES ASSUME TypeOK, OneWorkerEach, NothingEarly, [Next]_vars,
                    NEW s \in Submissions, s > arrived'
             PROVE  s \notin reports' /\ s \notin ingested' /\ Unrejected(s)' /\ answers'[s] = "none"
  BY DEF NothingEarly
<1>0. arrived' >= arrived /\ arrived \in Int /\ arrived' \in Int
  BY DEF Next, Handle, Receive, Count, Examine, PersistReport, RecordAttempt, Archive, Emit, Answer,
     Fail, Expire, Judge, vars, TypeOK
<1>1. s > arrived
  BY <1>0 DEF Submissions
<1>2. s \notin reports /\ s \notin ingested /\ Unrejected(s) /\ answers[s] = "none"
  BY <1>1 DEF NothingEarly
<1>3. \A w \in Workers : job[w] # s
  BY <1>1, BusyHasArrived
<1>4. ASSUME NEW w \in Workers, PersistReport(w)
      PROVE  s \notin reports' /\ s \notin ingested' /\ Unrejected(s)' /\ answers'[s] = "none"
  BY <1>2, <1>3, <1>4 DEF PersistReport, Unrejected
<1>5. ASSUME NEW w \in Workers, Emit(w)
      PROVE  s \notin reports' /\ s \notin ingested' /\ Unrejected(s)' /\ answers'[s] = "none"
  BY <1>2, <1>3, <1>5 DEF Emit, Unrejected
<1>6. ASSUME NEW w \in Workers, Answer(w)
      PROVE  s \notin reports' /\ s \notin ingested' /\ Unrejected(s)' /\ answers'[s] = "none"
  BY <1>2, <1>3, <1>6 DEF Answer, Unrejected, TypeOK
<1>7. CASE UNCHANGED <<reports, ingested, rejected, answers>>
  BY <1>2, <1>7 DEF Unrejected
<1> QED
  BY <1>4, <1>5, <1>6, <1>7 DEF Next, Handle, Receive, Count, Examine, RecordAttempt, Archive,
     Fail, Expire, Judge, vars

-----------------------------------------------------------------------------
(* What a worker has done.                                                 *)

\* What another worker's submission owes to nobody else stays as it is.
LEMMA OthersKept ==
  ASSUME TypeOK, TypeOK', OneWorkerEach, NothingEarly, InOrder,
         NEW w \in Workers, Handle(w) \/ Fail(w),
         NEW v \in Workers, v # w, pc'[v] # "idle"
  PROVE  Progress(v, job[v])' 
<1> USE DEF Goto
<1>1. pc'[v] = pc[v] /\ reason'[v] = reason[v] /\ job'[v] = job[v]
  BY DEF Handle, Receive, Count, Examine, PersistReport, RecordAttempt, Archive, Emit, Answer, Fail,
     Release, TypeOK
<1>2. job[v] \in Submissions /\ (job[w] = job[v] => FALSE)
  BY <1>1, BusyHasSubmission DEF OneWorkerEach, NoSubmission, Submissions
<1>3. Progress(v, job[v])
  BY <1>1 DEF InOrder
<1>4. /\ answers'[job[v]] = answers[job[v]]
      /\ job[v] \in reports' <=> job[v] \in reports
      /\ job[v] \in ingested' <=> job[v] \in ingested
      /\ job[v] \in archived' <=> job[v] \in archived
      /\ \A r \in Reasons : <<job[v], r>> \in rejected' <=> <<job[v], r>> \in rejected
  BY <1>2 DEF Handle, Receive, Count, Examine, PersistReport, RecordAttempt, Archive, Emit, Answer,
     Fail, TypeOK
<1>5. reason[v] \in Reasons \cup {"none"}
  BY DEF TypeOK
<1> QED
  BY <1>1, <1>3, <1>4, <1>5 DEF Progress, Unrejected

\* A worker's own step keeps its account right.
LEMMA OwnKept ==
  ASSUME TypeOK, NothingEarly, InOrder, NEW w \in Workers, Handle(w) \/ Fail(w), pc'[w] # "idle"
  PROVE  Progress(w, job[w])'
<1> USE DEF Goto
<1>1. CASE Receive(w)
  <2>1. arrived + 1 \in Submissions /\ arrived + 1 > arrived
    BY <1>1, IntakeAssumption DEF Receive, TypeOK, Submissions
  <2>2. job'[w] = arrived + 1 /\ reason'[w] = "none" /\ pc'[w] = "count"
    BY <1>1 DEF Receive, TypeOK
  <2> QED
    BY <1>1, <2>1, <2>2 DEF Receive, NothingEarly, Progress, Unrejected
<1> DEFINE s == job[w]
<1>2. ASSUME ~Receive(w)
      PROVE  s \in Submissions /\ Progress(w, s)
  BY <1>2, BusyHasSubmission DEF InOrder, Handle, Count, Examine, PersistReport, RecordAttempt,
     Archive, Emit, Answer, Fail
<1>3. CASE Count(w)
  BY <1>2, <1>3 DEF Count, Receive, Progress, Unrejected, TypeOK
<1>4. CASE Examine(w)
  BY <1>2, <1>4 DEF Examine, Receive, Progress, Unrejected, TypeOK, Flaws
<1>5. CASE PersistReport(w)
  BY <1>2, <1>5 DEF PersistReport, Receive, Progress, Unrejected, TypeOK
<1>6. CASE RecordAttempt(w)
  BY <1>2, <1>6 DEF RecordAttempt, Receive, Progress, Unrejected, TypeOK
<1>7. CASE Archive(w)
  BY <1>2, <1>7 DEF Archive, Receive, Progress, Unrejected, TypeOK
<1>8. CASE Emit(w)
  BY <1>2, <1>8 DEF Emit, Receive, Progress, Unrejected, TypeOK
<1>9. CASE Answer(w) \/ Fail(w)
  BY <1>9 DEF Answer, Fail, Release, TypeOK
<1> QED
  BY <1>1, <1>3, <1>4, <1>5, <1>6, <1>7, <1>8, <1>9 DEF Handle

\* Every worker's account stays right.
LEMMA NextInOrder ==
  TypeOK /\ TypeOK' /\ OneWorkerEach /\ NothingEarly /\ InOrder /\ [Next]_vars => InOrder'
<1> SUFFICES ASSUME TypeOK, TypeOK', OneWorkerEach, NothingEarly, InOrder, [Next]_vars,
                    NEW v \in Workers, pc'[v] # "idle"
             PROVE  Progress(v, job[v])'
  BY DEF InOrder
<1>1. ASSUME NEW w \in Workers, Handle(w) \/ Fail(w)
      PROVE  Progress(v, job[v])'
  <2>1. CASE v = w
    BY <1>1, <2>1, OwnKept
  <2>2. CASE v # w
    BY <1>1, <2>2, OthersKept
  <2> QED
    BY <2>1, <2>2
<1>2. CASE UNCHANGED <<reports, archived, ingested, rejected, answers, workVars>>
  BY <1>2 DEF workVars, InOrder, Progress, Unrejected
<1> QED
  BY <1>1, <1>2 DEF Next, Expire, Judge, vars, workVars

-----------------------------------------------------------------------------
(* Answers, rows, audit trail and events.                                  *)

\* The trail agrees after every step.
LEMMA NextTrailAgrees ==
  TypeOK /\ InOrder /\ TrailAgrees /\ [Next]_vars => TrailAgrees'
<1> SUFFICES ASSUME TypeOK, InOrder, TrailAgrees, [Next]_vars PROVE TrailAgrees'
  OBVIOUS
<1> USE DEF Goto
<1>1. ASSUME NEW w \in Workers, PersistReport(w) PROVE TrailAgrees'
  <2>1. Progress(w, job[w])
    BY <1>1 DEF PersistReport, InOrder
  <2> QED
    BY <1>1, <2>1 DEF PersistReport, Progress, TrailAgrees, Reasons, Flaws
<1>2. ASSUME NEW w \in Workers, Archive(w) PROVE TrailAgrees'
  BY <1>2 DEF Archive, TrailAgrees
<1>3. ASSUME NEW w \in Workers, Emit(w) PROVE TrailAgrees'
  <2>1. Progress(w, job[w]) /\ reason[w] \in Reasons \cup {"none"}
    BY <1>3 DEF Emit, InOrder, TypeOK
  <2>2. CASE reason[w] = "none"
    BY <1>3, <2>1, <2>2 DEF Emit, Progress, Unrejected, TrailAgrees
  <2>3. CASE reason[w] # "none"
    <3>1. /\ rejected' = rejected \cup {<<job[w], reason[w]>>}
          /\ UNCHANGED <<reports, archived, ingested, answers>>
          /\ job[w] \notin ingested /\ job[w] \notin reports /\ job[w] \in archived
      BY <1>3, <2>1, <2>3 DEF Emit, Progress
    <3>2. \A x \in rejected' : x[1] \in archived'
      BY <3>1 DEF TrailAgrees
    <3>3. ASSUME NEW s \in Submissions, s # job[w], NEW f
          PROVE  <<s, f>> \in rejected' <=> <<s, f>> \in rejected
      BY <3>1, <3>3
    <3> QED
      BY <2>1, <3>1, <3>2, <3>3 DEF TrailAgrees
  <2> QED
    BY <2>2, <2>3
<1>4. ASSUME NEW w \in Workers, Answer(w) PROVE TrailAgrees'
  <2>1. Progress(w, job[w]) /\ reason[w] \in Reasons \cup {"none"}
    BY <1>4 DEF Answer, InOrder, TypeOK
  <2>2. "accepted" \notin Reasons /\ "none" \notin Reasons
    BY DEF Reasons, Flaws
  <2>3. \A s \in Submissions : answers'[s] = IF s = job[w] THEN IF reason[w] = "none" THEN "accepted" ELSE reason[w] ELSE answers[s]
    BY <1>4 DEF Answer, TypeOK
  <2> QED
    BY <1>4, <2>1, <2>2, <2>3 DEF Answer, Progress, TrailAgrees
<1>5. CASE UNCHANGED <<reports, archived, ingested, rejected, answers>>
  BY <1>5 DEF TrailAgrees
<1> QED
  BY <1>1, <1>2, <1>3, <1>4, <1>5 DEF Next, Handle, Receive, Count, Examine, RecordAttempt, Fail,
     Expire, Judge, vars

-----------------------------------------------------------------------------
(* The rate limit.                                                         *)

\* Devices whose attempts and admitted workers only shrink keep their room.
LEMMA RoomStays ==
  ASSUME RoomKept, NEW d \in Devices,
         Accepted(d)' \subseteq Accepted(d), Admitted(d)' \subseteq Admitted(d)
  PROVE  (Cardinality(Accepted(d)) + Cardinality(Admitted(d)) <= RateLimit + Cardinality(Workers) - 1)'
<1>1. /\ Cardinality(Accepted(d)') <= Cardinality(Accepted(d))
      /\ Cardinality(Admitted(d)') <= Cardinality(Admitted(d))
      /\ Cardinality(Accepted(d)) \in Nat /\ Cardinality(Admitted(d)) \in Nat
      /\ Cardinality(Accepted(d)') \in Nat /\ Cardinality(Admitted(d)') \in Nat
  BY CountedAreFinite, Kept
<1>2. Cardinality(Workers) \in Nat /\ RateLimit \in Nat
  BY IntakeAssumption, FS_CardinalityType
<1>3. Cardinality(Accepted(d)) + Cardinality(Admitted(d)) <= RateLimit + Cardinality(Workers) - 1
  BY DEF RoomKept
<1> QED
  BY <1>1, <1>2, <1>3

\* A worker is admitted while there is room, and takes its place with it.
LEMMA CountKeepsRoom ==
  ASSUME TypeOK, RoomKept, NEW w \in Workers, Count(w)
  PROVE  RoomKept'
<1> DEFINE mine == device[job[w]]
<1> SUFFICES ASSUME NEW d \in Devices
             PROVE  (Cardinality(Accepted(d)) + Cardinality(Admitted(d)) <= RateLimit + Cardinality(Workers) - 1)'
  BY DEF RoomKept
<1>1. Accepted(d)' = Accepted(d)
  BY DEF Count, Accepted
<1>2. CASE d # mine \/ Attempts(mine) >= RateLimit
  <2>1. Admitted(d)' \subseteq Admitted(d)
    BY <1>2 DEF Count, Goto, Admitted, TypeOK
  <2> QED
    BY <1>1, <2>1, RoomStays
<1>3. CASE d = mine /\ ~(Attempts(mine) >= RateLimit)
  <2>1. /\ Cardinality(Accepted(d)) <= Attempts(d) /\ Attempts(d) \in Nat
        /\ Cardinality(Accepted(d)) \in Nat
    BY AcceptedAreAttempts, CountedAreFinite
  <2>2. Admitted(d)' \in SUBSET Workers
    BY DEF Admitted
  <2>3. Cardinality(Admitted(d)') <= Cardinality(Workers) /\ Cardinality(Admitted(d)') \in Nat
    BY <2>2, IntakeAssumption, Kept
  <2>4. Cardinality(Workers) \in Nat /\ RateLimit \in Nat
    BY IntakeAssumption, FS_CardinalityType
  <2> QED
    BY <1>1, <1>3, <2>1, <2>3, <2>4
<1> QED
  BY <1>2, <1>3

\* An attempt is recorded by a worker that was admitted for it, or adds nothing.
LEMMA RecordKeepsRoom ==
  ASSUME TypeOK, RoomKept, NEW w \in Workers, RecordAttempt(w)
  PROVE  RoomKept'
<1> DEFINE mine == device[job[w]]
           new == <<job[w], Outcome(w)>>
<1> SUFFICES ASSUME NEW d \in Devices
             PROVE  (Cardinality(Accepted(d)) + Cardinality(Admitted(d)) <= RateLimit + Cardinality(Workers) - 1)'
  BY DEF RoomKept
<1>1. job[w] \in Submissions /\ mine \in Devices
  BY BusyHasSubmission DEF RecordAttempt, TypeOK
<1>2. Admitted(d)' \subseteq Admitted(d) \ {w}
  BY DEF RecordAttempt, Goto, Admitted, TypeOK
<1>3. \A x \in Devices : recent'[x] = IF x = mine THEN Append(recent[x], new) ELSE recent[x]
  BY <1>1 DEF RecordAttempt, TypeOK
<1> DEFINE Recorded == Submissions \X {"accepted", "rejected", "rate_limited"}
<1>0. recent[d] \in Seq(Recorded) /\ new \in Recorded
  BY <1>1 DEF TypeOK, Outcome
<1>4. CASE d # mine \/ Outcome(w) # "accepted"
  <2>1. Accepted(d)' \subseteq Accepted(d)
    <3>1. ASSUME NEW s \in Submissions, NEW i \in 1..Len(recent'[d]), recent'[d][i] = <<s, "accepted">>
          PROVE  i \in 1..Len(recent[d]) /\ recent[d][i] = <<s, "accepted">>
      <4>1. CASE d # mine
        BY <1>3, <3>1, <4>1
      <4>2. CASE d = mine
        <5>1. new # <<s, "accepted">>
          BY <1>4, <4>2
        <5>2. recent'[d] = Append(recent[d], new)
          BY <1>3, <4>2
        <5>3. i \in 1..Len(Append(recent[d], new))
          BY <5>2
        <5> HIDE DEF new, Recorded
        <5>4. \/ i \in 1..Len(recent[d]) /\ Append(recent[d], new)[i] = recent[d][i]
              \/ Append(recent[d], new)[i] = new
          BY <1>0, <5>3, AppendedFrom
        <5> QED
          BY <3>1, <5>1, <5>2, <5>4
      <4> QED
        BY <4>1, <4>2
    <3> QED
      BY <3>1 DEF Accepted
  <2> QED
    BY <1>2, <2>1, RoomStays
<1>5. CASE d = mine /\ Outcome(w) = "accepted"
  <2>1. Accepted(d)' \subseteq Accepted(d) \cup {job[w]}
    <3>1. ASSUME NEW s \in Submissions, s # job[w],
                 NEW i \in 1..Len(recent'[d]), recent'[d][i] = <<s, "accepted">>
          PROVE  i \in 1..Len(recent[d]) /\ recent[d][i] = <<s, "accepted">>
      <4>1. new # <<s, "accepted">>
        BY <3>1
      <4>2. recent'[d] = Append(recent[d], new)
        BY <1>3, <1>5
      <4>3. i \in 1..Len(Append(recent[d], new))
        BY <4>2
      <4> HIDE DEF new, Recorded
      <4>4. \/ i \in 1..Len(recent[d]) /\ Append(recent[d], new)[i] = recent[d][i]
            \/ Append(recent[d], new)[i] = new
        BY <1>0, <4>3, AppendedFrom
      <4> QED
        BY <3>1, <4>1, <4>2, <4>4
    <3> QED
      BY <3>1 DEF Accepted
  <2>2. w \in Admitted(d)
    BY <1>5 DEF RecordAttempt, Outcome, Admitted
  <2>3. /\ Cardinality(Accepted(d)') <= Cardinality(Accepted(d)) + 1
        /\ Cardinality(Accepted(d)) \in Nat /\ Cardinality(Accepted(d)') \in Nat
    BY <2>1, CountedAreFinite, Grown
  <2>4. /\ Cardinality(Admitted(d)') <= Cardinality(Admitted(d)) - 1
        /\ Cardinality(Admitted(d)) \in Nat /\ Cardinality(Admitted(d)') \in Nat
    BY <1>2, <2>2, CountedAreFinite, Shrunk
  <2>5. Cardinality(Workers) \in Nat /\ RateLimit \in Nat
    BY IntakeAssumption, FS_CardinalityType
  <2>6. Cardinality(Accepted(d)) + Cardinality(Admitted(d)) <= RateLimit + Cardinality(Workers) - 1
    BY DEF RoomKept
  <2> QED
    BY <2>3, <2>4, <2>5, <2>6
<1> QED
  BY <1>4, <1>5

\* Every step keeps the room.
LEMMA NextRoomKept ==
  TypeOK /\ InOrder /\ RoomKept /\ [Next]_vars => RoomKept'
<1> SUFFICES ASSUME TypeOK, InOrder, RoomKept, [Next]_vars PROVE RoomKept'
  OBVIOUS
<1>1. ASSUME NEW w \in Workers, Count(w) PROVE RoomKept'
  BY <1>1, CountKeepsRoom
<1>2. ASSUME NEW w \in Workers, RecordAttempt(w) PROVE RoomKept'
  BY <1>2, RecordKeepsRoom
<1> DEFINE OnlyLess == \A d \in Devices : /\ Accepted(d)' \subseteq Accepted(d)
                                          /\ Admitted(d)' \subseteq Admitted(d)
<1>3. ASSUME OnlyLess PROVE RoomKept'
  BY <1>3, RoomStays DEF RoomKept
<1>4. ASSUME NEW w \in Workers, Receive(w) PROVE OnlyLess
  BY <1>4 DEF Receive, Goto, Accepted, Admitted, TypeOK
<1>5. ASSUME NEW w \in Workers, Examine(w) PROVE OnlyLess
  <2>1. \A v \in Workers : v # w => pc'[v] = pc[v] /\ reason'[v] = reason[v]
    BY <1>5 DEF Examine, Goto, TypeOK
  <2>2. pc[w] = "examine" /\ UNCHANGED <<job, device, recent>>
    BY <1>5 DEF Examine
  <2>3. w \in Workers /\ (reason'[w] # "rate_limited" => reason[w] # "rate_limited")
    BY <1>5 DEF Examine, InOrder, Progress
  <2> QED
    BY <2>1, <2>2, <2>3 DEF Accepted, Admitted
<1>6. ASSUME NEW w \in Workers, PersistReport(w) PROVE OnlyLess
  BY <1>6 DEF PersistReport, Goto, Accepted, Admitted, TypeOK
<1>7. ASSUME NEW w \in Workers, Archive(w) \/ Emit(w) PROVE OnlyLess
  BY <1>7 DEF Archive, Emit, Goto, Accepted, Admitted, TypeOK
<1>8. ASSUME NEW w \in Workers, Answer(w) \/ Fail(w) PROVE OnlyLess
  BY <1>8 DEF Answer, Fail, Release, Goto, Accepted, Admitted, TypeOK
<1>9. ASSUME NEW x \in Devices, Expire(x) PROVE OnlyLess
  <2>1. \A d \in Devices : recent'[d] = IF d = x THEN Tail(recent[d]) ELSE recent[d]
    BY <1>9 DEF Expire, TypeOK
  <2>2. UNCHANGED <<pc, job, reason, device>>
    BY <1>9 DEF Expire, workVars
  <2>3. ASSUME NEW d \in Devices, NEW s \in Submissions, NEW i \in 1..Len(recent'[d]),
               recent'[d][i] = <<s, "accepted">>
        PROVE  \E k \in 1..Len(recent[d]) : recent[d][k] = <<s, "accepted">>
    <3>1. recent[d] \in Seq(Submissions \X {"accepted", "rejected", "rate_limited"})
      BY DEF TypeOK
    <3>2. CASE d = x
      <4>1. recent[d] # <<>>
        BY <1>9, <3>2 DEF Expire
      <4>2. i + 1 \in 1..Len(recent[d]) /\ recent'[d][i] = recent[d][i + 1]
        <5>1. recent'[d] = Tail(recent[d])
          BY <2>1, <3>2
        <5> QED
          BY <3>1, <4>1, <5>1, TailFrom
      <4> QED
        BY <2>3, <4>2
    <3>3. CASE d # x
      BY <2>1, <2>3, <3>3
    <3> QED
      BY <3>2, <3>3
  <2>4. \A d \in Devices : Accepted(d)' \subseteq Accepted(d)
    BY <2>3 DEF Accepted
  <2>5. \A d \in Devices : Admitted(d)' = Admitted(d)
    BY <2>2 DEF Admitted
  <2> QED
    BY <2>4, <2>5
<1>10. CASE UNCHANGED <<pc, job, reason, device, recent>>
  <2>1. OnlyLess
    BY <1>10 DEF Accepted, Admitted
  <2> QED
    BY <1>3, <2>1
<1> QED
  BY <1>1, <1>2, <1>3, <1>4, <1>5, <1>6, <1>7, <1>8, <1>9, <1>10 DEF Next, Handle, Judge, vars,
     workVars

-----------------------------------------------------------------------------
(* Reports nobody downstream has heard of.                                 *)

\* The orphans are finitely many.
LEMMA OrphansAreFinite ==
  ASSUME TypeOK
  PROVE  IsFiniteSet(reports \ ingested)
<1>1. reports \ ingested \in SUBSET Submissions
  BY DEF TypeOK
<1> QED
  BY <1>1, CountedAreFinite, FS_Subset

\* The bound survives a step that makes no orphan and ends no emission.
LEMMA OrphansStay ==
  ASSUME TypeOK, TypeOK', OrphansExplained, faults' = faults,
         (reports \ ingested)' \subseteq reports \ ingested, Emitting \subseteq Emitting'
  PROVE  OrphansExplained'
<1>1. /\ Cardinality((reports \ ingested)') <= Cardinality(reports \ ingested)
      /\ Cardinality(reports \ ingested) \in Nat /\ Cardinality((reports \ ingested)') \in Nat
  BY OrphansAreFinite, Kept
<1>2. IsFiniteSet(Emitting')
  <2>1. Emitting' \in SUBSET Workers
    BY DEF Emitting
  <2> QED
    BY <2>1, IntakeAssumption, FS_Subset
<1>3. /\ Cardinality(Emitting) <= Cardinality(Emitting')
      /\ Cardinality(Emitting) \in Nat /\ Cardinality(Emitting') \in Nat
  BY <1>2, Kept
<1>4. faults \in Nat
  BY DEF TypeOK
<1> QED
  BY <1>1, <1>3, <1>4 DEF OrphansExplained

\* Every report row is on its way, or was left behind by a fault.
LEMMA NextOrphansExplained ==
  TypeOK /\ TypeOK' /\ InOrder /\ OrphansExplained /\ [Next]_vars => OrphansExplained'
<1> SUFFICES ASSUME TypeOK, TypeOK', InOrder, OrphansExplained, [Next]_vars PROVE OrphansExplained'
  OBVIOUS
<1> DEFINE Orphans == reports \ ingested
<1>1. ASSUME NEW w \in Workers, Receive(w) \/ Count(w) \/ Examine(w)
      PROVE  OrphansExplained'
  <2>1. Emitting \subseteq Emitting'
    BY <1>1 DEF Receive, Count, Examine, Goto, Emitting, TypeOK
  <2> QED
    BY <1>1, <2>1, OrphansStay DEF Receive, Count, Examine
<1>2. ASSUME NEW w \in Workers, PersistReport(w)
      PROVE  OrphansExplained'
  <2>1. Orphans' \in SUBSET (Orphans \cup {job[w]}) /\ faults' = faults
    BY <1>2 DEF PersistReport
  <2>2. /\ Cardinality(Orphans') <= Cardinality(Orphans) + 1
        /\ Cardinality(Orphans) \in Nat /\ Cardinality(Orphans') \in Nat
    BY <2>1, OrphansAreFinite, Grown
  <2>3. reason[w] = "none"
    BY <1>2 DEF PersistReport, InOrder, Progress
  <2>4. w \in Emitting' /\ Emitting \in SUBSET (Emitting' \ {w})
    BY <1>2, <2>3 DEF PersistReport, Goto, Emitting, TypeOK
  <2>5. IsFiniteSet(Emitting')
    <3>1. Emitting' \in SUBSET Workers
      BY DEF Emitting
    <3> QED
      BY <3>1, IntakeAssumption, FS_Subset
  <2>6. /\ Cardinality(Emitting) <= Cardinality(Emitting') - 1
        /\ Cardinality(Emitting) \in Nat /\ Cardinality(Emitting') \in Nat
    BY <2>4, <2>5, Shrunk
  <2> QED
    BY <2>1, <2>2, <2>6 DEF OrphansExplained, TypeOK
<1>3. ASSUME NEW w \in Workers, RecordAttempt(w) \/ Archive(w)
      PROVE  OrphansExplained'
  <2>1. Emitting \subseteq Emitting'
    BY <1>3 DEF RecordAttempt, Archive, Goto, Emitting, TypeOK
  <2> QED
    BY <1>3, <2>1, OrphansStay DEF RecordAttempt, Archive
<1>4. ASSUME NEW w \in Workers, Emit(w)
      PROVE  OrphansExplained'
  <2>1. CASE reason[w] # "none"
    <3>1. Emitting \subseteq Emitting'
      BY <1>4, <2>1 DEF Emit, Goto, Emitting, TypeOK
    <3> QED
      BY <1>4, <2>1, <3>1, OrphansStay DEF Emit
  <2>2. CASE reason[w] = "none"
    <3>1. job[w] \in Orphans
      BY <1>4, <2>2 DEF Emit, InOrder, Progress
    <3>2. Orphans' \in SUBSET (Orphans \ {job[w]}) /\ faults' = faults
      BY <1>4, <2>2 DEF Emit
    <3>3. /\ Cardinality(Orphans') <= Cardinality(Orphans) - 1
          /\ Cardinality(Orphans) \in Nat /\ Cardinality(Orphans') \in Nat
      BY <3>1, <3>2, OrphansAreFinite, Shrunk
    <3>4. Emitting \in SUBSET (Emitting' \cup {w})
      BY <1>4 DEF Emit, Goto, Emitting, TypeOK
    <3>5. IsFiniteSet(Emitting')
      <4>1. Emitting' \in SUBSET Workers
        BY DEF Emitting
      <4> QED
        BY <4>1, IntakeAssumption, FS_Subset
    <3>6. /\ Cardinality(Emitting) <= Cardinality(Emitting') + 1
          /\ Cardinality(Emitting) \in Nat /\ Cardinality(Emitting') \in Nat
      BY <3>4, <3>5, Grown
    <3> QED
      BY <3>2, <3>3, <3>6 DEF OrphansExplained, TypeOK
  <2> QED
    BY <2>1, <2>2
<1>5. ASSUME NEW w \in Workers, Answer(w)
      PROVE  OrphansExplained'
  <2>1. Emitting \subseteq Emitting'
    BY <1>5 DEF Answer, Release, Goto, Emitting, TypeOK
  <2> QED
    BY <1>5, <2>1, OrphansStay DEF Answer
<1>6. ASSUME NEW w \in Workers, Fail(w)
      PROVE  OrphansExplained'
  <2>1. Emitting \in SUBSET (Emitting' \cup {w}) /\ Orphans' = Orphans /\ faults' = faults + 1
    BY <1>6 DEF Fail, Release, Goto, Emitting, TypeOK
  <2>2. IsFiniteSet(Emitting')
    <3>1. Emitting' \in SUBSET Workers
      BY DEF Emitting
    <3> QED
      BY <3>1, IntakeAssumption, FS_Subset
  <2>3. /\ Cardinality(Emitting) <= Cardinality(Emitting') + 1
        /\ Cardinality(Emitting) \in Nat /\ Cardinality(Emitting') \in Nat
    BY <2>1, <2>2, Grown
  <2>4. Cardinality(Orphans) \in Nat
    BY OrphansAreFinite, CountedAreFinite
  <2>5. Cardinality(Orphans') = Cardinality(Orphans)
    BY <2>1
  <2>6. faults \in Nat /\ Cardinality(Orphans) <= Cardinality(Emitting) + faults
    BY DEF OrphansExplained, TypeOK
  <2>7. Cardinality(Orphans') <= Cardinality(Emitting') + faults'
    BY <2>1, <2>3, <2>4, <2>5, <2>6
  <2> QED
    BY <2>7 DEF OrphansExplained
<1>7. CASE UNCHANGED <<reports, ingested, pc, reason, faults>>
  <2>1. Emitting' = Emitting /\ Orphans' = Orphans
    BY <1>7 DEF Emitting
  <2> QED
    BY <1>7, <2>1 DEF OrphansExplained
<1> QED
  BY <1>1, <1>2, <1>3, <1>4, <1>5, <1>6, <1>7 DEF Next, Handle, Expire, Judge, vars, workVars

-----------------------------------------------------------------------------
(* The theorems.                                                           *)

\* The invariant holds at the start.
LEMMA InitIInv == Init => IInv
<1> SUFFICES ASSUME Init PROVE IInv
  OBVIOUS
<1>1. TypeOK
  BY InitTypeOK
<1>2. \A d \in Devices : Accepted(d) = {} /\ Admitted(d) = {}
  BY DEF Init, Accepted, Admitted
<1>3. Emitting = {} /\ reports \ ingested = {}
  BY DEF Init, Emitting
<1>4. Cardinality(Workers) \in Nat /\ Cardinality(Workers) # 0 /\ RateLimit \in Nat \ {0}
  BY IntakeAssumption, FS_CardinalityType, FS_EmptySet
<1>5. RoomKept
  BY <1>2, <1>4, FS_EmptySet DEF RoomKept
<1>6. OrphansExplained
  BY <1>3, FS_EmptySet DEF OrphansExplained, Init
<1>7. OneWorkerEach /\ NothingEarly /\ InOrder
  BY DEF Init, OneWorkerEach, NothingEarly, InOrder, Unrejected, NoSubmission
<1>8. TrailAgrees
  BY DEF Init, TrailAgrees, Reasons, Flaws
<1> QED
  BY <1>1, <1>5, <1>6, <1>7, <1>8 DEF IInv

\* Every step keeps it.
LEMMA NextIInv == IInv /\ [Next]_vars => IInv'
<1> SUFFICES ASSUME IInv, [Next]_vars PROVE IInv'
  OBVIOUS
<1>1. TypeOK'
  BY NextTypeOK DEF IInv
<1> QED
  BY <1>1, NextRoomKept, NextOneWorkerEach, NextNothingEarly, NextInOrder, NextTrailAgrees,
     NextOrphansExplained DEF IInv

\* The room the invariant keeps is the limit the property states.
LEMMA RoomIsLimit == TypeOK /\ RoomKept => RateHolds
<1> SUFFICES ASSUME TypeOK, RoomKept, NEW d \in Devices
             PROVE  Cardinality(Accepted(d)) <= RateLimit + Cardinality(Workers) - 1
  BY DEF RateHolds
<1>1. Cardinality(Accepted(d)) \in Nat /\ Cardinality(Admitted(d)) \in Nat
  BY CountedAreFinite
<1>2. Cardinality(Workers) \in Nat /\ RateLimit \in Nat
  BY IntakeAssumption, FS_CardinalityType
<1>3. Cardinality(Accepted(d)) + Cardinality(Admitted(d)) <= RateLimit + Cardinality(Workers) - 1
  BY DEF RoomKept
<1> QED
  BY <1>1, <1>2, <1>3

\* What holds of the gateway in every reachable state.
THEOREM IntakeInvariant == Spec => []IInv
BY InitIInv, NextIInv, PTL DEF Spec

\* Every variable of the gateway keeps its type.
THEOREM IntakeTypeCorrect == Spec => []TypeOK
<1>1. IInv => TypeOK
  BY DEF IInv
<1> QED
  BY <1>1, IntakeInvariant, PTL

\* Submissions side by side exceed a device's limit by the number of the other
\* workers at most (a0_intake:106-111, 327-352).
THEOREM RateLimitHolds == Spec => []RateHolds
<1>1. IInv => RateHolds
  BY RoomIsLimit DEF IInv
<1> QED
  BY <1>1, IntakeInvariant, PTL

\* A citizen's answer, the report row, the audit trail and the event agree,
\* wherever a request dies (api/main.py:263-264, a0_intake:180-190).
THEOREM AnswersAgree == Spec => []TrailAgrees
<1>1. IInv => TrailAgrees
  BY DEF IInv
<1> QED
  BY <1>1, IntakeInvariant, PTL

\* Only a request that died leaves a report row without an event
\* (a0_intake:180-182).
THEOREM OnlyFaultsOrphan == Spec => []OrphansExplained
<1>1. IInv => OrphansExplained
  BY DEF IInv
<1> QED
  BY <1>1, IntakeInvariant, PTL
=============================================================================
