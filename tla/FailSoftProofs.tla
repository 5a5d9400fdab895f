--------------------------- MODULE FailSoftProofs ---------------------------
(***************************************************************************)
(* Proofs about soft failures, for every set of causes and any number of   *)
(* outputs, deliveries and faults.                                         *)
(***************************************************************************)
EXTENDS FailSoft, SequenceTheorems, TLAPS

Queued == [cause : Causes, retryOf : Nat, cuts : Nat]
Produced == [cause : Causes, soft : BOOLEAN, seen : BOOLEAN, fate : Fates]

-----------------------------------------------------------------------------
(* Types. *)

\* Ending retries changes nothing about the outputs but their fates.
LEMMA FatedFacts ==
  ASSUME outputs \in Seq(Produced), NEW S, NEW f \in Fates
  PROVE  /\ Fated(S, f) \in Seq(Produced)
         /\ Len(Fated(S, f)) = Len(outputs) /\ DOMAIN Fated(S, f) = DOMAIN outputs
         /\ \A i \in DOMAIN outputs :
              /\ Fated(S, f)[i].cause = outputs[i].cause
              /\ Fated(S, f)[i].fate =
                   IF i \in S /\ outputs[i].fate = "owed" THEN f ELSE outputs[i].fate
<1> DEFINE F == Fated(S, f)
<1>1. DOMAIN outputs = 1 .. Len(outputs) /\ Len(outputs) \in Nat
  BY LenProperties
<1>2. \A i \in 1 .. Len(outputs) : outputs[i] \in Produced
  BY ElementOfSeq
<1>3. F = [i \in 1 .. Len(outputs) |->
             IF i \in S /\ outputs[i].fate = "owed" THEN [outputs[i] EXCEPT !.fate = f]
             ELSE outputs[i]]
  BY <1>1 DEF Fated
<1>4. \A i \in 1 .. Len(outputs) : /\ F[i] \in Produced
                                   /\ F[i].cause = outputs[i].cause
                                   /\ F[i].fate = IF i \in S /\ outputs[i].fate = "owed" THEN f
                                                  ELSE outputs[i].fate
  <2> SUFFICES ASSUME NEW i \in 1 .. Len(outputs)
               PROVE  /\ F[i] \in Produced
                      /\ F[i].cause = outputs[i].cause
                      /\ F[i].fate = IF i \in S /\ outputs[i].fate = "owed" THEN f
                                     ELSE outputs[i].fate
    OBVIOUS
  <2>1. outputs[i] \in Produced
    BY <1>2
  <2>2. F[i] = IF i \in S /\ outputs[i].fate = "owed" THEN [outputs[i] EXCEPT !.fate = f]
               ELSE outputs[i]
    BY <1>3
  <2> HIDE DEF F
  <2> QED
    BY <2>1, <2>2 DEF Produced
<1>5. DOMAIN F = 1 .. Len(outputs)
  BY <1>3
<1> HIDE DEF F
<1>6. F \in [1 .. Len(outputs) -> Produced]
  <2>1. F = [i \in 1 .. Len(outputs) |-> F[i]]
    BY <1>3 DEF F
  <2> QED
    BY <2>1, <1>4
<1>7. F \in Seq(Produced) /\ Len(F) = Len(outputs)
  BY <1>1, <1>5, <1>6, SeqDef, LenProperties
<1> QED
  BY <1>1, <1>4, <1>5, <1>7 DEF F

\* The head of a queue is one of its entries.
LEMMA HeadQueued ==
  ASSUME queue \in Seq(Queued), queue # <<>>
  PROVE  Head(queue) \in Queued /\ Head(queue) = queue[1] /\ 1 \in DOMAIN queue
         /\ Current \in Causes
<1>1. Head(queue) \in Queued
  BY HeadTailProperties
<1>2. Len(queue) \in Nat \ {0} /\ DOMAIN queue = 1 .. Len(queue)
  BY EmptySeq, LenProperties
<1>3. Head(queue) = queue[1]
  BY <1>2, SMT
<1> QED
  BY <1>1, <1>2, <1>3 DEF Current, Queued

\* The initial state is typed.
LEMMA InitTypeOK == Init => TypeOK
<1> SUFFICES ASSUME Init PROVE TypeOK
  OBVIOUS
<1>1. queue = <<>> /\ outputs = <<>>
  BY DEF Init
<1>2. queue \in Seq(Queued) /\ outputs \in Seq(Produced) /\ Len(outputs) = 0
  BY <1>1, EmptySeq
<1>3. faults \in 0 .. MaxFaults /\ next \in 1 .. Len(outputs) + 1
  BY <1>2, FailSoftAssumption DEF Init
<1> QED
  BY <1>2, <1>3 DEF Init, TypeOK, Queued, Produced

\* Every step of the producer keeps the types.
LEMMA ProducerTypeOK ==
  ASSUME TypeOK, Producer \/ (\E c \in Causes : Upstream(c))
                 \/ (\E n \in 1 .. Len(queue) : LoopError(n))
  PROVE  TypeOK'
<1>0. /\ queue \in Seq(Queued) /\ outputs \in Seq(Produced)
      /\ DOMAIN queue = 1 .. Len(queue) /\ Len(queue) \in Nat /\ Len(outputs) \in Nat
  BY LenProperties DEF TypeOK, Queued, Produced
<1>1. ASSUME NEW c \in Causes, Upstream(c)
      PROVE  TypeOK'
  <2>1. [cause |-> c, retryOf |-> 0, cuts |-> 0] \in Queued
    BY DEF Queued
  <2>2. queue' \in Seq(Queued) /\ queue' # <<>>
    BY <1>0, <1>1, <2>1, AppendProperties, EmptySeq DEF Upstream
  <2> QED
    BY <1>1, <2>2 DEF TypeOK, Upstream, sentinelVars, Queued
<1>2. CASE Take
  <2>1. outputs' \in Seq(Produced) /\ Len(outputs') = Len(outputs)
    <3>1. CASE outputs' = outputs
      BY <1>0, <3>1
    <3>2. CASE outputs' = Fated({Head(queue).retryOf}, "poisoned")
      BY <1>0, <3>2, FatedFacts DEF Fates
    <3> QED
      BY <1>2, <3>1, <3>2 DEF Take
  <2>2. pc' \in {"handle", "ack"} /\ queue' = queue /\ queue # <<>>
    BY <1>2 DEF Take
  <2> QED
    BY <1>0, <1>2, <2>1, <2>2 DEF TypeOK, Take, sentinelVars, Produced
<1>3. CASE Handle
  <2>1. outputs' \in Seq(Produced) /\ Len(outputs') = Len(outputs)
    BY <1>0, <1>3, FatedFacts DEF Handle, Fates
  <2> QED
    BY <1>0, <1>3, <2>1 DEF TypeOK, Handle, sentinelVars, Produced
<1>4. CASE Publish
  <2>1. PICK s \in BOOLEAN : outputs' = Append(outputs, [cause |-> Current, soft |-> s,
                                                       seen |-> FALSE, fate |-> "none"])
    BY <1>4 DEF Publish
  <2>2. Current \in Causes
    BY <1>0, <1>4, HeadQueued DEF TypeOK, Publish
  <2>3. [cause |-> Current, soft |-> s, seen |-> FALSE, fate |-> "none"] \in Produced
    BY <2>2 DEF Produced, Fates
  <2>4. outputs' \in Seq(Produced) /\ Len(outputs') = Len(outputs) + 1
    BY <1>0, <2>1, <2>3, AppendProperties
  <2> QED
    BY <1>0, <1>4, <2>4 DEF TypeOK, Publish, sentinelVars, Produced
<1>5. CASE Remember
  <2>1. Current \in Causes
    BY <1>0, <1>5, HeadQueued DEF TypeOK, Remember
  <2> QED
    BY <1>5, <2>1 DEF TypeOK, Remember, sentinelVars
<1>6. CASE Ack
  <2>1. queue' \in Seq(Queued)
    BY <1>0, <1>6, HeadTailProperties DEF TypeOK, Ack
  <2> QED
    BY <1>6, <2>1 DEF TypeOK, Ack, sentinelVars, Queued
<1>7. ASSUME NEW n \in 1 .. Len(queue), LoopError(n)
      PROVE  TypeOK'
  <2>1. \A i \in 1 .. Len(queue) : queue'[i] \in Queued
    <3> SUFFICES ASSUME NEW i \in 1 .. Len(queue) PROVE queue'[i] \in Queued
      OBVIOUS
    <3>1. queue[i] \in Queued
      BY <1>0, ElementOfSeq
    <3>2. queue'[i] = IF i <= n THEN [queue[i] EXCEPT !.cuts = queue[i].cuts + 1] ELSE queue[i]
      BY <1>0, <1>7 DEF LoopError
    <3> QED
      BY <3>1, <3>2 DEF Queued
  <2>2. queue' \in [1 .. Len(queue) -> Queued]
    BY <1>0, <1>7, <2>1 DEF LoopError
  <2>3. queue' \in Seq(Queued)
    BY <1>0, <2>2, SeqDef
  <2>4. faults' \in 0 .. MaxFaults
    BY <1>7, FailSoftAssumption DEF TypeOK, LoopError
  <2> QED
    BY <1>7, <2>3, <2>4 DEF TypeOK, LoopError, sentinelVars, Queued
<1> QED
  BY <1>1, <1>2, <1>3, <1>4, <1>5, <1>6, <1>7 DEF Producer

\* Every step of Sentinel keeps them too.
LEMMA SentinelTypeOK ==
  ASSUME TypeOK, Sentinel \/ SentinelDies
  PROVE  TypeOK'
<1>0. /\ queue \in Seq(Queued) /\ outputs \in Seq(Produced)
      /\ DOMAIN outputs = 1 .. Len(outputs) /\ Len(outputs) \in Nat
  BY LenProperties DEF TypeOK, Queued, Produced
<1>01. ASSUME NEW i \in 1 .. Len(outputs) PROVE outputs[i] \in Produced
  BY <1>0, <1>01, ElementOfSeq
<1>1. CASE Verify
  <2>1. next \in 1 .. Len(outputs)
    BY <1>0, <1>1 DEF TypeOK, Verify
  <2>2. outputs[next] \in Produced
    BY <2>1, <1>01
  <2>3. [outputs[next] EXCEPT !.seen = TRUE] \in Produced
    BY <2>2 DEF Produced
  <2>4. outputs' = [outputs EXCEPT ![next] = [outputs[next] EXCEPT !.seen = TRUE]]
    BY <1>1 DEF Verify
  <2>5. outputs' \in Seq(Produced) /\ Len(outputs') = Len(outputs)
    BY <1>0, <2>1, <2>3, <2>4, ExceptSeq
  <2>6. inserted' \in BOOLEAN /\ at' \in {"retry", "ack"}
    BY <1>1, <2>2 DEF Verify, Produced
  <2> QED
    BY <1>0, <1>1, <2>1, <2>5, <2>6 DEF TypeOK, Verify, Produced
<1>2. CASE Retry
  <2>1. next \in 1 .. Len(outputs)
    BY <1>0, <1>2 DEF TypeOK, Retry
  <2>2. outputs[next] \in Produced
    BY <2>1, <1>01
  <2>3. outputs' \in Seq(Produced) /\ Len(outputs') = Len(outputs)
    <3>1. CASE outputs' = outputs
      BY <1>0, <3>1
    <3>2. ASSUME NEW f \in Fates, outputs' = [outputs EXCEPT ![next].fate = f]
          PROVE  outputs' \in Seq(Produced) /\ Len(outputs') = Len(outputs)
      <4>1. [outputs[next] EXCEPT !.fate = f] \in Produced
        BY <2>2 DEF Produced
      <4>2. outputs' = [outputs EXCEPT ![next] = [outputs[next] EXCEPT !.fate = f]]
        BY <3>2
      <4> QED
        BY <1>0, <2>1, <4>1, <4>2, ExceptSeq
    <3>3. outputs' = outputs \/ \E f \in Fates : outputs' = [outputs EXCEPT ![next].fate = f]
      BY <1>2 DEF Retry, Fates
    <3> QED
      BY <3>1, <3>2, <3>3
  <2>4. known' \subseteq Causes /\ at' \in {"hold", "replay"}
    BY <1>2 DEF TypeOK, Retry
  <2> QED
    BY <1>0, <1>2, <2>1, <2>3, <2>4 DEF TypeOK, Retry, Produced
<1>3. CASE Replay
  <2>1. next \in 1 .. Len(outputs)
    BY <1>0, <1>3 DEF TypeOK, Replay
  <2>2. outputs[next].cause \in Causes
    BY <2>1, <1>01 DEF Produced
  <2>3. [cause |-> outputs[next].cause, retryOf |-> next, cuts |-> 0] \in Queued
    BY <2>1, <2>2 DEF Queued
  <2>4. queue' \in Seq(Queued) /\ queue' # <<>>
    BY <1>0, <1>3, <2>3, AppendProperties, EmptySeq DEF Replay
  <2> QED
    BY <1>0, <1>3, <2>1, <2>4 DEF TypeOK, Replay, Queued
<1>4. CASE Hold
  BY <1>4 DEF TypeOK, Hold
<1>5. CASE SentinelAck
  <2>1. next' \in 1 .. Len(outputs) + 1
    BY <1>0, <1>5 DEF TypeOK, SentinelAck
  <2> QED
    BY <1>5, <2>1 DEF TypeOK, SentinelAck
<1>6. CASE SentinelDies
  <2>1. outputs' \in Seq(Produced) /\ Len(outputs') = Len(outputs)
    BY <1>0, <1>6, FatedFacts DEF SentinelDies, Fates
  <2>2. faults' \in 0 .. MaxFaults
    <3>1. faults \in 0 .. MaxFaults /\ faults < MaxFaults /\ faults' = faults + 1
      BY <1>6 DEF TypeOK, SentinelDies
    <3> QED
      BY <3>1, FailSoftAssumption
  <2> QED
    BY <1>6, <2>1, <2>2 DEF TypeOK, SentinelDies, Produced
<1> QED
  BY <1>1, <1>2, <1>3, <1>4, <1>5, <1>6 DEF Sentinel

\* Every step keeps the types.
LEMMA NextTypeOK == TypeOK /\ [Next]_vars => TypeOK'
<1>1. TypeOK /\ UNCHANGED vars => TypeOK'
  BY DEF TypeOK, vars
<1> QED
  BY <1>1, ProducerTypeOK, SentinelTypeOK DEF Next

\* Producer and Sentinel keep their queues and records in order: Sentinel is at
\* an output there is, and the producer works on an entry there is.
THEOREM TypeCorrect == Spec => []TypeOK
BY InitTypeOK, NextTypeOK, PTL DEF Spec

-----------------------------------------------------------------------------
(* Owed retries. *)

\* What OwedIsOpen says of one output.
LEMMA StillOwed ==
  ASSUME TypeOK, OwedIsOpen, NEW i \in DOMAIN outputs, outputs[i].fate = "owed"
  PROVE  /\ outputs[i].cause \notin known
         /\ pc \in {"publish", "remember"} => Current # outputs[i].cause
         /\ Coming(i)
BY DEF OwedIsOpen, Unrecorded

\* Every step of the producer, and of upstream, keeps what is owed open.
LEMMA ProducerKeepsOpen ==
  ASSUME TypeOK, OwedIsOpen, Producer \/ (\E c \in Causes : Upstream(c))
                             \/ (\E n \in 1 .. Len(queue) : LoopError(n)),
         NEW i \in DOMAIN outputs', outputs'[i].fate = "owed"
  PROVE  /\ outputs'[i].cause \notin known'
         /\ pc' \in {"publish", "remember"} => Current' # outputs'[i].cause
         /\ Coming(i)'
<1>0. /\ queue \in Seq(Queued) /\ outputs \in Seq(Produced)
      /\ DOMAIN queue = 1 .. Len(queue) /\ Len(queue) \in Nat
      /\ DOMAIN outputs = 1 .. Len(outputs) /\ Len(outputs) \in Nat
  BY LenProperties DEF TypeOK, Queued, Produced
<1>1. CASE Take
  <2>1. /\ queue # <<>> /\ queue' = queue /\ known' = known /\ pc = "idle"
        /\ pc' \in {"handle", "ack"} /\ UNCHANGED <<next, at>>
    BY <1>1 DEF Take, sentinelVars
  <2>2. /\ i \in DOMAIN outputs /\ outputs[i].fate = "owed" /\ outputs'[i].cause = outputs[i].cause
        /\ IsPoison(Head(queue)) => Head(queue).retryOf # i
    <3>1. CASE IsPoison(Head(queue))
      <4> DEFINE S == {Head(queue).retryOf}
      <4>1. outputs' = Fated(S, "poisoned")
        BY <1>1, <3>1 DEF Take
      <4>2. i \in S <=> Head(queue).retryOf = i
        BY Zenon
      <4> HIDE DEF S
      <4>3. i \in DOMAIN outputs
        BY <1>0, <4>1, FatedFacts DEF Fates
      <4>4. /\ outputs'[i].cause = outputs[i].cause
            /\ outputs'[i].fate = IF i \in S /\ outputs[i].fate = "owed" THEN "poisoned"
                                  ELSE outputs[i].fate
        BY <1>0, <4>1, <4>3, FatedFacts DEF Fates
      <4> QED
        BY <4>2, <4>3, <4>4
    <3>2. CASE ~IsPoison(Head(queue))
      BY <1>1, <3>2 DEF Take
    <3> QED
      BY <3>1, <3>2
  <2>3. outputs[i].cause \notin known /\ Coming(i)
    BY <2>2, StillOwed
  <2>4. Head(queue) = queue[1]
    BY <1>0, <2>1, HeadQueued
  <2>5. Coming(i)'
    <3>1. CASE at = "replay" /\ next = i
      BY <2>1, <3>1 DEF Coming
    <3>2. ASSUME NEW k \in DOMAIN queue, queue[k].retryOf = i,
                 queue[k].cause = outputs[i].cause
          PROVE  Coming(i)'
      <4>1. k = 1 => pc' = "handle"
        <5> SUFFICES ASSUME k = 1 PROVE pc' = "handle"
          OBVIOUS
        <5>1. ~IsPoison(Head(queue)) /\ Current \notin known
          BY <2>2, <2>3, <2>4, <3>2 DEF Current
        <5> QED
          BY <1>1, <5>1 DEF Take
      <4> QED
        BY <2>1, <2>2, <3>2, <4>1 DEF Coming
    <3> QED
      BY <2>3, <3>1, <3>2 DEF Coming
  <2> QED
    BY <2>1, <2>2, <2>3, <2>5
<1>2. CASE Handle
  <2>1. /\ queue' = queue /\ known' = known /\ pc = "handle" /\ pc' \in {"publish", "ack"}
        /\ queue # <<>> /\ UNCHANGED <<next, at>>
    BY <1>2 DEF Handle, sentinelVars, TypeOK
  <2>2. /\ i \in DOMAIN outputs /\ outputs[i].fate = "owed" /\ outputs'[i].cause = outputs[i].cause
        /\ outputs[i].cause # Current
    <3> DEFINE S == {j \in DOMAIN outputs : outputs[j].cause = Current}
    <3>1. outputs' = Fated(S, "heeded")
      BY <1>2 DEF Handle
    <3>2. i \in S <=> i \in DOMAIN outputs /\ outputs[i].cause = Current
      BY Zenon
    <3> HIDE DEF S
    <3>3. i \in DOMAIN outputs
      BY <1>0, <3>1, FatedFacts DEF Fates
    <3>4. /\ outputs'[i].cause = outputs[i].cause
          /\ outputs'[i].fate = IF i \in S /\ outputs[i].fate = "owed" THEN "heeded"
                                ELSE outputs[i].fate
      BY <1>0, <3>1, <3>3, FatedFacts DEF Fates
    <3> QED
      BY <3>2, <3>3, <3>4
  <2>3. outputs[i].cause \notin known /\ Coming(i)
    BY <2>2, StillOwed
  <2>4. Head(queue) = queue[1]
    BY <1>0, <2>1, HeadQueued
  <2>5. Coming(i)'
    BY <2>1, <2>2, <2>3, <2>4 DEF Coming, Current
  <2> QED
    BY <2>1, <2>2, <2>3, <2>5 DEF Current
<1>3. CASE Publish
  <2>1. /\ queue' = queue /\ known' = known /\ pc = "publish" /\ pc' = "remember"
        /\ UNCHANGED <<next, at>>
    BY <1>3 DEF Publish, sentinelVars
  <2>2. i \in DOMAIN outputs /\ outputs'[i] = outputs[i]
    <3>1. PICK s \in BOOLEAN : outputs' = Append(outputs, [cause |-> Current, soft |-> s,
                                                         seen |-> FALSE, fate |-> "none"])
      BY <1>3 DEF Publish
    <3> DEFINE o == [cause |-> Current, soft |-> s, seen |-> FALSE, fate |-> "none"]
    <3>2. o \in Produced /\ o.fate = "none"
      BY <1>0, <1>3, HeadQueued DEF TypeOK, Publish, Produced, Fates
    <3> HIDE DEF o
    <3>3. outputs' = Append(outputs, o)
      BY <3>1 DEF o
    <3>4. /\ Len(outputs') = Len(outputs) + 1 /\ DOMAIN outputs' = 1 .. Len(outputs')
          /\ \A j \in 1 .. Len(outputs) : outputs'[j] = outputs[j]
          /\ outputs'[Len(outputs) + 1] = o
      BY <1>0, <3>2, <3>3, AppendProperties, LenProperties
    <3> QED
      BY <1>0, <3>2, <3>4
  <2>3. /\ outputs[i].cause \notin known /\ Current # outputs[i].cause /\ Coming(i)
    BY <2>1, <2>2, StillOwed
  <2> QED
    BY <2>1, <2>2, <2>3 DEF Coming, Current
<1>4. CASE Remember
  <2>1. /\ queue' = queue /\ known' = known \cup {Current} /\ pc = "remember" /\ pc' = "ack"
        /\ UNCHANGED <<next, at, outputs>>
    BY <1>4 DEF Remember, sentinelVars
  <2>2. /\ outputs[i].cause \notin known /\ Current # outputs[i].cause /\ Coming(i)
    BY <2>1, StillOwed
  <2> QED
    BY <2>1, <2>2 DEF Coming
<1>5. CASE Ack
  <2>1. /\ queue' = Tail(queue) /\ known' = known /\ pc = "ack" /\ pc' = "idle"
        /\ queue # <<>> /\ UNCHANGED <<next, at, outputs>>
    BY <1>5 DEF Ack, sentinelVars, TypeOK
  <2>2. outputs[i].cause \notin known /\ Coming(i)
    BY <2>1, StillOwed
  <2>3. /\ DOMAIN queue' = 1 .. Len(queue) - 1
        /\ \A k \in 2 .. Len(queue) : queue'[k - 1] = queue[k]
    <3>1. Tail(queue) \in Seq(Queued) /\ Len(Tail(queue)) = Len(queue) - 1
      BY <1>0, <2>1, HeadTailProperties
    <3>2. DOMAIN queue' = 1 .. Len(queue) - 1
      BY <2>1, <3>1, LenProperties
    <3>3. \A k \in 1 .. Len(queue) - 1 : Tail(queue)[k] = queue[k + 1]
      BY <1>0, <2>1, HeadTailProperties
    <3> QED
      BY <1>0, <2>1, <3>2, <3>3
  <2>4. Coming(i)'
    <3>1. CASE at = "replay" /\ next = i
      BY <2>1, <3>1 DEF Coming
    <3>2. ASSUME NEW k \in DOMAIN queue, queue[k].retryOf = i,
                 queue[k].cause = outputs[i].cause, k # 1
          PROVE  Coming(i)'
      <4>1. k - 1 \in DOMAIN queue' /\ queue'[k - 1] = queue[k]
        BY <1>0, <2>3, <3>2
      <4> QED
        BY <2>1, <3>2, <4>1 DEF Coming
    <3> QED
      BY <2>1, <2>2, <3>1, <3>2 DEF Coming
  <2> QED
    BY <2>1, <2>2, <2>4
<1>6. ASSUME NEW n \in 1 .. Len(queue), LoopError(n)
      PROVE  /\ outputs'[i].cause \notin known'
             /\ pc' \in {"publish", "remember"} => Current' # outputs'[i].cause
             /\ Coming(i)'
  <2>1. /\ known' = known /\ pc' = "idle" /\ UNCHANGED <<next, at, outputs>>
        /\ DOMAIN queue' = DOMAIN queue
    BY <1>6 DEF LoopError, sentinelVars
  <2>2. outputs[i].cause \notin known /\ Coming(i)
    BY <2>1, StillOwed
  <2>3. ASSUME NEW k \in DOMAIN queue
        PROVE  queue'[k].retryOf = queue[k].retryOf /\ queue'[k].cause = queue[k].cause
    <3>1. queue[k] \in Queued
      BY <1>0, <2>3, ElementOfSeq
    <3>2. queue'[k] = IF k <= n THEN [queue[k] EXCEPT !.cuts = queue[k].cuts + 1] ELSE queue[k]
      BY <1>6, <2>3 DEF LoopError
    <3> QED
      BY <3>1, <3>2 DEF Queued
  <2> QED
    BY <2>1, <2>2, <2>3 DEF Coming
<1>7. ASSUME NEW c \in Causes, Upstream(c)
      PROVE  /\ outputs'[i].cause \notin known'
             /\ pc' \in {"publish", "remember"} => Current' # outputs'[i].cause
             /\ Coming(i)'
  <2> DEFINE entry == [cause |-> c, retryOf |-> 0, cuts |-> 0]
  <2>1. /\ queue' = Append(queue, entry) /\ UNCHANGED <<known, pc, outputs, next, at>>
    BY <1>7 DEF Upstream, sentinelVars
  <2>2. entry \in Queued
    BY DEF Queued
  <2> HIDE DEF entry
  <2>3. /\ \A k \in DOMAIN queue : k \in DOMAIN queue' /\ queue'[k] = queue[k]
        /\ queue # <<>> => Current' = Current
    <3>1. /\ queue' \in Seq(Queued) /\ Len(queue') = Len(queue) + 1
          /\ \A k \in 1 .. Len(queue) : queue'[k] = queue[k]
      BY <1>0, <2>1, <2>2, AppendProperties
    <3>2. queue # <<>> => Head(queue') = Head(queue)
      BY <1>0, <2>1, HeadTailAppend
    <3> QED
      BY <1>0, <3>1, <3>2, LenProperties DEF Current
  <2>4. /\ outputs[i].cause \notin known /\ Coming(i)
        /\ pc \in {"publish", "remember"} => Current # outputs[i].cause
    BY <2>1, StillOwed
  <2>5. pc \in {"publish", "remember"} => queue # <<>>
    BY DEF TypeOK
  <2> QED
    BY <2>1, <2>3, <2>4, <2>5 DEF Coming
<1> QED
  BY <1>1, <1>2, <1>3, <1>4, <1>5, <1>6, <1>7 DEF Producer

\* Every step of Sentinel keeps what is owed open, what it owes anew included.
LEMMA SentinelKeepsOpen ==
  ASSUME TypeOK, OwedIsOpen, Sentinel \/ SentinelDies,
         NEW i \in DOMAIN outputs', outputs'[i].fate = "owed"
  PROVE  /\ outputs'[i].cause \notin known'
         /\ pc' \in {"publish", "remember"} => Current' # outputs'[i].cause
         /\ Coming(i)'
<1>0. /\ queue \in Seq(Queued) /\ outputs \in Seq(Produced)
      /\ DOMAIN queue = 1 .. Len(queue) /\ Len(queue) \in Nat
      /\ DOMAIN outputs = 1 .. Len(outputs) /\ Len(outputs) \in Nat
  BY LenProperties DEF TypeOK, Queued, Produced
<1>01. ASSUME NEW j \in DOMAIN outputs PROVE outputs[j] \in Produced
  BY <1>0, <1>01, ElementOfSeq
\* Steps that leave the queue and the producer alone, for what was owed before.
<1>02. ASSUME i \in DOMAIN outputs, outputs[i].fate = "owed", outputs'[i].cause = outputs[i].cause,
              UNCHANGED <<queue, pc>>, known' \subseteq known, at = "replay" => next # i
       PROVE  /\ outputs'[i].cause \notin known'
              /\ pc' \in {"publish", "remember"} => Current' # outputs'[i].cause
              /\ Coming(i)'
  <2>1. /\ outputs[i].cause \notin known /\ Coming(i)
        /\ pc \in {"publish", "remember"} => Current # outputs[i].cause
    BY <1>02, StillOwed
  <2> QED
    BY <1>02, <2>1 DEF Coming, Current
<1>1. CASE Verify
  <2>1. UNCHANGED <<queue, pc, known>> /\ at = "idle" /\ next \in DOMAIN outputs
    BY <1>0, <1>1 DEF TypeOK, Verify
  <2>2. outputs' = [outputs EXCEPT ![next] = [outputs[next] EXCEPT !.seen = TRUE]]
    BY <1>1 DEF Verify
  <2>3. i \in DOMAIN outputs /\ outputs[i] \in Produced
    BY <2>2, <1>01
  <2>4. outputs'[i].fate = outputs[i].fate /\ outputs'[i].cause = outputs[i].cause
    BY <2>2, <2>3 DEF Produced
  <2> QED
    BY <1>02, <2>1, <2>3, <2>4
<1>2. CASE Retry
  <2>1. UNCHANGED <<queue, pc>> /\ at = "retry" /\ next \in DOMAIN outputs
    BY <1>0, <1>2 DEF TypeOK, Retry
  <2>2. CASE UNCHANGED <<known, outputs>>
    BY <1>02, <2>1, <2>2
  <2>3. CASE /\ at' = "replay" /\ next' = next
             /\ known' = known \ {outputs[next].cause}
             /\ outputs' = [outputs EXCEPT ![next].fate =
                              IF Unrecorded(outputs[next].cause) THEN "overtaken" ELSE "owed"]
    <3>1. i \in DOMAIN outputs /\ outputs[i] \in Produced /\ outputs'[i].cause = outputs[i].cause
      <4>1. i \in DOMAIN outputs
        BY <2>3
      <4>2. outputs[i] \in Produced /\ outputs[next] \in Produced
        BY <4>1, <2>1, <1>01
      <4> QED
        BY <2>1, <2>3, <4>1, <4>2 DEF Produced
    <3>2. CASE i = next
      <4>1. outputs'[i].fate =
              IF Unrecorded(outputs[next].cause) THEN "overtaken" ELSE "owed"
        BY <2>1, <2>3, <3>1, <3>2 DEF Produced
      <4>2. ~Unrecorded(outputs[i].cause)
        BY <3>2, <4>1
      <4> QED
        BY <2>1, <2>3, <3>1, <3>2, <4>2 DEF Unrecorded, Current, Coming
    <3>3. CASE i # next
      <4>1. outputs'[i] = outputs[i]
        BY <2>3, <3>1, <3>3
      <4> QED
        BY <1>02, <2>1, <2>3, <3>1, <4>1
    <3> QED
      BY <3>2, <3>3
  <2> QED
    BY <1>2, <2>2, <2>3 DEF Retry
<1>3. CASE Replay
  <2> DEFINE entry == [cause |-> outputs[next].cause, retryOf |-> next, cuts |-> 0]
  <2>1. /\ at = "replay" /\ next \in DOMAIN outputs /\ queue' = Append(queue, entry)
        /\ UNCHANGED <<known, pc, outputs, next>>
    BY <1>0, <1>3 DEF TypeOK, Replay
  <2>2. /\ outputs[i].cause \notin known /\ Coming(i)
        /\ pc \in {"publish", "remember"} => Current # outputs[i].cause
    BY <2>1, StillOwed
  <2>3. entry \in Queued /\ entry.retryOf = next /\ entry.cause = outputs[next].cause
    BY <1>0, <1>01, <2>1 DEF Queued, Produced
  <2> HIDE DEF entry
  <2>4. /\ queue' \in Seq(Queued) /\ Len(queue') = Len(queue) + 1
        /\ \A k \in 1 .. Len(queue) : queue'[k] = queue[k]
        /\ queue'[Len(queue) + 1] = entry
        /\ queue # <<>> => Head(queue') = Head(queue)
    BY <1>0, <2>1, <2>3, AppendProperties, HeadTailAppend
  <2>5. DOMAIN queue' = 1 .. Len(queue) + 1
    BY <2>4, LenProperties
  <2>6. pc # "idle" => queue # <<>>
    BY DEF TypeOK
  <2>7. Coming(i)'
    <3>1. CASE next = i
      <4>1. Len(queue) + 1 \in DOMAIN queue'
        BY <1>0, <2>5
      <4>2. Len(queue) + 1 = 1 => pc' = "idle"
        BY <1>0, <2>1, <2>6, EmptySeq
      <4> QED
        BY <2>1, <2>3, <2>4, <3>1, <4>1, <4>2 DEF Coming
    <3>2. CASE next # i
      BY <1>0, <2>1, <2>2, <2>4, <2>5, <3>2 DEF Coming
    <3> QED
      BY <3>1, <3>2
  <2> QED
    BY <2>1, <2>2, <2>4, <2>6, <2>7 DEF Current
<1>4. CASE Hold
  BY <1>02, <1>4 DEF Hold
<1>5. CASE SentinelAck
  BY <1>02, <1>5 DEF SentinelAck
<1>6. CASE SentinelDies
  <2>1. UNCHANGED <<queue, pc, known>>
    BY <1>6 DEF SentinelDies
  <2>2. CASE at # "replay"
    <3>1. outputs' = outputs
      BY <1>6, <2>2 DEF SentinelDies
    <3> QED
      BY <1>02, <2>1, <2>2, <3>1
  <2>3. CASE at = "replay"
    <3> DEFINE S == {next}
    <3>1. outputs' = Fated(S, "cut short")
      BY <1>6, <2>3 DEF SentinelDies
    <3>2. i \in S <=> next = i
      BY Zenon
    <3> HIDE DEF S
    <3>3. i \in DOMAIN outputs
      BY <1>0, <3>1, FatedFacts DEF Fates
    <3>4. /\ outputs'[i].cause = outputs[i].cause
          /\ outputs'[i].fate = IF i \in S /\ outputs[i].fate = "owed" THEN "cut short"
                                ELSE outputs[i].fate
      BY <1>0, <3>1, <3>3, FatedFacts DEF Fates
    <3> QED
      BY <1>02, <2>1, <3>2, <3>3, <3>4
  <2> QED
    BY <2>2, <2>3
<1> QED
  BY <1>1, <1>2, <1>3, <1>4, <1>5, <1>6 DEF Sentinel

\* A retry the producer owes is never buried but by the three accidents: the
\* record Sentinel deletes stays deleted until the producer handles the cause, and
\* the replay stays in its queue (agent.py 352-410, base.py 205-263).
THEOREM RetriesStayOpen == Spec => []OwedIsOpen
<1>1. Init => OwedIsOpen
  <2> SUFFICES ASSUME Init PROVE OwedIsOpen
    OBVIOUS
  <2>1. outputs = <<>>
    BY DEF Init
  <2>2. DOMAIN outputs = {}
    BY <2>1, EmptySeq
  <2> QED
    BY <2>2 DEF OwedIsOpen
<1>2. TypeOK /\ OwedIsOpen /\ [Next]_vars => OwedIsOpen'
  <2> SUFFICES ASSUME TypeOK, OwedIsOpen, [Next]_vars PROVE OwedIsOpen'
    OBVIOUS
  <2>1. CASE UNCHANGED vars
    BY <2>1 DEF vars, sentinelVars, OwedIsOpen, Unrecorded, Current, Coming
  <2>2. CASE Next
    <3>1. \A i \in DOMAIN outputs' : outputs'[i].fate = "owed" =>
            /\ outputs'[i].cause \notin known'
            /\ pc' \in {"publish", "remember"} => Current' # outputs'[i].cause
            /\ Coming(i)'
      BY <2>2, ProducerKeepsOpen, SentinelKeepsOpen DEF Next
    <3> QED
      BY <3>1 DEF OwedIsOpen, Unrecorded
  <2> QED
    BY <2>1, <2>2
<1> QED
  BY <1>1, <1>2, TypeCorrect, PTL DEF Spec
=============================================================================
