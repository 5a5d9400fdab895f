------------------------- MODULE AgentRuntimeProofs -------------------------
(***************************************************************************)
(* Proofs about the agent runtime, for every number of consumers, entries, *)
(* keys, deliveries, attempts and faults.                                  *)
(***************************************************************************)
EXTENDS AgentRuntime, FiniteSetTheorems, TLAPS

-----------------------------------------------------------------------------
(* Claiming.                                                               *)

\* A drain takes only what is pending on the draining consumer.
LEMMA DrainedIsOwn ==
  ASSUME NEW c \in Consumers
  PROVE  Drained(c) \subseteq OwnPending(c)
BY DEF Drained, Lowest

\* Subscribing moves the cursor forward, and not past the tail.
LEMMA NewCursorInStream ==
  ASSUME TypeOK, NEW c \in Consumers
  PROVE  NewCursor(c) \in cursor..tail
<1>1. IsFiniteSet(Entries)
  BY RuntimeAssumption, FS_Interval DEF Entries
<1>2. IsFiniteSet(Drained(c))
  BY <1>1, DrainedIsOwn, FS_Subset DEF OwnPending
<1>3. Cardinality(Drained(c)) \in Nat
  BY <1>2, FS_CardinalityType
<1>4. cursor \in Int /\ tail \in Int /\ cursor <= tail /\ BatchSize \in Nat
  BY RuntimeAssumption DEF TypeOK
<1> QED
  BY <1>3, <1>4 DEF NewCursor

-----------------------------------------------------------------------------
(* Types.                                                                  *)

\* The initial state is typed.
LEMMA InitTypeOK == Init => TypeOK
BY RuntimeAssumption DEF Init, TypeOK, Kinds, Verdicts, Labels

\* Every step keeps the types; EndRun needs the run it closes to be open.
LEMMA NextTypeOK ==
  TypeOK /\ RunIsOpen /\ [Next]_vars => TypeOK'
<1> SUFFICES ASSUME TypeOK, RunIsOpen, [Next]_vars PROVE TypeOK'
  OBVIOUS
<1> USE RuntimeAssumption DEF Kinds, Verdicts, Labels
<1>1. CASE Publish
  BY <1>1 DEF TypeOK, Publish, config, dbVars, procVars
<1>2. ASSUME NEW e \in Entries, NEW v \in {"pass", "fail"}, SentinelDecides(e, v)
      PROVE  TypeOK'
  BY <1>2 DEF TypeOK, SentinelDecides, config, busVars, procVars
<1>3. ASSUME NEW c \in Consumers, Subscribe(c)
      PROVE  TypeOK'
  <2>1. cursor' \in 0..tail
    BY <1>3, NewCursorInStream DEF TypeOK, Subscribe
  <2>2. batch' \in [Consumers -> SUBSET Entries]
    BY <1>3, DrainedIsOwn DEF TypeOK, Subscribe, Fresh, OwnPending
  <2>3. count' \in [Entries -> Nat] /\ owner' \in [Entries -> Consumers \cup {NoConsumer}]
    BY <1>3 DEF TypeOK, Subscribe
  <2>4. poison' \in [Consumers -> SUBSET Entries]
    <3>1. ReportedPoison(c) \subseteq Entries
      BY DrainedIsOwn DEF ReportedPoison, Fresh, OwnPending
    <3> QED
      BY <1>3, <3>1 DEF TypeOK, Subscribe
  <2> QED
    BY <1>3, <2>1, <2>2, <2>3, <2>4 DEF TypeOK, Subscribe, config, dbVars
<1>4. ASSUME NEW c \in Consumers, NEW e \in Entries, Triage(c, e)
      PROVE  TypeOK'
  BY <1>4 DEF TypeOK, Triage, At, Goto, config, busVars, dbVars
<1>5. ASSUME NEW c \in Consumers, NEW e \in Entries, Gate(c, e)
      PROVE  TypeOK'
  <2>1. CASE Goto(c, "start") /\ UNCHANGED <<batch, poison>>
    BY <1>5, <2>1 DEF TypeOK, Gate, Goto, config, busVars, dbVars
  <2>2. CASE Goto(c, "ack") /\ UNCHANGED <<batch, poison>>
    BY <1>5, <2>2 DEF TypeOK, Gate, Goto, config, busVars, dbVars
  <2>3. CASE Finish(c, e)
    BY <1>5, <2>3 DEF TypeOK, Gate, Finish, Goto, config, busVars, dbVars
  <2> QED
    BY <1>5, <2>1, <2>2, <2>3 DEF Gate
<1>6. ASSUME NEW c \in Consumers, NEW e \in Entries, StartRun(c, e)
      PROVE  TypeOK'
  BY <1>6 DEF TypeOK, StartRun, At, Goto, config, busVars
<1>7. ASSUME NEW c \in Consumers, NEW e \in Entries, Handle(c, e)
      PROVE  TypeOK'
  <2>1. pc' \in [Consumers -> Labels] /\ kind' \in [Consumers -> Kinds]
    BY <1>7 DEF TypeOK, Handle, Goto
  <2>2. attempt' \in [Consumers -> 1..MaxAttempts]
    <3>1. \/ UNCHANGED attempt
          \/ attempt[c] < MaxAttempts /\ attempt' = [attempt EXCEPT ![c] = attempt[c] + 1]
      BY <1>7 DEF Handle
    <3>2. attempt \in [Consumers -> 1..MaxAttempts]
      BY DEF TypeOK
    <3> QED
      BY <3>1, <3>2
  <2>3. calls' \in [Entries -> Nat]
    <3>1. calls' = [calls EXCEPT ![e] = calls[e] + 1]
      BY <1>7 DEF Handle
    <3> QED
      BY <3>1 DEF TypeOK
  <2> QED
    BY <1>7, <2>1, <2>2, <2>3 DEF TypeOK, Handle, config, busVars, dbVars
<1>8. ASSUME NEW c \in Consumers, NEW e \in Entries, Archive(c, e)
      PROVE  TypeOK'
  BY <1>8 DEF TypeOK, Archive, At, Goto, config, busVars
<1>9. ASSUME NEW c \in Consumers, NEW e \in Entries, Emit(c, e)
      PROVE  TypeOK'
  BY <1>9 DEF TypeOK, Emit, At, Goto, config, busVars, dbVars
<1>10. ASSUME NEW c \in Consumers, NEW e \in Entries, EndRun(c, e)
      PROVE  TypeOK'
  <2>1. openRuns[e] >= 1
    BY <1>10 DEF RunIsOpen, Running, EndRun, At
  <2>2. openRuns' \in [Entries -> Nat]
    BY <1>10, <2>1 DEF TypeOK, EndRun
  <2> QED
    BY <1>10, <2>2 DEF TypeOK, EndRun, Goto, config, busVars
<1>11. ASSUME NEW c \in Consumers, NEW e \in Entries, Remember(c, e)
      PROVE  TypeOK'
  BY <1>11 DEF TypeOK, Remember, At, Goto, config, busVars
<1>12. ASSUME NEW c \in Consumers, NEW e \in Entries, Ack(c, e)
      PROVE  TypeOK'
  BY <1>12 DEF TypeOK, Ack, At, Finish, Goto, config, dbVars
<1>13. ASSUME NEW c \in Consumers, LoopError(c)
      PROVE  TypeOK'
  BY <1>13 DEF TypeOK, LoopError, Drop, Goto, config, busVars, dbVars
<1>14. ASSUME NEW c \in Consumers, Vanish(c)
      PROVE  TypeOK'
  BY <1>14 DEF TypeOK, Vanish, Drop, Goto, config, busVars, dbVars
<1>15. CASE UNCHANGED vars
  BY <1>15 DEF TypeOK, vars, config, busVars, dbVars, procVars
<1> QED
  BY <1>1, <1>2, <1>3, <1>4, <1>5, <1>6, <1>7, <1>8, <1>9, <1>10,
     <1>11, <1>12, <1>13, <1>14, <1>15 DEF Next, Step, Process

-----------------------------------------------------------------------------
(* Holding.                                                                *)

\* No two consumers work on one entry.
LEMMA OneHolder ==
  ASSUME Holding, NEW c \in Consumers, NEW d \in Consumers, NEW e \in Entries,
         e \in batch[c], e \in batch[d]
  PROVE  c = d
BY DEF Holding

\* A consumer works on one entry at a time.
LEMMA OneCurrent ==
  ASSUME NEW c \in Consumers, NEW e \in Entries, NEW x \in Entries,
         IsCurrent(c, e), IsCurrent(c, x)
  PROVE  e = x
BY RuntimeAssumption DEF IsCurrent, Entries

\* Every step keeps each batch pending on the consumer that works on it.
LEMMA NextHolding ==
  TypeOK /\ Holding /\ [Next]_vars => Holding'
<1> SUFFICES ASSUME TypeOK, Holding, [Next]_vars PROVE Holding'
  OBVIOUS
<1>1. CASE Publish
  BY <1>1 DEF Holding, TypeOK, Publish, config, dbVars, procVars
<1>2. ASSUME NEW e \in Entries, NEW v \in {"pass", "fail"}, SentinelDecides(e, v)
      PROVE  Holding'
  BY <1>2 DEF Holding, TypeOK, SentinelDecides, config, busVars, procVars
<1>3. ASSUME NEW c \in Consumers, Subscribe(c)
      PROVE  Holding'
  <2>1. Drained(c) \subseteq OwnPending(c)
    BY DrainedIsOwn
  <2>2. cursor' \in cursor..tail
    BY <1>3, NewCursorInStream DEF Subscribe
  <2>3. ASSUME NEW d \in Consumers, NEW e \in Entries, e \in batch'[d]
        PROVE  owner'[e] = d
    <3>1. CASE d = c
      BY <1>3, <2>1, <2>3, <3>1 DEF TypeOK, Subscribe, OwnPending
    <3>2. CASE d # c
      <4>1. owner[e] = d
        BY <1>3, <2>3, <3>2 DEF TypeOK, Holding, Subscribe
      <4>2. e <= cursor
        BY <4>1, RuntimeAssumption DEF Holding
      <4> QED
        BY <1>3, <4>1, <4>2 DEF TypeOK, Subscribe, Fresh, Entries
    <3> QED
      BY <3>1, <3>2
  <2>4. \A d \in Consumers : pc'[d] = "idle" => batch'[d] = {}
    BY <1>3 DEF TypeOK, Holding, Subscribe
  <2>5. ASSUME NEW e \in Entries, owner'[e] # NoConsumer
        PROVE  e <= cursor' /\ count'[e] >= 1
    <3>1. CASE e \in Fresh(c)
      <4>1. e <= cursor'
        BY <1>3, <3>1 DEF Subscribe, Fresh
      <4>2. count'[e] = count[e] + 1 /\ count[e] \in Nat
        BY <1>3, <3>1 DEF TypeOK, Subscribe
      <4> QED
        BY <4>1, <4>2
    <3>2. CASE e \notin Fresh(c)
      <4>1. e <= cursor /\ count[e] >= 1
        BY <1>3, <2>5, <3>2 DEF Holding, Subscribe
      <4>2. count'[e] \in Nat /\ count'[e] >= count[e] /\ count[e] \in Nat
        BY <1>3 DEF TypeOK, Subscribe
      <4>3. e <= cursor'
        BY <2>2, <4>1, RuntimeAssumption DEF TypeOK, Entries
      <4> QED
        BY <4>1, <4>2, <4>3, RuntimeAssumption DEF TypeOK
    <3> QED
      BY <3>1, <3>2
  <2>6. ASSUME NEW e \in Entries, cursor' < e
        PROVE  count'[e] = 0
    <3>1. cursor < e /\ e \notin Fresh(c)
      BY <1>3, <2>2, <2>6 DEF TypeOK, Subscribe, Fresh, Entries
    <3>2. e \notin Drained(c)
      BY <2>1, <3>1, RuntimeAssumption DEF TypeOK, Holding, OwnPending, Entries
    <3> QED
      BY <1>3, <3>1, <3>2 DEF TypeOK, Holding, Subscribe
  <2>7. \A e \in Entries : owner'[e] # NoConsumer => owner'[e] \in deployed'
    BY <1>3 DEF TypeOK, Holding, Subscribe, config
  <2> QED
    BY <2>3, <2>4, <2>5, <2>6, <2>7 DEF Holding
<1>4. ASSUME NEW c \in Consumers, NEW e \in Entries, Triage(c, e)
      PROVE  Holding'
  BY <1>4 DEF Holding, TypeOK, Triage, At, Goto, config, busVars, dbVars
<1>5. ASSUME NEW c \in Consumers, NEW e \in Entries, Gate(c, e)
      PROVE  Holding'
  <2>1. UNCHANGED busVars /\ UNCHANGED deployed
    BY <1>5 DEF Gate, config
  <2>2. CASE Goto(c, "start") /\ UNCHANGED <<batch, poison>>
    BY <1>5, <2>1, <2>2 DEF TypeOK, Holding, Gate, At, Goto, busVars
  <2>3. CASE Goto(c, "ack") /\ UNCHANGED <<batch, poison>>
    BY <1>5, <2>1, <2>3 DEF TypeOK, Holding, Gate, At, Goto, busVars
  <2>4. CASE Finish(c, e)
    BY <1>5, <2>1, <2>4 DEF TypeOK, Holding, Gate, At, Finish, Goto, busVars
  <2> QED
    BY <1>5, <2>2, <2>3, <2>4 DEF Gate
<1>6. ASSUME NEW c \in Consumers, NEW e \in Entries, StartRun(c, e)
      PROVE  Holding'
  BY <1>6 DEF Holding, TypeOK, StartRun, At, Goto, config, busVars
<1>7. ASSUME NEW c \in Consumers, NEW e \in Entries, Handle(c, e)
      PROVE  Holding'
  BY <1>7 DEF Holding, TypeOK, Handle, At, Goto, config, busVars, dbVars
<1>8. ASSUME NEW c \in Consumers, NEW e \in Entries, Archive(c, e)
      PROVE  Holding'
  BY <1>8 DEF Holding, TypeOK, Archive, At, Goto, config, busVars
<1>9. ASSUME NEW c \in Consumers, NEW e \in Entries, Emit(c, e)
      PROVE  Holding'
  BY <1>9 DEF Holding, TypeOK, Emit, At, Goto, config, busVars, dbVars
<1>10. ASSUME NEW c \in Consumers, NEW e \in Entries, EndRun(c, e)
      PROVE  Holding'
  BY <1>10 DEF Holding, TypeOK, EndRun, At, Goto, config, busVars
<1>11. ASSUME NEW c \in Consumers, NEW e \in Entries, Remember(c, e)
      PROVE  Holding'
  BY <1>11 DEF Holding, TypeOK, Remember, At, Goto, config, busVars
<1>12. ASSUME NEW c \in Consumers, NEW e \in Entries, Ack(c, e)
      PROVE  Holding'
  <2>1. owner' = [owner EXCEPT ![e] = NoConsumer] /\ UNCHANGED <<cursor, count>>
    BY <1>12 DEF Ack
  <2>2. Finish(c, e) /\ e \in batch[c]
    BY <1>12 DEF Ack, At, IsCurrent
  <2>3. ASSUME NEW d \in Consumers, NEW x \in Entries, x \in batch'[d]
        PROVE  owner'[x] = d
    <3>1. x \in batch[d] /\ (d = c => x # e)
      BY <2>2, <2>3 DEF TypeOK, Finish
    <3>2. x # e
      BY <2>2, <3>1, OneHolder
    <3> QED
      BY <2>1, <3>1, <3>2 DEF TypeOK, Holding
  <2>4. ASSUME NEW d \in Consumers, pc'[d] = "idle"
        PROVE  batch'[d] = {}
    <3>1. CASE d = c
      BY <2>2, <2>4, <3>1 DEF TypeOK, Finish, Goto
    <3>2. CASE d # c
      BY <2>2, <2>4, <3>2 DEF TypeOK, Holding, Finish, Goto
    <3> QED
      BY <3>1, <3>2
  <2>5. deployed' = deployed
    BY <1>12 DEF Ack, config
  <2>6. \A x \in Entries : owner'[x] # NoConsumer => owner[x] = owner'[x]
    BY <2>1 DEF TypeOK
  <2> QED
    BY <2>1, <2>3, <2>4, <2>5, <2>6 DEF Holding
<1>13. ASSUME NEW c \in Consumers, LoopError(c)
      PROVE  Holding'
  BY <1>13 DEF Holding, TypeOK, LoopError, Drop, Goto, config, busVars, dbVars
<1>14. ASSUME NEW c \in Consumers, Vanish(c)
      PROVE  Holding'
  BY <1>14 DEF Holding, TypeOK, Vanish, Drop, Goto, config, busVars, dbVars
<1>15. CASE UNCHANGED vars
  BY <1>15 DEF Holding, TypeOK, vars, config, busVars, dbVars, procVars
<1> QED
  BY <1>1, <1>2, <1>3, <1>4, <1>5, <1>6, <1>7, <1>8, <1>9, <1>10,
     <1>11, <1>12, <1>13, <1>14, <1>15 DEF Next, Step, Process

-----------------------------------------------------------------------------
(* The parts of the invariant about the consumer at work.                 *)

\* Every step keeps an agent_runs row open for each run in progress.
LEMMA NextRunIsOpen ==
  TypeOK /\ TypeOK' /\ Holding /\ RunIsOpen /\ [Next]_vars => RunIsOpen'
<1> SUFFICES ASSUME TypeOK, TypeOK', Holding, RunIsOpen, [Next]_vars,
                    NEW d \in Consumers, NEW x \in Entries, d \in Running(x)'
             PROVE  (openRuns[x] >= 1)'
  BY DEF RunIsOpen
<1>1. CASE Publish
  BY <1>1, OneHolder DEF RunIsOpen, TypeOK, Running, IsCurrent, Publish, config, dbVars,
     procVars
<1>2. ASSUME NEW e \in Entries, NEW v \in {"pass", "fail"}, SentinelDecides(e, v)
      PROVE  (openRuns[x] >= 1)'
  BY <1>2, OneHolder DEF RunIsOpen, TypeOK, Running, IsCurrent, SentinelDecides, config,
     busVars, procVars
<1>3. ASSUME NEW c \in Consumers, Subscribe(c)
      PROVE  (openRuns[x] >= 1)'
  BY <1>3, OneHolder DEF RunIsOpen, TypeOK, Running, IsCurrent, Subscribe, Fresh, config, dbVars
<1>4. ASSUME NEW c \in Consumers, NEW e \in Entries, Triage(c, e)
      PROVE  (openRuns[x] >= 1)'
  <2>1. IsCurrent(d, x) /\ (d = c => x = e)
    BY <1>4, OneCurrent DEF Triage, At, IsCurrent, Running
  <2>2. CASE d = c
    BY <1>4, <2>1, <2>2 DEF TypeOK, RunIsOpen, Running, Triage, Goto, dbVars
  <2>3. CASE d # c
    BY <1>4, <2>1, <2>3 DEF TypeOK, RunIsOpen, Running, Triage, Goto, dbVars
  <2> QED
    BY <2>2, <2>3
<1>5. ASSUME NEW c \in Consumers, NEW e \in Entries, Gate(c, e)
      PROVE  (openRuns[x] >= 1)'
  <2>1. CASE UNCHANGED <<batch, poison>>
    <3>1. IsCurrent(d, x) /\ (d = c => x = e)
      BY <1>5, <2>1, OneCurrent DEF Gate, At, IsCurrent, Running
    <3>2. CASE d = c
      BY <1>5, <2>1, <3>1, <3>2 DEF TypeOK, RunIsOpen, Running, Gate, At, Goto, Finish,
         config, dbVars
    <3>3. CASE d # c
      BY <1>5, <2>1, <3>1, <3>3 DEF TypeOK, RunIsOpen, Running, Gate, Goto, Finish, config,
         dbVars
    <3> QED
      BY <3>2, <3>3
  <2>2. CASE Finish(c, e)
    BY <1>5, <2>2 DEF TypeOK, RunIsOpen, Running, Gate, IsCurrent, Finish, Goto, config, dbVars
  <2> QED
    BY <1>5, <2>1, <2>2 DEF Gate
<1>6. ASSUME NEW c \in Consumers, NEW e \in Entries, StartRun(c, e)
      PROVE  (openRuns[x] >= 1)'
  <2>1. IsCurrent(d, x) /\ (d = c => x = e)
    BY <1>6, OneCurrent DEF StartRun, At, IsCurrent, Running
  <2>2. CASE d = c
    BY <1>6, <2>1, <2>2 DEF TypeOK, RunIsOpen, Running, StartRun
  <2>3. CASE d # c
    BY <1>6, <2>1, <2>3 DEF TypeOK, RunIsOpen, Running, StartRun, Goto
  <2> QED
    BY <2>2, <2>3
<1>7. ASSUME NEW c \in Consumers, NEW e \in Entries, Handle(c, e)
      PROVE  (openRuns[x] >= 1)'
  BY <1>7, OneHolder DEF RunIsOpen, TypeOK, Running, IsCurrent, Handle, At, Goto, config,
     busVars, dbVars
<1>8. ASSUME NEW c \in Consumers, NEW e \in Entries, Archive(c, e)
      PROVE  (openRuns[x] >= 1)'
  BY <1>8, OneHolder DEF RunIsOpen, TypeOK, Running, IsCurrent, Archive, At, Goto, config,
     busVars
<1>9. ASSUME NEW c \in Consumers, NEW e \in Entries, Emit(c, e)
      PROVE  (openRuns[x] >= 1)'
  <2>1. IsCurrent(d, x) /\ (d = c => x = e)
    BY <1>9, OneCurrent DEF Emit, At, IsCurrent, Running
  <2>2. CASE d = c
    BY <1>9, <2>1, <2>2 DEF TypeOK, RunIsOpen, Running, Emit, At, Goto, dbVars, Kinds
  <2>3. CASE d # c
    BY <1>9, <2>1, <2>3 DEF TypeOK, RunIsOpen, Running, Emit, Goto, dbVars
  <2> QED
    BY <2>2, <2>3
<1>10. ASSUME NEW c \in Consumers, NEW e \in Entries, EndRun(c, e)
      PROVE  (openRuns[x] >= 1)'
  BY <1>10, OneHolder DEF RunIsOpen, TypeOK, Running, IsCurrent, EndRun, At, Goto, config,
     busVars
<1>11. ASSUME NEW c \in Consumers, NEW e \in Entries, Remember(c, e)
      PROVE  (openRuns[x] >= 1)'
  BY <1>11, OneHolder DEF RunIsOpen, TypeOK, Running, IsCurrent, Remember, At, Goto, config,
     busVars
<1>12. ASSUME NEW c \in Consumers, NEW e \in Entries, Ack(c, e)
      PROVE  (openRuns[x] >= 1)'
  BY <1>12, OneHolder DEF RunIsOpen, TypeOK, Running, IsCurrent, Ack, At, Finish, Goto,
     config, dbVars
<1>13. ASSUME NEW c \in Consumers, LoopError(c)
      PROVE  (openRuns[x] >= 1)'
  BY <1>13, OneHolder DEF RunIsOpen, TypeOK, Running, IsCurrent, LoopError, Drop, Goto,
     config, busVars, dbVars
<1>14. ASSUME NEW c \in Consumers, Vanish(c)
      PROVE  (openRuns[x] >= 1)'
  BY <1>14, OneHolder DEF RunIsOpen, TypeOK, Running, IsCurrent, Vanish, Drop, Goto, config,
     busVars, dbVars
<1>15. CASE UNCHANGED vars
  BY <1>15 DEF RunIsOpen, TypeOK, Running, IsCurrent, vars, config, busVars, dbVars, procVars
<1> QED
  BY <1>1, <1>2, <1>3, <1>4, <1>5, <1>6, <1>7, <1>8, <1>9, <1>10,
     <1>11, <1>12, <1>13, <1>14, <1>15 DEF Next, Step, Process

\* Every step keeps the strict gate's promise to the step after it.
LEMMA NextVerdictFirst ==
  TypeOK /\ TypeOK' /\ VerdictFirst /\ [Next]_vars => VerdictFirst'
<1> SUFFICES ASSUME TypeOK, TypeOK', VerdictFirst, [Next]_vars,
                    NEW d \in Consumers, NEW x \in Entries, IsCurrent(d, x)',
                       (pc[d] \in {"start", "handle"} /\ mode = "strict")'
             PROVE  (verdict[x] # "none")'
  BY DEF VerdictFirst
<1>1. CASE Publish
  BY <1>1 DEF VerdictFirst, TypeOK, IsCurrent, Publish, config, dbVars, procVars
<1>2. ASSUME NEW e \in Entries, NEW v \in {"pass", "fail"}, SentinelDecides(e, v)
      PROVE  (verdict[x] # "none")'
  BY <1>2 DEF VerdictFirst, TypeOK, IsCurrent, SentinelDecides, config, busVars, procVars
<1>3. ASSUME NEW c \in Consumers, Subscribe(c)
      PROVE  (verdict[x] # "none")'
  BY <1>3 DEF VerdictFirst, TypeOK, IsCurrent, Subscribe, Fresh, config, dbVars
<1>4. ASSUME NEW c \in Consumers, NEW e \in Entries, Triage(c, e)
      PROVE  (verdict[x] # "none")'
  BY <1>4 DEF VerdictFirst, TypeOK, IsCurrent, Triage, At, Goto, config, busVars, dbVars
<1>5. ASSUME NEW c \in Consumers, NEW e \in Entries, Gate(c, e)
      PROVE  (verdict[x] # "none")'
  <2>1. CASE UNCHANGED <<batch, poison>>
    <3>1. IsCurrent(d, x) /\ (d = c => x = e)
      BY <1>5, <2>1, OneCurrent DEF Gate, At, IsCurrent, Running
    <3>2. CASE d = c
      BY <1>5, <2>1, <3>1, <3>2 DEF TypeOK, VerdictFirst, busVars, Gate, At, Goto, Finish,
         config, dbVars
    <3>3. CASE d # c
      BY <1>5, <2>1, <3>1, <3>3 DEF TypeOK, VerdictFirst, busVars, Gate, Goto, Finish, config,
         dbVars
    <3> QED
      BY <3>2, <3>3
  <2>2. CASE Finish(c, e)
    BY <1>5, <2>2 DEF TypeOK, VerdictFirst, busVars, Gate, IsCurrent, Finish, Goto, config,
       dbVars
  <2> QED
    BY <1>5, <2>1, <2>2 DEF Gate
<1>6. ASSUME NEW c \in Consumers, NEW e \in Entries, StartRun(c, e)
      PROVE  (verdict[x] # "none")'
  BY <1>6 DEF VerdictFirst, TypeOK, IsCurrent, StartRun, At, Goto, config, busVars
<1>7. ASSUME NEW c \in Consumers, NEW e \in Entries, Handle(c, e)
      PROVE  (verdict[x] # "none")'
  BY <1>7 DEF VerdictFirst, TypeOK, IsCurrent, Handle, At, Goto, config, busVars, dbVars
<1>8. ASSUME NEW c \in Consumers, NEW e \in Entries, Archive(c, e)
      PROVE  (verdict[x] # "none")'
  BY <1>8 DEF VerdictFirst, TypeOK, IsCurrent, Archive, At, Goto, config, busVars
<1>9. ASSUME NEW c \in Consumers, NEW e \in Entries, Emit(c, e)
      PROVE  (verdict[x] # "none")'
  BY <1>9 DEF VerdictFirst, TypeOK, IsCurrent, Emit, At, Goto, config, busVars, dbVars
<1>10. ASSUME NEW c \in Consumers, NEW e \in Entries, EndRun(c, e)
      PROVE  (verdict[x] # "none")'
  BY <1>10 DEF VerdictFirst, TypeOK, IsCurrent, EndRun, At, Goto, config, busVars
<1>11. ASSUME NEW c \in Consumers, NEW e \in Entries, Remember(c, e)
      PROVE  (verdict[x] # "none")'
  BY <1>11 DEF VerdictFirst, TypeOK, IsCurrent, Remember, At, Goto, config, busVars
<1>12. ASSUME NEW c \in Consumers, NEW e \in Entries, Ack(c, e)
      PROVE  (verdict[x] # "none")'
  BY <1>12 DEF VerdictFirst, TypeOK, IsCurrent, Ack, At, Finish, Goto, config, dbVars
<1>13. ASSUME NEW c \in Consumers, LoopError(c)
      PROVE  (verdict[x] # "none")'
  BY <1>13 DEF VerdictFirst, TypeOK, IsCurrent, LoopError, Drop, Goto, config, busVars, dbVars
<1>14. ASSUME NEW c \in Consumers, Vanish(c)
      PROVE  (verdict[x] # "none")'
  BY <1>14 DEF VerdictFirst, TypeOK, IsCurrent, Vanish, Drop, Goto, config, busVars, dbVars
<1>15. CASE UNCHANGED vars
  BY <1>15 DEF VerdictFirst, TypeOK, IsCurrent, vars, config, busVars, dbVars, procVars
<1> QED
  BY <1>1, <1>2, <1>3, <1>4, <1>5, <1>6, <1>7, <1>8, <1>9, <1>10,
     <1>11, <1>12, <1>13, <1>14, <1>15 DEF Next, Step, Process

\* Every step that leads to an ack has accounted for the entry.
LEMMA NextAckJustified ==
  TypeOK /\ TypeOK' /\ AckJustified /\ [Next]_vars => AckJustified'
<1> SUFFICES ASSUME TypeOK, TypeOK', AckJustified, [Next]_vars,
                    NEW d \in Consumers, NEW x \in Entries, IsCurrent(d, x)'
             PROVE  AckReady(d, x)'
  BY DEF AckJustified
<1>1. CASE Publish
  BY <1>1, RuntimeAssumption DEF AckJustified, AckReady, TypeOK, IsCurrent, Accounted,
     Deadlettered, DroppedByGate, Publish, config, dbVars, procVars
<1>2. ASSUME NEW e \in Entries, NEW v \in {"pass", "fail"}, SentinelDecides(e, v)
      PROVE  AckReady(d, x)'
  BY <1>2, RuntimeAssumption DEF AckJustified, AckReady, TypeOK, IsCurrent, Accounted,
     Deadlettered, DroppedByGate, SentinelDecides, config, busVars, procVars
<1>3. ASSUME NEW c \in Consumers, Subscribe(c)
      PROVE  AckReady(d, x)'
  BY <1>3, RuntimeAssumption DEF AckJustified, AckReady, TypeOK, IsCurrent, Accounted,
     Deadlettered, DroppedByGate, Subscribe, Fresh, config, dbVars
<1>4. ASSUME NEW c \in Consumers, NEW e \in Entries, Triage(c, e)
      PROVE  AckReady(d, x)'
  <2>1. IsCurrent(d, x) /\ (d = c => x = e)
    BY <1>4, OneCurrent DEF Triage, At, IsCurrent
  <2>2. CASE d = c
    BY <1>4, <2>1, <2>2 DEF TypeOK, AckJustified, AckReady, Accounted, Deadlettered,
       DroppedByGate, Triage, Goto, config, dbVars
  <2>3. CASE d # c
    BY <1>4, <2>1, <2>3 DEF TypeOK, AckJustified, AckReady, Accounted, Deadlettered,
       DroppedByGate, Triage, Goto, config, dbVars
  <2> QED
    BY <2>2, <2>3
<1>5. ASSUME NEW c \in Consumers, NEW e \in Entries, Gate(c, e)
      PROVE  AckReady(d, x)'
  <2>1. CASE UNCHANGED <<batch, poison>>
    <3>1. IsCurrent(d, x) /\ (d = c => x = e)
      BY <1>5, <2>1, OneCurrent DEF Gate, At, IsCurrent, Running
    <3>2. CASE d = c
      BY <1>5, <2>1, <3>1, <3>2, RuntimeAssumption DEF TypeOK, AckJustified, AckReady,
         Accounted, Deadlettered, DroppedByGate, Verdicts, Gate, At, Goto, Finish, config,
            dbVars
    <3>3. CASE d # c
      BY <1>5, <2>1, <3>1, <3>3 DEF TypeOK, AckJustified, AckReady, Accounted, Deadlettered,
         DroppedByGate, Verdicts, Gate, Goto, Finish, config, dbVars
    <3> QED
      BY <3>2, <3>3
  <2>2. CASE Finish(c, e)
    BY <1>5, <2>2 DEF TypeOK, AckJustified, AckReady, Accounted, Deadlettered, DroppedByGate,
       Verdicts, Gate, IsCurrent, Finish, Goto, config, dbVars
  <2> QED
    BY <1>5, <2>1, <2>2 DEF Gate
<1>6. ASSUME NEW c \in Consumers, NEW e \in Entries, StartRun(c, e)
      PROVE  AckReady(d, x)'
  BY <1>6, RuntimeAssumption DEF AckJustified, AckReady, TypeOK, IsCurrent, Accounted,
     Deadlettered, DroppedByGate, StartRun, At, Goto, config, busVars
<1>7. ASSUME NEW c \in Consumers, NEW e \in Entries, Handle(c, e)
      PROVE  AckReady(d, x)'
  BY <1>7, RuntimeAssumption DEF AckJustified, AckReady, TypeOK, IsCurrent, Accounted,
     Deadlettered, DroppedByGate, Handle, At, Goto, config, busVars, dbVars
<1>8. ASSUME NEW c \in Consumers, NEW e \in Entries, Archive(c, e)
      PROVE  AckReady(d, x)'
  BY <1>8, RuntimeAssumption DEF AckJustified, AckReady, TypeOK, IsCurrent, Accounted,
     Deadlettered, DroppedByGate, Archive, At, Goto, config, busVars
<1>9. ASSUME NEW c \in Consumers, NEW e \in Entries, Emit(c, e)
      PROVE  AckReady(d, x)'
  <2>1. IsCurrent(d, x) /\ (d = c => x = e)
    BY <1>9, OneCurrent DEF Emit, At, IsCurrent
  <2>2. CASE d = c
    BY <1>9, <2>1, <2>2 DEF TypeOK, AckJustified, AckReady, Accounted, Deadlettered,
       DroppedByGate, Emit, Goto, config, dbVars
  <2>3. CASE d # c
    BY <1>9, <2>1, <2>3 DEF TypeOK, AckJustified, AckReady, Accounted, Deadlettered,
       DroppedByGate, Emit, Goto, config, dbVars
  <2> QED
    BY <2>2, <2>3
<1>10. ASSUME NEW c \in Consumers, NEW e \in Entries, EndRun(c, e)
      PROVE  AckReady(d, x)'
  BY <1>10, RuntimeAssumption DEF AckJustified, AckReady, TypeOK, IsCurrent, Accounted,
     Deadlettered, DroppedByGate, EndRun, At, Goto, config, busVars
<1>11. ASSUME NEW c \in Consumers, NEW e \in Entries, Remember(c, e)
      PROVE  AckReady(d, x)'
  <2>1. IsCurrent(d, x) /\ (d = c => x = e)
    BY <1>11, OneCurrent DEF Remember, At, IsCurrent
  <2>2. CASE d = c
    BY <1>11, <2>1, <2>2 DEF TypeOK, AckJustified, AckReady, Accounted, Deadlettered,
       DroppedByGate, Remember, Goto, config
  <2>3. CASE d # c
    BY <1>11, <2>1, <2>3 DEF TypeOK, AckJustified, AckReady, Accounted, Deadlettered,
       DroppedByGate, Remember, Goto, config
  <2> QED
    BY <2>2, <2>3
<1>12. ASSUME NEW c \in Consumers, NEW e \in Entries, Ack(c, e)
      PROVE  AckReady(d, x)'
  BY <1>12, RuntimeAssumption DEF AckJustified, AckReady, TypeOK, IsCurrent, Accounted,
     Deadlettered, DroppedByGate, Ack, At, Finish, Goto, config, dbVars
<1>13. ASSUME NEW c \in Consumers, LoopError(c)
      PROVE  AckReady(d, x)'
  BY <1>13, RuntimeAssumption DEF AckJustified, AckReady, TypeOK, IsCurrent, Accounted,
     Deadlettered, DroppedByGate, LoopError, Drop, Goto, config, busVars, dbVars
<1>14. ASSUME NEW c \in Consumers, Vanish(c)
      PROVE  AckReady(d, x)'
  BY <1>14, RuntimeAssumption DEF AckJustified, AckReady, TypeOK, IsCurrent, Accounted,
     Deadlettered, DroppedByGate, Vanish, Drop, Goto, config, busVars, dbVars
<1>15. CASE UNCHANGED vars
  BY <1>15 DEF AckJustified, AckReady, TypeOK, IsCurrent, Accounted, Deadlettered,
     DroppedByGate, vars, config, busVars, dbVars, procVars
<1> QED
  BY <1>1, <1>2, <1>3, <1>4, <1>5, <1>6, <1>7, <1>8, <1>9, <1>10,
     <1>11, <1>12, <1>13, <1>14, <1>15 DEF Next, Step, Process

\* Every step that leads to the record has published the result.
LEMMA NextResultBeforeRecord ==
  TypeOK /\ TypeOK' /\ ResultBeforeRecord /\ [Next]_vars => ResultBeforeRecord'
<1> SUFFICES ASSUME TypeOK, TypeOK', ResultBeforeRecord, [Next]_vars,
                    NEW d \in Consumers, NEW x \in Entries, IsCurrent(d, x)'
             PROVE  RecordReady(d, x)'
  BY DEF ResultBeforeRecord
<1>1. CASE Publish
  BY <1>1 DEF ResultBeforeRecord, RecordReady, TypeOK, IsCurrent, Publish, config, dbVars,
     procVars
<1>2. ASSUME NEW e \in Entries, NEW v \in {"pass", "fail"}, SentinelDecides(e, v)
      PROVE  RecordReady(d, x)'
  BY <1>2 DEF ResultBeforeRecord, RecordReady, TypeOK, IsCurrent, SentinelDecides, config,
     busVars, procVars
<1>3. ASSUME NEW c \in Consumers, Subscribe(c)
      PROVE  RecordReady(d, x)'
  BY <1>3 DEF ResultBeforeRecord, RecordReady, TypeOK, IsCurrent, Subscribe, Fresh, config,
     dbVars
<1>4. ASSUME NEW c \in Consumers, NEW e \in Entries, Triage(c, e)
      PROVE  RecordReady(d, x)'
  <2>1. IsCurrent(d, x) /\ (d = c => x = e)
    BY <1>4, OneCurrent DEF Triage, At, IsCurrent
  <2>2. CASE d = c
    BY <1>4, <2>1, <2>2 DEF TypeOK, ResultBeforeRecord, RecordReady, Triage, Goto, dbVars
  <2>3. CASE d # c
    BY <1>4, <2>1, <2>3 DEF TypeOK, ResultBeforeRecord, RecordReady, Triage, Goto, dbVars
  <2> QED
    BY <2>2, <2>3
<1>5. ASSUME NEW c \in Consumers, NEW e \in Entries, Gate(c, e)
      PROVE  RecordReady(d, x)'
  BY <1>5 DEF ResultBeforeRecord, RecordReady, TypeOK, IsCurrent, Gate, At, Finish, Goto,
     config, busVars, dbVars
<1>6. ASSUME NEW c \in Consumers, NEW e \in Entries, StartRun(c, e)
      PROVE  RecordReady(d, x)'
  BY <1>6 DEF ResultBeforeRecord, RecordReady, TypeOK, IsCurrent, StartRun, At, Goto, config,
     busVars
<1>7. ASSUME NEW c \in Consumers, NEW e \in Entries, Handle(c, e)
      PROVE  RecordReady(d, x)'
  <2>1. IsCurrent(d, x) /\ (d = c => x = e)
    BY <1>7, OneCurrent DEF Handle, At, IsCurrent
  <2>2. CASE d = c
    BY <1>7, <2>1, <2>2 DEF TypeOK, ResultBeforeRecord, RecordReady, Handle, Goto, dbVars
  <2>3. CASE d # c
    BY <1>7, <2>1, <2>3 DEF TypeOK, ResultBeforeRecord, RecordReady, Handle, Goto, dbVars
  <2> QED
    BY <2>2, <2>3
<1>8. ASSUME NEW c \in Consumers, NEW e \in Entries, Archive(c, e)
      PROVE  RecordReady(d, x)'
  BY <1>8 DEF ResultBeforeRecord, RecordReady, TypeOK, IsCurrent, Archive, At, Goto, config,
     busVars
<1>9. ASSUME NEW c \in Consumers, NEW e \in Entries, Emit(c, e)
      PROVE  RecordReady(d, x)'
  <2>1. IsCurrent(d, x) /\ (d = c => x = e)
    BY <1>9, OneCurrent DEF Emit, At, IsCurrent
  <2>2. CASE d = c
    BY <1>9, <2>1, <2>2 DEF TypeOK, ResultBeforeRecord, RecordReady, Emit, At, Goto, Kinds
  <2>3. CASE d # c
    BY <1>9, <2>1, <2>3 DEF TypeOK, ResultBeforeRecord, RecordReady, Emit, Goto
  <2> QED
    BY <2>2, <2>3
<1>10. ASSUME NEW c \in Consumers, NEW e \in Entries, EndRun(c, e)
      PROVE  RecordReady(d, x)'
  <2>1. IsCurrent(d, x) /\ (d = c => x = e)
    BY <1>10, OneCurrent DEF EndRun, At, IsCurrent
  <2>2. CASE d = c
    BY <1>10, <2>1, <2>2 DEF TypeOK, ResultBeforeRecord, RecordReady, EndRun, At, Goto, Kinds
  <2>3. CASE d # c
    BY <1>10, <2>1, <2>3 DEF TypeOK, ResultBeforeRecord, RecordReady, EndRun, Goto
  <2> QED
    BY <2>2, <2>3
<1>11. ASSUME NEW c \in Consumers, NEW e \in Entries, Remember(c, e)
      PROVE  RecordReady(d, x)'
  BY <1>11 DEF ResultBeforeRecord, RecordReady, TypeOK, IsCurrent, Remember, At, Goto,
     config, busVars
<1>12. ASSUME NEW c \in Consumers, NEW e \in Entries, Ack(c, e)
      PROVE  RecordReady(d, x)'
  BY <1>12 DEF ResultBeforeRecord, RecordReady, TypeOK, IsCurrent, Ack, At, Finish, Goto,
     config, dbVars
<1>13. ASSUME NEW c \in Consumers, LoopError(c)
      PROVE  RecordReady(d, x)'
  BY <1>13 DEF ResultBeforeRecord, RecordReady, TypeOK, IsCurrent, LoopError, Drop, Goto,
     config, busVars, dbVars
<1>14. ASSUME NEW c \in Consumers, Vanish(c)
      PROVE  RecordReady(d, x)'
  BY <1>14 DEF ResultBeforeRecord, RecordReady, TypeOK, IsCurrent, Vanish, Drop, Goto,
     config, busVars, dbVars
<1>15. CASE UNCHANGED vars
  BY <1>15 DEF ResultBeforeRecord, RecordReady, TypeOK, IsCurrent, vars, config, busVars,
     dbVars, procVars
<1> QED
  BY <1>1, <1>2, <1>3, <1>4, <1>5, <1>6, <1>7, <1>8, <1>9, <1>10,
     <1>11, <1>12, <1>13, <1>14, <1>15 DEF Next, Step, Process

\* Every step that leads to a publish has archived the envelope.
LEMMA NextArchiveAhead ==
  TypeOK /\ TypeOK' /\ Holding /\ ArchiveAhead /\ ArchivedFirst /\ [Next]_vars => ArchiveAhead'
<1> SUFFICES ASSUME TypeOK, TypeOK', Holding, ArchiveAhead, ArchivedFirst, [Next]_vars,
                    NEW d \in Consumers, NEW x \in Entries, IsCurrent(d, x)',
                       (pc[d] = "publish")'
             PROVE  (published[x][kind[d]] < archived[x][kind[d]])'
  BY DEF ArchiveAhead
<1>1. CASE Publish
  BY <1>1, OneHolder DEF ArchiveAhead, TypeOK, IsCurrent, ArchivedFirst, Publish, config,
     dbVars, procVars
<1>2. ASSUME NEW e \in Entries, NEW v \in {"pass", "fail"}, SentinelDecides(e, v)
      PROVE  (published[x][kind[d]] < archived[x][kind[d]])'
  BY <1>2, OneHolder DEF ArchiveAhead, TypeOK, IsCurrent, ArchivedFirst, SentinelDecides,
     config, busVars, procVars
<1>3. ASSUME NEW c \in Consumers, Subscribe(c)
      PROVE  (published[x][kind[d]] < archived[x][kind[d]])'
  BY <1>3, OneHolder DEF ArchiveAhead, TypeOK, IsCurrent, ArchivedFirst, Subscribe, Fresh,
     config, dbVars
<1>4. ASSUME NEW c \in Consumers, NEW e \in Entries, Triage(c, e)
      PROVE  (published[x][kind[d]] < archived[x][kind[d]])'
  <2>1. IsCurrent(d, x) /\ (d = c => x = e)
    BY <1>4, OneCurrent DEF Triage, At, IsCurrent
  <2>2. CASE d = c
    BY <1>4, <2>1, <2>2 DEF TypeOK, ArchiveAhead, Triage, Goto, dbVars
  <2>3. CASE d # c
    BY <1>4, <2>1, <2>3 DEF TypeOK, ArchiveAhead, Triage, Goto, dbVars
  <2> QED
    BY <2>2, <2>3
<1>5. ASSUME NEW c \in Consumers, NEW e \in Entries, Gate(c, e)
      PROVE  (published[x][kind[d]] < archived[x][kind[d]])'
  <2>1. CASE UNCHANGED <<batch, poison>>
    <3>1. IsCurrent(d, x) /\ (d = c => x = e)
      BY <1>5, <2>1, OneCurrent DEF Gate, At, IsCurrent, Running
    <3>2. CASE d = c
      BY <1>5, <2>1, <3>1, <3>2 DEF TypeOK, ArchiveAhead, ArchivedFirst, Gate, At, Goto,
         Finish, config, dbVars
    <3>3. CASE d # c
      BY <1>5, <2>1, <3>1, <3>3 DEF TypeOK, ArchiveAhead, ArchivedFirst, Gate, Goto, Finish,
         config, dbVars
    <3> QED
      BY <3>2, <3>3
  <2>2. CASE Finish(c, e)
    BY <1>5, <2>2 DEF TypeOK, ArchiveAhead, ArchivedFirst, Gate, IsCurrent, Finish, Goto,
       config, dbVars
  <2> QED
    BY <1>5, <2>1, <2>2 DEF Gate
<1>6. ASSUME NEW c \in Consumers, NEW e \in Entries, StartRun(c, e)
      PROVE  (published[x][kind[d]] < archived[x][kind[d]])'
  BY <1>6, OneHolder DEF ArchiveAhead, TypeOK, IsCurrent, ArchivedFirst, StartRun, At, Goto,
     config, busVars
<1>7. ASSUME NEW c \in Consumers, NEW e \in Entries, Handle(c, e)
      PROVE  (published[x][kind[d]] < archived[x][kind[d]])'
  BY <1>7, OneHolder DEF ArchiveAhead, TypeOK, IsCurrent, ArchivedFirst, Handle, At, Goto,
     config, busVars, dbVars
<1>8. ASSUME NEW c \in Consumers, NEW e \in Entries, Archive(c, e)
      PROVE  (published[x][kind[d]] < archived[x][kind[d]])'
  <2>1. IsCurrent(d, x) /\ (d = c => x = e)
    BY <1>8, OneCurrent DEF Archive, At, IsCurrent
  <2>2. CASE d = c
    BY <1>8, <2>1, <2>2 DEF TypeOK, ArchiveAhead, Archive, ArchivedFirst
  <2>3. CASE d # c
    BY <1>8, <2>1, <2>3 DEF TypeOK, ArchiveAhead, Archive, Goto
  <2> QED
    BY <2>2, <2>3
<1>9. ASSUME NEW c \in Consumers, NEW e \in Entries, Emit(c, e)
      PROVE  (published[x][kind[d]] < archived[x][kind[d]])'
  BY <1>9, OneHolder DEF ArchiveAhead, TypeOK, IsCurrent, ArchivedFirst, Emit, At, Goto,
     config, busVars, dbVars
<1>10. ASSUME NEW c \in Consumers, NEW e \in Entries, EndRun(c, e)
      PROVE  (published[x][kind[d]] < archived[x][kind[d]])'
  BY <1>10, OneHolder DEF ArchiveAhead, TypeOK, IsCurrent, ArchivedFirst, EndRun, At, Goto,
     config, busVars
<1>11. ASSUME NEW c \in Consumers, NEW e \in Entries, Remember(c, e)
      PROVE  (published[x][kind[d]] < archived[x][kind[d]])'
  BY <1>11, OneHolder DEF ArchiveAhead, TypeOK, IsCurrent, ArchivedFirst, Remember, At, Goto,
     config, busVars
<1>12. ASSUME NEW c \in Consumers, NEW e \in Entries, Ack(c, e)
      PROVE  (published[x][kind[d]] < archived[x][kind[d]])'
  BY <1>12, OneHolder DEF ArchiveAhead, TypeOK, IsCurrent, ArchivedFirst, Ack, At, Finish,
     Goto, config, dbVars
<1>13. ASSUME NEW c \in Consumers, LoopError(c)
      PROVE  (published[x][kind[d]] < archived[x][kind[d]])'
  BY <1>13, OneHolder DEF ArchiveAhead, TypeOK, IsCurrent, ArchivedFirst, LoopError, Drop,
     Goto, config, busVars, dbVars
<1>14. ASSUME NEW c \in Consumers, Vanish(c)
      PROVE  (published[x][kind[d]] < archived[x][kind[d]])'
  BY <1>14, OneHolder DEF ArchiveAhead, TypeOK, IsCurrent, ArchivedFirst, Vanish, Drop, Goto,
     config, busVars, dbVars
<1>15. CASE UNCHANGED vars
  BY <1>15 DEF ArchiveAhead, TypeOK, IsCurrent, ArchivedFirst, vars, config, busVars, dbVars,
     procVars
<1> QED
  BY <1>1, <1>2, <1>3, <1>4, <1>5, <1>6, <1>7, <1>8, <1>9, <1>10,
     <1>11, <1>12, <1>13, <1>14, <1>15 DEF Next, Step, Process

-----------------------------------------------------------------------------
(* The budget of handle() calls.                                           *)

\* One more delivery allows MaxAttempts more calls.
LEMMA AllowanceFacts ==
  ASSUME NEW n \in Nat
  PROVE  /\ Allowance(n) \in Nat
         /\ Allowance(n + 1) = Allowance(n) + MaxAttempts
BY RuntimeAssumption DEF Allowance

\* More deliveries never allow fewer calls.
LEMMA AllowanceMonotone ==
  ASSUME NEW m \in Nat, NEW n \in Nat, m <= n
  PROVE  Allowance(m) <= Allowance(n)
BY RuntimeAssumption DEF Allowance

\* A consumer with e in its batch holds e, so e was delivered.
LEMMA HeldIsDelivered ==
  ASSUME TypeOK, Holding, NEW c \in Consumers, NEW e \in Entries, e \in batch[c]
  PROVE  owner[e] = c /\ e <= cursor /\ count[e] \in Nat /\ count[e] - 1 \in Nat
<1>1. owner[e] = c
  BY DEF Holding
<1>2. e <= cursor /\ count[e] >= 1
  BY <1>1, RuntimeAssumption DEF Holding
<1> QED
  BY <1>1, <1>2 DEF TypeOK

\* Every step keeps each delivery within what it has left to spend.
LEMMA NextBudget ==
  TypeOK /\ TypeOK' /\ Holding /\ WithinDeliveries /\ Budget /\ [Next]_vars => Budget'
<1> SUFFICES ASSUME TypeOK, TypeOK', Holding, WithinDeliveries, Budget, [Next]_vars,
                    NEW d \in Consumers, NEW x \in Entries, (x \in batch[d])'
             PROVE  BudgetOf(d, x)'
  BY DEF Budget, BudgetOf, Untouched, IsCurrent
<1>1. CASE Publish
  BY <1>1 DEF Budget, BudgetOf, Untouched, IsCurrent, TypeOK, Publish, config, dbVars, procVars
<1>2. ASSUME NEW e \in Entries, NEW v \in {"pass", "fail"}, SentinelDecides(e, v)
      PROVE  BudgetOf(d, x)'
  BY <1>2 DEF Budget, BudgetOf, Untouched, IsCurrent, TypeOK, SentinelDecides, config,
     busVars, procVars
<1>3. ASSUME NEW c \in Consumers, Subscribe(c)
      PROVE  BudgetOf(d, x)'
  <2>1. CASE d = c
    <3>1. count'[x] = count[x] + 1 /\ pc'[c] = "triage"
      BY <1>3, <2>1 DEF TypeOK, Subscribe
    <3>2. calls'[x] <= Allowance(count[x])
      BY <1>3 DEF Subscribe, WithinDeliveries
    <3>3. count'[x] - 1 = count[x]
      BY <3>1 DEF TypeOK
    <3> QED
      BY <2>1, <3>1, <3>2, <3>3 DEF BudgetOf
  <2>2. CASE d # c
    <3>1. batch'[d] = batch[d] /\ poison'[d] = poison[d] /\ pc'[d] = pc[d] /\ attempt'[d] = attempt[d] /\ calls'[x] = calls[x]
      BY <1>3, <2>2 DEF TypeOK, Subscribe
    <3>2. owner[x] = d /\ x <= cursor /\ cursor \in Nat
      BY <3>1, HeldIsDelivered DEF TypeOK
    <3>3. x \notin Drained(c) /\ x \notin Fresh(c)
      BY <2>2, <3>2, DrainedIsOwn DEF OwnPending, Fresh, Entries
    <3>4. count'[x] = count[x]
      BY <1>3, <3>3 DEF TypeOK, Subscribe
    <3> QED
      BY <3>1, <3>4 DEF Budget, BudgetOf, Untouched, IsCurrent
  <2> QED
    BY <2>1, <2>2
<1>4. ASSUME NEW c \in Consumers, NEW e \in Entries, Triage(c, e)
      PROVE  BudgetOf(d, x)'
  <2>1. UNCHANGED <<count, calls, batch, poison, attempt>> /\ IsCurrent(c, e) /\ pc[c] = "triage"
    BY <1>4 DEF Triage, At, busVars
  <2>2. IsCurrent(d, x)' <=> IsCurrent(d, x)
    BY <2>1 DEF IsCurrent
  <2>3. CASE d = c /\ x = e
    <3>1. pc'[c] \in {"archive", "ack", "start", "gate"}
      BY <1>4 DEF TypeOK, Triage, Goto
    <3> QED
      BY <1>4, <2>1, <2>2, <2>3, <3>1 DEF Budget, BudgetOf, Untouched, Triage, Goto, TypeOK
  <2>4. CASE d = c /\ x # e
    BY <2>1, <2>2, <2>4, OneCurrent DEF Budget, BudgetOf, Untouched
  <2>5. CASE d # c
    <3>1. pc'[d] = pc[d]
      BY <1>4, <2>5 DEF TypeOK, Triage, Goto
    <3> QED
      BY <2>1, <2>2, <3>1 DEF Budget, BudgetOf, Untouched
  <2> QED
    BY <2>3, <2>4, <2>5
<1>5. ASSUME NEW c \in Consumers, NEW e \in Entries, Gate(c, e)
      PROVE  BudgetOf(d, x)'
  <2>1. CASE UNCHANGED <<batch, poison>>
    <3>1. UNCHANGED <<count, calls, attempt, poison>> /\ x \in batch[d]
      BY <1>5, <2>1 DEF Gate, busVars, TypeOK
    <3>2. IsCurrent(d, x)' <=> IsCurrent(d, x)
      BY <2>1 DEF IsCurrent
    <3>3. CASE d = c /\ x = e
      <4>1. pc[c] = "gate" /\ IsCurrent(c, e) /\ pc'[c] \in {"start", "ack", "triage", "idle"}
        BY <1>5 DEF TypeOK, Gate, At, Goto, Finish
      <4> QED
        BY <2>1, <3>1, <3>2, <3>3, <4>1 DEF Budget, BudgetOf, Untouched
    <3>4. CASE d = c /\ x # e
      BY <1>5, <2>1, <3>1, <3>2, <3>4, OneCurrent DEF Budget, BudgetOf, Untouched, Gate, At
    <3>5. CASE d # c
      <4>1. pc'[d] = pc[d]
        BY <1>5, <3>5 DEF TypeOK, Gate, Goto, Finish
      <4> QED
        BY <2>1, <3>1, <3>2, <4>1 DEF Budget, BudgetOf, Untouched
    <3> QED
      BY <3>3, <3>4, <3>5
  <2>2. CASE Finish(c, e)
    <3>1. UNCHANGED <<count, calls, attempt>> /\ Finish(c, e)
      BY <1>5, <2>2 DEF Gate, busVars
    <3>2. CASE d = c
      <4>1. x \in batch[c] /\ x # e /\ pc'[c] = "triage"
        BY <3>1, <3>2 DEF TypeOK, Finish, Goto
      <4>2. ~IsCurrent(c, x)
        BY <1>5, <4>1, OneCurrent DEF Gate, At
      <4>3. Untouched(c, x)
        BY <4>1, <4>2 DEF Untouched
      <4>4. calls[x] <= Allowance(count[x] - 1)
        BY <4>3 DEF Budget, BudgetOf
      <4> QED
        BY <3>1, <3>2, <4>1, <4>4 DEF BudgetOf
    <3>3. CASE d # c
      BY <3>1, <3>3 DEF TypeOK, Budget, BudgetOf, Untouched, IsCurrent, Finish, Goto
    <3> QED
      BY <3>2, <3>3
  <2> QED
    BY <1>5, <2>1, <2>2 DEF Gate
<1>6. ASSUME NEW c \in Consumers, NEW e \in Entries, StartRun(c, e)
      PROVE  BudgetOf(d, x)'
  <2>1. UNCHANGED <<count, calls, batch, poison>>
    BY <1>6 DEF StartRun, busVars
  <2>2. IsCurrent(d, x)' <=> IsCurrent(d, x)
    BY <2>1 DEF IsCurrent
  <2>3. CASE d = c /\ x = e
    <3>1. pc[c] = "start" /\ IsCurrent(c, e) /\ pc'[c] = "handle" /\ attempt'[c] = 1
      BY <1>6 DEF TypeOK, StartRun, At, Goto
    <3>2. calls[e] <= Allowance(count[e] - 1) /\ e \notin poison[c]
      BY <3>1, <2>3 DEF Budget, BudgetOf, Untouched, IsCurrent
    <3>3. Allowance(count[e] - 1) \in Nat
      BY <2>1, <2>3, HeldIsDelivered, AllowanceFacts
    <3>4. calls'[x] <= Allowance(count'[x] - 1) + attempt'[d] - 1
      BY <2>1, <2>3, <3>1, <3>2, <3>3 DEF TypeOK
    <3> QED
      BY <2>1, <2>2, <2>3, <3>1, <3>2, <3>4 DEF BudgetOf, Untouched
  <2>4. CASE d = c /\ x # e
    BY <1>6, <2>1, <2>2, <2>4, OneCurrent DEF Budget, BudgetOf, Untouched, StartRun, At
  <2>5. CASE d # c
    <3>1. pc'[d] = pc[d] /\ attempt'[d] = attempt[d]
      BY <1>6, <2>5 DEF TypeOK, StartRun, Goto
    <3> QED
      BY <2>1, <2>2, <3>1 DEF Budget, BudgetOf, Untouched
  <2> QED
    BY <2>3, <2>4, <2>5
<1>7. ASSUME NEW c \in Consumers, NEW e \in Entries, Handle(c, e)
      PROVE  BudgetOf(d, x)'
  <2>1. UNCHANGED <<count, batch, poison>> /\ IsCurrent(c, e) /\ pc[c] = "handle"
    BY <1>7 DEF Handle, At, busVars
  <2>2. IsCurrent(d, x)' <=> IsCurrent(d, x)
    BY <2>1 DEF IsCurrent
  <2>3. CASE d = c /\ x = e
    <3>1. calls[e] <= Allowance(count[e] - 1) + attempt[c] - 1 /\ e \notin poison[c]
      BY <2>1 DEF Budget, BudgetOf
    <3>2. Allowance(count[e] - 1) \in Nat
      BY <2>1, <2>3, HeldIsDelivered, AllowanceFacts
    <3>3. calls'[e] = calls[e] + 1 /\ pc'[c] \notin {"triage", "gate", "start"}
      BY <1>7, <2>1 DEF TypeOK, Handle, Goto
    <3>4. pc'[c] = "handle" => attempt'[c] = attempt[c] + 1
      BY <1>7, <2>1 DEF TypeOK, Handle, Goto
    <3>5. pc'[c] = "handle" => calls'[e] <= Allowance(count'[e] - 1) + attempt'[c] - 1
      BY <2>1, <3>1, <3>2, <3>3, <3>4 DEF TypeOK
    <3> QED
      BY <2>1, <2>2, <2>3, <3>1, <3>3, <3>5 DEF BudgetOf, Untouched
  <2>4. CASE d = c /\ x # e
    <3>1. calls'[x] = calls[x] /\ ~IsCurrent(d, x)
      BY <1>7, <2>1, <2>4, OneCurrent DEF TypeOK, Handle
    <3>2. Untouched(d, x)
      BY <2>1, <3>1 DEF Untouched
    <3> QED
      BY <2>1, <2>2, <3>1, <3>2 DEF Budget, BudgetOf
  <2>5. CASE d # c
    <3>1. pc'[d] = pc[d] /\ attempt'[d] = attempt[d]
      BY <1>7, <2>5 DEF TypeOK, Handle, Goto
    <3>2. x # e
      BY <2>1, <2>5, OneHolder DEF IsCurrent
    <3>3. calls'[x] = calls[x]
      BY <1>7, <3>2 DEF TypeOK, Handle
    <3> QED
      BY <2>1, <2>2, <3>1, <3>3 DEF Budget, BudgetOf, Untouched
  <2> QED
    BY <2>3, <2>4, <2>5
<1>8. ASSUME NEW c \in Consumers, NEW e \in Entries, Archive(c, e)
      PROVE  BudgetOf(d, x)'
  <2>1. UNCHANGED <<count, calls, batch, poison, attempt>> /\ IsCurrent(c, e) /\ pc[c] = "archive"
    BY <1>8 DEF Archive, At, busVars
  <2>2. IsCurrent(d, x)' <=> IsCurrent(d, x)
    BY <2>1 DEF IsCurrent
  <2>3. CASE d = c /\ x = e
    <3>1. pc'[c] \in {"publish"}
      BY <1>8 DEF TypeOK, Archive, Goto
    <3> QED
      BY <1>8, <2>1, <2>2, <2>3, <3>1 DEF Budget, BudgetOf, Untouched, Archive, Goto, TypeOK
  <2>4. CASE d = c /\ x # e
    BY <2>1, <2>2, <2>4, OneCurrent DEF Budget, BudgetOf, Untouched
  <2>5. CASE d # c
    <3>1. pc'[d] = pc[d]
      BY <1>8, <2>5 DEF TypeOK, Archive, Goto
    <3> QED
      BY <2>1, <2>2, <3>1 DEF Budget, BudgetOf, Untouched
  <2> QED
    BY <2>3, <2>4, <2>5
<1>9. ASSUME NEW c \in Consumers, NEW e \in Entries, Emit(c, e)
      PROVE  BudgetOf(d, x)'
  <2>1. UNCHANGED <<count, calls, batch, poison, attempt>> /\ IsCurrent(c, e) /\ pc[c] = "publish"
    BY <1>9 DEF Emit, At, busVars
  <2>2. IsCurrent(d, x)' <=> IsCurrent(d, x)
    BY <2>1 DEF IsCurrent
  <2>3. CASE d = c /\ x = e
    <3>1. pc'[c] \in {"ack", "end"}
      BY <1>9 DEF TypeOK, Emit, Goto
    <3> QED
      BY <1>9, <2>1, <2>2, <2>3, <3>1 DEF Budget, BudgetOf, Untouched, Emit, Goto, TypeOK
  <2>4. CASE d = c /\ x # e
    BY <2>1, <2>2, <2>4, OneCurrent DEF Budget, BudgetOf, Untouched
  <2>5. CASE d # c
    <3>1. pc'[d] = pc[d]
      BY <1>9, <2>5 DEF TypeOK, Emit, Goto
    <3> QED
      BY <2>1, <2>2, <3>1 DEF Budget, BudgetOf, Untouched
  <2> QED
    BY <2>3, <2>4, <2>5
<1>10. ASSUME NEW c \in Consumers, NEW e \in Entries, EndRun(c, e)
      PROVE  BudgetOf(d, x)'
  <2>1. UNCHANGED <<count, calls, batch, poison, attempt>> /\ IsCurrent(c, e) /\ pc[c] = "end"
    BY <1>10 DEF EndRun, At, busVars
  <2>2. IsCurrent(d, x)' <=> IsCurrent(d, x)
    BY <2>1 DEF IsCurrent
  <2>3. CASE d = c /\ x = e
    <3>1. pc'[c] \in {"archive", "remember"}
      BY <1>10 DEF TypeOK, EndRun, Goto
    <3> QED
      BY <1>10, <2>1, <2>2, <2>3, <3>1 DEF Budget, BudgetOf, Untouched, EndRun, Goto, TypeOK
  <2>4. CASE d = c /\ x # e
    BY <2>1, <2>2, <2>4, OneCurrent DEF Budget, BudgetOf, Untouched
  <2>5. CASE d # c
    <3>1. pc'[d] = pc[d]
      BY <1>10, <2>5 DEF TypeOK, EndRun, Goto
    <3> QED
      BY <2>1, <2>2, <3>1 DEF Budget, BudgetOf, Untouched
  <2> QED
    BY <2>3, <2>4, <2>5
<1>11. ASSUME NEW c \in Consumers, NEW e \in Entries, Remember(c, e)
      PROVE  BudgetOf(d, x)'
  <2>1. UNCHANGED <<count, calls, batch, poison, attempt>> /\ IsCurrent(c, e) /\ pc[c] = "remember"
    BY <1>11 DEF Remember, At, busVars
  <2>2. IsCurrent(d, x)' <=> IsCurrent(d, x)
    BY <2>1 DEF IsCurrent
  <2>3. CASE d = c /\ x = e
    <3>1. pc'[c] \in {"ack"}
      BY <1>11 DEF TypeOK, Remember, Goto
    <3> QED
      BY <1>11, <2>1, <2>2, <2>3, <3>1 DEF Budget, BudgetOf, Untouched, Remember, Goto, TypeOK
  <2>4. CASE d = c /\ x # e
    BY <2>1, <2>2, <2>4, OneCurrent DEF Budget, BudgetOf, Untouched
  <2>5. CASE d # c
    <3>1. pc'[d] = pc[d]
      BY <1>11, <2>5 DEF TypeOK, Remember, Goto
    <3> QED
      BY <2>1, <2>2, <3>1 DEF Budget, BudgetOf, Untouched
  <2> QED
    BY <2>3, <2>4, <2>5
<1>12. ASSUME NEW c \in Consumers, NEW e \in Entries, Ack(c, e)
      PROVE  BudgetOf(d, x)'
  <2>1. UNCHANGED <<count, calls, attempt>> /\ Finish(c, e)
    BY <1>12 DEF Ack, busVars
  <2>2. CASE d = c
    <3>1. x \in batch[c] /\ x # e /\ pc'[c] = "triage"
      BY <2>1, <2>2 DEF TypeOK, Finish, Goto
    <3>2. ~IsCurrent(c, x)
      BY <1>12, <3>1, OneCurrent DEF Ack, At
    <3>3. Untouched(c, x)
      BY <3>1, <3>2 DEF Untouched
    <3>4. calls[x] <= Allowance(count[x] - 1)
      BY <3>3 DEF Budget, BudgetOf
    <3> QED
      BY <2>1, <2>2, <3>1, <3>4 DEF BudgetOf
  <2>3. CASE d # c
    BY <2>1, <2>3 DEF TypeOK, Budget, BudgetOf, Untouched, IsCurrent, Finish, Goto
  <2> QED
    BY <2>2, <2>3
<1>13. ASSUME NEW c \in Consumers, LoopError(c)
      PROVE  BudgetOf(d, x)'
  <2>1. CASE d = c
    BY <1>13, <2>1 DEF TypeOK, LoopError, Drop
  <2>2. CASE d # c
    BY <1>13, <2>2 DEF TypeOK, Budget, BudgetOf, Untouched, IsCurrent, LoopError, Drop, Goto,
       busVars
  <2> QED
    BY <2>1, <2>2
<1>14. ASSUME NEW c \in Consumers, Vanish(c)
      PROVE  BudgetOf(d, x)'
  <2>1. CASE d = c
    BY <1>14, <2>1 DEF TypeOK, Vanish, Drop
  <2>2. CASE d # c
    BY <1>14, <2>2 DEF TypeOK, Budget, BudgetOf, Untouched, IsCurrent, Vanish, Drop, Goto,
       busVars
  <2> QED
    BY <2>1, <2>2
<1>15. CASE UNCHANGED vars
  BY <1>15 DEF Budget, BudgetOf, Untouched, IsCurrent, TypeOK, vars, config, busVars, dbVars,
     procVars
<1> QED
  BY <1>1, <1>2, <1>3, <1>4, <1>5, <1>6, <1>7, <1>8, <1>9, <1>10,
     <1>11, <1>12, <1>13, <1>14, <1>15 DEF Next, Step, Process

\* Every step keeps the calls within what the deliveries so far allow.
LEMMA NextWithinDeliveries ==
  TypeOK /\ TypeOK' /\ Holding /\ Budget /\ WithinDeliveries /\ [Next]_vars => WithinDeliveries'
<1> SUFFICES ASSUME TypeOK, TypeOK', Holding, Budget, WithinDeliveries, [Next]_vars,
                    NEW x \in Entries
             PROVE  (calls[x] <= Allowance(count[x]))'
  BY DEF WithinDeliveries
<1>1. calls[x] <= Allowance(count[x])
  BY DEF WithinDeliveries
<1>2. ASSUME NEW c \in Consumers, Subscribe(c)
      PROVE  (calls[x] <= Allowance(count[x]))'
  <2>1. calls'[x] = calls[x] /\ count[x] <= count'[x]
    BY <1>2 DEF TypeOK, Subscribe
  <2>2. Allowance(count[x]) <= Allowance(count'[x])
    BY <2>1, AllowanceMonotone DEF TypeOK
  <2>3. Allowance(count[x]) \in Nat /\ Allowance(count'[x]) \in Nat
    BY AllowanceFacts DEF TypeOK
  <2> QED
    BY <1>1, <2>1, <2>2, <2>3 DEF TypeOK
<1>3. ASSUME NEW c \in Consumers, NEW e \in Entries, Handle(c, e)
      PROVE  (calls[x] <= Allowance(count[x]))'
  <2>1. CASE x = e
    <3>1. IsCurrent(c, e) /\ pc[c] = "handle" /\ calls'[e] = calls[e] + 1 /\ count' = count
      BY <1>3 DEF TypeOK, Handle, At, busVars
    <3>2. calls[e] <= Allowance(count[e] - 1) + attempt[c] - 1
      BY <3>1 DEF Budget, BudgetOf
    <3>3. Allowance(count[e] - 1) \in Nat /\ Allowance(count[e] - 1 + 1) = Allowance(count[e] - 1) + MaxAttempts
      BY <3>1, HeldIsDelivered, AllowanceFacts DEF IsCurrent
    <3>4. count[e] - 1 + 1 = count[e]
      BY DEF TypeOK
    <3>5. attempt[c] \in 1..MaxAttempts
      BY DEF TypeOK
    <3> QED
      BY <2>1, <3>1, <3>2, <3>3, <3>4, <3>5, RuntimeAssumption DEF TypeOK
  <2>2. CASE x # e
    BY <1>1, <1>3, <2>2 DEF TypeOK, Handle, busVars
  <2> QED
    BY <2>1, <2>2
<1>4. CASE UNCHANGED <<calls, count>>
  BY <1>1, <1>4
<1> QED
  BY <1>2, <1>3, <1>4
  DEF Next, Step, Process, Publish, SentinelDecides, Triage, Gate, StartRun, Archive, Emit,
      EndRun, Remember, Ack, LoopError, Vanish, vars, busVars

-----------------------------------------------------------------------------
(* The safety properties, one step each.                                   *)

\* What was dealt with stays dealt with.
LEMMA AccountedStays ==
  ASSUME TypeOK, NEW e \in Entries, Accounted(e), [Next]_vars
  PROVE  Accounted(e)'
<1>1. remembered \subseteq remembered' /\ mode' = mode
  BY DEF Next, Step, Process, Publish, SentinelDecides, Subscribe, Triage, Gate, StartRun,
     Handle,
      Archive, Emit, EndRun, Remember, Ack, LoopError, Vanish, vars, config, dbVars
<1>2. Deadlettered(e) => Deadlettered(e)'
  <2>1. ASSUME NEW c \in Consumers, NEW x \in Entries, Emit(c, x), Deadlettered(e)
        PROVE  Deadlettered(e)'
    BY <2>1 DEF TypeOK, Emit, Deadlettered, Kinds
  <2>2. CASE UNCHANGED published
    BY <2>2 DEF Deadlettered
  <2> QED
    BY <2>1, <2>2 DEF Next, Step, Process, Publish, SentinelDecides, Subscribe, Triage, Gate,
       StartRun, Handle,
      Archive, EndRun, Remember, Ack, LoopError, Vanish, vars
<1>3. verdict[e] = "fail" => verdict'[e] = "fail"
  <2>1. ASSUME NEW x \in Entries, NEW v \in {"pass", "fail"}, SentinelDecides(x, v), verdict[e] = "fail"
        PROVE  verdict'[e] = "fail"
    BY <2>1 DEF TypeOK, SentinelDecides
  <2>2. CASE UNCHANGED verdict
    BY <2>2
  <2> QED
    BY <2>1, <2>2 DEF Next, Step, Process, Publish, Subscribe, Triage, Gate, StartRun,
       Handle, Archive,
      Emit, EndRun, Remember, Ack, LoopError, Vanish, vars, dbVars
<1> QED
  BY <1>1, <1>2, <1>3 DEF Accounted, DroppedByGate

\* Every step that settles an entry settles one that is accounted for.
LEMMA NextNothingLost ==
  TypeOK /\ AckJustified /\ NothingLost /\ [Next]_vars => NothingLost'
<1> SUFFICES ASSUME TypeOK, AckJustified, NothingLost, [Next]_vars,
                    NEW x \in Entries, Settled(x)'
             PROVE  Accounted(x)'
  BY DEF NothingLost, Accounted
<1>1. Settled(x) => Accounted(x)'
  BY AccountedStays DEF NothingLost, Accounted
<1>2. ASSUME NEW c \in Consumers, Subscribe(c)
      PROVE  Settled(x)
  <2>1. x \notin Fresh(c)
    BY <1>2, RuntimeAssumption DEF Settled, Subscribe
  <2>2. cursor' \in cursor..tail
    BY <1>2, NewCursorInStream DEF Subscribe
  <2> QED
    BY <1>2, <2>1, <2>2 DEF TypeOK, Settled, Subscribe, Fresh, Entries
<1>3. ASSUME NEW c \in Consumers, NEW e \in Entries, Ack(c, e)
      PROVE  Accounted(x)'
  <2>1. CASE x = e
    <3>1. Accounted(e)
      BY <1>3 DEF AckJustified, AckReady, Ack, At
    <3> QED
      BY <2>1, <3>1, AccountedStays
  <2>2. CASE x # e
    BY <1>1, <1>3, <2>2 DEF TypeOK, Settled, Ack
  <2> QED
    BY <2>1, <2>2
<1>4. CASE UNCHANGED <<cursor, owner>>
  BY <1>1, <1>4 DEF Settled
<1> QED
  BY <1>1, <1>2, <1>3, <1>4 DEF Next, Step, Process, Publish, SentinelDecides, Triage, Gate,
     StartRun, Handle, Archive,
      Emit, EndRun, Remember, LoopError, Vanish, vars, busVars

\* Every step that records a key has a published result for it.
LEMMA NextRememberedHasResult ==
  TypeOK /\ ResultBeforeRecord /\ RememberedHasResult /\ [Next]_vars => RememberedHasResult'
<1> SUFFICES ASSUME TypeOK, ResultBeforeRecord, RememberedHasResult, [Next]_vars,
                    NEW k \in remembered'
             PROVE  \E e \in Entries : KeyOf[e] = k /\ published'[e]["result"] > 0
  BY DEF RememberedHasResult
<1>1. \A e \in Entries : published[e]["result"] > 0 => published'[e]["result"] > 0
  <2>1. ASSUME NEW c \in Consumers, NEW x \in Entries, Emit(c, x)
        PROVE  \A e \in Entries : published[e]["result"] > 0 => published'[e]["result"] > 0
    BY <2>1 DEF TypeOK, Emit, Kinds
  <2>2. CASE UNCHANGED published
    BY <2>2
  <2> QED
    BY <2>1, <2>2 DEF Next, Step, Process, Publish, SentinelDecides, Subscribe, Triage, Gate,
       StartRun, Handle,
      Archive, EndRun, Remember, Ack, LoopError, Vanish, vars
<1>2. CASE k \in remembered
  BY <1>1, <1>2 DEF RememberedHasResult
<1>3. ASSUME NEW c \in Consumers, NEW e \in Entries, Remember(c, e), k \notin remembered
      PROVE  KeyOf[e] = k /\ published'[e]["result"] > 0
  <2>1. k = KeyOf[e]
    BY <1>3 DEF Remember
  <2>2. published[e]["result"] > 0
    BY <1>3 DEF Remember, At, ResultBeforeRecord, RecordReady
  <2> QED
    BY <1>1, <2>1, <2>2
<1>4. CASE UNCHANGED remembered
  BY <1>2, <1>4
<1> QED
  BY <1>2, <1>3, <1>4 DEF Next, Step, Process, Publish, SentinelDecides, Subscribe, Triage,
     Gate, StartRun, Handle,
      Archive, Emit, EndRun, Remember, Ack, LoopError, Vanish, vars, dbVars

\* Every step keeps the audit trail ahead of the topics.
LEMMA NextArchivedFirst ==
  TypeOK /\ ArchiveAhead /\ ArchivedFirst /\ [Next]_vars => ArchivedFirst'
<1> SUFFICES ASSUME TypeOK, ArchiveAhead, ArchivedFirst, [Next]_vars,
                    NEW x \in Entries, NEW k \in Kinds
             PROVE  (published[x][k] <= archived[x][k])'
  BY DEF ArchivedFirst
<1>1. published[x][k] <= archived[x][k]
  BY DEF ArchivedFirst
<1>2. ASSUME NEW c \in Consumers, NEW e \in Entries, Archive(c, e)
      PROVE  (published[x][k] <= archived[x][k])'
  <2>1. archived'[x][k] \in {archived[x][k], archived[x][k] + 1} /\ published' = published
    BY <1>2 DEF TypeOK, Archive
  <2> QED
    BY <1>1, <2>1 DEF TypeOK
<1>3. ASSUME NEW c \in Consumers, NEW e \in Entries, Emit(c, e)
      PROVE  (published[x][k] <= archived[x][k])'
  <2>1. published[e][kind[c]] < archived[e][kind[c]]
    BY <1>3 DEF ArchiveAhead, Emit, At
  <2>2. CASE x = e /\ k = kind[c]
    BY <1>3, <2>1, <2>2 DEF TypeOK, Emit, dbVars
  <2>3. CASE x # e \/ k # kind[c]
    BY <1>1, <1>3, <2>3 DEF TypeOK, Emit, dbVars
  <2> QED
    BY <2>2, <2>3
<1>4. CASE UNCHANGED <<published, archived>>
  BY <1>1, <1>4
<1> QED
  BY <1>2, <1>3, <1>4 DEF Next, Step, Process, Publish, SentinelDecides, Subscribe, Triage,
     Gate, StartRun, Handle,
      EndRun, Remember, Ack, LoopError, Vanish, vars, dbVars

\* The lowest n of n entries are all of them.
LEMMA LowestAll ==
  ASSUME NEW S, S \subseteq Entries
  PROVE  Lowest(S, Cardinality(S)) = S
<1>1. IsFiniteSet(Entries)
  BY RuntimeAssumption, FS_Interval DEF Entries
<1>2. IsFiniteSet(S)
  BY <1>1, FS_Subset
<1>3. ASSUME NEW e \in S
      PROVE  Cardinality({x \in S : x < e}) < Cardinality(S)
  <2> DEFINE Below == {x \in S : x < e}
  <2>1. IsFiniteSet(Below) /\ Cardinality(Below) <= Cardinality(S)
        /\ (Cardinality(S) = Cardinality(Below) => S = Below)
    BY <1>2, FS_Subset, Below \subseteq S
  <2>2. e \notin Below
    BY RuntimeAssumption DEF Entries
  <2>3. Cardinality(Below) \in Nat /\ Cardinality(S) \in Nat
    BY <1>2, <2>1, FS_CardinalityType
  <2>4. S # Below
    BY <2>2
  <2> QED
    BY <2>1, <2>3, <2>4
<1> QED
  BY <1>3 DEF Lowest

\* A consumer drains its own pending entries from the lowest up.
LEMMA DrainedIsInitial ==
  ASSUME NEW c \in Consumers, NEW d \in Drained(c), NEW e \in OwnPending(c), e <= d
  PROVE  e \in Drained(c)
<1> DEFINE Own == OwnPending(c)
           Below(x) == {y \in Own : y < x}
<1>1. IsFiniteSet(Entries)
  BY RuntimeAssumption, FS_Interval DEF Entries
<1>2. IsFiniteSet(Own) /\ Own \subseteq Entries
  BY <1>1, FS_Subset DEF OwnPending
<1>3. IsFiniteSet(Below(d)) /\ IsFiniteSet(Below(e))
  BY <1>2, FS_Subset, Below(d) \subseteq Own, Below(e) \subseteq Own
<1>4. d \in Own /\ d \in Int /\ e \in Int /\ Cardinality(Below(d)) < BatchSize
  BY <1>2, RuntimeAssumption DEF Drained, Lowest, Entries
<1>5. Below(e) \subseteq Below(d)
  BY <1>2, <1>4, RuntimeAssumption DEF Entries
<1>6. Cardinality(Below(e)) <= Cardinality(Below(d))
  BY <1>3, <1>5, FS_Subset
<1>7. Cardinality(Below(e)) \in Nat /\ Cardinality(Below(d)) \in Nat
  BY <1>3, FS_CardinalityType
<1>8. Cardinality(Below(e)) < BatchSize
  BY <1>4, <1>6, <1>7, RuntimeAssumption
<1> QED
  BY <1>8 DEF Drained, Lowest

\* The XPENDING that reads the counts answers for the whole drain when no other
\* consumer has anything pending (redis.py:239, 276-294).
LEMMA AloneReadsAllCounts ==
  ASSUME TypeOK, Holding, Alone, NEW c \in Consumers, c \in deployed
  PROVE  CountsRead(c) = Drained(c)
<1> DEFINE InRange == {e \in Entries : /\ owner[e] # NoConsumer
                                       /\ \E x \in Drained(c) : x <= e
                                       /\ \E x \in Drained(c) : e <= x}
<1>1. \A e \in Entries : owner[e] # NoConsumer => owner[e] = c
  BY DEF Alone, Holding
<1>2. Drained(c) \subseteq OwnPending(c) /\ OwnPending(c) \subseteq Entries
  BY DrainedIsOwn DEF OwnPending
<1>3. Drained(c) \subseteq InRange
  <2> SUFFICES ASSUME NEW e \in Drained(c) PROVE e \in InRange
    OBVIOUS
  <2>1. e \in Entries /\ owner[e] # NoConsumer /\ e <= e
    BY <1>2, RuntimeAssumption DEF OwnPending, Entries
  <2> QED
    BY <2>1
<1>4. InRange \subseteq Drained(c)
  <2> SUFFICES ASSUME NEW e \in InRange PROVE e \in Drained(c)
    OBVIOUS
  <2>1. e \in OwnPending(c)
    BY <1>1 DEF OwnPending
  <2>2. PICK d \in Drained(c) : e <= d
    OBVIOUS
  <2> QED
    BY <2>1, <2>2, DrainedIsInitial
<1>5. InRange = Drained(c)
  BY <1>3, <1>4
<1>6. CountsRead(c) = Lowest(Drained(c), Cardinality(Drained(c)))
  BY <1>5 DEF CountsRead
<1> QED
  BY <1>2, <1>6, LowestAll

\* Every step keeps a consumer alone in its group informed of true counts.
LEMMA NextCountsTold ==
  TypeOK /\ TypeOK' /\ Holding /\ CountsTold /\ [Next]_vars => CountsTold'
<1> SUFFICES ASSUME TypeOK, TypeOK', Holding, CountsTold, [Next]_vars, Alone',
                    NEW d \in Consumers, NEW x \in Entries,
                    (x \in batch[d])', (x \notin poison[d])'
             PROVE  (count[x] < MaxDeliveries)'
  BY DEF CountsTold
<1>1. Alone
  BY DEF Alone, Next, Step, Process, Publish, SentinelDecides, Subscribe, Triage, Gate,
     StartRun, Handle,
      Archive, Emit, EndRun, Remember, Ack, LoopError, Vanish, vars, config
<1>2. ASSUME NEW c \in Consumers, Subscribe(c)
      PROVE  (count[x] < MaxDeliveries)'
  <2>1. c \in deployed
    BY <1>2 DEF TypeOK, Subscribe
  <2>2. CASE d = c
    <3>1. x \in Drained(c) \cup Fresh(c) /\ x \notin ReportedPoison(c)
      BY <1>2, <2>2 DEF TypeOK, Subscribe
    <3>2. count'[x] = count[x] + 1
      BY <1>2, <3>1 DEF Subscribe
    <3>3. CASE x \in Drained(c)
      <4>1. Reported(c, x) = count[x] + 1
        BY <1>1, <2>1, <3>3, AloneReadsAllCounts DEF Reported
      <4> QED
        BY <3>1, <3>2, <4>1, RuntimeAssumption DEF ReportedPoison, TypeOK
    <3>4. CASE x \notin Drained(c)
      <4>1. Reported(c, x) = 1 /\ cursor < x
        BY <3>1, <3>4 DEF Reported, Fresh
      <4>2. count[x] = 0
        BY <4>1 DEF Holding
      <4> QED
        BY <3>1, <3>2, <4>1, <4>2, RuntimeAssumption DEF ReportedPoison, TypeOK
    <3> QED
      BY <3>3, <3>4
  <2>3. CASE d # c
    <3>1. x \in batch[d]
      BY <1>2, <2>3 DEF TypeOK, Subscribe
    <3>2. owner[x] = d /\ owner[x] \in deployed
      BY <3>1, RuntimeAssumption DEF Holding
    <3> QED
      BY <1>1, <2>1, <2>3, <3>2 DEF Alone
  <2> QED
    BY <2>2, <2>3
<1>3. CASE count' = count /\ x \in batch[d] /\ x \notin poison[d]
  BY <1>1, <1>3 DEF CountsTold
<1>4. ASSUME NEW c \in Consumers, NEW e \in Entries, Finish(c, e), count' = count
      PROVE  x \in batch[d] /\ x \notin poison[d]
  BY <1>4 DEF TypeOK, Finish
<1>5. ASSUME NEW c \in Consumers, Drop(c), count' = count
      PROVE  x \in batch[d] /\ x \notin poison[d]
  BY <1>5 DEF TypeOK, Drop
<1>6. CASE UNCHANGED <<count, batch, poison>>
  BY <1>3, <1>6
<1> QED
  BY <1>2, <1>3, <1>4, <1>5, <1>6 DEF Next, Step, Process, Publish, SentinelDecides, Triage,
     Gate, StartRun, Handle, Archive,
      Emit, EndRun, Remember, Ack, LoopError, Vanish, vars, busVars, procVars

\* Every step keeps handle() within both budgets.
LEMMA NextAttemptsBounded ==
  TypeOK /\ TypeOK' /\ Budget /\ CountsTold /\ WithinDeliveries' /\ AttemptsBounded /\ [Next]_vars
    => AttemptsBounded'
<1> SUFFICES ASSUME TypeOK, TypeOK', Budget, CountsTold, WithinDeliveries', AttemptsBounded, [Next]_vars,
                    Alone', NEW x \in Entries
             PROVE  (calls[x] <= (MaxDeliveries - 1) * MaxAttempts)'
  BY DEF AttemptsBounded
<1>0. Alone
  BY DEF Alone, Next, Step, Process, Publish, SentinelDecides, Subscribe, Triage, Gate,
     StartRun, Handle,
      Archive, Emit, EndRun, Remember, Ack, LoopError, Vanish, vars, config
<1>1. calls[x] <= (MaxDeliveries - 1) * MaxAttempts
  BY <1>0 DEF AttemptsBounded
<1>2. ASSUME NEW c \in Consumers, NEW e \in Entries, Handle(c, e)
      PROVE  (calls[x] <= (MaxDeliveries - 1) * MaxAttempts)'
  <2>1. CASE x = e
    <3>1. count[e] < MaxDeliveries /\ count' = count
      BY <1>0, <1>2 DEF CountsTold, Budget, BudgetOf, Handle, At, IsCurrent, busVars
    <3>2. count'[e] <= MaxDeliveries - 1 /\ MaxDeliveries - 1 \in Nat
      BY <3>1, RuntimeAssumption DEF TypeOK
    <3>3. Allowance(count'[e]) <= Allowance(MaxDeliveries - 1)
      BY <3>2, AllowanceMonotone DEF TypeOK
    <3>4. calls'[e] <= Allowance(count'[e])
      BY DEF WithinDeliveries
    <3>5. Allowance(count'[e]) \in Nat /\ Allowance(MaxDeliveries - 1) \in Nat /\ calls'[e] \in Nat
      BY <3>2, AllowanceFacts DEF TypeOK
    <3>6. calls'[e] <= Allowance(MaxDeliveries - 1)
      BY <3>3, <3>4, <3>5
    <3> QED
      BY <2>1, <3>6 DEF Allowance
  <2>2. CASE x # e
    BY <1>1, <1>2, <2>2 DEF TypeOK, Handle
  <2> QED
    BY <2>1, <2>2
<1>3. CASE UNCHANGED calls
  BY <1>1, <1>3
<1> QED
  BY <1>2, <1>3 DEF Next, Step, Process, Publish, SentinelDecides, Subscribe, Triage, Gate,
     StartRun, Archive,
      Emit, EndRun, Remember, Ack, LoopError, Vanish, vars

\* Every step keeps handle() behind a passing verdict in strict mode.
LEMMA NextStrictWaitsForVerdict ==
  TypeOK /\ VerdictFirst /\ StrictWaitsForVerdict /\ [Next]_vars => StrictWaitsForVerdict'
<1> SUFFICES ASSUME TypeOK, VerdictFirst, StrictWaitsForVerdict, [Next]_vars,
                    NEW x \in Entries, mode' = "strict", calls'[x] > 0
             PROVE  verdict'[x] # "none"
  BY DEF StrictWaitsForVerdict
<1>0. mode = "strict"
  BY DEF Next, Step, Process, Publish, SentinelDecides, Subscribe, Triage, Gate, StartRun,
     Handle,
      Archive, Emit, EndRun, Remember, Ack, LoopError, Vanish, vars, config
<1>1. ASSUME NEW e \in Entries, NEW v \in {"pass", "fail"}, SentinelDecides(e, v)
      PROVE  verdict'[x] # "none"
  BY <1>0, <1>1 DEF TypeOK, StrictWaitsForVerdict, SentinelDecides
<1>2. ASSUME NEW c \in Consumers, NEW e \in Entries, Handle(c, e)
      PROVE  verdict'[x] # "none"
  BY <1>0, <1>2 DEF TypeOK, StrictWaitsForVerdict, VerdictFirst, Handle, At, dbVars
<1>3. CASE UNCHANGED <<calls, verdict>>
  BY <1>0, <1>3 DEF StrictWaitsForVerdict
<1> QED
  BY <1>1, <1>2, <1>3 DEF Next, Step, Process, Publish, Subscribe, Triage, Gate, StartRun,
     Archive, Emit,
      EndRun, Remember, Ack, LoopError, Vanish, vars, dbVars

-----------------------------------------------------------------------------
(* The inductive invariant.                                                *)

\* The invariant holds initially.
LEMMA InitIInv == Init => IInv
<1> SUFFICES ASSUME Init PROVE IInv
  OBVIOUS
<1>1. TypeOK
  BY InitTypeOK
<1>2. \A c \in Consumers : pc[c] = "idle" /\ batch[c] = {}
  BY DEF Init
<1>3. \A c \in Consumers, e \in Entries : ~IsCurrent(c, e)
  BY <1>2 DEF IsCurrent
<1>4. Holding
  BY DEF Init, Holding, Entries
<1>5. RunIsOpen /\ AckJustified /\ ResultBeforeRecord /\ ArchiveAhead /\ VerdictFirst
  BY <1>3 DEF RunIsOpen, Running, AckJustified, ResultBeforeRecord, ArchiveAhead, VerdictFirst
<1>6. Budget /\ CountsTold
  BY <1>2, <1>3 DEF Budget, BudgetOf, Untouched, CountsTold
<1>7. WithinDeliveries
  <2>1. Allowance(0) \in Nat
    BY AllowanceFacts
  <2> QED
    BY <2>1 DEF WithinDeliveries, Init
<1>8. AttemptsBounded
  <2>1. MaxDeliveries - 1 \in Nat
    BY RuntimeAssumption
  <2>2. (MaxDeliveries - 1) * MaxAttempts \in Nat
    BY <2>1, AllowanceFacts DEF Allowance
  <2> QED
    BY <2>2 DEF AttemptsBounded, Init
<1>9. NothingLost /\ RememberedHasResult /\ ArchivedFirst /\ StrictWaitsForVerdict
  BY DEF Init, NothingLost, Settled, RememberedHasResult, ArchivedFirst,
         StrictWaitsForVerdict, Entries
<1> QED
  BY <1>1, <1>4, <1>5, <1>6, <1>7, <1>8, <1>9 DEF IInv

\* The invariant is inductive.
LEMMA NextIInv == IInv /\ [Next]_vars => IInv'
<1> SUFFICES ASSUME IInv, [Next]_vars PROVE IInv'
  OBVIOUS
<1>1. TypeOK'
  BY NextTypeOK DEF IInv
<1>2. Holding'
  BY NextHolding DEF IInv
<1>3. RunIsOpen'
  BY <1>1, NextRunIsOpen DEF IInv
<1>4. AckJustified' /\ NothingLost'
  BY <1>1, NextAckJustified, NextNothingLost DEF IInv
<1>5. ResultBeforeRecord' /\ RememberedHasResult'
  BY <1>1, NextResultBeforeRecord, NextRememberedHasResult DEF IInv
<1>6. ArchiveAhead' /\ ArchivedFirst'
  BY <1>1, NextArchiveAhead, NextArchivedFirst DEF IInv
<1>7. WithinDeliveries' /\ Budget' /\ CountsTold'
  BY <1>1, NextWithinDeliveries, NextBudget, NextCountsTold DEF IInv
<1>8. AttemptsBounded'
  BY <1>1, <1>7, NextAttemptsBounded DEF IInv
<1>9. VerdictFirst' /\ StrictWaitsForVerdict'
  BY <1>1, NextVerdictFirst, NextStrictWaitsForVerdict DEF IInv
<1> QED
  BY <1>1, <1>2, <1>3, <1>4, <1>5, <1>6, <1>7, <1>8, <1>9 DEF IInv

\* IInv holds in every reachable state of the runtime.
THEOREM InductiveInvariant == Spec => []IInv
BY InitIInv, NextIInv, PTL DEF Spec

\* Every variable of the runtime keeps its type; in particular the cursor never
\* passes the tail and no agent_runs count goes below zero (redis.py:246-274,
\* base.py:375-412).
THEOREM TypeCorrect == Spec => []TypeOK
<1>1. IInv => TypeOK
  BY DEF IInv
<1> QED
  BY <1>1, InductiveInvariant, PTL

\* However often and wherever consumers die, an entry leaves the pending list
\* only once it was dealt with (base.py:212-266).
THEOREM NoMessageLost == Spec => []NothingLost
<1>1. IInv => NothingLost
  BY DEF IInv
<1> QED
  BY <1>1, InductiveInvariant, PTL

\* The idempotency record never suppresses the only emission of a result
\* (base.py:219-223, 255-258).
THEOREM RecordAfterResult == Spec => []RememberedHasResult
<1>1. IInv => RememberedHasResult
  BY DEF IInv
<1> QED
  BY <1>1, InductiveInvariant, PTL

\* Nothing reaches a topic that the audit trail does not hold (base.py:332-339).
THEOREM AuditComesFirst == Spec => []ArchivedFirst
<1>1. IInv => ArchivedFirst
  BY DEF IInv
<1> QED
  BY <1>1, InductiveInvariant, PTL

\* Redelivery and in-place retry together call handle() at most
\* (MaxDeliveries - 1) * MaxAttempts times in a group of one consumer
\* (base.py:213-217, 236-254).
THEOREM AttemptsAreBounded == Spec => []AttemptsBounded
<1>1. IInv => AttemptsBounded
  BY DEF IInv
<1> QED
  BY <1>1, InductiveInvariant, PTL

\* Under the strict gate handle() sees nothing Sentinel has not looked at
\* (base.py:225-229, 270-303).
THEOREM StrictGateHolds == Spec => []StrictWaitsForVerdict
<1>1. IInv => StrictWaitsForVerdict
  BY DEF IInv
<1> QED
  BY <1>1, InductiveInvariant, PTL

-----------------------------------------------------------------------------
(* Runs left open.                                                         *)

\* Sets of consumers are finite, and a larger one counts more.
LEMMA MoreConsumers ==
  ASSUME NEW S, NEW T, T \subseteq Consumers, S \subseteq T
  PROVE  /\ IsFiniteSet(S) /\ Cardinality(S) \in Nat
         /\ IsFiniteSet(T) /\ Cardinality(T) \in Nat
         /\ Cardinality(S) <= Cardinality(T)
<1>1. IsFiniteSet(T)
  BY RuntimeAssumption, FS_Subset
<1>2. IsFiniteSet(S) /\ Cardinality(S) <= Cardinality(T)
  BY <1>1, FS_Subset
<1> QED
  BY <1>1, <1>2, FS_CardinalityType

\* Without one of its members a finite set counts one less at most.
LEMMA OneLess ==
  ASSUME NEW S, NEW x, IsFiniteSet(S)
  PROVE  Cardinality(S \ {x}) >= Cardinality(S) - 1
<1> DEFINE m == Cardinality(S)
           n == Cardinality(S \ {x})
<1>1. m \in Nat
  BY FS_CardinalityType
<1>2. n = m - 1 \/ n = m
  BY FS_RemoveElement, Zenon
<1> HIDE DEF m, n
<1>3. n >= m - 1
  BY <1>1, <1>2
<1> QED
  BY <1>3 DEF m, n

\* A step that opens no row, and ends no run, keeps the rows explained.
LEMMA RunsGoOn ==
  ASSUME TypeOK, OpenRunsExplained, NEW x \in Entries,
         openRuns'[x] = openRuns[x], faults' = faults, Running(x) \subseteq Running(x)'
  PROVE  openRuns'[x] <= Cardinality(Running(x)') + faults'
<1> DEFINE T == Running(x)'
<1>1. T \subseteq Consumers
  BY DEF Running
<1>2. openRuns[x] \in Nat /\ faults \in Nat
  BY DEF TypeOK
<1>3. openRuns[x] <= Cardinality(Running(x)) + faults
  BY DEF OpenRunsExplained
<1> HIDE DEF T
<1>4. Cardinality(Running(x)) \in Nat /\ Cardinality(T) \in Nat
      /\ Cardinality(Running(x)) <= Cardinality(T)
  BY <1>1, MoreConsumers DEF T
<1>5. openRuns'[x] <= Cardinality(T) + faults'
  BY <1>2, <1>3, <1>4
<1> QED
  BY <1>5 DEF T

\* A fault ends one run at most, and explains it from then on.
LEMMA FaultExplains ==
  ASSUME TypeOK, OpenRunsExplained, NEW x \in Entries, NEW c,
         openRuns'[x] = openRuns[x], faults' = faults + 1,
         Running(x) \ {c} \subseteq Running(x)'
  PROVE  openRuns'[x] <= Cardinality(Running(x)') + faults'
<1> DEFINE T == Running(x)'
<1>1. T \subseteq Consumers /\ Running(x) \subseteq Consumers /\ Running(x) \ {c} \subseteq T
  BY DEF Running
<1>2. openRuns[x] \in Nat /\ faults \in Nat
  BY DEF TypeOK
<1>3. openRuns[x] <= Cardinality(Running(x)) + faults
  BY DEF OpenRunsExplained
<1> HIDE DEF T
<1>4. IsFiniteSet(Running(x)) /\ Cardinality(Running(x)) \in Nat
  BY <1>1, MoreConsumers
<1>5. Cardinality(T) \in Nat /\ Cardinality(Running(x) \ {c}) <= Cardinality(T)
  BY <1>1, MoreConsumers
<1>6. Cardinality(Running(x) \ {c}) >= Cardinality(Running(x)) - 1
  BY <1>4, OneLess
<1>7. openRuns'[x] <= Cardinality(T) + faults'
  <2>1. Cardinality(Running(x) \ {c}) \in Nat
    BY <1>1, MoreConsumers
  <2> QED
    BY <1>2, <1>3, <1>4, <1>5, <1>6, <2>1
<1> QED
  BY <1>7 DEF T

\* Every step keeps the rows explained: the claim needs Holding only, so that
\* nobody starts an entry that another consumer works on.
LEMMA NextOpenRunsExplained ==
  TypeOK /\ Holding /\ OpenRunsExplained /\ [Next]_vars => OpenRunsExplained'
<1> SUFFICES ASSUME TypeOK, Holding, OpenRunsExplained, [Next]_vars, NEW x \in Entries
             PROVE  openRuns'[x] <= Cardinality(Running(x)') + faults'
  BY DEF OpenRunsExplained
<1>1. CASE Publish
  <2>1. Running(x) \subseteq Running(x)'
    BY <1>1 DEF Running, IsCurrent, Publish, procVars
  <2> QED
    BY <1>1, <2>1, RunsGoOn DEF Publish, dbVars
<1>2. ASSUME NEW e \in Entries, NEW v \in {"pass", "fail"}, SentinelDecides(e, v)
      PROVE  openRuns'[x] <= Cardinality(Running(x)') + faults'
  <2>1. Running(x) \subseteq Running(x)'
    BY <1>2 DEF Running, IsCurrent, SentinelDecides, procVars
  <2> QED
    BY <1>2, <2>1, RunsGoOn DEF SentinelDecides
<1>3. ASSUME NEW c \in Consumers, Subscribe(c)
      PROVE  openRuns'[x] <= Cardinality(Running(x)') + faults'
  <2>1. Running(x) \subseteq Running(x)'
    BY <1>3 DEF TypeOK, Running, IsCurrent, Subscribe
  <2> QED
    BY <1>3, <2>1, RunsGoOn DEF Subscribe, dbVars
<1>4. ASSUME NEW c \in Consumers, NEW e \in Entries, Triage(c, e)
      PROVE  openRuns'[x] <= Cardinality(Running(x)') + faults'
  <2>1. Running(x) \subseteq Running(x)'
    BY <1>4 DEF TypeOK, Running, IsCurrent, Triage, At, Goto
  <2> QED
    BY <1>4, <2>1, RunsGoOn DEF Triage, dbVars
<1>5. ASSUME NEW c \in Consumers, NEW e \in Entries, Gate(c, e)
      PROVE  openRuns'[x] <= Cardinality(Running(x)') + faults'
  <2>1. Running(x) \subseteq Running(x)'
    BY <1>5 DEF TypeOK, Running, IsCurrent, Gate, At, Goto, Finish
  <2> QED
    BY <1>5, <2>1, RunsGoOn DEF Gate, dbVars
<1>6. ASSUME NEW c \in Consumers, NEW e \in Entries, StartRun(c, e)
      PROVE  openRuns'[x] <= Cardinality(Running(x)') + faults'
  <2>1. Running(x) \subseteq Running(x)'
    BY <1>6 DEF TypeOK, Running, IsCurrent, StartRun, At, Goto
  <2>2. CASE x # e
    BY <1>6, <2>1, <2>2, RunsGoOn DEF TypeOK, StartRun
  <2>3. CASE x = e
    <3> DEFINE T == Running(x)'
    <3>1. c \in T /\ c \notin Running(x)
      BY <1>6, <2>3 DEF TypeOK, Running, IsCurrent, StartRun, At, Goto
    <3>2. T \subseteq Consumers /\ Running(x) \cup {c} \subseteq T
      BY <2>1, <3>1 DEF Running
    <3>3. openRuns'[x] = openRuns[x] + 1 /\ faults' = faults
      BY <1>6, <2>3 DEF TypeOK, StartRun
    <3>4. openRuns[x] \in Nat /\ faults \in Nat
          /\ openRuns[x] <= Cardinality(Running(x)) + faults
      BY DEF TypeOK, OpenRunsExplained
    <3> HIDE DEF T
    <3>5. IsFiniteSet(Running(x)) /\ Cardinality(Running(x)) \in Nat
      BY <3>2, MoreConsumers
    <3>6. Cardinality(T) \in Nat /\ Cardinality(Running(x) \cup {c}) <= Cardinality(T)
      BY <3>2, MoreConsumers
    <3>7. Cardinality(Running(x) \cup {c}) = Cardinality(Running(x)) + 1
      BY <3>1, <3>5, FS_AddElement
    <3>8. openRuns'[x] <= Cardinality(T) + faults'
      BY <3>3, <3>4, <3>5, <3>6, <3>7
    <3> QED
      BY <3>8 DEF T
  <2> QED
    BY <2>2, <2>3
<1>7. ASSUME NEW c \in Consumers, NEW e \in Entries, Handle(c, e)
      PROVE  openRuns'[x] <= Cardinality(Running(x)') + faults'
  <2>1. Running(x) \subseteq Running(x)'
    BY <1>7 DEF TypeOK, Running, IsCurrent, Handle, At, Goto
  <2> QED
    BY <1>7, <2>1, RunsGoOn DEF Handle, dbVars
<1>8. ASSUME NEW c \in Consumers, NEW e \in Entries, Archive(c, e)
      PROVE  openRuns'[x] <= Cardinality(Running(x)') + faults'
  <2>1. Running(x) \subseteq Running(x)'
    BY <1>8 DEF TypeOK, Running, IsCurrent, Archive, At, Goto
  <2> QED
    BY <1>8, <2>1, RunsGoOn DEF Archive
<1>9. ASSUME NEW c \in Consumers, NEW e \in Entries, Emit(c, e)
      PROVE  openRuns'[x] <= Cardinality(Running(x)') + faults'
  <2>1. Running(x) \subseteq Running(x)'
    BY <1>9 DEF TypeOK, Running, IsCurrent, Emit, At, Goto
  <2> QED
    BY <1>9, <2>1, RunsGoOn DEF Emit, dbVars
<1>10. ASSUME NEW c \in Consumers, NEW e \in Entries, EndRun(c, e)
      PROVE  openRuns'[x] <= Cardinality(Running(x)') + faults'
  <2>1. Running(x) \ {c} \subseteq Running(x)'
    BY <1>10 DEF TypeOK, Running, IsCurrent, EndRun, At, Goto
  <2>2. CASE x # e
    <3>1. c \notin Running(x)
      BY <1>10, <2>2, OneCurrent DEF Running, EndRun, At
    <3>2. Running(x) \subseteq Running(x)'
      BY <2>1, <3>1
    <3> QED
      BY <1>10, <2>2, <3>2, RunsGoOn DEF TypeOK, EndRun
  <2>3. CASE x = e
    <3> DEFINE T == Running(x)'
    <3>1. T \subseteq Consumers /\ Running(x) \subseteq Consumers /\ Running(x) \ {c} \subseteq T
      BY <2>1 DEF Running
    <3>2. openRuns'[x] = openRuns[x] - 1 /\ faults' = faults
      BY <1>10, <2>3 DEF TypeOK, EndRun
    <3>3. openRuns[x] \in Nat /\ faults \in Nat
          /\ openRuns[x] <= Cardinality(Running(x)) + faults
      BY DEF TypeOK, OpenRunsExplained
    <3> HIDE DEF T
    <3>4. IsFiniteSet(Running(x)) /\ Cardinality(Running(x)) \in Nat
      BY <3>1, MoreConsumers
    <3>5. Cardinality(T) \in Nat /\ Cardinality(Running(x) \ {c}) <= Cardinality(T)
          /\ Cardinality(Running(x) \ {c}) \in Nat
      BY <3>1, MoreConsumers
    <3>6. Cardinality(Running(x) \ {c}) >= Cardinality(Running(x)) - 1
      BY <3>4, OneLess
    <3>7. openRuns'[x] <= Cardinality(T) + faults'
      BY <3>2, <3>3, <3>4, <3>5, <3>6
    <3> QED
      BY <3>7 DEF T
  <2> QED
    BY <2>2, <2>3
<1>11. ASSUME NEW c \in Consumers, NEW e \in Entries, Remember(c, e)
      PROVE  openRuns'[x] <= Cardinality(Running(x)') + faults'
  <2>1. Running(x) \subseteq Running(x)'
    BY <1>11 DEF TypeOK, Running, IsCurrent, Remember, At, Goto
  <2> QED
    BY <1>11, <2>1, RunsGoOn DEF Remember
<1>12. ASSUME NEW c \in Consumers, NEW e \in Entries, Ack(c, e)
      PROVE  openRuns'[x] <= Cardinality(Running(x)') + faults'
  <2>1. Running(x) \subseteq Running(x)'
    BY <1>12 DEF TypeOK, Running, IsCurrent, Ack, At, Finish, Goto
  <2> QED
    BY <1>12, <2>1, RunsGoOn DEF Ack, dbVars
<1>13. ASSUME NEW c \in Consumers, LoopError(c)
      PROVE  openRuns'[x] <= Cardinality(Running(x)') + faults'
  <2>1. Running(x) \ {c} \subseteq Running(x)'
    BY <1>13 DEF TypeOK, Running, IsCurrent, LoopError, Drop, Goto
  <2> QED
    BY <1>13, <2>1, FaultExplains DEF LoopError, dbVars
<1>14. ASSUME NEW c \in Consumers, Vanish(c)
      PROVE  openRuns'[x] <= Cardinality(Running(x)') + faults'
  <2>1. Running(x) \ {c} \subseteq Running(x)'
    BY <1>14 DEF TypeOK, Running, IsCurrent, Vanish, Drop, Goto
  <2> QED
    BY <1>14, <2>1, FaultExplains DEF Vanish, dbVars
<1>15. CASE UNCHANGED vars
  <2>1. Running(x) \subseteq Running(x)'
    BY <1>15 DEF Running, IsCurrent, vars, procVars
  <2> QED
    BY <1>15, <2>1, RunsGoOn DEF vars, dbVars
<1> QED
  BY <1>1, <1>2, <1>3, <1>4, <1>5, <1>6, <1>7, <1>8, <1>9, <1>10,
     <1>11, <1>12, <1>13, <1>14, <1>15 DEF Next, Step, Process

\* An agent_runs row that stays 'running' is a run in progress or one that a fault
\* cut short, for any number of consumers (base.py:375-412).
THEOREM RunsLeftOpen == Spec => []OpenRunsExplained
<1>1. Init => OpenRunsExplained
  <2> SUFFICES ASSUME Init, NEW e \in Entries
               PROVE  openRuns[e] <= Cardinality(Running(e)) + faults
    BY DEF OpenRunsExplained
  <2>1. Cardinality(Running(e)) \in Nat
    BY MoreConsumers DEF Running
  <2> QED
    BY <2>1 DEF Init
<1>2. IInv /\ OpenRunsExplained /\ [Next]_vars => OpenRunsExplained'
  BY NextOpenRunsExplained DEF IInv
<1> QED
  BY <1>1, <1>2, InductiveInvariant, PTL DEF Spec

-----------------------------------------------------------------------------
(* One result for a key.  Until the key is recorded, whoever published a      *)
(* result under it is still at work or met a fault; from then on nobody new   *)
(* gets past the duplicate check.                                             *)

\* Two separate groups of the started consumers are no more than those.
LEMMA TwoGroups ==
  ASSUME NEW D, NEW P, NEW S, D \subseteq Consumers, P \subseteq D, S \subseteq D, P \cap S = {}
  PROVE  Cardinality(P) + Cardinality(S) <= Cardinality(D)
<1>1. IsFiniteSet(D) /\ IsFiniteSet(P) /\ IsFiniteSet(S)
  BY RuntimeAssumption, FS_Subset
<1>2. P \cup S \subseteq D
  OBVIOUS
<1>3. Cardinality(P \cup S) <= Cardinality(D)
  BY <1>1, <1>2, FS_Subset
<1>4. Cardinality(P \cup S) = Cardinality(P) + Cardinality(S) - Cardinality(P \cap S)
  BY <1>1, FS_Union
<1>5. Cardinality(P \cap S) = 0
  BY FS_EmptySet
<1>6. Cardinality(P) \in Nat /\ Cardinality(S) \in Nat /\ Cardinality(D) \in Nat
  BY <1>1, FS_CardinalityType
<1> DEFINE p == Cardinality(P)
           q == Cardinality(S)
           d == Cardinality(D)
           u == Cardinality(P \cup S)
           i == Cardinality(P \cap S)
<1>7. p \in Nat /\ q \in Nat /\ d \in Nat /\ u <= d /\ u = p + q - i /\ i = 0
  BY <1>3, <1>4, <1>5, <1>6
<1> HIDE DEF p, q, d, u, i
<1>8. p + q <= d
  BY <1>7
<1> QED
  BY <1>8 DEF p, q, d

\* A member more counts one more at most; one that is not there yet, exactly one.
LEMMA OneMore ==
  ASSUME NEW S, NEW x, IsFiniteSet(S)
  PROVE  /\ IsFiniteSet(S \cup {x}) /\ Cardinality(S) \in Nat
         /\ Cardinality(S \cup {x}) \in Nat
         /\ Cardinality(S \cup {x}) <= Cardinality(S) + 1
         /\ x \notin S => Cardinality(S \cup {x}) = Cardinality(S) + 1
<1>1. IsFiniteSet(S \cup {x}) /\ Cardinality(S) \in Nat
  BY FS_AddElement, FS_CardinalityType
<1>2. CASE x \in S
  <2>1. S \cup {x} = S
    BY <1>2
  <2> DEFINE n == Cardinality(S)
  <2>2. n \in Nat => n <= n + 1
    <3> HIDE DEF n
    <3> QED
      OBVIOUS
  <2> QED
    BY <1>1, <1>2, <2>1, <2>2
<1>3. CASE x \notin S
  <2>1. Cardinality(S \cup {x}) = Cardinality(S) + 1
    BY <1>3, FS_AddElement
  <2> DEFINE n == Cardinality(S)
             m == Cardinality(S \cup {x})
  <2>2. n \in Nat /\ m = n + 1
    BY <1>1, <2>1
  <2> HIDE DEF n, m
  <2>3. m \in Nat /\ m <= n + 1 /\ m = n + 1
    BY <2>2
  <2> QED
    BY <1>1, <2>3 DEF n, m
<1> QED
  BY <1>2, <1>3

\* Whoever is at work was started, and is in one of the two groups at most.
LEMMA GroupsDeployed ==
  ASSUME TypeOK, Holding, NEW k
  PROVE  /\ Deciding(k) \subseteq deployed /\ Decided(k) \subseteq deployed
         /\ Deciding(k) \cap Decided(k) = {}
<1>1. ASSUME NEW c \in Consumers, NEW e \in Entries, IsCurrent(c, e) PROVE c \in deployed
  BY <1>1, RuntimeAssumption DEF Holding, IsCurrent
<1>2. ASSUME NEW c \in Deciding(k), c \in Decided(k) PROVE FALSE
  BY <1>2 DEF Deciding, Decided
<1> QED
  BY <1>1, <1>2 DEF Deciding, Decided

\* Results stay where no one publishes.
LEMMA ResultsStay ==
  ASSUME NEW k, published' = published
  PROVE  ResultsOf(k)' = ResultsOf(k)
BY DEF ResultsOf

\* The others are where they were.
LEMMA Bystanders ==
  ASSUME NEW c \in Consumers, NEW k,
         \A d \in Consumers \ {c} :
           batch'[d] = batch[d] /\ pc'[d] = pc[d] /\ kind'[d] = kind[d]
  PROVE  \A d \in Consumers \ {c} :
           (d \in Deciding(k)' <=> d \in Deciding(k)) /\ (d \in Decided(k)' <=> d \in Decided(k))
BY DEF Deciding, Decided, IsCurrent

\* A step that publishes nothing, lets nobody past the check and through with
\* nothing keeps the count.
LEMMA KeptOn ==
  ASSUME TypeOK, NEW k \in Keys, KeptFor(k),
         UNCHANGED <<published, deployed, remembered, faults>>,
         Deciding(k)' \subseteq Deciding(k), Decided(k) \subseteq Decided(k)'
  PROVE  KeptFor(k)'
<1> DEFINE P == Deciding(k)'
           S == Decided(k)'
           R == ResultsOf(k)
<1>1. ResultsOf(k)' = R
  BY ResultsStay
<1>2. P \subseteq Consumers /\ S \subseteq Consumers /\ Deciding(k) \subseteq Consumers
  BY DEF Deciding, Decided
<1> HIDE DEF P, S
<1>3. /\ Cardinality(P) \in Nat /\ Cardinality(Deciding(k)) \in Nat
      /\ Cardinality(P) <= Cardinality(Deciding(k))
  BY <1>2, MoreConsumers DEF P
<1>4. /\ Cardinality(S) \in Nat /\ Cardinality(Decided(k)) \in Nat
      /\ Cardinality(Decided(k)) <= Cardinality(S)
  BY <1>2, MoreConsumers DEF S
<1>5. /\ IsFiniteSet(R) /\ Cardinality(R) \in Nat /\ faults \in Nat
      /\ Cardinality(deployed) \in Nat
  BY FS_CardinalityType, MoreConsumers DEF KeptFor, TypeOK
<1>6. k \notin remembered => Cardinality(R) <= Cardinality(S) + faults
  BY <1>4, <1>5 DEF KeptFor
<1>7. Cardinality(R) + Cardinality(P) <= Cardinality(deployed) + faults
  BY <1>3, <1>5 DEF KeptFor
<1> QED
  BY <1>1, <1>5, <1>6, <1>7 DEF KeptFor, P, S

\* As seen from the consumer that takes the step.
LEMMA KeptByStep ==
  ASSUME TypeOK, NEW k \in Keys, KeptFor(k), NEW c \in Consumers,
         \A d \in Consumers \ {c} :
           batch'[d] = batch[d] /\ pc'[d] = pc[d] /\ kind'[d] = kind[d],
         UNCHANGED <<published, deployed, remembered, faults>>,
         c \in Deciding(k)' => c \in Deciding(k),
         c \in Decided(k) => c \in Decided(k)'
  PROVE  KeptFor(k)'
<1>1. Deciding(k)' \subseteq Consumers /\ Decided(k) \subseteq Consumers
  BY DEF Deciding, Decided
<1>2. \A d \in Consumers \ {c} :
        (d \in Deciding(k)' <=> d \in Deciding(k)) /\ (d \in Decided(k)' <=> d \in Decided(k))
  BY Bystanders
<1>3. Deciding(k)' \subseteq Deciding(k) /\ Decided(k) \subseteq Decided(k)'
  BY <1>1, <1>2
<1> QED
  BY <1>3, KeptOn

\* A fault drops one consumer at most, and pays for it.
LEMMA KeptByFault ==
  ASSUME TypeOK, NEW k \in Keys, KeptFor(k), NEW c \in Consumers,
         \A d \in Consumers \ {c} :
           batch'[d] = batch[d] /\ pc'[d] = pc[d] /\ kind'[d] = kind[d],
         UNCHANGED <<published, deployed, remembered>>, faults' = faults + 1,
         c \notin Deciding(k)'
  PROVE  KeptFor(k)'
<1> DEFINE P == Deciding(k)'
           S == Decided(k)'
           R == ResultsOf(k)
           B == Decided(k)
<1>1. ResultsOf(k)' = R
  BY ResultsStay
<1>2. P \subseteq Consumers /\ S \subseteq Consumers /\ Deciding(k) \subseteq Consumers
      /\ B \subseteq Consumers
  BY DEF Deciding, Decided
<1>3. P \subseteq Deciding(k) /\ B \ {c} \subseteq S
  BY <1>2, Bystanders
<1> HIDE DEF P, S, B
<1>4. /\ Cardinality(P) \in Nat /\ Cardinality(Deciding(k)) \in Nat
      /\ Cardinality(P) <= Cardinality(Deciding(k))
  BY <1>2, <1>3, MoreConsumers
<1>5. /\ IsFiniteSet(B) /\ Cardinality(B) \in Nat /\ Cardinality(S) \in Nat
      /\ Cardinality(B \ {c}) \in Nat /\ Cardinality(B \ {c}) <= Cardinality(S)
  BY <1>2, <1>3, MoreConsumers
<1>6. Cardinality(B \ {c}) >= Cardinality(B) - 1
  BY <1>5, OneLess
<1>7. /\ IsFiniteSet(R) /\ Cardinality(R) \in Nat /\ faults \in Nat
      /\ Cardinality(deployed) \in Nat
  BY FS_CardinalityType, MoreConsumers DEF KeptFor, TypeOK
<1>8. k \notin remembered => Cardinality(R) <= Cardinality(S) + (faults + 1)
  <2>1. k \notin remembered => Cardinality(R) <= Cardinality(B) + faults
    BY DEF KeptFor, B
  <2> QED
    BY <2>1, <1>5, <1>6, <1>7
<1>9. Cardinality(R) + Cardinality(P) <= Cardinality(deployed) + (faults + 1)
  BY <1>4, <1>7 DEF KeptFor
<1> QED
  BY <1>1, <1>7, <1>8, <1>9 DEF KeptFor, P, S

\* Recording k itself closes the first count; the second goes on.
LEMMA KeptRecorded ==
  ASSUME TypeOK, NEW k \in Keys, KeptFor(k), k \in remembered',
         UNCHANGED <<published, deployed, faults>>, Deciding(k)' = Deciding(k)
  PROVE  KeptFor(k)'
<1>1. ResultsOf(k)' = ResultsOf(k)
  BY ResultsStay
<1> QED
  BY <1>1 DEF KeptFor

\* Passing the check while k is not recorded: whoever published is still counted
\* among those through with k, or among the faults.
LEMMA KeptChecked ==
  ASSUME TypeOK, Holding, NEW k \in Keys, KeptFor(k), NEW c \in deployed, k \notin remembered,
         UNCHANGED <<published, deployed, remembered, faults>>,
         c \notin Decided(k),
         Deciding(k)' \subseteq Deciding(k) \cup {c}, Decided(k)' = Decided(k)
  PROVE  KeptFor(k)'
<1> DEFINE P == Deciding(k)'
           S == Decided(k)
           R == ResultsOf(k)
<1>1. ResultsOf(k)' = R
  BY ResultsStay
<1>2. P \subseteq deployed /\ S \subseteq deployed /\ P \cap S = {} /\ deployed \subseteq Consumers
  BY GroupsDeployed DEF TypeOK
<1>3. IsFiniteSet(R) /\ Cardinality(R) \in Nat /\ faults \in Nat
  BY FS_CardinalityType DEF KeptFor, TypeOK
<1>4. Cardinality(R) <= Cardinality(S) + faults
  BY DEF KeptFor
<1> HIDE DEF P, S, R
<1>5. Cardinality(P) + Cardinality(S) <= Cardinality(deployed)
  BY <1>2, TwoGroups
<1>6. Cardinality(P) \in Nat /\ Cardinality(S) \in Nat /\ Cardinality(deployed) \in Nat
  BY <1>2, MoreConsumers
<1>7. Cardinality(R) + Cardinality(P) <= Cardinality(deployed) + faults
  BY <1>3, <1>4, <1>5, <1>6
<1>8. UNCHANGED <<deployed, remembered, faults>> /\ Decided(k)' = S
  BY DEF S
<1> QED
  BY <1>1, <1>3, <1>4, <1>7, <1>8 DEF KeptFor, P

\* The publication itself: one result more, and its consumer changes groups.
LEMMA KeptPublished ==
  ASSUME TypeOK, NEW k \in Keys, KeptFor(k), NEW c \in Consumers, NEW r,
         UNCHANGED <<deployed, remembered, faults>>,
         ResultsOf(k)' = ResultsOf(k) \cup {r},
         c \in Deciding(k), Deciding(k)' = Deciding(k) \ {c},
         c \notin Decided(k), Decided(k)' = Decided(k) \cup {c}
  PROVE  KeptFor(k)'
<1> DEFINE P == Deciding(k)
           S == Decided(k)
           R == ResultsOf(k)
           Q == R \cup {r}
<1>1. P \subseteq Consumers /\ S \subseteq Consumers /\ deployed \subseteq Consumers
  BY DEF Deciding, Decided, TypeOK
<1>2. IsFiniteSet(R) /\ faults \in Nat
  BY DEF KeptFor, TypeOK
<1>3. k \notin remembered => Cardinality(R) <= Cardinality(S) + faults
  BY DEF KeptFor
<1>4. Cardinality(R) + Cardinality(P) <= Cardinality(deployed) + faults
  BY DEF KeptFor
<1>5. c \in P /\ c \notin S
  OBVIOUS
<1>6. ResultsOf(k)' = Q /\ Deciding(k)' = P \ {c} /\ Decided(k)' = S \cup {c}
      /\ UNCHANGED <<deployed, remembered, faults>>
  OBVIOUS
<1> HIDE DEF P, S, R
<1>7. /\ IsFiniteSet(P) /\ IsFiniteSet(S)
      /\ Cardinality(P) \in Nat /\ Cardinality(S) \in Nat /\ Cardinality(deployed) \in Nat
  BY <1>1, MoreConsumers
<1>8. /\ IsFiniteSet(Q) /\ Cardinality(R) \in Nat /\ Cardinality(Q) \in Nat
      /\ Cardinality(Q) <= Cardinality(R) + 1
  BY <1>2, OneMore
<1> HIDE DEF Q
<1>9. Cardinality(P \ {c}) = Cardinality(P) - 1
  BY <1>5, <1>7, FS_RemoveElement
<1>10. Cardinality(S \cup {c}) = Cardinality(S) + 1
  BY <1>5, <1>7, FS_AddElement
<1>11. k \notin remembered => Cardinality(Q) <= Cardinality(S \cup {c}) + faults
  BY <1>2, <1>3, <1>7, <1>8, <1>10
<1>12. Cardinality(Q) + Cardinality(P \ {c}) <= Cardinality(deployed) + faults
  BY <1>2, <1>4, <1>7, <1>8, <1>9
<1> QED
  BY <1>6, <1>8, <1>11, <1>12 DEF KeptFor

\* Under another key, or a deadletter: the results of k are what they were.
LEMMA KeptElsewhere ==
  ASSUME NEW k, KeptFor(k),
         UNCHANGED <<deployed, remembered, faults>>, ResultsOf(k)' = ResultsOf(k),
         Deciding(k)' = Deciding(k), Decided(k)' = Decided(k)
  PROVE  KeptFor(k)'
BY DEF KeptFor

\* Publishing a result under k adds one, with the next number of its entry.
LEMMA NewResult ==
  ASSUME TypeOK, NEW e \in Entries, NEW k, KeyOf[e] = k, NEW q, q = "result",
         published' = [published EXCEPT ![e][q] = @ + 1]
  PROVE  ResultsOf(k)' = ResultsOf(k) \cup {<<e, published[e]["result"] + 1>>}
<1> DEFINE n == published[e]["result"]
<1>1. n \in Nat /\ published'[e]["result"] = n + 1
  BY DEF TypeOK, Kinds
<1>2. \A x \in Entries : x # e => published'[x]["result"] = published[x]["result"]
  BY DEF TypeOK, Kinds
<1>3. \A x \in Entries \ {e} : 1..published'[x]["result"] = 1..published[x]["result"]
  BY <1>2
<1>4. 1..published'[e]["result"] = (1..n) \cup {n + 1}
  BY <1>1
<1> HIDE DEF n
<1>5. {e} \X (1..published'[e]["result"]) = ({e} \X (1..n)) \cup {<<e, n + 1>>}
  BY <1>4
<1>6. ASSUME NEW p PROVE p \in ResultsOf(k)' <=> p \in ResultsOf(k) \cup {<<e, n + 1>>}
  <2>1. p \in ResultsOf(k)' <=>
          \E x \in Entries : KeyOf[x] = k /\ p \in {x} \X (1..published'[x]["result"])
    BY DEF ResultsOf
  <2>2. p \in ResultsOf(k) <=>
          \E x \in Entries : KeyOf[x] = k /\ p \in {x} \X (1..published[x]["result"])
    BY DEF ResultsOf
  <2>3. p \in {e} \X (1..published'[e]["result"])
          <=> p \in {e} \X (1..published[e]["result"]) \/ p = <<e, n + 1>>
    BY <1>5 DEF n
  <2> QED
    BY <1>3, <2>1, <2>2, <2>3
<1> QED
  BY <1>6 DEF n

\* Publishing anything else adds none.
LEMMA NoNewResult ==
  ASSUME TypeOK, NEW e \in Entries, NEW k, NEW q \in Kinds,
         ~(q = "result" /\ KeyOf[e] = k),
         published' = [published EXCEPT ![e][q] = @ + 1]
  PROVE  ResultsOf(k)' = ResultsOf(k)
<1>1. \A x \in Entries : KeyOf[x] = k => published'[x]["result"] = published[x]["result"]
  BY DEF TypeOK, Kinds
<1> QED
  BY <1>1 DEF ResultsOf

\* Every step keeps the two counts of every key.
LEMMA NextResultsOnce ==
  TypeOK /\ Holding /\ ResultsOnce /\ [Next]_vars => ResultsOnce'
<1> SUFFICES ASSUME TypeOK, Holding, ResultsOnce, [Next]_vars, NEW k \in Keys
             PROVE  KeptFor(k)'
  BY DEF ResultsOnce, KeptFor
<1>0. KeptFor(k)
  BY DEF ResultsOnce, KeptFor
<1>1. CASE Publish
  <2>1. UNCHANGED <<published, deployed, remembered, faults, batch, pc, kind>>
    BY <1>1 DEF Publish, config, dbVars, procVars
  <2>2. Deciding(k)' = Deciding(k) /\ Decided(k)' = Decided(k)
    BY <2>1 DEF Deciding, Decided, IsCurrent
  <2> QED
    BY <1>0, <2>1, <2>2, KeptOn
<1>2. ASSUME NEW e \in Entries, NEW v \in {"pass", "fail"}, SentinelDecides(e, v)
      PROVE  KeptFor(k)'
  <2>1. UNCHANGED <<published, deployed, remembered, faults, batch, pc, kind>>
    BY <1>2 DEF SentinelDecides, config, procVars
  <2>2. Deciding(k)' = Deciding(k) /\ Decided(k)' = Decided(k)
    BY <2>1 DEF Deciding, Decided, IsCurrent
  <2> QED
    BY <1>0, <2>1, <2>2, KeptOn
<1>3. ASSUME NEW c \in Consumers, Subscribe(c)
      PROVE  KeptFor(k)'
  <2>1. \A d \in Consumers \ {c} :
          batch'[d] = batch[d] /\ pc'[d] = pc[d] /\ kind'[d] = kind[d]
    BY <1>3 DEF TypeOK, Subscribe
  <2>2. UNCHANGED <<published, deployed, remembered, faults>>
    BY <1>3 DEF Subscribe, config, dbVars
  <2>3. c \notin Deciding(k)'
    BY <1>3 DEF TypeOK, Subscribe, Deciding, IsCurrent
  <2>4. c \notin Decided(k)
    BY <1>3 DEF Subscribe, Decided
  <2> QED
    BY <1>0, <2>1, <2>2, <2>3, <2>4, KeptByStep
<1>4. ASSUME NEW c \in Consumers, NEW e \in Entries, Triage(c, e)
      PROVE  KeptFor(k)'
  <2>1. \A d \in Consumers \ {c} :
          batch'[d] = batch[d] /\ pc'[d] = pc[d] /\ kind'[d] = kind[d]
    BY <1>4 DEF TypeOK, Triage, Goto
  <2>2. UNCHANGED <<published, deployed, remembered, faults, batch>>
    BY <1>4 DEF Triage, config, dbVars
  <2>3. c \notin Decided(k) /\ c \notin Deciding(k)
    BY <1>4 DEF Triage, At, Decided, Deciding
  <2>4. pc' = [pc EXCEPT ![c] = pc'[c]] /\ pc'[c] \in {"archive", "ack", "start", "gate"}
    BY <1>4 DEF TypeOK, Triage, Goto
  <2>5. CASE c \notin Deciding(k)'
    BY <1>0, <2>1, <2>2, <2>3, <2>5, KeptByStep
  <2>6. CASE c \in Deciding(k)'
    <3>1. PICK x \in Entries : IsCurrent(c, x)' /\ KeyOf[x] = k
                               /\ \/ pc'[c] \in {"gate", "start", "handle"}
                                  \/ pc'[c] \in {"archive", "publish"} /\ kind'[c] = "result"
      BY <2>6 DEF Deciding
    <3>2. IsCurrent(c, e) /\ IsCurrent(c, x)
      BY <1>4, <2>2, <3>1 DEF Triage, At, IsCurrent
    <3>3. x = e
      BY <3>2, OneCurrent
    <3>4. KeyOf[e] \notin remembered
      BY <1>4, <3>1 DEF TypeOK, Triage, Goto
    <3>5. c \in deployed
      BY <1>4 DEF TypeOK, Triage, At
    <3>6. c \notin Decided(k)'
      BY <2>4 DEF Decided
    <3>7. \A d \in Consumers \ {c} :
            (d \in Deciding(k)' <=> d \in Deciding(k)) /\ (d \in Decided(k)' <=> d \in Decided(k))
      BY <2>1, Bystanders
    <3>8. Deciding(k)' \subseteq Consumers /\ Decided(k)' \subseteq Consumers
          /\ Decided(k) \subseteq Consumers
      BY DEF Deciding, Decided
    <3>9. Deciding(k)' \subseteq Deciding(k) \cup {c} /\ Decided(k)' = Decided(k)
      BY <2>3, <3>6, <3>7, <3>8
    <3> QED
      BY <1>0, <2>2, <2>3, <3>1, <3>3, <3>4, <3>5, <3>9, KeptChecked
  <2> QED
    BY <2>5, <2>6
<1>5. ASSUME NEW c \in Consumers, NEW e \in Entries, Gate(c, e)
      PROVE  KeptFor(k)'
  <2>1. \A d \in Consumers \ {c} :
          batch'[d] = batch[d] /\ pc'[d] = pc[d] /\ kind'[d] = kind[d]
    BY <1>5 DEF TypeOK, Gate, Goto, Finish
  <2>2. UNCHANGED <<published, deployed, remembered, faults>>
    BY <1>5 DEF Gate, config, dbVars
  <2>3. c \in Deciding(k)' => c \in Deciding(k)
    BY <1>5, RuntimeAssumption DEF TypeOK, Gate, At, Goto, Finish, Deciding, IsCurrent
  <2>4. c \in Decided(k) => c \in Decided(k)'
    BY <1>5, RuntimeAssumption DEF TypeOK, Gate, At, Goto, Finish, Decided, IsCurrent
  <2> QED
    BY <1>0, <2>1, <2>2, <2>3, <2>4, KeptByStep
<1>6. ASSUME NEW c \in Consumers, NEW e \in Entries, StartRun(c, e)
      PROVE  KeptFor(k)'
  <2>1. \A d \in Consumers \ {c} :
          batch'[d] = batch[d] /\ pc'[d] = pc[d] /\ kind'[d] = kind[d]
    BY <1>6 DEF TypeOK, StartRun, Goto
  <2>2. UNCHANGED <<published, deployed, remembered, faults>>
    BY <1>6 DEF StartRun, config
  <2>3. c \in Deciding(k)' => c \in Deciding(k)
    BY <1>6, RuntimeAssumption DEF TypeOK, StartRun, At, Goto, Deciding, IsCurrent
  <2>4. c \in Decided(k) => c \in Decided(k)'
    BY <1>6, RuntimeAssumption DEF TypeOK, StartRun, At, Goto, Decided, IsCurrent
  <2> QED
    BY <1>0, <2>1, <2>2, <2>3, <2>4, KeptByStep
<1>7. ASSUME NEW c \in Consumers, NEW e \in Entries, Handle(c, e)
      PROVE  KeptFor(k)'
  <2>1. \A d \in Consumers \ {c} :
          batch'[d] = batch[d] /\ pc'[d] = pc[d] /\ kind'[d] = kind[d]
    BY <1>7 DEF TypeOK, Handle, Goto
  <2>2. UNCHANGED <<published, deployed, remembered, faults>>
    BY <1>7 DEF Handle, config, dbVars
  <2>3. c \in Deciding(k)' => c \in Deciding(k)
    BY <1>7, RuntimeAssumption DEF TypeOK, Handle, At, Goto, Deciding, IsCurrent
  <2>4. c \in Decided(k) => c \in Decided(k)'
    BY <1>7, RuntimeAssumption DEF TypeOK, Handle, At, Goto, Decided, IsCurrent
  <2> QED
    BY <1>0, <2>1, <2>2, <2>3, <2>4, KeptByStep
<1>8. ASSUME NEW c \in Consumers, NEW e \in Entries, Archive(c, e)
      PROVE  KeptFor(k)'
  <2>1. \A d \in Consumers \ {c} :
          batch'[d] = batch[d] /\ pc'[d] = pc[d] /\ kind'[d] = kind[d]
    BY <1>8 DEF TypeOK, Archive, Goto
  <2>2. UNCHANGED <<published, deployed, remembered, faults>>
    BY <1>8 DEF Archive, config
  <2>3. c \in Deciding(k)' => c \in Deciding(k)
    BY <1>8, RuntimeAssumption DEF TypeOK, Archive, At, Goto, Deciding, IsCurrent
  <2>4. c \in Decided(k) => c \in Decided(k)'
    BY <1>8, RuntimeAssumption DEF TypeOK, Archive, At, Goto, Decided, IsCurrent
  <2> QED
    BY <1>0, <2>1, <2>2, <2>3, <2>4, KeptByStep
<1>9. ASSUME NEW c \in Consumers, NEW e \in Entries, Emit(c, e)
      PROVE  KeptFor(k)'
  <2>1. \A d \in Consumers \ {c} :
          batch'[d] = batch[d] /\ pc'[d] = pc[d] /\ kind'[d] = kind[d]
    BY <1>9 DEF TypeOK, Emit, Goto
  <2>2. UNCHANGED <<deployed, remembered, faults, batch, kind>>
    BY <1>9 DEF Emit, config, dbVars
  <2>3. pc[c] = "publish" /\ IsCurrent(c, e) /\ kind[c] \in Kinds
        /\ pc'[c] = (IF kind[c] = "deadletter" THEN "ack" ELSE "end")
    BY <1>9 DEF TypeOK, Emit, At, Goto
  <2>4. published' = [published EXCEPT ![e][kind[c]] = @ + 1]
    BY <1>9 DEF Emit
  <2>5. c \notin Decided(k) /\ c \notin Deciding(k)'
    BY <2>3 DEF Decided, Deciding
  <2>6. \A d \in Consumers \ {c} :
          (d \in Deciding(k)' <=> d \in Deciding(k)) /\ (d \in Decided(k)' <=> d \in Decided(k))
    BY <2>1, Bystanders
  <2>7. /\ Deciding(k) \subseteq Consumers /\ Decided(k) \subseteq Consumers
        /\ Deciding(k)' \subseteq Consumers /\ Decided(k)' \subseteq Consumers
    BY DEF Deciding, Decided
  <2>8. CASE kind[c] = "result" /\ KeyOf[e] = k
    <3>1. c \in Deciding(k)
      BY <2>3, <2>8 DEF Deciding
    <3>2. c \in Decided(k)'
      BY <2>2, <2>3, <2>8 DEF Decided, IsCurrent
    <3>3. Deciding(k)' = Deciding(k) \ {c} /\ Decided(k)' = Decided(k) \cup {c}
      BY <2>5, <2>6, <2>7, <3>1, <3>2
    <3>4. ResultsOf(k)' = ResultsOf(k) \cup {<<e, published[e]["result"] + 1>>}
      BY <2>4, <2>8, NewResult
    <3> QED
      BY <1>0, <2>2, <2>5, <3>1, <3>3, <3>4, KeptPublished
  <2>9. CASE ~(kind[c] = "result" /\ KeyOf[e] = k)
    <3>1. c \notin Deciding(k) /\ c \notin Decided(k)'
      <4>1. \A x \in Entries : IsCurrent(c, x) => x = e
        BY <2>3, OneCurrent
      <4>2. \A x \in Entries : IsCurrent(c, x)' => x = e
        BY <2>2, <4>1 DEF IsCurrent
      <4>3. c \notin Deciding(k)
        BY <2>3, <2>9, <4>1 DEF Deciding
      <4>4. c \notin Decided(k)'
        BY <2>2, <2>3, <2>9, <4>2 DEF Decided
      <4> QED
        BY <4>3, <4>4
    <3>2. Deciding(k)' = Deciding(k) /\ Decided(k)' = Decided(k)
      BY <2>5, <2>6, <2>7, <3>1
    <3>3. ResultsOf(k)' = ResultsOf(k)
      BY <2>3, <2>4, <2>9, NoNewResult
    <3> QED
      BY <1>0, <2>2, <3>2, <3>3, KeptElsewhere
  <2> QED
    BY <2>8, <2>9
<1>10. ASSUME NEW c \in Consumers, NEW e \in Entries, EndRun(c, e)
      PROVE  KeptFor(k)'
  <2>1. \A d \in Consumers \ {c} :
          batch'[d] = batch[d] /\ pc'[d] = pc[d] /\ kind'[d] = kind[d]
    BY <1>10 DEF TypeOK, EndRun, Goto
  <2>2. UNCHANGED <<published, deployed, remembered, faults>>
    BY <1>10 DEF EndRun, config
  <2>3. c \in Deciding(k)' => c \in Deciding(k)
    BY <1>10, RuntimeAssumption DEF TypeOK, EndRun, At, Goto, Deciding, IsCurrent
  <2>4. c \in Decided(k) => c \in Decided(k)'
    BY <1>10, RuntimeAssumption DEF TypeOK, EndRun, At, Goto, Decided, IsCurrent
  <2> QED
    BY <1>0, <2>1, <2>2, <2>3, <2>4, KeptByStep
<1>11. ASSUME NEW c \in Consumers, NEW e \in Entries, Remember(c, e)
      PROVE  KeptFor(k)'
  <2>1. \A d \in Consumers \ {c} :
          batch'[d] = batch[d] /\ pc'[d] = pc[d] /\ kind'[d] = kind[d]
    BY <1>11 DEF TypeOK, Remember, Goto
  <2>2. UNCHANGED <<published, deployed, faults, batch, kind>>
    BY <1>11 DEF Remember, config
  <2>3. pc[c] = "remember" /\ pc'[c] = "ack" /\ IsCurrent(c, e)
    BY <1>11 DEF TypeOK, Remember, At, Goto
  <2>4. c \notin Deciding(k) /\ c \notin Deciding(k)'
    BY <2>3 DEF Deciding
  <2>5. remembered' = remembered \cup {KeyOf[e]}
    BY <1>11 DEF Remember
  <2>6. CASE KeyOf[e] = k
    <3>1. Deciding(k)' \subseteq Consumers /\ Deciding(k) \subseteq Consumers
      BY DEF Deciding
    <3>2. Deciding(k)' = Deciding(k)
      BY <2>1, <2>4, <3>1, Bystanders
    <3> QED
      BY <1>0, <2>2, <2>5, <2>6, <3>2, KeptRecorded
  <2>7. CASE KeyOf[e] # k
    <3>1. c \notin Decided(k)
      BY <2>3, <2>7, OneCurrent DEF Decided
    <3>2. c \notin Decided(k)'
      BY <2>3 DEF Decided
    <3>3. Deciding(k)' = Deciding(k) /\ Decided(k)' = Decided(k)
      <4>1. /\ Deciding(k) \subseteq Consumers /\ Decided(k) \subseteq Consumers
            /\ Deciding(k)' \subseteq Consumers /\ Decided(k)' \subseteq Consumers
        BY DEF Deciding, Decided
      <4> QED
        BY <2>1, <2>4, <3>1, <3>2, <4>1, Bystanders
    <3>4. k \notin remembered' => k \notin remembered
      BY <2>5
    <3>5. ResultsOf(k)' = ResultsOf(k)
      BY <2>2, ResultsStay
    <3> QED
      BY <1>0, <2>2, <3>3, <3>4, <3>5 DEF KeptFor
  <2> QED
    BY <2>6, <2>7
<1>12. ASSUME NEW c \in Consumers, NEW e \in Entries, Ack(c, e)
      PROVE  KeptFor(k)'
  <2>1. \A d \in Consumers \ {c} :
          batch'[d] = batch[d] /\ pc'[d] = pc[d] /\ kind'[d] = kind[d]
    BY <1>12 DEF TypeOK, Ack, Goto, Finish
  <2>2. UNCHANGED <<published, deployed, remembered, faults>>
    BY <1>12 DEF Ack, config, dbVars
  <2>3. c \in Deciding(k)' => c \in Deciding(k)
    BY <1>12, RuntimeAssumption DEF TypeOK, Ack, At, Goto, Finish, Deciding, IsCurrent
  <2>4. c \in Decided(k) => c \in Decided(k)'
    BY <1>12, RuntimeAssumption DEF TypeOK, Ack, At, Goto, Finish, Decided, IsCurrent
  <2> QED
    BY <1>0, <2>1, <2>2, <2>3, <2>4, KeptByStep
<1>13. ASSUME NEW c \in Consumers, LoopError(c)
      PROVE  KeptFor(k)'
  <2>1. \A d \in Consumers \ {c} :
          batch'[d] = batch[d] /\ pc'[d] = pc[d] /\ kind'[d] = kind[d]
    BY <1>13 DEF TypeOK, LoopError, Drop, Goto
  <2>2. UNCHANGED <<published, deployed, remembered>> /\ faults' = faults + 1
    BY <1>13 DEF LoopError, config, dbVars
  <2>3. c \notin Deciding(k)'
    BY <1>13 DEF TypeOK, LoopError, Drop, Goto, Deciding, IsCurrent
  <2> QED
    BY <1>0, <2>1, <2>2, <2>3, KeptByFault
<1>14. ASSUME NEW c \in Consumers, Vanish(c)
      PROVE  KeptFor(k)'
  <2>1. \A d \in Consumers \ {c} :
          batch'[d] = batch[d] /\ pc'[d] = pc[d] /\ kind'[d] = kind[d]
    BY <1>14 DEF TypeOK, Vanish, Drop, Goto
  <2>2. UNCHANGED <<published, deployed, remembered>> /\ faults' = faults + 1
    BY <1>14 DEF Vanish, config, dbVars
  <2>3. c \notin Deciding(k)'
    BY <1>14 DEF TypeOK, Vanish, Drop, Goto, Deciding, IsCurrent
  <2> QED
    BY <1>0, <2>1, <2>2, <2>3, KeptByFault
<1>15. CASE UNCHANGED vars
  <2>1. UNCHANGED <<published, deployed, remembered, faults, batch, pc, kind>>
    BY <1>15 DEF vars, config, dbVars, procVars
  <2>2. Deciding(k)' = Deciding(k) /\ Decided(k)' = Decided(k)
    BY <2>1 DEF Deciding, Decided, IsCurrent
  <2> QED
    BY <1>0, <2>1, <2>2, KeptOn
<1> QED
  BY <1>1, <1>2, <1>3, <1>4, <1>5, <1>6, <1>7, <1>8, <1>9, <1>10,
     <1>11, <1>12, <1>13, <1>14, <1>15 DEF Next, Step, Process

\* One key yields one result; every further one costs a fault, or a second consumer
\* past the duplicate check before the first records the key (base.py:219-258).
THEOREM OneResultPerKey == Spec => []ResultsPerKey
<1>1. Init => ResultsOnce
  <2> SUFFICES ASSUME Init, NEW k \in Keys PROVE KeptFor(k)
    BY DEF ResultsOnce, KeptFor
  <2>1. ResultsOf(k) = {}
    BY DEF Init, ResultsOf, Kinds
  <2>2. Deciding(k) = {}
    BY DEF Init, Deciding
  <2>3. IsFiniteSet(ResultsOf(k)) /\ Cardinality(ResultsOf(k)) = 0 /\ Cardinality(Deciding(k)) = 0
    BY <2>1, <2>2, FS_EmptySet
  <2>4. deployed \subseteq Consumers /\ faults = 0
    BY DEF Init
  <2>5. Cardinality(deployed) \in Nat
    BY <2>4, MoreConsumers
  <2>6. Cardinality(Decided(k)) \in Nat
    BY MoreConsumers DEF Decided
  <2> QED
    BY <2>3, <2>4, <2>5, <2>6 DEF KeptFor
<1>2. IInv /\ ResultsOnce /\ [Next]_vars => ResultsOnce'
  BY NextResultsOnce DEF IInv
<1>3. IInv /\ ResultsOnce => ResultsPerKey
  <2> SUFFICES ASSUME IInv, ResultsOnce, NEW k \in Keys
               PROVE  Cardinality(ResultsOf(k)) <= Cardinality(deployed) + faults
    BY DEF ResultsPerKey
  <2>1. Cardinality(Deciding(k)) \in Nat
    BY MoreConsumers DEF Deciding
  <2>2. deployed \subseteq Consumers /\ faults \in Nat
    BY DEF IInv, TypeOK
  <2>3. Cardinality(deployed) \in Nat
    BY <2>2, MoreConsumers
  <2>4. /\ IsFiniteSet(ResultsOf(k))
        /\ Cardinality(ResultsOf(k)) + Cardinality(Deciding(k)) <= Cardinality(deployed) + faults
    BY DEF ResultsOnce, KeptFor
  <2>5. Cardinality(ResultsOf(k)) \in Nat
    BY <2>4, FS_CardinalityType
  <2> QED
    BY <2>1, <2>2, <2>3, <2>4, <2>5
<1> QED
  BY <1>1, <1>2, <1>3, InductiveInvariant, PTL DEF Spec

-----------------------------------------------------------------------------
(* The runtime over Redis keeps the bus contract (bus/base.py:8-15).       *)

\* The runtime starts where the contract starts.
LEMMA ContractInit == Init => Contract!Init
BY RuntimeAssumption DEF Init, Contract!Init

\* Every step of the runtime is a step of the contract or leaves it alone.
LEMMA ContractNext ==
  TypeOK /\ Holding /\ [Next]_vars => [Contract!Next]_Contract!vars
<1> DEFINE Outstanding == {e \in Entries : owner[e] # NoConsumer}
<1> SUFFICES ASSUME TypeOK, Holding, [Next]_vars
             PROVE  Contract!Next \/ UNCHANGED Contract!vars
  OBVIOUS
<1>1. CASE Publish
  <2>1. Outstanding' = Outstanding
    BY <1>1 DEF Publish
  <2> QED
    BY <1>1, <2>1 DEF Publish, Contract!Next, Contract!Publish
<1>2. ASSUME NEW c \in Consumers, Subscribe(c)
      PROVE  Contract!Next \/ UNCHANGED Contract!vars
  <2>1. cursor' \in cursor..tail /\ cursor' = NewCursor(c) /\ tail' = tail
    BY <1>2, NewCursorInStream DEF Subscribe
  <2>0. cursor \in Nat /\ cursor' \in Nat /\ tail \in Nat /\ tail <= N /\ N \in Nat
    BY <2>1, RuntimeAssumption DEF TypeOK
  <2>2. Fresh(c) = cursor + 1 .. cursor'
    BY <2>0, <2>1 DEF Fresh, Entries
  <2>3. Outstanding' = Outstanding \cup Fresh(c)
    BY <1>2, RuntimeAssumption DEF Subscribe, Fresh
  <2>4. CASE cursor' = cursor
    <3>1. Fresh(c) = {}
      BY <2>2, <2>4 DEF TypeOK
    <3>2. UNCHANGED Contract!vars
      BY <2>1, <2>3, <2>4, <3>1 DEF Contract!vars
    <3> QED
      BY <3>2
  <2>5. CASE cursor' # cursor
    <3>1. cursor' \in cursor + 1 .. tail
      BY <2>0, <2>1, <2>5
    <3>2. Contract!Deliver
      BY <2>1, <2>2, <2>3, <3>1 DEF Contract!Deliver
    <3> QED
      BY <3>2 DEF Contract!Next
  <2> QED
    BY <2>4, <2>5
<1>3. ASSUME NEW c \in Consumers, NEW e \in Entries, Ack(c, e)
      PROVE  Contract!Next
  <2>1. e \in Outstanding
    BY <1>3 DEF Ack
  <2>2. Outstanding' = Outstanding \ {e}
    BY <1>3 DEF Ack, TypeOK
  <2>3. UNCHANGED <<tail, cursor>>
    BY <1>3 DEF Ack
  <2>4. Contract!Settle(e)
    BY <2>1, <2>2, <2>3 DEF Contract!Settle
  <2> QED
    BY <2>1, <2>4 DEF Contract!Next
<1>4. CASE UNCHANGED busVars
  BY <1>4 DEF busVars, Contract!vars
<1> QED
  BY <1>1, <1>2, <1>3, <1>4 DEF Next, Step, Process, SentinelDecides, Triage, Gate, StartRun,
     Handle, Archive, Emit,
      EndRun, Remember, LoopError, Vanish, vars

\* Towards its group the runtime over Redis does only what bus/base.py:8-15
\* promises: in-order first deliveries, nothing skipped, one entry settled at a
\* time and none settled twice.
THEOREM KeepsContract == Spec => ImplementsContract
<1>1. IInv => TypeOK /\ Holding
  BY DEF IInv
<1> QED
  BY <1>1, ContractInit, ContractNext, InductiveInvariant, PTL
  DEF Spec, ImplementsContract, Contract!Spec

=============================================================================
