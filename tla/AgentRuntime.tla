---------------------------- MODULE AgentRuntime ----------------------------
(***************************************************************************)
(* The runtime every pipeline agent shares (agents/base.py), running over  *)
(* one Redis stream and one consumer group (bus/redis.py).                 *)
(*                                                                         *)
(* A consumer claims a batch, then takes its messages one by one through   *)
(* triage, the verdict gate, handle(), archive, publish, run record,       *)
(* idempotency record and ack.  Each database transaction and each bus     *)
(* call is one step, because a process may die, or a call may raise,       *)
(* between any two of them: that is the action LoopError.                  *)
(*                                                                         *)
(* Stream entries are numbered in publishing order.  XPENDING answers in   *)
(* id order and new entries follow every delivered one, so a batch is      *)
(* always worked in ascending order and a set describes it.                *)
(***************************************************************************)
EXTENDS Integers, FiniteSets

CONSTANTS
  Consumers,      \* consumer names of the agent's group (CIVICAI_AGENT_CONSUMER)
  NoConsumer,     \* the owner of an entry that is not pending
  N,              \* bound: how many entries reach the input topic
  Keys,           \* idempotency keys
  KeyOf,          \* entry -> the key of its envelope; duplicates share one
  MalformedSets,  \* which entries' envelopes may fail to parse
  MaxDeliveries,  \* bus.base.MAX_DELIVERIES
  MaxAttempts,    \* len(BACKOFF_SECONDS)
  BatchSize,      \* run_once(count=...)
  GateModes,      \* gate settings to consider: "off", or a mode of the gate
  MaxFaults       \* bound: crashes and escaped exceptions

Entries == 1..N

ASSUME RuntimeAssumption ==
  /\ NoConsumer \notin Consumers
  /\ IsFiniteSet(Consumers)
  /\ N \in Nat
  /\ KeyOf \in [Entries -> Keys]
  /\ MalformedSets \subseteq SUBSET Entries
  /\ MaxDeliveries \in Nat \ {0}
  /\ MaxAttempts \in Nat \ {0}
  /\ BatchSize \in Nat \ {0}
  /\ GateModes \subseteq {"off", "strict", "permissive", "shadow"}
  /\ MaxFaults \in Nat

VARIABLES
  \* chosen once: the deployment, and what upstream sends
  mode,        \* the gate setting
  deployed,    \* the consumers of the group that were started
  malformed,   \* the entries whose envelope does not parse
  \* the stream and its consumer group
  tail,        \* entries published to the input topic
  cursor,      \* the group's last delivered entry
  owner,       \* pending entries list: who holds each entry
  count,       \* times_delivered of each entry
  \* Postgres
  verdict,     \* Sentinel's verdict for the entry's message
  openRuns,    \* agent_runs rows of the entry still 'running'
  archived,    \* messages rows this agent archived, per entry and kind
  remembered,  \* handler_results keys of this agent
  \* the output topics
  published,   \* envelopes this agent published, per entry and kind
  \* the consumer processes
  pc, batch, poison, attempt, kind, alive,
  \* history
  calls,       \* handle() calls per entry
  faults

config == <<mode, deployed, malformed>>
busVars == <<tail, cursor, owner, count>>
dbVars == <<verdict, openRuns, archived, remembered>>
procVars == <<pc, batch, poison, attempt, kind, alive>>
vars == <<config, busVars, dbVars, published, procVars, calls, faults>>

\* What an agent emits for an entry: its result (the output, or the skip event
\* that stands for it), or a deadletter.
Kinds == {"result", "deadletter"}
Verdicts == {"none", "pass", "fail"}
Labels == {"idle", "triage", "gate", "start", "handle", "archive", "publish",
           "end", "remember", "ack"}

TypeOK ==
  /\ mode \in GateModes
  /\ deployed \subseteq Consumers
  /\ malformed \in MalformedSets
  /\ tail \in 0..N
  /\ cursor \in 0..tail
  /\ owner \in [Entries -> Consumers \cup {NoConsumer}]
  /\ count \in [Entries -> Nat]
  /\ verdict \in [Entries -> Verdicts]
  /\ openRuns \in [Entries -> Nat]
  /\ archived \in [Entries -> [Kinds -> Nat]]
  /\ remembered \subseteq Keys
  /\ published \in [Entries -> [Kinds -> Nat]]
  /\ pc \in [Consumers -> Labels]
  /\ batch \in [Consumers -> SUBSET Entries]
  /\ poison \in [Consumers -> SUBSET Entries]
  /\ attempt \in [Consumers -> 1..MaxAttempts]
  /\ kind \in [Consumers -> Kinds]
  /\ alive \subseteq deployed
  /\ calls \in [Entries -> Nat]
  /\ faults \in Nat

Init ==
  /\ mode \in GateModes
  /\ deployed \in SUBSET Consumers \ {{}}
  /\ malformed \in MalformedSets
  /\ tail = 0
  /\ cursor = 0
  /\ owner = [e \in Entries |-> NoConsumer]
  /\ count = [e \in Entries |-> 0]
  /\ verdict = [e \in Entries |-> "none"]
  /\ openRuns = [e \in Entries |-> 0]
  /\ archived = [e \in Entries |-> [k \in Kinds |-> 0]]
  /\ remembered = {}
  /\ published = [e \in Entries |-> [k \in Kinds |-> 0]]
  /\ pc = [c \in Consumers |-> "idle"]
  /\ batch = [c \in Consumers |-> {}]
  /\ poison = [c \in Consumers |-> {}]
  /\ attempt = [c \in Consumers |-> 1]
  /\ kind = [c \in Consumers |-> "result"]
  /\ alive = deployed
  /\ calls = [e \in Entries |-> 0]
  /\ faults = 0

-----------------------------------------------------------------------------
(* The surroundings: an upstream producer, and Sentinel's verdicts.        *)

Publish ==
  /\ tail < N
  /\ tail' = tail + 1
  /\ UNCHANGED <<config, cursor, owner, count, dbVars, published, procVars, calls, faults>>

\* Sentinel records L1's verdict and then, where L1 passed, L2's; readers take
\* the worse of the two.  Two modes never look at it.
SentinelDecides(e, v) ==
  /\ mode \notin {"off", "shadow"}
  /\ e <= tail
  /\ verdict[e] = "none" \/ (verdict[e] = "pass" /\ v = "fail")
  /\ verdict' = [verdict EXCEPT ![e] = v]
  /\ UNCHANGED <<config, busVars, openRuns, archived, remembered, published, procVars, calls, faults>>

-----------------------------------------------------------------------------
(* Claiming a batch.                                                       *)

Lowest(S, n) == {e \in S : Cardinality({x \in S : x < e}) < n}

OwnPending(c) == {e \in Entries : owner[e] = c}

\* Mutant: only new entries are claimed; the consumer's own pending ones wait.
Drained_Nothing(c) == {}

Drained(c) == Lowest(OwnPending(c), BatchSize)

\* Mutant: the cursor moves by a whole batch, past the tail if need be.
NewCursor_Overrun(c) == cursor + BatchSize

NewCursor(c) ==
  LET room == BatchSize - Cardinality(Drained(c))
  IN  IF room <= 0 THEN cursor ELSE IF cursor + room < tail THEN cursor + room ELSE tail

Fresh(c) == {e \in Entries : cursor < e /\ e <= NewCursor(c)}

\* Mutant: the count is compared before XCLAIM raised it.
ReportedPoison_Stale(c) == {e \in Drained(c) : count[e] >= MaxDeliveries}

\* XPENDING between the first and the last id of the drain, over the whole
\* group and cut off at as many rows as the drain has: an entry whose row falls
\* outside the answer is reported as delivered once.
CountsRead(c) ==
  LET InRange == {e \in Entries : /\ owner[e] # NoConsumer
                                  /\ \E x \in Drained(c) : x <= e
                                  /\ \E x \in Drained(c) : e <= x}
  IN  Lowest(InRange, Cardinality(Drained(c)))

Reported(c, e) == IF e \in Drained(c) \cap CountsRead(c) THEN count[e] + 1 ELSE 1

\* The claimed deliveries that BusMessage.is_poison will call poison.
ReportedPoison(c) ==
  {e \in Drained(c) \cup Fresh(c) : Reported(c, e) >= MaxDeliveries}

\* run_once: own un-acked entries first, each with its counter bumped, then
\* new ones with a count of one.
Subscribe(c) ==
  /\ c \in alive
  /\ pc[c] = "idle"
  /\ Drained(c) \cup Fresh(c) # {}
  /\ cursor' = NewCursor(c)
  /\ owner' = [e \in Entries |-> IF e \in Fresh(c) THEN c ELSE owner[e]]
  /\ count' = [e \in Entries |-> IF e \in Drained(c) \cup Fresh(c)
                                 THEN count[e] + 1 ELSE count[e]]
  /\ batch' = [batch EXCEPT ![c] = Drained(c) \cup Fresh(c)]
  /\ poison' = [poison EXCEPT ![c] = ReportedPoison(c)]
  /\ pc' = [pc EXCEPT ![c] = "triage"]
  /\ UNCHANGED <<config, tail, dbVars, published, attempt, kind, alive, calls, faults>>

-----------------------------------------------------------------------------
(* One message: the steps of _process and _process_envelope.               *)

IsCurrent(c, e) == e \in batch[c] /\ \A x \in batch[c] : e <= x

At(c, e, label) ==
  /\ c \in alive
  /\ pc[c] = label
  /\ IsCurrent(c, e)

Goto(c, label) == pc' = [pc EXCEPT ![c] = label]

\* The runtime is through with e: take the next message of the batch, or
\* return to the loop.
Finish(c, e) ==
  /\ batch' = [batch EXCEPT ![c] = @ \ {e}]
  /\ poison' = [poison EXCEPT ![c] = @ \ {e}]
  /\ Goto(c, IF batch[c] = {e} THEN "idle" ELSE "triage")

\* run_once is left early: the rest of the batch is forgotten.
Drop(c) ==
  /\ Goto(c, "idle")
  /\ batch' = [batch EXCEPT ![c] = {}]
  /\ poison' = [poison EXCEPT ![c] = {}]

\* Mutant: the duplicate check is skipped.
Triage_NoDedup(c, e) ==
  /\ At(c, e, "triage")
  /\ \/ /\ e \in malformed \/ e \in poison[c]
        /\ Goto(c, "archive")
        /\ kind' = [kind EXCEPT ![c] = "deadletter"]
     \/ /\ e \notin malformed /\ e \notin poison[c]
        /\ Goto(c, IF mode = "off" THEN "start" ELSE "gate")
        /\ UNCHANGED kind
  /\ UNCHANGED <<config, busVars, dbVars, published, batch, poison, attempt, alive, calls, faults>>

Triage(c, e) ==
  /\ At(c, e, "triage")
  /\ \/ /\ e \in malformed \/ e \in poison[c]
        /\ Goto(c, "archive")
        /\ kind' = [kind EXCEPT ![c] = "deadletter"]
     \/ /\ e \notin malformed /\ e \notin poison[c]
        /\ KeyOf[e] \in remembered
        /\ Goto(c, "ack")
        /\ UNCHANGED kind
     \/ /\ e \notin malformed /\ e \notin poison[c]
        /\ KeyOf[e] \notin remembered
        /\ Goto(c, IF mode = "off" THEN "start" ELSE "gate")
        /\ UNCHANGED kind
  /\ UNCHANGED <<config, busVars, dbVars, published, batch, poison, attempt, alive, calls, faults>>

\* Mutant: a timeout proceeds in every mode.
Gate_TimeoutProceeds(c, e) ==
  /\ At(c, e, "gate")
  /\ Goto(c, IF mode # "shadow" /\ verdict[e] = "fail" THEN "ack" ELSE "start")
  /\ UNCHANGED <<config, busVars, dbVars, published, batch, poison, attempt, kind, alive, calls, faults>>

\* await_verdict polls until a verdict shows or the deadline lapses; not
\* stepping is polling.  A strict timeout nacks, and a Redis nack leaves the
\* entry pending on this consumer.
Gate(c, e) ==
  /\ At(c, e, "gate")
  /\ \/ /\ mode = "shadow" \/ verdict[e] = "pass"
        /\ Goto(c, "start")
        /\ UNCHANGED <<batch, poison>>
     \/ /\ mode # "shadow" /\ verdict[e] = "fail"
        /\ Goto(c, "ack")
        /\ UNCHANGED <<batch, poison>>
     \/ /\ mode = "permissive" /\ verdict[e] = "none"
        /\ Goto(c, "start")
        /\ UNCHANGED <<batch, poison>>
     \/ /\ mode = "strict" /\ verdict[e] = "none"
        /\ Finish(c, e)
  /\ UNCHANGED <<config, busVars, dbVars, published, attempt, kind, alive, calls, faults>>

StartRun(c, e) ==
  /\ At(c, e, "start")
  /\ openRuns' = [openRuns EXCEPT ![e] = @ + 1]
  /\ attempt' = [attempt EXCEPT ![c] = 1]
  /\ Goto(c, "handle")
  /\ UNCHANGED <<config, busVars, verdict, archived, remembered, published, batch, poison, kind,
                 alive, calls, faults>>

\* One call of handle(): it returns, raises SkipSignal, or raises anything
\* else, which is retried until the attempts are spent.
Handle(c, e) ==
  /\ At(c, e, "handle")
  /\ calls' = [calls EXCEPT ![e] = @ + 1]
  /\ \/ /\ Goto(c, "archive")
        /\ kind' = [kind EXCEPT ![c] = "result"]
        /\ UNCHANGED attempt
     \/ /\ attempt[c] < MaxAttempts
        /\ attempt' = [attempt EXCEPT ![c] = @ + 1]
        /\ UNCHANGED <<pc, kind>>
     \/ /\ attempt[c] = MaxAttempts
        /\ Goto(c, "end")
        /\ kind' = [kind EXCEPT ![c] = "deadletter"]
        /\ UNCHANGED attempt
  /\ UNCHANGED <<config, busVars, dbVars, published, batch, poison, alive, faults>>

\* Mutant: the outcome is recorded before it is published.
Archive_ThenEnd(c, e) ==
  /\ At(c, e, "archive")
  /\ archived' = [archived EXCEPT ![e][kind[c]] = @ + 1]
  /\ Goto(c, "end")
  /\ UNCHANGED <<config, busVars, verdict, openRuns, remembered, published, batch, poison, attempt,
                 kind, alive, calls, faults>>

\* Mutant: the audit row is not written first.
Archive_Skipped(c, e) ==
  /\ At(c, e, "archive")
  /\ Goto(c, "publish")
  /\ UNCHANGED <<config, busVars, dbVars, published, batch, poison, attempt, kind, alive, calls,
                 faults>>

\* emit(): the audit row first, then the bus.
Archive(c, e) ==
  /\ At(c, e, "archive")
  /\ archived' = [archived EXCEPT ![e][kind[c]] = @ + 1]
  /\ Goto(c, "publish")
  /\ UNCHANGED <<config, busVars, verdict, openRuns, remembered, published, batch, poison, attempt, kind,
                 alive, calls, faults>>

Emit(c, e) ==
  /\ At(c, e, "publish")
  /\ published' = [published EXCEPT ![e][kind[c]] = @ + 1]
  /\ Goto(c, IF kind[c] = "deadletter" THEN "ack" ELSE "end")
  /\ UNCHANGED <<config, busVars, dbVars, batch, poison, attempt, kind, alive, calls, faults>>

\* Mutant: acked without recording the result.
EndRun_ThenAck(c, e) ==
  /\ At(c, e, "end")
  /\ openRuns' = [openRuns EXCEPT ![e] = @ - 1]
  /\ Goto(c, IF kind[c] = "deadletter" THEN "archive" ELSE "ack")
  /\ UNCHANGED <<config, busVars, verdict, archived, remembered, published, batch, poison, attempt,
                 kind, alive, calls, faults>>

\* Mutant: the run is closed only when it succeeded.
EndRun_SuccessOnly(c, e) ==
  /\ At(c, e, "end")
  /\ openRuns' = [openRuns EXCEPT ![e] = IF kind[c] = "result" THEN @ - 1 ELSE @]
  /\ Goto(c, IF kind[c] = "deadletter" THEN "archive" ELSE "remember")
  /\ UNCHANGED <<config, busVars, verdict, archived, remembered, published, batch, poison, attempt,
                 kind, alive, calls, faults>>

EndRun(c, e) ==
  /\ At(c, e, "end")
  /\ openRuns' = [openRuns EXCEPT ![e] = @ - 1]
  /\ Goto(c, IF kind[c] = "deadletter" THEN "archive" ELSE "remember")
  /\ UNCHANGED <<config, busVars, verdict, archived, remembered, published, batch, poison, attempt,
                 kind, alive, calls, faults>>

Remember(c, e) ==
  /\ At(c, e, "remember")
  /\ remembered' = remembered \cup {KeyOf[e]}
  /\ Goto(c, "ack")
  /\ UNCHANGED <<config, busVars, verdict, openRuns, archived, published, batch, poison, attempt, kind,
                 alive, calls, faults>>

\* Mutant: the ack settles everything this consumer has claimed.
Ack_WholeBatch(c, e) ==
  /\ At(c, e, "ack")
  /\ owner' = [x \in Entries |-> IF x \in batch[c] THEN NoConsumer ELSE owner[x]]
  /\ Drop(c)
  /\ UNCHANGED <<config, tail, cursor, count, dbVars, published, attempt, kind, alive,
                 calls, faults>>

\* XACK; it raises KeyError, and so steps to LoopError, when e is not pending.
Ack(c, e) ==
  /\ At(c, e, "ack")
  /\ owner[e] # NoConsumer
  /\ owner' = [owner EXCEPT ![e] = NoConsumer]
  /\ Finish(c, e)
  /\ UNCHANGED <<config, tail, cursor, count, dbVars, published, attempt, kind, alive, calls,
                 faults>>

-----------------------------------------------------------------------------
(* Failures.                                                               *)

\* A call raises outside handle()'s try, or the process dies and comes back
\* under its own name: the rest of the batch is dropped, and stays pending.
LoopError(c) ==
  /\ c \in alive
  /\ pc[c] # "idle"
  /\ faults < MaxFaults
  /\ faults' = faults + 1
  /\ Drop(c)
  /\ UNCHANGED <<config, busVars, dbVars, published, attempt, kind, alive, calls>>

\* The process dies and no process ever takes its consumer name again.
Vanish(c) ==
  /\ c \in alive
  /\ faults < MaxFaults
  /\ faults' = faults + 1
  /\ alive' = alive \ {c}
  /\ Drop(c)
  /\ UNCHANGED <<config, busVars, dbVars, published, attempt, kind, calls>>

-----------------------------------------------------------------------------
Process(c, e) ==
  \/ Triage(c, e)
  \/ Gate(c, e)
  \/ StartRun(c, e)
  \/ Handle(c, e)
  \/ Archive(c, e)
  \/ Emit(c, e)
  \/ EndRun(c, e)
  \/ Remember(c, e)
  \/ Ack(c, e)

Step(c) == Subscribe(c) \/ \E e \in Entries : Process(c, e)

Next ==
  \/ Publish
  \/ \E e \in Entries, v \in {"pass", "fail"} : SentinelDecides(e, v)
  \/ \E c \in Consumers : Step(c) \/ LoopError(c) \/ Vanish(c)

Spec == Init /\ [][Next]_vars

\* run_forever loops while the process lives, and nothing in it blocks for
\* ever: the blocking read and the gate both have a deadline.
FairSpec == Spec /\ \A c \in Consumers : WF_vars(Step(c))

-----------------------------------------------------------------------------
(* Properties.                                                             *)

Settled(e) == e <= cursor /\ owner[e] = NoConsumer

Deadlettered(e) == published[e]["deadletter"] > 0

\* The gate found a failing verdict: Sentinel has already dealt with e.
DroppedByGate(e) == mode \in {"strict", "permissive"} /\ verdict[e] = "fail"

\* An acked entry was dealt with: its key has a recorded result, or it was
\* deadlettered, or the gate dropped it.  Whatever dies between whichever two
\* steps of base.py:212-266, an entry leaves the pending list no other way.
NothingLost ==
  \A e \in Entries :
    Settled(e) => KeyOf[e] \in remembered \/ Deadlettered(e) \/ DroppedByGate(e)

\* A key with a recorded result had its result published: suppressing a repeat
\* (base.py:219-223) can never suppress the only emission.
RememberedHasResult ==
  \A k \in remembered :
    \E e \in Entries : KeyOf[e] = k /\ published[e]["result"] > 0

\* A message a consumer can see is already in the audit trail (base.py:332-339),
\* with crashes between the two writes.
ArchivedFirst ==
  \A e \in Entries, k \in Kinds : published[e][k] <= archived[e][k]

\* The results published under key k, each with its number.
ResultsOf(k) ==
  UNION {{e} \X (1..published[e]["result"]) : e \in {x \in Entries : KeyOf[x] = k}}

\* A key yields one result; every further one costs a fault, or a second
\* consumer inside the window between the duplicate check and the record
\* (base.py:219-258 checks, then acts).
ResultsPerKey ==
  \A k \in Keys : Cardinality(ResultsOf(k)) <= Cardinality(deployed) + faults

Alone == \E c \in Consumers : deployed = {c}

\* Two budgets multiply, and nothing gets around either of them: with one
\* consumer in the group, as deployed, handle() runs at most MaxAttempts times
\* in each delivery below the poison threshold, however often the process dies
\* (base.py:213-217, 236-254; redis.py:226-239).
AttemptsBounded ==
  Alone => \A e \in Entries : calls[e] <= (MaxDeliveries - 1) * MaxAttempts

\* Under the strict gate handle() never runs ahead of Sentinel: not after a
\* timeout, nor on any redelivery (base.py:225-229, verdict_gate.py:174-181).
StrictWaitsForVerdict ==
  \A e \in Entries : mode = "strict" /\ calls[e] > 0 => verdict[e] # "none"

\* The consumers inside a recorded run of e.
Running(e) ==
  {c \in Consumers : /\ IsCurrent(c, e)
                     /\ \/ pc[c] \in {"handle", "end"}
                        \/ pc[c] \in {"archive", "publish"} /\ kind[c] = "result"}

\* An agent_runs row still 'running' is a run in progress or one that a fault
\* cut short (base.py:375-412).
OpenRunsExplained ==
  \A e \in Entries : openRuns[e] <= Cardinality(Running(e)) + faults

\* Every published entry is settled in the end, poison, strict timeouts and
\* crashes included, as long as every consumer comes back under its own name
\* (base.py:186-191; redis.py:107, 208-244).
EverySettled ==
  [](alive = deployed) => \A e \in Entries : (e <= tail) ~> Settled(e)

\* bus/base.py:100-102: "a consumer that dies mid-handler must not strand its
\* claimed messages".  While some consumer of the group lives, every published
\* entry is settled in the end.
StalledAreReclaimed ==
  \A e \in Entries : (e <= tail) ~> (Settled(e) \/ alive = {})

\* The group of this agent keeps the promise bus/base.py makes of every group.
Contract == INSTANCE DeliveryContract WITH
              joined <- TRUE,
              outstanding <- {e \in Entries : owner[e] # NoConsumer}

ImplementsContract == Contract!Spec

-----------------------------------------------------------------------------
(* The inductive invariant behind the safety properties above.             *)

Accounted(e) == KeyOf[e] \in remembered \/ Deadlettered(e) \/ DroppedByGate(e)

\* What a consumer works on is pending on it, so no two work on one entry.
Holding ==
  /\ \A c \in Consumers, e \in Entries : e \in batch[c] => owner[e] = c
  /\ \A c \in Consumers : pc[c] = "idle" => batch[c] = {}
  /\ \A e \in Entries : owner[e] # NoConsumer => e <= cursor /\ count[e] >= 1
  /\ \A e \in Entries : cursor < e => count[e] = 0
  /\ \A e \in Entries : owner[e] # NoConsumer => owner[e] \in deployed

\* The consumers that may still publish a result under k, and those that have
\* published one and not recorded the key yet.
Deciding(k) ==
  {c \in Consumers : \E e \in Entries :
     /\ IsCurrent(c, e) /\ KeyOf[e] = k
     /\ \/ pc[c] \in {"gate", "start", "handle"}
        \/ pc[c] \in {"archive", "publish"} /\ kind[c] = "result"}

Decided(k) ==
  {c \in Consumers : \E e \in Entries :
     /\ IsCurrent(c, e) /\ KeyOf[e] = k
     /\ pc[c] \in {"end", "remember"} /\ kind[c] = "result"}

\* Before k is recorded, who published a result is at work on it or met a fault;
\* after it, only those already past the check may publish another.
KeptFor(k) ==
  /\ IsFiniteSet(ResultsOf(k))
  /\ k \notin remembered => Cardinality(ResultsOf(k)) <= Cardinality(Decided(k)) + faults
  /\ Cardinality(ResultsOf(k)) + Cardinality(Deciding(k)) <= Cardinality(deployed) + faults

ResultsOnce == \A k \in Keys : KeptFor(k)

RunIsOpen ==
  \A c \in Consumers, e \in Entries : c \in Running(e) => openRuns[e] >= 1

\* What a consumer about to skip or to settle e relies on.
AckReady(c, e) ==
  /\ pc[c] = "gate" => mode # "off"
  /\ pc[c] = "ack" => Accounted(e)

AckJustified == \A c \in Consumers, e \in Entries : IsCurrent(c, e) => AckReady(c, e)

\* What a consumer about to record e relies on.
RecordReady(c, e) ==
  /\ pc[c] = "remember" => kind[c] = "result"
  /\ pc[c] \in {"end", "remember"} /\ kind[c] = "result" => published[e]["result"] > 0

ResultBeforeRecord ==
  \A c \in Consumers, e \in Entries : IsCurrent(c, e) => RecordReady(c, e)

ArchiveAhead ==
  \A c \in Consumers, e \in Entries :
    IsCurrent(c, e) /\ pc[c] = "publish" => published[e][kind[c]] < archived[e][kind[c]]

\* The calls that n deliveries allow.
Allowance(n) == n * MaxAttempts

\* A delivery that has not reached handle() yet has its whole allowance left.
Untouched(c, e) ==
  e \in batch[c] /\ (IsCurrent(c, e) => pc[c] \in {"triage", "gate", "start"})

\* What the delivery of e to c has left to spend.
BudgetOf(c, e) ==
  /\ Untouched(c, e) => calls[e] <= Allowance(count[e] - 1)
  /\ IsCurrent(c, e) /\ pc[c] \in {"gate", "start", "handle"} => e \notin poison[c]
  /\ IsCurrent(c, e) /\ pc[c] = "handle" =>
       calls[e] <= Allowance(count[e] - 1) + attempt[c] - 1

\* A consumer alone in its group is told every count as it is.
CountsTold ==
  Alone => \A c \in Consumers, e \in Entries :
             e \in batch[c] /\ e \notin poison[c] => count[e] < MaxDeliveries

WithinDeliveries == \A e \in Entries : calls[e] <= Allowance(count[e])

Budget == \A c \in Consumers, e \in Entries : BudgetOf(c, e)

VerdictFirst ==
  \A c \in Consumers, e \in Entries :
    IsCurrent(c, e) /\ pc[c] \in {"start", "handle"} /\ mode = "strict" => verdict[e] # "none"

IInv ==
  /\ TypeOK
  /\ Holding
  /\ RunIsOpen
  /\ AckJustified /\ NothingLost
  /\ ResultBeforeRecord /\ RememberedHasResult
  /\ ArchiveAhead /\ ArchivedFirst
  /\ WithinDeliveries /\ Budget /\ CountsTold /\ AttemptsBounded
  /\ VerdictFirst /\ StrictWaitsForVerdict

=============================================================================
