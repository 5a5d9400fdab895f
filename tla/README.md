# CivicAI in TLA+

CivicAI takes citizens' reports of street defects, and turns them into
prioritised, routed work orders. Its agents exchange messages over Redis
Streams; every message is archived in Postgres and verified by an agent of its
own, Sentinel, which can hold it in quarantine until a human decides.

This directory models the parts where the program is hard to get right: the
two buses, the runtime under every agent, Sentinel with its quarantine and its
retries, the verdict gate, the gateway, and the pipeline of five agents that
turns reports into routed incidents. TLC checks the models on small instances,
and TLAPS proves every safety property of the passing runs for every instance. The modules are
written from the source, function by function; `PROJECT.json` maps each
definition to its lines.

## 1. The system

| Part | Source | State it keeps | Operations | Module |
|---|---|---|---|---|
| Bus contract | `bus/base.py` | a group's cursor and outstanding entries | publish, subscribe, ack, nack, reclaim | `DeliveryContract`, `BoundedContract` |
| Redis bus | `bus/redis.py` | stream, group, pending list, delivery counts | the same | `Buses`; untrimmed in `AgentRuntime`, `Sentinel` |
| Memory bus | `bus/memory.py` | log, pending, retry queue, counts | the same | `Buses` |
| Agent runtime | `agents/base.py`, `common/messagelog.py`, `common/idempotency.py` | `messages`, `agent_runs`, `handler_results` | `run_forever`, `run_once`, `_process`, `_process_envelope` | `AgentRuntime` |
| Verdict gate | `common/verdict_gate.py` | none; reads `verification_results` | `get_verdict`, `await_verdict` | `AgentRuntime.Gate`, `Triage` |
| Sentinel | `agents/av_sentinel` | `verification_results`, `quarantine`, `sentinel_fail_soft_retries` | `run_once`, `verify`, `_fail_soft_retry` | `Sentinel`, `FailSoft` |
| Sentinel's L2 rules | `agents/av_sentinel/rules` | none; read the tables | `check` of each agent | beside what they judge: `Intake`, `Perception`, `Incidents`, `Scoring` |
| Triage | `api/main.py`, `api/queries.py` | `quarantine.status` | release, discard | `Triage` |
| A0 intake | `agents/a0_intake` | `reports`, `intake_attempts`, `messages` | `POST /v1/reports` | `Intake` |
| A1 perception | `agents/a1_perception`, `common/llm/heuristic.py` | the report's analysis | `handle` | `Perception`, `Incidents` |
| A2 deduplication | `agents/a2_dedup`, `common/matching.py` | none; reads `incidents` | `handle` | `Matching`, `Incidents` |
| A3 synthesis | `agents/a3_synthesis` | `incidents`, `reports.incident_id` | seed, join, recompute | `Matching`, `Incidents` |
| A4 priority | `agents/a4_priority` | `incidents`: score and band | score | `Scoring`, `Incidents` |
| A5 routing | `agents/a5_routing` | `incidents`: department and deadline | department, SLA, unrouted | `Scoring`, `Incidents` |
| Migrations | `db/migrate.py`, `db/migrations` | `schema_migrations` | apply in order | constraints only |
| Media, geography, configuration, scripts | `common/*`, `scripts/*` | - | - | not modelled |

How they interact. A producer inserts its envelope into `messages`, then
publishes it on a stream. Every consuming agent has a group of its own on that
stream; Sentinel has a group on every stream. An agent may be told to wait for
Sentinel's verdict (the gate): it polls the table Sentinel writes. Sentinel's
soft failures reach back into the producer, by deleting the key under which the
producer remembers the cause and by publishing the cause again. A reviewer's
release publishes a quarantined envelope again. Nothing else connects the
processes: no locks, no transactions across two of them.

What is hard, in one list (with lines, in `PROJECT.json` under `hazards`):

* *A crash between two writes.* An agent step is ten of them: the entry is
  claimed, its run opened, its result archived, published, the run closed, the
  key remembered, the entry acked. Sentinel's and the gateway's are as long.
* *Redelivery.* A consumer starts with its own un-acked entries; what it did for
  them the first time is in the tables, and the second pass meets it there:
  verdicts that must not be overwritten, rows that others refer to, counts that
  decide when an entry is poison.
* *Two consumers of one group*, between the duplicate check and the record.
* *Readers of half a truth*: the gate between L1's row and L2's, the rate limit
  before the attempt is written, a reviewer before another one's decision.
* *Two transactions for one fact*: A3 attaches a report in one and counts the
  members in another; what A2 proposed is about the incidents of the moment it looked.
* *One key for many messages.* The idempotency key holds the correlation id, so all
  updates of one incident are one message to A4.
* *Progress.* One entry that fails every time must not stop the others; one
  consumer that does not come back must not keep what it claimed.

What makes each part correct:

* bus: nothing from before the group joined; first deliveries in order; outstanding until settled,
  once and for all; both transports answer alike;
* runtime: nothing is settled that was neither handled nor given up on; a key is
  remembered only after its result went out; the audit trail runs ahead of the bus; attempts are bounded;
* gate: in strict mode no work without a verdict, and none on a failing one;
* Sentinel: nothing is acked unverified, a hard failure is acked only when a
  human can find it, once; a producer is retried once per message; every message has its turn;
* triage: a row is decided once, and a release bypasses nothing;
* retries: while the producer owes a retry nothing can suppress it, and it is not owed for ever;
* pipeline: an incident holds reports of its own category, and all twins of one;
  a report stays where A3 put it; counts, band and route fit the members; every report gets through;
* intake: the limit holds as far as it can; answers, rows, audit trail and events agree.

## 2. The modules

**`DeliveryContract`** is the abstract specification: what `bus/base.py` promises
one group of one topic.

**`BoundedContract`** extends it to a stream that is trimmed: publishing may drop
what is older than the newest `limit` entries.

**`Buses`** has both transports side by side, under the calls `run_once` makes:
`Publish` (with XADD's trimming), `CreateGroup` (at the tail), `Subscribe`, `Ack`,
`Nack`, `Reclaim`, `Drop` (a batch that is abandoned). `MemClaims` is the retry
queue and the cursor of `memory.py`; `Own`, `RedNew` and `Reported` are the drain,
the read and the window of delivery counts of `redis.py`, in which ids are compared
as text. Redis itself (XREADGROUP, XPENDING, XCLAIM) is external. Each transport is
shown to implement `BoundedContract`, under a refinement mapping of its own.

**`AgentRuntime`** is `Agent` over `RedisBus`. Each consumer is a process
with a program counter; each database transaction and each bus call is a step:

| Action | Code |
|---|---|
| `Subscribe` | `RedisBus.subscribe`: own pending entries (one more delivery each), then new ones |
| `Triage` | `_process`: malformed, poison, duplicate or fit for work |
| `Gate` | `await_verdict` in its mode |
| `StartRun`, `Handle`, `EndRun` | `_record_run_start`, the retry loop around `handle()`, `_record_run_end` |
| `Archive`, `Emit` | `emit`: `messages`, then the stream |
| `Remember`, `Ack` | `handler_results`, `bus.ack` |
| `LoopError`, `Vanish` | a crash, or an exception that escapes, with or without a return |
| `Publish`, `SentinelDecides` | the surroundings: upstream, and the verdict table |

**`Sentinel`** is `Sentinel` with persistence on, over every topic it
sweeps: `Skip`/`Claim` (`run_once`, `subscribe`), `Record`/`Announce`
(`_record_verdict`, `_publish_verdict`), `Hold`/`Divert` (`_quarantine`), `Retry`/`Replay`
(`_fail_soft_retry`), `Ack`. `RecordRaises` and `HoldRaises` are the two
exceptions Postgres may answer with: an id that is not a UUID, and a foreign key
to a verdict that was not inserted.

**`FailSoft`** composes a producer with Sentinel's retry. The producer's actions
are the runtime's with what matters here, `Take` (poison, then duplicate),
`Handle`, `Publish`, `Remember`, `Ack`; Sentinel's are `Verify`, `Retry` (the
transaction that deletes the producer's record), `Replay` (the publish after it)
and `Hold`. Each output carries the fate of its retry: "owed" until the producer
handles the cause again ("heeded"), or one of three accidents ends it:
"overtaken" (the producer recorded the cause after the deletion), "cut short"
(Sentinel died between transaction and publish), "poisoned".

**`Triage`** extends `Sentinel` by reviewers (`Check`, `Mark`, `Republish`,
`ApiError`: the three calls of a release, of which a discard makes two) and by a
consumer of one topic behind the strict gate. Each delivery is refused (`Refuse`:
duplicate, dropped, or deferred until it is poison) or let in (`Admit`); the start of
the run is then committed before `handle()` begins (`Start`), and Sentinel and the
reviewers go on in between. `Finish` and `Lapse` (a death, or an exception that
escapes) end it.

**`Intake`** is `POST /v1/reports` on worker threads: `Receive`, `Count`,
`Examine`, `PersistReport`, `RecordAttempt`, `Archive`, `Emit`, `Answer`, with
`Fail` between any two and `Expire` for the rate window. `Judge` is the L2 rule
that reads the table the gateway writes.

**`Matching`**, **`Perception`** and **`Scoring`** hold the algorithms of A1 to A5
as operators, in integers: the candidate score and the decisions that read it
(`Score`, `DecisionFor`, `Adjudicate`, `JoinsOnRecheck`); what the heuristic
provider and A1 make of a report's modalities (`Extract`, `Understood`); A4's six
factors, floor and bands, A5's department and deadline (`Prioritized`, `Routed`);
and the L2 rules on each (`FindingsOnReading`, `FindingsOnPriority`, `FindingsOnRoute`).

**`Incidents`** is the pipeline over the two tables and four topics between the agents:

| Action | Code |
|---|---|
| `Perceive`, `SkipUnreadable` | A1: `_persist`, the skip |
| `Propose` | A2: candidates, score, decision |
| `Decide` | A3 `_seed_or_join`: A2's incident, the re-check, or a new one |
| `Attach`, `Aggregate`, `Update` | `_attach`; the read and the write of `_recompute` |
| `PublishUpdate`, `NothingToUpdate` | the event; `handle()` raising on an emptied incident |
| `Prioritise`, `SkipVanished` | A4 |
| `Route` | A5 |
| `Crash`, `Fault` | a death before the key is recorded: the message comes again |

`MC*` modules give the constants of the runs values; `*Proofs` modules hold
theorems.

Abstractions, everywhere: a message is a name or a position, never a text.
A database transaction is one step. Wording, logging and timing are left out.
By module:

* `AgentRuntime`: `handle()` returns one envelope, skips or raises, as it likes (no agent
  of the repository returns more; the echo agent only skips); the skip event of a
  `SkipSignal` counts as a result. Backoff and polling intervals take no time. Trimming,
  and a group that joins late, are in `Buses` only.
* `Sentinel`: L1 is a function of the message; L2's rules may read the database,
  so `L2Of` is a set. A message without an id gets a fresh one each time, so its
  rows never clash. Sentinel's own events are not swept; archiving them is left out.
* `Triage`: one gated consumer of one topic, which Sentinel asks for no retry. It
  may take deliveries in any order, and its deliveries are counted, not identified. A
  record in `handler_results` stands for its message: two messages with one key are in
  `AgentRuntime` and `Incidents`.
* `FailSoft`: one consumer, one output for a call of `handle()`, gate off; the
  producer's queue is what it has not acked, in stream order.
* `Intake`: media and location resolve to "accepted" or to one of the flaws.
* `Buses`: an entry is its position; `rank` is the order of the ids as text.
* `Perception`: a text is what the keyword tables and the word pattern find in it.
* `Matching`, `Scoring`: millionths, rounded as the code rounds; no drift of
  floats. A PostGIS distance is a number of metres.
* `Incidents`: a place is a point of a line, a day a whole number; `Likeness` is
  the cosine of two wordings. A delivery comes again as often as it takes: poison and
  retries inside `handle()` are in `AgentRuntime` only. The gate is open; what L2 would
  say is `FindingsOnLink`.
  A4's road classes, places and ages are constant here, and free in `Scoring`'s theorems.

## 3. The runs

| Run | Asks | Bounds |
|---|---|---|
| `runtime` | Does the runtime keep its promises, settle every entry, and implement `DeliveryContract`? | 2 consumers, 2 entries with one key, 2 deliveries, 2 attempts, every gate mode, 1 fault |
| `sentinel` | Are verdicts, quarantine and retries consistent, and does every entry get its turn? | 5 messages (hard and soft failures, a cause that may fail at first or when replayed, no id, a garbled id) on 3 topics, 2 faults |
| `fail_soft` | Is a producer's retry heeded, whatever the two do meanwhile? | 2 causes, 3 deliveries (the code's number), 2 soft outputs of each, 2 faults |
| `triage` | Are releases bounded, lost only by faults, and do they bypass nothing? | 2 messages, 2 requests, the topic of one of them consumed, 1 fault |
| `intake` | Do limit, answers, rows and events agree? | 2 workers, 2 devices, 3 submissions, limit 1, 1 fault |
| `incidents` | Does every report find one right home, and every incident its band and department? | 9 cases of 1 to 3 reports, 1 or 2 consumers of A3, 0 to 2 faults |
| `buses` | Do the two transports answer alike, count honestly, and keep the contract? | 3 entries, batches of 2, 1 or 2 consumers, trimmed to 1 or untrimmed, ids in and out of the order of their text, 3 nacks, 1 batch lost |

Five more runs (`stranded`, `jammed`, `gate_race`, `unused_id`, `life_floor`) each
check one sentence of a doc or comment that the code does not keep (section 6).

Why the bounds are enough. Two consumers, workers or requests give every race
that the tables arbitrate: each race is between one reader and one writer of
one row. Two entries give order, a batch of two, and a duplicate. One fault
falls between any two steps of any message, and a second delivery is where its
effects show (`sentinel` has two, so that a redelivery is cut short as well); with two deliveries allowed, an entry then also runs into the
poison budget. `fail_soft` has two faults and the real budget, because a retry
becomes poison only after two cut deliveries: all its fates are reached.
`buses` has three entries, the fewest for a batch, a rest and a trimmed head, and
for ids whose text is out of order. `incidents` takes a case for each way reports
meet: one street and a redelivery; a grey-zone match that is merged, one that is
declined and one that only the re-check finds, by the order of arrival; a
stranger down the street; a
centroid that drifts off a member; texts with nothing for the embedding; a
provider that sees and hears; two consumers; two consumers and two deaths. Most of
the proofs below do not depend on these bounds.

Fairness. `run_forever` of every agent loops, and every call in it ends, with an
exception at worst. So `AgentRuntime` has weak fairness of each consumer's own
steps, `Sentinel` of `Sweep`, `FailSoft` of its producer and of its Sentinel,
and `Incidents` of `Next`, which means no more than that as long as some agent
has something to do something is done. None has fairness of faults, upstream, reviewers or
`handle()`'s outcome. A consumer that vanishes takes no more steps, and that is no excuse:
`EverySettled` promises only what the consumers that come back can reach, and
`stranded` shows the rest.

Deadlock is not checked where the bounds end the behaviour: a bounded number of
entries, submissions, reports or requests runs out, and the system may then really stop.

Symmetry is used in `intake` only, over workers: the properties name none, and
the run checks no liveness.

What each run shows:

* **`runtime`** - `NothingLost`: an acked entry has its key recorded, was
  deadlettered, or was dropped by the gate. `RememberedHasResult`: suppressing a
  duplicate never suppresses the only emission. `ArchivedFirst`: the audit trail
  is ahead of the topics. `AttemptsBounded`: `(MaxDeliveries - 1) * MaxAttempts`
  calls of `handle()` for a consumer alone in its group. `StrictWaitsForVerdict`:
  not even a timed-out wait lets `handle()` run ahead of Sentinel.
  `OpenRunsExplained`: `agent_runs` rows left `running` are runs in progress or
  faults. `ResultsPerKey`: one key's result is published at most once for each
  consumer and each fault. `ImplementsContract`: the refinement. `EverySettled`:
  every entry is settled in the end, while every consumer comes back.
* **`sentinel`** - `AckedIsJudged`, `FailedIsHeld`: nothing slips through a
  crash. `HeldOnce`, `HeldIsFailing`: redelivery, and rules that answer
  differently, neither copy a quarantine row nor hide one from the gate.
  `OneReplay`: one retry of the producer for each message. `EverySwept`: every
  entry, replays included, is verified and acked in the end, or stays behind a message
  that raises at every sweep, and that for one of three reasons: its id is garbled, it
  was published more than once, or a fault made Sentinel start over. So a jam stops what
  comes after it and nothing else does; `jammed` shows that there are jams.
* **`fail_soft`** - `OwedIsOpen`: while a retry is owed, no record would suppress
  it and its replay is still to come. `RetryHeeded`: it is not owed for ever.
* **`triage`** - `ReleasesBounded`, `ReleasedGoesOut`: each fault loses one
  release at most, and none is multiplied beyond the reviewers (that one publishes what
  the other discards is possible, section 6). `HeldStaysOut`: what lies in quarantine is
  never let in by the gate, released or not; a delivery that was past the gate by then
  goes on, and `gate_race` shows one.
* **`intake`** - `RateHolds`: the limit gives way by one for each further worker
  at most. `TrailAgrees`: what the citizen was told is what happened.
  `OrphansExplained`: a report nobody hears of is due to a fault.
* **`incidents`** - `OneCategory`: no incident mixes categories, under any races.
  `NoTwins`: equal reports share an incident, whatever A2 saw (the race A3's
  re-check closes), as long as no stranger is near enough to be merged (section 6). `CountMatches`, `DoneStays`, `RoutedByItsBand`, `SeedFloored`:
  counts, homes, routes and the life-safety floor are what the members say, each
  under the condition its comment names, without which it fails (section 6).
  `AlarmsExplained`: the L2 rules fail a proposal or a reading for two reasons
  only. `EverythingSettles`: every report gets a home and every incident a route,
  whatever died.
* **`buses`** - `SameAnswers`: the tests' transport answers as production's does,
  for a consumer alone in its group that drops no batch. `CountsHonest`: a delivery count is never too
  high, and exact under named conditions. `KeepsContract`: both implement the contract.

## 4. What is proved

TLAPS checks these theorems for every value of the constants, from the
assumptions named in the modules (finite sets, positive bounds, functions with the
right domains; that a text's flags are among those `heuristic.py` has keywords for, and
a likeness is a symmetric fraction that is 1 on the diagonal; and that a structural pass implies ids that are UUIDs, as
`schemas/envelope.v1.json` demands and `common/schemas.py` checks).

**The runtime** (`AgentRuntimeProofs`): `TypeCorrect`, `NoMessageLost`,
`RecordAfterResult`, `AuditComesFirst`, `AttemptsAreBounded`, `StrictGateHolds`,
`RunsLeftOpen`, `OneResultPerKey`, and `KeepsContract`, the refinement of `DeliveryContract`. None of the
properties is inductive; `IInv` adds what a consumer knows at each of its steps:

* `Holding`: what a consumer works on is pending on it, so no two work on one entry;
* `RunIsOpen`: inside a run, its row is open;
* `AckJustified`: at the ack, the entry is accounted for (behind `NothingLost`);
* `ResultBeforeRecord`: before the record, the result is out (`RememberedHasResult`);
* `ArchiveAhead`: before the publish, the archive has one more (`ArchivedFirst`);
* `WithinDeliveries`, `Budget`, `CountsTold`: each delivery has its own allowance
  of attempts, and a consumer alone in its group is told true counts (`AttemptsBounded`);
* `VerdictFirst`: past the strict gate there is a verdict (`StrictWaitsForVerdict`).

`KeepsContract` needs `Holding` only: each `Subscribe` delivers an interval that
starts at the cursor or stutters, each `Ack` settles one entry, nothing else
touches the group. `RunsLeftOpen` is inductive beside `TypeOK` and `Holding`: a step opens
one run and starts one, ends one and closes one, or is a fault and leaves one open.
`OneResultPerKey` counts through `ResultsOnce`, in two parts. Until a key is recorded,
whoever published a result under it is among those through with it (`Decided`) or met a
fault; and at any time the results and the consumers past the duplicate check
(`Deciding`) are together no more than the started consumers and the faults. Passing
the check trades the first part for the second; recording the key ends the first.

**Sentinel** (`SentinelProofs`): `SentinelTypeCorrect`, `NothingAckedUnjudged`,
`NoFailureSlipsThrough`, `QuarantinedOnce`, `QuarantinedIsRefused`,
`ReplayedOnce`, `OnlyTheMetRaise`. The lemmas on claiming come first: a batch is the front of what
there is to claim, so its new entries are an interval and the cursor skips none
(`ClaimedFront`). `IInv` has `InOrder` (what is on record for the message Sentinel
is at, by program counter), `FreshVerdict` (a verdict whose row was just inserted
is the first of its layer, so nothing is in quarantine on its account), `HeldByRow`
(a quarantined message has a failing row in the layer that decides it, and rows
stay) and `RetriedFirst`. `HeldOnce` is the delicate one: it rests on the foreign
key, through `FreshVerdict`, and the same key is what jams the sweep (section 6).
`OnlyTheMetRaise` is the safety half of `EverySwept`: a message raises only if its id
is garbled, it was published more than once, or a fault fell. `MetInv` adds to `IInv`
that a row means its message was acked or is at work (`RowsMet`), so that a first pass
finds no row and inserts each verdict's own (`FirstPass`). TLC checks `MetInv` on the
instance of run `sentinel`; no run of the project repeats it.

**Reviewers** (`TriageProofs`): `SysTypeCorrect`, `ReviewedOnceHeld`,
`ReleasesStayBounded`, `ReleasesGoOut`, `HeldStaysOutAlways`, `FinalForOneAlways`. `SysInv` is
Sentinel's `IInv`, shown to survive the reviewers' steps, with `ReleasesInv`: a
request at work on a message was let in before anyone released it, so those at work and
the releases there were are different reviewers. `ReleasesGoOut` counts: a fault
adds one message at most to the lost ones, and no other step adds any. `HeldStaysOutAlways`
is `HeldByRow` seen from the gate. `FinalForOne` holds for a single reviewer, through `SingleInv`, and
fails for two (section 6).

**Soft failures** (`FailSoftProofs`): `TypeCorrect` and `RetriesStayOpen`. `OwedIsOpen` is
inductive as it stands, since it has three parts: no record of the cause, no
record about to be made, and a replay in the queue that is not already passed over.
Leaving out any of them, a step of the producer breaks the others.

**The gateway** (`IntakeProofs`): `IntakeTypeCorrect`, `RateLimitHolds`,
`AnswersAgree`, `OnlyFaultsOrphan`. `RoomKept` counts the workers that were
admitted together with the attempts they have not recorded yet; `InOrder` says
what a worker has written by now; `OneWorkerEach` and `NothingEarly` keep
submissions apart.

**The pipeline** (`IncidentsProofs`): `TypeCorrect`, `CategoriesNeverMix`,
`DoneReportsStay`, `RouteFollowsBand`, `CountsNeverDrift`, `AlarmsAreExplained`,
`SeedsKeepTheFloor`, `TwinsMeet`, each by an invariant of its own over `TypeInv`:

* `CategoryInv`: a worker about to attach has a target of its report's category, and
  what it aggregated has one category, the row's; the most frequent category of
  such members is that one (`ModeOfUniform`);
* `DoneInv`: the one consumer is never at work on a report it has recorded;
* `BandInv`: the first message of an incident carries the band its row shows;
* `CountInv`: a report is without a home until it is attached, among the members
  that are read from then on, and what was read is still true when it is written;
* `LinkInv`: a report has one proposal, none before A2 recorded it, and where the
  proposal leaves A3 no choice (`Binding`), the report goes there. What L2 can then
  still hold against a proposal is that A3 had a choice and settled first;
* `SeedInv`: an incident keeps the report that seeded it, so the report's flags are
  among those A4 reads whenever it looks. It needs A4's whole arithmetic: the score
  is found in its table (`ScoringProofs`), and the floor wins over every score;
* `TwinsInv`, the longest, about a report and its equals: at most one incident was
  seeded by one of them (`OneOf`), it has not moved (`OnSpot`), its members are they
  and nobody else (`Apart`), and a proposal that binds A3, a target, and what A3 has
  read but not written respect that (`Proposed`, `Aimed`). A re-check then finds that
  incident as the best match, since two equal reports score as high as any can. The
  lemmas before it are about centroids (a weighted mean of one place is that place)
  and about sums over finite sets, by induction on their size.

**The buses** (`BusesProofs`): `BusTypes`, `HonestCounts`, `BusesKeepContract`,
`AnswersAgree`: all that the run checks. The model lists sets in order and cuts
sequences by `Nth`, `InOrder` and `Among`; the first lemmas say what these return
(`InOrderLists`, `AmongKeeps`), and that there is one ascending list of a set
(`OneAscending`). `BusInv` has three parts beside the types. `Places`: nothing is
pending or queued twice or before it was read, and what is idle is pending unless it
was trimmed. `Counted`: each transport's counts are the deliveries made. `Held`: a
batch has only what was delivered. Every call that claims is shown to be one kind of
step, `MemStep` or `RedStep` (the cursor moves, what it passes becomes outstanding,
what is answered is counted once more), and invariant, counts and refinement follow
from that alone. `BusesKeepContract` maps RedisBus's cursor to `Through`, which
skips what was trimmed unread. `ExactCounts` is the case the window of
`redis.py:276-294` is right for: a consumer alone drains the front of the pending
list, and just that lies between the first and the last id.
`AnswersAgree` needs `Together`: for one consumer that loses nothing, both transports
have read as far and have the same outstanding, and what InMemoryBus queued for
redelivery followed by what is left of the batch is in stream order and no longer
than one call may claim. RedisBus keeps no such queue: it gets the same order from
the stream, which is why a nack that does nothing is enough, and why it stops being
enough as soon as a batch is abandoned.

**The algorithms** (`ScoringProofs`): `ScoreIsFraction`, `MergedIsClose`, `LifeSafetyIsCritical`,
`WorseNeverScoresLower` (monotone in hazards, severity, reporters and age);
`ReadingPassesL2`, `PriorityPassesL2` and `RoutePassesL2`, that what A1, A4 and A5
emit passes Sentinel's rules for every input; and `RecheckIsLooser`, which
exhibits a candidate the code's own comment rules out.

Every invariant, action property and refinement of the passing runs has its theorem.
Only model-checked is liveness (`EverySettled`, `EverySwept`, `RetryHeeded`,
`EverythingSettles`), which is out of the prover's reach, as is what depends on
`ENABLED`. The library's induction rules take an operator as a parameter, which the
provers cannot instantiate; where a proof needs induction (the order of a set, a sum,
two ascending lists), it takes a least counterexample instead.

## 5. Mutants

Every property of every passing run has a mutant: a definition of the model,
changed the way a bug in the code would change it, under which TLC finds the
property violated. They stand before the definitions they replace and are named
after them (`Retry_Unrecorded`, `Ack_WholeBatch`, `X_InReach`, ...).

## 6. Where code and documentation disagree

Each is stated in `PROJECT.json` under `findings`, with the lines quoted.

With a run that shows it:

* `stranded`: `reclaim()` is implemented on both buses and called by no process,
  so a consumer name that does not come back strands what it claimed.
* `jammed`: Sentinel meets a failing message again; the verdict row is not
  inserted a second time, the quarantine row refers to it, and the foreign key
  makes the sweep raise, on every sweep. That topic's later entries, and every
  later topic, are no longer verified. The run needs no fault for it: the cause that a
  soft failure replays had failed itself, as every genuine `reports.ingested` does
  (`unused_id`). A crash before the ack and a human's release have the same effect,
  and the documented escalation of a second soft failure cannot work.
* `gate_race`: the gate opens on L1's pass, before L2 has failed the message. The
  quarantine may come after the consumer began, or between the gate's answer and the
  call of `handle()`, with the commit of the run's start in between.
* `unused_id`: the rule that a report id is unused reads the table the gateway
  has just written it to; with persistence on it fails every genuine report.
* `life_floor`: a life-safety report that joins a scored incident leaves it below
  critical, because A4 takes the update for a duplicate of the first.

Met on the way, in the conditions of the properties:

* Retries: the deletion may come before the producer's record and the retry is
  then suppressed ("overtaken"); Sentinel may die with the retry spent ("cut
  short"); "one retry only" is per message while each retry makes a new message.
* Delivery counts of Redis are read through a window that others' entries may
  fill, and between ids compared as text. `InMemoryBus` does not give an abandoned batch
  back, as Redis does.
* Two reviewers at once both decide. A released envelope stays refused by the gate.
* A3 follows a proposal in the grey zone by the components A2 computed, without a
  second look: of two equal reports, one may join a stranger's incident that A2 saw,
  and the other its own. A stranger that is merged may also drag the centroid away
  from the reports that come later. `NoTwins` excludes both.
* A3's re-check is looser than the path it stands in for; `report_count` does drift
  with a second consumer or after a crash; A1 writes over the status of a linked report.
* L2 fails a proposal that the adjudicator legally declined, and every text
  without a Latin letter, two of which A2 takes for identical (NaN).
* `rules/a2.py` promises two invariants it does not check. A photo on its own is
  accepted and its labels are not used.

## 7. Plan

Done: buses, runtime, contract, Sentinel, soft failures, triage, intake, the
pipeline and its algorithms, and the proofs above. What is left, by what it would add:

1. The verdict gate inside `Incidents`: A2 to A5 behind the strict gate, with a reading
   that L2 fails on the way.
2. The migration runner: crash between a migration and its record.

## 8. Not modelled

* Images, storage and geography (`common/storage.py`, `common/geo.py`), and the
  hash embedding of `heuristic.py`: data; `Perception` and `Incidents` take what is read
  of them as inputs.
* What the agents write for readers only: titles, timelines, rationales, wards.
  No guard reads them. `rules/a3` but for the counts.
* L1's schema checks, configuration, logging, the database wrapper; a transaction is a step.
* The read endpoints of the API, `pending`, `length` and `group_info` of the
  buses, and the evaluation and seeding scripts: they keep no state and
  take part in no protocol.
* The migration runner, a program that runs alone before the others start.
* Redis or Postgres losing what they acknowledged.
