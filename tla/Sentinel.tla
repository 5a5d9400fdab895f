------------------------------ MODULE Sentinel ------------------------------
(***************************************************************************)
(* The verification agent (agents/av_sentinel/agent.py), with persistence  *)
(* on, over one Redis stream per topic and Postgres.                       *)
(*                                                                         *)
(* Sentinel sweeps its topics in sort order.  Of each message it records   *)
(* the L1 verdict and announces it, then the L2 verdict where L1 passed    *)
(* and the topic has rules; a hard failure is put into quarantine, a soft  *)
(* one replays the cause to the producer; then the entry is acked.  Each   *)
(* transaction and each publish is one step, and a fault may fall between  *)
(* any two.  A fault or an exception drops the sweep, which starts again   *)
(* at the first topic, each topic beginning with its un-acked entries.     *)
(*                                                                         *)
(* Sentinel's own events go to topics it does not sweep.  That it archives *)
(* them before it publishes them is left out: nothing here reads them.     *)
(***************************************************************************)
EXTENDS Integers, Sequences, FiniteSets

CONSTANTS
  Messages,    \* the envelopes that may reach the bus, by identity
  NoMessage,   \* the cause of a message that has none
  NumTopics,   \* the swept topics, numbered in sort order
  TopicOf,     \* message -> topic
  IdOf,        \* message -> whether message_id and trace_id are UUIDs
  L1Of,        \* message -> the structural verdict
  L2Of,        \* message -> the verdicts L2 may reach; {} without rules
  CauseOf,     \* message -> the message its producer was handling
  Archived,    \* the messages whose producer archives them
  BatchSize,   \* run_once(count=...)
  MaxFaults    \* bound: crashes and lost connections

Topics == 1..NumTopics
Layers == {"L1", "L2"}
Verdicts == {"pass", "warn", "fail_soft", "fail_hard"}
Statuses == {"pending", "released", "discarded"}
Labels == {"sweep", "record", "announce", "hold", "divert", "retry", "replay", "ack"}

\* A structural pass implies ids that Postgres takes as UUIDs.
ASSUME SentinelAssumption ==
  /\ NoMessage \notin Messages
  /\ IsFiniteSet(Messages)
  /\ NumTopics \in Nat \ {0}
  /\ TopicOf \in [Messages -> Topics]
  /\ IdOf \in [Messages -> {"uuid", "absent", "garbled"}]
  /\ L1Of \in [Messages -> {"pass", "fail_hard"}]
  /\ L2Of \in [Messages -> SUBSET Verdicts]
  /\ CauseOf \in [Messages -> Messages \cup {NoMessage}]
  /\ Archived \subseteq Messages
  /\ BatchSize \in Nat \ {0}
  /\ MaxFaults \in Nat
  /\ \A m \in Messages : L1Of[m] = "pass" => IdOf[m] = "uuid"

VARIABLES
  \* the bus: Sentinel's group on every topic
  stream,      \* topic -> the messages published to it, in order
  cursor,      \* topic -> the last entry delivered to the group
  pending,     \* topic -> the entries delivered and not acked
  \* Postgres
  rows,        \* verification_results: message -> layer -> verdict
  quarantine,  \* quarantine: message -> status -> how many rows
  handled,     \* handler_results of the producers, by the message handled
  retried,     \* sentinel_fail_soft_retries
  \* the Sentinel process
  at,          \* the topic being swept
  batch,       \* the entries claimed from it and still to be worked
  pc, layer, verdict,
  inserted,    \* the current verdict's own row is in verification_results
  \* history
  announced,   \* verification.results: <<message, layer, verdict>>
  diverted,    \* message -> events on its quarantine topic
  replays,     \* message -> replays of its cause
  faults

busVars == <<stream, cursor, pending>>
dbVars == <<rows, quarantine, handled, retried>>
procVars == <<at, batch, pc, layer, verdict, inserted>>
outVars == <<announced, diverted, replays>>
vars == <<busVars, dbVars, procVars, outVars, faults>>

TypeOK ==
  /\ stream \in [Topics -> Seq(Messages)]
  /\ cursor \in [Topics -> Nat]
  /\ pending \in [Topics -> SUBSET Nat]
  /\ \A t \in Topics : cursor[t] \in 0..Len(stream[t]) /\ pending[t] \subseteq 1..cursor[t]
  /\ rows \in [Messages -> [Layers -> Verdicts \cup {"none"}]]
  /\ quarantine \in [Messages -> [Statuses -> Nat]]
  /\ handled \subseteq Messages
  /\ retried \subseteq Messages
  /\ at \in Topics
  /\ batch \subseteq pending[at]
  /\ pc \in Labels
  /\ (pc = "sweep") <=> (batch = {})
  /\ layer \in Layers
  /\ verdict \in Verdicts
  /\ inserted \in BOOLEAN
  /\ announced \subseteq Messages \X Layers \X Verdicts
  /\ diverted \in [Messages -> Nat]
  /\ replays \in [Messages -> Nat]
  /\ faults \in Nat

\* subscribe_all() has run: every group exists, and starts at the tail.
Init ==
  /\ stream = [t \in Topics |-> <<>>]
  /\ cursor = [t \in Topics |-> 0]
  /\ pending = [t \in Topics |-> {}]
  /\ rows = [m \in Messages |-> [l \in Layers |-> "none"]]
  /\ quarantine = [m \in Messages |-> [s \in Statuses |-> 0]]
  /\ handled = {}
  /\ retried = {}
  /\ at = 1
  /\ batch = {}
  /\ pc = "sweep"
  /\ layer = "L1"
  /\ verdict = "pass"
  /\ inserted = FALSE
  /\ announced = {}
  /\ diverted = [m \in Messages |-> 0]
  /\ replays = [m \in Messages |-> 0]
  /\ faults = 0

-----------------------------------------------------------------------------
(* The producers.                                                          *)

Streamed(m) == \E i \in 1..Len(stream[TopicOf[m]]) : stream[TopicOf[m]][i] = m

Append1(m) == stream' = [stream EXCEPT ![TopicOf[m]] = Append(@, m)]

Publish(m) ==
  /\ ~Streamed(m)
  /\ CauseOf[m] # NoMessage => Streamed(CauseOf[m])
  /\ Append1(m)
  /\ UNCHANGED <<cursor, pending, dbVars, procVars, outVars, faults>>

\* The producer of m has recorded that it handled m's cause (base.py:256-258).
Remember(m) ==
  /\ Streamed(m)
  /\ CauseOf[m] # NoMessage
  /\ CauseOf[m] \notin handled
  /\ handled' = handled \cup {CauseOf[m]}
  /\ UNCHANGED <<busVars, rows, quarantine, retried, procVars, outVars, faults>>

-----------------------------------------------------------------------------
(* The sweep: run_once.                                                    *)

Lowest(S, n) == {e \in S : Cardinality({x \in S : x < e}) < n}

\* Mutant: a sweep claims only what was never delivered.
Claimable_NewOnly(t) == (cursor[t] + 1)..Len(stream[t])

\* What subscribe() may return: own un-acked entries, then new ones.
Claimable(t) == pending[t] \cup ((cursor[t] + 1)..Len(stream[t]))

\* Mutant: the sweep does not start over.
NextTopic_Onward == at + 1

NextTopic == IF at = NumTopics THEN 1 ELSE at + 1

Skip ==
  /\ pc = "sweep"
  /\ Claimable(at) = {}
  /\ at' = NextTopic
  /\ UNCHANGED <<busVars, dbVars, batch, pc, layer, verdict, inserted, outVars, faults>>

Claim ==
  /\ pc = "sweep"
  /\ Claimable(at) # {}
  /\ batch' = Lowest(Claimable(at), BatchSize)
  /\ pending' = [pending EXCEPT ![at] = @ \cup batch']
  /\ cursor' = [cursor EXCEPT ![at] = @ + Cardinality({e \in batch' : @ < e})]
  /\ pc' = "record"
  /\ layer' = "L1"
  /\ UNCHANGED <<stream, dbVars, at, verdict, inserted, outVars, faults>>

\* m is the message Sentinel is working on.
Current(m) == \E e \in batch : stream[at][e] = m /\ \A x \in batch : e <= x

\* An exception reaches run_forever: the rest of the batch stays pending.
Abandon ==
  /\ pc' = "sweep"
  /\ batch' = {}
  /\ at' = 1
  /\ UNCHANGED <<layer, verdict, inserted>>

-----------------------------------------------------------------------------
(* verify: one message.                                                    *)

\* The rules of L2 that read the database may answer differently when asked
\* again; the others, and L1, always answer alike.
Judgements(m) == IF layer = "L1" THEN {L1Of[m]} ELSE L2Of[m]

\* A message without an id is recorded under a fresh one each time.
IsNew(m) == IdOf[m] = "absent" \/ rows[m][layer] = "none"

\* Mutant: the row of an earlier verdict is overwritten.
Record_Upsert(m, v) ==
  /\ pc = "record"
  /\ IdOf[m] # "garbled"
  /\ v \in Judgements(m)
  /\ verdict' = v
  /\ inserted' = IsNew(m)
  /\ rows' = IF IdOf[m] = "uuid" THEN [rows EXCEPT ![m][layer] = v] ELSE rows
  /\ pc' = "announce"
  /\ UNCHANGED <<busVars, quarantine, handled, retried, at, batch, layer, outVars, faults>>

\* ON CONFLICT (message_id, layer) DO NOTHING: the first verdict stays, and
\* the new verdict's id is then in no row.
Record(m, v) ==
  /\ pc = "record"
  /\ IdOf[m] # "garbled"
  /\ v \in Judgements(m)
  /\ verdict' = v
  /\ inserted' = IsNew(m)
  /\ rows' = IF IdOf[m] = "uuid" /\ IsNew(m) THEN [rows EXCEPT ![m][layer] = v] ELSE rows
  /\ pc' = "announce"
  /\ UNCHANGED <<busVars, quarantine, handled, retried, at, batch, layer, outVars, faults>>

\* Postgres takes no id that is not a UUID.
RecordRaises(m) ==
  /\ pc = "record"
  /\ IdOf[m] = "garbled"
  /\ Abandon
  /\ UNCHANGED <<busVars, dbVars, outVars, faults>>

\* Where a verdict leads: verify's branches.
AfterVerdict(m) ==
  CASE verdict = "fail_hard" -> "hold"
    [] verdict = "fail_soft" -> "retry"
    [] layer = "L1" /\ verdict = "pass" /\ L2Of[m] # {} -> "record"
    [] OTHER -> "ack"

Announce(m) ==
  /\ pc = "announce"
  /\ announced' = announced \cup {<<m, layer, verdict>>}
  /\ pc' = AfterVerdict(m)
  /\ layer' = IF AfterVerdict(m) = "record" THEN "L2" ELSE layer
  /\ UNCHANGED <<busVars, dbVars, at, batch, verdict, inserted, diverted, replays, faults>>

\* Mutant: the foreign key does not hold.
Hold_NoForeignKey(m) ==
  /\ pc = "hold"
  /\ quarantine' = [quarantine EXCEPT ![m]["pending"] = @ + 1]
  /\ pc' = "divert"
  /\ UNCHANGED <<busVars, rows, handled, retried, at, batch, layer, verdict, inserted, outVars,
                 faults>>

\* quarantine.verdict_id references verification_results.
Hold(m) ==
  /\ pc = "hold"
  /\ inserted
  /\ quarantine' = [quarantine EXCEPT ![m]["pending"] = @ + 1]
  /\ pc' = "divert"
  /\ UNCHANGED <<busVars, rows, handled, retried, at, batch, layer, verdict, inserted, outVars,
                 faults>>

\* Mutant: the integrity error is swallowed.
HoldRaises_Swallowed(m) ==
  /\ pc = "hold"
  /\ ~inserted
  /\ pc' = "divert"
  /\ UNCHANGED <<busVars, dbVars, at, batch, layer, verdict, inserted, outVars, faults>>

HoldRaises(m) ==
  /\ pc = "hold"
  /\ ~inserted
  /\ Abandon
  /\ UNCHANGED <<busVars, dbVars, outVars, faults>>

Divert(m) ==
  /\ pc = "divert"
  /\ diverted' = [diverted EXCEPT ![m] = @ + 1]
  /\ pc' = "ack"
  /\ UNCHANGED <<busVars, dbVars, at, batch, layer, verdict, inserted, announced, replays, faults>>

\* Mutant: the retry is not recorded.
Retry_Unrecorded(m) ==
  /\ pc = "retry"
  /\ CauseOf[m] \in Archived
  /\ handled' = handled \ {CauseOf[m]}
  /\ pc' = "replay"
  /\ UNCHANGED <<busVars, rows, quarantine, retried, at, batch, layer, verdict, inserted, outVars,
                 faults>>

\* _fail_soft_retry's transaction.
Retry(m) ==
  /\ pc = "retry"
  /\ \/ /\ m \in retried
        /\ pc' = "hold"
        /\ UNCHANGED <<handled, retried>>
     \/ /\ m \notin retried
        /\ CauseOf[m] \in Archived
        /\ handled' = handled \ {CauseOf[m]}
        /\ retried' = retried \cup {m}
        /\ pc' = "replay"
     \/ /\ m \notin retried
        /\ CauseOf[m] \notin Archived
        /\ pc' = "ack"
        /\ UNCHANGED <<handled, retried>>
  /\ UNCHANGED <<busVars, rows, quarantine, at, batch, layer, verdict, inserted, outVars, faults>>

\* The cause goes back to the topic its producer reads.
Replay(m) ==
  /\ pc = "replay"
  /\ Append1(CauseOf[m])
  /\ replays' = [replays EXCEPT ![m] = @ + 1]
  /\ pc' = "ack"
  /\ UNCHANGED <<cursor, pending, dbVars, at, batch, layer, verdict, inserted, announced, diverted,
                 faults>>

\* Mutant: the batch is acked with its first message.
Ack_WholeBatch(m) ==
  /\ pc = "ack"
  /\ pending' = [pending EXCEPT ![at] = @ \ batch]
  /\ batch' = {}
  /\ pc' = "sweep"
  /\ at' = NextTopic
  /\ layer' = "L1"
  /\ UNCHANGED <<stream, cursor, dbVars, verdict, inserted, outVars, faults>>

Ack(m) ==
  /\ pc = "ack"
  /\ batch' = {e \in batch : \E x \in batch : x < e}
  /\ pending' = [pending EXCEPT ![at] = @ \ (batch \ batch')]
  /\ pc' = IF batch' = {} THEN "sweep" ELSE "record"
  /\ at' = IF batch' = {} THEN NextTopic ELSE at
  /\ layer' = "L1"
  /\ UNCHANGED <<stream, cursor, dbVars, verdict, inserted, outVars, faults>>

\* A crash and restart, or a call that raised.
LoopError ==
  /\ pc # "sweep"
  /\ faults < MaxFaults
  /\ faults' = faults + 1
  /\ Abandon
  /\ UNCHANGED <<busVars, dbVars, outVars>>

-----------------------------------------------------------------------------
Verify(m) ==
  \/ \E v \in Verdicts : Record(m, v)
  \/ RecordRaises(m)
  \/ Announce(m)
  \/ Hold(m)
  \/ HoldRaises(m)
  \/ Divert(m)
  \/ Retry(m)
  \/ Replay(m)
  \/ Ack(m)

Sweep == Skip \/ Claim \/ \E m \in Messages : Current(m) /\ Verify(m)

Next ==
  \/ \E m \in Messages : Publish(m) \/ Remember(m)
  \/ Sweep
  \/ LoopError

Spec == Init /\ [][Next]_vars

\* run_forever sweeps without end, and no step of a sweep blocks.
FairSpec == Spec /\ WF_vars(Sweep)

-----------------------------------------------------------------------------
(* Properties.                                                             *)

Settled(t, e) == e \in 1..cursor[t] /\ e \notin pending[t]

Acked(m) == \E e \in 1..Len(stream[TopicOf[m]]) :
              stream[TopicOf[m]][e] = m /\ Settled(TopicOf[m], e)

Told(m, l) == \E v \in Verdicts : <<m, l, v>> \in announced

Held(m) == \E s \in Statuses : quarantine[m][s] > 0

\* The worst recorded verdict: what the gate goes by (verdict_gate.py:94-112).
Worst(m) ==
  LET seen == {rows[m][l] : l \in Layers}
  IN  IF "fail_hard" \in seen THEN "fail_hard"
      ELSE IF "fail_soft" \in seen THEN "fail_soft"
      ELSE IF "warn" \in seen THEN "warn"
      ELSE IF "pass" \in seen THEN "pass" ELSE "none"

Failing(m) == Worst(m) \in {"fail_hard", "fail_soft"}

\* Rules that read nothing but the envelope give one answer.
Decided(m) == Cardinality(L2Of[m]) <= 1

\* An acked message has been through every layer that applies to it: recorded
\* and announced, wherever a crash fell (agent.py:133-149, 172-199).
AckedIsJudged ==
  \A m \in Messages : Acked(m) /\ IdOf[m] = "uuid" =>
    /\ rows[m]["L1"] # "none" /\ Told(m, "L1")
    /\ L1Of[m] = "pass" /\ L2Of[m] # {} => rows[m]["L2"] # "none" /\ Told(m, "L2")

\* A hard failure is not acked before a human can find it in quarantine, and
\* before its quarantine topic heard of it; the rules must answer alike when a
\* crash makes Sentinel ask again (agent.py:267-315).
FailedIsHeld ==
  \A m \in Messages : Acked(m) /\ Decided(m) /\ (L1Of[m] = "fail_hard" \/ L2Of[m] = {"fail_hard"}) =>
    Held(m) /\ diverted[m] > 0

\* Redelivery never fills the triage queue with copies: a message with an id
\* has one quarantine row at most (agent.py:218, 0001_init.sql:265, 277).
HeldOnce ==
  \A m \in Messages : IdOf[m] = "uuid" =>
    quarantine[m]["pending"] + quarantine[m]["released"] + quarantine[m]["discarded"] <= 1

\* What lies in quarantine is also failing to the gate, and stays so, whatever
\* Sentinel finds when it meets the message again (agent.py:218).
HeldIsFailing == \A m \in Messages : Held(m) /\ IdOf[m] = "uuid" => Failing(m)

\* A message costs its producer one retry at most, however often it is
\* delivered to Sentinel (agent.py:355-382, 0004:5-13).
OneReplay == \A m \in Messages : replays[m] <= 1

\* m was published more than once.
Repeated(m) ==
  LET log == stream[TopicOf[m]]
  IN  \E i, j \in 1..Len(log) : i # j /\ log[i] = m /\ log[j] = m

\* Why verifying m may raise: its id is garbled, or Sentinel may have met it
\* before, since it was published again, or since a fault made Sentinel start
\* over.
Explained(m) == IdOf[m] = "garbled" \/ Repeated(m) \/ faults > 0

\* The call Sentinel is about to make for m raises: Postgres takes no garbled
\* id, and no quarantine row for a verdict it did not insert.
Raising(m) ==
  /\ Current(m)
  /\ \/ pc = "record" /\ IdOf[m] = "garbled"
     \/ pc = "hold" /\ ~inserted

\* A message met for the first time does not jam the sweep (agent.py:218, 282).
RaisesExplained == \A m \in Messages : Raising(m) => Explained(m)

\* The entry Sentinel is at, and all that come after it in the sweep.
FromHere(t, e) == at < t \/ (at = t /\ \E x \in batch : x <= e)

\* Every entry of every topic, replays included, is verified and acked in the
\* end, or else stays behind a message that verifying raises on, sweep after
\* sweep, and explicably.  So a jam stops what comes after it and nothing else
\* does: run_once drains its own un-acked entries first, in order, and starts
\* over at the first topic (agent.py:133-165).
EverySwept ==
  []<>(\A t \in Topics : \A e \in 1..Len(stream[t]) :
         \/ Settled(t, e)
         \/ FromHere(t, e) /\ \E m \in Messages : Raising(m) /\ Explained(m))

\* agent.py:101: Sentinel "verifies every message on every topic".
VerifiesEveryMessage == \A m \in Messages : Streamed(m) ~> Acked(m)

-----------------------------------------------------------------------------
(* The inductive invariant behind the safety properties above.             *)

\* The layer whose verdict decides whether m fails.
Deciding(m) == IF L1Of[m] = "pass" THEN "L2" ELSE "L1"

\* What Sentinel has done by now for the message it is at.
Progress(m) ==
  /\ layer = "L2" => L1Of[m] = "pass" /\ L2Of[m] # {} /\ rows[m]["L1"] # "none" /\ Told(m, "L1")
  /\ pc # "record" => /\ verdict \in Judgements(m)
                      /\ IdOf[m] = "uuid" => rows[m][layer] # "none"
  /\ pc \notin {"record", "announce"} => Told(m, layer)
  /\ pc \in {"hold", "divert"} => verdict \in {"fail_hard", "fail_soft"}
  /\ pc \in {"retry", "replay"} => verdict = "fail_soft"
  /\ pc = "replay" => m \in retried /\ replays[m] = 0 /\ CauseOf[m] \in Messages
  /\ pc = "divert" => Held(m)
  /\ pc = "ack" => /\ layer = "L1" /\ L1Of[m] = "pass" => L2Of[m] = {}
                   /\ verdict = "fail_hard" => Held(m) /\ diverted[m] > 0

InOrder == \A m \in Messages : Current(m) => Progress(m)

\* A verdict whose row was just inserted is the first of its layer: nothing can
\* be in quarantine on its account, except by this very pass.
FreshVerdict ==
  \A m \in Messages :
    Current(m) /\ IdOf[m] = "uuid" /\ inserted /\ pc \in {"announce", "hold", "retry"} =>
      rows[m][layer] = verdict /\ (layer = Deciding(m) => ~Held(m))

\* The row that put a message into quarantine stays.
HeldByRow ==
  \A m \in Messages : IdOf[m] = "uuid" /\ Held(m) => rows[m][Deciding(m)] \in {"fail_hard", "fail_soft"}

RetriedFirst == \A m \in Messages : m \notin retried => replays[m] = 0

IInv ==
  /\ TypeOK
  /\ InOrder /\ AckedIsJudged /\ FailedIsHeld
  /\ FreshVerdict /\ HeldByRow /\ HeldOnce
  /\ RetriedFirst /\ OneReplay

\* A row shows that Sentinel has been through the message, or is at it.
RowsMet ==
  \A m \in Messages, l \in Layers :
    rows[m][l] # "none" => Acked(m) \/ Current(m) \/ Explained(m)

\* On its first pass a message finds no row of its own.
FirstPass ==
  \A m \in Messages : Current(m) /\ ~Explained(m) =>
    /\ layer = "L1" => rows[m]["L2"] = "none"
    /\ IF pc = "record" THEN rows[m][layer] = "none" ELSE inserted

OnTopic == \A t \in Topics : \A e \in 1..Len(stream[t]) : TopicOf[stream[t][e]] = t

MetInv == IInv /\ OnTopic /\ RowsMet /\ FirstPass
=============================================================================
