------------------------------ MODULE FailSoft ------------------------------
(***************************************************************************)
(* A producer and Sentinel, coupled by fail_soft: an output that L2 finds  *)
(* wrong in a retryable way makes Sentinel delete the producer's record of *)
(* the cause and publish the cause again (agents/av_sentinel/agent.py),    *)
(* while the producer publishes, records and acks on its own               *)
(* (agents/base.py).  Neither waits for the other.                         *)
(*                                                                         *)
(* One producer, one consumer of its group, persistence on, gate off.  Its *)
(* input is the queue of entries it has not acked, worked head first; the  *)
(* verdicts on the causes themselves are left to Sentinel.                 *)
(***************************************************************************)
EXTENDS Integers, Sequences, FiniteSets

CONSTANTS
  Causes,         \* the messages upstream may send, each with a key of its own
  MaxDeliveries,  \* bus.base.MAX_DELIVERIES
  MaxSoft,        \* bound: outputs of one cause that L2 finds wrong
  MaxFaults       \* bound: crashes and escaped exceptions

ASSUME FailSoftAssumption ==
  /\ MaxDeliveries \in Nat \ {0}
  /\ MaxSoft \in Nat /\ MaxFaults \in Nat

VARIABLES
  sent,     \* the causes upstream has published
  \* the producer
  queue,    \* entries not acked: the cause, the output it is a retry for, or 0,
            \* and how many of its deliveries were cut short
  known,    \* its handler_results
  pc,       \* what it is about to do with the head of the queue
  \* Sentinel
  outputs,  \* what the producer published: the cause, L2's answer, whether a
            \* verdict is recorded, and what became of the retry
  next,     \* the output Sentinel is at
  at,       \* what it is about to do with it
  inserted, \* the verdict it just found is the recorded one
  faults

vars == <<sent, queue, known, pc, outputs, next, at, inserted, faults>>
sentinelVars == <<next, at, inserted>>

\* "none": not retried, so without a row in sentinel_fail_soft_retries; "owed":
\* the producer has yet to handle the cause again; the others say how that ended.
Fates == {"none", "owed", "heeded", "overtaken", "cut short", "poisoned"}

TypeOK ==
  /\ sent \subseteq Causes
  /\ queue \in Seq([cause : Causes, retryOf : Nat, cuts : Nat])
  /\ known \subseteq Causes
  /\ pc \in {"idle", "handle", "publish", "remember", "ack"}
  /\ pc # "idle" => queue # <<>>
  /\ outputs \in Seq([cause : Causes, soft : BOOLEAN, seen : BOOLEAN, fate : Fates])
  /\ next \in 1 .. Len(outputs) + 1
  /\ at \in {"idle", "retry", "replay", "hold", "ack"}
  /\ at # "idle" => next <= Len(outputs)
  /\ inserted \in BOOLEAN
  /\ faults \in 0 .. MaxFaults

Init ==
  /\ sent = {} /\ queue = <<>> /\ known = {} /\ pc = "idle"
  /\ outputs = <<>> /\ next = 1 /\ at = "idle" /\ inserted = FALSE
  /\ faults = 0

Upstream(c) ==
  /\ c \notin sent
  /\ sent' = sent \cup {c}
  /\ queue' = Append(queue, [cause |-> c, retryOf |-> 0, cuts |-> 0])
  /\ UNCHANGED <<known, pc, outputs, sentinelVars, faults>>

-----------------------------------------------------------------------------
(* The producer: _process_envelope. *)

Current == Head(queue).cause

\* The retries of S that are still owed end as f.
Fated(S, f) ==
  [i \in DOMAIN outputs |->
     IF i \in S /\ outputs[i].fate = "owed" THEN [outputs[i] EXCEPT !.fate = f] ELSE outputs[i]]

IsPoison(entry) == entry.cuts + 1 >= MaxDeliveries

\* The poison check, which deadletters, comes before the duplicate check.
Take ==
  /\ pc = "idle"
  /\ queue # <<>>
  /\ \/ /\ IsPoison(Head(queue))
        /\ outputs' = Fated({Head(queue).retryOf}, "poisoned")
        /\ pc' = "ack"
     \/ /\ ~IsPoison(Head(queue))
        /\ pc' = IF Current \in known THEN "ack" ELSE "handle"
        /\ UNCHANGED outputs
  /\ UNCHANGED <<sent, queue, known, sentinelVars, faults>>

\* handle() returns, or fails at the last attempt and the entry is deadlettered.
Handle ==
  /\ pc = "handle"
  /\ outputs' = Fated({i \in DOMAIN outputs : outputs[i].cause = Current}, "heeded")
  /\ pc' \in {"publish", "ack"}
  /\ UNCHANGED <<sent, queue, known, sentinelVars, faults>>

SoftOf(c) == {i \in DOMAIN outputs : outputs[i].cause = c /\ outputs[i].soft}

Publish ==
  /\ pc = "publish"
  /\ \E soft \in BOOLEAN :
       /\ soft => Cardinality(SoftOf(Current)) < MaxSoft
       /\ outputs' = Append(outputs, [cause |-> Current, soft |-> soft, seen |-> FALSE,
                                      fate |-> "none"])
  /\ pc' = "remember"
  /\ UNCHANGED <<sent, queue, known, sentinelVars, faults>>

Remember ==
  /\ pc = "remember"
  /\ known' = known \cup {Current}
  /\ pc' = "ack"
  /\ UNCHANGED <<sent, queue, outputs, sentinelVars, faults>>

Ack ==
  /\ pc = "ack"
  /\ queue' = Tail(queue)
  /\ pc' = "idle"
  /\ UNCHANGED <<sent, known, outputs, sentinelVars, faults>>

\* Mutant: what was claimed counts as acked.
X_LoopError(n) ==
  /\ pc # "idle"
  /\ faults < MaxFaults
  /\ faults' = faults + 1
  /\ pc' = "idle"
  /\ queue' = SubSeq(queue, n + 1, Len(queue))
  /\ UNCHANGED <<sent, known, outputs, sentinelVars>>

\* A call raises, or the process dies and comes back: the first n entries were
\* claimed and are delivered once more.
LoopError(n) ==
  /\ pc # "idle"
  /\ faults < MaxFaults
  /\ faults' = faults + 1
  /\ pc' = "idle"
  /\ queue' = [i \in DOMAIN queue |->
                 IF i <= n THEN [queue[i] EXCEPT !.cuts = @ + 1] ELSE queue[i]]
  /\ UNCHANGED <<sent, known, outputs, sentinelVars>>

-----------------------------------------------------------------------------
(* Sentinel: verify and _fail_soft_retry. *)

Verify ==
  /\ at = "idle"
  /\ next <= Len(outputs)
  /\ inserted' = ~outputs[next].seen
  /\ outputs' = [outputs EXCEPT ![next].seen = TRUE]
  /\ at' = IF outputs[next].soft THEN "retry" ELSE "ack"
  /\ UNCHANGED <<sent, queue, known, pc, next, faults>>

\* The producer has handled c and has not recorded it yet.
Unrecorded(c) == pc \in {"publish", "remember"} /\ Current = c

\* The transaction: a second retry of the same message escalates; the first one
\* deletes the producer's record of the cause.
\* Mutant: the record of the cause stays.
X_Retry ==
  /\ at = "retry"
  /\ \/ /\ outputs[next].fate # "none"
        /\ at' = "hold"
        /\ UNCHANGED <<known, outputs>>
     \/ /\ outputs[next].fate = "none"
        /\ at' = "replay"
        /\ outputs' = [outputs EXCEPT ![next].fate =
                         IF Unrecorded(outputs[next].cause) THEN "overtaken" ELSE "owed"]
        /\ UNCHANGED known
  /\ UNCHANGED <<sent, queue, pc, next, inserted, faults>>
Retry ==
  /\ at = "retry"
  /\ \/ /\ outputs[next].fate # "none"
        /\ at' = "hold"
        /\ UNCHANGED <<known, outputs>>
     \/ /\ outputs[next].fate = "none"
        /\ at' = "replay"
        /\ known' = known \ {outputs[next].cause}
        /\ outputs' = [outputs EXCEPT ![next].fate =
                         IF Unrecorded(outputs[next].cause) THEN "overtaken" ELSE "owed"]
  /\ UNCHANGED <<sent, queue, pc, next, inserted, faults>>

Replay ==
  /\ at = "replay"
  /\ queue' = Append(queue, [cause |-> outputs[next].cause, retryOf |-> next, cuts |-> 0])
  /\ at' = "ack"
  /\ UNCHANGED <<sent, known, pc, outputs, next, inserted, faults>>

\* Quarantine refers to the verdict's row; without one the INSERT raises, and
\* Sentinel starts over with the same message.
Hold ==
  /\ at = "hold"
  /\ at' = IF inserted THEN "ack" ELSE "idle"
  /\ UNCHANGED <<sent, queue, known, pc, outputs, next, inserted, faults>>

SentinelAck ==
  /\ at = "ack"
  /\ next' = next + 1
  /\ at' = "idle"
  /\ UNCHANGED <<sent, queue, known, pc, outputs, inserted, faults>>

\* After the transaction and before the publish, the retry is spent and never
\* happens.
SentinelDies ==
  /\ at # "idle"
  /\ faults < MaxFaults
  /\ faults' = faults + 1
  /\ at' = "idle"
  /\ outputs' = IF at = "replay" THEN Fated({next}, "cut short") ELSE outputs
  /\ UNCHANGED <<sent, queue, known, pc, next, inserted>>

-----------------------------------------------------------------------------
Producer == Take \/ Handle \/ Publish \/ Remember \/ Ack
Sentinel == Verify \/ Retry \/ Replay \/ Hold \/ SentinelAck

Next ==
  \/ \E c \in Causes : Upstream(c)
  \/ Producer \/ \E n \in 1 .. Len(queue) : LoopError(n)
  \/ Sentinel \/ SentinelDies

Spec == Init /\ [][Next]_vars

\* Both loop while they live, and no step of theirs blocks for ever.
FairSpec == Spec /\ WF_vars(Producer) /\ WF_vars(Sentinel)

-----------------------------------------------------------------------------
(* Properties. *)

\* docs/sentinel.md:100: Sentinel "clears the producing agent's handler_results
\* idempotency row ... and republishes that cause": the producer then handles the
\* cause again, unless the deletion came between its handle() and its record
\* (base.py:256-258), which buries the retry as a duplicate; or Sentinel died
\* between its transaction and its publish; or the replay became poison.
RetryHeeded == []<>(\A i \in DOMAIN outputs : outputs[i].fate # "owed")

\* The replay for output i is in the queue, or about to be, and not passed over.
Coming(i) ==
  \/ at = "replay" /\ next = i
  \/ \E k \in DOMAIN queue : /\ queue[k].retryOf = i /\ queue[k].cause = outputs[i].cause
                             /\ k = 1 => pc \in {"idle", "handle"}

\* While a retry is owed, its cause is on no record that would suppress it, and
\* its replay is still to come: nothing but the three accidents can bury it.
OwedIsOpen ==
  \A i \in DOMAIN outputs : outputs[i].fate = "owed" =>
    /\ outputs[i].cause \notin known
    /\ ~Unrecorded(outputs[i].cause)
    /\ Coming(i)
=============================================================================
