------------------------------- MODULE Triage -------------------------------
(***************************************************************************)
(* Sentinel together with the two that act on what it writes: the human    *)
(* reviewers of the quarantine (api/main.py, api/queries.py) and a         *)
(* consumer behind the strict verdict gate (common/verdict_gate.py).       *)
(*                                                                         *)
(* A review request reads the row, marks it and, for a release, publishes  *)
(* the envelope again: three calls, each a step, of request threads that   *)
(* run side by side.                                                       *)
(*                                                                         *)
(* The consumer asks the gate, records the start of its run and only then  *)
(* calls handle(); Sentinel and the reviewers go on meanwhile.             *)
(***************************************************************************)
EXTENDS Sentinel

CONSTANTS
  Requests,    \* bound: review requests in flight at once
  InputTopic   \* the topic the gated consumer reads

\* A message without an id may have several quarantine rows; here a message
\* stands for its one row.
ASSUME TriageAssumption ==
  /\ IsFiniteSet(Requests)
  /\ InputTopic \in Topics
  /\ \A m \in Messages : IdOf[m] = "uuid"

VARIABLES
  reviewers,   \* the requests that may be made in this deployment
  step,        \* where a request is: "idle", "checked" or "publish"
  item,        \* the quarantined message it is about
  decision,    \* what its reviewer decided
  releases,    \* history: message -> times it was published again
  \* the gated consumer
  stage,       \* "waiting" for a delivery, "admitted" by the gate or "handling"
  inHand,      \* the message it was admitted with
  settled,     \* message -> how many of its deliveries it has acked
  remembered,  \* handler_results of this consumer; Sentinel asks it for no retry
  acted        \* history: the messages it gave to handle()

reviewVars == <<reviewers, step, item, decision, releases>>
consumerVars == <<stage, inHand, settled, remembered, acted>>
sysVars == <<vars, reviewVars, consumerVars>>

SysTypeOK ==
  /\ TypeOK
  /\ reviewers \subseteq Requests
  /\ step \in [Requests -> {"idle", "checked", "publish"}]
  /\ item \in [Requests -> Messages \cup {NoMessage}]
  /\ decision \in [Requests -> {"released", "discarded"}]
  /\ \A r \in Requests :
       step[r] # "idle" => r \in reviewers /\ item[r] \in Messages /\ Held(item[r])
  /\ releases \in [Messages -> Nat]
  /\ stage \in {"waiting", "admitted", "handling"}
  /\ IF stage = "waiting" THEN inHand = NoMessage ELSE inHand \in Messages
  /\ settled \in [Messages -> Nat]
  /\ remembered \subseteq Messages
  /\ acted \subseteq Messages

SysInit ==
  /\ Init
  /\ reviewers \in SUBSET Requests
  /\ step = [r \in Requests |-> "idle"]
  /\ item = [r \in Requests |-> NoMessage]
  /\ decision = [r \in Requests |-> "discarded"]
  /\ releases = [m \in Messages |-> 0]
  /\ stage = "waiting"
  /\ inHand = NoMessage
  /\ settled = [m \in Messages |-> 0]
  /\ remembered = {}
  /\ acted = {}

-----------------------------------------------------------------------------
(* One request: release_quarantine, or discard_quarantine.                 *)

Pending(m) == quarantine[m]["pending"] > 0

\* Mutant: the row is not looked at before it is marked.
Check_Unread(r, m, d) ==
  /\ r \in reviewers
  /\ step[r] = "idle"
  /\ step' = [step EXCEPT ![r] = "checked"]
  /\ item' = [item EXCEPT ![r] = m]
  /\ decision' = [decision EXCEPT ![r] = d]
  /\ UNCHANGED <<vars, reviewers, releases, consumerVars>>

\* A row that is not pending answers 409, and nothing changes.
Check(r, m, d) ==
  /\ r \in reviewers
  /\ step[r] = "idle"
  /\ Pending(m)
  /\ step' = [step EXCEPT ![r] = "checked"]
  /\ item' = [item EXCEPT ![r] = m]
  /\ decision' = [decision EXCEPT ![r] = d]
  /\ UNCHANGED <<vars, reviewers, releases, consumerVars>>

\* Mutant: the release is only recorded.
Mark_NoPublish(r) ==
  /\ step[r] = "checked"
  /\ quarantine' = [quarantine EXCEPT ![item[r]] = [s \in Statuses |-> IF s = decision[r] THEN 1 ELSE 0]]
  /\ step' = [step EXCEPT ![r] = "idle"]
  /\ item' = [item EXCEPT ![r] = NoMessage]
  /\ UNCHANGED <<busVars, rows, handled, retried, procVars, outVars, faults, reviewers, decision,
                 releases, consumerVars>>

\* UPDATE ... WHERE quarantine_id: the row's status is not looked at again.
Mark(r) ==
  /\ step[r] = "checked"
  /\ quarantine' = [quarantine EXCEPT ![item[r]] = [s \in Statuses |-> IF s = decision[r] THEN 1 ELSE 0]]
  /\ IF decision[r] = "released"
     THEN step' = [step EXCEPT ![r] = "publish"] /\ UNCHANGED item
     ELSE step' = [step EXCEPT ![r] = "idle"] /\ item' = [item EXCEPT ![r] = NoMessage]
  /\ UNCHANGED <<busVars, rows, handled, retried, procVars, outVars, faults, reviewers, decision,
                 releases, consumerVars>>

Republish(r) ==
  /\ step[r] = "publish"
  /\ Append1(item[r])
  /\ releases' = [releases EXCEPT ![item[r]] = @ + 1]
  /\ step' = [step EXCEPT ![r] = "idle"]
  /\ item' = [item EXCEPT ![r] = NoMessage]
  /\ UNCHANGED <<cursor, pending, dbVars, procVars, outVars, faults, reviewers, decision, consumerVars>>

\* The API dies, or a call of the request raises: nobody finishes the request.
ApiError(r) ==
  /\ step[r] # "idle"
  /\ faults < MaxFaults
  /\ faults' = faults + 1
  /\ step' = [step EXCEPT ![r] = "idle"]
  /\ item' = [item EXCEPT ![r] = NoMessage]
  /\ UNCHANGED <<busVars, dbVars, procVars, outVars, reviewers, decision, releases, consumerVars>>

Request(r) ==
  \/ \E m \in Messages, d \in {"released", "discarded"} : Check(r, m, d)
  \/ Mark(r)
  \/ Republish(r)
  \/ ApiError(r)

-----------------------------------------------------------------------------
(* The gated consumer.                                                     *)

GateOpens(m) == Worst(m) \in {"pass", "warn"}

Copies(m) == Cardinality({i \in 1..Len(stream[TopicOf[m]]) : stream[TopicOf[m]][i] = m})

\* The stream has a delivery of m that the consumer has not acked.
Deliverable(m) == TopicOf[m] = InputTopic /\ settled[m] < Copies(m)

\* await_verdict says "proceed" of a delivery that is no duplicate.
Admit(m) ==
  /\ stage = "waiting"
  /\ Deliverable(m)
  /\ m \notin remembered
  /\ GateOpens(m)
  /\ stage' = "admitted"
  /\ inHand' = m
  /\ UNCHANGED <<vars, reviewVars, settled, remembered, acted>>

\* A duplicate; a failing message, which the gate drops; or one without a
\* verdict, deferred so often that it is poison.
Refuse(m) ==
  /\ stage = "waiting"
  /\ Deliverable(m)
  /\ m \in remembered \/ ~GateOpens(m)
  /\ settled' = [settled EXCEPT ![m] = @ + 1]
  /\ UNCHANGED <<vars, reviewVars, stage, inHand, remembered, acted>>

\* _record_run_start has committed, and handle() is called.
Start ==
  /\ stage = "admitted"
  /\ stage' = "handling"
  /\ acted' = acted \cup {inHand}
  /\ UNCHANGED <<vars, reviewVars, inHand, settled, remembered>>

\* Mutant: the consumer goes on holding what it has acked.
Finish_Held ==
  /\ stage = "handling"
  /\ remembered' \in {remembered, remembered \cup {inHand}}
  /\ settled' = [settled EXCEPT ![inHand] = @ + 1]
  /\ stage' = "waiting"
  /\ UNCHANGED <<vars, reviewVars, inHand, acted>>

\* handle() is through, and remembered; or its attempts are used up.
Finish ==
  /\ stage = "handling"
  /\ remembered' \in {remembered, remembered \cup {inHand}}
  /\ settled' = [settled EXCEPT ![inHand] = @ + 1]
  /\ stage' = "waiting"
  /\ inHand' = NoMessage
  /\ UNCHANGED <<vars, reviewVars, acted>>

\* The consumer dies, or a call of the runtime raises: the delivery comes again,
\* or has come too often by then and is poison.
Lapse ==
  /\ stage # "waiting"
  /\ settled' \in {settled, [settled EXCEPT ![inHand] = @ + 1]}
  /\ stage' = "waiting"
  /\ inHand' = NoMessage
  /\ UNCHANGED <<vars, reviewVars, remembered, acted>>

Consume ==
  \/ \E m \in Messages : Admit(m) \/ Refuse(m)
  \/ Start
  \/ Finish
  \/ Lapse

SysNext ==
  \/ Next /\ UNCHANGED <<reviewVars, consumerVars>>
  \/ \E r \in Requests : Request(r)
  \/ Consume

SysSpec == SysInit /\ [][SysNext]_sysVars

-----------------------------------------------------------------------------
(* Properties.                                                             *)

Reviewed(m) == quarantine[m]["released"] + quarantine[m]["discarded"] > 0

\* A quarantined envelope comes back once for each reviewer at work on it at
\* most; after that it is closed for good (api/main.py:402-417, 440-450).
ReleasesBounded == \A m \in Messages : releases[m] <= Cardinality(reviewers)

\* A release that was decided and will never reach the bus.
Lost(m) ==
  /\ quarantine[m]["released"] > 0
  /\ releases[m] = 0
  /\ ~\E r \in reviewers : step[r] = "publish" /\ item[r] = m

\* A row is marked before its envelope is published, and closed for review from
\* then on: every fault loses one release at most, and nothing else loses any,
\* whatever requests run side by side (api/main.py:405-418).
ReleasedGoesOut == Cardinality({m \in Messages : Lost(m)}) <= faults

\* A release bypasses nothing: once an envelope lies in quarantine, the gate
\* lets it in to the consumer no more, whatever reviewers decide, whatever the
\* rules say the next time and however often it is delivered.  Only a delivery
\* that was past the gate by then goes on (verdict_gate.py:94-112,
\* agent.py:218, base.py:225-238).
HeldStaysOut ==
  [][\A m \in Messages : Held(m) /\ inHand # m => inHand' # m]_sysVars

\* A review, once recorded, is never revised.
Revised(m) == /\ \E s \in {"released", "discarded"} : quarantine[m][s] > 0 /\ quarantine'[m][s] = 0

\* With one reviewer at work a review is final (api/main.py:405-408, 442-446).
FinalForOne ==
  [][Cardinality(reviewers) <= 1 => \A m \in Messages : ~Revised(m)]_sysVars

\* docs/sentinel.md:48-50 says the gate closed the caveat that "an agent could
\* begin work on a message Sentinel was about to quarantine".
GateStopsHeld == \A m \in Messages : Held(m) => m \notin acted
=============================================================================
