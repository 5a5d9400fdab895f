------------------------------- MODULE Intake -------------------------------
(***************************************************************************)
(* A0, the gateway (agents/a0_intake): POST /v1/reports, with persistence  *)
(* on.  The endpoint is a plain function, so requests run side by side on  *)
(* worker threads.  A worker counts the device's recent attempts, examines *)
(* the submission, and then accepts it (report row, attempt, audit row,    *)
(* reports.ingested) or rejects it (attempt, audit row, reports.rejected). *)
(* Each transaction and each publish is one step; a worker may fail        *)
(* between any two, and the citizen then gets no answer.                   *)
(*                                                                         *)
(* L2's rule for reports.ingested (rules/a0.py) is here too: it reads the  *)
(* table that A0 writes.  Storing media, and the shape of a report, are    *)
(* left out.                                                               *)
(***************************************************************************)
EXTENDS Integers, Sequences, FiniteSets

CONSTANTS
  Workers,         \* threads of the API
  NumSubmissions,  \* bound: submissions over time, numbered as they arrive
  Devices,
  RateLimit,
  MaxFaults        \* bound: requests that die half-way

Submissions == 1..NumSubmissions
NoSubmission == 0

ASSUME IntakeAssumption ==
  /\ IsFiniteSet(Workers)
  /\ Workers # {}
  /\ NumSubmissions \in Nat
  /\ RateLimit \in Nat \ {0}
  /\ MaxFaults \in Nat

Flaws == {"invalid_media", "missing_location", "outside_city_boundary", "malformed_request"}
Reasons == Flaws \cup {"rate_limited"}
Labels == {"idle", "count", "examine", "persist", "record", "archive", "publish", "answer"}

VARIABLES
  arrived,   \* submissions that have arrived
  device,    \* submission -> its device
  recent,    \* device -> intake_attempts in the rate window, oldest first
  reports,   \* rows of table reports
  archived,  \* rows of table messages, by submission
  ingested,  \* messages on reports.ingested, by submission
  rejected,  \* messages on reports.rejected: <<submission, reason>>
  l2,        \* submission -> L2's verdict on its reports.ingested
  pc, job,   \* worker -> where it is, and with which submission
  reason,    \* worker -> why it rejects its submission, or "none"
  answers,   \* submission -> what the citizen was told
  faults

workVars == <<pc, job, reason>>
vars == <<arrived, device, recent, reports, archived, ingested, rejected, l2, workVars, answers,
          faults>>

TypeOK ==
  /\ arrived \in 0..NumSubmissions
  /\ device \in [Submissions -> Devices]
  /\ recent \in [Devices -> Seq(Submissions \X {"accepted", "rejected", "rate_limited"})]
  /\ reports \subseteq Submissions
  /\ archived \subseteq Submissions
  /\ ingested \subseteq Submissions
  /\ rejected \subseteq Submissions \X Reasons
  /\ l2 \in [Submissions -> {"none", "pass", "fail_hard"}]
  /\ pc \in [Workers -> Labels]
  /\ job \in [Workers -> Submissions \cup {NoSubmission}]
  /\ \A w \in Workers : pc[w] = "idle" <=> job[w] = NoSubmission
  /\ reason \in [Workers -> Reasons \cup {"none"}]
  /\ answers \in [Submissions -> Reasons \cup {"none", "accepted"}]
  /\ faults \in Nat

Init ==
  /\ arrived = 0
  /\ device \in [Submissions -> Devices]
  /\ recent = [d \in Devices |-> <<>>]
  /\ reports = {}
  /\ archived = {}
  /\ ingested = {}
  /\ rejected = {}
  /\ l2 = [s \in Submissions |-> "none"]
  /\ pc = [w \in Workers |-> "idle"]
  /\ job = [w \in Workers |-> NoSubmission]
  /\ reason = [w \in Workers |-> "none"]
  /\ answers = [s \in Submissions |-> "none"]
  /\ faults = 0

-----------------------------------------------------------------------------
Goto(w, label) == pc' = [pc EXCEPT ![w] = label]

Receive(w) ==
  /\ pc[w] = "idle"
  /\ arrived < NumSubmissions
  /\ arrived' = arrived + 1
  /\ job' = [job EXCEPT ![w] = arrived + 1]
  /\ reason' = [reason EXCEPT ![w] = "none"]
  /\ Goto(w, "count")
  /\ UNCHANGED <<device, recent, reports, archived, ingested, rejected, l2, answers, faults>>

\* Every attempt counts, accepted or not.
Attempts(d) == Len(recent[d])

\* Mutant: the limit is off by one.
Count_OffByOne(w) ==
  /\ pc[w] = "count"
  /\ IF Attempts(device[job[w]]) > RateLimit
     THEN reason' = [reason EXCEPT ![w] = "rate_limited"] /\ Goto(w, "record")
     ELSE UNCHANGED reason /\ Goto(w, "examine")
  /\ UNCHANGED <<arrived, device, recent, reports, archived, ingested, rejected, l2, job, answers,
                 faults>>

\* _rate_limited: a read, long before the attempt itself is recorded.
Count(w) ==
  /\ pc[w] = "count"
  /\ IF Attempts(device[job[w]]) >= RateLimit
     THEN reason' = [reason EXCEPT ![w] = "rate_limited"] /\ Goto(w, "record")
     ELSE UNCHANGED reason /\ Goto(w, "examine")
  /\ UNCHANGED <<arrived, device, recent, reports, archived, ingested, rejected, l2, job, answers,
                 faults>>

\* Mutant: the report is minted before the submission is examined.
Examine_MintFirst(w) ==
  /\ pc[w] = "examine"
  /\ \/ UNCHANGED reason
     \/ \E f \in Flaws : reason' = [reason EXCEPT ![w] = f]
  /\ Goto(w, "persist")
  /\ UNCHANGED <<arrived, device, recent, reports, archived, ingested, rejected, l2, job, answers,
                 faults>>

\* _accept up to the minting of the report: the first flaw decides.
Examine(w) ==
  /\ pc[w] = "examine"
  /\ \/ UNCHANGED reason /\ Goto(w, "persist")
     \/ \E f \in Flaws : reason' = [reason EXCEPT ![w] = f] /\ Goto(w, "record")
  /\ UNCHANGED <<arrived, device, recent, reports, archived, ingested, rejected, l2, job, answers,
                 faults>>

PersistReport(w) ==
  /\ pc[w] = "persist"
  /\ reports' = reports \cup {job[w]}
  /\ Goto(w, "record")
  /\ UNCHANGED <<arrived, device, recent, archived, ingested, rejected, l2, job, reason, answers,
                 faults>>

Outcome(w) == CASE reason[w] = "none" -> "accepted"
                [] reason[w] = "rate_limited" -> "rate_limited"
                [] OTHER -> "rejected"

RecordAttempt(w) ==
  /\ pc[w] = "record"
  /\ recent' = [recent EXCEPT ![device[job[w]]] = Append(@, <<job[w], Outcome(w)>>)]
  /\ Goto(w, "archive")
  /\ UNCHANGED <<arrived, device, reports, archived, ingested, rejected, l2, job, reason, answers,
                 faults>>

\* Mutant: published without an audit row.
Archive_Skipped(w) ==
  /\ pc[w] = "archive"
  /\ Goto(w, "publish")
  /\ UNCHANGED <<arrived, device, recent, reports, archived, ingested, rejected, l2, job, reason,
                 answers, faults>>

Archive(w) ==
  /\ pc[w] = "archive"
  /\ archived' = archived \cup {job[w]}
  /\ Goto(w, "publish")
  /\ UNCHANGED <<arrived, device, recent, reports, ingested, rejected, l2, job, reason, answers,
                 faults>>

Emit(w) ==
  /\ pc[w] = "publish"
  /\ IF reason[w] = "none"
     THEN ingested' = ingested \cup {job[w]} /\ UNCHANGED rejected
     ELSE rejected' = rejected \cup {<<job[w], reason[w]>>} /\ UNCHANGED ingested
  /\ Goto(w, "answer")
  /\ UNCHANGED <<arrived, device, recent, reports, archived, l2, job, reason, answers, faults>>

\* Mutant: the worker keeps its submission.
Release_KeepsJob(w) ==
  /\ reason' = [reason EXCEPT ![w] = "none"]
  /\ Goto(w, "idle")
  /\ UNCHANGED job

Release(w) ==
  /\ job' = [job EXCEPT ![w] = NoSubmission]
  /\ reason' = [reason EXCEPT ![w] = "none"]
  /\ Goto(w, "idle")

Answer(w) ==
  /\ pc[w] = "answer"
  /\ answers' = [answers EXCEPT ![job[w]] = IF reason[w] = "none" THEN "accepted" ELSE reason[w]]
  /\ Release(w)
  /\ UNCHANGED <<arrived, device, recent, reports, archived, ingested, rejected, l2, faults>>

\* Postgres, Redis or the object store fails, or the API dies: a 500.
Fail(w) ==
  /\ pc[w] # "idle"
  /\ faults < MaxFaults
  /\ faults' = faults + 1
  /\ Release(w)
  /\ UNCHANGED <<arrived, device, recent, reports, archived, ingested, rejected, l2, answers>>

\* An hour goes by: the oldest attempt leaves the window.
Expire(d) ==
  /\ recent[d] # <<>>
  /\ recent' = [recent EXCEPT ![d] = Tail(@)]
  /\ UNCHANGED <<arrived, device, reports, archived, ingested, rejected, l2, workVars, answers,
                 faults>>

\* Sentinel's L2 on a reports.ingested without other flaws: the report's id
\* must not be in table reports.
Judge(s) ==
  /\ s \in ingested
  /\ l2[s] = "none"
  /\ l2' = [l2 EXCEPT ![s] = IF s \in reports THEN "fail_hard" ELSE "pass"]
  /\ UNCHANGED <<arrived, device, recent, reports, archived, ingested, rejected, workVars, answers,
                 faults>>

-----------------------------------------------------------------------------
Handle(w) ==
  \/ Receive(w)
  \/ Count(w)
  \/ Examine(w)
  \/ PersistReport(w)
  \/ RecordAttempt(w)
  \/ Archive(w)
  \/ Emit(w)
  \/ Answer(w)

Next ==
  \/ \E w \in Workers : Handle(w) \/ Fail(w)
  \/ \E d \in Devices : Expire(d)
  \/ \E s \in Submissions : Judge(s)

Spec == Init /\ [][Next]_vars

-----------------------------------------------------------------------------
(* Properties.                                                             *)

Accepted(d) == {s \in Submissions : \E i \in 1..Len(recent[d]) : recent[d][i] = <<s, "accepted">>}

\* The workers that found room under the limit and have not recorded it yet.
Admitted(d) ==
  {w \in Workers : /\ pc[w] \in {"examine", "persist", "record"}
                   /\ device[job[w]] = d
                   /\ reason[w] # "rate_limited"}

\* The count is read before the attempt is written, so requests side by side
\* may all find room: the limit gives way by one for each further worker, and
\* by no more (a0_intake:106-111, 327-352).
RateHolds ==
  \A d \in Devices : Cardinality(Accepted(d)) <= RateLimit + Cardinality(Workers) - 1

\* api/main.py:263-264, "so the citizen and the audit trail agree": what the
\* citizen was told is what was published, in the audit trail, and there is a
\* report row exactly for what was accepted.
TrailAgrees ==
  /\ \A s \in Submissions :
       /\ answers[s] = "accepted" => s \in ingested /\ s \in reports
       /\ answers[s] \in Reasons => <<s, answers[s]>> \in rejected /\ s \notin reports
       /\ s \in ingested => s \in archived /\ s \in reports /\ ~\E f \in Reasons : <<s, f>> \in rejected
  /\ \A x \in rejected : x[1] \in archived

\* The workers between a report's row and its event.
Emitting == {w \in Workers : pc[w] \in {"record", "archive", "publish"} /\ reason[w] = "none"}

\* A report row that nobody downstream has heard of is being published, or was
\* left behind by a request that died: nothing else leaves one, and nothing
\* picks it up (a0_intake:180-182).
OrphansExplained ==
  Cardinality(reports \ ingested) <=
    Cardinality(Emitting) + faults

\* PRD.md:248, rules/a0.py:3-10: an accepted report's id is unused, "whether the
\* id has been seen before"; every submission has a fresh one, so L2 clears it.
GenuinePasses == \A s \in ingested : l2[s] # "fail_hard"

-----------------------------------------------------------------------------
(* The inductive invariant behind the safety properties above.             *)

\* With the workers that may still add to it, the limit is exceeded by the
\* other workers at most.
RoomKept ==
  \A d \in Devices :
    Cardinality(Accepted(d)) + Cardinality(Admitted(d)) <= RateLimit + Cardinality(Workers) - 1

\* A submission has one worker, and none before it arrives.
OneWorkerEach ==
  /\ \A v, w \in Workers : job[v] = job[w] /\ job[v] # NoSubmission => v = w
  /\ \A w \in Workers : job[w] <= arrived

Unrejected(s) == \A f \in Reasons : <<s, f>> \notin rejected

\* What is still to come has left no trace.
NothingEarly ==
  \A s \in Submissions : s > arrived =>
    s \notin reports /\ s \notin ingested /\ Unrejected(s) /\ answers[s] = "none"

\* What the worker of s has done for it by now.
Progress(w, s) ==
  /\ answers[s] = "none"
  /\ pc[w] \in {"count", "examine", "persist"} => reason[w] = "none"
  /\ pc[w] # "answer" => s \notin ingested /\ Unrejected(s)
  /\ pc[w] \in {"count", "examine"} \/ reason[w] # "none" => s \notin reports
  /\ pc[w] \in {"record", "archive", "publish", "answer"} /\ reason[w] = "none" => s \in reports
  /\ pc[w] \in {"publish", "answer"} => s \in archived
  /\ pc[w] = "answer" /\ reason[w] = "none" => s \in ingested /\ Unrejected(s)
  /\ pc[w] = "answer" /\ reason[w] # "none" => s \notin ingested /\ <<s, reason[w]>> \in rejected

InOrder == \A w \in Workers : pc[w] # "idle" => Progress(w, job[w])

IInv ==
  /\ TypeOK
  /\ RoomKept
  /\ OneWorkerEach /\ NothingEarly /\ InOrder /\ TrailAgrees
  /\ OrphansExplained
=============================================================================
