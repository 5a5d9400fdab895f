--------------------------- MODULE IncidentsProofs ---------------------------
(***************************************************************************)
(* Proofs about Incidents, for every set of reports, every likeness of     *)
(* their wordings, every number of A3's consumers and of faults.           *)
(***************************************************************************)
EXTENDS Incidents, ScoringProofs, SequenceTheorems, FiniteSetTheorems

-----------------------------------------------------------------------------
(* Sequences of whatever. *)

IsSeq(s) == \E S : s \in Seq(S)

\* A sequence has its indices for domain.
LEMMA SeqDomain ==
  ASSUME NEW s, IsSeq(s)
  PROVE  Len(s) \in Nat /\ DOMAIN s = 1 .. Len(s)
<1>1. PICK S : s \in Seq(S)
  BY DEF IsSeq
<1> QED
  BY <1>1, LenProperties

\* Appending keeps what there is.
LEMMA SeqAppend ==
  ASSUME NEW s, IsSeq(s), NEW e
  PROVE  /\ IsSeq(Append(s, e))
         /\ DOMAIN Append(s, e) = 1 .. Len(s) + 1
         /\ DOMAIN s \subseteq DOMAIN Append(s, e)
         /\ \A k \in DOMAIN s : Append(s, e)[k] = s[k]
         /\ Append(s, e)[Len(s) + 1] = e
<1>1. PICK S : s \in Seq(S)
  BY DEF IsSeq
<1> DEFINE T == S \cup {e}
<1>2. s \in Seq(T)
  BY <1>1, LenProperties
<1>3. e \in T
  OBVIOUS
<1> HIDE DEF T
<1>4. /\ Append(s, e) \in Seq(T) /\ Len(Append(s, e)) = Len(s) + 1
      /\ \A k \in 1 .. Len(s) : Append(s, e)[k] = s[k]
      /\ Append(s, e)[Len(s) + 1] = e
  BY <1>2, <1>3, AppendProperties
<1>5. Len(s) \in Nat /\ DOMAIN s = 1 .. Len(s)
  BY <1>2, LenProperties
<1>6. DOMAIN Append(s, e) = 1 .. Len(s) + 1
  BY <1>4, LenProperties
<1>7. IsSeq(Append(s, e))
  BY <1>4 DEF IsSeq
<1>8. 1 .. Len(s) \subseteq 1 .. Len(s) + 1
  BY <1>5
<1> QED
  BY <1>4, <1>5, <1>6, <1>7, <1>8

\* Replacing an element keeps the others.
LEMMA SeqReplace ==
  ASSUME NEW s, IsSeq(s), NEW i \in DOMAIN s, NEW e
  PROVE  /\ IsSeq([s EXCEPT ![i] = e])
         /\ DOMAIN [s EXCEPT ![i] = e] = DOMAIN s
         /\ \A k \in DOMAIN s : [s EXCEPT ![i] = e][k] = IF k = i THEN e ELSE s[k]
<1>1. PICK S : s \in Seq(S)
  BY DEF IsSeq
<1> DEFINE T == S \cup {e}
<1>2. s \in Seq(T) /\ e \in T
  BY <1>1, LenProperties
<1> HIDE DEF T
<1>3. i \in 1 .. Len(s)
  BY <1>2, LenProperties
<1>4. [s EXCEPT ![i] = e] \in Seq(T)
  BY <1>2, <1>3, ExceptSeq
<1> QED
  BY <1>4 DEF IsSeq

\* A set of numbers that is not empty has a least one, which FiniteSetsExt's
\* operator picks.
LEMMA MinInSet ==
  ASSUME NEW S \in SUBSET Nat, S # {}
  PROVE  Min(S) \in S
<1>1. \E x \in S : \A y \in S : <<y, x>> \notin OpToRel(<, Nat)
  BY NatLessThanWellFounded, WFMin
<1>2. PICK x \in S : \A y \in S : ~(y < x)
  BY <1>1 DEF OpToRel
<1>3. \A y \in S : x <= y
  BY <1>2
<1> QED
  BY <1>3 DEF Min

-----------------------------------------------------------------------------
(* Type correctness.  Besides TypeOK the invariant says what TLC's values    *)
(* have by themselves: the domains of the functions, and which fields a row  *)
(* of the incidents table has; and that a worker at rest holds nothing.      *)

IsRow(x) ==
  x = [ category |-> x.category, centroid |-> x.centroid, first |-> x.first,
        last |-> x.last, count |-> x.count, reporters |-> x.reporters,
        seed |-> x.seed, band |-> x.band, route |-> x.route ]

RowsOK == IsSeq(rows) /\ \A i \in Ids : IsRow(rows[i])

TopicsOK ==
  /\ IsSeq(updates) /\ IsSeq(priorities)
  /\ \A k \in DOMAIN updates : updates[k].incident \in Ids
  /\ \A k \in DOMAIN priorities : priorities[k].incident \in Ids

ReportsOK ==
  /\ Made \subseteq Reports /\ workers \subseteq Workers /\ allowed \in Nat
  /\ status \in [Reports -> {"ingested", "understood", "linked"}]
  /\ home \in [Reports -> Ids \cup {NoIncident}]
  /\ understood \subseteq Legible
  /\ \A p \in linked : /\ p.report \in understood
                       /\ p.decision \in Decisions
                       /\ p.incident \in Ids \cup {NoIncident}
  /\ perceived \subseteq Made /\ proposed \subseteq Made /\ done \subseteq understood
  /\ scored \subseteq Ids /\ routed \subseteq Ids
  /\ faults \in 0..allowed

Busy == {"attach", "aggregate", "update", "publish"}

WorkersOK ==
  /\ pc \in [Workers -> {"idle"} \cup Busy]
  /\ DOMAIN job = Workers /\ DOMAIN target = Workers /\ DOMAIN agg = Workers
  /\ \A w \in Workers :
       /\ target[w] \in Ids \cup {NoIncident}
       /\ agg[w] \subseteq Reports
       /\ pc[w] = "idle" => job[w] = NoJob /\ target[w] = NoIncident /\ agg[w] = {}
       /\ pc[w] # "idle" => w \in workers /\ job[w] \in linked
       /\ pc[w] \in {"aggregate", "update", "publish"} => target[w] \in Ids
  /\ \A v, w \in Workers : v # w /\ pc[v] # "idle" => job[v] # job[w]

TypeInv == RowsOK /\ TopicsOK /\ ReportsOK /\ WorkersOK

\* The invariant is stronger than the type correctness the runs check.
LEMMA TypeInvImplies == TypeInv => TypeOK
  BY DEF TypeInv, TypeOK, RowsOK, TopicsOK, ReportsOK, WorkersOK, Busy, Decisions, Legible

\* The configuration never changes.
LEMMA ConfigStays ==
  ASSUME [Next]_vars PROVE UNCHANGED config
<1> USE DEF config
<1>1. CASE UNCHANGED vars
  BY <1>1 DEF vars
<1>2. CASE A1Step
  BY <1>2 DEF A1Step, Perceive, SkipUnreadable
<1>3. CASE A2Step
  BY <1>3 DEF A2Step, Propose
<1>4. ASSUME NEW w \in workers, A3Step(w) \/ Crash(w) PROVE UNCHANGED config
  BY <1>4 DEF A3Step, Decide, Attach, Aggregate, Update, NothingToUpdate, PublishUpdate,
              Crash
<1>5. CASE A4Step
  BY <1>5 DEF A4Step, Prioritise, SkipVanished
<1>6. CASE A5Step
  BY <1>6 DEF A5Step, Route
<1> QED
  BY <1>1, <1>2, <1>3, <1>4, <1>5, <1>6 DEF Next

\* A new row, or a changed one, is a row.
LEMMA RowsHaveShape ==
  /\ \A r : IsRow(Placeholder(r))
  /\ \A x, rs : IsRow(x) => IsRow(Recomputed(x, rs))
  /\ \A x, b : IsRow(x) => IsRow([x EXCEPT !.band = b]) /\ IsRow([x EXCEPT !.route = b])
<1>1. ASSUME NEW r PROVE IsRow(Placeholder(r))
  BY DEF IsRow, Placeholder
<1>2. ASSUME NEW x, NEW rs, IsRow(x) PROVE IsRow(Recomputed(x, rs))
  <2> DEFINE c == ModeCategory(rs)
             p == Centroid(rs)
             a == Min({fact[r].day : r \in rs})
             b == Max({fact[r].day : r \in rs})
             n == Cardinality(rs)
             m == Cardinality({fact[r].device : r \in rs})
  <2>1. Recomputed(x, rs) = [x EXCEPT !.category = c, !.centroid = p, !.first = a,
                                      !.last = b, !.count = n, !.reporters = m]
    BY DEF Recomputed
  <2> HIDE DEF c, p, a, b, n, m
  <2> QED
    BY <1>2, <2>1 DEF IsRow
<1>3. ASSUME NEW x, NEW b, IsRow(x)
      PROVE  IsRow([x EXCEPT !.band = b]) /\ IsRow([x EXCEPT !.route = b])
  BY <1>3 DEF IsRow
<1> QED
  BY <1>1, <1>2, <1>3

\* The incidents table only grows.
LEMMA RowsGrow ==
  ASSUME RowsOK, ReportsOK, WorkersOK, [Next]_vars
  PROVE  RowsOK' /\ Ids \subseteq Ids'
<1>1. CASE UNCHANGED rows
  BY <1>1 DEF RowsOK, Ids
<1>2. ASSUME NEW w \in workers, Attach(w), rows' # rows
      PROVE  RowsOK' /\ Ids \subseteq Ids'
  <2>1. rows' = Append(rows, Placeholder(job[w].report))
    BY <1>2 DEF Attach
  <2> DEFINE e == Placeholder(job[w].report)
  <2>2. IsRow(e)
    BY RowsHaveShape
  <2> HIDE DEF e
  <2>3. rows' = Append(rows, e)
    BY <2>1 DEF e
  <2>4. IsSeq(rows) /\ \A i \in DOMAIN rows : IsRow(rows[i])
    BY DEF RowsOK, Ids
  <2>5. Len(rows) \in Nat /\ DOMAIN rows = 1 .. Len(rows)
    BY <2>4, SeqDomain
  <2>6. /\ IsSeq(rows') /\ DOMAIN rows' = 1 .. Len(rows) + 1
        /\ DOMAIN rows \subseteq DOMAIN rows'
        /\ \A k \in DOMAIN rows : rows'[k] = rows[k]
        /\ rows'[Len(rows) + 1] = e
    BY <2>3, <2>4, SeqAppend
  <2>7. \A k \in DOMAIN rows' : k \in DOMAIN rows \/ k = Len(rows) + 1
    BY <2>5, <2>6
  <2>8. \A k \in DOMAIN rows' : IsRow(rows'[k])
    BY <2>2, <2>4, <2>6, <2>7
  <2> QED
    BY <2>6, <2>8 DEF RowsOK, Ids
<1>3. ASSUME NEW i \in Ids, NEW x, IsRow(x), rows' = [rows EXCEPT ![i] = x]
      PROVE  RowsOK' /\ Ids \subseteq Ids'
  <2>1. IsSeq(rows) /\ i \in DOMAIN rows /\ \A k \in DOMAIN rows : IsRow(rows[k])
    BY DEF RowsOK, Ids
  <2>2. /\ IsSeq(rows') /\ DOMAIN rows' = DOMAIN rows
        /\ \A k \in DOMAIN rows : rows'[k] = IF k = i THEN x ELSE rows[k]
    BY <1>3, <2>1, SeqReplace
  <2>3. \A k \in DOMAIN rows' : IsRow(rows'[k])
    BY <1>3, <2>1, <2>2
  <2> QED
    BY <2>2, <2>3 DEF RowsOK, Ids
<1>4. ASSUME NEW w \in workers, Update(w) PROVE RowsOK' /\ Ids \subseteq Ids'
  <2> DEFINE x == Recomputed(rows[target[w]], agg[w])
  <2>1. pc[w] = "update" /\ rows' = [rows EXCEPT ![target[w]] = x]
    BY <1>4 DEF Update
  <2>2. w \in Workers
    BY DEF ReportsOK
  <2>3. target[w] \in Ids
    BY <2>1, <2>2 DEF WorkersOK
  <2>4. IsRow(x)
    BY <2>3, RowsHaveShape DEF RowsOK
  <2> HIDE DEF x
  <2> QED
    BY <1>3, <2>1, <2>3, <2>4
<1>5. ASSUME NEW i \in Ids, Prioritise(i) PROVE RowsOK' /\ Ids \subseteq Ids'
  <2> DEFINE b == BandOf[Signals(i, FirstFor(updates, i))]
  <2>1. rows' = [rows EXCEPT ![i].band = b]
    BY <1>5 DEF Prioritise
  <2> HIDE DEF b
  <2> DEFINE x == [rows[i] EXCEPT !.band = b]
  <2>2. IsRow(x)
    BY RowsHaveShape DEF RowsOK
  <2>3. rows' = [rows EXCEPT ![i] = x]
    BY <2>1
  <2> HIDE DEF x
  <2> QED
    BY <1>3, <2>2, <2>3
<1>6. ASSUME NEW i \in Ids, Route(i), rows' # rows PROVE RowsOK' /\ Ids \subseteq Ids'
  <2> DEFINE b == FirstFor(priorities, i).band
  <2>1. rows' = [rows EXCEPT ![i].route = b]
    BY <1>6 DEF Route
  <2> HIDE DEF b
  <2> DEFINE x == [rows[i] EXCEPT !.route = b]
  <2>2. IsRow(x)
    BY RowsHaveShape DEF RowsOK
  <2>3. rows' = [rows EXCEPT ![i] = x]
    BY <2>1
  <2> HIDE DEF x
  <2> QED
    BY <1>3, <2>2, <2>3
<1>7. CASE A1Step
  BY <1>1, <1>7 DEF A1Step, Perceive, SkipUnreadable
<1>8. CASE A2Step
  BY <1>1, <1>8 DEF A2Step, Propose
<1>9. ASSUME NEW w \in workers, A3Step(w) \/ Crash(w) PROVE RowsOK' /\ Ids \subseteq Ids'
  BY <1>1, <1>2, <1>4, <1>9
     DEF A3Step, Decide, Aggregate, NothingToUpdate, PublishUpdate, Crash
<1>10. CASE A4Step
  BY <1>1, <1>5, <1>10 DEF A4Step, SkipVanished
<1>11. CASE A5Step
  BY <1>1, <1>6, <1>11 DEF A5Step
<1> QED
  BY <1>1, <1>7, <1>8, <1>9, <1>10, <1>11 DEF Next, vars

-----------------------------------------------------------------------------
(* What A2 and A3 find in the incidents table. *)

\* A candidate is an incident of the report's category.
LEMMA CandidateMatches ==
  ASSUME NEW r, NEW c \in Candidates(r)
  PROVE  c.incident \in Ids /\ rows[c.incident].category = fact[r].category
<1>1. PICK i \in Ids : InReach(r, i) /\ c = Candidate(r, i)
  BY DEF Candidates
<1>2. c.incident = i
  BY <1>1 DEF Candidate
<1> QED
  BY <1>1, <1>2 DEF InReach

\* A proposal names its report, and no incident of another category.
LEMMA ProposalMatches ==
  ASSUME NEW r, NEW p \in Proposals(r)
  PROVE  /\ p.report = r
         /\ p.decision \in Decisions
         /\ p.incident # NoIncident =>
              p.incident \in Ids /\ rows[p.incident].category = fact[r].category
<1>1. CASE Candidates(r) = {}
  BY <1>1 DEF Proposals, NoJob, Decisions
<1>2. CASE Candidates(r) # {}
  <2>1. PICK c \in Candidates(r) : p = ProposalOf(r, c)
    BY <1>2 DEF Proposals, Best
  <2>2. DecisionFor(Score(c)) \in Decisions
    BY DEF DecisionFor, Decisions
  <2>3. /\ p.report = r /\ p.decision = DecisionFor(Score(c))
        /\ p.incident \in {NoIncident, c.incident}
    BY <2>1 DEF ProposalOf
  <2> QED
    BY <2>2, <2>3, CandidateMatches
<1> QED
  BY <1>1, <1>2

\* What A3 settles on is A2's incident, one it found itself, or a new one.
LEMMA TargetMatches ==
  ASSUME NEW p, NEW i \in Targets(p)
  PROVE  \/ i = NoIncident
         \/ i = p.incident
         \/ i \in Ids /\ rows[i].category = fact[p.report].category
<1>1. CASE i \in {NoIncident, p.incident}
  BY <1>1
<1>2. CASE i \notin {NoIncident, p.incident}
  <2>1. PICK c \in Best(Candidates(p.report)) :
          i = IF JoinsOnRecheck(c) THEN c.incident ELSE NoIncident
    BY <1>2 DEF Targets
  <2>2. c \in Candidates(p.report) /\ i = c.incident
    BY <1>2, <2>1 DEF Best
  <2> QED
    BY <2>2, CandidateMatches
<1> QED
  BY <1>1, <1>2

\* A busy worker's job is a proposal for a report that was made.
LEMMA JobIsProposal ==
  ASSUME ReportsOK, WorkersOK, NEW w \in Workers, pc[w] # "idle"
  PROVE  /\ job[w] \in linked /\ job[w].report \in Made /\ job[w].report \in Reports
         /\ job[w].report \in understood /\ w \in workers
  BY DEF ReportsOK, WorkersOK, Legible

\* No proposal is NoJob.
LEMMA NoJobIsNone ==
  ASSUME ReportsOK PROVE NoJob \notin linked
  BY IncidentsAssumption DEF ReportsOK, NoJob, Legible

-----------------------------------------------------------------------------
(* The workers of A3. *)

\* A worker that goes to rest leaves the others as they are.
LEMMA RestKeepsWorkers ==
  ASSUME RowsOK, ReportsOK, WorkersOK, NEW w \in Workers, Rest(w), pc[w] # "idle",
         UNCHANGED workers, Ids \subseteq Ids',
         linked \ {job[w]} \subseteq linked'
  PROVE  WorkersOK'
<1>1. /\ pc' = [pc EXCEPT ![w] = "idle"] /\ job' = [job EXCEPT ![w] = NoJob]
      /\ target' = [target EXCEPT ![w] = NoIncident] /\ agg' = [agg EXCEPT ![w] = {}]
  BY DEF Rest
<1>2. /\ pc' \in [Workers -> {"idle"} \cup Busy]
      /\ DOMAIN job' = Workers /\ DOMAIN target' = Workers /\ DOMAIN agg' = Workers
  BY <1>1 DEF WorkersOK
<1>3. \A v \in Workers : v # w => /\ pc'[v] = pc[v] /\ job'[v] = job[v]
                                  /\ target'[v] = target[v] /\ agg'[v] = agg[v]
  BY <1>1 DEF WorkersOK
<1>4. pc'[w] = "idle" /\ job'[w] = NoJob /\ target'[w] = NoIncident /\ agg'[w] = {}
  BY <1>1 DEF WorkersOK
<1>5. ASSUME NEW v \in Workers
      PROVE  /\ target'[v] \in Ids' \cup {NoIncident}
             /\ agg'[v] \subseteq Reports
             /\ pc'[v] = "idle" => job'[v] = NoJob /\ target'[v] = NoIncident /\ agg'[v] = {}
             /\ pc'[v] # "idle" => v \in workers' /\ job'[v] \in linked'
             /\ pc'[v] \in {"aggregate", "update", "publish"} => target'[v] \in Ids'
  <2>1. CASE v = w
    BY <1>4, <2>1
  <2>2. CASE v # w
    <3>1. pc[v] # "idle" => job[v] # job[w]
      BY <2>2 DEF WorkersOK
    <3> QED
      BY <1>3, <2>2, <3>1 DEF WorkersOK
  <2> QED
    BY <2>1, <2>2
<1>6. ASSUME NEW u \in Workers, NEW v \in Workers, u # v, pc'[u] # "idle"
      PROVE  job'[u] # job'[v]
  <2>1. u # w /\ pc[u] # "idle" /\ job'[u] = job[u]
    BY <1>3, <1>4, <1>6
  <2>2. CASE v = w
    BY <1>4, <2>1, <2>2, NoJobIsNone DEF WorkersOK
  <2>3. CASE v # w
    BY <1>3, <1>6, <2>1, <2>3 DEF WorkersOK
  <2> QED
    BY <2>2, <2>3
<1> QED
  BY <1>2, <1>5, <1>6 DEF WorkersOK

\* Every step keeps them in order.
LEMMA WorkersStep ==
  ASSUME TypeInv, [Next]_vars PROVE WorkersOK'
<1> USE DEF TypeInv
<1>1. UNCHANGED config /\ Ids \subseteq Ids' /\ workers \subseteq Workers
  BY ConfigStays, RowsGrow DEF ReportsOK
<1>2. ASSUME UNCHANGED a3Vars, linked \subseteq linked' PROVE WorkersOK'
  BY <1>1, <1>2 DEF WorkersOK, a3Vars, config
<1>3. ASSUME NEW w \in workers, NEW p \in linked, Decide(w, p) PROVE WorkersOK'
  <2>1. w \in Workers /\ pc[w] = "idle"
    BY <1>1, <1>3 DEF Decide
  <2>2. PICK i \in Targets(p) : target' = [target EXCEPT ![w] = i]
    BY <1>3 DEF Decide
  <2>3. /\ job' = [job EXCEPT ![w] = p] /\ pc' = [pc EXCEPT ![w] = "attach"]
        /\ agg' = agg /\ linked' = linked /\ workers' = workers /\ Ids' = Ids
    BY <1>3 DEF Decide, config, topics, Ids
  <2>4. i \in Ids \cup {NoIncident}
    BY <2>2, TargetMatches DEF ReportsOK
  <2>5. /\ pc' \in [Workers -> {"idle"} \cup Busy]
        /\ DOMAIN job' = Workers /\ DOMAIN target' = Workers /\ DOMAIN agg' = Workers
    BY <2>2, <2>3 DEF WorkersOK, Busy
  <2>6. \A v \in Workers : v # w => /\ pc'[v] = pc[v] /\ job'[v] = job[v]
                                    /\ target'[v] = target[v]
    BY <2>2, <2>3 DEF WorkersOK
  <2>7. pc'[w] = "attach" /\ job'[w] = p /\ target'[w] = i
    BY <2>1, <2>2, <2>3 DEF WorkersOK
  <2>8. ASSUME NEW v \in Workers
        PROVE  /\ target'[v] \in Ids' \cup {NoIncident}
               /\ agg'[v] \subseteq Reports
               /\ pc'[v] = "idle" => job'[v] = NoJob /\ target'[v] = NoIncident /\ agg'[v] = {}
               /\ pc'[v] # "idle" => v \in workers' /\ job'[v] \in linked'
               /\ pc'[v] \in {"aggregate", "update", "publish"} => target'[v] \in Ids'
    BY <2>3, <2>4, <2>6, <2>7 DEF WorkersOK
  <2>9. ASSUME NEW u \in Workers, NEW v \in Workers, u # v, pc'[u] # "idle"
        PROVE  job'[u] # job'[v]
    <3>1. \A x \in workers : job[x] # p
      BY <1>3 DEF Decide
    <3>2. \A x \in Workers : x # w => job[x] # p
      <4>1. \A x \in Workers : pc[x] = "idle" => job[x] = NoJob
        BY DEF WorkersOK
      <4>2. \A x \in Workers : pc[x] # "idle" => x \in workers
        BY DEF WorkersOK
      <4>3. p # NoJob
        BY NoJobIsNone
      <4> QED
        BY <3>1, <4>1, <4>2, <4>3
    <3>3. CASE u = w
      BY <2>6, <2>7, <2>9, <3>2, <3>3
    <3>4. CASE v = w
      BY <2>6, <2>7, <2>9, <3>2, <3>4
    <3>5. CASE u # w /\ v # w
      BY <2>6, <2>9, <3>5 DEF WorkersOK
    <3> QED
      BY <3>3, <3>4, <3>5
  <2> QED
    BY <2>5, <2>8, <2>9 DEF WorkersOK
<1>4. ASSUME NEW w \in workers, Attach(w) PROVE WorkersOK'
  <2> DEFINE i == IF target[w] = NoIncident THEN Len(rows) + 1 ELSE target[w]
  <2>1. /\ w \in Workers /\ pc[w] = "attach" /\ pc' = [pc EXCEPT ![w] = "aggregate"]
        /\ target' = [target EXCEPT ![w] = i]
        /\ job' = job /\ agg' = agg /\ linked' = linked /\ workers' = workers
    BY <1>1, <1>4 DEF Attach, config, topics
  <2>2. i \in Ids'
    <3>1. CASE target[w] = NoIncident
      <4>1. rows' = Append(rows, Placeholder(job[w].report))
        BY <1>4, <3>1 DEF Attach
      <4>2. IsSeq(rows) /\ Len(rows) \in Nat
        BY SeqDomain DEF RowsOK
      <4>3. DOMAIN rows' = 1 .. Len(rows) + 1
        BY <4>1, <4>2, SeqAppend
      <4> QED
        BY <3>1, <4>2, <4>3 DEF Ids
    <3>2. CASE target[w] # NoIncident
      BY <1>1, <2>1, <3>2 DEF WorkersOK
    <3> QED
      BY <3>1, <3>2
  <2> HIDE DEF i
  <2>3. /\ pc' \in [Workers -> {"idle"} \cup Busy]
        /\ DOMAIN job' = Workers /\ DOMAIN target' = Workers /\ DOMAIN agg' = Workers
    BY <2>1 DEF WorkersOK, Busy
  <2>4. /\ \A v \in Workers : v # w => pc'[v] = pc[v] /\ target'[v] = target[v]
        /\ pc'[w] = "aggregate" /\ target'[w] = i
    BY <2>1 DEF WorkersOK
  <2>5. ASSUME NEW v \in Workers
        PROVE  /\ target'[v] \in Ids' \cup {NoIncident}
               /\ agg'[v] \subseteq Reports
               /\ pc'[v] = "idle" => job'[v] = NoJob /\ target'[v] = NoIncident /\ agg'[v] = {}
               /\ pc'[v] # "idle" => v \in workers' /\ job'[v] \in linked'
               /\ pc'[v] \in {"aggregate", "update", "publish"} => target'[v] \in Ids'
    BY <1>1, <2>1, <2>2, <2>4 DEF WorkersOK
  <2>6. ASSUME NEW u \in Workers, NEW v \in Workers, u # v, pc'[u] # "idle"
        PROVE  job'[u] # job'[v]
    BY <2>1, <2>4, <2>6 DEF WorkersOK
  <2> QED
    BY <2>3, <2>5, <2>6 DEF WorkersOK
<1>5. ASSUME NEW w \in workers, Aggregate(w) \/ Update(w) PROVE WorkersOK'
  <2>1. PICK from \in {"aggregate", "update"}, to \in {"update", "publish"} :
          /\ w \in Workers /\ pc[w] = from /\ pc' = [pc EXCEPT ![w] = to]
          /\ agg' \in {agg, [agg EXCEPT ![w] = Members(target[w])]}
          /\ job' = job /\ target' = target /\ linked' = linked /\ workers' = workers
    BY <1>1, <1>5 DEF Aggregate, Update, config, topics
  <2>2. /\ pc' \in [Workers -> {"idle"} \cup Busy]
        /\ DOMAIN job' = Workers /\ DOMAIN target' = Workers /\ DOMAIN agg' = Workers
    BY <2>1 DEF WorkersOK, Busy
  <2>3. /\ \A v \in Workers : v # w => pc'[v] = pc[v] /\ agg'[v] = agg[v]
        /\ pc'[w] = to /\ agg'[w] \subseteq Reports
    BY <2>1 DEF WorkersOK, Members
  <2>4. ASSUME NEW v \in Workers
        PROVE  /\ target'[v] \in Ids' \cup {NoIncident}
               /\ agg'[v] \subseteq Reports
               /\ pc'[v] = "idle" => job'[v] = NoJob /\ target'[v] = NoIncident /\ agg'[v] = {}
               /\ pc'[v] # "idle" => v \in workers' /\ job'[v] \in linked'
               /\ pc'[v] \in {"aggregate", "update", "publish"} => target'[v] \in Ids'
    BY <1>1, <2>1, <2>3 DEF WorkersOK
  <2>5. ASSUME NEW u \in Workers, NEW v \in Workers, u # v, pc'[u] # "idle"
        PROVE  job'[u] # job'[v]
    BY <2>1, <2>3, <2>5 DEF WorkersOK
  <2> QED
    BY <2>2, <2>4, <2>5 DEF WorkersOK
<1>6. ASSUME NEW w \in workers, NothingToUpdate(w) \/ PublishUpdate(w) \/ Crash(w)
      PROVE  WorkersOK'
  <2>1. /\ Rest(w) /\ pc[w] # "idle" /\ w \in Workers
        /\ linked \ {job[w]} \subseteq linked'
    BY <1>1, <1>6 DEF NothingToUpdate, PublishUpdate, Crash, topics
  <2> QED
    BY <1>1, <2>1, RestKeepsWorkers DEF config
<1>7. CASE A1Step
  BY <1>2, <1>7 DEF A1Step, Perceive, SkipUnreadable, topics
<1>8. CASE A2Step
  BY <1>2, <1>8 DEF A2Step, Propose
<1>9. CASE A4Step
  BY <1>2, <1>9 DEF A4Step, Prioritise, SkipVanished, topics
<1>10. CASE A5Step
  BY <1>2, <1>10 DEF A5Step, Route, topics
<1>11. CASE UNCHANGED vars
  BY <1>2, <1>11 DEF vars, topics
<1>12. ASSUME NEW w \in workers, A3Step(w) \/ Crash(w) PROVE WorkersOK'
  BY <1>3, <1>4, <1>5, <1>6, <1>12 DEF A3Step
<1> QED
  BY <1>7, <1>8, <1>9, <1>10, <1>11, <1>12 DEF Next

-----------------------------------------------------------------------------
(* The reports and the keys. *)

\* What counts of a step for a fault.
LEMMA FaultsStep ==
  ASSUME ReportsOK, [Next]_vars
  PROVE  faults' \in 0..allowed /\ faults' \in {faults, faults + 1}
<1> USE DEF Fault
<1>1. faults \in Nat /\ allowed \in Nat /\ faults <= allowed
  BY DEF ReportsOK
<1>2. ASSUME Fault \/ faults' = faults
      PROVE  faults' \in 0..allowed /\ faults' \in {faults, faults + 1}
  BY <1>1, <1>2
<1>3. CASE UNCHANGED vars
  BY <1>2, <1>3 DEF vars
<1> HIDE DEF Fault
<1>4. CASE A1Step
  BY <1>2, <1>4 DEF A1Step, Perceive, SkipUnreadable
<1>5. CASE A2Step
  BY <1>2, <1>5 DEF A2Step, Propose
<1>6. ASSUME NEW w \in workers, A3Step(w) \/ Crash(w) PROVE Fault \/ faults' = faults
  BY <1>6 DEF A3Step, Decide, Attach, Aggregate, Update, NothingToUpdate, PublishUpdate,
              Crash
<1>7. CASE A4Step
  BY <1>2, <1>7 DEF A4Step, Prioritise, SkipVanished
<1>8. CASE A5Step
  BY <1>2, <1>8 DEF A5Step, Route
<1> QED
  BY <1>2, <1>3, <1>4, <1>5, <1>6, <1>7, <1>8 DEF Next

\* A step that touches no report, and adds to the keys what it may, is in order.
LEMMA ReportsStep ==
  ASSUME TypeInv, [Next]_vars PROVE ReportsOK'
<1> USE DEF TypeInv
<1>1. /\ UNCHANGED config /\ Ids \subseteq Ids' /\ WorkersOK' /\ faults' \in 0..allowed'
      /\ workers \subseteq Workers /\ Made' = Made /\ Legible' = Legible
      /\ Made \subseteq Reports /\ Legible \subseteq Made
  BY ConfigStays, RowsGrow, WorkersStep, FaultsStep DEF config, ReportsOK, Made, Legible
<1>2. ASSUME UNCHANGED <<status, understood>>,
             home' \in [Reports -> Ids' \cup {NoIncident}],
             linked' \subseteq linked, perceived' \subseteq Made, UNCHANGED proposed,
             done' \subseteq understood, scored' \subseteq Ids', routed' \subseteq Ids'
      PROVE  ReportsOK'
  <2>1. \A p \in linked : p.incident \in Ids' \cup {NoIncident}
    BY <1>1 DEF ReportsOK
  <2> QED
    BY <1>1, <1>2, <2>1 DEF ReportsOK, config
<1>3. home \in [Reports -> Ids' \cup {NoIncident}]
  BY <1>1 DEF ReportsOK
<1>4. ASSUME NEW r \in Reports, Perceive(r) PROVE ReportsOK'
  <2>1. /\ r \in Legible
        /\ status' = [status EXCEPT ![r] = "understood"]
        /\ understood' \in {understood, understood \cup {r}}
        /\ perceived' \in {perceived, perceived \cup {r}}
        /\ UNCHANGED <<home, linked, proposed, done, scored, routed>>
    BY <1>4 DEF Perceive
  <2>2. status' \in [Reports -> {"ingested", "understood", "linked"}]
    BY <2>1 DEF ReportsOK
  <2>3. /\ understood \subseteq understood' /\ understood' \subseteq Legible
        /\ perceived' \subseteq Made
    BY <1>1, <2>1 DEF ReportsOK
  <2>4. scored \subseteq Ids' /\ routed \subseteq Ids'
    BY <1>1 DEF ReportsOK
  <2>5. \A p \in linked : /\ p.report \in understood' /\ p.decision \in Decisions
                          /\ p.incident \in Ids' \cup {NoIncident}
    BY <1>1, <2>3 DEF ReportsOK
  <2>6. proposed \subseteq Made /\ done \subseteq understood'
    BY <2>3 DEF ReportsOK
  <2> QED
    BY <1>1, <1>3, <2>1, <2>2, <2>3, <2>4, <2>5, <2>6 DEF ReportsOK, config
<1>5. ASSUME NEW r \in Reports, SkipUnreadable(r) PROVE ReportsOK'
  BY <1>1, <1>2, <1>3, <1>5 DEF SkipUnreadable, reportVars, topics, ReportsOK
<1>6. ASSUME NEW r \in Reports, Propose(r) PROVE ReportsOK'
  <2>1. PICK p \in Proposals(r) : linked' = linked \cup {p}
    BY <1>6 DEF Propose
  <2>2. /\ r \in understood
        /\ proposed' \in {proposed, proposed \cup {r}}
        /\ UNCHANGED <<status, home, understood, perceived, done, scored, routed>>
    BY <1>6 DEF Propose, reportVars
  <2>3. /\ p.report \in understood /\ p.decision \in Decisions
        /\ p.incident \in Ids \cup {NoIncident}
    BY <2>2, ProposalMatches
  <2>4. \A q \in linked' : /\ q.report \in understood /\ q.decision \in Decisions
                           /\ q.incident \in Ids' \cup {NoIncident}
    BY <1>1, <2>1, <2>3 DEF ReportsOK
  <2>5. proposed' \subseteq Made
    BY <1>1, <2>2 DEF ReportsOK
  <2>6. scored \subseteq Ids' /\ routed \subseteq Ids'
    BY <1>1 DEF ReportsOK
  <2> QED
    BY <1>1, <1>3, <2>2, <2>4, <2>5, <2>6 DEF ReportsOK, config
<1>7. ASSUME NEW w \in workers, A3Step(w) \/ Crash(w) PROVE ReportsOK'
  <2>1. w \in Workers
    BY <1>1
  <2>2. ASSUME Attach(w) PROVE ReportsOK'
    <3> DEFINE r == job[w].report
               i == target'[w]
    <3>1. /\ pc[w] = "attach" /\ home' = [home EXCEPT ![r] = i]
          /\ status' = [status EXCEPT ![r] = "linked"]
          /\ UNCHANGED <<understood, linked, perceived, proposed, done, scored, routed>>
      BY <2>1, <2>2 DEF Attach, topics, keys, WorkersOK
    <3>2. r \in Reports
      BY <2>1, <3>1, JobIsProposal
    <3>3. i \in Ids' \cup {NoIncident}
      BY <1>1, <2>1 DEF WorkersOK
    <3> HIDE DEF r, i
    <3>4. status' \in [Reports -> {"ingested", "understood", "linked"}]
      BY <3>1, <3>2 DEF ReportsOK
    <3>5. home' \in [Reports -> Ids' \cup {NoIncident}]
      BY <1>3, <3>1, <3>2, <3>3
    <3>6. scored \subseteq Ids' /\ routed \subseteq Ids'
      BY <1>1 DEF ReportsOK
    <3>7. \A p \in linked : /\ p.report \in understood /\ p.decision \in Decisions
                            /\ p.incident \in Ids' \cup {NoIncident}
      BY <1>1 DEF ReportsOK
    <3> QED
      BY <1>1, <3>1, <3>4, <3>5, <3>6, <3>7 DEF ReportsOK, config
  <2>3. ASSUME PublishUpdate(w) PROVE ReportsOK'
    <3>1. pc[w] = "publish" /\ done' \in {done, done \cup {job[w].report}}
      BY <2>3 DEF PublishUpdate
    <3>2. done' \subseteq understood
      BY <2>1, <3>1, JobIsProposal DEF ReportsOK
    <3> QED
      BY <1>1, <1>2, <1>3, <2>3, <3>2 DEF PublishUpdate, reportVars, ReportsOK
  <2>4. ASSUME NEW p \in linked, Decide(w, p) PROVE ReportsOK'
    BY <1>1, <1>2, <1>3, <2>4 DEF Decide, reportVars, topics, keys, ReportsOK
  <2>5. ASSUME Aggregate(w) \/ Update(w) \/ Crash(w) PROVE ReportsOK'
    BY <1>1, <1>2, <1>3, <2>5 DEF Aggregate, Update, Crash, reportVars, topics, keys, ReportsOK
  <2>6. ASSUME NothingToUpdate(w) PROVE ReportsOK'
    BY <1>1, <1>2, <1>3, <2>6 DEF NothingToUpdate, reportVars, keys, ReportsOK
  <2> QED
    BY <1>7, <2>2, <2>3, <2>4, <2>5, <2>6 DEF A3Step
<1>8. ASSUME NEW i \in Ids, Prioritise(i) \/ SkipVanished(i) \/ Route(i) PROVE ReportsOK'
  <2>1. /\ scored' \in {scored, scored \cup {i}} /\ routed' \in {routed, routed \cup {i}}
        /\ UNCHANGED <<status, home, understood, linked, perceived, proposed, done>>
    BY <1>8 DEF Prioritise, SkipVanished, Route, reportVars, topics
  <2>2. scored' \subseteq Ids' /\ routed' \subseteq Ids'
    BY <1>1, <1>8, <2>1 DEF ReportsOK
  <2> QED
    BY <1>2, <1>3, <2>1, <2>2 DEF ReportsOK
<1>9. CASE UNCHANGED vars
  BY <1>1, <1>2, <1>3, <1>9 DEF vars, reportVars, topics, keys, ReportsOK
<1> QED
  BY <1>4, <1>5, <1>6, <1>7, <1>8, <1>9 DEF Next, A1Step, A2Step, A4Step, A5Step

-----------------------------------------------------------------------------
(* The topics. *)

\* The messages stay well formed.
LEMMA TopicsStep ==
  ASSUME TypeInv, [Next]_vars PROVE TopicsOK'
<1> USE DEF TypeInv
<1>1. Ids \subseteq Ids' /\ workers \subseteq Workers
  BY RowsGrow DEF ReportsOK
<1>2. CASE UNCHANGED <<updates, priorities>>
  BY <1>1, <1>2 DEF TopicsOK
<1>3. ASSUME NEW s, IsSeq(s), \A k \in DOMAIN s : s[k].incident \in Ids,
             NEW e, e.incident \in Ids
      PROVE  /\ IsSeq(Append(s, e))
             /\ \A k \in DOMAIN Append(s, e) : Append(s, e)[k].incident \in Ids'
  <2>1. Len(s) \in Nat /\ DOMAIN s = 1 .. Len(s)
    BY <1>3, SeqDomain
  <2>2. /\ IsSeq(Append(s, e)) /\ DOMAIN Append(s, e) = 1 .. Len(s) + 1
        /\ \A k \in DOMAIN s : Append(s, e)[k] = s[k]
        /\ Append(s, e)[Len(s) + 1] = e
    BY <1>3, SeqAppend
  <2>3. \A k \in DOMAIN Append(s, e) : k \in DOMAIN s \/ k = Len(s) + 1
    BY <2>1, <2>2
  <2> QED
    BY <1>1, <1>3, <2>2, <2>3
<1>4. ASSUME NEW w \in workers, PublishUpdate(w) PROVE TopicsOK'
  <2> DEFINE e == [ incident |-> target[w], members |-> agg[w],
                    reporters |-> Cardinality({fact[r].device : r \in agg[w]}) ]
  <2>1. target[w] \in Ids
    BY <1>1, <1>4 DEF PublishUpdate, WorkersOK
  <2>2. e.incident \in Ids
    BY <2>1
  <2>3. updates' = Append(updates, e) /\ priorities' = priorities
    BY <1>4 DEF PublishUpdate
  <2> HIDE DEF e
  <2> QED
    BY <1>1, <1>3, <2>2, <2>3 DEF TopicsOK
<1>5. ASSUME NEW i \in Ids, Prioritise(i) PROVE TopicsOK'
  <2> DEFINE b == BandOf[Signals(i, FirstFor(updates, i))]
             e == [ incident |-> i, band |-> b ]
  <2>1. priorities' = Append(priorities, e) /\ updates' = updates
    BY <1>5 DEF Prioritise
  <2> HIDE DEF b
  <2>2. e.incident \in Ids
    OBVIOUS
  <2> HIDE DEF e
  <2> QED
    BY <1>1, <1>3, <2>1, <2>2 DEF TopicsOK
<1>6. CASE A1Step \/ A2Step
  BY <1>2, <1>6 DEF A1Step, A2Step, Perceive, SkipUnreadable, Propose, topics
<1>7. ASSUME NEW w \in workers, A3Step(w) \/ Crash(w) PROVE TopicsOK'
  BY <1>2, <1>4, <1>7
     DEF A3Step, Decide, Attach, Aggregate, Update, NothingToUpdate, Crash, topics
<1>8. CASE A4Step \/ A5Step
  BY <1>2, <1>5, <1>8 DEF A4Step, A5Step, SkipVanished, Route, topics
<1>9. CASE UNCHANGED vars
  BY <1>2, <1>9 DEF vars, topics
<1> QED
  BY <1>6, <1>7, <1>8, <1>9 DEF Next

-----------------------------------------------------------------------------
\* The three facts of the induction.
LEMMA TypeInvInit == Init => TypeInv
<1> SUFFICES ASSUME Init PROVE TypeInv
  OBVIOUS
<1>1. PICK c \in Cases : fact = Facts(c) /\ workers = c.workers /\ allowed = c.faults
  BY DEF Init
<1>2. Made \subseteq Reports /\ workers \subseteq Workers /\ allowed \in Nat
  BY <1>1, IncidentsAssumption DEF Facts, Made
<1>3. \A s : s = << >> => IsSeq(s) /\ DOMAIN s = {}
  BY EmptySeq DEF IsSeq
<1>4. RowsOK /\ TopicsOK /\ Ids = {}
  BY <1>3 DEF Init, RowsOK, TopicsOK, Ids
<1>5. ReportsOK
  BY <1>2 DEF Init, ReportsOK
<1>6. WorkersOK
  BY DEF Init, WorkersOK
<1> QED
  BY <1>4, <1>5, <1>6 DEF TypeInv

\* A step keeps every part.
LEMMA TypeInvStep == TypeInv /\ [Next]_vars => TypeInv'
  BY RowsGrow, TopicsStep, ReportsStep, WorkersStep DEF TypeInv

\* So it holds at every moment.
LEMMA TypeInvAlways == Spec => []TypeInv
  BY TypeInvInit, TypeInvStep, PTL DEF Spec

\* The tables, topics and keys hold what they are for: proposals of reports that
\* were made, incidents that exist (a3_synthesis:120-260).
THEOREM TypeCorrect == Spec => []TypeOK
  BY TypeInvAlways, TypeInvImplies, PTL

-----------------------------------------------------------------------------
(* One category to an incident.  The invariant adds what is on its way there: *)
(* the incident a worker is about to attach its report to, and the members   *)
(* it read and is about to take the most frequent category of.                *)

CategoryInv ==
  /\ OneCategory
  /\ \A w \in Workers :
       /\ pc[w] = "attach" /\ target[w] # NoIncident =>
            rows[target[w]].category = fact[job[w].report].category
       /\ pc[w] \in {"update", "publish"} =>
            \A r \in agg[w] : fact[r].category = rows[target[w]].category

\* The most frequent category of reports that all have one category is that one.
LEMMA ModeOfUniform ==
  ASSUME NEW rs \in SUBSET Reports, rs # {}, NEW k, \A r \in rs : fact[r].category = k
  PROVE  ModeCategory(rs) = k
<1> DEFINE share(c) == Cardinality({r \in rs : fact[r].category = c})
           all == {fact[r].category : r \in rs}
           best(c) == \A d \in all : share(c) >= share(d)
<1>1. all = {k}
  OBVIOUS
<1>2. share(k) \in Nat
  <2>1. IsFiniteSet({r \in rs : fact[r].category = k})
    BY IncidentsAssumption, FS_Subset
  <2> QED
    BY <2>1, FS_CardinalityType
<1>3. ModeCategory(rs) = CHOOSE c \in all : best(c)
  BY DEF ModeCategory
<1> HIDE DEF share
<1>4. best(k)
  BY <1>1, <1>2
<1> HIDE DEF all, best
<1> QED
  BY <1>1, <1>3, <1>4

\* What `_recompute` writes, and what it leaves alone.
LEMMA RecomputedRow ==
  ASSUME NEW x, IsRow(x), NEW rs
  PROVE  LET y == Recomputed(x, rs)
         IN  /\ y.category = ModeCategory(rs)
             /\ y.count = Cardinality(rs)
             /\ y.reporters = Cardinality({fact[r].device : r \in rs})
             /\ y.band = x.band /\ y.route = x.route
<1> DEFINE c == ModeCategory(rs)
           p == Centroid(rs)
           a == Min({fact[r].day : r \in rs})
           b == Max({fact[r].day : r \in rs})
           n == Cardinality(rs)
           m == Cardinality({fact[r].device : r \in rs})
           y == Recomputed(x, rs)
<1>1. y = [x EXCEPT !.category = c, !.centroid = p, !.first = a,
                    !.last = b, !.count = n, !.reporters = m]
  BY DEF Recomputed
<1> HIDE DEF c, p, a, b, n, m, y
<1>2. y.category = c /\ y.count = n /\ y.reporters = m /\ y.band = x.band /\ y.route = x.route
  BY <1>1 DEF IsRow
<1> QED
  BY <1>2 DEF c, n, m, y

\* The rest of what `_recompute` writes.
LEMMA RecomputedPlace ==
  ASSUME NEW x, IsRow(x), NEW rs
  PROVE  /\ Recomputed(x, rs).seed = x.seed
         /\ Recomputed(x, rs).centroid = Centroid(rs)
         /\ Recomputed(x, rs).first = Min({fact[r].day : r \in rs})
         /\ Recomputed(x, rs).last = Max({fact[r].day : r \in rs})
<1> DEFINE c == ModeCategory(rs)
           p == Centroid(rs)
           a == Min({fact[r].day : r \in rs})
           b == Max({fact[r].day : r \in rs})
           n == Cardinality(rs)
           m == Cardinality({fact[r].device : r \in rs})
           y == Recomputed(x, rs)
<1>1. y = [x EXCEPT !.category = c, !.centroid = p, !.first = a,
                    !.last = b, !.count = n, !.reporters = m]
  BY DEF Recomputed
<1> HIDE DEF c, p, a, b, n, m, y
<1>2. y.seed = x.seed /\ y.centroid = p /\ y.first = a /\ y.last = b
  BY <1>1 DEF IsRow
<1> QED
  BY <1>2 DEF p, a, b, y

\* What A4 and A5 write of a row, and what they leave alone.
LEMMA MarkedRow ==
  ASSUME NEW x, IsRow(x), NEW b
  PROVE  LET y == [x EXCEPT !.band = b]
             z == [x EXCEPT !.route = b]
         IN  /\ y.category = x.category /\ y.count = x.count /\ y.reporters = x.reporters
             /\ y.band = b /\ y.route = x.route
             /\ z.category = x.category /\ z.count = x.count /\ z.reporters = x.reporters
             /\ z.band = x.band /\ z.route = b
             /\ y.seed = x.seed /\ y.centroid = x.centroid
             /\ y.first = x.first /\ y.last = x.last
             /\ z.seed = x.seed /\ z.centroid = x.centroid
             /\ z.first = x.first /\ z.last = x.last
  BY DEF IsRow

\* The category of a row never changes.
LEMMA CategoriesStay ==
  ASSUME TypeInv, CategoryInv, [Next]_vars
  PROVE  \A i \in Ids : rows'[i].category = rows[i].category
<1> USE DEF TypeInv
<1>1. workers \subseteq Workers /\ RowsOK /\ IsSeq(rows) /\ Ids = DOMAIN rows
  BY DEF ReportsOK, RowsOK, Ids
<1>2. CASE UNCHANGED rows
  BY <1>2
<1>3. ASSUME NEW r, rows' = Append(rows, Placeholder(r))
      PROVE  \A i \in Ids : rows'[i].category = rows[i].category
  <2> DEFINE e == Placeholder(r)
  <2> HIDE DEF e
  <2>1. rows' = Append(rows, e)
    BY <1>3 DEF e
  <2> QED
    BY <1>1, <2>1, SeqAppend
<1>4. ASSUME NEW i \in Ids, NEW x, rows' = [rows EXCEPT ![i] = x],
             x.category = rows[i].category
      PROVE  \A j \in Ids : rows'[j].category = rows[j].category
  BY <1>1, <1>4, SeqReplace
<1>5. ASSUME NEW w \in workers, Update(w)
      PROVE  \A j \in Ids : rows'[j].category = rows[j].category
  <2> DEFINE t == target[w]
             x == Recomputed(rows[t], agg[w])
  <2>1. /\ w \in Workers /\ pc[w] = "update" /\ agg[w] # {} /\ rows' = [rows EXCEPT ![t] = x]
        /\ agg[w] \subseteq Reports /\ t \in Ids
    BY <1>1, <1>5 DEF Update, WorkersOK
  <2>2. \A r \in agg[w] : fact[r].category = rows[t].category
    BY <2>1 DEF CategoryInv
  <2> HIDE DEF t
  <2>3. ModeCategory(agg[w]) = rows[t].category
    BY <2>1, <2>2, ModeOfUniform
  <2>4. IsRow(rows[t])
    BY <2>1 DEF RowsOK
  <2>5. x.category = ModeCategory(agg[w])
    BY <2>4, RecomputedRow
  <2> HIDE DEF x
  <2> QED
    BY <1>4, <2>1, <2>3, <2>5
<1>6. ASSUME NEW i \in Ids, NEW b,
             \/ rows' = [rows EXCEPT ![i].band = b]
             \/ rows' = [rows EXCEPT ![i].route = b]
      PROVE  \A j \in Ids : rows'[j].category = rows[j].category
  <2>1. IsRow(rows[i])
    BY DEF RowsOK
  <2>2. CASE rows' = [rows EXCEPT ![i].band = b]
    <3> DEFINE x == [rows[i] EXCEPT !.band = b]
    <3>1. x.category = rows[i].category
      BY <2>1 DEF IsRow
    <3>2. rows' = [rows EXCEPT ![i] = x]
      BY <2>2
    <3> HIDE DEF x
    <3> QED
      BY <1>4, <3>1, <3>2
  <2>3. CASE rows' = [rows EXCEPT ![i].route = b]
    <3> DEFINE x == [rows[i] EXCEPT !.route = b]
    <3>1. x.category = rows[i].category
      BY <2>1 DEF IsRow
    <3>2. rows' = [rows EXCEPT ![i] = x]
      BY <2>3
    <3> HIDE DEF x
    <3> QED
      BY <1>4, <3>1, <3>2
  <2> QED
    BY <1>6, <2>2, <2>3
<1>7. CASE A1Step \/ A2Step
  BY <1>2, <1>7 DEF A1Step, A2Step, Perceive, SkipUnreadable, Propose
<1>8. ASSUME NEW w \in workers, A3Step(w) \/ Crash(w)
      PROVE  \A i \in Ids : rows'[i].category = rows[i].category
  BY <1>2, <1>3, <1>5, <1>8
     DEF A3Step, Decide, Attach, Aggregate, NothingToUpdate, PublishUpdate, Crash
<1>9. CASE A4Step \/ A5Step
  BY <1>2, <1>6, <1>9 DEF A4Step, A5Step, Prioritise, SkipVanished, Route
<1>10. CASE UNCHANGED vars
  BY <1>2, <1>10 DEF vars
<1> QED
  BY <1>7, <1>8, <1>9, <1>10 DEF Next

\* A step keeps the categories together.
LEMMA CategoryStep ==
  ASSUME TypeInv, CategoryInv, [Next]_vars PROVE CategoryInv'
<1> USE DEF TypeInv
<1>1. /\ UNCHANGED fact /\ workers \subseteq Workers /\ Ids \subseteq Ids'
      /\ \A i \in Ids : rows'[i].category = rows[i].category
      /\ TypeInv'
  BY ConfigStays, CategoriesStay, RowsGrow, TypeInvStep DEF config, ReportsOK
<1> DEFINE HomesFit == \A r \in Reports :
                         home[r] # NoIncident => fact[r].category = rows[home[r]].category
           LinksFit == \A p \in linked : p.incident # NoIncident =>
                         fact[p.report].category = rows[p.incident].category
           Fits(w) == /\ pc[w] = "attach" /\ target[w] # NoIncident =>
                           rows[target[w]].category = fact[job[w].report].category
                      /\ pc[w] \in {"update", "publish"} =>
                           \A r \in agg[w] : fact[r].category = rows[target[w]].category
<1>2. HomesFit /\ LinksFit /\ \A w \in Workers : Fits(w)
  BY DEF CategoryInv, OneCategory
<1>3. /\ \A r \in Reports : home[r] \in Ids \cup {NoIncident}
      /\ \A p \in linked : p.incident \in Ids \cup {NoIncident}
      /\ \A w \in Workers : target[w] \in Ids \cup {NoIncident}
  BY DEF ReportsOK, WorkersOK
<1>4. ASSUME UNCHANGED home PROVE HomesFit'
  BY <1>1, <1>2, <1>3, <1>4
<1>5. ASSUME linked' \subseteq linked PROVE LinksFit'
  BY <1>1, <1>2, <1>3, <1>5
<1>6. ASSUME NEW v \in Workers,
             pc'[v] = pc[v] /\ job'[v] = job[v] /\ target'[v] = target[v] /\ agg'[v] = agg[v]
      PROVE  Fits(v)'
  <2>1. pc[v] \in {"update", "publish"} => target[v] \in Ids
    BY DEF WorkersOK
  <2> QED
    BY <1>1, <1>2, <1>3, <1>6, <2>1
<1>7. ASSUME HomesFit', LinksFit', \A w \in Workers : Fits(w)' PROVE CategoryInv'
  BY <1>7 DEF CategoryInv, OneCategory
<1>8. ASSUME UNCHANGED <<home, pc, job, target, agg>>, linked' \subseteq linked
      PROVE  CategoryInv'
  BY <1>4, <1>5, <1>6, <1>7, <1>8
<1>9. ASSUME NEW r \in Reports, Propose(r) PROVE CategoryInv'
  <2>1. PICK p \in Proposals(r) : linked' = linked \cup {p}
    BY <1>9 DEF Propose
  <2>2. UNCHANGED <<home, pc, job, target, agg, rows>>
    BY <1>9 DEF Propose, reportVars, a3Vars
  <2>3. p.incident # NoIncident => fact[p.report].category = rows[p.incident].category
    BY ProposalMatches
  <2>4. LinksFit'
    BY <1>1, <1>2, <2>1, <2>2, <2>3
  <2> QED
    BY <1>4, <1>6, <1>7, <2>2, <2>4
<1>10. ASSUME NEW w \in workers, A3Step(w) \/ Crash(w) PROVE CategoryInv'
  <2>1. w \in Workers
    BY <1>1
  <2>2. ASSUME \A v \in Workers : v # w => Fits(v)', Fits(w)' PROVE \A v \in Workers : Fits(v)'
    BY <2>2
  <2>3. ASSUME NEW p \in linked, Decide(w, p) PROVE CategoryInv'
    <3>1. PICK i \in Targets(p) : target' = [target EXCEPT ![w] = i]
      BY <2>3 DEF Decide
    <3>2. /\ job' = [job EXCEPT ![w] = p] /\ pc' = [pc EXCEPT ![w] = "attach"]
          /\ UNCHANGED <<home, linked, agg, rows>>
      BY <2>3 DEF Decide, reportVars, topics
    <3>3. /\ pc'[w] = "attach" /\ job'[w] = p /\ target'[w] = i
          /\ \A v \in Workers : v # w =>
               pc'[v] = pc[v] /\ job'[v] = job[v] /\ target'[v] = target[v] /\ agg'[v] = agg[v]
      BY <2>1, <3>1, <3>2 DEF WorkersOK
    <3>4. i # NoIncident => rows[i].category = fact[p.report].category
      BY <1>2, TargetMatches
    <3>5. Fits(w)'
      BY <1>1, <3>2, <3>3, <3>4
    <3> QED
      BY <1>4, <1>5, <1>6, <1>7, <2>2, <3>2, <3>3, <3>5
  <2>4. ASSUME Attach(w) PROVE CategoryInv'
    <3> DEFINE r == job[w].report
               i == IF target[w] = NoIncident THEN Len(rows) + 1 ELSE target[w]
    <3>1. /\ pc[w] = "attach" /\ pc' = [pc EXCEPT ![w] = "aggregate"]
          /\ target' = [target EXCEPT ![w] = i]
          /\ home' = [home EXCEPT ![r] = i]
          /\ UNCHANGED <<job, agg, linked>>
      BY <2>4 DEF Attach, topics
    <3>2. r \in Reports
      BY <2>1, <3>1, JobIsProposal
    <3>3. rows'[i].category = fact[r].category
      <4>1. CASE target[w] = NoIncident
        <5> DEFINE e == Placeholder(r)
        <5>1. e.category = fact[r].category
          BY DEF Placeholder
        <5>2. rows' = Append(rows, e)
          BY <2>4, <4>1 DEF Attach
        <5>3. IsSeq(rows)
          BY DEF RowsOK
        <5> HIDE DEF e
        <5>4. rows'[Len(rows) + 1] = e
          BY <5>2, <5>3, SeqAppend
        <5> QED
          BY <4>1, <5>1, <5>4
      <4>2. CASE target[w] # NoIncident
        BY <1>1, <1>2, <1>3, <2>1, <3>1, <4>2
      <4> QED
        BY <4>1, <4>2
    <3> HIDE DEF r, i
    <3>4. HomesFit'
      <4>1. \A s \in Reports : home'[s] = IF s = r THEN i ELSE home[s]
        BY <3>1, <3>2 DEF ReportsOK
      <4> QED
        BY <1>1, <1>2, <1>3, <3>3, <4>1
    <3>5. /\ pc'[w] = "aggregate"
          /\ \A v \in Workers : v # w =>
               pc'[v] = pc[v] /\ job'[v] = job[v] /\ target'[v] = target[v] /\ agg'[v] = agg[v]
      BY <2>1, <3>1 DEF WorkersOK
    <3>6. Fits(w)'
      BY <3>5
    <3> QED
      BY <1>5, <1>6, <1>7, <2>2, <3>1, <3>4, <3>5, <3>6
  <2>5. ASSUME Aggregate(w) PROVE CategoryInv'
    <3>1. /\ pc[w] = "aggregate" /\ pc' = [pc EXCEPT ![w] = "update"]
          /\ agg' = [agg EXCEPT ![w] = Members(target[w])]
          /\ UNCHANGED <<home, job, target, linked, rows>>
      BY <2>5 DEF Aggregate, reportVars, topics
    <3>2. /\ pc'[w] = "update" /\ agg'[w] = Members(target[w]) /\ target[w] \in Ids
          /\ \A v \in Workers : v # w =>
               pc'[v] = pc[v] /\ job'[v] = job[v] /\ target'[v] = target[v] /\ agg'[v] = agg[v]
      BY <2>1, <3>1 DEF WorkersOK
    <3>3. target[w] # NoIncident
      <4>1. IsSeq(rows)
        BY DEF RowsOK
      <4> QED
        BY <3>2, <4>1, SeqDomain DEF Ids, NoIncident
    <3>4. \A r \in Members(target[w]) : fact[r].category = rows[target[w]].category
      BY <1>2, <3>3 DEF Members
    <3>5. Fits(w)'
      BY <1>1, <3>1, <3>2, <3>4
    <3> QED
      BY <1>4, <1>5, <1>6, <1>7, <2>2, <3>1, <3>2, <3>5
  <2>6. ASSUME Update(w) PROVE CategoryInv'
    <3>1. /\ pc[w] = "update" /\ pc' = [pc EXCEPT ![w] = "publish"]
          /\ UNCHANGED <<home, job, target, linked, agg>>
      BY <2>6 DEF Update, reportVars, topics
    <3>2. /\ pc'[w] = "publish" /\ target[w] \in Ids
          /\ \A v \in Workers : v # w => pc'[v] = pc[v]
      BY <2>1, <3>1 DEF WorkersOK
    <3>3. Fits(w)'
      BY <1>1, <1>2, <2>1, <3>1, <3>2
    <3> QED
      BY <1>4, <1>5, <1>6, <1>7, <2>2, <3>1, <3>2, <3>3
  <2>7. ASSUME NothingToUpdate(w) \/ PublishUpdate(w) \/ Crash(w) PROVE CategoryInv'
    <3>1. Rest(w) /\ UNCHANGED home /\ linked' \subseteq linked
      BY <2>7 DEF NothingToUpdate, PublishUpdate, Crash, reportVars, topics
    <3>2. /\ pc'[w] = "idle"
          /\ \A v \in Workers : v # w =>
               pc'[v] = pc[v] /\ job'[v] = job[v] /\ target'[v] = target[v] /\ agg'[v] = agg[v]
      BY <2>1, <3>1 DEF Rest, WorkersOK
    <3>3. Fits(w)'
      BY <3>2
    <3> QED
      BY <1>4, <1>5, <1>6, <1>7, <2>2, <3>1, <3>2, <3>3
  <2> QED
    BY <1>10, <2>3, <2>4, <2>5, <2>6, <2>7 DEF A3Step
<1>11. CASE A1Step
  BY <1>8, <1>11 DEF A1Step, Perceive, SkipUnreadable, reportVars, topics, a3Vars
<1>12. CASE A2Step
  BY <1>9, <1>12 DEF A2Step
<1>13. CASE A4Step \/ A5Step
  BY <1>8, <1>13 DEF A4Step, A5Step, Prioritise, SkipVanished, Route, reportVars, topics, a3Vars
<1>14. CASE UNCHANGED vars
  BY <1>8, <1>14 DEF vars, reportVars, topics, a3Vars
<1> QED
  BY <1>10, <1>11, <1>12, <1>13, <1>14 DEF Next

\* The invariant holds at every moment.
LEMMA CategoryAlways == Spec => []CategoryInv
<1>1. Init => CategoryInv
  BY DEF Init, CategoryInv, OneCategory
<1>2. TypeInv /\ CategoryInv /\ [Next]_vars => CategoryInv'
  BY CategoryStep
<1> QED
  BY <1>1, <1>2, TypeInvAlways, PTL DEF Spec

\* No incident has members of two categories, and no proposal links across
\* categories, whoever crashes and however many consumers A3 has
\* (matching.py:183).
THEOREM CategoriesNeverMix == Spec => []OneCategory
<1>1. CategoryInv => OneCategory
  BY DEF CategoryInv
<1> QED
  BY <1>1, CategoryAlways, PTL

-----------------------------------------------------------------------------
(* A report A3 is done with stays.  The invariant: the one consumer is never  *)
(* at work on such a report; and without a fault A1 is through with whatever  *)
(* it published, so it resets no status that A3 has set.                      *)

Attached == {"aggregate", "update", "publish"}

DoneInv ==
  /\ Sole => \A w \in Workers : pc[w] # "idle" => job[w].report \notin done
  /\ Calm => /\ understood \subseteq perceived
             /\ \A r \in done : status[r] = "linked"
             /\ \A w \in Workers : pc[w] \in Attached => status[job[w].report] = "linked"

\* With one consumer no other one is busy.
LEMMA SoleIsAlone ==
  ASSUME TypeInv, Sole, NEW v \in Workers, NEW w \in Workers,
         pc[v] # "idle", pc[w] # "idle"
  PROVE  v = w /\ workers = {w}
  BY DEF TypeInv, WorkersOK, Sole

\* Faults are only ever added.
LEMMA CalmBefore ==
  ASSUME TypeInv, [Next]_vars, Calm' PROVE Calm /\ faults' = faults
  BY FaultsStep DEF TypeInv, ReportsOK, Calm

\* A fault leaves the calm.
LEMMA NoFaultWhenCalm ==
  ASSUME TypeInv, Calm' PROVE ~Fault
<1>1. faults \in Nat
  BY DEF TypeInv, ReportsOK
<1> QED
  BY <1>1 DEF Fault, Calm

\* With one consumer, a step keeps done reports where they are.
LEMMA DoneStayPut ==
  ASSUME TypeInv, DoneInv, [Next]_vars, Sole, NEW r \in done
  PROVE  home'[r] = home[r] /\ (Calm => status'[r] = "linked")
<1> USE DEF TypeInv
<1>1. r \in understood /\ r \in Reports /\ workers \subseteq Workers
  BY DEF ReportsOK, Legible
<1>2. CASE UNCHANGED <<status, home>>
  BY <1>2 DEF DoneInv
<1>3. ASSUME NEW s \in Reports, Perceive(s)
      PROVE  home'[r] = home[r] /\ (Calm => status'[r] = "linked")
  <2>1. s \notin perceived /\ home' = home /\ status' = [status EXCEPT ![s] = "understood"]
    BY <1>3 DEF Perceive
  <2>2. Calm => r # s
    BY <1>1, <2>1 DEF DoneInv
  <2> QED
    BY <1>1, <2>1, <2>2 DEF DoneInv, ReportsOK
<1>4. ASSUME NEW w \in workers, Attach(w)
      PROVE  home'[r] = home[r] /\ (Calm => status'[r] = "linked")
  <2> DEFINE i == IF target[w] = NoIncident THEN Len(rows) + 1 ELSE target[w]
  <2>1. /\ pc[w] = "attach" /\ home' = [home EXCEPT ![job[w].report] = i]
        /\ status' = [status EXCEPT ![job[w].report] = "linked"]
    BY <1>4 DEF Attach
  <2>2. job[w].report # r
    BY <1>1, <2>1 DEF DoneInv
  <2> HIDE DEF i
  <2> QED
    BY <1>1, <2>1, <2>2 DEF DoneInv, ReportsOK
<1>5. CASE A1Step \/ A2Step
  BY <1>2, <1>3, <1>5 DEF A1Step, A2Step, SkipUnreadable, Propose, reportVars
<1>6. ASSUME NEW w \in workers, A3Step(w) \/ Crash(w)
      PROVE  home'[r] = home[r] /\ (Calm => status'[r] = "linked")
  BY <1>2, <1>4, <1>6
     DEF A3Step, Decide, Aggregate, Update, NothingToUpdate, PublishUpdate, Crash, reportVars
<1>7. CASE A4Step \/ A5Step
  BY <1>2, <1>7 DEF A4Step, A5Step, Prioritise, SkipVanished, Route, reportVars
<1>8. CASE UNCHANGED vars
  BY <1>2, <1>8 DEF vars, reportVars
<1> QED
  BY <1>5, <1>6, <1>7, <1>8 DEF Next

\* A step keeps the invariant of the done reports.
LEMMA DoneStep ==
  ASSUME TypeInv, DoneInv, [Next]_vars PROVE DoneInv'
<1> USE DEF TypeInv
<1>1. /\ UNCHANGED workers /\ workers \subseteq Workers /\ (Sole' <=> Sole)
      /\ Calm' => Calm /\ UNCHANGED faults
  BY ConfigStays, CalmBefore DEF config, ReportsOK, Sole
<1> DEFINE Apart(w) == Sole /\ pc[w] # "idle" => job[w].report \notin done
           Linked(w) == Calm /\ pc[w] \in Attached => status[job[w].report] = "linked"
           Known == Calm => understood \subseteq perceived
           Marked == Calm => \A r \in done : status[r] = "linked"
<1>2. Known /\ Marked /\ \A w \in Workers : Apart(w) /\ Linked(w)
  BY DEF DoneInv
<1>3. ASSUME Known', Marked', \A w \in Workers : Apart(w)' /\ Linked(w)' PROVE DoneInv'
  BY <1>3 DEF DoneInv
<1>4. \A w \in Workers : Attached \subseteq Busy
                         /\ (pc[w] # "idle" =>
                                job[w].report \in Reports /\ job[w].report \in understood)
  BY JobIsProposal DEF Attached, Busy
<1>5. ASSUME UNCHANGED <<status, pc, job, done>>, Known' PROVE DoneInv'
  BY <1>1, <1>2, <1>3, <1>5
<1>6. ASSUME NEW r \in Reports, Perceive(r) PROVE DoneInv'
  <2>1. /\ r \notin perceived /\ status' = [status EXCEPT ![r] = "understood"]
        /\ UNCHANGED <<pc, job, done>>
    BY <1>6 DEF Perceive, a3Vars
  <2>2. Calm' => understood' = understood \cup {r} /\ perceived' = perceived \cup {r}
    BY <1>6, NoFaultWhenCalm DEF Perceive
  <2>3. Known'
    BY <1>1, <1>2, <2>2
  <2>4. Calm' => r \notin understood
    BY <1>1, <1>2, <2>1
  <2>5. done \subseteq understood /\ done \subseteq Reports
    BY DEF ReportsOK, Legible
  <2>6. \A s \in Reports : s # r => status'[s] = status[s]
    BY <2>1 DEF ReportsOK
  <2>7. Marked'
    BY <1>1, <1>2, <2>1, <2>4, <2>5, <2>6
  <2>8. ASSUME NEW w \in Workers PROVE Apart(w)' /\ Linked(w)'
    <3>1. Apart(w)'
      BY <1>1, <1>2, <2>1
    <3>2. ASSUME Calm', pc'[w] \in Attached PROVE status'[job'[w].report] = "linked"
      <4>1. pc[w] \in Attached /\ job'[w] = job[w] /\ Calm
        BY <1>1, <2>1, <3>2
      <4>2. pc[w] # "idle"
        BY <4>1 DEF Attached
      <4>3. job[w].report \in Reports /\ job[w].report # r
        BY <1>4, <2>4, <3>2, <4>2
      <4> QED
        BY <1>2, <2>6, <4>1, <4>3
    <3> QED
      BY <3>1, <3>2
  <2> QED
    BY <1>3, <2>3, <2>7, <2>8
<1>7. ASSUME NEW w \in workers, A3Step(w) \/ Crash(w) PROVE DoneInv'
  <2>1. w \in Workers
    BY <1>1
  <2>2. ASSUME NEW p \in linked, Decide(w, p) PROVE DoneInv'
    <3>1. /\ pc' = [pc EXCEPT ![w] = "attach"] /\ job' = [job EXCEPT ![w] = p]
          /\ p.report \notin done /\ UNCHANGED <<status, done, understood, perceived>>
      BY <2>2 DEF Decide, reportVars, topics, keys
    <3>2. /\ pc'[w] = "attach" /\ job'[w] = p
          /\ \A v \in Workers : v # w => pc'[v] = pc[v] /\ job'[v] = job[v]
      BY <2>1, <3>1 DEF WorkersOK
    <3>3. \A v \in Workers : Apart(v)' /\ Linked(v)'
      <4>1. Apart(w)' /\ Linked(w)'
        BY <3>1, <3>2 DEF Attached
      <4>2. ASSUME NEW v \in Workers, v # w PROVE Apart(v)' /\ Linked(v)'
        BY <1>1, <1>2, <3>1, <3>2, <4>2
      <4> QED
        BY <4>1, <4>2
    <3> QED
      BY <1>1, <1>2, <1>3, <3>1, <3>3
  <2>3. ASSUME Attach(w) PROVE DoneInv'
    <3>1. /\ pc[w] = "attach" /\ pc' = [pc EXCEPT ![w] = "aggregate"]
          /\ status' = [status EXCEPT ![job[w].report] = "linked"]
          /\ UNCHANGED <<job, done, understood, perceived>>
      BY <2>3 DEF Attach, topics, keys
    <3>2. /\ pc'[w] = "aggregate" /\ \A v \in Workers : v # w => pc'[v] = pc[v]
          /\ \A r \in Reports : status'[r] = "linked" \/ status'[r] = status[r]
      BY <2>1, <3>1 DEF WorkersOK, ReportsOK
    <3>3. status'[job[w].report] = "linked"
      BY <1>4, <2>1, <3>1 DEF ReportsOK
    <3>4. done \subseteq Reports
      BY DEF ReportsOK, Legible
    <3>5. ASSUME NEW v \in Workers PROVE Apart(v)' /\ Linked(v)'
      <4>1. CASE v = w
        BY <1>1, <1>2, <3>1, <3>3, <4>1
      <4>2. CASE v # w
        <5>1. pc'[v] \in Attached => job[v].report \in Reports
          BY <1>4, <3>2, <4>2 DEF Attached
        <5> QED
          BY <1>1, <1>2, <3>1, <3>2, <4>2, <5>1
      <4> QED
        BY <4>1, <4>2
    <3> QED
      BY <1>1, <1>2, <1>3, <3>1, <3>2, <3>4, <3>5
  <2>4. ASSUME Aggregate(w) \/ Update(w) PROVE DoneInv'
    <3>1. /\ pc[w] \in Attached /\ UNCHANGED <<status, job, done, understood, perceived>>
          /\ \E to \in {"update", "publish"} : pc' = [pc EXCEPT ![w] = to]
      BY <2>4 DEF Aggregate, Update, Attached, reportVars, topics, keys
    <3>2. pc'[w] # "idle" /\ pc[w] # "idle" /\ \A v \in Workers : v # w => pc'[v] = pc[v]
      BY <2>1, <3>1 DEF WorkersOK, Attached
    <3>3. ASSUME NEW v \in Workers PROVE Apart(v)' /\ Linked(v)'
      BY <1>1, <1>2, <3>1, <3>2
    <3> QED
      BY <1>1, <1>2, <1>3, <3>1, <3>3
  <2>5. ASSUME NothingToUpdate(w) \/ PublishUpdate(w) \/ Crash(w) PROVE DoneInv'
    <3>1. /\ Rest(w) /\ pc[w] # "idle" /\ UNCHANGED <<status, understood, perceived>>
          /\ \/ done' = done
             \/ pc[w] = "publish" /\ done' = done \cup {job[w].report}
      BY <2>5 DEF NothingToUpdate, PublishUpdate, Crash, reportVars, topics, keys
    <3>2. /\ pc'[w] = "idle"
          /\ \A v \in Workers : v # w => pc'[v] = pc[v] /\ job'[v] = job[v]
      BY <2>1, <3>1 DEF Rest, WorkersOK
    <3>3. Marked'
      BY <1>1, <1>2, <2>1, <3>1 DEF Attached
    <3>4. ASSUME NEW v \in Workers PROVE Apart(v)' /\ Linked(v)'
      <4>1. CASE v = w
        BY <3>2, <4>1 DEF Attached
      <4>2. CASE v # w
        <5>1. Linked(v)'
          BY <1>1, <1>2, <3>1, <3>2, <4>2
        <5>2. Sole => pc[v] = "idle"
          BY <2>1, <3>1, <4>2, SoleIsAlone
        <5> QED
          BY <1>1, <3>2, <4>2, <5>1, <5>2
      <4> QED
        BY <4>1, <4>2
    <3> QED
      BY <1>1, <1>2, <1>3, <3>1, <3>3, <3>4
  <2> QED
    BY <1>7, <2>2, <2>3, <2>4, <2>5 DEF A3Step
<1>8. ASSUME NEW r \in Reports, SkipUnreadable(r) \/ Propose(r) PROVE DoneInv'
  <2>1. /\ perceived \subseteq perceived' /\ UNCHANGED <<status, pc, job, done, understood>>
    BY <1>8 DEF SkipUnreadable, Propose, reportVars, topics, a3Vars
  <2> QED
    BY <1>1, <1>2, <1>5, <2>1
<1>9. CASE A4Step \/ A5Step \/ UNCHANGED vars
  <2>1. UNCHANGED <<status, pc, job, done, understood, perceived>>
    BY <1>9 DEF A4Step, A5Step, Prioritise, SkipVanished, Route, vars, reportVars, topics, keys,
                a3Vars
  <2> QED
    BY <1>1, <1>2, <1>5, <2>1
<1> QED
  BY <1>6, <1>7, <1>8, <1>9 DEF Next, A1Step, A2Step

\* The invariant holds at every moment.
LEMMA DoneAlways == Spec => []DoneInv
<1>1. Init => DoneInv
  BY DEF Init, DoneInv, Attached
<1>2. TypeInv /\ DoneInv /\ [Next]_vars => DoneInv'
  BY DoneStep
<1> QED
  BY <1>1, <1>2, TypeInvAlways, PTL DEF Spec

\* With one consumer, a report A3 is done with never moves to another incident,
\* whatever crashes; and without a fault it keeps its status (base.py:219).
THEOREM DoneReportsStay == Spec => DoneStays
<1>1. TypeInv /\ DoneInv /\ [Next]_vars
        => [Sole => \A r \in done : home'[r] = home[r] /\ (Calm => status'[r] = "linked")]_vars
  BY DoneStayPut
<1> QED
  BY <1>1, TypeInvAlways, DoneAlways, PTL DEF Spec, DoneStays

-----------------------------------------------------------------------------
(* The route of an incident follows its band.  The invariant, without a       *)
(* fault: what A4 published is what the row shows, and what was never scored  *)
(* was never routed.                                                          *)

BandInv ==
  /\ RoutedByItsBand
  /\ Calm => /\ \A k \in DOMAIN priorities :
                  /\ priorities[k].incident \in scored
                  /\ priorities[k].band = rows[priorities[k].incident].band
             /\ \A i \in Ids : i \notin scored => rows[i].route = "none"

\* The first message of a topic for an incident is about that incident.
LEMMA FirstIsHeard ==
  ASSUME NEW s, IsSeq(s), NEW i, Heard(s, i)
  PROVE  \E k \in DOMAIN s : s[k].incident = i /\ FirstFor(s, i) = s[k]
<1> DEFINE K == {k \in DOMAIN s : s[k].incident = i}
<1>1. K \in SUBSET Nat /\ K # {}
  BY SeqDomain DEF Heard
<1>2. FirstFor(s, i) = s[Min(K)]
  BY DEF FirstFor
<1> HIDE DEF K
<1>3. Min(K) \in K
  BY <1>1, MinInSet
<1> QED
  BY <1>2, <1>3 DEF K

\* Bands and routes are A4's and A5's to write.
LEMMA BandsStay ==
  ASSUME TypeInv, [Next]_vars, ~A4Step, ~A5Step
  PROVE  /\ \A i \in Ids : rows'[i].band = rows[i].band /\ rows'[i].route = rows[i].route
         /\ \A i \in Ids' \ Ids : rows'[i].route = "none"
         /\ UNCHANGED <<priorities, scored>>
<1> USE DEF TypeInv
<1> DEFINE Goal == /\ \A i \in Ids : rows'[i].band = rows[i].band /\ rows'[i].route = rows[i].route
                   /\ \A i \in Ids' \ Ids : rows'[i].route = "none"
                   /\ UNCHANGED <<priorities, scored>>
<1>1. workers \subseteq Workers /\ IsSeq(rows) /\ Ids = DOMAIN rows /\ Ids' = DOMAIN rows'
  BY DEF ReportsOK, RowsOK, Ids
<1>2. ASSUME UNCHANGED <<rows, priorities, scored>> PROVE Goal
  BY <1>1, <1>2
<1>3. ASSUME NEW w \in workers, A3Step(w) \/ Crash(w) PROVE Goal
  <2>1. UNCHANGED <<priorities, scored>>
    BY <1>3 DEF A3Step, Decide, Attach, Aggregate, Update, NothingToUpdate, PublishUpdate,
                Crash, topics, keys
  <2>2. ASSUME Attach(w), rows' # rows PROVE Goal
    <3> DEFINE e == Placeholder(job[w].report)
    <3>1. e.route = "none"
      BY DEF Placeholder
    <3>2. rows' = Append(rows, e)
      BY <2>2 DEF Attach
    <3> HIDE DEF e
    <3>3. /\ DOMAIN rows' = 1 .. Len(rows) + 1 /\ Len(rows) \in Nat
          /\ DOMAIN rows = 1 .. Len(rows)
          /\ \A k \in DOMAIN rows : rows'[k] = rows[k]
          /\ rows'[Len(rows) + 1] = e
      BY <1>1, <3>2, SeqAppend, SeqDomain
    <3>4. \A k \in DOMAIN rows' : k \in DOMAIN rows \/ k = Len(rows) + 1
      BY <3>3
    <3> QED
      BY <1>1, <2>1, <3>1, <3>3, <3>4
  <2>3. ASSUME Update(w) PROVE Goal
    <3> DEFINE t == target[w]
               x == Recomputed(rows[t], agg[w])
    <3>1. pc[w] = "update" /\ rows' = [rows EXCEPT ![t] = x]
      BY <2>3 DEF Update
    <3>2. t \in Ids
      BY <1>1, <3>1 DEF WorkersOK
    <3>3. x.band = rows[t].band /\ x.route = rows[t].route
      BY <3>2, RecomputedRow DEF RowsOK
    <3> HIDE DEF x, t
    <3>4. /\ DOMAIN rows' = DOMAIN rows
          /\ \A k \in DOMAIN rows : rows'[k] = IF k = t THEN x ELSE rows[k]
      BY <1>1, <3>1, <3>2, SeqReplace
    <3> QED
      BY <1>1, <2>1, <3>3, <3>4
  <2> QED
    BY <1>2, <1>3, <2>1, <2>2, <2>3
       DEF A3Step, Decide, Aggregate, NothingToUpdate, PublishUpdate, Crash
<1>4. CASE A1Step \/ A2Step
  BY <1>2, <1>4 DEF A1Step, A2Step, Perceive, SkipUnreadable, Propose, topics
<1>5. CASE UNCHANGED vars
  BY <1>2, <1>5 DEF vars, topics, keys
<1> QED
  BY <1>3, <1>4, <1>5 DEF Next

\* A step keeps message and row in agreement.
LEMMA BandStep ==
  ASSUME TypeInv, BandInv, [Next]_vars PROVE BandInv'
<1> USE DEF TypeInv
<1>1. SUFFICES ASSUME Calm' PROVE BandInv'
  BY DEF BandInv, RoutedByItsBand
<1> DEFINE Told == \A k \in DOMAIN priorities :
                     /\ priorities[k].incident \in scored
                     /\ priorities[k].band = rows[priorities[k].incident].band
           Unrouted == \A i \in Ids : i \notin scored => rows[i].route = "none"
           Agree == \A i \in Ids : rows[i].route \in {"none", rows[i].band}
<1>2. Calm /\ Told /\ Unrouted /\ Agree
  BY <1>1, CalmBefore DEF BandInv, RoutedByItsBand
<1>3. ASSUME Told', Unrouted', Agree' PROVE BandInv'
  BY <1>3 DEF BandInv, RoutedByItsBand
<1>4. /\ IsSeq(rows) /\ Ids = DOMAIN rows /\ IsSeq(priorities) /\ scored \subseteq Ids
      /\ Ids' = DOMAIN rows' /\ Ids \subseteq Ids'
      /\ \A k \in DOMAIN priorities : priorities[k].incident \in Ids
  BY RowsGrow DEF RowsOK, TopicsOK, ReportsOK, Ids
<1>5. ASSUME ~A4Step, ~A5Step PROVE BandInv'
  <2>1. /\ \A i \in Ids : rows'[i].band = rows[i].band /\ rows'[i].route = rows[i].route
        /\ \A i \in Ids' \ Ids : rows'[i].route = "none"
        /\ UNCHANGED <<priorities, scored>>
    BY <1>5, BandsStay
  <2> QED
    BY <1>2, <1>3, <1>4, <2>1
<1>6. ASSUME NEW i \in Ids, Prioritise(i) PROVE BandInv'
  <2> DEFINE b == BandOf[Signals(i, FirstFor(updates, i))]
  <2>1. /\ i \notin scored /\ rows' = [rows EXCEPT ![i].band = b]
        /\ priorities' = Append(priorities, [ incident |-> i, band |-> b ])
    BY <1>6 DEF Prioritise
  <2>2. scored' = scored \cup {i}
    BY <1>1, <1>6, NoFaultWhenCalm DEF Prioritise
  <2> HIDE DEF b
  <2> DEFINE x == [rows[i] EXCEPT !.band = b]
             e == [ incident |-> i, band |-> b ]
  <2>3. rows' = [rows EXCEPT ![i] = x]
    BY <2>1
  <2>4. x.band = b /\ x.route = rows[i].route /\ e.incident = i /\ e.band = b
    BY MarkedRow DEF RowsOK
  <2>5. priorities' = Append(priorities, e)
    BY <2>1
  <2> HIDE DEF x, e
  <2>6. DOMAIN rows' = DOMAIN rows /\ \A k \in DOMAIN rows : rows'[k] = IF k = i THEN x ELSE rows[k]
    BY <1>4, <2>3, SeqReplace
  <2>7. rows[i].route = "none"
    BY <1>2, <2>1
  <2>8. Agree' /\ Unrouted'
    BY <1>2, <1>4, <2>2, <2>4, <2>6, <2>7
  <2>9. /\ Len(priorities) \in Nat /\ DOMAIN priorities = 1 .. Len(priorities)
        /\ DOMAIN priorities' = 1 .. Len(priorities) + 1
        /\ \A k \in DOMAIN priorities : priorities'[k] = priorities[k]
        /\ priorities'[Len(priorities) + 1] = e
    BY <1>4, <2>5, SeqAppend, SeqDomain
  <2>10. \A k \in DOMAIN priorities' : k \in DOMAIN priorities \/ k = Len(priorities) + 1
    BY <2>9
  <2>11. \A k \in DOMAIN priorities : priorities[k].incident # i
    BY <1>2, <2>1
  <2>12. Told'
    BY <1>2, <1>4, <2>2, <2>4, <2>6, <2>9, <2>10, <2>11
  <2> QED
    BY <1>3, <2>8, <2>12
<1>7. ASSUME NEW i \in Ids, SkipVanished(i) PROVE BandInv'
  <2>1. UNCHANGED <<rows, priorities>> /\ scored' = scored \cup {i}
    BY <1>7 DEF SkipVanished, topics
  <2> QED
    BY <1>2, <1>3, <1>4, <2>1
<1>8. ASSUME NEW i \in Ids, Route(i) PROVE BandInv'
  <2> DEFINE m == FirstFor(priorities, i)
  <2>1. /\ Heard(priorities, i) /\ UNCHANGED <<priorities, scored>>
        /\ rows' = [rows EXCEPT ![i].route = m.band] \/ rows' = rows
    BY <1>8 DEF Route, topics
  <2>2. PICK k \in DOMAIN priorities : priorities[k].incident = i /\ m = priorities[k]
    BY <1>4, <2>1, FirstIsHeard
  <2>3. i \in scored /\ m.band = rows[i].band
    BY <1>2, <2>2
  <2>4. CASE rows' = rows
    BY <1>2, <1>3, <1>4, <2>1, <2>4
  <2>5. CASE rows' = [rows EXCEPT ![i].route = m.band]
    <3> DEFINE b == m.band
               x == [rows[i] EXCEPT !.route = b]
    <3>1. rows' = [rows EXCEPT ![i] = x]
      BY <2>5
    <3> HIDE DEF m, b
    <3>2. x.band = rows[i].band /\ x.route = b
      BY MarkedRow DEF RowsOK
    <3>3. b = rows[i].band
      BY <2>3 DEF b
    <3> HIDE DEF x
    <3>4. /\ DOMAIN rows' = DOMAIN rows
          /\ \A j \in DOMAIN rows : rows'[j] = IF j = i THEN x ELSE rows[j]
      BY <1>4, <3>1, SeqReplace
    <3> QED
      BY <1>2, <1>3, <1>4, <2>1, <2>3, <3>2, <3>3, <3>4
  <2> QED
    BY <2>1, <2>4, <2>5
<1> QED
  BY <1>5, <1>6, <1>7, <1>8 DEF A4Step, A5Step

\* Without a fault the route of an incident is the one for the band its row
\* shows: A5's message and the row cannot disagree (a5_routing:180).
THEOREM RouteFollowsBand == Spec => []RoutedByItsBand
<1>1. Init => BandInv
  <2> SUFFICES ASSUME Init PROVE BandInv
    OBVIOUS
  <2>1. rows = << >> /\ priorities = << >>
    BY DEF Init
  <2>2. DOMAIN rows = {} /\ DOMAIN priorities = {}
    BY <2>1
  <2> QED
    BY <2>2 DEF BandInv, RoutedByItsBand, Ids
<1>2. TypeInv /\ BandInv /\ [Next]_vars => BandInv'
  BY BandStep
<1>3. BandInv => RoutedByItsBand
  BY DEF BandInv
<1> QED
  BY <1>1, <1>2, <1>3, TypeInvAlways, PTL DEF Spec

-----------------------------------------------------------------------------
(* The counts of a row.  The invariant follows a report through the one       *)
(* consumer: until it is attached it has no home, from then on it is among    *)
(* the members that are read, and what is read is still true when it is       *)
(* written, for nobody else moves a report.                                   *)

Counted(i) ==
  /\ rows[i].count = Cardinality(Members(i))
  /\ rows[i].reporters = Cardinality({fact[r].device : r \in Members(i)})

CountInv ==
  Sole /\ Calm =>
    /\ \A r \in Reports : home[r] # NoIncident =>
         r \in done \/ \E w \in Workers : pc[w] \in Attached /\ job[w].report = r
    /\ \A w \in Workers :
         /\ pc[w] \in Attached => home[job[w].report] = target[w]
         /\ pc[w] \in {"update", "publish"} => agg[w] = Members(target[w])
         /\ pc[w] = "publish" => Counted(target[w])
    /\ \A i \in Ids : (\A w \in workers : target[w] # i) => Counted(i)

\* The counts depend on the members and the two columns.
LEMMA CountedStays ==
  ASSUME NEW j, UNCHANGED fact, Members(j)' = Members(j),
         rows'[j].count = rows[j].count, rows'[j].reporters = rows[j].reporters
  PROVE  Counted(j)' <=> Counted(j)
<1> DEFINE devices == {fact[r].device : r \in Members(j)}
<1>1. devices' = devices
  OBVIOUS
<1>2. Counted(j) <=> /\ rows[j].count = Cardinality(Members(j))
                     /\ rows[j].reporters = Cardinality(devices)
  BY DEF Counted
<1>3. Counted(j)' <=> /\ rows'[j].count = Cardinality(Members(j)')
                      /\ rows'[j].reporters = Cardinality(devices')
  BY DEF Counted
<1> HIDE DEF devices
<1> QED
  BY <1>1, <1>2, <1>3

\* What A4 and A5 write leaves the counts of every incident alone.
LEMMA CountsStay ==
  ASSUME TypeInv, A4Step \/ A5Step
  PROVE  /\ Ids' = Ids
         /\ \A i \in Ids : rows'[i].count = rows[i].count /\ rows'[i].reporters = rows[i].reporters
         /\ UNCHANGED <<home, a3Vars, done, config>>
<1> USE DEF TypeInv
<1> DEFINE Goal == /\ Ids' = Ids
                   /\ \A i \in Ids : /\ rows'[i].count = rows[i].count
                                     /\ rows'[i].reporters = rows[i].reporters
                   /\ UNCHANGED <<home, a3Vars, done, config>>
<1>1. IsSeq(rows) /\ Ids = DOMAIN rows /\ Ids' = DOMAIN rows'
  BY DEF RowsOK, Ids
<1>2. ASSUME NEW i \in Ids, NEW x, rows' = [rows EXCEPT ![i] = x],
             x.count = rows[i].count, x.reporters = rows[i].reporters,
             UNCHANGED <<home, a3Vars, done, config>>
      PROVE  Goal
  <2>1. DOMAIN rows' = DOMAIN rows /\ \A k \in DOMAIN rows : rows'[k] = IF k = i THEN x ELSE rows[k]
    BY <1>1, <1>2, SeqReplace
  <2> QED
    BY <1>1, <1>2, <2>1
<1>3. ASSUME NEW i \in Ids, Prioritise(i) PROVE Goal
  <2> DEFINE b == BandOf[Signals(i, FirstFor(updates, i))]
  <2>1. rows' = [rows EXCEPT ![i].band = b] /\ UNCHANGED <<home, a3Vars, done, config>>
    BY <1>3 DEF Prioritise, reportVars
  <2> HIDE DEF b
  <2> DEFINE x == [rows[i] EXCEPT !.band = b]
  <2>2. rows' = [rows EXCEPT ![i] = x]
    BY <2>1
  <2>3. x.count = rows[i].count /\ x.reporters = rows[i].reporters
    BY MarkedRow DEF RowsOK
  <2> HIDE DEF x
  <2> QED
    BY <1>2, <2>1, <2>2, <2>3
<1>4. ASSUME NEW i \in Ids, Route(i) PROVE Goal
  <2> DEFINE b == FirstFor(priorities, i).band
  <2>1. /\ rows' = [rows EXCEPT ![i].route = b] \/ rows' = rows
        /\ UNCHANGED <<home, a3Vars, done, config>>
    BY <1>4 DEF Route, reportVars
  <2> HIDE DEF b
  <2> DEFINE x == [rows[i] EXCEPT !.route = b]
  <2>2. rows' = [rows EXCEPT ![i] = x] \/ rows' = rows
    BY <2>1
  <2>3. x.count = rows[i].count /\ x.reporters = rows[i].reporters
    BY MarkedRow DEF RowsOK
  <2> HIDE DEF x
  <2> QED
    BY <1>1, <1>2, <2>1, <2>2, <2>3
<1>5. ASSUME NEW i \in Ids, SkipVanished(i) PROVE Goal
  BY <1>1, <1>5 DEF SkipVanished, reportVars
<1> QED
  BY <1>3, <1>4, <1>5 DEF A4Step, A5Step

\* A step keeps the counts right where A3 is not at work.
LEMMA CountStep ==
  ASSUME TypeInv, DoneInv, CountInv, [Next]_vars PROVE CountInv'
<1> USE DEF TypeInv
<1>1. SUFFICES ASSUME Sole', Calm' PROVE CountInv'
  BY DEF CountInv
<1>2. /\ Sole /\ Calm /\ UNCHANGED config /\ UNCHANGED fact /\ UNCHANGED workers
      /\ workers \subseteq Workers /\ ~Fault
      /\ IsSeq(rows) /\ Ids = DOMAIN rows /\ Ids' = DOMAIN rows' /\ NoIncident \notin Ids
  <2>1. NoIncident \notin Ids
    BY SeqDomain DEF RowsOK, Ids, NoIncident
  <2> QED
    BY <1>1, <2>1, ConfigStays, CalmBefore, NoFaultWhenCalm DEF config, Sole, ReportsOK, RowsOK, Ids
<1> DEFINE Traced == \A r \in Reports : home[r] # NoIncident =>
                       r \in done \/ \E w \in Workers : pc[w] \in Attached /\ job[w].report = r
           Read(w) == /\ pc[w] \in Attached => home[job[w].report] = target[w]
                      /\ pc[w] \in {"update", "publish"} => agg[w] = Members(target[w])
                      /\ pc[w] = "publish" => Counted(target[w])
           Exact == \A i \in Ids : (\A w \in workers : target[w] # i) => Counted(i)
<1>3. Traced /\ Exact /\ \A w \in Workers : Read(w)
  BY <1>2 DEF CountInv
<1>4. ASSUME Traced', Exact', \A w \in Workers : Read(w)' PROVE CountInv'
  BY <1>4 DEF CountInv
<1>5. ASSUME UNCHANGED <<home, a3Vars>>, Ids' = Ids, done \subseteq done',
             \A i \in Ids : rows'[i].count = rows[i].count /\ rows'[i].reporters = rows[i].reporters
      PROVE  CountInv'
  <2>1. \A i : Members(i)' = Members(i)
    BY <1>5 DEF Members
  <2>2. \A i \in Ids : Counted(i) => Counted(i)'
    BY <1>2, <1>5, <2>1 DEF Counted
  <2>3. Traced'
    BY <1>3, <1>5 DEF a3Vars
  <2>4. Exact'
    BY <1>2, <1>3, <1>5, <2>2 DEF a3Vars
  <2>5. ASSUME NEW w \in Workers PROVE Read(w)'
    <3>1. pc[w] = "publish" => target[w] \in Ids
      BY DEF WorkersOK
    <3> QED
      BY <1>3, <1>5, <2>1, <2>2, <3>1 DEF a3Vars
  <2> QED
    BY <1>4, <2>3, <2>4, <2>5
<1>6. ASSUME NEW w \in workers, A3Step(w) \/ Crash(w) PROVE CountInv'
  <2>1. w \in Workers /\ workers = {w} /\ \A v \in Workers : v # w => pc[v] = "idle"
    BY <1>2 DEF Sole, WorkersOK
  <2>2. ASSUME \A v \in Workers : v # w => pc'[v] = pc[v], Read(w)'
        PROVE  \A v \in Workers : Read(v)'
    BY <2>1, <2>2 DEF Attached
  <2>3. ASSUME NEW p \in linked, Decide(w, p) PROVE CountInv'
    <3>1. PICK i : target' = [target EXCEPT ![w] = i]
      BY <2>3 DEF Decide
    <3>2. /\ pc[w] = "idle" /\ pc' = [pc EXCEPT ![w] = "attach"] /\ job' = [job EXCEPT ![w] = p]
          /\ UNCHANGED <<home, rows, done>>
      BY <2>3 DEF Decide, reportVars, keys
    <3>3. /\ pc'[w] = "attach" /\ target[w] = NoIncident
          /\ \A v \in Workers : v # w => pc'[v] = pc[v] /\ job'[v] = job[v]
      BY <2>1, <3>2 DEF WorkersOK
    <3>4. Traced'
      BY <1>3, <3>2, <3>3 DEF Attached
    <3>5. \A j \in Ids : Counted(j)' <=> Counted(j)
      BY <1>2, <3>2 DEF Counted, Members
    <3>6. Exact'
      BY <1>2, <1>3, <2>1, <3>2, <3>3, <3>5
    <3>7. Read(w)'
      BY <3>3 DEF Attached
    <3> QED
      BY <1>4, <2>2, <3>3, <3>4, <3>6, <3>7
  <2>4. ASSUME Attach(w) PROVE CountInv'
    <3> DEFINE r == job[w].report
               i == IF target[w] = NoIncident THEN Len(rows) + 1 ELSE target[w]
    <3>1. /\ pc[w] = "attach" /\ pc' = [pc EXCEPT ![w] = "aggregate"]
          /\ target' = [target EXCEPT ![w] = i] /\ home' = [home EXCEPT ![r] = i]
          /\ UNCHANGED <<job, done>>
      BY <2>4 DEF Attach, keys
    <3>2. r \in Reports /\ r \notin done
      BY <1>2, <2>1, <3>1, JobIsProposal DEF DoneInv
    <3>3. home[r] = NoIncident
      BY <1>3, <2>1, <3>1, <3>2 DEF Attached
    <3>4. \A j \in Ids' : j # i => j \in Ids /\ rows'[j] = rows[j] /\ target[w] # j
      <4>1. CASE target[w] = NoIncident
        <5> DEFINE e == Placeholder(r)
        <5>1. rows' = Append(rows, e)
          BY <2>4, <4>1 DEF Attach
        <5> HIDE DEF e
        <5>2. /\ DOMAIN rows' = 1 .. Len(rows) + 1 /\ Len(rows) \in Nat
              /\ DOMAIN rows = 1 .. Len(rows)
              /\ \A k \in DOMAIN rows : rows'[k] = rows[k]
          BY <1>2, <5>1, SeqAppend, SeqDomain
        <5> QED
          BY <1>2, <4>1, <5>2
      <4>2. CASE target[w] # NoIncident
        <5>1. rows' = rows
          BY <2>4, <4>2 DEF Attach
        <5> QED
          BY <1>2, <4>2, <5>1
      <4> QED
        BY <4>1, <4>2
    <3> HIDE DEF i
    <3>5. /\ pc'[w] = "aggregate" /\ target'[w] = i /\ home'[r] = i
          /\ \A s \in Reports : s # r => home'[s] = home[s]
          /\ \A v \in Workers : v # w => pc'[v] = pc[v] /\ target'[v] = target[v]
      BY <2>1, <3>1, <3>2 DEF WorkersOK, ReportsOK
    <3>6. \A j \in Ids' : j # i => Members(j)' = Members(j)
      BY <1>2, <3>2, <3>3, <3>4, <3>5 DEF Members
    <3>7. \A j \in Ids' : j # i => (Counted(j)' <=> Counted(j))
      BY <1>2, <3>4, <3>6, CountedStays
    <3>8. Exact'
      BY <1>2, <1>3, <2>1, <3>4, <3>5, <3>7
    <3>9. Traced'
      <4>1. ASSUME NEW s \in Reports, home'[s] # NoIncident
            PROVE  s \in done' \/ \E v \in Workers : pc'[v] \in Attached /\ job'[v].report = s
        <5>1. CASE s = r
          BY <2>1, <3>1, <3>5, <5>1 DEF Attached
        <5>2. CASE s # r
          BY <1>3, <2>1, <3>1, <3>5, <4>1, <5>2 DEF Attached
        <5> QED
          BY <5>1, <5>2
      <4> QED
        BY <4>1
    <3>10. Read(w)'
      BY <3>1, <3>5
    <3> QED
      BY <1>4, <2>2, <3>5, <3>8, <3>9, <3>10
  <2>5. ASSUME Aggregate(w) PROVE CountInv'
    <3>1. /\ pc[w] = "aggregate" /\ pc' = [pc EXCEPT ![w] = "update"]
          /\ agg' = [agg EXCEPT ![w] = Members(target[w])]
          /\ UNCHANGED <<home, rows, job, target, done>>
      BY <2>5 DEF Aggregate, reportVars, keys
    <3>2. /\ pc'[w] = "update" /\ agg'[w] = Members(target[w])
          /\ \A v \in Workers : v # w => pc'[v] = pc[v]
      BY <2>1, <3>1 DEF WorkersOK
    <3>3. \A j : Members(j)' = Members(j)
      BY <3>1 DEF Members
    <3>4. \A j \in Ids : Counted(j)' <=> Counted(j)
      BY <1>2, <3>1, <3>3 DEF Counted
    <3>5. Traced' /\ Exact'
      BY <1>2, <1>3, <3>1, <3>2, <3>4 DEF Attached
    <3>6. Read(w)'
      BY <1>3, <2>1, <3>1, <3>2, <3>3 DEF Attached
    <3> QED
      BY <1>4, <2>2, <3>2, <3>5, <3>6
  <2>6. ASSUME Update(w) PROVE CountInv'
    <3>0. PICK t \in Ids : t = target[w] /\ agg[w] = Members(t)
      BY <1>3, <2>1, <2>6 DEF Update, WorkersOK
    <3> DEFINE x == Recomputed(rows[t], agg[w])
               devices == {fact[r].device : r \in agg[w]}
    <3>1. /\ pc[w] = "update" /\ pc' = [pc EXCEPT ![w] = "publish"]
          /\ rows' = [rows EXCEPT ![t] = x]
          /\ UNCHANGED <<home, job, target, agg, done>>
      BY <2>6, <3>0 DEF Update, reportVars, keys
    <3>2. x.count = Cardinality(agg[w]) /\ x.reporters = Cardinality(devices)
      <4>1. IsRow(rows[t])
        BY DEF RowsOK
      <4> QED
        BY <4>1, RecomputedRow
    <3> HIDE DEF x
    <3>3. /\ DOMAIN rows' = DOMAIN rows
          /\ \A k \in DOMAIN rows : rows'[k] = IF k = t THEN x ELSE rows[k]
      BY <1>2, <3>1, SeqReplace
    <3>4. \A j : Members(j)' = Members(j)
      BY <3>1 DEF Members
    <3>5. Counted(t)'
      <4>1. rows'[t] = x
        BY <1>2, <3>3
      <4>2. Members(t)' = agg[w]
        BY <3>0, <3>4
      <4>3. {fact'[r].device : r \in Members(t)'} = devices
        BY <1>2, <4>2
      <4> HIDE DEF devices
      <4>4. Counted(t)' <=> /\ rows'[t].count = Cardinality(Members(t)')
                            /\ rows'[t].reporters
                                 = Cardinality({fact'[r].device : r \in Members(t)'})
        BY DEF Counted
      <4> QED
        BY <3>2, <4>1, <4>2, <4>3, <4>4
    <3>6. \A j \in Ids : j # t => (Counted(j)' <=> Counted(j))
      BY <1>2, <3>3, <3>4, CountedStays
    <3>7. /\ pc'[w] = "publish" /\ \A v \in Workers : v # w => pc'[v] = pc[v]
      BY <2>1, <3>1 DEF WorkersOK
    <3>8. Traced'
      BY <1>3, <2>1, <3>1, <3>7 DEF Attached
    <3>9. Exact'
      <4>1. Ids' = Ids
        BY <1>2, <3>3
      <4>2. ASSUME NEW j \in Ids, \A v \in workers : target[v] # j PROVE Counted(j)'
        <5>1. j # t
          BY <3>0, <4>2
        <5> QED
          BY <1>3, <3>6, <4>2, <5>1
      <4> QED
        BY <1>2, <3>1, <4>1, <4>2
    <3>10. Read(w)'
      <4>1. target'[w] = t /\ job'[w] = job[w] /\ agg'[w] = agg[w]
        BY <3>0, <3>1
      <4> QED
        BY <1>3, <2>1, <3>0, <3>1, <3>4, <3>5, <3>7, <4>1 DEF Attached
    <3> QED
      BY <1>4, <2>2, <3>7, <3>8, <3>9, <3>10
  <2>7. ASSUME NothingToUpdate(w) PROVE FALSE
    <3>1. pc[w] = "update" /\ agg[w] = {}
      BY <2>7 DEF NothingToUpdate
    <3>2. home[job[w].report] = target[w] /\ agg[w] = Members(target[w])
      BY <1>3, <2>1, <3>1 DEF Attached
    <3>3. job[w].report \in Reports
      BY <2>1, <3>1, JobIsProposal
    <3> QED
      BY <3>1, <3>2, <3>3 DEF Members
  <2>8. ASSUME PublishUpdate(w) PROVE CountInv'
    <3>1. /\ pc[w] = "publish" /\ done' = done \cup {job[w].report} /\ Rest(w)
          /\ UNCHANGED <<home, rows>>
      BY <1>2, <2>8 DEF PublishUpdate, reportVars
    <3>2. /\ pc'[w] = "idle"
          /\ \A v \in Workers : v # w => pc'[v] = pc[v] /\ job'[v] = job[v]
      BY <2>1, <3>1 DEF Rest, WorkersOK
    <3>3. Counted(target[w])
      BY <1>3, <2>1, <3>1
    <3>4. \A j \in Ids : Counted(j)' <=> Counted(j)
      BY <1>2, <3>1 DEF Counted, Members
    <3>5. Exact'
      BY <1>2, <1>3, <2>1, <3>1, <3>3, <3>4
    <3>6. Traced'
      BY <1>3, <2>1, <3>1, <3>2 DEF Attached
    <3>7. Read(w)'
      BY <3>2 DEF Attached
    <3> QED
      BY <1>4, <2>2, <3>2, <3>5, <3>6, <3>7
  <2>9. ~Crash(w)
    BY <1>2 DEF Crash
  <2> QED
    BY <1>6, <2>3, <2>4, <2>5, <2>6, <2>7, <2>8, <2>9 DEF A3Step
<1>7. CASE A4Step \/ A5Step
  BY <1>5, <1>7, CountsStay
<1>8. CASE A1Step \/ A2Step \/ UNCHANGED vars
  <2>1. UNCHANGED <<home, rows, a3Vars, done>>
    BY <1>8 DEF A1Step, A2Step, Perceive, SkipUnreadable, Propose, vars, reportVars, keys
  <2> QED
    BY <1>2, <1>5, <2>1
<1> QED
  BY <1>6, <1>7, <1>8 DEF Next

\* The invariant holds at every moment.
LEMMA CountAlways == Spec => []CountInv
<1>1. Init => CountInv
  <2> SUFFICES ASSUME Init PROVE CountInv
    OBVIOUS
  <2>1. DOMAIN rows = {}
    <3>1. rows = << >>
      BY DEF Init
    <3> QED
      BY <3>1
  <2> QED
    BY <2>1 DEF Init, CountInv, Ids, Attached
<1>2. TypeInv /\ DoneInv /\ CountInv /\ [Next]_vars => CountInv'
  BY CountStep
<1> QED
  BY <1>1, <1>2, TypeInvAlways, DoneAlways, PTL DEF Spec

\* With one consumer and no fault, the counts of a row are those of its members
\* whenever A3 is not at work on it: they "can never drift" (a3_synthesis:305).
THEOREM CountsNeverDrift == Spec => []CountMatches
<1>1. CountInv => CountMatches
  BY DEF CountInv, CountMatches, Counted
<1> QED
  BY <1>1, CountAlways, PTL

-----------------------------------------------------------------------------
(* Sums over a finite set.  MapThenSumSet recurs on the subsets; its function *)
(* exists and has the obvious bounds, by induction on a smallest exception.   *)

Any(s) == CHOOSE x \in s : TRUE

IsSum(F, S, g) ==
  /\ F \in [SUBSET S -> Int]
  /\ \A s \in SUBSET S : F[s] = IF s = {} THEN 0 ELSE g[Any(s)] + F[s \ {Any(s)}]

\* Every subset is smaller, and its own without an element is smaller by one.
LEMMA SubsetSizes ==
  ASSUME NEW S, IsFiniteSet(S), NEW s \in SUBSET S
  PROVE  /\ IsFiniteSet(s) /\ Cardinality(s) \in Nat /\ Cardinality(s) <= Cardinality(S)
         /\ \A x \in s : Cardinality(s \ {x}) + 1 = Cardinality(s)
         /\ s # {} => Any(s) \in s
<1>1. IsFiniteSet(s) /\ Cardinality(s) \in Nat /\ Cardinality(s) <= Cardinality(S)
  BY FS_Subset, FS_CardinalityType
<1>2. ASSUME NEW x \in s PROVE Cardinality(s \ {x}) + 1 = Cardinality(s)
  BY <1>1, FS_RemoveElement, FS_Subset, FS_CardinalityType
<1> QED
  BY <1>1, <1>2 DEF Any

\* Of some subsets of a finite set one is smallest.
LEMMA SmallestSubset ==
  ASSUME NEW S, IsFiniteSet(S), NEW B \in SUBSET (SUBSET S), B # {}
  PROVE  \E s \in B : \A x \in s : s \ {x} \notin B
<1> DEFINE sizes == {Cardinality(s) : s \in B}
<1>1. sizes \in SUBSET Nat /\ sizes # {}
  BY SubsetSizes
<1>2. PICK n \in sizes : \A m \in sizes : n <= m
  BY <1>1, LeastNumber
<1>3. PICK s \in B : Cardinality(s) = n
  BY <1>2
<1>4. ASSUME NEW x \in s, s \ {x} \in B PROVE FALSE
  <2>1. Cardinality(s \ {x}) \in sizes
    BY <1>4
  <2>2. Cardinality(s \ {x}) + 1 = n /\ Cardinality(s \ {x}) \in Nat
    BY <1>3, <1>4, SubsetSizes
  <2> QED
    BY <1>1, <1>2, <2>1, <2>2
<1> QED
  BY <1>3, <1>4

\* Some function satisfies the recursion: one that does up to a size gives one that
\* does up to the next.
LEMMA SumExists ==
  ASSUME NEW S, IsFiniteSet(S), NEW g \in [S -> Int]
  PROVE  \E F : IsSum(F, S, g)
<1> DEFINE Right(F, s) == F[s] = IF s = {} THEN 0 ELSE g[Any(s)] + F[s \ {Any(s)}]
           Upto(n) == \E F \in [SUBSET S -> Int] :
                        \A s \in SUBSET S : Cardinality(s) <= n => Right(F, s)
           bad == {n \in Nat : ~Upto(n)}
<1>1. Upto(0)
  <2> DEFINE Z == [s \in SUBSET S |-> 0]
  <2>1. \A s \in SUBSET S : Cardinality(s) <= 0 => s = {}
    <3>1. ASSUME NEW s \in SUBSET S, Cardinality(s) <= 0 PROVE s = {}
      BY <3>1, SubsetSizes, FS_EmptySet
    <3> QED
      BY <3>1
  <2>2. Z \in [SUBSET S -> Int]
    OBVIOUS
  <2>3. \A s \in SUBSET S : Cardinality(s) <= 0 => Right(Z, s)
    BY <2>1
  <2> QED
    BY <2>2, <2>3
<1>2. ASSUME NEW n \in Nat, Upto(n) PROVE Upto(n + 1)
  <2>1. PICK F \in [SUBSET S -> Int] : \A s \in SUBSET S : Cardinality(s) <= n => Right(F, s)
    BY <1>2
  <2> DEFINE G == [s \in SUBSET S |-> IF s = {} THEN 0 ELSE g[Any(s)] + F[s \ {Any(s)}]]
  <2>2. ASSUME NEW s \in SUBSET S, s # {} PROVE Any(s) \in S /\ s \ {Any(s)} \in SUBSET S
    BY <2>2, SubsetSizes
  <2>3. G \in [SUBSET S -> Int]
    <3>1. ASSUME NEW s \in SUBSET S 
          PROVE  (IF s = {} THEN 0 ELSE g[Any(s)] + F[s \ {Any(s)}]) \in Int
      <4>1. CASE s = {}
        BY <4>1
      <4>2. CASE s # {}
        <5>1. g[Any(s)] \in Int /\ F[s \ {Any(s)}] \in Int
          BY <2>1, <2>2, <4>2
        <5> QED
          BY <4>2, <5>1
      <4> QED
        BY <4>1, <4>2
    <3> QED
      BY <3>1
  <2>4. \A s \in SUBSET S : Cardinality(s) <= n => G[s] = F[s]
    BY <2>1
  <2>5. ASSUME NEW s \in SUBSET S, Cardinality(s) <= n + 1 PROVE Right(G, s)
    <3>1. CASE s = {}
      BY <3>1
    <3>2. CASE s # {}
      <4>1. Any(s) \in s
        BY <3>2, SubsetSizes
      <4>2. Cardinality(s \ {Any(s)}) + 1 = Cardinality(s) /\ Cardinality(s \ {Any(s)}) \in Nat
        <5>1. Cardinality(s \ {Any(s)}) + 1 = Cardinality(s)
          BY <4>1, SubsetSizes
        <5>2. Cardinality(s \ {Any(s)}) \in Nat
          BY <2>2, <3>2, SubsetSizes
        <5> QED
          BY <5>1, <5>2
      <4>3. Cardinality(s \ {Any(s)}) <= n
        BY <2>5, <4>2
      <4>4. G[s \ {Any(s)}] = F[s \ {Any(s)}]
        BY <2>2, <2>4, <3>2, <4>3
      <4> QED
        BY <3>2, <4>4
    <3> QED
      BY <3>1, <3>2
  <2> HIDE DEF G
  <2> QED
    BY <2>3, <2>5
<1> HIDE DEF Upto
<1>3. bad = {}
  <2> SUFFICES ASSUME bad # {} PROVE FALSE
    OBVIOUS
  <2>1. PICK n \in bad : \A m \in bad : n <= m
    BY LeastNumber
  <2>2. n \in Nat /\ n # 0
    BY <1>1
  <2>3. n - 1 \in Nat /\ n - 1 \notin bad
    BY <2>1, <2>2
  <2>4. Upto(n - 1 + 1)
    BY <1>2, <2>3
  <2>5. n - 1 + 1 = n
    BY <2>2
  <2> QED
    BY <2>4, <2>5
<1>4. Cardinality(S) \in Nat
  BY FS_CardinalityType
<1>5. Upto(Cardinality(S))
  BY <1>3, <1>4
<1>6. PICK F \in [SUBSET S -> Int] :
        \A s \in SUBSET S : Cardinality(s) <= Cardinality(S) => Right(F, s)
  BY <1>5 DEF Upto
<1>7. \A s \in SUBSET S : Cardinality(s) <= Cardinality(S)
  BY SubsetSizes
<1>8. IsSum(F, S, g)
  BY <1>6, <1>7 DEF IsSum
<1> QED
  BY <1>8

\* Whatever satisfies the recursion is made of integers.
LEMMA SumIsInteger ==
  ASSUME NEW S, IsFiniteSet(S), NEW g \in [S -> Int], NEW F,
         F = [s \in SUBSET S |-> IF s = {} THEN 0 ELSE g[Any(s)] + F[s \ {Any(s)}]]
  PROVE  IsSum(F, S, g)
<1> DEFINE bad == {s \in SUBSET S : F[s] \notin Int}
<1>1. DOMAIN F = SUBSET S /\ F = [s \in SUBSET S |-> F[s]]
  OBVIOUS
<1>2. \A s \in SUBSET S : F[s] = IF s = {} THEN 0 ELSE g[Any(s)] + F[s \ {Any(s)}]
  OBVIOUS
<1>3. bad = {}
  <2> SUFFICES ASSUME bad # {} PROVE FALSE
    OBVIOUS
  <2>1. PICK s \in bad : \A x \in s : s \ {x} \notin bad
    BY SmallestSubset
  <2> DEFINE x == Any(s)
  <2>2. s # {}
    BY <1>2
  <2>3. x \in s /\ x \in S
    BY <2>2, SubsetSizes
  <2>4. F[s] = g[x] + F[s \ {x}] /\ F[s \ {x}] \in Int /\ g[x] \in Int
    BY <1>2, <2>1, <2>2, <2>3
  <2> HIDE DEF x
  <2> QED
    BY <2>4
<1> QED
  BY <1>1, <1>2, <1>3 DEF IsSum

\* A sum of naturals is one, and positive if the numbers are.
LEMMA SumIsNatural ==
  ASSUME NEW S, IsFiniteSet(S), NEW g \in [S -> Nat], NEW F, IsSum(F, S, g)
  PROVE  F[S] \in Nat /\ ((\A x \in S : g[x] > 0) /\ S # {} => F[S] > 0)
<1> DEFINE Good(s) == F[s] \in Nat /\ ((\A x \in S : g[x] > 0) /\ s # {} => F[s] > 0)
           bad == {s \in SUBSET S : ~Good(s)}
<1>1. bad = {}
  <2> SUFFICES ASSUME bad # {} PROVE FALSE
    OBVIOUS
  <2>1. PICK s \in bad : \A x \in s : s \ {x} \notin bad
    BY SmallestSubset
  <2> DEFINE x == Any(s)
  <2>2. s # {}
    <3>1. F[{}] = 0
      BY DEF IsSum
    <3>2. Good({})
      BY <3>1
    <3> QED
      BY <3>2
  <2>3. x \in s /\ x \in S
    BY <2>2, SubsetSizes
  <2>4. F[s] = g[x] + F[s \ {x}]
    BY <2>2 DEF IsSum
  <2>5. F[s \ {x}] \in Nat
    BY <2>1, <2>3
  <2>6. g[x] \in Nat
    BY <2>3
  <2> HIDE DEF x
  <2>7. F[s] \in Nat
    BY <2>4, <2>5, <2>6
  <2>8. ASSUME \A y \in S : g[y] > 0 PROVE F[s] > 0
    BY <2>3, <2>4, <2>5, <2>6, <2>8
  <2> QED
    BY <2>7, <2>8
<1>2. Good(S)
  BY <1>1
<1> QED
  BY <1>2

\* Multiplication distributes.
LEMMA Distributes ==
  ASSUME NEW a \in Int, NEW b \in Int, NEW c \in Int PROVE c * (a + b) = c * a + c * b
  BY Z3

\* Dividing a product by a factor gives the other.
LEMMA DivideBack ==
  ASSUME NEW a \in Int, NEW b \in Nat, b > 0 PROVE (a * b) \div b = a
  BY Z3

\* A factor of all the numbers is one of the sum.
LEMMA SumScales ==
  ASSUME NEW S, IsFiniteSet(S), NEW g \in [S -> Int], NEW h \in [S -> Int], NEW c \in Int,
         \A x \in S : h[x] = c * g[x], NEW F, IsSum(F, S, g), NEW G, IsSum(G, S, h)
  PROVE  G[S] = c * F[S]
<1> DEFINE Good(s) == G[s] = c * F[s]
           bad == {s \in SUBSET S : ~Good(s)}
<1>1. bad = {}
  <2> SUFFICES ASSUME bad # {} PROVE FALSE
    OBVIOUS
  <2>1. PICK s \in bad : \A x \in s : s \ {x} \notin bad
    BY SmallestSubset
  <2> DEFINE x == Any(s)
  <2>2. s # {}
    <3>1. F[{}] = 0 /\ G[{}] = 0
      BY DEF IsSum
    <3>2. Good({})
      BY <3>1
    <3> QED
      BY <3>2
  <2>3. x \in s /\ x \in S /\ s \ {x} \in SUBSET S
    BY <2>2, SubsetSizes
  <2>4. F[s] = g[x] + F[s \ {x}] /\ G[s] = h[x] + G[s \ {x}]
    BY <2>2 DEF IsSum
  <2>5. G[s \ {x}] = c * F[s \ {x}]
    BY <2>1, <2>3
  <2>6. g[x] \in Int /\ h[x] = c * g[x] /\ F[s \ {x}] \in Int
    BY <2>3 DEF IsSum
  <2> HIDE DEF x
  <2> DEFINE a == g[x]
             b == F[s \ {x}]
  <2>7. G[s] = c * a + c * b /\ F[s] = a + b /\ a \in Int /\ b \in Int
    BY <2>4, <2>5, <2>6
  <2> HIDE DEF a, b
  <2>8. G[s] = c * F[s]
    BY <2>7, Distributes
  <2> QED
    BY <2>8
<1>2. Good(S)
  BY <1>1
<1> QED
  BY <1>2

\* The clamp of a severity.
LEMMA Clamped ==
  ASSUME NEW n \in Int PROVE Max({1, Min({5, n})}) \in 1 .. 5
<1>1. Min({5, n}) = IF n < 5 THEN n ELSE 5
  BY DEF Min
<1> DEFINE m == Min({5, n})
<1>2. m \in Int /\ m <= 5
  BY <1>1
<1> HIDE DEF m
<1>3. Max({1, m}) = IF m > 1 THEN m ELSE 1
  BY <1>2 DEF Max
<1> QED
  BY <1>2, <1>3 DEF m

\* A set of six is finite.
LEMMA SixAreFinite ==
  ASSUME NEW a, NEW b, NEW c, NEW d, NEW e, NEW f
  PROVE  IsFiniteSet({a, b, c, d, e, f})
<1>1. IsFiniteSet({a}) /\ IsFiniteSet({b}) /\ IsFiniteSet({c}) /\ IsFiniteSet({d})
      /\ IsFiniteSet({e}) /\ IsFiniteSet({f})
  BY FS_Singleton
<1>2. IsFiniteSet({a} \cup {b}) /\ IsFiniteSet({c} \cup {d}) /\ IsFiniteSet({e} \cup {f})
  BY <1>1, FS_Union
<1>3. IsFiniteSet(({a} \cup {b}) \cup ({c} \cup {d}))
  BY <1>2, FS_Union
<1>4. IsFiniteSet((({a} \cup {b}) \cup ({c} \cup {d})) \cup ({e} \cup {f}))
  BY <1>2, <1>3, FS_Union
<1>5. {a, b, c, d, e, f} = (({a} \cup {b}) \cup ({c} \cup {d})) \cup ({e} \cup {f})
  OBVIOUS
<1> QED
  BY <1>4, <1>5

\* The escalators of a text add up to a number.
LEMMA EscalatorsAddUp ==
  ASSUME NEW us, us \subseteq DOMAIN SEVERITY_ESCALATORS
  PROVE  MapThenSumSet(LAMBDA u : SEVERITY_ESCALATORS[u], us) \in Nat
<1>1. IsFiniteSet(us)
  <2> DEFINE few == {"child", "school", "hospital", "accident", "injur", "died"}
             some == {"death", "elderly", "ambulance", "huge", "very_big", "massive"}
             others == {"dangerous", "deep", "months", "weeks", "repeatedly", "again"}
  <2>1. DOMAIN SEVERITY_ESCALATORS = (few \cup some) \cup others
    BY DEF SEVERITY_ESCALATORS
  <2>2. IsFiniteSet(few) /\ IsFiniteSet(some) /\ IsFiniteSet(others)
    BY SixAreFinite
  <2> HIDE DEF few, some, others
  <2>3. IsFiniteSet((few \cup some) \cup others)
    BY <2>2, FS_Union
  <2> QED
    BY <2>1, <2>3, FS_Subset
<1> DEFINE g == [u \in us |-> SEVERITY_ESCALATORS[u]]
<1>2. g \in [us -> Nat] /\ g \in [us -> Int]
  BY DEF SEVERITY_ESCALATORS
<1>3. PICK F : IsSum(F, us, g)
  BY <1>1, <1>2, SumExists
<1> DEFINE Body(h) == [s \in SUBSET us |->
                         IF s = {} THEN 0 ELSE SEVERITY_ESCALATORS[Any(s)] + h[s \ {Any(s)}]]
           K == CHOOSE h : h = Body(h)
<1>4. MapThenSumSet(LAMBDA u : SEVERITY_ESCALATORS[u], us) = K[us]
  BY SMT DEF MapThenSumSet, MapThenFoldSet, Any
<1>5. K = CHOOSE h : h = Body(h)
  OBVIOUS
<1>6. F = Body(F)
  <2>1. \A s \in SUBSET us : s # {} => g[Any(s)] = SEVERITY_ESCALATORS[Any(s)]
    BY DEF Any
  <2> QED
    BY <1>3, <2>1 DEF IsSum
<1> HIDE DEF K, Body
<1>7. K = Body(K)
  BY <1>5, <1>6
<1>8. IsSum(K, us, g)
  <2>1. K = [s \in SUBSET us |-> IF s = {} THEN 0 ELSE g[Any(s)] + K[s \ {Any(s)}]]
    <3>1. \A s \in SUBSET us : s # {} => g[Any(s)] = SEVERITY_ESCALATORS[Any(s)]
      BY DEF Any
    <3> QED
      BY <1>7, <3>1 DEF Body
  <2> QED
    BY <1>1, <1>2, <2>1, SumIsInteger
<1>9. K[us] \in Nat
  BY <1>1, <1>2, <1>8, SumIsNatural
<1> QED
  BY <1>4, <1>9

\* What A1 reads of a report: a severity the scale has, hazards of the table, and
\* every hazard the citizen's own words name.
LEMMA ReadingFields ==
  ASSUME NEW raw, NEW caps,
         \A t \in {raw.text, raw.audio, raw.photo} :
           t.urges \subseteq DOMAIN SEVERITY_ESCALATORS /\ t.names \subseteq HAZARD_KEYWORDS
  PROVE  /\ Understood(raw, caps).severity \in 1 .. 5
         /\ Understood(raw, caps).hazards \subseteq HAZARD_KEYWORDS
         /\ raw.text.names \subseteq Understood(raw, caps).hazards
<1> DEFINE parts == {raw.text, Transcript(raw, caps)} \ {Nothing}
           spoken == Extract(parts)
           t == Joined(parts)
<1>1. /\ Understood(raw, caps).severity = spoken.severity
      /\ Understood(raw, caps).hazards = spoken.hazards
  BY DEF Understood
<1>2. \A p \in parts : /\ p.urges \subseteq DOMAIN SEVERITY_ESCALATORS
                       /\ p.names \subseteq HAZARD_KEYWORDS
  BY DEF Transcript
<1>3. raw.text \in parts \/ raw.text.names = {}
  BY DEF Nothing
<1> HIDE DEF parts
<1>4. t.urges \subseteq DOMAIN SEVERITY_ESCALATORS /\ t.names \subseteq HAZARD_KEYWORDS
  BY <1>2 DEF Joined
<1>5. parts # {} => spoken.severity = Severity(t) /\ spoken.hazards = t.names
  BY DEF Extract
<1>6. parts = {} => spoken.severity = 1 /\ spoken.hazards = {}
  BY DEF Extract
<1>7. Severity(t) \in 1 .. 5
  <2> DEFINE a == IF Category(t) \in BASE_SEVERITY_3 THEN 3 ELSE 2
             b == MapThenSumSet(LAMBDA u : SEVERITY_ESCALATORS[u], t.urges)
             c == IF t.names # {} THEN 1 ELSE 0
  <2>1. Severity(t) = Max({1, Min({5, a + b + c})})
    BY DEF Severity
  <2>2. a \in Nat /\ c \in Nat
    OBVIOUS
  <2>3. b \in Nat
    BY <1>4, EscalatorsAddUp
  <2> HIDE DEF a, b, c
  <2> QED
    BY <2>1, <2>2, <2>3, Clamped
<1>8. raw.text \in parts => raw.text.names \subseteq t.names
  BY DEF Joined
<1> HIDE DEF spoken, t
<1> QED
  BY <1>1, <1>3, <1>4, <1>5, <1>6, <1>7, <1>8

-----------------------------------------------------------------------------
(* What is known of a report, for it was one of those considered. *)

FactInv == \E c \in Cases : fact = Facts(c)

\* The hazards that some report considered names.
KnownHazards == UNION {UNION {Facts(c)[r].hazards : r \in DOMAIN c.raw} : c \in Cases}

\* The reports stay what they are.
LEMMA FactAlways == Spec => []FactInv
<1>1. Init => FactInv
  BY DEF Init, FactInv
<1>2. FactInv /\ [Next]_vars => FactInv'
  BY ConfigStays DEF FactInv, config
<1> QED
  BY <1>1, <1>2, PTL DEF Spec

\* What the assumptions on the cases say of a report, and what A1 makes of it.
LEMMA FactFields ==
  ASSUME FactInv, NEW r \in Made
  PROVE  /\ fact[r].spot \in Int /\ fact[r].day \in Int
         /\ fact[r].weight \in Nat \ {0}
         /\ fact[r].wording \in DOMAIN Likeness
         /\ fact[r].severity \in 1 .. 5
         /\ fact[r].named \subseteq fact[r].hazards
         /\ fact[r].hazards \subseteq HAZARD_KEYWORDS
         /\ fact[r].hazards \subseteq KnownHazards
         /\ FindingsOnReading(fact[r]) \subseteq Found(fact[r].blank, "a1_embedding_all_zero")
<1>1. PICK c \in Cases : fact = Facts(c)
  BY DEF FactInv
<1>2. r \in DOMAIN c.raw /\ fact[r] = Fact(c.raw[r], c.provider)
  BY <1>1 DEF Facts, Made
<1> DEFINE raw == c.raw[r]
           read == Understood(raw, c.provider)
<1>3. /\ fact[r].spot = raw.spot /\ fact[r].day = raw.day /\ fact[r].weight = raw.weight
      /\ fact[r].wording = raw.wording /\ fact[r].named = raw.text.names
      /\ fact[r].severity = read.severity /\ fact[r].hazards = read.hazards
      /\ fact[r].category = read.category /\ fact[r].summary = read.summary
      /\ fact[r].blank = read.blank
  BY <1>2 DEF Fact
<1>4. /\ raw.spot \in Int /\ raw.day \in Int /\ raw.weight \in Nat \ {0}
      /\ raw.wording \in DOMAIN Likeness
      /\ \A t \in {raw.text, raw.audio, raw.photo} :
           t.urges \subseteq DOMAIN SEVERITY_ESCALATORS /\ t.names \subseteq HAZARD_KEYWORDS
  BY <1>2, CasesAssumption
<1>5. /\ read.severity \in 1 .. 5 /\ raw.text.names \subseteq read.hazards
      /\ read.hazards \subseteq HAZARD_KEYWORDS
  BY <1>4, ReadingFields
<1>6. FindingsOnReading(read) \subseteq Found(read.blank, "a1_embedding_all_zero")
  BY ReadingPassesL2
<1>7. fact[r].hazards \subseteq KnownHazards
  BY <1>1, <1>2 DEF KnownHazards
<1> HIDE DEF raw, read
<1>8. FindingsOnReading(fact[r]) = FindingsOnReading(read)
  BY <1>3 DEF FindingsOnReading
<1> QED
  BY <1>3, <1>4, <1>5, <1>6, <1>7, <1>8

-----------------------------------------------------------------------------
(* Why L2 fails a proposal.  The invariant: a proposal decides by its score,   *)
(* and names an incident unless it asks for a new one.  With one consumer and *)
(* no fault there is one proposal for a report, none before A2 has recorded   *)
(* it; and where the proposal leaves A3 no choice, the report goes there.     *)

\* A3 follows the proposal without looking again.
Binding(p) ==
  \/ p.decision = "auto_link"
  \/ p.decision = "candidate_link" /\ Adjudicate(p.components)

Decided(p) ==
  /\ p.decision = DecisionFor(p.score)
  /\ (p.incident = NoIncident) <=> (p.decision = "new_incident_seed")

LinkInv ==
  /\ \A p \in linked : Decided(p)
  /\ Sole /\ Calm =>
       /\ \A p, q \in linked : p.report = q.report => p = q
       /\ \A p \in linked : p.report \in proposed
       /\ \A r \in Reports : home[r] # NoIncident => r \in proposed
       /\ \A w \in Workers :
            pc[w] = "attach" /\ Binding(job[w]) => target[w] = job[w].incident
       /\ \A p \in linked :
            Binding(p) /\ home[p.report] # NoIncident => home[p.report] = p.incident

\* A2 decides by the score.
LEMMA ProposalDecided ==
  ASSUME RowsOK, NEW r, NEW p \in Proposals(r)
  PROVE  Decided(p)
<1>1. CASE Candidates(r) = {}
  <2>1. p.score = 0 /\ p.decision = "new_incident_seed" /\ p.incident = NoIncident
    BY <1>1 DEF Proposals, NoJob
  <2> QED
    BY <2>1 DEF Decided, DecisionFor, AUTO_LINK_THRESHOLD, CANDIDATE_THRESHOLD
<1>2. CASE Candidates(r) # {}
  <2>1. PICK c \in Candidates(r) : p = ProposalOf(r, c)
    BY <1>2 DEF Proposals, Best
  <2>2. c.incident \in Ids /\ NoIncident \notin Ids
    BY CandidateMatches, SeqDomain DEF RowsOK, Ids, NoIncident
  <2> QED
    BY <2>1, <2>2 DEF ProposalOf, Decided
<1> QED
  BY <1>1, <1>2

\* What A3 does with a proposal that leaves it no choice.
LEMMA BindingTarget ==
  ASSUME NEW p, Binding(p), NEW i \in Targets(p) PROVE i = p.incident
  BY DEF Binding, Targets

\* A step keeps proposals and homes in agreement.
LEMMA LinkStep ==
  ASSUME TypeInv, LinkInv, [Next]_vars PROVE LinkInv'
<1> USE DEF TypeInv
<1>1. /\ UNCHANGED config /\ UNCHANGED workers /\ workers \subseteq Workers /\ NoIncident \notin Ids
      /\ Calm' => Calm /\ ~Fault
  <2>1. NoIncident \notin Ids
    BY SeqDomain DEF RowsOK, Ids, NoIncident
  <2> QED
    BY <2>1, ConfigStays, CalmBefore, NoFaultWhenCalm DEF config, ReportsOK
<1> DEFINE AllDecided == \A p \in linked : Decided(p)
           OneEach == \A p, q \in linked : p.report = q.report => p = q
           Recorded == \A p \in linked : p.report \in proposed
           Housed == \A r \in Reports : home[r] # NoIncident => r \in proposed
           Bound(w) == pc[w] = "attach" /\ Binding(job[w]) => target[w] = job[w].incident
           Obeyed == \A p \in linked :
                       Binding(p) /\ home[p.report] # NoIncident => home[p.report] = p.incident
<1>2. /\ AllDecided
      /\ Sole /\ Calm => OneEach /\ Recorded /\ Housed /\ Obeyed /\ \A w \in Workers : Bound(w)
  BY DEF LinkInv
<1>3. ASSUME AllDecided',
             Sole /\ Calm' =>
               OneEach' /\ Recorded' /\ Housed' /\ Obeyed' /\ \A w \in Workers : Bound(w)'
      PROVE  LinkInv'
  BY <1>1, <1>3 DEF LinkInv, Sole
<1>4. ASSUME UNCHANGED home, linked' \subseteq linked, proposed' = proposed,
             \A v \in Workers : pc'[v] = "attach" =>
               /\ pc[v] = "attach" /\ job'[v] = job[v] /\ target'[v] = target[v]
      PROVE  LinkInv'
  <2>1. AllDecided'
    BY <1>2, <1>4
  <2>2. ASSUME Sole, Calm'
        PROVE  OneEach' /\ Recorded' /\ Housed' /\ Obeyed' /\ \A w \in Workers : Bound(w)'
    BY <1>1, <1>2, <1>4, <2>2
  <2> QED
    BY <1>3, <2>1, <2>2
<1>5. ASSUME NEW r \in Reports, Propose(r) PROVE LinkInv'
  <2>1. PICK p \in Proposals(r) : linked' = linked \cup {p}
    BY <1>5 DEF Propose
  <2>2. /\ UNCHANGED <<home, pc, job, target>> /\ r \notin proposed
        /\ proposed' = proposed \cup {r} \/ Fault
    BY <1>5 DEF Propose, reportVars, a3Vars
  <2>3. Decided(p) /\ p.report = r
    BY ProposalDecided, ProposalMatches
  <2>4. AllDecided'
    BY <1>2, <2>1, <2>3
  <2>5. ASSUME Sole, Calm'
        PROVE  OneEach' /\ Recorded' /\ Housed' /\ Obeyed' /\ \A w \in Workers : Bound(w)'
    <3>1. proposed' = proposed \cup {r} /\ Calm
      BY <1>1, <2>2, <2>5
    <3>2. home[r] = NoIncident
      BY <1>2, <2>2, <2>5, <3>1
    <3> QED
      BY <1>2, <2>1, <2>2, <2>3, <2>5, <3>1, <3>2
  <2> QED
    BY <1>3, <2>4, <2>5
<1>6. ASSUME NEW w \in workers, A3Step(w) \/ Crash(w) PROVE LinkInv'
  <2>1. w \in Workers
    BY <1>1
  <2>2. ASSUME NEW p \in linked, Decide(w, p) PROVE LinkInv'
    <3>1. PICK i \in Targets(p) : target' = [target EXCEPT ![w] = i]
      BY <2>2 DEF Decide
    <3>2. /\ job' = [job EXCEPT ![w] = p] /\ pc' = [pc EXCEPT ![w] = "attach"]
          /\ UNCHANGED <<home, linked, proposed>>
      BY <2>2 DEF Decide, reportVars, topics, keys
    <3>3. /\ job'[w] = p /\ target'[w] = i
          /\ \A v \in Workers : v # w =>
               pc'[v] = pc[v] /\ job'[v] = job[v] /\ target'[v] = target[v]
      BY <2>1, <3>1, <3>2 DEF WorkersOK
    <3>4. Bound(w)'
      <4>1. Binding(p) => i = p.incident
        BY BindingTarget
      <4> QED
        BY <3>3, <4>1
    <3>5. AllDecided'
      BY <1>2, <3>2
    <3>6. ASSUME Sole, Calm'
          PROVE  OneEach' /\ Recorded' /\ Housed' /\ Obeyed' /\ \A v \in Workers : Bound(v)'
      BY <1>1, <1>2, <3>2, <3>3, <3>4, <3>6
    <3> QED
      BY <1>3, <3>5, <3>6
  <2>3. ASSUME Attach(w) PROVE LinkInv'
    <3> DEFINE r == job[w].report
               i == IF target[w] = NoIncident THEN Len(rows) + 1 ELSE target[w]
    <3>1. /\ pc[w] = "attach" /\ pc' = [pc EXCEPT ![w] = "aggregate"]
          /\ target' = [target EXCEPT ![w] = i] /\ home' = [home EXCEPT ![r] = i]
          /\ UNCHANGED <<job, linked, proposed>>
      BY <2>3 DEF Attach, topics, keys
    <3>2. r \in Reports /\ job[w] \in linked
      BY <2>1, <3>1, JobIsProposal
    <3>3. Binding(job[w]) /\ Bound(w) => i = job[w].incident
      <4>1. Decided(job[w])
        BY <1>2, <3>2
      <4>2. Binding(job[w]) => job[w].incident # NoIncident
        BY <4>1 DEF Binding, Decided
      <4> QED
        BY <3>1, <4>2
    <3> HIDE DEF i
    <3>4. /\ \A v \in Workers : v # w =>
               pc'[v] = pc[v] /\ job'[v] = job[v] /\ target'[v] = target[v]
          /\ pc'[w] = "aggregate"
          /\ \A s \in Reports : home'[s] = IF s = r THEN i ELSE home[s]
      BY <2>1, <3>1, <3>2 DEF WorkersOK, ReportsOK
    <3>5. AllDecided'
      BY <1>2, <3>1
    <3>6. ASSUME Sole, Calm'
          PROVE  OneEach' /\ Recorded' /\ Housed' /\ Obeyed' /\ \A v \in Workers : Bound(v)'
      <4>1. /\ OneEach /\ Recorded /\ Housed /\ Obeyed /\ \A v \in Workers : Bound(v)
        BY <1>1, <1>2, <3>6
      <4>2. OneEach' /\ Recorded' /\ Housed'
        BY <3>1, <3>2, <3>4, <4>1
      <4>3. Obeyed'
        <5>1. ASSUME NEW p \in linked, Binding(p), home'[p.report] # NoIncident
              PROVE  home'[p.report] = p.incident
          <6>1. p.report \in Reports
            BY DEF ReportsOK, Legible
          <6>2. CASE p.report = r
            BY <2>1, <3>2, <3>3, <3>4, <4>1, <5>1, <6>1, <6>2
          <6>3. CASE p.report # r
            BY <3>4, <4>1, <5>1, <6>1, <6>3
          <6> QED
            BY <6>2, <6>3
        <5> QED
          BY <3>1, <5>1 DEF Binding
      <4>4. \A v \in Workers : Bound(v)'
        BY <3>4, <4>1
      <4> QED
        BY <4>2, <4>3, <4>4
    <3> QED
      BY <1>3, <3>5, <3>6
  <2>4. ASSUME Aggregate(w) \/ Update(w) PROVE LinkInv'
    <3>1. /\ pc' = [pc EXCEPT ![w] = "update"] \/ pc' = [pc EXCEPT ![w] = "publish"]
          /\ UNCHANGED <<home, linked, proposed, job, target>>
      BY <2>4 DEF Aggregate, Update, reportVars, topics, keys
    <3>2. pc'[w] # "attach" /\ \A v \in Workers : v # w => pc'[v] = pc[v]
      BY <2>1, <3>1 DEF WorkersOK
    <3> QED
      BY <1>4, <3>1, <3>2
  <2>5. ASSUME NothingToUpdate(w) \/ PublishUpdate(w) \/ Crash(w) PROVE LinkInv'
    <3>1. Rest(w) /\ UNCHANGED <<home, proposed>> /\ linked' \subseteq linked
      BY <2>5 DEF NothingToUpdate, PublishUpdate, Crash, reportVars, topics, keys
    <3>2. /\ pc'[w] = "idle"
          /\ \A v \in Workers : v # w =>
               pc'[v] = pc[v] /\ job'[v] = job[v] /\ target'[v] = target[v]
      BY <2>1, <3>1 DEF Rest, WorkersOK
    <3> QED
      BY <1>4, <3>1, <3>2
  <2> QED
    BY <1>6, <2>2, <2>3, <2>4, <2>5 DEF A3Step
<1>7. CASE A1Step \/ A4Step \/ A5Step \/ UNCHANGED vars
  <2>1. UNCHANGED <<home, linked, proposed, pc, job, target>>
    BY <1>7 DEF A1Step, A4Step, A5Step, Perceive, SkipUnreadable, Prioritise, SkipVanished,
                Route, vars, reportVars, topics, keys, a3Vars
  <2> QED
    BY <1>4, <2>1
<1>8. CASE A2Step
  BY <1>5, <1>8 DEF A2Step
<1> QED
  BY <1>6, <1>7, <1>8 DEF Next

\* The invariant holds at every moment.
LEMMA LinkAlways == Spec => []LinkInv
<1>1. Init => LinkInv
  BY DEF Init, LinkInv
<1>2. TypeInv /\ LinkInv /\ [Next]_vars => LinkInv'
  BY LinkStep
<1> QED
  BY <1>1, <1>2, TypeInvAlways, PTL DEF Spec

\* L2 fails a reading for a text without a Latin letter only, whatever is sent and
\* however the agents interleave; and with one consumer and no fault it fails no
\* proposal but one in the grey zone that A3 was free to decline (rules/a2.py:92).
THEOREM AlarmsAreExplained == Spec => []AlarmsExplained
<1>1. TypeInv /\ FactInv /\ CategoryInv /\ LinkInv => AlarmsExplained
  <2> SUFFICES ASSUME TypeInv, FactInv, CategoryInv, LinkInv PROVE AlarmsExplained
    OBVIOUS
  <2>1. ASSUME NEW r \in understood
        PROVE  FindingsOnReading(fact[r]) \subseteq Found(fact[r].blank, "a1_embedding_all_zero")
    <3>1. r \in Made
      BY DEF TypeInv, ReportsOK, Legible
    <3> QED
      BY <3>1, FactFields
  <2>2. ASSUME Sole, Calm, NEW p \in linked, FindingsOnLink(p) # {}
        PROVE  /\ p.decision = "candidate_link"
               /\ ~Adjudicate(p.components)
               /\ FindingsOnLink(p) = {"a2_report_already_linked_elsewhere"}
    <3> DEFINE elsewhere == /\ p.incident # NoIncident
                            /\ home[p.report] \notin {NoIncident, p.incident}
    <3>1. Decided(p) /\ p.report \in Reports /\ p.decision \in Decisions
      BY DEF LinkInv, TypeInv, ReportsOK, Legible
    <3>2. p.decision = DecisionFor(p.score)
      BY <3>1 DEF Decided
    <3>3. ~(p.incident # NoIncident /\ rows[p.incident].category # fact[p.report].category)
      BY DEF CategoryInv, OneCategory
    <3>4. FindingsOnLink(p) = Found(elsewhere, "a2_report_already_linked_elsewhere")
      BY <3>2, <3>3 DEF FindingsOnLink, Found
    <3>5. elsewhere /\ FindingsOnLink(p) = {"a2_report_already_linked_elsewhere"}
      BY <2>2, <3>4 DEF Found
    <3>6. ~Binding(p)
      BY <2>2, <3>1, <3>5 DEF LinkInv
    <3> QED
      BY <3>1, <3>5, <3>6 DEF Binding, Decided, Decisions
  <2> QED
    BY <2>1, <2>2 DEF AlarmsExplained
<1> QED
  BY <1>1, TypeInvAlways, FactAlways, CategoryAlways, LinkAlways, PTL

\* How a step may change the rows: it seeds one, recomputes one or marks one.
Seeding(w) ==
  /\ Attach(w) /\ target[w] = NoIncident
  /\ rows' = Append(rows, Placeholder(job[w].report))

Recomputing(w) ==
  /\ Update(w)
  /\ rows' = [rows EXCEPT ![target[w]] = Recomputed(rows[target[w]], agg[w])]

Banding(i, b) ==
  /\ Prioritise(i) /\ b = BandOf[Signals(i, FirstFor(updates, i))]
  /\ rows' = [rows EXCEPT ![i] = [rows[i] EXCEPT !.band = b]]

Routing(i, b) ==
  /\ Route(i)
  /\ rows' = [rows EXCEPT ![i] = [rows[i] EXCEPT !.route = b]]

\* And in no other way.
LEMMA RowSteps ==
  ASSUME TypeInv, [Next]_vars
  PROVE  \/ UNCHANGED rows
         \/ \E w \in workers : Seeding(w) \/ Recomputing(w)
         \/ \E i \in Ids : \E b : Banding(i, b) \/ Routing(i, b)
<1> USE DEF Seeding, Recomputing, Banding, Routing
<1> DEFINE Goal == \/ UNCHANGED rows
                   \/ \E w \in workers : Seeding(w) \/ Recomputing(w)
                   \/ \E i \in Ids : \E b : Banding(i, b) \/ Routing(i, b)
<1>1. CASE A1Step \/ A2Step
  BY <1>1 DEF A1Step, A2Step, Perceive, SkipUnreadable, Propose
<1>2. ASSUME NEW w \in workers, A3Step(w) \/ Crash(w) PROVE Goal
  <2>1. CASE Attach(w)
    <3>1. CASE target[w] = NoIncident
      BY <2>1, <3>1 DEF Attach
    <3>2. CASE target[w] # NoIncident
      BY <2>1, <3>2 DEF Attach
    <3> QED
      BY <3>1, <3>2
  <2>2. CASE Update(w)
    BY <2>2 DEF Update
  <2> QED
    BY <1>2, <2>1, <2>2 DEF A3Step, Decide, Aggregate, NothingToUpdate, PublishUpdate, Crash
<1>3. CASE A4Step
  <2>1. ASSUME NEW i \in Ids, Prioritise(i) PROVE Goal
    <3> DEFINE b == BandOf[Signals(i, FirstFor(updates, i))]
    <3>1. rows' = [rows EXCEPT ![i].band = b]
      BY <2>1 DEF Prioritise
    <3>2. b = BandOf[Signals(i, FirstFor(updates, i))]
      OBVIOUS
    <3> HIDE DEF b
    <3>3. rows' = [rows EXCEPT ![i] = [rows[i] EXCEPT !.band = b]]
      BY <3>1
    <3> QED
      BY <2>1, <3>2, <3>3
  <2> QED
    BY <1>3, <2>1 DEF A4Step, SkipVanished
<1>4. CASE A5Step
  <2>1. ASSUME NEW i \in Ids, Route(i) PROVE Goal
    <3> DEFINE b == FirstFor(priorities, i).band
    <3>1. rows' = [rows EXCEPT ![i].route = b] \/ rows' = rows
      BY <2>1 DEF Route
    <3> HIDE DEF b
    <3>2. rows' = [rows EXCEPT ![i].route = b] =>
            rows' = [rows EXCEPT ![i] = [rows[i] EXCEPT !.route = b]]
      OBVIOUS
    <3> QED
      BY <2>1, <3>1, <3>2
  <2> QED
    BY <1>4, <2>1 DEF A5Step
<1>5. CASE UNCHANGED vars
  BY <1>5 DEF vars
<1> QED
  BY <1>1, <1>2, <1>3, <1>4, <1>5 DEF Next

\* The report that seeded an incident is never forgotten.
LEMMA SeedsStay ==
  ASSUME TypeInv, [Next]_vars
  PROVE  \A i \in Ids : rows'[i].seed = rows[i].seed
<1>1. RowsOK /\ IsSeq(rows) /\ Ids = DOMAIN rows /\ workers \subseteq Workers
  BY DEF TypeInv, RowsOK, ReportsOK, Ids
<1>2. CASE UNCHANGED rows
  BY <1>2
<1>3. ASSUME NEW r, rows' = Append(rows, Placeholder(r))
      PROVE  \A i \in Ids : rows'[i].seed = rows[i].seed
  <2> DEFINE e == Placeholder(r)
  <2>1. rows' = Append(rows, e)
    BY <1>3
  <2> HIDE DEF e
  <2> QED
    BY <1>1, <2>1, SeqAppend
<1>4. ASSUME NEW i \in Ids, NEW x, rows' = [rows EXCEPT ![i] = x], x.seed = rows[i].seed
      PROVE  \A j \in Ids : rows'[j].seed = rows[j].seed
  BY <1>1, <1>4, SeqReplace
<1>5. ASSUME NEW w \in workers, Update(w),
             rows' = [rows EXCEPT ![target[w]] = Recomputed(rows[target[w]], agg[w])]
      PROVE  \A j \in Ids : rows'[j].seed = rows[j].seed
  <2> DEFINE t == target[w]
             x == Recomputed(rows[t], agg[w])
  <2>1. t \in Ids
    BY <1>1, <1>5 DEF Update, TypeInv, WorkersOK
  <2>2. rows' = [rows EXCEPT ![t] = x]
    BY <1>5
  <2>3. x.seed = rows[t].seed
    BY <1>1, <2>1, RecomputedPlace DEF RowsOK
  <2> HIDE DEF t, x
  <2> QED
    BY <1>4, <2>1, <2>2, <2>3
<1>6. ASSUME NEW i \in Ids, NEW b,
             \/ rows' = [rows EXCEPT ![i] = [rows[i] EXCEPT !.band = b]]
             \/ rows' = [rows EXCEPT ![i] = [rows[i] EXCEPT !.route = b]]
      PROVE  \A j \in Ids : rows'[j].seed = rows[j].seed
  <2> DEFINE x == [rows[i] EXCEPT !.band = b]
             y == [rows[i] EXCEPT !.route = b]
  <2>1. x.seed = rows[i].seed /\ y.seed = rows[i].seed
    BY <1>1, MarkedRow DEF RowsOK
  <2>2. rows' = [rows EXCEPT ![i] = x] \/ rows' = [rows EXCEPT ![i] = y]
    BY <1>6
  <2> HIDE DEF x, y
  <2> QED
    BY <1>4, <2>1, <2>2
<1> QED
  BY <1>2, <1>3, <1>5, <1>6, RowSteps DEF Seeding, Recomputing, Banding, Routing

-----------------------------------------------------------------------------
(* The floor of a life-safety report.  The invariant: A5 and A4 aside, an      *)
(* incident keeps the report that seeded it, for with one consumer and no     *)
(* fault no report moves, so that the report's flags are among those A4 reads *)
(* whenever it looks; and the counts in a message are in A4's range.          *)

\* The worst of some severities is one of them.
LEMMA WorstIsOne ==
  ASSUME NEW S \in SUBSET (1 .. 5), S # {}
  PROVE  Max(S) \in S
<1> DEFINE T == {5 - x : x \in S}
<1>1. T \in SUBSET Nat /\ T # {}
  <2>1. ASSUME NEW x \in S PROVE x \in 1 .. 5
    OBVIOUS
  <2>2. ASSUME NEW x \in 1 .. 5 PROVE 5 - x \in Nat
    BY SMT
  <2> QED
    BY <2>1, <2>2
<1>2. PICK m \in T : \A y \in T : m <= y
  BY <1>1, LeastNumber
<1>3. PICK x \in S : m = 5 - x
  BY <1>2
<1>4. \A y \in S : x >= y
  BY <1>2, <1>3
<1> QED
  BY <1>3, <1>4 DEF Max

\* Reports come from no more devices than there are reports.
LEMMA FewDevices ==
  ASSUME NEW rs \in SUBSET Reports
  PROVE  /\ Cardinality(rs) \in 0 .. Cardinality(Reports)
         /\ Cardinality({fact[r].device : r \in rs}) \in 0 .. Cardinality(Reports)
<1> DEFINE devices == {fact[r].device : r \in rs}
           f == [r \in rs |-> fact[r].device]
<1>1. /\ IsFiniteSet(rs) /\ Cardinality(rs) \in Nat /\ Cardinality(Reports) \in Nat
      /\ Cardinality(rs) <= Cardinality(Reports)
  BY IncidentsAssumption, FS_Subset, FS_CardinalityType
<1>2. f \in Surjection(rs, devices)
  BY DEF Surjection
<1> HIDE DEF f, devices
<1>3. IsFiniteSet(devices) /\ Cardinality(devices) <= Cardinality(rs)
  BY <1>1, <1>2, FS_Surjection
<1>4. Cardinality(devices) \in Nat
  BY <1>3, FS_CardinalityType
<1> QED
  BY <1>1, <1>3, <1>4 DEF devices

ReportersInv ==
  \A k \in DOMAIN updates : updates[k].reporters \in 0 .. Cardinality(Reports)

\* The count in a message is one that so many reports can have.
LEMMA ReportersAlways == Spec => []ReportersInv
<1>1. Init => ReportersInv
  <2> SUFFICES ASSUME Init PROVE ReportersInv
    OBVIOUS
  <2>1. updates = << >>
    BY DEF Init
  <2>2. DOMAIN updates = {}
    BY <2>1
  <2> QED
    BY <2>2 DEF ReportersInv
<1>2. ASSUME TypeInv, ReportersInv, [Next]_vars PROVE ReportersInv'
  <2> USE DEF TypeInv
  <2>1. CASE UNCHANGED updates
    BY <1>2, <2>1 DEF ReportersInv
  <2>2. ASSUME NEW w \in workers, PublishUpdate(w) PROVE ReportersInv'
    <3> DEFINE n == Cardinality({fact[r].device : r \in agg[w]})
               m == [incident |-> target[w], members |-> agg[w], reporters |-> n]
    <3>1. w \in Workers /\ agg[w] \in SUBSET Reports
      BY <1>2 DEF ReportsOK, WorkersOK
    <3>2. n \in 0 .. Cardinality(Reports)
      BY <3>1, FewDevices
    <3>3. updates' = Append(updates, m)
      BY <2>2 DEF PublishUpdate
    <3> HIDE DEF n
    <3>4. m.reporters \in 0 .. Cardinality(Reports)
      BY <3>2
    <3> HIDE DEF m
    <3>5. IsSeq(updates)
      BY <1>2 DEF TopicsOK
    <3>6. /\ DOMAIN updates' = 1 .. Len(updates) + 1 /\ Len(updates) \in Nat
          /\ DOMAIN updates = 1 .. Len(updates)
          /\ \A k \in DOMAIN updates : updates'[k] = updates[k]
          /\ updates'[Len(updates) + 1] = m
      BY <3>3, <3>5, SeqAppend, SeqDomain
    <3>7. \A k \in DOMAIN updates' : k \in DOMAIN updates \/ k = Len(updates) + 1
      BY <3>6
    <3> QED
      BY <1>2, <3>4, <3>6, <3>7 DEF ReportersInv
  <2>3. ASSUME NEW w \in workers, A3Step(w) \/ Crash(w), ~PublishUpdate(w)
        PROVE  UNCHANGED updates
    BY <2>3 DEF A3Step, Decide, Attach, Aggregate, Update, NothingToUpdate, Crash, topics
  <2>4. CASE A1Step \/ A2Step \/ A4Step \/ A5Step \/ UNCHANGED vars
    BY <2>1, <2>4 DEF A1Step, A2Step, A4Step, A5Step, Perceive, SkipUnreadable, Propose,
                      Prioritise, SkipVanished, Route, vars, topics
  <2> QED
    BY <1>2, <2>1, <2>2, <2>3, <2>4 DEF Next
<1> QED
  BY <1>1, <1>2, TypeInvAlways, PTL DEF Spec

\* A4's reading of an incident whose members were made is in the table of bands, and
\* a life-safety flag among the members' own makes it critical.
LEMMA BandOfMembers ==
  ASSUME FactInv, NEW i, Members(i) # {}, Members(i) \subseteq Made, NEW u,
         u.reporters \in 0 .. Cardinality(Reports)
  PROVE  /\ BandOf[Signals(i, u)] = Prioritized(Signals(i, u)).band
         /\ LifeSafety(UNION {fact[r].hazards : r \in Members(i)})
              => BandOf[Signals(i, u)] = "critical"
<1> DEFINE flags == UNION {fact[r].hazards : r \in Members(i)}
           S == {fact[r].severity : r \in Members(i)}
           names == HAZARD_KEYWORDS \cup {"local"}
           top == Cardinality(Reports)
           m == Max(S)
           n == Cardinality(Members(i))
           v == u.reporters
           s == [ flags |-> flags, severity |-> m, road |-> "local", poi |-> NoPoi,
                  reporters |-> v, age |-> 0, recent |-> n, older |-> 0, span |-> 1 ]
<1>1. Signals(i, u) = s
  BY DEF Signals
<1>2. S \in SUBSET (1 .. 5) /\ S # {}
  BY FactFields
<1>3. m \in 1 .. 5
  BY <1>2, WorstIsOne
<1>4. flags \subseteq KnownHazards /\ flags \subseteq names /\ "local" \in names
  BY FactFields
<1>5. n \in 0 .. top /\ v \in 0 .. top /\ top \in Nat
  <2>1. Members(i) \in SUBSET Reports
    BY DEF Members
  <2> QED
    BY <2>1, FewDevices, IncidentsAssumption, FS_CardinalityType
<1>6. /\ SignalSpace = [ flags : SUBSET KnownHazards, severity : 1 .. 5, road : {"local"},
                         poi : {NoPoi}, reporters : 0 .. top, age : {0},
                         recent : 0 .. top, older : {0}, span : {1} ]
      /\ s.flags = flags
  BY DEF SignalSpace, KnownHazards
<1> HIDE DEF flags, S, names, top, m, n, v
<1>7. s \in SignalSpace
  BY <1>3, <1>4, <1>5, <1>6
<1>8. s \in SignalRecords(names)
  BY <1>3, <1>4, <1>5 DEF SignalRecords
<1> HIDE DEF s
<1>9. BandOf[s] = Prioritized(s).band
  BY <1>7 DEF BandOf
<1>10. LifeSafety(flags) => BandOf[s] = "critical"
  BY <1>6, <1>8, <1>9, LifeSafetyIsCritical
<1> QED
  BY <1>1, <1>9, <1>10 DEF flags

SeedInv ==
  Sole /\ Calm =>
    \A i \in Ids : /\ rows[i].seed \in Made /\ home[rows[i].seed] = i
                   /\ LifeSafety(fact[rows[i].seed].named) => rows[i].band \in {"none", "critical"}

\* With one consumer and no fault, A3 attaches only what has no home yet.
LEMMA AttachesHomeless ==
  ASSUME TypeInv, DoneInv, CountInv, Sole, Calm, NEW w \in Workers, pc[w] = "attach"
  PROVE  home[job[w].report] = NoIncident
<1> USE DEF TypeInv
<1>1. job[w].report \in Reports /\ job[w].report \notin done
  BY JobIsProposal DEF DoneInv
<1>2. ASSUME NEW v \in Workers, pc[v] \in Attached PROVE FALSE
  <2>1. v = w
    BY <1>2, SoleIsAlone DEF Attached
  <2> QED
    BY <1>2, <2>1 DEF Attached
<1> QED
  BY <1>1, <1>2 DEF CountInv

\* So no report that has a home ever moves.
LEMMA HomesStay ==
  ASSUME TypeInv, DoneInv, CountInv, Sole, Calm, [Next]_vars
  PROVE  \A r \in Reports : home[r] # NoIncident => home'[r] = home[r]
<1> USE DEF TypeInv
<1>1. ASSUME NEW w \in workers, Attach(w)
      PROVE  \A r \in Reports : home[r] # NoIncident => home'[r] = home[r]
  <2> DEFINE i == IF target[w] = NoIncident THEN Len(rows) + 1 ELSE target[w]
  <2>1. w \in Workers /\ pc[w] = "attach" /\ home' = [home EXCEPT ![job[w].report] = i]
    BY <1>1 DEF Attach, ReportsOK
  <2> HIDE DEF i
  <2>2. home[job[w].report] = NoIncident /\ job[w].report \in Reports
    BY <2>1, AttachesHomeless, JobIsProposal
  <2> QED
    BY <2>1, <2>2 DEF ReportsOK
<1>2. ASSUME NEW w \in workers, A3Step(w) \/ Crash(w), ~Attach(w) PROVE home' = home
  BY <1>2 DEF A3Step, Decide, Aggregate, Update, NothingToUpdate, PublishUpdate, Crash,
              reportVars
<1>3. CASE A1Step \/ A2Step \/ A4Step \/ A5Step \/ UNCHANGED vars
  <2>1. home' = home
    BY <1>3 DEF A1Step, A2Step, A4Step, A5Step, Perceive, SkipUnreadable, Propose,
                Prioritise, SkipVanished, Route, vars, reportVars
  <2> QED
    BY <2>1
<1> QED
  BY <1>1, <1>2, <1>3 DEF Next

\* A step keeps the seeds where they are, and their incidents' bands.
LEMMA SeedStep ==
  ASSUME TypeInv, FactInv, ReportersInv, DoneInv, CountInv, LinkInv, SeedInv, [Next]_vars
  PROVE  SeedInv'
<1> USE DEF TypeInv
<1>1. SUFFICES ASSUME Sole', Calm' PROVE SeedInv'
  BY DEF SeedInv
<1> DEFINE Mild(b) == b \in {"none", "critical"}
           Seeded(i) == rows[i].seed \in Made /\ home[rows[i].seed] = i
           Safe(i) == LifeSafety(fact[rows[i].seed].named) => Mild(rows[i].band)
<1>2. /\ Sole /\ Calm /\ UNCHANGED fact /\ UNCHANGED workers /\ NoIncident \notin Ids
      /\ IsSeq(rows) /\ Ids = DOMAIN rows /\ Ids' = DOMAIN rows' /\ workers \subseteq Workers
      /\ Made \subseteq Reports /\ Ids \subseteq Ids'
  <2>1. NoIncident \notin Ids
    BY SeqDomain DEF RowsOK, Ids, NoIncident
  <2> QED
    BY <1>1, <2>1, ConfigStays, CalmBefore, RowsGrow DEF config, ReportsOK, RowsOK, Ids, Sole
<1>3. \A i \in Ids : Seeded(i) /\ Safe(i)
  BY <1>2 DEF SeedInv
<1>4. SUFFICES \A i \in Ids' : Seeded(i)' /\ Safe(i)'
  BY DEF SeedInv
<1>5. ASSUME NEW i \in Ids PROVE Seeded(i)' /\ rows'[i].seed = rows[i].seed
  <2>1. rows'[i].seed = rows[i].seed
    BY SeedsStay
  <2>2. rows[i].seed \in Reports /\ home[rows[i].seed] = i /\ i # NoIncident
    BY <1>2, <1>3
  <2>3. home'[rows[i].seed] = i
    BY <1>2, <2>2, HomesStay
  <2>4. Made' = Made
    BY <1>2 DEF Made
  <2> QED
    BY <1>3, <2>1, <2>3, <2>4
<1>6. ASSUME NEW i \in Ids, rows'[i].band = rows[i].band \/ Mild(rows'[i].band) PROVE Safe(i)'
  BY <1>2, <1>3, <1>5, <1>6
<1>7. CASE rows' = rows
  BY <1>2, <1>5, <1>6, <1>7
<1>8. ASSUME NEW w \in workers, Attach(w), target[w] = NoIncident,
             rows' = Append(rows, Placeholder(job[w].report))
      PROVE  \A i \in Ids' : Seeded(i)' /\ Safe(i)'
  <2> DEFINE r == job[w].report
             e == Placeholder(r)
  <2>0. PICK n \in Nat : n = Len(rows) + 1
    BY <1>2, SeqDomain
  <2>1. w \in Workers /\ pc[w] = "attach" /\ home' = [home EXCEPT ![r] = n]
    BY <1>2, <1>8, <2>0 DEF Attach
  <2>2. r \in Made /\ r \in Reports
    BY <2>1, JobIsProposal
  <2>3. e.seed = r /\ e.band = "none"
    BY DEF Placeholder
  <2>4. rows' = Append(rows, e)
    BY <1>8
  <2> HIDE DEF e, r
  <2>5. /\ DOMAIN rows' = 1 .. Len(rows) + 1 /\ Len(rows) \in Nat
        /\ DOMAIN rows = 1 .. Len(rows)
        /\ \A k \in DOMAIN rows : rows'[k] = rows[k]
        /\ rows'[n] = e
    BY <1>2, <2>0, <2>4, SeqAppend, SeqDomain
  <2>6. \A k \in DOMAIN rows' : k \in DOMAIN rows \/ k = n
    BY <2>0, <2>5
  <2>7. home'[r] = n
    BY <2>1, <2>2 DEF ReportsOK
  <2>8. Made' = Made
    BY <1>2 DEF Made
  <2>9. Seeded(n)' /\ Safe(n)'
    <3>1. rows'[n].seed = r /\ rows'[n].band = "none"
      BY <2>3, <2>5
    <3>2. Seeded(n)'
      BY <2>2, <2>7, <2>8, <3>1
    <3>3. Safe(n)'
      BY <3>1
    <3> QED
      BY <3>2, <3>3
  <2>10. ASSUME NEW k \in Ids PROVE Seeded(k)' /\ Safe(k)'
    BY <1>2, <1>5, <1>6, <2>5
  <2>11. \A k \in Ids' : k \in Ids \/ k = n
    BY <1>2, <2>6
  <2> HIDE DEF Seeded, Safe
  <2> QED
    BY <2>9, <2>10, <2>11
<1>9. ASSUME NEW i \in Ids, NEW x, rows' = [rows EXCEPT ![i] = x],
             x.band = rows[i].band
               \/ (LifeSafety(fact[rows[i].seed].named) => Mild(x.band))
      PROVE  \A j \in Ids' : Seeded(j)' /\ Safe(j)'
  <2>1. /\ DOMAIN rows' = DOMAIN rows
        /\ \A k \in DOMAIN rows : rows'[k] = IF k = i THEN x ELSE rows[k]
    BY <1>2, <1>9, SeqReplace
  <2>2. ASSUME NEW j \in Ids PROVE Seeded(j)' /\ Safe(j)'
    <3>1. CASE j # i
      BY <1>2, <1>5, <1>6, <2>1, <3>1
    <3>2. CASE j = i /\ x.band = rows[i].band
      BY <1>2, <1>5, <1>6, <2>1, <3>2
    <3>3. CASE j = i /\ (LifeSafety(fact[rows[i].seed].named) => Mild(x.band))
      BY <1>2, <1>5, <2>1, <3>3
    <3> QED
      BY <1>9, <3>1, <3>2, <3>3
  <2> QED
    BY <1>2, <2>1, <2>2
<1>10. ASSUME NEW w \in workers, Update(w),
              rows' = [rows EXCEPT ![target[w]] = Recomputed(rows[target[w]], agg[w])]
       PROVE  \A j \in Ids' : Seeded(j)' /\ Safe(j)'
  <2> DEFINE t == target[w]
             x == Recomputed(rows[t], agg[w])
  <2>1. t \in Ids
    BY <1>2, <1>10 DEF Update, WorkersOK
  <2>2. rows' = [rows EXCEPT ![t] = x]
    BY <1>10
  <2>3. x.band = rows[t].band
    BY <2>1, RecomputedRow DEF RowsOK
  <2> HIDE DEF t, x
  <2> QED
    BY <1>9, <2>1, <2>2, <2>3
<1>11. ASSUME NEW i \in Ids, NEW b, Prioritise(i),
              b = BandOf[Signals(i, FirstFor(updates, i))],
              rows' = [rows EXCEPT ![i] = [rows[i] EXCEPT !.band = b]]
       PROVE  \A j \in Ids' : Seeded(j)' /\ Safe(j)'
  <2> DEFINE u == FirstFor(updates, i)
             x == [rows[i] EXCEPT !.band = b]
             s == rows[i].seed
             flags == UNION {fact[r].hazards : r \in Members(i)}
  <2>1. u.reporters \in 0 .. Cardinality(Reports)
    <3>1. IsSeq(updates) /\ Heard(updates, i)
      BY <1>11 DEF Prioritise, TopicsOK
    <3> QED
      BY <3>1, FirstIsHeard DEF ReportersInv
  <2>2. s \in Members(i) /\ s \in Made
    BY <1>2, <1>3 DEF Members
  <2>3. Members(i) \subseteq Made
    <3>1. ASSUME NEW r \in Members(i) PROVE r \in Made
      <4>1. r \in Reports /\ home[r] # NoIncident
        BY <1>2, <3>1 DEF Members
      <4>2. r \in proposed
        BY <1>2, <4>1 DEF LinkInv
      <4> QED
        BY <4>2 DEF ReportsOK
    <3> QED
      BY <3>1
  <2>4. LifeSafety(fact[s].named) => LifeSafety(flags)
    BY <2>2, FactFields DEF LifeSafety
  <2> HIDE DEF u
  <2>5. LifeSafety(flags) => b = "critical"
    <3>1. Members(i) # {}
      BY <2>2
    <3>2. LifeSafety(flags) => BandOf[Signals(i, u)] = "critical"
      BY <2>1, <2>3, <3>1, BandOfMembers
    <3> QED
      BY <1>11, <3>2 DEF u
  <2>6. x.band = b
    BY MarkedRow DEF RowsOK
  <2>7. rows' = [rows EXCEPT ![i] = x]
    BY <1>11
  <2> HIDE DEF x, flags
  <2> QED
    BY <1>9, <2>4, <2>5, <2>6, <2>7
<1>12. ASSUME NEW i \in Ids, NEW b, rows' = [rows EXCEPT ![i] = [rows[i] EXCEPT !.route = b]]
       PROVE  \A j \in Ids' : Seeded(j)' /\ Safe(j)'
  <2> DEFINE x == [rows[i] EXCEPT !.route = b]
  <2>1. x.band = rows[i].band
    BY MarkedRow DEF RowsOK
  <2>2. rows' = [rows EXCEPT ![i] = x]
    BY <1>12
  <2> HIDE DEF x
  <2> QED
    BY <1>9, <2>1, <2>2
<1> QED
  BY <1>7, <1>8, <1>10, <1>11, <1>12, RowSteps DEF Seeding, Recomputing, Banding, Routing

\* With one consumer and no fault, an incident seeded by a report whose words name a
\* life-safety hazard is critical from its first score on (a4_priority:279): the
\* report stays a member, and A1 passes the hazard on for A4 to floor.
THEOREM SeedsKeepTheFloor == Spec => []SeedFloored
<1>1. Init => SeedInv
  <2> SUFFICES ASSUME Init PROVE SeedInv
    OBVIOUS
  <2>1. rows = << >>
    BY DEF Init
  <2>2. DOMAIN rows = {}
    BY <2>1
  <2> QED
    BY <2>2 DEF SeedInv, Ids
<1>2. TypeInv /\ FactInv /\ ReportersInv /\ DoneInv /\ CountInv /\ LinkInv /\ SeedInv
        /\ [Next]_vars => SeedInv'
  BY SeedStep
<1>3. SeedInv => SeedFloored
  BY DEF SeedInv, SeedFloored
<1> QED
  BY <1>1, <1>2, <1>3, TypeInvAlways, FactAlways, ReportersAlways, DoneAlways, CountAlways,
     LinkAlways, PTL DEF Spec

-----------------------------------------------------------------------------
(* What A3 and A2 compute, on reports of one place, day and wording, and on   *)
(* others.                                                                    *)

\* As many values as there are elements, at most.
LEMMA ImageIsFinite ==
  ASSUME NEW S, IsFiniteSet(S), NEW f, DOMAIN f = S
  PROVE  IsFiniteSet({f[x] : x \in S})
<1> DEFINE T == {f[x] : x \in S}
           g == [x \in S |-> f[x]]
<1>1. g \in Surjection(S, T)
  BY DEF Surjection
<1> HIDE DEF T, g
<1>2. IsFiniteSet(T)
  BY <1>1, FS_Surjection
<1> QED
  BY <1>2 DEF T

\* A finite set of numbers that is not empty has a least and a greatest one.
LEMMA Extremes ==
  ASSUME NEW S \in SUBSET Int, IsFiniteSet(S), S # {}
  PROVE  Max(S) \in S /\ Min(S) \in S
<1> DEFINE Good(s) == s # {} => /\ \E x \in s : \A y \in s : x >= y
                                /\ \E x \in s : \A y \in s : x <= y
           bad == {s \in SUBSET S : ~Good(s)}
<1>1. bad = {}
  <2> SUFFICES ASSUME bad # {} PROVE FALSE
    OBVIOUS
  <2>1. PICK s \in bad : \A x \in s : s \ {x} \notin bad
    BY SmallestSubset
  <2>2. s # {} /\ s \in SUBSET Int
    OBVIOUS
  <2>3. PICK a \in s : TRUE
    BY <2>2
  <2>4. a \in Int /\ Good(s \ {a})
    BY <2>1, <2>2, <2>3
  <2>5. CASE s = {a}
    <3>1. Good(s)
      BY <2>4, <2>5
    <3> QED
      BY <3>1
  <2>6. CASE s # {a}
    <3>1. s \ {a} # {}
      BY <2>2, <2>6
    <3>2. PICK u \in s \ {a} : \A y \in s \ {a} : u >= y
      BY <2>4, <3>1
    <3>3. PICK d \in s \ {a} : \A y \in s \ {a} : d <= y
      BY <2>4, <3>1
    <3>4. u \in Int /\ d \in Int /\ \A y \in s : y \in Int
      BY <2>2
    <3>5. \E x \in s : \A y \in s : x >= y
      <4>1. CASE u >= a
        BY <3>2, <4>1
      <4>2. CASE ~(u >= a)
        <5>1. \A y \in s : a >= y
          BY <2>4, <3>2, <3>4, <4>2
        <5> QED
          BY <2>3, <5>1
      <4> QED
        BY <4>1, <4>2
    <3>6. \E x \in s : \A y \in s : x <= y
      <4>1. CASE d <= a
        BY <3>3, <4>1
      <4>2. CASE ~(d <= a)
        <5>1. \A y \in s : a <= y
          BY <2>4, <3>3, <3>4, <4>2
        <5> QED
          BY <2>3, <5>1
      <4> QED
        BY <4>1, <4>2
    <3> QED
      BY <3>5, <3>6
  <2> QED
    BY <2>5, <2>6
<1>2. /\ \E x \in S : \A y \in S : x >= y
      /\ \E x \in S : \A y \in S : x <= y
  BY <1>1
<1> QED
  BY <1>2 DEF Max, Min

\* Of one number, it is both.
LEMMA ExtremesOfOne ==
  ASSUME NEW n \in Int PROVE Max({n}) = n /\ Min({n}) = n
  BY DEF Max, Min

\* The centroid is a quotient of two sums over the members.
LEMMA CentroidIsQuotient ==
  ASSUME FactInv, NEW rs \in SUBSET Reports, rs \subseteq Made
  PROVE  \E F, G : /\ IsSum(F, rs, [r \in rs |-> fact[r].weight])
                   /\ IsSum(G, rs, [r \in rs |-> fact[r].spot * fact[r].weight])
                   /\ Centroid(rs) = G[rs] \div F[rs]
<1> DEFINE g == [r \in rs |-> fact[r].weight]
           h == [r \in rs |-> fact[r].spot * fact[r].weight]
<1>1. IsFiniteSet(rs)
  BY IncidentsAssumption, FS_Subset
<1>2. g \in [rs -> Int] /\ h \in [rs -> Int]
  <2>1. ASSUME NEW r \in rs PROVE fact[r].weight \in Int /\ fact[r].spot * fact[r].weight \in Int
    <3>1. fact[r].weight \in Int /\ fact[r].spot \in Int
      BY FactFields
    <3> QED
      BY <3>1
  <2> QED
    BY <2>1
<1>3. PICK F : IsSum(F, rs, g)
  BY <1>1, <1>2, SumExists
<1>4. PICK G : IsSum(G, rs, h)
  BY <1>1, <1>2, SumExists
<1> DEFINE Light(f) == [s \in SUBSET rs |->
                          IF s = {} THEN 0 ELSE fact[Any(s)].weight + f[s \ {Any(s)}]]
           Heavy(f) == [s \in SUBSET rs |->
                          IF s = {} THEN 0
                          ELSE fact[Any(s)].spot * fact[Any(s)].weight + f[s \ {Any(s)}]]
           K == CHOOSE f : f = Light(f)
           L == CHOOSE f : f = Heavy(f)
<1>5. Centroid(rs) = L[rs] \div K[rs]
  <2>1. MapThenSumSet(LAMBDA r : fact[r].weight, rs) = K[rs]
    BY SMT DEF MapThenSumSet, MapThenFoldSet, Any
  <2>2. MapThenSumSet(LAMBDA r : fact[r].spot * fact[r].weight, rs) = L[rs]
    BY SMT DEF MapThenSumSet, MapThenFoldSet, Any
  <2> HIDE DEF K, L
  <2> QED
    BY <2>1, <2>2, Zenon DEF Centroid
<1>6. K = CHOOSE f : f = Light(f)
  OBVIOUS
<1>7. L = CHOOSE f : f = Heavy(f)
  OBVIOUS
<1>8. \A s \in SUBSET rs : s # {} => /\ g[Any(s)] = fact[Any(s)].weight
                                     /\ h[Any(s)] = fact[Any(s)].spot * fact[Any(s)].weight
  BY DEF Any
<1>9. F = Light(F)
  BY <1>3, <1>8 DEF IsSum
<1>10. G = Heavy(G)
  BY <1>4, <1>8 DEF IsSum
<1> HIDE DEF K, L, Light, Heavy, g, h
<1>11. K = Light(K)
  BY <1>6, <1>9
<1>12. L = Heavy(L)
  BY <1>7, <1>10
<1>13. IsSum(K, rs, g)
  <2>1. K = [s \in SUBSET rs |-> IF s = {} THEN 0 ELSE g[Any(s)] + K[s \ {Any(s)}]]
    BY <1>8, <1>11 DEF Light
  <2> QED
    BY <1>1, <1>2, <2>1, SumIsInteger
<1>14. IsSum(L, rs, h)
  <2>1. L = [s \in SUBSET rs |-> IF s = {} THEN 0 ELSE h[Any(s)] + L[s \ {Any(s)}]]
    BY <1>8, <1>12 DEF Heavy
  <2> QED
    BY <1>1, <1>2, <2>1, SumIsInteger
<1> QED
  BY <1>5, <1>13, <1>14 DEF g, h

\* The centroid of some reports is a place, and that of reports of one place is it.
LEMMA CentroidIsPlace ==
  ASSUME FactInv, NEW rs \in SUBSET Reports, rs \subseteq Made, rs # {}
  PROVE  /\ Centroid(rs) \in Int
         /\ \A s \in Int : (\A r \in rs : fact[r].spot = s) => Centroid(rs) = s
<1> DEFINE g == [r \in rs |-> fact[r].weight]
           h == [r \in rs |-> fact[r].spot * fact[r].weight]
<1>1. IsFiniteSet(rs)
  BY IncidentsAssumption, FS_Subset
<1>2. PICK F, G : IsSum(F, rs, g) /\ IsSum(G, rs, h) /\ Centroid(rs) = G[rs] \div F[rs]
  BY CentroidIsQuotient
<1>3. /\ g \in [rs -> Nat] /\ g \in [rs -> Int] /\ h \in [rs -> Int]
      /\ \A r \in rs : g[r] > 0 /\ h[r] = fact[r].spot * g[r]
  <2>1. ASSUME NEW r \in rs
        PROVE  /\ fact[r].weight \in Nat /\ fact[r].weight > 0
               /\ fact[r].weight \in Int /\ fact[r].spot * fact[r].weight \in Int
    <3>1. fact[r].weight \in Nat \ {0} /\ fact[r].spot \in Int
      BY FactFields
    <3> QED
      BY <3>1
  <2> QED
    BY <2>1
<1> HIDE DEF g, h
<1>4. F[rs] \in Nat /\ F[rs] > 0
  BY <1>1, <1>2, <1>3, SumIsNatural
<1>5. G[rs] \in Int
  BY <1>2 DEF IsSum
<1>6. Centroid(rs) \in Int
  BY <1>2, <1>4, <1>5
<1>7. ASSUME NEW s \in Int, \A r \in rs : fact[r].spot = s PROVE Centroid(rs) = s
  <2>1. G[rs] = s * F[rs]
    BY <1>1, <1>2, <1>3, <1>7, SumScales
  <2> DEFINE b == F[rs]
  <2>2. (s * b) \div b = s
    <3>1. b \in Nat /\ b > 0
      BY <1>4
    <3> HIDE DEF b
    <3> QED
      BY <3>1, DivideBack
  <2> QED
    BY <1>2, <2>1, <2>2
<1> QED
  BY <1>6, <1>7

\* What `_recompute` writes of reports of one place and day.
LEMMA RecomputedHere ==
  ASSUME FactInv, NEW x, IsRow(x), NEW rs \in SUBSET Reports, rs \subseteq Made, rs # {}
  PROVE  LET y == Recomputed(x, rs)
         IN  /\ y.centroid \in Int /\ y.first \in Int /\ y.last \in Int
             /\ \A s, d \in Int : (\A r \in rs : fact[r].spot = s /\ fact[r].day = d)
                                    => y.centroid = s /\ y.first = d /\ y.last = d
<1> DEFINE days == {fact[r].day : r \in rs}
           y == Recomputed(x, rs)
<1>1. y.centroid = Centroid(rs) /\ y.first = Min(days) /\ y.last = Max(days)
  BY RecomputedPlace
<1> HIDE DEF y
<1>2. days \in SUBSET Int /\ days # {} /\ IsFiniteSet(days)
  <2> DEFINE f == [r \in rs |-> fact[r].day]
  <2>1. IsFiniteSet(rs) /\ DOMAIN f = rs
    BY IncidentsAssumption, FS_Subset
  <2>2. days = {f[r] : r \in rs}
    OBVIOUS
  <2>3. days \in SUBSET Int /\ days # {}
    BY FactFields
  <2> HIDE DEF f, days
  <2>4. IsFiniteSet({f[r] : r \in rs})
    BY <2>1, ImageIsFinite
  <2> QED
    BY <2>2, <2>3, <2>4
<1>3. y.centroid \in Int /\ y.first \in Int /\ y.last \in Int
  <2>1. Min(days) \in days /\ Max(days) \in days
    BY <1>2, Extremes
  <2> QED
    BY <1>1, <1>2, <2>1, CentroidIsPlace
<1>4. ASSUME NEW s \in Int, NEW d \in Int, \A r \in rs : fact[r].spot = s /\ fact[r].day = d
      PROVE  y.centroid = s /\ y.first = d /\ y.last = d
  <2>1. days = {d}
    BY <1>4
  <2> HIDE DEF days
  <2> QED
    BY <1>1, <1>4, <2>1, CentroidIsPlace, ExtremesOfOne
<1> QED
  BY <1>3, <1>4 DEF y

\* Every category has bounds, its own or the defaults.
LEMMA BoundsArePositive ==
  ASSUME NEW k
  PROVE  /\ BoundsFor(k).radius \in Nat /\ BoundsFor(k).radius > 0
         /\ BoundsFor(k).window \in Nat /\ BoundsFor(k).window > 0
<1>1. \A c \in DOMAIN CATEGORY_RADIUS_M : CATEGORY_RADIUS_M[c] \in Nat /\ CATEGORY_RADIUS_M[c] > 0
  BY SMT DEF CATEGORY_RADIUS_M
<1>2. \A c \in DOMAIN CATEGORY_WINDOW_DAYS :
        CATEGORY_WINDOW_DAYS[c] \in Nat /\ CATEGORY_WINDOW_DAYS[c] > 0
  BY SMT DEF CATEGORY_WINDOW_DAYS
<1> QED
  BY <1>1, <1>2 DEF BoundsFor, DEFAULT_RADIUS_M, DEFAULT_WINDOW_DAYS

\* How far apart two whole numbers are.
LEMMA DistanceIsNatural ==
  ASSUME NEW a \in Int, NEW b \in Int
  PROVE  Distance(a, b) \in Nat /\ (a = b => Distance(a, b) = 0)
  BY DEF Distance

\* The falloff is One where there is no distance.
LEMMA FalloffAtZero ==
  ASSUME NEW bound \in Nat, bound > 0 PROVE Falloff(0, bound) = One
<1> DEFINE a == (bound - 0) * One
<1>1. a = One * bound /\ a \in Int
  BY OneIsMillion
<1>2. Falloff(0, bound) = Nearest(a, bound)
  BY DEF Falloff
<1> HIDE DEF a
<1>3. /\ bound \in Nat \ {0} /\ One \in Int
      /\ One * bound <= a /\ a <= One * bound
  BY <1>1, OneIsMillion
<1>4. Nearest(a, bound) \in Int /\ One <= Nearest(a, bound) /\ Nearest(a, bound) <= One
  BY <1>1, <1>3, NearestBounds
<1> QED
  BY <1>2, <1>3, <1>4

\* A candidate that agrees in everything scores One (matching.py:121-140).
LEMMA ScoreOfTwin ==
  ASSUME NEW c, c.visual = NoVisual, c.spatial = One, c.temporal = One, c.semantic = One
  PROVE  Score(c) = One
<1>1. Score(c) = Nearest(85000000, 85)
  BY OneIsMillion DEF Score, WEIGHTS
<1>2. Nearest(85000000, 85) \in Int /\ 1000000 <= Nearest(85000000, 85)
      /\ Nearest(85000000, 85) <= 1000000
  BY NearestBounds
<1> QED
  BY <1>1, <1>2, OneIsMillion

\* One that is too unlike the report is neither linked by its score nor merged by the
\* adjudicator (a3_synthesis:166-210).
LEMMA ScoreOfStranger ==
  ASSUME NEW c, c.visual = NoVisual, c.spatial \in Fractions, c.temporal \in Fractions,
         c.semantic \in Fractions, c.semantic < ADJUDICATION_FLOORS.semantic
  PROVE  /\ Score(c) \in Int /\ Score(c) < AUTO_LINK_THRESHOLD
         /\ ~Adjudicate(c) /\ ~JoinsOnRecheck(c)
<1> DEFINE m == WEIGHTS.spatial * c.spatial + WEIGHTS.temporal * c.temporal
                  + WEIGHTS.semantic * c.semantic
<1>1. /\ c.spatial \in Int /\ 0 <= c.spatial /\ c.spatial <= 1000000
      /\ c.temporal \in Int /\ 0 <= c.temporal /\ c.temporal <= 1000000
      /\ c.semantic \in Int /\ 0 <= c.semantic /\ c.semantic < 250000
  BY FractionsAreIntegers DEF ADJUDICATION_FLOORS
<1>2. m \in Int /\ 0 * 85 <= m /\ m <= 700000 * 85
  BY <1>1 DEF WEIGHTS
<1>3. Score(c) = Nearest(m, 85)
  BY DEF Score, WEIGHTS
<1> HIDE DEF m
<1>4. Nearest(m, 85) \in Int /\ Nearest(m, 85) <= 700000
  BY <1>2, NearestBounds
<1>5. Score(c) \in Int /\ Score(c) < 820000
  BY <1>3, <1>4
<1>6. ~Adjudicate(c)
  BY <1>1 DEF Adjudicate, ADJUDICATION_FLOORS
<1> QED
  BY <1>5, <1>6 DEF JoinsOnRecheck, AUTO_LINK_THRESHOLD

\* The semantic component against members of the report's own wording.
LEMMA SemanticOfTwins ==
  ASSUME NEW x, NEW i, ~fact[x].blank, Members(i) # {},
         fact[x].wording \in DOMAIN Likeness,
         \A m \in Members(i) : ~fact[m].blank /\ fact[m].wording = fact[x].wording
  PROVE  Semantic(x, i) = One
<1> DEFINE alike == {Likeness[fact[x].wording][fact[m].wording] :
                       m \in {n \in Members(i) : ~fact[n].blank}}
<1>1. alike = {One}
  BY LikenessAssumption
<1>2. Semantic(x, i) = Max(alike)
  BY <1>1 DEF Semantic
<1>3. One \in Int
  BY OneIsMillion
<1> HIDE DEF alike
<1> QED
  BY <1>1, <1>2, <1>3, ExtremesOfOne

\* And against members whose wordings are all too far from it.
LEMMA SemanticOfStrangers ==
  ASSUME FactInv, NEW x \in Made, NEW i, ~fact[x].blank, Members(i) \subseteq Made,
         \A m \in Members(i) : /\ ~fact[m].blank
                               /\ Unlike(x, m)
  PROVE  /\ Semantic(x, i) \in Fractions
         /\ Semantic(x, i) < ADJUDICATION_FLOORS.semantic
<1>1. 0 \in Fractions /\ 0 < ADJUDICATION_FLOORS.semantic
  BY FractionsAreIntegers DEF ADJUDICATION_FLOORS
<1>2. CASE Members(i) = {}
  BY <1>1, <1>2 DEF Semantic
<1>3. CASE Members(i) # {}
  <2> DEFINE alike == {Likeness[fact[x].wording][fact[m].wording] :
                         m \in {n \in Members(i) : ~fact[n].blank}}
             f == [m \in Members(i) |-> Likeness[fact[x].wording][fact[m].wording]]
  <2>1. alike = {f[m] : m \in Members(i)}
    OBVIOUS
  <2>2. alike # {} /\ \A v \in alike : v \in Fractions /\ v < ADJUDICATION_FLOORS.semantic
    BY <1>3, FactFields, LikenessAssumption DEF Unlike
  <2>3. IsFiniteSet(Members(i)) /\ DOMAIN f = Members(i)
    BY IncidentsAssumption, FS_Subset DEF Members
  <2>4. Semantic(x, i) = Max(alike)
    BY <1>3, <2>2 DEF Semantic
  <2> HIDE DEF alike, f
  <2>5. IsFiniteSet(alike)
    BY <2>1, <2>3, ImageIsFinite
  <2>6. alike \in SUBSET Int
    BY <2>2, FractionsAreIntegers
  <2>7. Max(alike) \in alike
    BY <2>2, <2>5, <2>6, Extremes
  <2> QED
    BY <2>2, <2>4, <2>7
<1> QED
  BY <1>2, <1>3

-----------------------------------------------------------------------------
(* No twins.  The invariant, with one consumer, about a report r and the       *)
(* reports of the same thing, none of which is near a merge with any other:    *)
(* at most one incident was seeded by one of them; it stays where they are,    *)
(* and its members are they and nobody else.  A proposal or a target that      *)
(* binds A3 respects that, and so does what A3 has read and not yet written.   *)

Twins(r) == {x \in Legible : Same(r, x)}
Ours(r) == {i \in Ids : rows[i].seed \in Twins(r)}

HousedInv ==
  /\ \A x \in Reports : home[x] # NoIncident => x \in understood
  /\ \A x \in done : home[x] # NoIncident
  /\ \A w \in Workers : /\ agg[w] \subseteq understood
                        /\ pc[w] \in Attached => home[job[w].report] # NoIncident

PlaceInv ==
  \A i \in Ids : rows[i].centroid \in Int /\ rows[i].first \in Int /\ rows[i].last \in Int

OneOf(r) == \A i, j \in Ours(r) : i = j

OnSpot(r) ==
  \A i \in Ours(r) : /\ home[rows[i].seed] = i
                     /\ rows[i].centroid = fact[r].spot
                     /\ rows[i].first = fact[r].day /\ rows[i].last = fact[r].day

Apart(r) ==
  \A x \in Reports : home[x] # NoIncident => (x \in Twins(r) <=> home[x] \in Ours(r))

Proposed(r) ==
  \A p \in linked : Binding(p) => (p.report \in Twins(r) <=> p.incident \in Ours(r))

\* Where A3 may take the report of a proposal.
Fits(x, i, r) ==
  /\ i \in Ours(r) => x \in Twins(r)
  /\ x \in Twins(r) => i \in Ours(r) \/ (i = NoIncident /\ Ours(r) = {})

Aimed(r) ==
  \A w \in Workers :
    /\ pc[w] = "attach" => Fits(job[w].report, target[w], r)
    /\ pc[w] = "update" /\ target[w] \in Ours(r) => agg[w] \subseteq Twins(r)

TwinInv(r) == OneOf(r) /\ OnSpot(r) /\ Apart(r) /\ Proposed(r) /\ Aimed(r)

TwinsInv == Sole => \A r \in Legible : Distinct(r) => TwinInv(r)

\* Only what A1 has published gets a home, and what A3 is done with has one.
LEMMA HousedAlways == Spec => []HousedInv
<1>1. Init => HousedInv
  BY DEF Init, HousedInv, Attached
<1>2. ASSUME TypeInv, HousedInv, [Next]_vars PROVE HousedInv'
  <2> USE DEF TypeInv
  <2>1. workers \subseteq Workers /\ UNCHANGED Legible
    BY <1>2, ConfigStays DEF ReportsOK, config, Legible, Made
  <2>2. ASSUME UNCHANGED <<home, agg>>, understood \subseteq understood', done' \subseteq done,
               \A v \in Workers : pc'[v] \in Attached => pc[v] \in Attached /\ job'[v] = job[v]
        PROVE  HousedInv'
    BY <1>2, <2>2 DEF HousedInv
  <2>3. ASSUME NEW w \in workers, A3Step(w) \/ Crash(w) PROVE HousedInv'
    <3>1. w \in Workers
      BY <2>1
    <3>2. ASSUME NEW p \in linked, Decide(w, p) PROVE HousedInv'
      <4>1. /\ pc' = [pc EXCEPT ![w] = "attach"] /\ job' = [job EXCEPT ![w] = p]
            /\ UNCHANGED <<home, agg, understood, done>>
        BY <3>2 DEF Decide, reportVars, topics, keys
      <4>2. pc'[w] = "attach" /\ \A v \in Workers : v # w => pc'[v] = pc[v] /\ job'[v] = job[v]
        BY <1>2, <3>1, <4>1 DEF WorkersOK
      <4> QED
        BY <2>2, <4>1, <4>2 DEF Attached
    <3>3. ASSUME Attach(w) PROVE HousedInv'
      <4> DEFINE r == job[w].report
                 i == IF target[w] = NoIncident THEN Len(rows) + 1 ELSE target[w]
      <4>1. /\ pc[w] = "attach" /\ pc' = [pc EXCEPT ![w] = "aggregate"]
            /\ home' = [home EXCEPT ![r] = i] /\ UNCHANGED <<job, agg, understood, done>>
        BY <3>3 DEF Attach, topics, keys
      <4>2. r \in Reports /\ r \in understood
        BY <1>2, <3>1, <4>1, JobIsProposal
      <4>3. i # NoIncident
        <5>1. Len(rows) \in Nat
          BY <1>2, SeqDomain DEF RowsOK
        <5> QED
          BY <5>1 DEF NoIncident
      <4> HIDE DEF r, i
      <4>4. /\ \A x \in Reports : home'[x] = IF x = r THEN i ELSE home[x]
            /\ \A v \in Workers : v # w => pc'[v] = pc[v]
        BY <1>2, <3>1, <4>1, <4>2 DEF ReportsOK, WorkersOK
      <4>5. done \subseteq Reports
        BY <1>2 DEF ReportsOK, Legible
      <4>6. \A v \in Workers : pc'[v] \in Attached => home'[job'[v].report] # NoIncident
        <5>1. ASSUME NEW v \in Workers, pc'[v] \in Attached
              PROVE  home'[job'[v].report] # NoIncident
          <6>1. CASE v = w
            BY <4>1, <4>2, <4>3, <4>4, <6>1 DEF r
          <6>2. CASE v # w
            <7>1. pc[v] \in Attached /\ job'[v] = job[v]
              BY <4>1, <4>4, <5>1, <6>2
            <7>2. job[v].report \in Reports
              BY <1>2, <7>1, JobIsProposal DEF Attached
            <7> QED
              BY <1>2, <4>3, <4>4, <7>1, <7>2 DEF HousedInv
          <6> QED
            BY <6>1, <6>2
        <5> QED
          BY <5>1
      <4> QED
        BY <1>2, <4>1, <4>2, <4>3, <4>4, <4>5, <4>6 DEF HousedInv
    <3>4. ASSUME Aggregate(w) PROVE HousedInv'
      <4>1. /\ pc[w] = "aggregate" /\ pc' = [pc EXCEPT ![w] = "update"]
            /\ agg' = [agg EXCEPT ![w] = Members(target[w])]
            /\ UNCHANGED <<home, job, understood, done>>
        BY <3>4 DEF Aggregate, reportVars, topics, keys
      <4>2. Members(target[w]) \subseteq understood
        <5>1. target[w] # NoIncident
          <6>1. NoIncident \notin Ids
            BY <1>2, SeqDomain DEF RowsOK, Ids, NoIncident
          <6> QED
            BY <1>2, <3>1, <4>1, <6>1 DEF WorkersOK
        <5> QED
          BY <1>2, <5>1 DEF HousedInv, Members
      <4>3. /\ \A v \in Workers : agg'[v] = IF v = w THEN Members(target[w]) ELSE agg[v]
            /\ \A v \in Workers : v # w => pc'[v] = pc[v]
        BY <1>2, <3>1, <4>1 DEF WorkersOK
      <4> QED
        BY <1>2, <4>1, <4>2, <4>3 DEF HousedInv, Attached
    <3>5. ASSUME Update(w) PROVE HousedInv'
      <4>1. /\ pc[w] = "update" /\ pc' = [pc EXCEPT ![w] = "publish"]
            /\ UNCHANGED <<home, job, agg, understood, done>>
        BY <3>5 DEF Update, reportVars, topics, keys
      <4>2. \A v \in Workers : v # w => pc'[v] = pc[v]
        BY <1>2, <3>1, <4>1 DEF WorkersOK
      <4> QED
        BY <2>2, <4>1, <4>2 DEF Attached
    <3>6. ASSUME NothingToUpdate(w) \/ PublishUpdate(w) \/ Crash(w) PROVE HousedInv'
      <4>1. /\ Rest(w) /\ UNCHANGED <<home, understood>>
            /\ done' \subseteq done
               \/ (pc[w] \in Attached /\ done' = done \cup {job[w].report})
        BY <3>6 DEF NothingToUpdate, PublishUpdate, Crash, reportVars, topics, keys, Attached
      <4>2. /\ \A v \in Workers : agg'[v] = IF v = w THEN {} ELSE agg[v]
            /\ pc'[w] = "idle"
            /\ \A v \in Workers : v # w => pc'[v] = pc[v] /\ job'[v] = job[v]
        BY <1>2, <3>1, <4>1 DEF Rest, WorkersOK
      <4> QED
        BY <1>2, <3>1, <4>1, <4>2 DEF HousedInv, Attached
    <3> QED
      BY <2>3, <3>2, <3>3, <3>4, <3>5, <3>6 DEF A3Step
  <2>4. CASE A1Step \/ A2Step \/ A4Step \/ A5Step \/ UNCHANGED vars
    <3>1. UNCHANGED <<home, agg, done, pc, job>> /\ understood \subseteq understood'
      BY <2>4 DEF A1Step, A2Step, A4Step, A5Step, Perceive, SkipUnreadable, Propose,
                  Prioritise, SkipVanished, Route, vars, reportVars, a3Vars, topics, keys
    <3> QED
      BY <2>2, <3>1
  <2> QED
    BY <1>2, <2>3, <2>4 DEF Next
<1> QED
  BY <1>1, <1>2, TypeInvAlways, PTL DEF Spec

\* A step leaves every incident at a place and between two days.
LEMMA PlaceStep ==
  ASSUME TypeInv, FactInv, HousedInv, PlaceInv, [Next]_vars PROVE PlaceInv'
<1> USE DEF TypeInv
<1> DEFINE Placed(x) == x.centroid \in Int /\ x.first \in Int /\ x.last \in Int
<1>1. /\ IsSeq(rows) /\ Ids = DOMAIN rows /\ Ids' = DOMAIN rows' /\ workers \subseteq Workers
      /\ \A k \in DOMAIN rows : IsRow(rows[k]) /\ Placed(rows[k])
  BY DEF RowsOK, Ids, ReportsOK, PlaceInv
<1>2. SUFFICES \A k \in DOMAIN rows' : Placed(rows'[k])
  BY <1>1 DEF PlaceInv
<1>3. CASE rows' = rows
  BY <1>1, <1>3
<1>4. ASSUME NEW w \in workers, Attach(w), target[w] = NoIncident,
             rows' = Append(rows, Placeholder(job[w].report))
      PROVE  \A k \in DOMAIN rows' : Placed(rows'[k])
  <2> DEFINE e == Placeholder(job[w].report)
  <2>1. job[w].report \in Made
    BY <1>1, <1>4, JobIsProposal DEF Attach
  <2>2. Placed(e)
    BY <2>1, FactFields DEF Placeholder
  <2>3. rows' = Append(rows, e)
    BY <1>4
  <2> HIDE DEF e
  <2>4. /\ DOMAIN rows' = 1 .. Len(rows) + 1 /\ Len(rows) \in Nat
        /\ DOMAIN rows = 1 .. Len(rows)
        /\ \A k \in DOMAIN rows : rows'[k] = rows[k]
        /\ rows'[Len(rows) + 1] = e
    BY <1>1, <2>3, SeqAppend, SeqDomain
  <2>5. \A k \in DOMAIN rows' : k \in DOMAIN rows \/ k = Len(rows) + 1
    BY <2>4
  <2> QED
    BY <1>1, <2>2, <2>4, <2>5
<1>5. ASSUME NEW i \in Ids, NEW x, rows' = [rows EXCEPT ![i] = x], Placed(x)
      PROVE  \A k \in DOMAIN rows' : Placed(rows'[k])
  BY <1>1, <1>5, SeqReplace
<1>6. ASSUME NEW w \in workers, Update(w),
             rows' = [rows EXCEPT ![target[w]] = Recomputed(rows[target[w]], agg[w])]
      PROVE  \A k \in DOMAIN rows' : Placed(rows'[k])
  <2> DEFINE t == target[w]
             rs == agg[w]
             x == Recomputed(rows[t], rs)
  <2>1. t \in Ids /\ rs # {} /\ rs \in SUBSET Reports /\ rs \subseteq Made
    BY <1>1, <1>6 DEF Update, WorkersOK, HousedInv, ReportsOK, Legible
  <2>2. IsRow(rows[t]) /\ rows' = [rows EXCEPT ![t] = x]
    BY <1>1, <1>6, <2>1
  <2>3. Placed(x)
    BY <2>1, <2>2, RecomputedHere
  <2> HIDE DEF t, rs, x
  <2> QED
    BY <1>5, <2>1, <2>2, <2>3
<1>7. ASSUME NEW i \in Ids, NEW b,
             \/ rows' = [rows EXCEPT ![i] = [rows[i] EXCEPT !.band = b]]
             \/ rows' = [rows EXCEPT ![i] = [rows[i] EXCEPT !.route = b]]
      PROVE  \A k \in DOMAIN rows' : Placed(rows'[k])
  <2> DEFINE x == [rows[i] EXCEPT !.band = b]
             y == [rows[i] EXCEPT !.route = b]
  <2>1. Placed(x) /\ Placed(y)
    BY <1>1, MarkedRow
  <2>2. rows' = [rows EXCEPT ![i] = x] \/ rows' = [rows EXCEPT ![i] = y]
    BY <1>7
  <2> HIDE DEF x, y
  <2> QED
    BY <1>5, <2>1, <2>2
<1> QED
  BY <1>3, <1>4, <1>6, <1>7, RowSteps DEF Seeding, Recomputing, Banding, Routing

\* The invariant holds at every moment.
LEMMA PlaceAlways == Spec => []PlaceInv
<1>1. Init => PlaceInv
  <2> SUFFICES ASSUME Init PROVE PlaceInv
    OBVIOUS
  <2>1. rows = << >>
    BY DEF Init
  <2>2. DOMAIN rows = {}
    BY <2>1
  <2> QED
    BY <2>2 DEF PlaceInv, Ids
<1>2. TypeInv /\ FactInv /\ HousedInv /\ PlaceInv /\ [Next]_vars => PlaceInv'
  BY PlaceStep
<1> QED
  BY <1>1, <1>2, TypeInvAlways, FactAlways, HousedAlways, PTL DEF Spec

\* Between a report and an incident, one of which is of the thing and the other is
\* not, there is no link; between two that are, there is always one.
LEMMA TwinCandidates ==
  ASSUME TypeInv, FactInv, CategoryInv, HousedInv, PlaceInv,
         NEW r \in Legible, Distinct(r), TwinInv(r), NEW x \in understood
  PROVE  /\ \A c \in Candidates(x) :
              /\ c.incident \in Ids
              /\ x \in Twins(r) /\ c.incident \in Ours(r) => Score(c) = One
              /\ (x \in Twins(r)) # (c.incident \in Ours(r)) =>
                   /\ Score(c) \in Int /\ Score(c) < AUTO_LINK_THRESHOLD
                   /\ ~Adjudicate(c) /\ ~JoinsOnRecheck(c)
         /\ x \in Twins(r) => \A i \in Ours(r) : Candidate(x, i) \in Candidates(x)
<1> USE DEF TypeInv
<1>1. /\ x \in Legible /\ x \in Made /\ r \in Made /\ Made \subseteq Reports
      /\ Twins(r) \subseteq Made /\ Ours(r) \subseteq Ids /\ NoIncident \notin Ids
  <2>1. NoIncident \notin Ids
    BY SeqDomain DEF RowsOK, Ids, NoIncident
  <2> QED
    BY <2>1 DEF ReportsOK, Legible, Twins, Ours
<1>2. \A y \in Made : /\ fact[y].spot \in Int /\ fact[y].day \in Int
                      /\ fact[y].wording \in DOMAIN Likeness
  BY FactFields
<1>3. ASSUME NEW i \in Ids, NEW m \in Members(i)
      PROVE  m \in Legible /\ m \in Made /\ fact[m].category = rows[i].category
             /\ home[m] = i /\ (m \in Twins(r) <=> i \in Ours(r))
  <2>1. m \in Reports /\ home[m] = i /\ home[m] # NoIncident
    BY <1>1 DEF Members
  <2> QED
    BY <2>1 DEF HousedInv, ReportsOK, Legible, CategoryInv, OneCategory, TwinInv, Apart
<1>4. ASSUME NEW i \in Ours(r)
      PROVE  /\ rows[i].category = fact[r].category /\ Members(i) # {}
             /\ rows[i].centroid = fact[r].spot
             /\ rows[i].first = fact[r].day /\ rows[i].last = fact[r].day
  <2>1. /\ home[rows[i].seed] = i /\ rows[i].centroid = fact[r].spot
        /\ rows[i].first = fact[r].day /\ rows[i].last = fact[r].day
    BY DEF TwinInv, OnSpot
  <2>2. rows[i].seed \in Twins(r) /\ rows[i].seed \in Reports
    BY <1>1 DEF Ours
  <2>3. rows[i].seed \in Members(i)
    BY <2>1, <2>2 DEF Members
  <2>4. rows[i].category = fact[r].category
    BY <1>1, <1>3, <2>2, <2>3 DEF Twins, Same
  <2> QED
    BY <2>1, <2>3, <2>4
<1>5. \A y \in Legible : fact[y].category = fact[r].category =>
        ~fact[y].blank /\ (y \in Twins(r) \/ Unlike(r, y))
  BY DEF Distinct, Twins
<1>6. \A y \in Twins(r) : /\ fact[y].category = fact[r].category /\ fact[y].spot = fact[r].spot
                          /\ fact[y].day = fact[r].day /\ fact[y].wording = fact[r].wording
  BY DEF Twins, Same
<1> DEFINE bounds == BoundsFor(fact[x].category)
           Space(i) == Falloff(Distance(rows[i].centroid, fact[x].spot), bounds.radius)
           Time(i) == Falloff(Distance(fact[x].day, rows[i].last), bounds.window)
<1>7. \A i : /\ Candidate(x, i).incident = i
             /\ Candidate(x, i).spatial = Space(i) /\ Candidate(x, i).temporal = Time(i)
             /\ Candidate(x, i).semantic = Semantic(x, i)
             /\ Candidate(x, i).visual = NoVisual
  BY DEF Candidate
<1>8. ASSUME NEW i \in Ids, InReach(x, i), (x \in Twins(r)) # (i \in Ours(r))
      PROVE  LET c == Candidate(x, i)
             IN  /\ Score(c) \in Int /\ Score(c) < AUTO_LINK_THRESHOLD
                 /\ ~Adjudicate(c) /\ ~JoinsOnRecheck(c)
  <2>1. rows[i].category = fact[x].category
    BY <1>8 DEF InReach
  <2>2. /\ ~fact[x].blank
        /\ \A m \in Members(i) : ~fact[m].blank /\ Unlike(x, m)
    <3>1. CASE x \in Twins(r) /\ i \notin Ours(r)
      <4>1. ~fact[x].blank /\ fact[x].category = fact[r].category
        BY <1>1, <1>5, <1>6, <3>1
      <4>2. ASSUME NEW m \in Members(i) PROVE ~fact[m].blank /\ Unlike(x, m)
        <5>1. m \in Legible /\ fact[m].category = fact[r].category /\ m \notin Twins(r)
          BY <1>3, <2>1, <3>1, <4>1
        <5>2. ~fact[m].blank /\ Unlike(r, m)
          BY <1>5, <5>1
        <5> QED
          BY <1>6, <3>1, <5>2 DEF Unlike
      <4> QED
        BY <4>1, <4>2
    <3>2. CASE x \notin Twins(r) /\ i \in Ours(r)
      <4>1. fact[x].category = fact[r].category
        BY <1>4, <2>1, <3>2
      <4>2. ~fact[x].blank /\ Unlike(r, x)
        BY <1>1, <1>5, <3>2, <4>1
      <4>3. ASSUME NEW m \in Members(i) PROVE ~fact[m].blank /\ Unlike(x, m)
        <5>1. m \in Twins(r) /\ m \in Legible
          BY <1>3, <3>2
        <5>2. ~fact[m].blank /\ fact[m].wording = fact[r].wording
          BY <1>5, <1>6, <5>1
        <5>3. Likeness[fact[x].wording][fact[r].wording]
                = Likeness[fact[r].wording][fact[x].wording]
          BY <1>1, <1>2, LikenessAssumption
        <5> QED
          BY <4>2, <5>2, <5>3 DEF Unlike
      <4> QED
        BY <4>2, <4>3
    <3> QED
      BY <1>8, <3>1, <3>2
  <2>3. Semantic(x, i) \in Fractions /\ Semantic(x, i) < ADJUDICATION_FLOORS.semantic
    <3>1. Members(i) \subseteq Made
      BY <1>3
    <3> QED
      BY <1>1, <2>2, <3>1, SemanticOfStrangers
  <2>4. Space(i) \in Fractions /\ Time(i) \in Fractions
    <3>1. /\ rows[i].centroid \in Int /\ rows[i].last \in Int
          /\ fact[x].spot \in Int /\ fact[x].day \in Int
      BY <1>1, <1>2 DEF PlaceInv
    <3>2. /\ Distance(rows[i].centroid, fact[x].spot) \in Nat
          /\ Distance(fact[x].day, rows[i].last) \in Nat
      BY <3>1, DistanceIsNatural
    <3> QED
      BY <3>2, BoundsArePositive, FalloffIsFraction
  <2> DEFINE c == Candidate(x, i)
  <2>5. /\ c.visual = NoVisual /\ c.spatial \in Fractions /\ c.temporal \in Fractions
        /\ c.semantic \in Fractions /\ c.semantic < ADJUDICATION_FLOORS.semantic
    BY <1>7, <2>3, <2>4
  <2> HIDE DEF c
  <2>6. /\ Score(c) \in Int /\ Score(c) < AUTO_LINK_THRESHOLD
        /\ ~Adjudicate(c) /\ ~JoinsOnRecheck(c)
    BY <2>5, ScoreOfStranger
  <2> QED
    BY <2>6 DEF c
<1>9. ASSUME x \in Twins(r), NEW i \in Ours(r)
      PROVE  /\ InReach(x, i)
             /\ Score(Candidate(x, i)) = One
  <2>1. /\ rows[i].category = fact[x].category /\ rows[i].centroid = fact[x].spot
        /\ rows[i].first = fact[x].day /\ rows[i].last = fact[x].day
        /\ fact[x].spot \in Int /\ fact[x].day \in Int
    BY <1>1, <1>2, <1>4, <1>6, <1>9
  <2>2. /\ bounds.radius \in Nat /\ bounds.radius > 0
        /\ bounds.window \in Nat /\ bounds.window > 0
    BY BoundsArePositive
  <2>3. /\ Distance(rows[i].centroid, fact[x].spot) = 0
        /\ Distance(fact[x].day, rows[i].last) = 0
    BY <2>1, DistanceIsNatural
  <2> HIDE DEF bounds
  <2>4. InReach(x, i)
    BY <2>1, <2>2, <2>3 DEF InReach, bounds
  <2>5. Space(i) = One /\ Time(i) = One
    BY <2>2, <2>3, FalloffAtZero
  <2>6. Semantic(x, i) = One
    <3>1. Members(i) # {}
      BY <1>4
    <3>2. ~fact[x].blank
      BY <1>1, <1>5, <1>6, <1>9
    <3>3. \A m \in Members(i) : ~fact[m].blank /\ fact[m].wording = fact[x].wording
      BY <1>1, <1>3, <1>5, <1>6, <1>9
    <3> QED
      BY <1>1, <1>2, <3>1, <3>2, <3>3, SemanticOfTwins
  <2> DEFINE c == Candidate(x, i)
  <2>7. c.visual = NoVisual /\ c.spatial = One /\ c.temporal = One /\ c.semantic = One
    BY <1>7, <2>5, <2>6
  <2> HIDE DEF c
  <2>8. Score(c) = One
    BY <2>7, ScoreOfTwin
  <2> QED
    BY <2>4, <2>8 DEF c
<1>10. ASSUME NEW c \in Candidates(x)
       PROVE  c.incident \in Ids /\ InReach(x, c.incident) /\ c = Candidate(x, c.incident)
  <2>1. PICK i \in Ids : InReach(x, i) /\ c = Candidate(x, i)
    BY DEF Candidates
  <2> QED
    BY <1>7, <2>1
<1>11. ASSUME x \in Twins(r), NEW i \in Ours(r) PROVE Candidate(x, i) \in Candidates(x)
  BY <1>1, <1>9, <1>11 DEF Candidates
<1> QED
  BY <1>8, <1>9, <1>10, <1>11

\* Whatever A3 settles on fits.
LEMMA TwinTargets ==
  ASSUME TypeInv, FactInv, CategoryInv, HousedInv, PlaceInv,
         NEW r \in Legible, Distinct(r), TwinInv(r), NEW p \in linked, NEW i \in Targets(p)
  PROVE  Fits(p.report, i, r)
<1> USE DEF TypeInv
<1> DEFINE x == p.report
<1>1. x \in understood /\ NoIncident \notin Ours(r)
  <2>1. NoIncident \notin Ids
    BY SeqDomain DEF RowsOK, Ids, NoIncident
  <2> QED
    BY <2>1 DEF ReportsOK, Ours
<1>2. CASE Binding(p)
  <2>1. i = p.incident
    BY <1>2, BindingTarget
  <2>2. x \in Twins(r) <=> i \in Ours(r)
    BY <1>2, <2>1 DEF TwinInv, Proposed
  <2> QED
    BY <2>2 DEF Fits
<1>3. CASE ~Binding(p)
  <2>1. CASE Candidates(x) = {}
    <3>1. i = NoIncident
      BY <1>3, <2>1 DEF Targets, Binding
    <3>2. x \in Twins(r) => Ours(r) = {}
      BY <1>1, <2>1, TwinCandidates
    <3> QED
      BY <1>1, <3>1, <3>2 DEF Fits
  <2>2. CASE Candidates(x) # {}
    <3>1. PICK c \in Best(Candidates(x)) : i = IF JoinsOnRecheck(c) THEN c.incident ELSE NoIncident
      BY <1>3, <2>2 DEF Targets, Binding
    <3>2. c \in Candidates(x) /\ \A d \in Candidates(x) : Score(c) >= Score(d)
      BY <3>1 DEF Best
    <3>3. ASSUME i \in Ours(r) PROVE x \in Twins(r)
      <4>1. JoinsOnRecheck(c) /\ i = c.incident
        BY <1>1, <3>1, <3>3
      <4> QED
        BY <1>1, <3>2, <3>3, <4>1, TwinCandidates
    <3>4. ASSUME x \in Twins(r) PROVE i \in Ours(r) \/ (i = NoIncident /\ Ours(r) = {})
      <4>1. CASE Ours(r) = {}
        <5>1. ~JoinsOnRecheck(c)
          BY <1>1, <3>2, <3>4, <4>1, TwinCandidates
        <5> QED
          BY <3>1, <4>1, <5>1
      <4>2. CASE Ours(r) # {}
        <5>1. PICK j \in Ours(r) : TRUE
          BY <4>2
        <5> DEFINE d == Candidate(x, j)
        <5>2. d.incident = j
          BY DEF Candidate
        <5>3. d \in Candidates(x)
          BY <1>1, <3>4, TwinCandidates
        <5> HIDE DEF d
        <5>4. Score(d) = One
          BY <1>1, <3>4, <5>2, <5>3, TwinCandidates
        <5>5. Score(c) >= One
          BY <3>2, <5>3, <5>4
        <5>6. c.incident \in Ours(r)
          <6>1. c.incident \notin Ours(r) => Score(c) \in Int /\ Score(c) < AUTO_LINK_THRESHOLD
            BY <1>1, <3>2, <3>4, TwinCandidates
          <6> QED
            BY <5>5, <6>1, OneIsMillion DEF AUTO_LINK_THRESHOLD
        <5>7. JoinsOnRecheck(c)
          <6>1. Score(c) = One
            BY <1>1, <3>2, <3>4, <5>6, TwinCandidates
          <6> QED
            BY <6>1, OneIsMillion DEF JoinsOnRecheck, AUTO_LINK_THRESHOLD
        <5> QED
          BY <3>1, <5>6, <5>7
      <4> QED
        BY <4>1, <4>2
    <3> QED
      BY <3>3, <3>4 DEF Fits
  <2> QED
    BY <2>1, <2>2
<1> QED
  BY <1>2, <1>3

\* And so does what A2 proposes.
LEMMA TwinProposals ==
  ASSUME TypeInv, FactInv, CategoryInv, HousedInv, PlaceInv,
         NEW r \in Legible, Distinct(r), TwinInv(r), NEW x \in understood,
         NEW p \in Proposals(x), Binding(p)
  PROVE  p.report = x /\ (x \in Twins(r) <=> p.incident \in Ours(r))
<1>1. CASE Candidates(x) = {}
  <2>1. p.decision = "new_incident_seed"
    BY <1>1 DEF Proposals, NoJob
  <2> QED
    BY <2>1 DEF Binding
<1>2. CASE Candidates(x) # {}
  <2>1. PICK c \in Candidates(x) : p = ProposalOf(x, c)
    BY <1>2 DEF Proposals, Best
  <2>2. /\ p.report = x /\ p.decision = DecisionFor(Score(c))
        /\ p.decision # "new_incident_seed" => p.incident = c.incident
        /\ p.components.spatial = c.spatial /\ p.components.temporal = c.temporal
        /\ p.components.semantic = c.semantic
    BY <2>1 DEF ProposalOf
  <2>3. p.incident = c.incident
    BY <2>2 DEF Binding
  <2>4. p.decision = "auto_link" => Score(c) >= AUTO_LINK_THRESHOLD
    BY <2>2 DEF DecisionFor
  <2>5. Adjudicate(p.components) => Adjudicate(c)
    BY <2>2 DEF Adjudicate
  <2>6. (x \in Twins(r)) # (c.incident \in Ours(r)) =>
          /\ Score(c) \in Int /\ Score(c) < AUTO_LINK_THRESHOLD
          /\ ~Adjudicate(c)
    BY TwinCandidates
  <2> QED
    BY <2>2, <2>3, <2>4, <2>5, <2>6 DEF Binding, AUTO_LINK_THRESHOLD
<1> QED
  BY <1>1, <1>2

\* The incidents of the thing are the same as long as no row is added.
LEMMA OursStay ==
  ASSUME UNCHANGED fact, Ids' = Ids, \A i \in Ids : rows'[i].seed = rows[i].seed, NEW r
  PROVE  Twins(r)' = Twins(r) /\ Ours(r)' = Ours(r)
<1>1. Twins(r)' = Twins(r)
  BY DEF Twins, Legible, Made, Same
<1> QED
  BY <1>1 DEF Ours

\* A step that moves no report and adds no row leaves alone what the invariant is
\* about, but for the row, the proposal and the worker at which it happens.
LEMMA TwinStays ==
  ASSUME TypeInv, HousedInv, NEW r \in Legible, TwinInv(r),
         UNCHANGED fact, UNCHANGED home, Ids' = Ids,
         \A i \in Ids : /\ rows'[i].seed = rows[i].seed
                        /\ \/ /\ rows'[i].centroid = rows[i].centroid
                              /\ rows'[i].first = rows[i].first /\ rows'[i].last = rows[i].last
                           \/ /\ i \in Ours(r) => /\ rows'[i].centroid = fact[r].spot
                                                  /\ rows'[i].first = fact[r].day
                                                  /\ rows'[i].last = fact[r].day,
         \A p \in linked' \ linked :
           Binding(p) => (p.report \in Twins(r) <=> p.incident \in Ours(r)),
         \A w \in Workers :
           /\ pc'[w] = "attach" => \/ /\ pc[w] = "attach" /\ job'[w] = job[w]
                                      /\ target'[w] = target[w]
                                   \/ Fits(job'[w].report, target'[w], r)
           /\ pc'[w] = "update" => \/ /\ pc[w] = "update" /\ target'[w] = target[w]
                                      /\ agg'[w] = agg[w]
                                   \/ target'[w] \in Ours(r) => agg'[w] \subseteq Twins(r)
  PROVE  TwinInv(r)'
<1>1. Twins(r)' = Twins(r) /\ Ours(r)' = Ours(r) /\ Ours(r) \subseteq Ids
  BY OursStay DEF Ours
<1>2. OneOf(r)'
  BY <1>1 DEF TwinInv, OneOf
<1>3. OnSpot(r)'
  <2>1. ASSUME NEW i \in Ours(r)
        PROVE  /\ home'[rows'[i].seed] = i /\ rows'[i].centroid = fact[r].spot
               /\ rows'[i].first = fact[r].day /\ rows'[i].last = fact[r].day
    BY <1>1 DEF TwinInv, OnSpot
  <2> QED
    BY <1>1, <2>1 DEF OnSpot
<1>4. Apart(r)'
  BY <1>1 DEF TwinInv, Apart
<1>5. Proposed(r)'
  <2>1. \A p : Binding(p)' <=> Binding(p)
    BY DEF Binding
  <2>2. ASSUME NEW p \in linked', Binding(p)
        PROVE  p.report \in Twins(r) <=> p.incident \in Ours(r)
    BY <2>2 DEF TwinInv, Proposed
  <2> QED
    BY <1>1, <2>1, <2>2 DEF Proposed
<1>6. Aimed(r)'
  <2>1. ASSUME NEW w \in Workers
        PROVE  /\ pc'[w] = "attach" => Fits(job'[w].report, target'[w], r)
               /\ pc'[w] = "update" /\ target'[w] \in Ours(r) => agg'[w] \subseteq Twins(r)
    BY DEF TwinInv, Aimed
  <2> QED
    BY <1>1, <2>1 DEF Aimed, Fits
<1> QED
  BY <1>2, <1>3, <1>4, <1>5, <1>6 DEF TwinInv

\* Attaching a report keeps the twins together, and apart from the rest.
LEMMA TwinAttach ==
  ASSUME TypeInv, FactInv, HousedInv, Sole, NEW r \in Legible, TwinInv(r), UNCHANGED fact,
         NEW w \in workers, Attach(w)
  PROVE  TwinInv(r)'
<1> USE DEF TypeInv
<1>0. PICK x : x = job[w].report
  OBVIOUS
<1>1. /\ w \in Workers /\ pc[w] = "attach" /\ x \in Reports /\ x \in Legible
      /\ NoIncident \notin Ids /\ IsSeq(rows) /\ Ids = DOMAIN rows /\ Ids' = DOMAIN rows'
  <2>1. NoIncident \notin Ids
    BY SeqDomain DEF RowsOK, Ids, NoIncident
  <2> QED
    BY <1>0, <2>1, JobIsProposal DEF Attach, ReportsOK, RowsOK, Ids
<1>2. PICK i : i = IF target[w] = NoIncident THEN Len(rows) + 1 ELSE target[w]
  OBVIOUS
<1>3. /\ home' = [home EXCEPT ![x] = i] /\ pc' = [pc EXCEPT ![w] = "aggregate"]
      /\ target' = [target EXCEPT ![w] = i] /\ UNCHANGED <<linked, job, agg>>
  BY <1>0, <1>2 DEF Attach, topics
<1>4. /\ \A y \in Reports : home'[y] = IF y = x THEN i ELSE home[y]
      /\ pc'[w] = "aggregate"
      /\ \A v \in Workers : v # w => pc'[v] = pc[v] /\ target'[v] = target[v]
  BY <1>1, <1>3 DEF ReportsOK, WorkersOK
<1>5. Fits(x, target[w], r)
  BY <1>0, <1>1 DEF TwinInv, Aimed
<1>6. /\ Twins(r)' = Twins(r) /\ Twins(r) \subseteq Reports /\ Ours(r) \subseteq Ids
      /\ \A p : Binding(p)' <=> Binding(p)
  BY DEF Twins, Legible, Made, Same, Binding, ReportsOK, Ours
<1>7. /\ OneOf(r) /\ OnSpot(r) /\ Apart(r) /\ Proposed(r) /\ Aimed(r)
  BY DEF TwinInv
<1>8. CASE target[w] # NoIncident
  <2>1. i = target[w] /\ rows' = rows
    BY <1>2, <1>8 DEF Attach
  <2>2. Ours(r)' = Ours(r)
    BY <1>6, <2>1 DEF Ours, Ids
  <2>3. x \in Twins(r) <=> i \in Ours(r)
    BY <1>5, <1>8, <2>1 DEF Fits
  <2>4. OneOf(r)'
    BY <1>7, <2>2 DEF OneOf
  <2>5. OnSpot(r)'
    <3>1. ASSUME NEW j \in Ours(r)
          PROVE  /\ home'[rows[j].seed] = j /\ rows[j].centroid = fact[r].spot
                 /\ rows[j].first = fact[r].day /\ rows[j].last = fact[r].day
      <4>1. rows[j].seed \in Twins(r) /\ rows[j].seed \in Reports
        BY <1>6 DEF Ours
      <4>2. CASE rows[j].seed = x
        <5>1. j = i
          BY <1>7, <2>3, <4>1, <4>2 DEF OneOf
        <5> QED
          BY <1>4, <1>7, <4>1, <4>2, <5>1 DEF OnSpot
      <4>3. CASE rows[j].seed # x
        BY <1>4, <1>7, <4>1, <4>3 DEF OnSpot
      <4> QED
        BY <4>2, <4>3
    <3> QED
      BY <2>1, <2>2, <3>1 DEF OnSpot
  <2>6. Apart(r)'
    BY <1>4, <1>6, <1>7, <2>2, <2>3 DEF Apart
  <2>7. Proposed(r)'
    BY <1>3, <1>6, <1>7, <2>2 DEF Proposed
  <2>8. Aimed(r)'
    BY <1>3, <1>4, <1>6, <1>7, <2>2 DEF Aimed, Fits
  <2> QED
    BY <2>4, <2>5, <2>6, <2>7, <2>8 DEF TwinInv
<1>9. CASE target[w] = NoIncident
  <2> DEFINE e == Placeholder(x)
  <2>1. i = Len(rows) + 1 /\ rows' = Append(rows, e)
    BY <1>0, <1>2, <1>9 DEF Attach
  <2>2. /\ e.seed = x /\ e.centroid = fact[x].spot
        /\ e.first = fact[x].day /\ e.last = fact[x].day
    BY DEF Placeholder
  <2> HIDE DEF e
  <2>3. /\ DOMAIN rows' = 1 .. Len(rows) + 1 /\ Len(rows) \in Nat
        /\ DOMAIN rows = 1 .. Len(rows)
        /\ \A k \in DOMAIN rows : rows'[k] = rows[k]
        /\ rows'[i] = e
    BY <1>1, <2>1, SeqAppend, SeqDomain
  <2>4. i \notin Ids /\ i # NoIncident /\ i \in Ids'
        /\ \A k \in Ids' : k \in Ids \/ k = i
    BY <1>1, <2>1, <2>3 DEF NoIncident
  <2>5. \A k \in Ids : k \in Ids' /\ rows'[k] = rows[k]
    BY <1>1, <2>3
  <2>6. \A y \in Reports : home[y] # i
    BY <2>4 DEF ReportsOK
  <2>7. \A p \in linked : p.incident # i
    BY <2>4 DEF ReportsOK
  <2>8. CASE x \in Twins(r)
    <3>1. Ours(r) = {}
      BY <1>1, <1>5, <1>6, <1>9, <2>8 DEF Fits
    <3>2. Ours(r)' = {i}
      <4>1. i \in Ours(r)'
        BY <1>6, <2>2, <2>3, <2>4, <2>8 DEF Ours
      <4>2. ASSUME NEW k \in Ids', rows'[k].seed \in Twins(r), k # i PROVE FALSE
        BY <2>4, <2>5, <3>1, <4>2 DEF Ours
      <4> QED
        BY <1>6, <4>1, <4>2 DEF Ours
    <3>3. OneOf(r)'
      BY <3>2 DEF OneOf
    <3>4. OnSpot(r)'
      <4>1. /\ home'[x] = i /\ e.centroid = fact[r].spot
            /\ e.first = fact[r].day /\ e.last = fact[r].day
        BY <1>1, <1>4, <2>2, <2>8 DEF Twins, Same
      <4> QED
        BY <2>2, <2>3, <3>2, <4>1 DEF OnSpot
    <3>5. Apart(r)'
      BY <1>4, <1>6, <1>7, <2>6, <2>8, <3>1, <3>2 DEF Apart
    <3>6. Proposed(r)'
      BY <1>3, <1>6, <1>7, <2>7, <3>1, <3>2 DEF Proposed
    <3>7. Aimed(r)'
      <4>1. ASSUME NEW v \in Workers PROVE pc'[v] \notin {"attach", "update"}
        <5>1. CASE v = w
          BY <1>4, <5>1
        <5>2. CASE v # w
          <6>1. pc[v] = "idle"
            BY <1>1, <5>2, SoleIsAlone
          <6> QED
            BY <1>4, <5>2, <6>1
        <5> QED
          BY <5>1, <5>2
      <4> QED
        BY <4>1 DEF Aimed
    <3> QED
      BY <3>3, <3>4, <3>5, <3>6, <3>7 DEF TwinInv
  <2>9. CASE x \notin Twins(r)
    <3>1. Ours(r)' = Ours(r)
      <4>1. ASSUME NEW k \in Ids', rows'[k].seed \in Twins(r)
            PROVE  k \in Ids /\ rows[k].seed \in Twins(r)
        BY <2>2, <2>3, <2>4, <2>5, <2>9, <4>1
      <4> QED
        BY <1>6, <2>5, <4>1 DEF Ours
    <3>2. OneOf(r)'
      BY <1>7, <3>1 DEF OneOf
    <3>3. OnSpot(r)'
      <4>1. ASSUME NEW j \in Ours(r)
            PROVE  /\ home'[rows'[j].seed] = j /\ rows'[j].centroid = fact[r].spot
                   /\ rows'[j].first = fact[r].day /\ rows'[j].last = fact[r].day
        <5>1. rows[j].seed \in Twins(r) /\ rows[j].seed \in Reports /\ j \in Ids
          BY <1>6 DEF Ours
        <5> QED
          BY <1>4, <1>7, <2>5, <2>9, <5>1 DEF OnSpot
      <4> QED
        BY <3>1, <4>1 DEF OnSpot
    <3>4. Apart(r)'
      <4>1. i \notin Ours(r)
        BY <1>6, <2>4
      <4> QED
        BY <1>4, <1>6, <1>7, <2>9, <3>1, <4>1 DEF Apart
    <3>5. Proposed(r)'
      BY <1>3, <1>6, <1>7, <3>1 DEF Proposed
    <3>6. Aimed(r)'
      BY <1>3, <1>4, <1>6, <1>7, <3>1 DEF Aimed, Fits
    <3> QED
      BY <3>2, <3>3, <3>4, <3>5, <3>6 DEF TwinInv
  <2> QED
    BY <2>8, <2>9
<1> QED
  BY <1>8, <1>9

\* A step keeps the twins together.
LEMMA TwinStep ==
  ASSUME TypeInv, FactInv, CategoryInv, HousedInv, PlaceInv, Sole,
         NEW r \in Legible, Distinct(r), TwinInv(r), [Next]_vars
  PROVE  TwinInv(r)'
<1> USE DEF TypeInv
<1> DEFINE Kept(w) == /\ pc'[w] = "attach" => /\ pc[w] = "attach" /\ job'[w] = job[w]
                                              /\ target'[w] = target[w]
                      /\ pc'[w] = "update" => /\ pc[w] = "update" /\ target'[w] = target[w]
                                              /\ agg'[w] = agg[w]
           Marked(i) == /\ rows'[i].seed = rows[i].seed /\ rows'[i].centroid = rows[i].centroid
                        /\ rows'[i].first = rows[i].first /\ rows'[i].last = rows[i].last
<1>1. /\ UNCHANGED fact /\ workers \subseteq Workers /\ NoIncident \notin Ids
      /\ IsSeq(rows) /\ Ids = DOMAIN rows /\ Ids' = DOMAIN rows'
  <2>1. NoIncident \notin Ids
    BY SeqDomain DEF RowsOK, Ids, NoIncident
  <2> QED
    BY <2>1, ConfigStays DEF config, ReportsOK, RowsOK, Ids
<1>2. ASSUME UNCHANGED home, Ids' = Ids, \A i \in Ids : Marked(i), linked' \subseteq linked,
             \A w \in Workers : Kept(w)
      PROVE  TwinInv(r)'
  BY <1>1, <1>2, TwinStays
<1>3. ASSUME UNCHANGED <<home, rows>>, linked' \subseteq linked, \A w \in Workers : Kept(w)
      PROVE  TwinInv(r)'
  BY <1>1, <1>2, <1>3
<1>4. CASE A1Step \/ UNCHANGED vars
  <2>1. UNCHANGED <<home, rows, linked, pc, job, target, agg>>
    BY <1>4 DEF A1Step, Perceive, SkipUnreadable, vars, reportVars, topics, a3Vars
  <2> QED
    BY <1>3, <2>1
<1>5. ASSUME NEW x \in Reports, Propose(x) PROVE TwinInv(r)'
  <2>1. PICK p \in Proposals(x) : linked' = linked \cup {p}
    BY <1>5 DEF Propose
  <2>2. UNCHANGED <<home, rows, pc, job, target, agg>> /\ x \in understood
    BY <1>5 DEF Propose, reportVars, a3Vars
  <2>3. \A q \in linked' \ linked :
          Binding(q) => (q.report \in Twins(r) <=> q.incident \in Ours(r))
    <3>1. Binding(p) => (p.report \in Twins(r) <=> p.incident \in Ours(r))
      BY <2>2, TwinProposals
    <3> QED
      BY <2>1, <3>1
  <2> QED
    BY <1>1, <2>2, <2>3, TwinStays
<1>6. ASSUME NEW w \in workers, A3Step(w) \/ Crash(w) PROVE TwinInv(r)'
  <2>1. w \in Workers
    BY <1>1
  <2>2. ASSUME NEW p \in linked, Decide(w, p) PROVE TwinInv(r)'
    <3>1. PICK i \in Targets(p) : target' = [target EXCEPT ![w] = i]
      BY <2>2 DEF Decide
    <3>2. /\ job' = [job EXCEPT ![w] = p] /\ pc' = [pc EXCEPT ![w] = "attach"]
          /\ UNCHANGED <<home, rows, linked, agg>>
      BY <2>2 DEF Decide, reportVars, topics
    <3>3. /\ job'[w] = p /\ target'[w] = i /\ pc'[w] = "attach"
          /\ \A v \in Workers : v # w =>
               pc'[v] = pc[v] /\ job'[v] = job[v] /\ target'[v] = target[v]
      BY <2>1, <3>1, <3>2 DEF WorkersOK
    <3>4. Fits(job'[w].report, target'[w], r)
      BY <3>3, TwinTargets
    <3> QED
      BY <1>1, <3>2, <3>3, <3>4, TwinStays
  <2>3. ASSUME Attach(w) PROVE TwinInv(r)'
    BY <1>1, <2>3, TwinAttach
  <2>4. ASSUME Aggregate(w) PROVE TwinInv(r)'
    <3>1. /\ pc[w] = "aggregate" /\ pc' = [pc EXCEPT ![w] = "update"]
          /\ agg' = [agg EXCEPT ![w] = Members(target[w])]
          /\ UNCHANGED <<home, rows, linked, job, target>>
      BY <2>4 DEF Aggregate, reportVars, topics
    <3>2. /\ pc'[w] = "update" /\ agg'[w] = Members(target[w])
          /\ \A v \in Workers : v # w => pc'[v] = pc[v] /\ agg'[v] = agg[v]
      BY <2>1, <3>1 DEF WorkersOK
    <3>3. target[w] \in Ours(r) => Members(target[w]) \subseteq Twins(r)
      BY <1>1 DEF TwinInv, Apart, Members, Ours
    <3> QED
      BY <1>1, <3>1, <3>2, <3>3, TwinStays
  <2>5. ASSUME Update(w) PROVE TwinInv(r)'
    <3>0. PICK t \in Ids : t = target[w]
      BY <2>1, <2>5 DEF Update, WorkersOK
    <3> DEFINE rs == agg[w]
               x == Recomputed(rows[t], rs)
    <3>1. /\ pc[w] = "update" /\ pc' = [pc EXCEPT ![w] = "publish"]
          /\ rows' = [rows EXCEPT ![t] = x] /\ rs # {}
          /\ UNCHANGED <<home, linked, job, target, agg>>
      BY <2>5, <3>0 DEF Update, reportVars, topics
    <3>2. IsRow(rows[t]) /\ rs \in SUBSET Reports /\ rs \subseteq Made
      BY <1>1, <2>1, <3>1 DEF RowsOK, WorkersOK, HousedInv, ReportsOK, Legible
    <3>3. x.seed = rows[t].seed
      BY <3>2, RecomputedPlace
    <3>4. ASSUME t \in Ours(r)
          PROVE  x.centroid = fact[r].spot /\ x.first = fact[r].day /\ x.last = fact[r].day
      <4>1. rs \subseteq Twins(r)
        BY <2>1, <3>0, <3>1, <3>4 DEF TwinInv, Aimed
      <4>2. \A s \in rs : fact[s].spot = fact[r].spot /\ fact[s].day = fact[r].day
        BY <4>1 DEF Twins, Same
      <4>3. fact[r].spot \in Int /\ fact[r].day \in Int
        BY FactFields DEF Legible
      <4> QED
        BY <3>1, <3>2, <4>2, <4>3, RecomputedHere
    <3> HIDE DEF x, rs
    <3>5. /\ DOMAIN rows' = DOMAIN rows
          /\ \A k \in DOMAIN rows : rows'[k] = IF k = t THEN x ELSE rows[k]
      BY <1>1, <3>1, SeqReplace
    <3>6. pc'[w] = "publish" /\ \A v \in Workers : v # w => pc'[v] = pc[v]
      BY <2>1, <3>1 DEF WorkersOK
    <3>7. Ids' = Ids
      BY <1>1, <3>5
    <3>8. \A i \in Ids : /\ rows'[i].seed = rows[i].seed
                         /\ \/ /\ rows'[i].centroid = rows[i].centroid
                               /\ rows'[i].first = rows[i].first /\ rows'[i].last = rows[i].last
                            \/ /\ i \in Ours(r) => /\ rows'[i].centroid = fact[r].spot
                                                   /\ rows'[i].first = fact[r].day
                                                   /\ rows'[i].last = fact[r].day
      BY <1>1, <3>3, <3>4, <3>5
    <3> QED
      BY <1>1, <3>1, <3>6, <3>7, <3>8, TwinStays
  <2>6. ASSUME NothingToUpdate(w) \/ PublishUpdate(w) \/ Crash(w) PROVE TwinInv(r)'
    <3>1. Rest(w) /\ UNCHANGED <<home, rows>> /\ linked' \subseteq linked
      BY <2>6 DEF NothingToUpdate, PublishUpdate, Crash, reportVars, topics
    <3>2. /\ pc'[w] = "idle"
          /\ \A v \in Workers : v # w =>
               pc'[v] = pc[v] /\ job'[v] = job[v] /\ target'[v] = target[v] /\ agg'[v] = agg[v]
      BY <2>1, <3>1 DEF Rest, WorkersOK
    <3> QED
      BY <1>3, <3>1, <3>2
  <2> QED
    BY <1>6, <2>2, <2>3, <2>4, <2>5, <2>6 DEF A3Step
<1>7. CASE A4Step \/ A5Step
  <2>1. UNCHANGED <<home, linked, pc, job, target, agg>>
    BY <1>7 DEF A4Step, A5Step, Prioritise, SkipVanished, Route, reportVars, topics, a3Vars
  <2>2. ASSUME NEW i \in Ids, NEW b,
               \/ rows' = [rows EXCEPT ![i] = [rows[i] EXCEPT !.band = b]]
               \/ rows' = [rows EXCEPT ![i] = [rows[i] EXCEPT !.route = b]]
        PROVE  TwinInv(r)'
    <3> DEFINE y == [rows[i] EXCEPT !.band = b]
               z == [rows[i] EXCEPT !.route = b]
    <3>0. /\ y.seed = rows[i].seed /\ y.centroid = rows[i].centroid
          /\ y.first = rows[i].first /\ y.last = rows[i].last
          /\ z.seed = rows[i].seed /\ z.centroid = rows[i].centroid
          /\ z.first = rows[i].first /\ z.last = rows[i].last
      BY <1>1, MarkedRow DEF RowsOK
    <3>1. PICK x \in {y, z} : rows' = [rows EXCEPT ![i] = x]
      BY <2>2
    <3> HIDE DEF y, z
    <3>2. /\ x.seed = rows[i].seed /\ x.centroid = rows[i].centroid
          /\ x.first = rows[i].first /\ x.last = rows[i].last
      BY <3>0
    <3>3. /\ DOMAIN rows' = DOMAIN rows
          /\ \A k \in DOMAIN rows : rows'[k] = IF k = i THEN x ELSE rows[k]
      BY <1>1, <3>1, SeqReplace
    <3> QED
      BY <1>1, <1>2, <2>1, <3>2, <3>3
  <2>3. CASE rows' = rows
    BY <1>3, <2>1, <2>3
  <2>4. ASSUME NEW w \in workers, Attach(w) \/ Update(w) PROVE FALSE
    <3>1. w \in Workers /\ pc[w] \in {"attach", "update"} /\ pc'[w] # pc[w]
      BY <1>1, <2>4 DEF Attach, Update, WorkersOK
    <3> QED
      BY <2>1, <3>1
  <2>5. \/ rows' = rows
        \/ \E i \in Ids : \E b : rows' = [rows EXCEPT ![i] = [rows[i] EXCEPT !.band = b]]
        \/ \E i \in Ids : \E b : rows' = [rows EXCEPT ![i] = [rows[i] EXCEPT !.route = b]]
    BY <2>4, RowSteps DEF Seeding, Recomputing, Banding, Routing
  <2> QED
    BY <2>2, <2>3, <2>5
<1>8. CASE A2Step
  BY <1>5, <1>8 DEF A2Step
<1> QED
  BY <1>4, <1>6, <1>7, <1>8 DEF Next

\* With one consumer, all the reports of one thing end up in one incident, whatever
\* A2 saw when it looked and whoever died on the way, unless a report of their
\* category is near enough to a merge: the race A3's re-check closes
\* (a3_synthesis:215-261, matching.py:11).
THEOREM TwinsMeet == Spec => []NoTwins
<1>1. Init => TwinsInv
  <2> SUFFICES ASSUME Init, NEW r \in Legible PROVE TwinInv(r)
    BY DEF TwinsInv
  <2>1. rows = << >> /\ linked = {} /\ home = [x \in Reports |-> NoIncident]
        /\ pc = [w \in Workers |-> "idle"]
    BY DEF Init
  <2>2. Ours(r) = {}
    <3>1. DOMAIN rows = {}
      BY <2>1
    <3> QED
      BY <3>1 DEF Ours, Ids
  <2> QED
    BY <2>1, <2>2 DEF TwinInv, OneOf, OnSpot, Apart, Proposed, Aimed
<1>2. TypeInv /\ FactInv /\ CategoryInv /\ HousedInv /\ PlaceInv /\ TwinsInv /\ [Next]_vars
        => TwinsInv'
  <2> SUFFICES ASSUME TypeInv, FactInv, CategoryInv, HousedInv, PlaceInv, TwinsInv, [Next]_vars,
                      Sole', NEW r \in Legible', Distinct(r)'
               PROVE  TwinInv(r)'
    BY DEF TwinsInv
  <2>1. UNCHANGED fact /\ UNCHANGED workers
    BY ConfigStays DEF config
  <2>2. Sole /\ r \in Legible /\ Distinct(r)
    BY <2>1 DEF Sole, Legible, Made, Distinct, Same, Unlike
  <2>3. TwinInv(r)
    BY <2>2 DEF TwinsInv
  <2> QED
    BY <2>2, <2>3, TwinStep
<1>3. TypeInv /\ HousedInv /\ TwinsInv => NoTwins
  <2> SUFFICES ASSUME TypeInv, HousedInv, TwinsInv, Sole, Quiet, NEW r \in Legible, Distinct(r),
                      NEW s \in Legible, Same(r, s)
               PROVE  home[s] = home[r]
    BY DEF NoTwins
  <2>1. OneOf(r) /\ Apart(r)
    BY DEF TwinsInv, TwinInv
  <2>2. r \in Twins(r) /\ s \in Twins(r) /\ r \in Reports /\ s \in Reports
    BY DEF Twins, Same, Legible, TypeInv, ReportsOK
  <2>3. home[r] # NoIncident /\ home[s] # NoIncident
    BY DEF Quiet, HousedInv
  <2> QED
    BY <2>1, <2>2, <2>3 DEF OneOf, Apart
<1> QED
  BY <1>1, <1>2, <1>3, TypeInvAlways, FactAlways, CategoryAlways, HousedAlways, PlaceAlways,
     PTL DEF Spec
=============================================================================
