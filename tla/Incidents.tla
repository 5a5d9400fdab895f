----------------------------- MODULE Incidents ------------------------------
(***************************************************************************)
(* How reports become incidents: A1 perceives a report, A2 proposes a link *)
(* against the incidents it sees, A3 consolidates it into one, A4 scores   *)
(* the incident and A5 routes it.  The five agents meet only in Postgres   *)
(* (the tables `reports` and `incidents`) and on the bus.                  *)
(*                                                                         *)
(* Each agent runs the loop of AgentRuntime: it looks its idempotency key  *)
(* up in handler_results, runs handle(), publishes, records the key and    *)
(* acks.  The key holds the message's correlation id, which is the report  *)
(* for A1 to A3 and the incident for A4 and A5, and nothing else of the    *)
(* message, so the sets of recorded keys below are sets of reports and of  *)
(* incidents.  A message is redelivered until its key is recorded.  The    *)
(* verdict gate lets everything pass here (Sentinel has its own module);   *)
(* what its L2 rules would say of a proposal is FindingsOnLink.            *)
(*                                                                         *)
(* A place is a point of a line, in metres; a day is a whole number.       *)
(***************************************************************************)
EXTENDS Scoring, Perception

CONSTANTS
  Reports,      \* report ids
  Workers,      \* consumers A3's group may have
  Cases,        \* what is considered: the reports as they come in, the provider's
                \* capabilities, A3's workers, and the bound on faults: deaths
                \* before a key is recorded, A3's retries
  Likeness,     \* cosine similarity of two wordings' embeddings, in millionths
  NoReport      \* no report at all

NoIncident == 0

ASSUME IncidentsAssumption ==
  /\ IsFiniteSet(Reports)
  /\ NoReport \notin Reports
  /\ \A c \in Cases : /\ DOMAIN c.raw \subseteq Reports
                      /\ c.workers \subseteq Workers
                      /\ c.faults \in Nat

\* What the gateway lets in: a fix has an accuracy, so a report has a weight
\* (a3_synthesis:324), and a text names and escalates only by what the tables have.
ASSUME CasesAssumption ==
  \A c \in Cases : \A r \in DOMAIN c.raw :
    /\ c.raw[r].spot \in Int /\ c.raw[r].day \in Int
    /\ c.raw[r].weight \in Nat \ {0}
    /\ c.raw[r].wording \in DOMAIN Likeness
    /\ \A t \in {c.raw[r].text, c.raw[r].audio, c.raw[r].photo} :
         /\ t.urges \subseteq DOMAIN SEVERITY_ESCALATORS
         /\ t.names \subseteq HAZARD_KEYWORDS

\* A cosine, clamped as the code clamps it (matching.py:216).
ASSUME LikenessAssumption ==
  \A v, w \in DOMAIN Likeness : /\ Likeness[v][w] \in Fractions
                               /\ Likeness[v][w] = Likeness[w][v]
                               /\ Likeness[v][v] = One

VARIABLES
  \* chosen once: the reports that are made, with what A1 will read in them,
  \* A3's deployment, and how many faults there may be
  fact, workers, allowed,
  \* Postgres: reports.status, reports.incident_id, and the incidents table
  status, home, rows,
  \* the topics: reports.understood, reports.linked, incidents.updated and
  \* incidents.prioritized
  understood, linked, updates, priorities,
  \* handler_results of A1 to A5
  perceived, proposed, done, scored, routed,
  \* A3's consumers: program counter, message, incident, aggregate
  pc, job, target, agg,
  faults

config == <<fact, workers, allowed>>
reportVars == <<status, home>>
topics == <<understood, linked, updates, priorities>>
keys == <<perceived, proposed, done, scored, routed>>
a3Vars == <<pc, job, target, agg>>
vars == <<config, reportVars, rows, topics, keys, a3Vars, faults>>

Ids == DOMAIN rows
Made == DOMAIN fact
Legible == {r \in Made : fact[r].readable}
Members(i) == {r \in Reports : home[r] = i}
Sole == \E w \in workers : workers = {w}

Decisions == {"auto_link", "candidate_link", "new_incident_seed"}

NoScores == [ spatial |-> -1, temporal |-> -1, semantic |-> -1, visual |-> -1 ]
NoJob == [ report |-> NoReport, decision |-> "new_incident_seed",
           incident |-> NoIncident, score |-> 0, components |-> NoScores,
           copy |-> 0 ]

\* A report with what A1 reads in it; `named` is what its own words name.
Fact(raw, provider) ==
  LET read == Understood(raw, provider)
  IN  [ spot |-> raw.spot, day |-> raw.day, device |-> raw.device,
        weight |-> raw.weight, wording |-> raw.wording, named |-> raw.text.names,
        readable |-> Readable(raw, provider), category |-> read.category,
        severity |-> read.severity, hazards |-> read.hazards,
        summary |-> read.summary, blank |-> read.blank ]

Facts(c) == [r \in DOMAIN c.raw |-> Fact(c.raw[r], c.provider)]

TypeOK ==
  /\ Made \subseteq Reports /\ workers \subseteq Workers /\ allowed \in Nat
  /\ status \in [Reports -> {"ingested", "understood", "linked"}]
  /\ home \in [Reports -> Ids \cup {NoIncident}]
  /\ understood \subseteq Legible
  /\ \A p \in linked : /\ p.report \in Made
                       /\ p.decision \in Decisions
                       /\ p.incident \in Ids \cup {NoIncident}
  /\ \A k \in DOMAIN updates : updates[k].incident \in Ids
  /\ \A k \in DOMAIN priorities : priorities[k].incident \in Ids
  /\ perceived \cup proposed \cup done \subseteq Made
  /\ scored \cup routed \subseteq Ids
  /\ pc \in [Workers -> {"idle", "attach", "aggregate", "update", "publish"}]
  /\ \A w \in Workers : /\ job[w] \in linked \cup {NoJob}
                        /\ target[w] \in Ids \cup {NoIncident}
  /\ faults \in 0..allowed

Init ==
  /\ \E c \in Cases : fact = Facts(c) /\ workers = c.workers /\ allowed = c.faults
  /\ status = [r \in Reports |-> "ingested"]
  /\ home = [r \in Reports |-> NoIncident]
  /\ rows = << >>
  /\ understood = {} /\ linked = {} /\ updates = << >> /\ priorities = << >>
  /\ perceived = {} /\ proposed = {} /\ done = {} /\ scored = {} /\ routed = {}
  /\ pc = [w \in Workers |-> "idle"]
  /\ job = [w \in Workers |-> NoJob]
  /\ target = [w \in Workers |-> NoIncident]
  /\ agg = [w \in Workers |-> {}]
  /\ faults = 0

\* The agent dies, or its call raises, before it records the key: the message
\* will come back.
Fault == faults < allowed /\ faults' = faults + 1

-----------------------------------------------------------------------------
(* A1. *)

\* Mutant: A1's write clears the report's incident.
X_PerceiveAnew(r) ==
  /\ r \in Legible \ perceived
  /\ status' = [status EXCEPT ![r] = "understood"]
  /\ home' = [home EXCEPT ![r] = NoIncident]
  /\ understood' = understood \cup {r}
  /\ \/ perceived' = perceived \cup {r} /\ UNCHANGED faults
     \/ Fault /\ UNCHANGED perceived
  /\ UNCHANGED <<config, rows, linked, updates, priorities,
                 proposed, done, scored, routed, a3Vars>>

\* Mutant: the key is recorded before the publish.
X_Perceive(r) ==
  /\ r \in Legible \ perceived
  /\ status' = [status EXCEPT ![r] = "understood"]
  /\ perceived' = perceived \cup {r}
  /\ \/ understood' = understood \cup {r} /\ UNCHANGED faults
     \/ Fault /\ UNCHANGED understood
  /\ UNCHANGED <<config, home, rows, linked, updates, priorities,
                 proposed, done, scored, routed, a3Vars>>

\* A1 fills its columns of the report row, resets its status, and publishes.
\* A death before the key is recorded may fall on either side of the publish.
Perceive(r) ==
  /\ r \in Legible \ perceived
  /\ status' = [status EXCEPT ![r] = "understood"]
  /\ \/ /\ understood' = understood \cup {r}
        /\ perceived' = perceived \cup {r}
        /\ UNCHANGED faults
     \/ /\ Fault
        /\ understood' \in {understood, understood \cup {r}}
        /\ UNCHANGED perceived
  /\ UNCHANGED <<config, home, rows, linked, updates, priorities,
                 proposed, done, scored, routed, a3Vars>>

\* Nothing to read: handle() raises SkipSignal, the skip event goes out and the
\* key is recorded.
SkipUnreadable(r) ==
  /\ r \in Made \ (Legible \cup perceived)
  /\ \/ perceived' = perceived \cup {r} /\ UNCHANGED faults
     \/ Fault /\ UNCHANGED perceived
  /\ UNCHANGED <<config, reportVars, rows, topics,
                 proposed, done, scored, routed, a3Vars>>

-----------------------------------------------------------------------------
(* A2: scoring a report against the incidents there are. *)

\* Cosine similarity to the incident's nearest member; an incident with no
\* member left has none to compare with.  The distance to or from a zero vector
\* is NaN, which SQL's min() takes only if there is nothing else, and which the
\* code's clamp min(1.0, 1.0 - NaN) turns into One.
Semantic(r, i) ==
  LET alike == {Likeness[fact[r].wording][fact[m].wording] :
                  m \in {n \in Members(i) : ~fact[n].blank}}
  IN  IF Members(i) = {} THEN 0
      ELSE IF fact[r].blank \/ alike = {} THEN One
      ELSE Max(alike)

\* `_score_row` on the row of incident i.
Candidate(r, i) ==
  LET bounds == BoundsFor(fact[r].category)
  IN  [ incident |-> i,
        spatial |-> Falloff(Distance(rows[i].centroid, fact[r].spot), bounds.radius),
        temporal |-> Falloff(Distance(fact[r].day, rows[i].last), bounds.window),
        semantic |-> Semantic(r, i),
        visual |-> NoVisual ]

\* Mutant: the category is no predicate of the query.
X_InReach(r, i) ==
  LET bounds == BoundsFor(fact[r].category)
  IN  /\ Distance(rows[i].centroid, fact[r].spot) <= bounds.radius
      /\ fact[r].day >= rows[i].first - bounds.window
      /\ fact[r].day <= rows[i].last + bounds.window

\* `score_candidates`' WHERE clause.
InReach(r, i) ==
  LET bounds == BoundsFor(fact[r].category)
  IN  /\ rows[i].category = fact[r].category
      /\ Distance(rows[i].centroid, fact[r].spot) <= bounds.radius
      /\ fact[r].day >= rows[i].first - bounds.window
      /\ fact[r].day <= rows[i].last + bounds.window

Candidates(r) == {Candidate(r, i) : i \in {j \in Ids : InReach(r, j)}}

\* A2 proposes a second time for a report only after a fault, so the number of
\* faults tells the two messages apart.
ProposalOf(r, c) ==
  LET decision == DecisionFor(Score(c))
  IN  [ report |-> r, decision |-> decision,
        incident |-> IF decision = "new_incident_seed" THEN NoIncident ELSE c.incident,
        score |-> Score(c),
        components |-> [ spatial |-> c.spatial, temporal |-> c.temporal,
                         semantic |-> c.semantic, visual |-> c.visual ],
        copy |-> faults ]

Proposals(r) ==
  IF Candidates(r) = {} THEN {[NoJob EXCEPT !.report = r, !.copy = faults]}
  ELSE {ProposalOf(r, c) : c \in Best(Candidates(r))}

Propose(r) ==
  /\ r \in understood \ proposed
  /\ \E p \in Proposals(r) : linked' = linked \cup {p}
  /\ \/ proposed' = proposed \cup {r} /\ UNCHANGED faults
     \/ Fault /\ UNCHANGED proposed
  /\ UNCHANGED <<config, reportVars, rows, understood, updates, priorities,
                 perceived, done, scored, routed, a3Vars>>

-----------------------------------------------------------------------------
(* A3: consolidation. *)

\* Mutant: A3 trusts A2's view and seeds without looking again.
X_Targets(p) ==
  IF \/ p.decision = "auto_link"
     \/ p.decision = "candidate_link" /\ Adjudicate(p.components)
    THEN {p.incident}
  ELSE {NoIncident}

\* The incidents A3 may settle on: A2's, if A2 is sure or the adjudicator
\* merges; else the best match of now, if it clears the bar; else a new one.
Targets(p) ==
  IF \/ p.decision = "auto_link"
     \/ p.decision = "candidate_link" /\ Adjudicate(p.components)
    THEN {p.incident}
  ELSE IF Candidates(p.report) = {} THEN {NoIncident}
  ELSE {IF JoinsOnRecheck(c) THEN c.incident ELSE NoIncident :
          c \in Best(Candidates(p.report))}

\* A message the group gave to no one else; the lookup of its key; and the
\* start of handle().
Decide(w, p) ==
  /\ w \in workers /\ pc[w] = "idle"
  /\ \A v \in workers : job[v] # p
  /\ p.report \notin done
  /\ \E i \in Targets(p) : target' = [target EXCEPT ![w] = i]
  /\ job' = [job EXCEPT ![w] = p]
  /\ pc' = [pc EXCEPT ![w] = "attach"]
  /\ UNCHANGED <<config, reportVars, rows, topics, keys, agg, faults>>

\* The placeholder row of a new incident; its counts default to zero.
Placeholder(r) ==
  [ category |-> fact[r].category, centroid |-> fact[r].spot,
    first |-> fact[r].day, last |-> fact[r].day, count |-> 0, reporters |-> 0,
    seed |-> r, band |-> "none", route |-> "none" ]

\* Mutant: the placeholder row is not inserted.
X_Attach(w) ==
  LET r == job[w].report
      i == IF target[w] = NoIncident THEN Len(rows) + 1 ELSE target[w]
  IN  /\ pc[w] = "attach"
      /\ home' = [home EXCEPT ![r] = i]
      /\ status' = [status EXCEPT ![r] = "linked"]
      /\ target' = [target EXCEPT ![w] = i]
      /\ pc' = [pc EXCEPT ![w] = "aggregate"]
      /\ UNCHANGED <<config, rows, topics, keys, job, agg, faults>>

\* `_attach`: one transaction seeds the row if need be and moves the report.
Attach(w) ==
  LET r == job[w].report
      i == IF target[w] = NoIncident THEN Len(rows) + 1 ELSE target[w]
  IN  /\ pc[w] = "attach"
      /\ rows' = IF target[w] = NoIncident THEN Append(rows, Placeholder(r)) ELSE rows
      /\ home' = [home EXCEPT ![r] = i]
      /\ status' = [status EXCEPT ![r] = "linked"]
      /\ target' = [target EXCEPT ![w] = i]
      /\ pc' = [pc EXCEPT ![w] = "aggregate"]
      /\ UNCHANGED <<config, topics, keys, job, agg, faults>>

\* The weighted centroid: a precise fix counts more than a vague one.
Centroid(rs) ==
  MapThenSumSet(LAMBDA r : fact[r].spot * fact[r].weight, rs)
    \div MapThenSumSet(LAMBDA r : fact[r].weight, rs)

\* `mode() WITHIN GROUP`: a most frequent category.
ModeCategory(rs) ==
  LET share(c) == Cardinality({r \in rs : fact[r].category = c})
      all == {fact[r].category : r \in rs}
  IN  CHOOSE c \in all : \A d \in all : share(c) >= share(d)

\* The UPDATE of `_recompute` reads the members in its own snapshot...
Aggregate(w) ==
  /\ pc[w] = "aggregate"
  /\ agg' = [agg EXCEPT ![w] = Members(target[w])]
  /\ pc' = [pc EXCEPT ![w] = "update"]
  /\ UNCHANGED <<config, reportVars, rows, topics, keys, job, target, faults>>

\* Mutant: the count is incremented, not recomputed, on a join.
X_Recomputed(row, rs) ==
  [row EXCEPT !.category = ModeCategory(rs), !.centroid = Centroid(rs),
              !.first = Min({fact[r].day : r \in rs}),
              !.last = Max({fact[r].day : r \in rs}),
              !.count = IF @ = 0 THEN 1 ELSE @,
              !.reporters = Cardinality({fact[r].device : r \in rs})]

Recomputed(row, rs) ==
  [row EXCEPT !.category = ModeCategory(rs), !.centroid = Centroid(rs),
              !.first = Min({fact[r].day : r \in rs}),
              !.last = Max({fact[r].day : r \in rs}),
              !.count = Cardinality(rs),
              !.reporters = Cardinality({fact[r].device : r \in rs})]

\* ... and then writes the row.
Update(w) ==
  /\ pc[w] = "update"
  /\ agg[w] # {}
  /\ rows' = [rows EXCEPT ![target[w]] = Recomputed(@, agg[w])]
  /\ pc' = [pc EXCEPT ![w] = "publish"]
  /\ UNCHANGED <<config, reportVars, topics, keys, job, target, agg, faults>>

Rest(w) ==
  /\ pc' = [pc EXCEPT ![w] = "idle"]
  /\ job' = [job EXCEPT ![w] = NoJob]
  /\ target' = [target EXCEPT ![w] = NoIncident]
  /\ agg' = [agg EXCEPT ![w] = {}]

\* No member left: handle() raises.  It is run again from the start, and after
\* its last attempt the message is deadlettered.
NothingToUpdate(w) ==
  /\ pc[w] = "update"
  /\ agg[w] = {}
  /\ \/ Fault /\ UNCHANGED linked
     \/ linked' = linked \ {job[w]} /\ UNCHANGED faults
  /\ Rest(w)
  /\ UNCHANGED <<config, reportVars, rows, understood, updates, priorities, keys>>

\* incidents.updated goes out, and then the key is recorded.
PublishUpdate(w) ==
  /\ pc[w] = "publish"
  /\ updates' = Append(updates,
       [ incident |-> target[w], members |-> agg[w],
         reporters |-> Cardinality({fact[r].device : r \in agg[w]}) ])
  /\ \/ done' = done \cup {job[w].report} /\ UNCHANGED faults
     \/ Fault /\ UNCHANGED done
  /\ Rest(w)
  /\ UNCHANGED <<config, reportVars, rows, understood, linked, priorities,
                 perceived, proposed, scored, routed>>

\* The worker dies, or a call of its handle() raises, between two steps.
Crash(w) ==
  /\ pc[w] # "idle"
  /\ Fault
  /\ Rest(w)
  /\ UNCHANGED <<config, reportVars, rows, topics, keys>>

-----------------------------------------------------------------------------
(* A4 and A5. *)

\* The first message of a topic for an incident: the key of every later one is
\* recorded by then, so no other is ever handled.
FirstFor(topic, i) ==
  topic[Min({k \in DOMAIN topic : topic[k].incident = i})]

Heard(topic, i) == \E k \in DOMAIN topic : topic[k].incident = i

\* What A4 can find: the members' flags and worst severity, and how many there
\* are.  The ward's road class, the places and the clock do not vary here.
SignalSpace ==
  [ flags : SUBSET UNION {UNION {Facts(c)[r].hazards : r \in DOMAIN c.raw} : c \in Cases},
    severity : 1..5, road : {"local"}, poi : {NoPoi},
    reporters : 0 .. Cardinality(Reports), age : {0},
    recent : 0 .. Cardinality(Reports), older : {0}, span : {1} ]

\* The band of each finding, as a table.
BandOf == [ s \in SignalSpace |-> Prioritized(s).band ]

\* What A4 reads: the members' own columns now, the reporters of the message.
Signals(i, u) ==
  [ flags |-> UNION {fact[r].hazards : r \in Members(i)},
    severity |-> Max({fact[r].severity : r \in Members(i)}),
    road |-> "local", poi |-> NoPoi, reporters |-> u.reporters,
    age |-> 0, recent |-> Cardinality(Members(i)), older |-> 0, span |-> 1 ]

\* Mutant: A4 reads the severities of the members and forgets their flags.
X_Prioritise(i) ==
  LET band == BandOf[[Signals(i, FirstFor(updates, i)) EXCEPT !.flags = {}]]
  IN  /\ i \notin scored /\ Heard(updates, i)
      /\ Members(i) # {}
      /\ rows' = [rows EXCEPT ![i].band = band]
      /\ priorities' = Append(priorities, [ incident |-> i, band |-> band ])
      /\ \/ scored' = scored \cup {i} /\ UNCHANGED faults
         \/ Fault /\ UNCHANGED scored
      /\ UNCHANGED <<config, reportVars, understood, linked, updates,
                     perceived, proposed, done, routed, a3Vars>>

\* Mutant: every update of an incident is scored, the key is not looked up.
X_Rescore(i) ==
  LET band == BandOf[Signals(i, updates[Len(updates)])]
  IN  /\ Heard(updates, i) /\ Members(i) # {}
      /\ rows' = [rows EXCEPT ![i].band = band]
      /\ priorities' = Append(priorities, [ incident |-> i, band |-> band ])
      /\ scored' = scored \cup {i}
      /\ UNCHANGED <<config, reportVars, understood, linked, updates,
                     perceived, proposed, done, routed, a3Vars, faults>>

Prioritise(i) ==
  LET band == BandOf[Signals(i, FirstFor(updates, i))]
  IN  /\ i \notin scored /\ Heard(updates, i)
      /\ Members(i) # {}
      /\ rows' = [rows EXCEPT ![i].band = band]
      /\ priorities' = Append(priorities, [ incident |-> i, band |-> band ])
      /\ \/ scored' = scored \cup {i} /\ UNCHANGED faults
         \/ Fault /\ UNCHANGED scored
      /\ UNCHANGED <<config, reportVars, understood, linked, updates,
                     perceived, proposed, done, routed, a3Vars>>

\* Every member has moved elsewhere: A4 skips, and records the key.
SkipVanished(i) ==
  /\ i \notin scored /\ Heard(updates, i)
  /\ Members(i) = {}
  /\ scored' = scored \cup {i}
  /\ UNCHANGED <<config, reportVars, rows, topics,
                 perceived, proposed, done, routed, a3Vars, faults>>

\* A5 routes by the band of its message and the category of the row.
Route(i) ==
  LET m == FirstFor(priorities, i)
      out == Routed(rows[i].category, m.band, rows[i].first, DEPARTMENT_REGISTRY)
  IN  /\ i \notin routed /\ Heard(priorities, i)
      /\ rows' = IF out.topic = "incidents.routed"
                   THEN [rows EXCEPT ![i].route = m.band] ELSE rows
      /\ \/ routed' = routed \cup {i} /\ UNCHANGED faults
         \/ Fault /\ UNCHANGED routed
      /\ UNCHANGED <<config, reportVars, topics,
                     perceived, proposed, done, scored, a3Vars>>

-----------------------------------------------------------------------------
A1Step == \E r \in Reports : Perceive(r) \/ SkipUnreadable(r)
A2Step == \E r \in Reports : Propose(r)
A3Step(w) ==
  \/ \E p \in linked : Decide(w, p)
  \/ Attach(w)
  \/ Aggregate(w)
  \/ Update(w)
  \/ NothingToUpdate(w)
  \/ PublishUpdate(w)
A4Step == \E i \in Ids : Prioritise(i) \/ SkipVanished(i)
A5Step == \E i \in Ids : Route(i)

Next ==
  \/ A1Step
  \/ A2Step
  \/ \E w \in workers : A3Step(w) \/ Crash(w)
  \/ A4Step
  \/ A5Step

Spec == Init /\ [][Next]_vars

\* Every agent's loop keeps polling (run_forever), and a pending message comes
\* back: as long as some agent has something to do, something is done.
FairSpec == Spec /\ WF_vars(Next)

-----------------------------------------------------------------------------
(* Properties. *)

Idle == \A w \in Workers : pc[w] = "idle"
Calm == faults = 0
Quiet == done = Legible /\ Idle

\* No member of an incident is of another category than the incident, and no
\* proposal links across categories (PRD 8.1/A2), whatever crashes and however
\* many consumers A3 has: the category is a predicate of both queries
\* (matching.py:183), so Sentinel's a2_cross_category_link never fires.
OneCategory ==
  /\ \A r \in Reports :
       home[r] # NoIncident => fact[r].category = rows[home[r]].category
  /\ \A p \in linked :
       p.incident # NoIncident => fact[p.report].category = rows[p.incident].category

\* With one consumer and no fault, the counts of a row are those of its members
\* whenever A3 is not at work on it: "can never drift" (a3_synthesis:305).
CountMatches ==
  Sole /\ Calm =>
    \A i \in Ids : (\A w \in workers : target[w] # i) =>
      /\ rows[i].count = Cardinality(Members(i))
      /\ rows[i].reporters = Cardinality({fact[r].device : r \in Members(i)})

\* With one consumer, all the reports of one thing end up in one incident, whatever
\* A2 saw when it looked and whoever died on the way: the race A3's re-check closes
\* (matching.py:11).  It takes that what else there is of their category is too
\* unlike them to be merged: a stranger in the grey zone may pull the centroid away,
\* or get one of them by a proposal that A3 does not look at again.
Same(r, s) ==
  /\ fact[r].category = fact[s].category /\ fact[r].spot = fact[s].spot
  /\ fact[r].day = fact[s].day /\ fact[r].wording = fact[s].wording

Unlike(r, s) == Likeness[fact[r].wording][fact[s].wording] < ADJUDICATION_FLOORS.semantic

Distinct(r) ==
  \A s \in Legible : fact[s].category = fact[r].category =>
    ~fact[s].blank /\ (Same(r, s) \/ Unlike(r, s))

NoTwins ==
  Sole /\ Quiet => \A r \in Legible : Distinct(r) =>
    \A s \in Legible : Same(r, s) => home[s] = home[r]

\* With one consumer, a report A3 is done with never moves again, and keeps the
\* status 'linked' unless A1 sees its message twice (base.py:219).
DoneStays ==
  [][Sole => \A r \in done : home'[r] = home[r] /\ (Calm => status'[r] = "linked")]_vars

\* rules/a2.py on a proposal, at whatever moment Sentinel looks.
FindingsOnLink(p) ==
  Found(p.decision # DecisionFor(p.score), "a2_decision_score_mismatch")
  \cup Found(p.incident # NoIncident /\ home[p.report] \notin {NoIncident, p.incident},
             "a2_report_already_linked_elsewhere")
  \cup Found(p.incident # NoIncident
               /\ rows[p.incident].category # fact[p.report].category,
             "a2_cross_category_link")

\* L2 fails a reading only because its text has no Latin letter, whatever the
\* citizen sends and the provider can do.  With one consumer and no fault, the
\* only proposal it fails is one in the grey zone that A3 declined and settled
\* first (rules/a2.py:92): an auto_link and a seed pass at any moment.
AlarmsExplained ==
  /\ \A r \in understood :
       FindingsOnReading(fact[r]) \subseteq Found(fact[r].blank, "a1_embedding_all_zero")
  /\ Sole /\ Calm => \A p \in linked : FindingsOnLink(p) # {} =>
       /\ p.decision = "candidate_link"
       /\ ~Adjudicate(p.components)
       /\ FindingsOnLink(p) = {"a2_report_already_linked_elsewhere"}

\* Without a fault, an incident is routed by the band its row shows: A4 scores
\* it once, so A5's message and the row cannot disagree (a5_routing:180).
RoutedByItsBand ==
  Calm => \A i \in Ids : rows[i].route \in {"none", rows[i].band}

\* An incident seeded by a report whose words name a life-safety hazard is
\* critical as soon as it has a score, whatever joined it before A4 looked
\* (a4_priority:279): A1's vocabulary is the one A4 has its floor for.
SeedFloored ==
  Sole /\ Calm => \A i \in Ids :
    LifeSafety(fact[rows[i].seed].named) => rows[i].band \in {"none", "critical"}

\* With one consumer every legible report gets a home in the end, and every
\* incident with a member goes through A4 and A5, whatever died on the way.
Settled ==
  /\ Quiet
  /\ \A r \in Legible : home[r] \in scored \cap routed

EverythingSettles == <>(Sole => Settled)

\* Violated: a life-safety report that joins after the incident's first update
\* never reaches A4, because that incident's key is recorded: "a life-safety
\* incident is always at least critical" (a4_priority:129).
LifeSafetyFloored ==
  Quiet /\ scored = Ids => \A i \in Ids :
    (\E r \in Members(i) : LifeSafety(fact[r].hazards)) => rows[i].band = "critical"
=============================================================================
