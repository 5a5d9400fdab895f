------------------------------ MODULE Scoring -------------------------------
(***************************************************************************)
(* A4's six-factor priority score, A5's routing policy, and the Sentinel   *)
(* L2 rules that re-check what the two emit (rules/a4.py, rules/a5.py).    *)
(*                                                                         *)
(* A factor's value is in millionths.  A contribution is a number of       *)
(* points, kept to four decimals by the code: here it is the integer       *)
(* number of ten-thousandths of a point, so that 100 points are `One` too. *)
(***************************************************************************)
EXTENDS Matching, FiniteSetsExt

-----------------------------------------------------------------------------
(* A4: the factors. *)

\* WEIGHTS of agents/a4_priority, in hundredths.
FACTOR_WEIGHTS ==
  [ hazard_severity |-> 30, exposure |-> 20, vulnerable_site_proximity |-> 15,
    corroboration |-> 15, age_unresolved |-> 10, velocity |-> 10 ]

Factors == DOMAIN FACTOR_WEIGHTS

LIFE_SAFETY_HAZARDS ==
  {"open_manhole", "live_wire", "collapsed_structure", "gas_leak"}

LIFE_SAFETY_FLOOR == 850000

LifeSafety(flags) == flags \cap LIFE_SAFETY_HAZARDS # {}

\* No member report carries a severity.
NoSeverity == 0

AtMostOne(x) == IF x > One THEN One ELSE x

HazardSeverity(flags, severity) ==
  LET base == IF severity = NoSeverity THEN 0 ELSE (severity - 1) * 250000
  IN  IF LifeSafety(flags) THEN One
      ELSE IF flags # {} THEN AtMostOne(base + 150000)
      ELSE AtMostOne(base)

ROAD_CLASS_WEIGHT ==
  [ arterial |-> One, collector |-> 600000, local |-> 300000 ]

\* A ward with no road class is scored like the least exposed one.
Exposure(road) ==
  IF road \in DOMAIN ROAD_CLASS_WEIGHT THEN ROAD_CLASS_WEIGHT[road] ELSE 300000

NoPoi == -1
POI_RADIUS_M == 500

Proximity(distance) ==
  IF distance = NoPoi THEN 0 ELSE Falloff(distance, POI_RADIUS_M)

CORROBORATION_SATURATION == 20

\* log(1 + n) / log(21), to six decimals, for n = 1 .. 20.
LogScale ==
  << 227670, 360849, 455340, 528634, 588519, 639151, 683011, 721698, 756304,
     787610, 816189, 842480, 866821, 889483, 910681, 930594, 949368, 967127,
     983974, 1000000 >>

Corroboration(reporters) ==
  IF reporters <= 0 THEN 0
  ELSE IF reporters >= CORROBORATION_SATURATION THEN One
  ELSE LogScale[reporters]

AGE_SATURATION_DAYS == 14

AgeUnresolved(days) ==
  IF days <= 0 THEN 0
  ELSE AtMostOne(Nearest(days * One, AGE_SATURATION_DAYS))

VELOCITY_SURGE_RATIO == 3

\* `older` reports over `span` days are the trailing daily mean.
Velocity(recent, older, span) ==
  IF recent <= 0 THEN 0
  ELSE IF older > 0
    THEN AtMostOne(Nearest(recent * span * One, older * VELOCITY_SURGE_RATIO))
  ELSE AtMostOne(Nearest(recent * One, 5))

\* `compute_factor_breakdown`, from what A4 reads: s is a record of signals.
FactorValue(s) ==
  [ hazard_severity |-> HazardSeverity(s.flags, s.severity),
    exposure |-> Exposure(s.road),
    vulnerable_site_proximity |-> Proximity(s.poi),
    corroboration |-> Corroboration(s.reporters),
    age_unresolved |-> AgeUnresolved(s.age),
    velocity |-> Velocity(s.recent, s.older, s.span) ]

Breakdown(s) ==
  LET value == FactorValue(s)
  IN  [ f \in Factors |->
          [ weight |-> FACTOR_WEIGHTS[f],
            contribution |-> Nearest(FACTOR_WEIGHTS[f] * value[f], 100) ] ]

Total(breakdown) ==
  breakdown.hazard_severity.contribution + breakdown.exposure.contribution
    + breakdown.vulnerable_site_proximity.contribution
    + breakdown.corroboration.contribution
    + breakdown.age_unresolved.contribution + breakdown.velocity.contribution

WeightedScore(breakdown) == AtMostOne(Total(breakdown))

\* `apply_life_safety_floor`: the floor follows the sum, it does not replace it.
Floored(score, flags) ==
  IF LifeSafety(flags) /\ score < LIFE_SAFETY_FLOOR
    THEN LIFE_SAFETY_FLOOR ELSE score

Bands == {"critical", "high", "medium", "low"}

BandFor(score) ==
  IF score >= 850000 THEN "critical"
  ELSE IF score >= 600000 THEN "high"
  ELSE IF score >= 350000 THEN "medium"
  ELSE "low"

\* What A4 emits: the payload of incidents.prioritized.
Prioritized(s) ==
  LET breakdown == Breakdown(s)
      score == Floored(WeightedScore(breakdown), s.flags)
  IN  [ score |-> score, band |-> BandFor(score), breakdown |-> breakdown,
        floored |-> LifeSafety(s.flags) ]

-----------------------------------------------------------------------------
(* A5: the routing policy. *)

\* "other" is absent on purpose: it must reach incidents.unrouted.
CATEGORY_DEPARTMENT ==
  [ pothole |-> "roads_and_infrastructure",
    road_damage |-> "roads_and_infrastructure",
    encroachment |-> "roads_and_infrastructure",
    traffic_obstruction |-> "roads_and_infrastructure",
    waterlogging |-> "drainage_and_water",
    drain_overflow |-> "drainage_and_water",
    water_supply |-> "drainage_and_water",
    sewage |-> "health", stray_animals |-> "health",
    garbage |-> "solid_waste_management",
    public_toilet |-> "solid_waste_management",
    streetlight |-> "electrical_streetlights", tree_hazard |-> "parks" ]

\* The departments table as the first migration seeds it, in hours.
DefaultSlaHours ==
  [ roads_and_infrastructure |-> 72, drainage_and_water |-> 48,
    solid_waste_management |-> 24, electrical_streetlights |-> 48,
    health |-> 24, parks |-> 120 ]

\* SLA_BAND_MULTIPLIER, in hundredths.
SLA_BAND_MULTIPLIER ==
  [ critical |-> 25, high |-> 50, medium |-> 100, low |-> 150 ]

SlaHours(department, band) ==
  (DefaultSlaHours[department] * SLA_BAND_MULTIPLIER[band]) \div 100

\* Standing water is drainage's to fix and roads' to know of.
CcDepartments(category) ==
  IF category \in {"waterlogging", "drain_overflow"}
    THEN {"roads_and_infrastructure"} ELSE {}

\* What A5 emits for a category and band, with `registry` the departments
\* rows there are and `first` the hour of the incident's first report.
Routed(category, band, first, registry) ==
  IF category \notin DOMAIN CATEGORY_DEPARTMENT
    THEN [ topic |-> "incidents.unrouted", reason |-> "unknown_category" ]
  ELSE IF CATEGORY_DEPARTMENT[category] \notin registry
    THEN [ topic |-> "incidents.unrouted", reason |-> "no_jurisdiction_match" ]
  ELSE LET department == CATEGORY_DEPARTMENT[category]
       IN  [ topic |-> "incidents.routed", department |-> department,
             cc |-> CcDepartments(category) \ {department},
             hours |-> SlaHours(department, band),
             due |-> first + SlaHours(department, band), band |-> band ]

-----------------------------------------------------------------------------
(* Sentinel L2: the invariants of the two agents.  Every finding of theirs *)
(* is a fail_hard.                                                         *)

SCORE_TOLERANCE == 5000     \* half a point

\* rules/a4.py on an incidents.prioritized payload.
FindingsOnPriority(p) ==
  LET weights == p.breakdown.hazard_severity.weight + p.breakdown.exposure.weight
                   + p.breakdown.vulnerable_site_proximity.weight
                   + p.breakdown.corroboration.weight
                   + p.breakdown.age_unresolved.weight + p.breakdown.velocity.weight
  IN  Found(Distance(weights, 100) > 1, "a4_weights_do_not_sum_to_one")
      \cup Found(p.floored /\ p.score < LIFE_SAFETY_FLOOR,
                 "a4_life_safety_floor_not_honoured")
      \cup Found(~p.floored
                   /\ Distance(Total(p.breakdown), p.score) > SCORE_TOLERANCE,
                 "a4_score_does_not_match_breakdown")

\* rules/a5.py: the registry it mirrors, and its checks of incidents.routed.
DEPARTMENT_REGISTRY == DOMAIN DefaultSlaHours

FindingsOnRoute(m) ==
  IF m.topic # "incidents.routed" THEN {}
  ELSE Found(m.department \notin DEPARTMENT_REGISTRY, "a5_department_off_registry")
       \cup Found(~(m.cc \subseteq DEPARTMENT_REGISTRY), "a5_cc_department_off_registry")
       \cup Found(m.hours <= 0, "a5_sla_not_set")
=============================================================================
