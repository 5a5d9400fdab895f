---------------------------- MODULE ScoringProofs ----------------------------
(***************************************************************************)
(* What the scores of Matching and Scoring promise for every input: their  *)
(* range, the floor for life-safety hazards, the gap in A3's re-check, and *)
(* that Sentinel's L2 rules never fail what A4 and A5 emit.                *)
(***************************************************************************)
EXTENDS Scoring, Perception, FiniteSetTheorems, WellFoundedInduction, TLAPS

-----------------------------------------------------------------------------
(* Rounding. *)

\* Rounding to the nearest integer stays within bounds that are integers.
LEMMA NearestBounds ==
  ASSUME NEW a \in Int, NEW b \in Nat \ {0}, NEW lo \in Int, NEW hi \in Int,
         lo * b <= a, a <= hi * b
  PROVE  Nearest(a, b) \in Int /\ lo <= Nearest(a, b) /\ Nearest(a, b) <= hi
<1> DEFINE q == (2 * a + b) \div (2 * b)
<1>1. /\ q \in Int
      /\ (2 * b) * q <= 2 * a + b
      /\ 2 * a + b < (2 * b) * (q + 1)
  OBVIOUS
<1>2. q <= hi
  <2>1. SUFFICES ASSUME q >= hi + 1 PROVE FALSE
    BY <1>1
  <2>2. b * q >= b * (hi + 1)
    BY <2>1, <1>1
  <2>3. b * (hi + 1) = hi * b + b
    OBVIOUS
  <2> HIDE DEF q
  <2>4. (2 * b) * q = 2 * (b * q)
    BY <1>1
  <2>5. 2 * (hi * b + b) <= 2 * a + b
    BY <1>1, <2>2, <2>3, <2>4
  <2> QED
    BY <2>5
<1>3. q >= lo
  <2>1. SUFFICES ASSUME q + 1 <= lo PROVE FALSE
    BY <1>1
  <2> HIDE DEF q
  <2>2. b * (q + 1) <= b * lo
    BY <2>1, <1>1
  <2>3. (2 * b) * (q + 1) = 2 * (b * (q + 1))
    BY <1>1
  <2>4. 2 * a + b < 2 * (b * lo)
    BY <1>1, <2>2, <2>3
  <2>5. b * lo = lo * b
    OBVIOUS
  <2> QED
    BY <2>4, <2>5
<1> QED
  BY <1>1, <1>2, <1>3 DEF Nearest

LEMMA FractionsAreIntegers ==
  \A x : x \in Fractions <=> x \in Int /\ 0 <= x /\ x <= 1000000
<1>1. One = 1000000
  BY SMT DEF One
<1>2. \A x : x \in Fractions <=> x \in Int /\ 0 <= x /\ x <= One
  <2>1. One \in Int
    BY <1>1, SMT
  <2> QED
    BY <2>1, SMT DEF Fractions
<1> QED
  BY <1>1, <1>2, SMT

-----------------------------------------------------------------------------
(* Matching. *)

LEMMA ComponentRanges ==
  ASSUME NEW c \in Components
  PROVE  /\ c.spatial \in Int /\ 0 <= c.spatial /\ c.spatial <= 1000000
         /\ c.temporal \in Int /\ 0 <= c.temporal /\ c.temporal <= 1000000
         /\ c.semantic \in Int /\ 0 <= c.semantic /\ c.semantic <= 1000000
         /\ \/ c.visual = -1
            \/ c.visual \in Int /\ 0 <= c.visual /\ c.visual <= 1000000
<1>1. /\ c.spatial \in Fractions /\ c.temporal \in Fractions /\ c.semantic \in Fractions
      /\ c.visual = NoVisual \/ c.visual \in Fractions
  BY SMT DEF Components
<1> QED
  BY <1>1, FractionsAreIntegers, SMT DEF NoVisual

\* A match score is a fraction, whatever components are missing
\* (matching.py:121-140): A2's thresholds cut a closed range.
THEOREM ScoreIsFraction ==
  ASSUME NEW c \in Components
  PROVE  Score(c) \in Fractions
<1> DEFINE measured == 35 * c.spatial + 15 * c.temporal + 35 * c.semantic
<1>1. measured \in Int /\ 0 <= measured /\ measured <= 85000000
  BY ComponentRanges, SMT
<1>2. CASE c.visual = NoVisual
  <2> HIDE DEF measured
  <2>1. Nearest(measured, 85) \in Fractions
    BY <1>1, NearestBounds, FractionsAreIntegers, SMT
  <2> QED
    BY <2>1, <1>2, SMT DEF measured, Score, WEIGHTS
<1>3. CASE c.visual # NoVisual
  <2> DEFINE seen == measured + 15 * c.visual
  <2>1. seen \in Int /\ 0 <= seen /\ seen <= 100000000
    <3>1. c.visual \in Int /\ 0 <= c.visual /\ c.visual <= 1000000
      BY <1>3, ComponentRanges, SMT DEF NoVisual
    <3> HIDE DEF measured
    <3> QED
      BY <1>1, <3>1, SMT
  <2>2. Nearest(seen, 100) \in Fractions
    <3> HIDE DEF seen
    <3> QED
      BY <2>1, NearestBounds, FractionsAreIntegers, SMT
  <2> QED
    BY <2>2, <1>3, SMT DEF Score, WEIGHTS
<1> QED
  BY <1>2, <1>3

\* What the adjudicator merges scores 0.544 at least, if nothing was seen
\* (a3_synthesis:78-132): the floors alone keep far-fetched matches out.
THEOREM MergedIsClose ==
  ASSUME NEW c \in Components, c.visual = NoVisual, Adjudicate(c)
  PROVE  Score(c) >= 544117
<1> DEFINE measured == 35 * c.spatial + 15 * c.temporal + 35 * c.semantic
<1>1. measured \in Int /\ 46250000 <= measured /\ measured <= 85000000
  BY ComponentRanges, SMT DEF Adjudicate, ADJUDICATION_FLOORS
<1> HIDE DEF measured
<1>2. Nearest(measured, 85) >= 544117
  BY <1>1, NearestBounds, SMT
<1> QED
  BY <1>2, SMT DEF measured, Score, WEIGHTS

\* A3's re-check is looser than the path it stands in for: some candidate that
\* A2 makes a new incident of is joined (a3_synthesis:239-241).
THEOREM RecheckIsLooser ==
  \E c \in Components : DecisionFor(Score(c)) = "new_incident_seed" /\ JoinsOnRecheck(c)
<1> DEFINE c == [ spatial |-> 750000, temporal |-> 750000, semantic |-> 250000,
                  visual |-> NoVisual ]
<1>1. c \in Components
  <2>1. 750000 \in Fractions /\ 250000 \in Fractions
    BY FractionsAreIntegers, SMT
  <2> QED
    BY <2>1, SMT DEF Components
<1>2. Score(c) = 544118
  <2>1. Score(c) = Nearest(46250000, 85)
    BY SMT DEF Score, WEIGHTS
  <2> QED
    BY <2>1, SMT DEF Nearest
<1>3. DecisionFor(Score(c)) = "new_incident_seed"
  BY <1>2, SMT DEF DecisionFor, AUTO_LINK_THRESHOLD, CANDIDATE_THRESHOLD
<1>4. JoinsOnRecheck(c)
  BY SMT DEF JoinsOnRecheck, Adjudicate, ADJUDICATION_FLOORS
<1> HIDE DEF c
<1> QED
  BY <1>1, <1>3, <1>4

-----------------------------------------------------------------------------
(* A4's factors. *)

\* Whatever A4 can read of an incident, whatever names there are for hazards and
\* road classes: any flags, a severity or none, any road class, a place at any
\* distance or none, any counts and ages.
SignalRecords(Names) ==
  [ flags : SUBSET Names, severity : 0 .. 5, road : Names, poi : Nat \cup {NoPoi},
    reporters : Nat, age : Nat, recent : Nat, older : Nat, span : Nat \ {0} ]

LEMMA OneIsMillion == One \in Nat /\ One = 1000000
  BY SMT DEF One

LEMMA NearestIsNatural ==
  ASSUME NEW a \in Nat, NEW b \in Nat \ {0}
  PROVE  Nearest(a, b) \in Nat
<1>1. 2 * b \in Nat \ {0} /\ 2 * a + b \in Nat
  BY SMT
<1> DEFINE m == 2 * a + b
           d == 2 * b
<1>2. ASSUME NEW x \in Nat, NEW y \in Nat \ {0} PROVE x \div y \in Nat
  BY SMT
<1> HIDE DEF m, d
<1>3. m \div d \in Nat
  BY <1>1, <1>2 DEF m, d
<1> QED
  BY <1>3 DEF m, d, Nearest

\* Rounding keeps the order.
LEMMA NearestIsMonotone ==
  ASSUME NEW a \in Nat, NEW b \in Nat, NEW d \in Nat \ {0}, a <= b
  PROVE  Nearest(a, d) <= Nearest(b, d)
<1> DEFINE p == (2 * a + d) \div (2 * d)
           q == (2 * b + d) \div (2 * d)
<1>1. /\ p \in Int /\ (2 * d) * p <= 2 * a + d
      /\ q \in Int /\ 2 * b + d < (2 * d) * (q + 1)
  BY SMT
<1> HIDE DEF p, q
<1>2. SUFFICES ASSUME q + 1 <= p PROVE FALSE
  BY <1>1, SMT DEF p, q, Nearest
<1>3. (2 * d) * (q + 1) <= (2 * d) * p
  BY <1>1, <1>2, SMT
<1> QED
  BY <1>1, <1>3, SMT

LEMMA AtMostOneIsFraction ==
  ASSUME NEW x \in Nat
  PROVE  AtMostOne(x) \in Fractions
<1>1. CASE x > One
  BY <1>1, OneIsMillion, FractionsAreIntegers, SMT DEF AtMostOne
<1>2. CASE ~(x > One)
  BY <1>2, OneIsMillion, FractionsAreIntegers, SMT DEF AtMostOne
<1> QED
  BY <1>1, <1>2

LEMMA FalloffIsFraction ==
  ASSUME NEW x \in Nat, NEW bound \in Nat
  PROVE  Falloff(x, bound) \in Fractions
<1>1. CASE bound > 0 /\ x < bound
  <2> DEFINE a == (bound - x) * One
  <2>1. a \in Int /\ 0 * bound <= a /\ a <= One * bound
    BY <1>1, OneIsMillion, SMT
  <2> HIDE DEF a
  <2>2. Nearest(a, bound) \in Int /\ 0 <= Nearest(a, bound) /\ Nearest(a, bound) <= One
    <3> DEFINE low == 0
    <3>1. bound \in Nat \ {0} /\ One \in Int /\ a \in Int /\ low \in Int /\ low * bound <= a
      BY <1>1, <2>1, OneIsMillion, SMT
    <3>2. low = 0
      OBVIOUS
    <3> HIDE DEF low
    <3>3. low <= Nearest(a, bound) /\ Nearest(a, bound) <= One /\ Nearest(a, bound) \in Int
      BY <2>1, <3>1, NearestBounds
    <3> QED
      BY <3>2, <3>3, SMT
  <2> QED
    BY <1>1, <2>2, OneIsMillion, FractionsAreIntegers, SMT DEF a, Falloff
<1>2. CASE ~(bound > 0 /\ x < bound)
  BY <1>2, FractionsAreIntegers, SMT DEF Falloff
<1> QED
  BY <1>1, <1>2

LEMMA LogScaleGrows ==
  /\ \A i \in 1 .. 20 : LogScale[i] \in Fractions
  /\ \A i, j \in 1 .. 20 : i <= j => LogScale[i] <= LogScale[j]
<1>1. /\ \A i \in 1 .. 20 : /\ LogScale[i] \in Int
                            /\ 0 <= LogScale[i] /\ LogScale[i] <= 1000000
      /\ \A i, j \in 1 .. 20 : i <= j => LogScale[i] <= LogScale[j]
  BY SMTT(60) DEF LogScale
<1> QED
  BY <1>1, FractionsAreIntegers, SMT

LEMMA SignalFields ==
  ASSUME NEW Names, NEW s \in SignalRecords(Names)
  PROVE  /\ s.severity \in 0 .. 5
         /\ s.poi \in Nat \/ s.poi = NoPoi
         /\ s.reporters \in Nat /\ s.age \in Nat /\ s.recent \in Nat
         /\ s.older \in Nat /\ s.span \in Nat /\ s.span > 0
  BY SMT DEF SignalRecords

LEMMA HazardIsFraction ==
  ASSUME NEW flags, NEW severity \in 0 .. 5
  PROVE  HazardSeverity(flags, severity) \in Fractions
<1> DEFINE base == IF severity = NoSeverity THEN 0 ELSE (severity - 1) * 250000
<1>1. base \in Nat /\ base + 150000 \in Nat
  BY SMT DEF NoSeverity
<1>2. One \in Fractions
  BY OneIsMillion, FractionsAreIntegers, SMT
<1> HIDE DEF base
<1>3. AtMostOne(base) \in Fractions /\ AtMostOne(base + 150000) \in Fractions
  BY <1>1, AtMostOneIsFraction
<1> QED
  BY <1>2, <1>3, SMT DEF base, HazardSeverity

LEMMA ExposureIsFraction ==
  ASSUME NEW road PROVE Exposure(road) \in Fractions
<1>1. ROAD_CLASS_WEIGHT.arterial \in Fractions
  BY OneIsMillion, FractionsAreIntegers, SMT DEF ROAD_CLASS_WEIGHT
<1>2. ROAD_CLASS_WEIGHT.collector \in Fractions /\ ROAD_CLASS_WEIGHT.local \in Fractions
  BY FractionsAreIntegers, SMT DEF ROAD_CLASS_WEIGHT
<1>3. DOMAIN ROAD_CLASS_WEIGHT = {"arterial", "collector", "local"}
  BY SMT DEF ROAD_CLASS_WEIGHT
<1>4. CASE road \in DOMAIN ROAD_CLASS_WEIGHT
  BY <1>1, <1>2, <1>3, <1>4, SMT DEF Exposure
<1>5. CASE road \notin DOMAIN ROAD_CLASS_WEIGHT
  BY <1>5, FractionsAreIntegers, SMT DEF Exposure
<1> QED
  BY <1>4, <1>5

LEMMA ProximityIsFraction ==
  ASSUME NEW distance, distance \in Nat \/ distance = NoPoi
  PROVE  Proximity(distance) \in Fractions
<1>1. CASE distance = NoPoi
  BY <1>1, FractionsAreIntegers, SMT DEF Proximity
<1>2. CASE distance # NoPoi
  <2>1. distance \in Nat /\ POI_RADIUS_M \in Nat
    BY <1>2, SMT DEF POI_RADIUS_M
  <2>2. Falloff(distance, POI_RADIUS_M) \in Fractions
    BY <2>1, FalloffIsFraction
  <2> QED
    BY <1>2, <2>2 DEF Proximity
<1> QED
  BY <1>1, <1>2

\* More reporters never weigh less.
LEMMA CorroborationGrows ==
  /\ \A n \in Nat : Corroboration(n) \in Fractions
  /\ \A m, n \in Nat : m <= n => Corroboration(m) <= Corroboration(n)
<1>1. \A n \in Nat : n > 0 /\ n < 20 => Corroboration(n) = LogScale[n] /\ n \in 1 .. 20
  BY SMT DEF Corroboration, CORROBORATION_SATURATION
<1>2. \A n \in Nat : n >= 20 => Corroboration(n) = One
  BY SMT DEF Corroboration, CORROBORATION_SATURATION
<1>3. Corroboration(0) = 0
  BY SMT DEF Corroboration
<1>4. \A n \in Nat : Corroboration(n) \in Fractions
  BY <1>1, <1>2, <1>3, OneIsMillion, LogScaleGrows, FractionsAreIntegers, SMT
<1>5. ASSUME NEW m \in Nat, NEW n \in Nat, m <= n
      PROVE  Corroboration(m) <= Corroboration(n)
  BY <1>1, <1>2, <1>3, <1>4, <1>5, OneIsMillion, LogScaleGrows, FractionsAreIntegers, SMT
<1> QED
  BY <1>4, <1>5

LEMMA AgeGrows ==
  /\ \A n \in Nat : AgeUnresolved(n) \in Fractions
  /\ \A m, n \in Nat : m <= n => AgeUnresolved(m) <= AgeUnresolved(n)
<1> DEFINE part(n) == Nearest(n * One, 14)
<1>1. \A n \in Nat : n * One \in Nat
  BY OneIsMillion, SMT
<1>2. \A n \in Nat : part(n) \in Nat
  <2> SUFFICES ASSUME NEW n \in Nat PROVE part(n) \in Nat
    OBVIOUS
  <2> DEFINE a == n * One
  <2>1. a \in Nat /\ 14 \in Nat \ {0}
    BY <1>1, SMT
  <2> HIDE DEF a
  <2>2. Nearest(a, 14) \in Nat
    BY <2>1, NearestIsNatural
  <2> QED
    BY <2>2 DEF a
<1>3. \A m, n \in Nat : m <= n => part(m) <= part(n)
  <2> SUFFICES ASSUME NEW m \in Nat, NEW n \in Nat, m <= n PROVE part(m) <= part(n)
    OBVIOUS
  <2> DEFINE a == m * One
             b == n * One
  <2>1. a \in Nat /\ b \in Nat /\ a <= b /\ 14 \in Nat \ {0}
    BY <1>1, OneIsMillion, SMT
  <2> HIDE DEF a, b
  <2>2. Nearest(a, 14) <= Nearest(b, 14)
    BY <2>1, NearestIsMonotone
  <2> QED
    BY <2>2 DEF a, b
<1> HIDE DEF part
<1>4. \A n \in Nat : AgeUnresolved(n) = IF n <= 0 THEN 0 ELSE AtMostOne(part(n))
  BY DEF part, AgeUnresolved, AGE_SATURATION_DAYS
<1>5. \A n \in Nat : AgeUnresolved(n) \in Fractions
  BY <1>2, <1>4, AtMostOneIsFraction, FractionsAreIntegers, SMT
<1>6. \A m, n \in Nat : m <= n => AgeUnresolved(m) <= AgeUnresolved(n)
  <2>1. \A x, y \in Nat : x <= y => AtMostOne(x) <= AtMostOne(y)
    BY OneIsMillion, SMT DEF AtMostOne
  <2>2. \A x \in Nat : AtMostOne(x) >= 0
    BY AtMostOneIsFraction, FractionsAreIntegers, SMT
  <2> QED
    BY <1>2, <1>3, <1>4, <2>1, <2>2, SMT
<1> QED
  BY <1>5, <1>6

LEMMA VelocityIsFraction ==
  ASSUME NEW recent \in Nat, NEW older \in Nat, NEW span \in Nat, span > 0
  PROVE  Velocity(recent, older, span) \in Fractions
<1>1. CASE recent <= 0
  BY <1>1, FractionsAreIntegers, SMT DEF Velocity
<1>2. CASE recent > 0 /\ older > 0
  <2> DEFINE a == recent * span * One
             b == older * VELOCITY_SURGE_RATIO
  <2>1. b \in Nat \ {0}
    BY <1>2, SMT DEF VELOCITY_SURGE_RATIO
  <2>2. recent * span \in Nat
    BY SMT
  <2>3. a \in Nat
    BY <2>2, OneIsMillion, SMT
  <2> HIDE DEF a, b
  <2>4. AtMostOne(Nearest(a, b)) \in Fractions
    BY <2>1, <2>3, NearestIsNatural, AtMostOneIsFraction
  <2>5. ~(recent <= 0)
    BY <1>2, SMT
  <2> QED
    BY <1>2, <2>4, <2>5 DEF a, b, Velocity
<1>3. CASE recent > 0 /\ ~(older > 0)
  <2> DEFINE a == recent * One
  <2>1. a \in Nat /\ 5 \in Nat \ {0}
    BY OneIsMillion, SMT
  <2> HIDE DEF a
  <2>2. AtMostOne(Nearest(a, 5)) \in Fractions
    BY <2>1, NearestIsNatural, AtMostOneIsFraction
  <2>3. ~(recent <= 0)
    BY <1>3, SMT
  <2> QED
    BY <1>3, <2>2, <2>3 DEF a, Velocity
<1> QED
  BY <1>1, <1>2, <1>3, SMT

-----------------------------------------------------------------------------
(* A4's score. *)

LEMMA FactorsAreFractions ==
  ASSUME NEW Names, NEW s \in SignalRecords(Names)
  PROVE  /\ FactorValue(s).hazard_severity \in Fractions
         /\ FactorValue(s).exposure \in Fractions
         /\ FactorValue(s).vulnerable_site_proximity \in Fractions
         /\ FactorValue(s).corroboration \in Fractions
         /\ FactorValue(s).age_unresolved \in Fractions
         /\ FactorValue(s).velocity \in Fractions
<1>1. HazardSeverity(s.flags, s.severity) \in Fractions
  BY SignalFields, HazardIsFraction
<1>2. Exposure(s.road) \in Fractions
  BY ExposureIsFraction
<1>3. Proximity(s.poi) \in Fractions
  BY SignalFields, ProximityIsFraction
<1>4. Corroboration(s.reporters) \in Fractions /\ AgeUnresolved(s.age) \in Fractions
  BY SignalFields, CorroborationGrows, AgeGrows
<1>5. Velocity(s.recent, s.older, s.span) \in Fractions
  BY SignalFields, VelocityIsFraction
<1> QED
  BY <1>1, <1>2, <1>3, <1>4, <1>5 DEF FactorValue

\* A factor of weight w hundredths contributes at most w points.
LEMMA ContributionBounds ==
  ASSUME NEW w \in Nat, NEW v \in Fractions
  PROVE  Nearest(w * v, 100) \in Nat /\ Nearest(w * v, 100) <= w * 10000
<1> DEFINE a == w * v
           top == w * 10000
<1>1. v \in Int /\ 0 <= v /\ v <= 1000000
  BY FractionsAreIntegers
<1>2. a \in Nat
  BY <1>1, SMT
<1>3. w * v <= w * 1000000
  BY <1>1, SMT
<1>4. top \in Int /\ a <= top * 100
  BY <1>3, SMT
<1> DEFINE low == 0
<1>5. low \in Int /\ low * 100 <= a /\ 100 \in Nat \ {0} /\ a \in Int
  BY <1>2, SMT
<1> HIDE DEF a, top, low
<1>6. Nearest(a, 100) \in Nat
  BY <1>2, <1>5, NearestIsNatural
<1>7. Nearest(a, 100) <= top
  BY <1>4, <1>5, NearestBounds
<1> QED
  BY <1>6, <1>7 DEF a, top

\* The contribution of a factor.
Contribution(s, f) == Breakdown(s)[f].contribution

LEMMA Contributions ==
  ASSUME NEW Names, NEW s \in SignalRecords(Names)
  PROVE  /\ Contribution(s, "hazard_severity") = Nearest(30 * FactorValue(s).hazard_severity, 100)
         /\ Contribution(s, "exposure") = Nearest(20 * FactorValue(s).exposure, 100)
         /\ Contribution(s, "vulnerable_site_proximity")
              = Nearest(15 * FactorValue(s).vulnerable_site_proximity, 100)
         /\ Contribution(s, "corroboration") = Nearest(15 * FactorValue(s).corroboration, 100)
         /\ Contribution(s, "age_unresolved") = Nearest(10 * FactorValue(s).age_unresolved, 100)
         /\ Contribution(s, "velocity") = Nearest(10 * FactorValue(s).velocity, 100)
<1>1. Factors = {"hazard_severity", "exposure", "vulnerable_site_proximity",
                 "corroboration", "age_unresolved", "velocity"}
  BY SMT DEF Factors, FACTOR_WEIGHTS
<1>2. /\ FACTOR_WEIGHTS["hazard_severity"] = 30 /\ FACTOR_WEIGHTS["exposure"] = 20
      /\ FACTOR_WEIGHTS["vulnerable_site_proximity"] = 15
      /\ FACTOR_WEIGHTS["corroboration"] = 15 /\ FACTOR_WEIGHTS["age_unresolved"] = 10
      /\ FACTOR_WEIGHTS["velocity"] = 10
  BY SMT DEF FACTOR_WEIGHTS
<1>3. \A f \in Factors :
        /\ Contribution(s, f) = Nearest(FACTOR_WEIGHTS[f] * FactorValue(s)[f], 100)
        /\ Breakdown(s)[f].weight = FACTOR_WEIGHTS[f]
  BY DEF Contribution, Breakdown
<1> QED
  BY <1>1, <1>2, <1>3, SMT

LEMMA TotalBounds ==
  ASSUME NEW Names, NEW s \in SignalRecords(Names)
  PROVE  /\ Total(Breakdown(s)) \in Nat
         /\ Total(Breakdown(s)) <= One
         /\ WeightedScore(Breakdown(s)) = Total(Breakdown(s))
<1> DEFINE value == FactorValue(s)
<1>1. /\ Contribution(s, "hazard_severity") \in Nat
      /\ Contribution(s, "hazard_severity") <= 300000
  <2>1. Nearest(30 * value.hazard_severity, 100) \in Nat
        /\ Nearest(30 * value.hazard_severity, 100) <= 30 * 10000
    BY FactorsAreFractions, ContributionBounds
  <2> QED
    BY <2>1, Contributions, SMT
<1>2. /\ Contribution(s, "exposure") \in Nat
      /\ Contribution(s, "exposure") <= 200000
  <2>1. Nearest(20 * value.exposure, 100) \in Nat
        /\ Nearest(20 * value.exposure, 100) <= 20 * 10000
    BY FactorsAreFractions, ContributionBounds
  <2> QED
    BY <2>1, Contributions, SMT
<1>3. /\ Contribution(s, "vulnerable_site_proximity") \in Nat
      /\ Contribution(s, "vulnerable_site_proximity") <= 150000
  <2>1. Nearest(15 * value.vulnerable_site_proximity, 100) \in Nat
        /\ Nearest(15 * value.vulnerable_site_proximity, 100) <= 15 * 10000
    BY FactorsAreFractions, ContributionBounds
  <2> QED
    BY <2>1, Contributions, SMT
<1>4. /\ Contribution(s, "corroboration") \in Nat
      /\ Contribution(s, "corroboration") <= 150000
  <2>1. Nearest(15 * value.corroboration, 100) \in Nat
        /\ Nearest(15 * value.corroboration, 100) <= 15 * 10000
    BY FactorsAreFractions, ContributionBounds
  <2> QED
    BY <2>1, Contributions, SMT
<1>5. /\ Contribution(s, "age_unresolved") \in Nat
      /\ Contribution(s, "age_unresolved") <= 100000
  <2>1. Nearest(10 * value.age_unresolved, 100) \in Nat
        /\ Nearest(10 * value.age_unresolved, 100) <= 10 * 10000
    BY FactorsAreFractions, ContributionBounds
  <2> QED
    BY <2>1, Contributions, SMT
<1>6. /\ Contribution(s, "velocity") \in Nat
      /\ Contribution(s, "velocity") <= 100000
  <2>1. Nearest(10 * value.velocity, 100) \in Nat
        /\ Nearest(10 * value.velocity, 100) <= 10 * 10000
    BY FactorsAreFractions, ContributionBounds
  <2> QED
    BY <2>1, Contributions, SMT
<1>7. Total(Breakdown(s)) =
        Contribution(s, "hazard_severity") + Contribution(s, "exposure")
          + Contribution(s, "vulnerable_site_proximity") + Contribution(s, "corroboration")
          + Contribution(s, "age_unresolved") + Contribution(s, "velocity")
  BY DEF Total, Contribution
<1>8. Total(Breakdown(s)) \in Nat /\ Total(Breakdown(s)) <= 1000000
  BY <1>1, <1>2, <1>3, <1>4, <1>5, <1>6, <1>7, SMT
<1> QED
  BY <1>8, OneIsMillion, SMT DEF WeightedScore, AtMostOne

\* A life-safety hazard makes an incident critical, whatever else is known of it
\* (a4_priority:126-130, 279-283): the floor and the band's cutoff agree.
THEOREM LifeSafetyIsCritical ==
  ASSUME NEW Names, NEW s \in SignalRecords(Names), LifeSafety(s.flags)
  PROVE  Prioritized(s).band = "critical"
<1> DEFINE score == Floored(WeightedScore(Breakdown(s)), s.flags)
<1>1. WeightedScore(Breakdown(s)) \in Nat
  BY TotalBounds
<1>2. score \in Nat /\ score >= 850000
  BY <1>1, SMT DEF Floored, LIFE_SAFETY_FLOOR
<1>3. Prioritized(s).band = BandFor(score)
  BY DEF Prioritized
<1> HIDE DEF score
<1> QED
  BY <1>2, <1>3, SMT DEF BandFor

\* Whatever A4 reads, what it emits passes every rule Sentinel has for it: the
\* weights, the floor, and a score that is the sum of its breakdown
\* (rules/a4.py:44-137 against a4_priority:242-373).
THEOREM PriorityPassesL2 ==
  ASSUME NEW Names, NEW s \in SignalRecords(Names)
  PROVE  FindingsOnPriority(Prioritized(s)) = {}
<1> DEFINE p == Prioritized(s)
           b == Breakdown(s)
           score == Floored(WeightedScore(b), s.flags)
<1>1. /\ p.score = score /\ p.breakdown = b /\ p.floored = LifeSafety(s.flags)
  BY DEF Prioritized
<1>2. b.hazard_severity.weight + b.exposure.weight + b.vulnerable_site_proximity.weight
        + b.corroboration.weight + b.age_unresolved.weight + b.velocity.weight = 100
  <2>1. Factors = {"hazard_severity", "exposure", "vulnerable_site_proximity",
                   "corroboration", "age_unresolved", "velocity"}
    BY SMT DEF Factors, FACTOR_WEIGHTS
  <2>2. /\ FACTOR_WEIGHTS["hazard_severity"] = 30 /\ FACTOR_WEIGHTS["exposure"] = 20
        /\ FACTOR_WEIGHTS["vulnerable_site_proximity"] = 15
        /\ FACTOR_WEIGHTS["corroboration"] = 15 /\ FACTOR_WEIGHTS["age_unresolved"] = 10
        /\ FACTOR_WEIGHTS["velocity"] = 10
    BY SMT DEF FACTOR_WEIGHTS
  <2>3. \A f \in Factors : b[f].weight = FACTOR_WEIGHTS[f]
    BY DEF Breakdown
  <2> HIDE DEF b
  <2> QED
    BY <2>1, <2>2, <2>3, SMT
<1>3. Total(b) \in Nat /\ WeightedScore(b) = Total(b)
  BY TotalBounds
<1> HIDE DEF p, b
<1>4. ~(p.floored /\ p.score < LIFE_SAFETY_FLOOR)
  BY <1>1, <1>3, SMT DEF score, Floored, LIFE_SAFETY_FLOOR
<1>5. ~p.floored => p.score = Total(b)
  BY <1>1, <1>3 DEF score, Floored
<1>6. ~(~p.floored /\ Distance(Total(p.breakdown), p.score) > SCORE_TOLERANCE)
  BY <1>1, <1>3, <1>5, SMT DEF Distance, SCORE_TOLERANCE
<1>7. ~(Distance(100, 100) > 1)
  BY SMT DEF Distance
<1>8. FindingsOnPriority(p) = {}
  BY <1>1, <1>2, <1>4, <1>6, <1>7, SMT DEF FindingsOnPriority, Found
<1> QED
  BY <1>8 DEF p

LEMMA HazardGrows ==
  ASSUME NEW F, NEW G, F \subseteq G, NEW m \in 0 .. 5, NEW n \in 0 .. 5, m <= n
  PROVE  HazardSeverity(F, m) <= HazardSeverity(G, n)
<1> DEFINE base(k) == IF k = NoSeverity THEN 0 ELSE (k - 1) * 250000
<1>1. /\ base(m) \in Nat /\ base(n) \in Nat /\ base(m) <= base(n)
      /\ base(m) + 150000 \in Nat /\ base(n) + 150000 \in Nat
  BY SMT DEF NoSeverity
<1>2. LifeSafety(F) => LifeSafety(G)
  BY DEF LifeSafety
<1>3. F # {} => G # {}
  OBVIOUS
<1>4. \A x, y \in Nat : x <= y => AtMostOne(x) <= AtMostOne(y)
  BY OneIsMillion, SMT DEF AtMostOne
<1>5. \A x \in Nat : AtMostOne(x) \in Nat /\ AtMostOne(x) <= One
  BY OneIsMillion, SMT DEF AtMostOne
<1> HIDE DEF base
<1>6. \A H : \A k \in {m, n} : HazardSeverity(H, k) =
        IF LifeSafety(H) THEN One
        ELSE IF H # {} THEN AtMostOne(base(k) + 150000) ELSE AtMostOne(base(k))
  BY DEF HazardSeverity, base
<1> QED
  BY <1>1, <1>2, <1>3, <1>4, <1>5, <1>6, OneIsMillion, SMT

\* An incident that gets worse never loses points: more hazards, a higher worst
\* severity, more reporters or more age, all else equal (a4_priority:166-283).
THEOREM WorseNeverScoresLower ==
  ASSUME NEW Names, NEW s \in SignalRecords(Names), NEW t \in SignalRecords(Names),
         s.flags \subseteq t.flags, s.severity <= t.severity,
         s.reporters <= t.reporters, s.age <= t.age,
         s.road = t.road, s.poi = t.poi,
         s.recent = t.recent, s.older = t.older, s.span = t.span
  PROVE  Prioritized(s).score <= Prioritized(t).score
<1>1. /\ FactorValue(s).hazard_severity <= FactorValue(t).hazard_severity
      /\ FactorValue(s).corroboration <= FactorValue(t).corroboration
      /\ FactorValue(s).age_unresolved <= FactorValue(t).age_unresolved
  <2>1. HazardSeverity(s.flags, s.severity) <= HazardSeverity(t.flags, t.severity)
    BY SignalFields, HazardGrows
  <2>2. /\ Corroboration(s.reporters) <= Corroboration(t.reporters)
        /\ AgeUnresolved(s.age) <= AgeUnresolved(t.age)
    BY SignalFields, CorroborationGrows, AgeGrows
  <2> QED
    BY <2>1, <2>2 DEF FactorValue
<1>2. /\ FactorValue(s).exposure = FactorValue(t).exposure
      /\ FactorValue(s).vulnerable_site_proximity = FactorValue(t).vulnerable_site_proximity
      /\ FactorValue(s).velocity = FactorValue(t).velocity
  BY DEF FactorValue
<1>3. ASSUME NEW w \in Nat, NEW u \in Fractions, NEW v \in Fractions, u <= v
      PROVE  Nearest(w * u, 100) <= Nearest(w * v, 100)
  <2> DEFINE a == w * u
             b == w * v
  <2>1. u \in Int /\ 0 <= u /\ v \in Int /\ 0 <= v
    BY FractionsAreIntegers
  <2>2. a \in Nat /\ b \in Nat /\ a <= b /\ 100 \in Nat \ {0}
    BY <1>3, <2>1, SMT
  <2> HIDE DEF a, b
  <2>3. Nearest(a, 100) <= Nearest(b, 100)
    BY <2>2, NearestIsMonotone
  <2> QED
    BY <2>3 DEF a, b
<1>4. ASSUME NEW f \in Factors
      PROVE  Contribution(s, f) \in Nat /\ Contribution(t, f) \in Nat
             /\ Contribution(s, f) <= Contribution(t, f)
  <2>1. Factors = {"hazard_severity", "exposure", "vulnerable_site_proximity",
                   "corroboration", "age_unresolved", "velocity"}
    BY SMT DEF Factors, FACTOR_WEIGHTS
  <2>2. ASSUME NEW w \in Nat, NEW u \in Fractions PROVE Nearest(w * u, 100) \in Nat
    BY ContributionBounds
  <2>3. /\ Nearest(30 * FactorValue(s).hazard_severity, 100)
             <= Nearest(30 * FactorValue(t).hazard_severity, 100)
        /\ Nearest(15 * FactorValue(s).corroboration, 100)
             <= Nearest(15 * FactorValue(t).corroboration, 100)
        /\ Nearest(10 * FactorValue(s).age_unresolved, 100)
             <= Nearest(10 * FactorValue(t).age_unresolved, 100)
    BY <1>1, <1>3, FactorsAreFractions
  <2>4. \A r \in {s, t} :
          /\ Contribution(r, "hazard_severity") \in Nat /\ Contribution(r, "exposure") \in Nat
          /\ Contribution(r, "vulnerable_site_proximity") \in Nat
          /\ Contribution(r, "corroboration") \in Nat
          /\ Contribution(r, "age_unresolved") \in Nat /\ Contribution(r, "velocity") \in Nat
    <3> SUFFICES ASSUME NEW r \in SignalRecords(Names)
                 PROVE  /\ Contribution(r, "hazard_severity") \in Nat
                        /\ Contribution(r, "exposure") \in Nat
                        /\ Contribution(r, "vulnerable_site_proximity") \in Nat
                        /\ Contribution(r, "corroboration") \in Nat
                        /\ Contribution(r, "age_unresolved") \in Nat
                        /\ Contribution(r, "velocity") \in Nat
      OBVIOUS
    <3>1. /\ Nearest(30 * FactorValue(r).hazard_severity, 100) \in Nat
          /\ Nearest(20 * FactorValue(r).exposure, 100) \in Nat
          /\ Nearest(15 * FactorValue(r).vulnerable_site_proximity, 100) \in Nat
          /\ Nearest(15 * FactorValue(r).corroboration, 100) \in Nat
          /\ Nearest(10 * FactorValue(r).age_unresolved, 100) \in Nat
          /\ Nearest(10 * FactorValue(r).velocity, 100) \in Nat
      BY <2>2, FactorsAreFractions
    <3> QED
      BY <3>1, Contributions
  <2>5. /\ Contribution(s, "exposure") = Contribution(t, "exposure")
        /\ Contribution(s, "vulnerable_site_proximity")
             = Contribution(t, "vulnerable_site_proximity")
        /\ Contribution(s, "velocity") = Contribution(t, "velocity")
    BY <1>2, Contributions
  <2>6. /\ Contribution(s, "hazard_severity") <= Contribution(t, "hazard_severity")
        /\ Contribution(s, "corroboration") <= Contribution(t, "corroboration")
        /\ Contribution(s, "age_unresolved") <= Contribution(t, "age_unresolved")
    BY <2>3, Contributions
  <2> QED
    BY <2>1, <2>4, <2>5, <2>6, SMT
<1>5. Total(Breakdown(s)) <= Total(Breakdown(t))
  <2>1. \A r : Total(Breakdown(r)) =
          Contribution(r, "hazard_severity") + Contribution(r, "exposure")
            + Contribution(r, "vulnerable_site_proximity") + Contribution(r, "corroboration")
            + Contribution(r, "age_unresolved") + Contribution(r, "velocity")
    BY DEF Total, Contribution
  <2>2. {"hazard_severity", "exposure", "vulnerable_site_proximity",
         "corroboration", "age_unresolved", "velocity"} \subseteq Factors
    BY SMT DEF Factors, FACTOR_WEIGHTS
  <2> QED
    BY <1>4, <2>1, <2>2, SMT
<1>6. LifeSafety(s.flags) => LifeSafety(t.flags)
  BY DEF LifeSafety
<1>7. \A r \in {s, t} : /\ WeightedScore(Breakdown(r)) = Total(Breakdown(r))
                        /\ Total(Breakdown(r)) \in Nat
  BY TotalBounds
<1>8. \A r : Prioritized(r).score = Floored(WeightedScore(Breakdown(r)), r.flags)
  BY DEF Prioritized
<1> QED
  BY <1>5, <1>6, <1>7, <1>8, SMT DEF Floored, LIFE_SAFETY_FLOOR

-----------------------------------------------------------------------------
(* A5 and A1 against Sentinel's rules. *)

\* Whatever the category and the departments the database has, what A5 routes
\* passes every rule Sentinel has for it: both read the same registry, and no
\* deadline rounds down to nothing (rules/a5.py:48-104 against a5_routing:159-251).
THEOREM RoutePassesL2 ==
  ASSUME NEW category, NEW band \in Bands, NEW first \in Int, NEW registry
  PROVE  FindingsOnRoute(Routed(category, band, first, registry)) = {}
<1> DEFINE m == Routed(category, band, first, registry)
           d == CATEGORY_DEPARTMENT[category]
<1>1. CASE m.topic # "incidents.routed"
  BY <1>1 DEF FindingsOnRoute
<1>2. CASE m.topic = "incidents.routed"
  <2>1. category \in DOMAIN CATEGORY_DEPARTMENT
    BY <1>2, SMT DEF Routed
  <2>2. m = [ topic |-> "incidents.routed", department |-> d,
              cc |-> CcDepartments(category) \ {d}, hours |-> SlaHours(d, band),
              due |-> first + SlaHours(d, band), band |-> band ]
    BY <1>2, <2>1, SMT DEF Routed
  <2>3. DEPARTMENT_REGISTRY =
          {"roads_and_infrastructure", "drainage_and_water", "solid_waste_management",
           "electrical_streetlights", "health", "parks"}
    BY SMT DEF DEPARTMENT_REGISTRY, DefaultSlaHours
  <2>4. d \in DEPARTMENT_REGISTRY
    BY <2>1, <2>3, SMT DEF CATEGORY_DEPARTMENT
  <2>5. CcDepartments(category) \subseteq DEPARTMENT_REGISTRY
    BY <2>3 DEF CcDepartments
  <2>6. \A e \in DEPARTMENT_REGISTRY : SlaHours(e, band) \in Int /\ SlaHours(e, band) > 0
    <3>1. \A e \in DEPARTMENT_REGISTRY : DefaultSlaHours[e] \in {24, 48, 72, 120}
      BY <2>3, SMT DEF DefaultSlaHours
    <3>2. SLA_BAND_MULTIPLIER[band] \in {25, 50, 100, 150}
      BY SMT DEF Bands, SLA_BAND_MULTIPLIER
    <3>3. \A x \in {24, 48, 72, 120}, y \in {25, 50, 100, 150} :
            (x * y) \div 100 \in Int /\ (x * y) \div 100 > 0
      BY SMT
    <3> QED
      BY <3>1, <3>2, <3>3, SMT DEF SlaHours
  <2> HIDE DEF m, d
  <2>7. /\ ~(m.department \notin DEPARTMENT_REGISTRY)
        /\ m.cc \subseteq DEPARTMENT_REGISTRY
        /\ ~(m.hours <= 0)
    BY <2>2, <2>4, <2>5, <2>6, SMT
  <2> QED
    BY <1>2, <2>7 DEF FindingsOnRoute, Found, m
<1> QED
  BY <1>1, <1>2

\* A set of naturals that is not empty has a least element.
LEMMA LeastNumber ==
  ASSUME NEW S \in SUBSET Nat, S # {}
  PROVE  \E x \in S : \A y \in S : x <= y
<1>1. \E x \in S : \A y \in S : <<y, x>> \notin OpToRel(<, Nat)
  BY NatLessThanWellFounded, WFMin
<1>2. PICK x \in S : \A y \in S : ~(y < x)
  BY <1>1 DEF OpToRel
<1>3. \A y \in S : x <= y
  BY <1>2
<1> QED
  BY <1>3

\* The first keyword group that hits is a category of the taxonomy.
LEMMA CategoryInTaxonomy ==
  ASSUME NEW t PROVE Category(t) \in CATEGORY_TAXONOMY
<1> DEFINE hits == {k \in DOMAIN CATEGORY_KEYWORDS : CATEGORY_KEYWORDS[k] \in t.says /\ k # 1}
<1>1. CASE hits = {}
  BY <1>1 DEF Category, CATEGORY_TAXONOMY
<1>2. CASE hits # {}
  <2>1. DOMAIN CATEGORY_KEYWORDS = 1 .. 14
    BY SMT DEF CATEGORY_KEYWORDS
  <2>2. hits \subseteq 2 .. 14
    BY <2>1, SMT
  <2> HIDE DEF hits
  <2>3. \E x \in hits : \A y \in hits : x <= y
    <3>1. hits \in SUBSET Nat
      BY <2>2
    <3> QED
      BY <1>2, <3>1, LeastNumber
  <2>4. Min(hits) \in 2 .. 14
    BY <2>2, <2>3 DEF Min
  <2>5. \A k \in 2 .. 14 : CATEGORY_KEYWORDS[k] \in CATEGORY_TAXONOMY
    BY SMT DEF CATEGORY_KEYWORDS, CATEGORY_TAXONOMY
  <2>6. Category(t) = CATEGORY_KEYWORDS[Min(hits)]
    BY <1>2 DEF hits, Category
  <2> QED
    BY <2>4, <2>5, <2>6
<1> QED
  BY <1>1, <1>2

\* Whatever modalities a report has and the provider reads, L2 fails A1's reading
\* for nothing but a text the embedding has nothing of (rules/a1.py:80-156
\* against a1_perception:73-139 and heuristic.py:202-324).
THEOREM ReadingPassesL2 ==
  ASSUME NEW raw, NEW caps
  PROVE  FindingsOnReading(Understood(raw, caps))
           \subseteq Found(Understood(raw, caps).blank, "a1_embedding_all_zero")
<1> DEFINE parts == {raw.text, Transcript(raw, caps)} \ {Nothing}
           spoken == Extract(parts)
           t == Joined(parts)
<1>1. /\ Understood(raw, caps).category = spoken.category
      /\ Understood(raw, caps).summary = spoken.summary
  BY DEF Understood
<1> HIDE DEF parts
<1>2. spoken.category \in CATEGORY_TAXONOMY
  <2>1. parts = {} => spoken.category = "other"
    BY DEF Extract
  <2>2. parts # {} => spoken.category = Category(t)
    BY DEF Extract
  <2>3. "other" \in CATEGORY_TAXONOMY
    BY DEF CATEGORY_TAXONOMY
  <2> QED
    BY <2>1, <2>2, <2>3, CategoryInTaxonomy
<1>3. ~(spoken.summary > SUMMARY_WORD_LIMIT)
  <2>1. parts = {} => spoken.summary = 5
    BY DEF Extract
  <2>2. parts # {} =>
          spoken.summary = IF t.words > SUMMARY_WORD_LIMIT THEN SUMMARY_WORD_LIMIT ELSE t.words
    BY DEF Extract
  <2> HIDE DEF spoken, t
  <2> QED
    BY <2>1, <2>2, SMT DEF SUMMARY_WORD_LIMIT
<1> QED
  BY <1>1, <1>2, <1>3 DEF FindingsOnReading, Found
=============================================================================
