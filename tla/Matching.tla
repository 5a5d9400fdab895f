------------------------------ MODULE Matching ------------------------------
(***************************************************************************)
(* Report-to-incident matching: common/matching.py, and the two decisions  *)
(* that read its scores, A2's `_decide` and A3's `adjudicate`.             *)
(*                                                                         *)
(* The code scores in floats rounded to six decimals.  Here a score is the *)
(* integer number of millionths, rounded to the nearest one, so that       *)
(* `One` is the code's 1.0 and every threshold is exact.  Distances are in *)
(* metres and ages in days.                                                *)
(***************************************************************************)
EXTENDS Integers

One == 1000000

\* The two thresholds that cut the scores into three bands.
AUTO_LINK_THRESHOLD == 820000
CANDIDATE_THRESHOLD == 600000

\* How far apart two reports of one thing can be pinned, by category.
CATEGORY_RADIUS_M ==
  [ pothole |-> 75, garbage |-> 150, waterlogging |-> 300,
    drain_overflow |-> 200, sewage |-> 200, road_damage |-> 100,
    streetlight |-> 60, water_supply |-> 200, tree_hazard |-> 80,
    stray_animals |-> 300, traffic_obstruction |-> 150,
    public_toilet |-> 50, encroachment |-> 80, other |-> 100 ]

\* How many days one physical problem stays the same report, by category.
CATEGORY_WINDOW_DAYS ==
  [ pothole |-> 21, garbage |-> 7, waterlogging |-> 3,
    drain_overflow |-> 5, sewage |-> 7, road_damage |-> 30,
    streetlight |-> 30, water_supply |-> 3, tree_hazard |-> 14,
    stray_animals |-> 7, traffic_obstruction |-> 2,
    public_toilet |-> 14, encroachment |-> 30, other |-> 7 ]

DEFAULT_RADIUS_M == 100
DEFAULT_WINDOW_DAYS == 7

\* `bounds_for`: the category's own radius and window, or the defaults.
BoundsFor(category) ==
  [ radius |-> IF category \in DOMAIN CATEGORY_RADIUS_M
                 THEN CATEGORY_RADIUS_M[category] ELSE DEFAULT_RADIUS_M,
    window |-> IF category \in DOMAIN CATEGORY_WINDOW_DAYS
                 THEN CATEGORY_WINDOW_DAYS[category] ELSE DEFAULT_WINDOW_DAYS ]

\* A Sentinel L2 rule's finding, if what it forbids is the case.
Found(broken, code) == IF broken THEN {code} ELSE {}

-----------------------------------------------------------------------------
(* Scoring one candidate. *)

\* The integer nearest to a / b, for b > 0.
Nearest(a, b) == (2 * a + b) \div (2 * b)

Distance(a, b) == IF a >= b THEN a - b ELSE b - a

\* `_score_row`'s linear falloff: One at zero, zero from `bound` on.
Falloff(x, bound) ==
  IF bound > 0 /\ x < bound THEN Nearest((bound - x) * One, bound) ELSE 0

\* No vision provider exists in this build: every candidate carries this.
NoVisual == -1

WEIGHTS == [ spatial |-> 35, temporal |-> 15, semantic |-> 35, visual |-> 15 ]

\* `Candidate.score`: the weighted mean of the components that are there.
Score(c) ==
  LET measured == WEIGHTS.spatial * c.spatial + WEIGHTS.temporal * c.temporal
                    + WEIGHTS.semantic * c.semantic
      weight   == WEIGHTS.spatial + WEIGHTS.temporal + WEIGHTS.semantic
  IN  IF c.visual = NoVisual
        THEN Nearest(measured, weight)
        ELSE Nearest(measured + WEIGHTS.visual * c.visual,
                     weight + WEIGHTS.visual)

\* The candidates Python's `max` may return: the rows come in no order.
Best(candidates) ==
  {c \in candidates : \A d \in candidates : Score(c) >= Score(d)}

-----------------------------------------------------------------------------
(* What A2 and A3 make of a score. *)

\* A2's `_decide`, and Sentinel's `_expected_decision`, on a match score.
DecisionFor(score) ==
  IF score >= AUTO_LINK_THRESHOLD THEN "auto_link"
  ELSE IF score >= CANDIDATE_THRESHOLD THEN "candidate_link"
  ELSE "new_incident_seed"

ADJUDICATION_FLOORS ==
  [ spatial |-> 750000, temporal |-> 750000, semantic |-> 250000 ]

\* A3's `adjudicate(...).merge`: every component clears its own floor.
Adjudicate(c) ==
  /\ c.spatial >= ADJUDICATION_FLOORS.spatial
  /\ c.temporal >= ADJUDICATION_FLOORS.temporal
  /\ c.semantic >= ADJUDICATION_FLOORS.semantic

\* `_seed_or_join`'s test of its best candidate.
JoinsOnRecheck(c) == Score(c) >= AUTO_LINK_THRESHOLD \/ Adjudicate(c)

\* A2's `_confidence` in ten-thousandths: least sure in mid grey zone.
A2Confidence(decision, score) ==
  LET midpoint == (AUTO_LINK_THRESHOLD + CANDIDATE_THRESHOLD) \div 2
      span     == (AUTO_LINK_THRESHOLD - CANDIDATE_THRESHOLD) \div 2
  IN  CASE decision = "auto_link" -> Nearest(score, 100)
        [] decision = "new_incident_seed" -> Nearest(One - score, 100)
        [] decision = "candidate_link" ->
             Nearest(5000 * Distance(score, midpoint), span)

Fractions == 0 .. One

Components ==
  [ spatial : Fractions, temporal : Fractions, semantic : Fractions,
    visual : Fractions \cup {NoVisual} ]
=============================================================================
