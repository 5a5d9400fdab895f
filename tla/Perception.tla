----------------------------- MODULE Perception -----------------------------
(***************************************************************************)
(* What A1 makes of one report: agents/a1_perception over the provider of  *)
(* common/llm/heuristic.py, the only one the build has, and the Sentinel   *)
(* L2 rules on the result (rules/a1.py).                                   *)
(*                                                                         *)
(* A text is what the provider's keyword tables and its word pattern find  *)
(* in it: [says |-> the category groups it has a keyword of,               *)
(*         names |-> the hazards it has a keyword of,                      *)
(*         urges |-> the severity escalators in it,                        *)
(*         latin |-> whether the pattern [a-z0-9]+ matches anywhere,       *)
(*         words |-> how many words it has].                               *)
(* A transcript is the text of the audio, vision labels are the text of    *)
(* the photo.  Confidences are in ten-thousandths.                         *)
(***************************************************************************)
EXTENDS Matching, Sequences, FiniteSets, FiniteSetsExt

\* A modality that the report does not have.
Nothing == [ says |-> {}, names |-> {}, urges |-> {}, latin |-> FALSE, words |-> 0 ]

-----------------------------------------------------------------------------
(* The provider. *)

\* HeuristicProvider.capabilities.  A1 is written for more: "transcribe" and
\* "describe_image".
BASELINE_CAPABILITIES == {"extract", "embed"}

\* Category keyword groups, most specific first.  The first one is no category.
CATEGORY_KEYWORDS ==
  << "open_manhole_marker", "drain_overflow", "sewage", "waterlogging", "pothole",
     "road_damage", "garbage", "streetlight", "water_supply", "tree_hazard",
     "stray_animals", "traffic_obstruction", "public_toilet", "encroachment" >>

HAZARD_KEYWORDS ==
  {"open_manhole", "live_wire", "collapsed_structure", "gas_leak", "deep_water",
   "sharp_debris", "fire_risk", "blocked_emergency_access", "structural_crack",
   "traffic_hazard"}

SEVERITY_ESCALATORS ==
  [ child |-> 2, school |-> 1, hospital |-> 2, accident |-> 2, injur |-> 2,
    died |-> 3, death |-> 3, elderly |-> 1, ambulance |-> 2, huge |-> 1,
    very_big |-> 1, massive |-> 1, dangerous |-> 1, deep |-> 1, months |-> 1,
    weeks |-> 1, repeatedly |-> 1, again |-> 1 ]

\* The categories whose severity starts at 3; every other one starts at 2.
BASE_SEVERITY_3 ==
  {"pothole", "waterlogging", "drain_overflow", "sewage", "road_damage",
   "water_supply", "tree_hazard"}

\* What the haystack of several texts has.
Joined(parts) ==
  [ says |-> UNION {t.says : t \in parts}, names |-> UNION {t.names : t \in parts},
    urges |-> UNION {t.urges : t \in parts}, latin |-> \E t \in parts : t.latin,
    words |-> MapThenSumSet(LAMBDA t : t.words, parts) ]

\* Mutant: a manhole ends the search, as a category of its own.
X_Category(t) ==
  LET hits == {k \in DOMAIN CATEGORY_KEYWORDS : CATEGORY_KEYWORDS[k] \in t.says}
  IN  IF hits = {} THEN "other" ELSE CATEGORY_KEYWORDS[Min(hits)]

\* `_category`: the first group with a keyword in the text; a manhole is a
\* hazard, not a category.
Category(t) ==
  LET hits == {k \in DOMAIN CATEGORY_KEYWORDS : /\ CATEGORY_KEYWORDS[k] \in t.says
                                                /\ k # 1}
  IN  IF hits = {} THEN "other" ELSE CATEGORY_KEYWORDS[Min(hits)]

\* `_severity`: base, escalators, one more for a hazard; clamped to 1..5.
Severity(t) ==
  LET raw == (IF Category(t) \in BASE_SEVERITY_3 THEN 3 ELSE 2)
               + MapThenSumSet(LAMBDA u : SEVERITY_ESCALATORS[u], t.urges)
               + (IF t.names # {} THEN 1 ELSE 0)
  IN  Max({1, Min({5, raw})})

SUMMARY_WORD_LIMIT == 20

\* `extract` of the texts there are.  `embed` of a text without a Latin letter
\* or digit is the zero vector: the reading is blank.  (The stand-in summary of
\* a report with no text is English.)
Extract(parts) ==
  LET t == Joined(parts)
  IN  IF parts = {}
        THEN [ category |-> "other", severity |-> 1, hazards |-> {},
               summary |-> 5, confidence |-> 0, blank |-> FALSE ]
        ELSE [ category |-> Category(t), severity |-> Severity(t),
               hazards |-> t.names,
               summary |-> IF t.words > SUMMARY_WORD_LIMIT THEN SUMMARY_WORD_LIMIT
                           ELSE t.words,
               confidence |-> IF Category(t) = "other" THEN 2000 ELSE 5500,
               blank |-> ~t.latin ]

-----------------------------------------------------------------------------
(* A1. *)

MISSING_MODALITY_PENALTY == 1500

\* `_transcribe` and `_vision`: what a provider with capabilities `caps` makes
\* of the audio and of the photo, and the modalities that stay unread.
Transcript(raw, caps) == IF "transcribe" \in caps THEN raw.audio ELSE Nothing
VisionLabels(raw, caps) == IF "describe_image" \in caps THEN raw.photo ELSE Nothing

Unavailable(raw, caps) ==
  (IF raw.audio # Nothing /\ "transcribe" \notin caps THEN {"audio"} ELSE {})
  \cup (IF raw.photo # Nothing /\ "describe_image" \notin caps THEN {"image"} ELSE {})

\* Otherwise A1 raises SkipSignal.
Readable(raw, caps) ==
  {raw.text, Transcript(raw, caps), VisionLabels(raw, caps)} # {Nothing}

\* `_modality_conflict`: two definite views that differ.
ModalityConflict(spoken, seen) ==
  /\ "other" \notin {spoken.category, seen.category}
  /\ spoken.category # seen.category

\* `_confidence`
A1Confidence(extraction, unavailable, conflict) ==
  LET kept == extraction.confidence - MISSING_MODALITY_PENALTY * Cardinality(unavailable)
  IN  Max({0, IF conflict THEN kept \div 2 ELSE kept})

\* The payload of reports.understood: the citizen's own words carry the fields,
\* the photo only says whether it agrees.
Understood(raw, caps) ==
  LET spoken == Extract({raw.text, Transcript(raw, caps)} \ {Nothing})
      labels == VisionLabels(raw, caps)
      conflict == /\ labels # Nothing
                  /\ ModalityConflict(spoken, Extract({labels}))
  IN  [ category |-> spoken.category, severity |-> spoken.severity,
        hazards |-> spoken.hazards, summary |-> spoken.summary,
        blank |-> spoken.blank, conflict |-> conflict,
        confidence |-> A1Confidence(spoken, Unavailable(raw, caps), conflict) ]

-----------------------------------------------------------------------------
(* Sentinel L2 on reports.understood.  The warning about a conflict that may *)
(* have been missed stops nothing and is left out.                          *)

CATEGORY_TAXONOMY ==
  {"pothole", "waterlogging", "drain_overflow", "sewage", "garbage", "streetlight",
   "traffic_obstruction", "road_damage", "water_supply", "stray_animals",
   "tree_hazard", "public_toilet", "encroachment", "other"}

FindingsOnReading(m) ==
  Found(m.category \notin CATEGORY_TAXONOMY, "a1_category_outside_taxonomy")
  \cup Found(m.summary > SUMMARY_WORD_LIMIT, "a1_summary_too_long")
  \cup Found(m.blank, "a1_embedding_all_zero")
=============================================================================
