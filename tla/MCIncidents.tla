---------------------------- MODULE MCIncidents -----------------------------
(* Small instances of Incidents for TLC. *)
EXTENDS Incidents, TLC

CONSTANTS r1, r2, r3, w1, w2

\* How alike the wordings a, b and c are, in millionths.
MCLikeness ==
  [ a |-> [ a |-> One, b |-> 300000, c |-> 260000 ],
    b |-> [ a |-> 300000, b |-> One, c |-> 100000 ],
    c |-> [ a |-> 260000, b |-> 100000, c |-> One ] ]

\* "Pothole here", a longer text that adds "again", "dangerous, open manhole next
\* to it", "garbage", a text that no keyword is in, and one in Kannada.
Plain == [Nothing EXCEPT !.says = {"pothole"}, !.latin = TRUE, !.words = 2]
Wordy == [Plain EXCEPT !.urges = {"again"}, !.words = 25]
Manhole == [Plain EXCEPT !.says = @ \cup {"open_manhole_marker"},
                         !.names = {"open_manhole"}, !.urges = {"dangerous"}, !.words = 8]
Garbage == [Plain EXCEPT !.says = {"garbage"}]
Vague == [Plain EXCEPT !.says = {}]
Kannada == [Vague EXCEPT !.latin = FALSE]

\* A report 10 m accurate.
Report(text, spot, day, wording, device) ==
  [ text |-> text, audio |-> Nothing, photo |-> Nothing, wording |-> wording,
    spot |-> spot, day |-> day, device |-> device, weight |-> 1 ]

\* Three reports of one pothole, two of them from one phone, the last of which
\* names an open manhole.
OneStreet ==
  r1 :> Report(Plain, 0, 0, "a", "d1") @@ r2 :> Report(Wordy, 0, 0, "a", "d2")
  @@ r3 :> Report(Manhole, 0, 0, "a", "d2")

\* Seen in one order, a grey-zone match that is merged and one that is declined;
\* in another, a match that only the re-check finds.
GreyZone ==
  r1 :> Report(Plain, 0, 0, "a", "d1") @@ r2 :> Report(Plain, 18, 0, "b", "d2")
  @@ r3 :> Report(Plain, 18, 5, "c", "d3")

\* Two reports of one pothole, and one of another a few steps away.
Strangers ==
  r1 :> Report(Plain, 0, 0, "b", "d1") @@ r2 :> Report(Wordy, 0, 0, "b", "d2")
  @@ r3 :> Report(Plain, 10, 1, "c", "d3")

\* The centroid drifts along the street, and a category nobody routes is there.
Drift ==
  r1 :> Report(Plain, 0, 0, "a", "d1")
  @@ r2 :> [Report(Plain, 30, 0, "a", "d2") EXCEPT !.weight = 10]
  @@ r3 :> Report(Vague, 0, 0, "a", "d3")

\* Two texts the embedding has nothing of, and a voice message nobody can hear.
Unread ==
  r1 :> Report(Kannada, 0, 0, "a", "d1") @@ r2 :> Report(Kannada, 10, 0, "b", "d2")
  @@ r3 :> [Report(Nothing, 0, 0, "c", "d3") EXCEPT !.audio = Plain]

\* For a provider that sees and hears: a photo that contradicts the text, a
\* voice message, and a photo on its own.
Senses ==
  r1 :> [Report(Plain, 0, 0, "a", "d1") EXCEPT !.photo = Garbage]
  @@ r2 :> [Report(Nothing, 0, 0, "a", "d2") EXCEPT !.audio = Manhole]
  @@ r3 :> [Report(Nothing, 0, 0, "a", "d3") EXCEPT !.photo = Garbage]

\* Two reports of one pothole, for the instances with two consumers.
Pair ==
  r1 :> Report(Plain, 0, 0, "a", "d1") @@ r2 :> Report(Plain, 0, 0, "a", "d2")

\* One report, for the instance with two consumers and two faults.
Solo == r1 :> Report(Plain, 0, 0, "a", "d1")

Case(raw, ws, n) ==
  [raw |-> raw, provider |-> BASELINE_CAPABILITIES, workers |-> ws, faults |-> n]

MCCases ==
  { Case(OneStreet, {w1}, 1), Case(GreyZone, {w1}, 0), Case(Strangers, {w1}, 0),
    Case(Drift, {w1}, 0),
    Case(Unread, {w1}, 0), Case(Pair, {w1}, 1), Case(Pair, {w1, w2}, 0),
    Case(Solo, {w1, w2}, 2),
    [Case(Senses, {w1}, 0) EXCEPT !.provider = @ \cup {"transcribe", "describe_image"}] }
=============================================================================
