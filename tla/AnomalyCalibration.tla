-------------------------- MODULE AnomalyCalibration --------------------------
(***************************************************************************)
(* ScoreCalibration: from the raw score of the isolation forest to the     *)
(* anomaly model's 0 to 30 points, by interpolation between the percentile *)
(* anchors of the training scores; and the level the points stand for.     *)
(*                                                                         *)
(* Raw scores and anchors are integers here (floats in the code), and the  *)
(* interpolation is exact before it is rounded.                            *)
(***************************************************************************)
EXTENDS Integers

\* ScoreCalibration.__post_init__: the anchors are ordered.
IsCalibration(c) ==
  /\ c \in [median : Int, p90 : Int, p97 : Int, p995 : Int, maximum : Int]
  /\ c.median <= c.p90
  /\ c.p90 <= c.p97
  /\ c.p97 <= c.p995
  /\ c.p995 <= c.maximum

\* round(n / d): a half goes to the even neighbour.
RoundHalfEven(n, d) ==
  LET q == n \div d
      r == n % d
  IN  IF 2 * r > d \/ (2 * r = d /\ q % 2 = 1) THEN q + 1 ELSE q

Clamp(low, high, x) == IF x < low THEN low ELSE IF x > high THEN high ELSE x

\* Defect: the segment is read from its upper end.
SegmentReversed(value, lower, upper, minimum, maximum) ==
  IF upper <= lower
  THEN maximum
  ELSE Clamp(minimum, maximum,
             RoundHalfEven(minimum * (upper - lower)
                             + (upper - value) * (maximum - minimum),
                           upper - lower))

\* _segment: from minimum to maximum while value goes from lower to upper.
Segment(value, lower, upper, minimum, maximum) ==
  IF upper <= lower
  THEN maximum
  ELSE Clamp(minimum, maximum,
             RoundHalfEven(minimum * (upper - lower)
                             + (value - lower) * (maximum - minimum),
                           upper - lower))

\* ScoreCalibration.contribution.
Contribution(c, raw) ==
  CASE raw <= c.median -> 0
    [] raw > c.median /\ raw <= c.p90 -> Segment(raw, c.median, c.p90, 1, 5)
    [] raw > c.p90 /\ raw <= c.p97 -> Segment(raw, c.p90, c.p97, 6, 10)
    [] raw > c.p97 /\ raw <= c.p995 -> Segment(raw, c.p97, c.p995, 11, 20)
    [] raw > c.p995 /\ raw <= c.maximum ->
         Segment(raw, c.p995, c.maximum, 21, 29)
    [] OTHER -> 30

\* AnomalyEvaluation.level.
Level(points) ==
  CASE points <= 5 -> "normal"
    [] points > 5 /\ points <= 10 -> "slightly_unusual"
    [] points > 10 /\ points <= 20 -> "moderately_unusual"
    [] OTHER -> "highly_unusual"
==============================================================================
