\* Two sessions, two alerts and two review ids: an id can be used for the
\* same alert and for another one, by both sessions at once.
SPECIFICATION FairSpec
CONSTANTS
  Session = {s1, s2}
  Alert = {a1, a2}
  Analyst = {ann}
  ReviewId = {r1, r2}
  Outcome = {fraud, investigate}
  FinalOutcome = {fraud}
  Nobody = Nobody
  NoCall = NoCall
  MaxTime = 4
CHECK_DEADLOCK FALSE
INVARIANTS
  AtMostOneFinalReview
  TrailIsContinuous
  ReviewsAreAudited
PROPERTIES
  LifecycleSpec
  RequestsEnd
