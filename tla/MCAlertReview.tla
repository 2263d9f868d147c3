---------------------------- MODULE MCAlertReview ----------------------------
EXTENDS AlertReview, TLC

Interchangeable == Permutations(Session) \cup Permutations(Alert)
                     \cup Permutations(ReviewId)
==============================================================================
