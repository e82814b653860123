-------------------------- MODULE MCUploadReviews --------------------------
(* Instances of UploadReviews.  Requests, Eve sessions and contracts are    *)
(* interchangeable, which the safety instance uses.                         *)
EXTENDS UploadReviews, TLC

Interchangeable ==
  Permutations(Clients) \cup Permutations(Sessions) \cup Permutations(Contracts)
=============================================================================
