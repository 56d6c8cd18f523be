------------------------ MODULE MCThumbnailService ------------------------
(* Instances of ThumbnailService for TLC. *)
EXTENDS ThumbnailService, TLC

CONSTANTS w1, w2, f1, f2, s1

\* f1 and f2 are neighbours.
TwoNear == (f1 :> {f1, f2}) @@ (f2 :> {f1, f2})

=============================================================================
