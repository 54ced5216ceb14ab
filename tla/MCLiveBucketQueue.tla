------------------------- MODULE MCLiveBucketQueue -------------------------
(* Instances of LiveBucketQueue for TLC. *)
EXTENDS LiveBucketQueue, TLC

CONSTANTS w1, w2

\* The deployed pair: one worker for mean rollups, one for peak features.
SplitKinds == (w1 :> {"mean_rollup"}) @@ (w2 :> {"peak_feature"})
\* Two workers without a filter.
BothKinds == [w \in Workers |-> {"mean_rollup", "peak_feature"}]
=============================================================================
