------------------------ MODULE MCCanonicalPromotion ------------------------
(* Instances of CanonicalPromotion for TLC. *)
EXTENDS CanonicalPromotion

\* One worker per instance, without a filter.
AllKinds == [w \in Workers |-> {"mean_rollup", "peak_feature"}]
=============================================================================
