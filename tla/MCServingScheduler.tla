------------------------- MODULE MCServingScheduler -------------------------
(* Instances of ServingScheduler for TLC. *)
EXTENDS ServingScheduler, TLC

CONSTANTS featureSvc, pmaxSvc, anomalySvc

\* The deployed stack: one container per lane.
OneLaneEach == (featureSvc :> {"feature"}) @@ (pmaxSvc :> {"pmax"}) @@ (anomalySvc :> {"anomaly"})

\* Meter 1 never reports the measurements of a feature set in hour 1.
GapInHour1 == {<<1, 1>>}
=============================================================================
