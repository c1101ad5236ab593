------------------------ MODULE MCDependentWorkload ------------------------
(* Small instances of the dependent workload.                              *)
EXTENDS DependentWorkload

Stages == <<"imu", "camera", "estimator", "control", "mapping">>
StagesAndHog == Append(Stages, "hog")

\* No call fails; every call of two workers may fail
NoFaults == {}
TwoFaulty == FaultKind \X {"estimator", "hog"}
=============================================================================
