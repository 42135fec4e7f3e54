----------------------- MODULE MCRuntimeInstallation -----------------------
(* Values for model checking RuntimeInstallation.                          *)
EXTENDS RuntimeInstallation, TLC

(* Every control point but those a kill may not fall on, and every failure *)
(* but those whose error path loses the prior runtime.                     *)
SafeCrashPoints == ControlPoints \ ({"loading"} \cup CrashWindows)
SafeFailures == Failures \ FailureWindows
AllCrashPoints == ControlPoints \ {"loading"}
AllFailures == Failures
OperationSymmetry == Permutations(Operations)
=============================================================================
