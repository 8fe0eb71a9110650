---------------------- MODULE MCDeploymentService ----------------------
(* Instances of DeploymentService for TLC.                               *)
EXTENDS DeploymentService, TLC

CONSTANTS d1, d2, k1, k2, k3, k4

MCKinds == {"success.marker"}
Symmetry == Permutations(Keys)
=========================================================================
