----------------------- MODULE MCDeploymentLedger -----------------------
(* The instance of DeploymentLedger for TLC: two deployments race to be  *)
(* created with every mix of keys, generations and request bodies, and   *)
(* one of them is then walked through the state machine.                 *)
EXTENDS DeploymentLedger, TLC

CONSTANTS d1, d2, k1, k2, q1, q2, m1, m2, c1, c2

MCKinds == {"guard.readback", "success.marker"}
Symmetry == Permutations(Digests) \cup Permutations(Compat)

\* Rows are independent after their creation, so only the history in which
\* d1 alone exists is explored beyond the creations.
Untouched(d) ==
  /\ stateSequence[d] = 0 /\ evidence[d] = {}
  /\ \A p \in DEPLOYMENT_PRODUCTS : products[d][p] = None

WalkOne ==
  \/ \A d \in created : Untouched(d)
  \/ /\ created = {d1} /\ generation[d1] = 1
     /\ createKey[d1] = k1 /\ createRequest[d1] = q1
=========================================================================
