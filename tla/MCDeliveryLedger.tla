------------------------ MODULE MCDeliveryLedger ------------------------
(* The instance of DeliveryLedger for TLC: one delivery, two plans that   *)
(* claim its id, and racing controllers.                                  *)
EXTENDS DeliveryLedger, TLC

CONSTANTS d1, p1, p2, a, b, l1, l2, h1, h2, k1, k2

MCPlanOf == [p \in Plans |-> d1]
MCExpiry == [p \in Plans |-> IF p = p1 THEN 1 ELSE 0]
MCStates == {"ROLLBACK_ARMED", "SUCCEEDED"}
MCArtifacts == {[id |-> a, phase |-> "build", sha256 |-> "s"],
                [id |-> b, phase |-> "build", sha256 |-> "s"]}
Symmetry == Permutations(Keys) \cup Permutations(LeaseIds)
              \cup Permutations(Holders) \cup Permutations(DeploymentIds)

\* References, evidence and intents share no guard with the leases, nor
\* with each other, and the leases none with the deployment binding: they
\* are explored one table at a time.
Unleased == \A d \in Deliveries, l \in LeaseIds : leases[d][l] = NoLease
Unbound ==
  \A d \in Deliveries : run[d] # NoRun => run[d].deployment = None
NoChildren == \A d \in Deliveries, c \in ChildIds : children[d][c] = NoChild
NoArtifacts == \A d \in Deliveries : artifacts[d] = {}
NoEvidence == \A d \in Deliveries : evidence[d] = {}
NoIntents == \A k \in IntentKeys : intents[k] = NoIntent

OneTable ==
  \/ Unbound /\ NoChildren /\ NoArtifacts /\ NoEvidence /\ NoIntents
  \/ Unleased /\ NoArtifacts /\ NoEvidence /\ NoIntents
  \/ Unleased /\ NoChildren /\ NoEvidence /\ NoIntents
  \/ Unleased /\ NoChildren /\ NoArtifacts /\ NoIntents
  \/ Unleased /\ NoChildren /\ NoArtifacts /\ NoEvidence
=========================================================================
