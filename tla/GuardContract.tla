--------------------------- MODULE GuardContract ---------------------------
(***************************************************************************)
(* What the fixed rollback controller promises to the people who deploy,   *)
(* without its files, calls, clock and crashes: a deployment's guard is    *)
(* armed on a known host, the host changes only while a guard is armed,    *)
(* and the guard ends once, in a confirmation, in the exact host it was    *)
(* armed on, or in a failure that is recorded as one.                      *)
(***************************************************************************)
CONSTANTS
  Deployments,   \* deployment identifiers
  Hosts,         \* what the guarded pointers of the host may be
  InitialHost    \* what they are at first

VARIABLES
  phase,   \* of each deployment's guard
  saved,   \* the host each guard was armed on
  host     \* the host

vars == <<phase, saved, host>>

\* blocked: the guard was lost while it was armed, and nothing resolves it.
Phase == {"idle", "armed", "blocked", "confirmed", "restored", "failed"}

Init ==
  /\ phase = [d \in Deployments |-> "idle"]
  /\ saved = [d \in Deployments |-> InitialHost]
  /\ host = InitialHost

\* No guard, not even a lost one, is in force.
Free == \A d \in Deployments : phase[d] \notin {"armed", "blocked"}

Arm(d) ==
  /\ Free /\ phase[d] = "idle"
  /\ phase' = [phase EXCEPT ![d] = "armed"]
  /\ saved' = [saved EXCEPT ![d] = host]
  /\ UNCHANGED host

Block(d) ==
  /\ Free /\ phase[d] = "idle"
  /\ phase' = [phase EXCEPT ![d] = "blocked"]
  /\ UNCHANGED <<saved, host>>

\* The deployment, or its rollback, works on the host.
Change(d) ==
  /\ phase[d] = "armed"
  /\ host' \in Hosts
  /\ UNCHANGED <<phase, saved>>

Resolve(d, outcome) ==
  /\ phase[d] = "armed"
  /\ outcome = "restored" => host = saved[d]
  /\ phase' = [phase EXCEPT ![d] = outcome]
  /\ UNCHANGED <<saved, host>>

Next ==
  \E d \in Deployments :
    \/ Arm(d) \/ Block(d) \/ Change(d)
    \/ \E outcome \in {"confirmed", "restored", "failed"} : Resolve(d, outcome)

Spec == Init /\ [][Next]_vars
=============================================================================
