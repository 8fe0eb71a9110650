------------------------- MODULE HostCertification --------------------------
(***************************************************************************)
(* The certification program of the rehearsal guest                        *)
(* (ops/rehearsal/baby-quirt-host-certification.mjs), which systemd runs   *)
(* once after boot.  Its state is one record: the flags its main() holds,  *)
(* what its command list says, and the result file.  `missed' is not in    *)
(* the program: it remembers that a check or a suite was in fact not met,  *)
(* whether or not a recorded command failed.                               *)
(***************************************************************************)
EXTENDS Integers

Cycles == 3

Stages == {"start", "assertions", "cache", "baby", "gateway", "babySuite",
           "gatewaySuite", "cycles", "result", "poweroff"}
Results == {"none", "invalid", "failed", "passed"}

Guest == [stage : Stages, cache : BOOLEAN, baby : BOOLEAN, gateway : BOOLEAN,
          privileged : BOOLEAN, failed : BOOLEAN, missed : BOOLEAN,
          cycle : 0..Cycles, result : Results]

NotBooted ==
  [stage |-> "start", cache |-> FALSE, baby |-> FALSE, gateway |-> FALSE,
   privileged |-> FALSE, failed |-> FALSE, missed |-> FALSE, cycle |-> 0,
   result |-> "none"]

\* runCommand: an exit, a signal, a timeout, too much output or a spawn error
\* is recorded; all but exit 0 count as a failed command.
runCommand(g, ok) ==
  [g EXCEPT !.failed = @ \/ ~ok, !.missed = @ \/ ~ok]

\* recordSkipped: the record carries the reason as its spawnError.
recordSkipped(g) == [g EXCEPT !.failed = TRUE, !.missed = TRUE]

\* main() up to its try block: an existing workspace or a bad plan throws.
startMain(g) ==
  {[g EXCEPT !.stage = "assertions"],
   [g EXCEPT !.stage = "poweroff", !.missed = TRUE, !.result = "invalid"]}

\* A command and the readback of what it left: only one that exits with 0
\* can have left what is expected.
Readback == {c \in [ok : BOOLEAN, exact : BOOLEAN] : c.exact => c.ok}

\* privilegeFacts and the probes: every command may fail, and one that exits
\* with 0 may print something else.
hostAssertions(g) ==
  {[runCommand(g, c.ok) EXCEPT !.stage = "cache", !.privileged = c.exact,
                               !.missed = @ \/ ~c.exact] : c \in Readback}

materializeDependencyCache(g) ==
  {[runCommand(g, ok) EXCEPT !.stage = "baby", !.cache = ok]
     : ok \in BOOLEAN}

\* materializeSource: a readback that differs is no failed command.
materializeSource(g, c) ==
  [runCommand(g, c.ok) EXCEPT !.missed = @ \/ ~c.exact]

materializeBaby(g) ==
  {[materializeSource(g, c) EXCEPT !.stage = "gateway", !.baby = c.exact]
     : c \in Readback}

materializeGateway(g) ==
  {[materializeSource(g, c) EXCEPT !.stage = "babySuite",
                                   !.gateway = c.exact] : c \in Readback}

\* Every command of a suite runs, whatever became of the ones before.
runBabySuite(g) ==
  {[(IF g.baby /\ g.cache THEN runCommand(g, ok) ELSE recordSkipped(g))
      EXCEPT !.stage = "gatewaySuite"] : ok \in BOOLEAN}

runGatewaySuite(g) ==
  {[(IF g.gateway /\ g.cache THEN runCommand(g, ok) ELSE recordSkipped(g))
      EXCEPT !.stage = "cycles"] : ok \in BOOLEAN}

\* The locals of main()'s try block are gone.
leaveTry(g) ==
  [g EXCEPT !.stage = "result", !.cache = FALSE, !.baby = FALSE,
            !.gateway = FALSE]

\* One production-shaped cycle: sources again, then its commands.
runProductionShapedCycle(g) ==
  {[runCommand(g, ok) EXCEPT !.cycle = @ + 1] : ok \in BOOLEAN}
  \cup {[recordSkipped(g) EXCEPT !.cycle = @ + 1]}

runProductionShapedCycles(g) ==
  IF ~(g.baby /\ g.gateway /\ g.cache)
  THEN {leaveTry(recordSkipped(g))}
  ELSE IF g.cycle < Cycles THEN runProductionShapedCycle(g)
  ELSE {leaveTry(g)}

\* The catch of main(): a file operation or a digest check threw.
fatalFailure(g) ==
  {[leaveTry(g) EXCEPT !.failed = TRUE, !.missed = TRUE]}

\* The result is written last, by rename; suites without a counted passing
\* test, or with a counted failing one, fail it.
emitResult(g) ==
  {[g EXCEPT !.stage = "poweroff", !.privileged = FALSE, !.failed = FALSE,
             !.result = IF ~g.failed /\ g.privileged /\ counted
                        THEN "passed" ELSE "failed"] : counted \in BOOLEAN}

\* The next states of a running guest.
GuestSteps(g) ==
  CASE g.stage = "start" -> startMain(g)
    [] g.stage = "assertions" -> hostAssertions(g) \cup fatalFailure(g)
    [] g.stage = "cache" ->
         materializeDependencyCache(g) \cup fatalFailure(g)
    [] g.stage = "baby" -> materializeBaby(g) \cup fatalFailure(g)
    [] g.stage = "gateway" -> materializeGateway(g) \cup fatalFailure(g)
    [] g.stage = "babySuite" -> runBabySuite(g) \cup fatalFailure(g)
    [] g.stage = "gatewaySuite" -> runGatewaySuite(g) \cup fatalFailure(g)
    [] g.stage = "cycles" ->
         runProductionShapedCycles(g) \cup fatalFailure(g)
    [] g.stage = "result" -> emitResult(g)
    [] g.stage = "poweroff" -> {}
=============================================================================
