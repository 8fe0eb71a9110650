------------------------ MODULE ControllerBootstrap -------------------------
(***************************************************************************)
(* ControllerBootstrapManager.install (src/controller/bootstrap.ts): the   *)
(* immutable releases of the fixed controller and the links current,       *)
(* previous and slots/a, slots/b.  An install takes no lock; it may die    *)
(* between any two file operations, and two may run at once.               *)
(***************************************************************************)
EXTENDS Integers

CONSTANTS
  Installs,            \* install calls
  ControllerReleases,  \* release ids
  NoRelease,           \* an absent link
  MaxDeaths

VARIABLES
  installing,  \* where each install is
  record,      \* the signed release record it was given
  releases,    \* the directory of each release
  current,     \* the link current
  previous,    \* the link previous
  slots,       \* the links slots/a and slots/b
  deaths

bootstrapVars == <<installing, record, releases, current, previous, slots>>

Link == ControllerReleases \cup {NoRelease}
Slot == {"a", "b"}
InstallRunning == {"directory", "copy", "readback", "slot", "previous",
                   "current"}

\* fallbackReleaseId and expectedCurrentReleaseId, bound to each other by
\* install(); a bootstrap expects no release.
Record == [release : ControllerReleases, expected : Link, fallback : Link,
           slot : Slot]

BootstrapInit ==
  /\ installing = [i \in Installs |-> "idle"]
  /\ record = [i \in Installs |->
                 [release |-> CHOOSE r \in ControllerReleases : TRUE,
                  expected |-> NoRelease, fallback |-> NoRelease,
                  slot |-> "a"]]
  /\ releases = [r \in ControllerReleases |-> "absent"]
  /\ current = NoRelease
  /\ previous = NoRelease
  /\ slots = [s \in Slot |-> NoRelease]

advance(i, next) == installing' = [installing EXCEPT ![i] = next]

\* The checks: no active product guard, the record is for the release that is
\* current and falls back to it, the target does not exist.
beginInstall(i, r, noActiveGuard) ==
  /\ installing[i] = "idle"
  /\ noActiveGuard
  /\ r.expected = current
  /\ r.fallback = current
  /\ releases[r.release] = "absent"
  /\ advance(i, "directory")
  /\ record' = [record EXCEPT ![i] = r]
  /\ UNCHANGED <<releases, current, previous, slots, deaths>>

\* Mutant: an existing directory is taken for an earlier try of this install.
reuseReleaseDirectory(i) ==
  LET r == record[i].release
  IN  /\ installing[i] = "directory"
      /\ advance(i, IF releases[r] = "absent" THEN "copy" ELSE "slot")
      /\ releases' = [releases EXCEPT ![r] =
                        IF @ = "absent" THEN "partial" ELSE @]
      /\ UNCHANGED <<record, current, previous, slots, deaths>>

\* mkdirSync is exclusive: a release that appeared meanwhile throws.
createReleaseDirectory(i) ==
  LET r == record[i].release
  IN  /\ installing[i] = "directory"
      /\ advance(i, IF releases[r] = "absent" THEN "copy" ELSE "refused")
      /\ releases' = [releases EXCEPT ![r] =
                        IF @ = "absent" THEN "partial" ELSE @]
      /\ UNCHANGED <<record, current, previous, slots, deaths>>

\* copyDeclaredFile of every file, each checked and synced; a source that
\* changed or a failing write throws and leaves the directory.
copyDeclaredFiles(i) ==
  LET r == record[i].release
  IN  /\ installing[i] = "copy"
      /\ \/ /\ releases' = [releases EXCEPT ![r] = "complete"]
            /\ advance(i, "readback")
         \/ advance(i, "refused") /\ UNCHANGED releases
      /\ UNCHANGED <<record, current, previous, slots, deaths>>

readbackRelease(i) ==
  /\ installing[i] = "readback"
  /\ advance(i, IF releases[record[i].release] = "complete"
                THEN "slot" ELSE "refused")
  /\ UNCHANGED <<record, releases, current, previous, slots, deaths>>

\* Three links, each by rename; previous names the release that was current
\* when the install began.
linkSlot(i) ==
  /\ installing[i] = "slot"
  /\ slots' = [slots EXCEPT ![record[i].slot] = record[i].release]
  /\ advance(i, IF record[i].expected = NoRelease THEN "current"
                ELSE "previous")
  /\ UNCHANGED <<record, releases, current, previous, deaths>>

linkPrevious(i) ==
  /\ installing[i] = "previous"
  /\ previous' = record[i].expected
  /\ advance(i, "current")
  /\ UNCHANGED <<record, releases, current, slots, deaths>>

linkCurrent(i) ==
  /\ installing[i] = "current"
  /\ current' = record[i].release
  /\ advance(i, "installed")
  /\ UNCHANGED <<record, releases, previous, slots, deaths>>

install(i) ==
  \/ createReleaseDirectory(i) \/ copyDeclaredFiles(i) \/ readbackRelease(i)
  \/ linkSlot(i) \/ linkPrevious(i) \/ linkCurrent(i)

\* A link that cannot be written throws where it is.
installThrows(i) ==
  /\ installing[i] \in {"slot", "previous", "current"}
  /\ advance(i, "refused")
  /\ UNCHANGED <<record, releases, current, previous, slots, deaths>>

installDies(i) ==
  /\ installing[i] \in InstallRunning
  /\ deaths < MaxDeaths
  /\ deaths' = deaths + 1
  /\ advance(i, "dead")
  /\ UNCHANGED <<record, releases, current, previous, slots>>

----------------------------------------------------------------------------

BootstrapTypeOK ==
  /\ installing \in [Installs -> {"idle", "refused", "installed", "dead"}
                                   \cup InstallRunning]
  /\ record \in [Installs -> Record]
  /\ releases \in [ControllerReleases -> {"absent", "partial", "complete"}]
  /\ current \in Link /\ previous \in Link
  /\ slots \in [Slot -> Link]

\* Whatever installs race or die, every link names a complete release, and
\* once a controller is installed there always is one.
LinksComplete ==
  /\ \A l \in {current, previous, slots["a"], slots["b"]} \ {NoRelease} :
       releases[l] = "complete"
  /\ previous # NoRelease => current # NoRelease
=============================================================================
