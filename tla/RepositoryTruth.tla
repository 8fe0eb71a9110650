--------------------------- MODULE RepositoryTruth ---------------------------
(***************************************************************************)
(* The Git workspace that publications are made from                       *)
(* (src/github/repository-truth.ts): a worktree materialized from a source *)
(* ref, registered in the deployment database, and committed to.           *)
(*                                                                         *)
(* A commit stands for itself and its tree.  Git refuses to corrupt its    *)
(* own files, so a command happens or fails as a whole; the process may    *)
(* die between the commands and the registry's write.  The branch, head    *)
(* and cleanliness columns of the registry (updateObservation) repeat what *)
(* was last seen; only the authorization of a commit reads one back, and   *)
(* authorization is withdrawn at will here.  They are left out, and with   *)
(* them the operations that change nothing else (verify, status, add, and  *)
(* createBranch, which switches branches at an unchanged HEAD).            *)
(***************************************************************************)
EXTENDS Integers

CONSTANTS
  Commits,      \* commits of the repository
  None,         \* undefined: the ref, the worktree or the value does not exist
  Ancestors,    \* pairs <<a, b>> with a an ancestor of b (or b itself)
  Source        \* the commit the source ref names

ASSUME NoneAssumption == None \notin Commits
ASSUME AncestorsAssumption ==
  /\ Ancestors \subseteq Commits \X Commits
  /\ \A c \in Commits : <<c, c>> \in Ancestors
ASSUME SourceAssumption == Source \in Commits

Objects == Commits \cup {None}

VARIABLES
  head,       \* HEAD of the worktree
  clean,      \* git status of the worktree is empty
  workspace   \* github_git_workspaces: the sourceCommit of the registered row

truthVars == <<head, clean, workspace>>

\* No worktree and no row, or both.
TruthInit ==
  /\ clean = TRUE
  /\ workspace = IF head = None THEN None ELSE Source

\* The worktree as materialize finds it: absent, or at the expected commit.
Materializable == head \in {None, Source} /\ clean

\* The row is written, unless the process dies before it.
register == workspace' \in {None, Source}

\* materialize: fetch, worktree add, register.  A worktree without its row is
\* taken up by the next call.
materialize ==
  /\ workspace = None
  /\ Materializable
  /\ head' = Source
  /\ register
  /\ UNCHANGED clean

\* createCommit of exactly the declared changes, on the expected parent.
createCommit(c) ==
  /\ workspace # None
  /\ ~clean
  /\ c # head /\ <<head, c>> \in Ancestors
  /\ head' = c
  /\ clean' = TRUE
  /\ UNCHANGED workspace

\* Other users of the worktree change files in it, ...
editWorktree ==
  /\ head # None /\ clean
  /\ clean' = FALSE
  /\ UNCHANGED <<head, workspace>>

\* ... or move its HEAD.
moveWorkspace(c) ==
  /\ head # None /\ c # head
  /\ head' = c
  /\ UNCHANGED <<clean, workspace>>

\* requireWorkspace and readWorkspaceIdentity, as publications ask for them.
WorkspaceReady == workspace # None /\ clean

\* A registered workspace has a worktree.
WorkspaceOK ==
  /\ head \in Objects /\ clean \in BOOLEAN
  /\ workspace \in Objects
  /\ workspace # None => head # None
=============================================================================
