------------------------------- MODULE GitRoot -------------------------------
(***************************************************************************)
(* GetGitRepositoryRoot of pkg/utils/utils.go: from the working directory, *)
(* walk up with filepath.Dir until a directory holding ".git" is found, or *)
(* until filepath.Dir returns its argument (the file-system root).          *)
(*                                                                         *)
(* The file system is a constant tree: parent is filepath.Dir on the      *)
(* directories of Dirs (Root is its own parent, as filepath.Dir("/") is   *)
(* "/"), and HasGit is the set of directories where os.Stat(dir/.git)     *)
(* succeeds.  Path strings are abstracted to the directories they name.   *)
(***************************************************************************)
EXTENDS Naturals, FiniteSets

CONSTANTS
    Dirs,      \* the directories of the file system
    Root,      \* the file-system root
    NoDir      \* "" : the string returned with an error

ASSUME Root \in Dirs /\ NoDir \notin Dirs

VARIABLES
    parent,      \* filepath.Dir on Dirs
    hasGit,      \* the directories in which os.Stat(dir/.git) succeeds
    pc,          \* "getwd", "loop" or "done"
    currentDir,  \* the loop variable
    start,       \* the directory os.Getwd returned
    result       \* [dir, err] returned

vars == <<parent, hasGit, pc, currentDir, start, result>>

\* parent^k(d): k applications of filepath.Dir.
RECURSIVE Up(_, _, _)
Up(p, d, k) == IF k = 0 THEN d ELSE Up(p, p[d], k - 1)

\* The directory trees: Root is its own parent, and every directory reaches
\* Root by filepath.Dir (each call drops one path element).
Trees ==
    { p \in [Dirs -> Dirs] :
        /\ p[Root] = Root
        /\ \A d \in Dirs \ {Root} : p[d] # d
        /\ \A d \in Dirs : Up(p, d, Cardinality(Dirs)) = Root }

Init ==
    /\ parent \in Trees
    /\ hasGit \in SUBSET Dirs
    /\ pc = "getwd"
    /\ currentDir = NoDir
    /\ start = NoDir
    /\ result = [dir |-> NoDir, err |-> "none"]

\* Lines 28-31: os.Getwd returns a directory, or fails.
Getwd ==
    /\ pc = "getwd"
    /\ \/ \E d \in Dirs : /\ currentDir' = d
                          /\ start' = d
                          /\ pc' = "loop"
                          /\ UNCHANGED result
       \/ /\ pc' = "done"
          /\ result' = [dir |-> NoDir, err |-> "getwd_failed"]
          /\ UNCHANGED <<currentDir, start>>
    /\ UNCHANGED <<parent, hasGit>>

\* A mutant: the root test made before the .git test.
StepRootCheckFirst ==
    /\ pc = "loop"
    /\ CASE parent[currentDir] = currentDir ->
                /\ pc' = "done"
                /\ result' = [dir |-> NoDir, err |-> "not_found"]
                /\ UNCHANGED currentDir
         [] currentDir \in hasGit ->
                /\ pc' = "done"
                /\ result' = [dir |-> currentDir, err |-> "none"]
                /\ UNCHANGED currentDir
         [] OTHER ->
                /\ currentDir' = parent[currentDir]
                /\ UNCHANGED <<pc, result>>
    /\ UNCHANGED <<parent, hasGit, start>>

\* A mutant: no root test, so the loop stays at the root.
StepNoRootCheck ==
    /\ pc = "loop"
    /\ IF currentDir \in hasGit
       THEN /\ pc' = "done"
            /\ result' = [dir |-> currentDir, err |-> "none"]
            /\ UNCHANGED currentDir
       ELSE /\ currentDir' = parent[currentDir]
            /\ UNCHANGED <<pc, result>>
    /\ UNCHANGED <<parent, hasGit, start>>

\* Lines 33-44: one iteration of the loop.
Step ==
    /\ pc = "loop"
    /\ CASE currentDir \in hasGit ->
                /\ pc' = "done"
                /\ result' = [dir |-> currentDir, err |-> "none"]
                /\ UNCHANGED currentDir
         [] parent[currentDir] = currentDir ->
                /\ pc' = "done"
                /\ result' = [dir |-> NoDir, err |-> "not_found"]
                /\ UNCHANGED currentDir
         [] OTHER ->
                /\ currentDir' = parent[currentDir]
                /\ UNCHANGED <<pc, result>>
    /\ UNCHANGED <<parent, hasGit, start>>

Next == Getwd \/ Step

Spec == Init /\ [][Next]_vars

\* The function runs on one goroutine without blocking: each step it can
\* take is eventually taken.
FairSpec == Spec /\ WF_vars(Next)

(***************************************************************************)
(* The reference: the nearest ancestor-or-self of the start directory that *)
(* holds .git, by its distance up the tree.                                *)
(***************************************************************************)
GitDistances(d) == { k \in 0..Cardinality(Dirs) : Up(parent, d, k) \in hasGit }

NearestGitRoot(d) ==
    IF GitDistances(d) = {} THEN NoDir
    ELSE Up(parent, d, CHOOSE k \in GitDistances(d) :
                           \A j \in GitDistances(d) : k <= j)

TypeOK ==
    /\ parent \in Trees
    /\ hasGit \subseteq Dirs
    /\ pc \in {"getwd", "loop", "done"}
    /\ currentDir \in Dirs \cup {NoDir}
    /\ start \in Dirs \cup {NoDir}
    /\ result \in [dir: Dirs \cup {NoDir}, err: {"none", "getwd_failed", "not_found"}]

(***************************************************************************)
(* Properties.                                                             *)
(***************************************************************************)

\* Nearest repository (the doc comment of GetGitRepositoryRoot): once the
\* walk from the working directory has returned without a Getwd error, it
\* returned the nearest enclosing directory holding .git, the file-system
\* root included, and an error exactly when there is none.
ReturnsNearestGitRoot ==
    pc = "done" /\ result.err # "getwd_failed" =>
        /\ result.dir = NearestGitRoot(start)
        /\ (result.err = "not_found") <=> (NearestGitRoot(start) = NoDir)

\* Termination: the loop of lines 33-44 has no other exit than the two
\* returns, and every call of GetGitRepositoryRoot returns.
AlwaysReturns == <>(pc = "done")

=============================================================================
