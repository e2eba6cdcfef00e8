------------------------------ MODULE MCGitRoot ------------------------------
(***************************************************************************)
(* GitRoot on a four-directory file system: the root and three others,   *)
(* over every tree shape (a chain of depth 3, forks) and every placement  *)
(* of .git, so that nested repositories and a repository at the root      *)
(* occur.                                                                  *)
(***************************************************************************)
EXTENDS GitRoot

CONSTANTS r, a, b, c

MCDirs == {r, a, b, c}

=============================================================================
