------------------------- MODULE MCRepositoryState -------------------------
(* Values for the constants of RepositoryState: two commits in a line, a
   branch that comes and goes, a remote branch and a detached HEAD. *)
EXTENDS RepositoryState

CONSTANTS c1, c2, topic, origin

MCAncestry == [c \in Commit |-> IF c = c2 THEN {c1, c2} ELSE {c1}]

Refs(t, o) == [r \in Reference |-> IF r = topic THEN t ELSE o]

MCSnapshot == {
  [refs |-> Refs(None, c1), head |-> c1],     \* the branch is deleted, c2 with it
  [refs |-> Refs(c2, c1), head |-> topic] }   \* the branch is checked out
=============================================================================
