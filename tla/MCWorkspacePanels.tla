------------------------- MODULE MCWorkspacePanels -------------------------
(* Values for the constants of WorkspacePanels: two commits in a line, a
   branch that comes and goes, a remote branch, a detached HEAD, and a search
   text that keeps the newer commit only. *)
EXTENDS WorkspacePanels

CONSTANTS c1, c2, topic, origin, newer

MCAncestry == [c \in Commit |-> IF c = c2 THEN {c1, c2} ELSE {c1}]

MCMatching == [q \in Query |-> IF q = NoQuery THEN Commit ELSE {c2}]

Refs(t, o) == [r \in Reference |-> IF r = topic THEN t ELSE o]

MCSnapshot == {
  [refs |-> Refs(c2, c1), head |-> topic],    \* the branch is checked out
  [refs |-> Refs(None, c2), head |-> c1] }    \* only the remote branch has c2
=============================================================================
