------------------------ MODULE MCWatchedRepository ------------------------
(* Values for the constants of WatchedRepository: one branch that moves, HEAD
   and the refs directory.  In a linked worktree refs lies in the common
   directory, outside both roots. *)
EXTENDS WatchedRepository

CONSTANTS c1, c2, topic, head, refs

MCAncestry == [c \in Commit |-> IF c = c2 THEN {c1, c2} ELSE {c1}]

MCSnapshot == {[refs |-> [r \in Reference |-> c], head |-> topic] : c \in Commit}

MCNameOf == [c \in Child |-> IF c = head THEN "HEAD" ELSE "refs"]

MCRootOf == [c \in Child |-> "gitDir"]

LinkedRootOf == [c \in Child |-> IF c = refs THEN "commonDir" ELSE "gitDir"]
=============================================================================
