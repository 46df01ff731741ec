-------------------------- MODULE MCWatchPipeline --------------------------
(* Values for the constants of WatchPipeline: HEAD, the refs directory, the
   object store, and a directory that appears in the working tree. *)
EXTENDS WatchPipeline

CONSTANTS head, refs, objects, src

MCRootOf == [c \in Child |-> IF c = src THEN "workingTree" ELSE "gitDir"]

MCNameOf == [c \in Child |-> CASE c = head -> "HEAD"     [] c = refs -> "refs"
                               [] c = objects -> "objects" [] c = src -> "src"]
=============================================================================
