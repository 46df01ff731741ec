---------------------------- MODULE MCWorkspace ----------------------------
(* One repository on disk and three URLs, two of which share a cache
   directory; the search box keeps everything or the remote projects; an
   earlier launch saved nothing, or the repository and a remote project; or the
   list is stale and names a project active that it does not hold. *)
EXTENDS Workspace

CONSTANTS l1, u1, u2, u3, d1, d2

MCUrl == {u1, u2, u3}
MCCacheDir == (u1 :> d1) @@ (u2 :> d1) @@ (u3 :> d2)
MCNaming == [q \in NameQuery |-> IF q = "all" THEN Source
                                 ELSE {RemoteSource(u) : u \in Url}]
MCRemembered == {EmptyList,
  [projects |-> <<NewProject(LocalSource(l1)), NewProject(RemoteSource(u1))>>,
   active |-> RemoteSource(u1)],
  [projects |-> <<NewProject(RemoteSource(u1))>>, active |-> LocalSource(l1)]}
=============================================================================
