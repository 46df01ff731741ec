---------------------------- MODULE ProjectList ----------------------------
(***************************************************************************)
(* The remembered list of projects of crates/ui/src/project.rs: what the   *)
(* selector shows, what a window opens and what is saved across launches.  *)
(*                                                                         *)
(* A project is identified by its source.  The equality of ProjectSource   *)
(* ignores the time of the last synchronise, so that time is kept beside   *)
(* the source here, as a flag.  The characters of URLs and names are left  *)
(* out: remote_cache_dir is any function of the URL, collisions included.  *)
(***************************************************************************)
EXTENDS Naturals, Sequences, SequencesExt

CONSTANTS
  Local,     \* roots of repositories on disk
  Url,       \* URLs validate_remote_url lets through, already trimmed
  CacheDir,  \* CacheDir[u]: the directory a clone of u lands in
  NameQuery, \* texts of the selector's search box
  Naming,    \* Naming[q]: the sources whose project's name contains q
  NoSource   \* the None of ProjectList::active

LocalSource(root) == [kind |-> "local", root |-> root]
RemoteSource(url) == [kind |-> "remote", url |-> url, root |-> CacheDir[url]]

Source == {LocalSource(r) : r \in Local} \cup {RemoteSource(u) : u \in Url}

ASSUME SourceAssumption ==
  /\ NoSource \notin Source
  /\ DOMAIN CacheDir = Url
  /\ Naming \in [NameQuery -> SUBSET Source]

Project == [source : Source, synchronised : BOOLEAN]
NewProject(source) == [source |-> source, synchronised |-> FALSE]
EmptyList == [projects |-> <<>>, active |-> NoSource]

Sources(list) == {list.projects[i].source : i \in DOMAIN list.projects}

----------------------------------------------------------------------------
(* active_project: the entry `active` names, else the first one. *)
ActiveSource(list) ==
  IF list.active \in Sources(list) THEN list.active
  ELSE IF list.projects # <<>> THEN list.projects[1].source ELSE NoSource

AddOrActivate(list, project) ==
  [projects |-> IF project.source \in Sources(list) THEN list.projects
                ELSE Append(list.projects, project),
   active   |-> project.source]

Knows(list, source) == source \in Sources(list)

(* activate, for a source the list knows. *)
Activate(list, source) == [list EXCEPT !.active = source]

(* mark_synchronised: nothing for an unknown source or a local one.  The
   refresh of `active` is the identity here, the time being kept apart. *)
MarkSynchronised(list, source) ==
  [list EXCEPT !.projects =
     [i \in DOMAIN @ |-> IF @[i].source = source /\ source.kind = "remote"
                         THEN [@[i] EXCEPT !.synchronised = TRUE] ELSE @[i]]]

(* filter_projects: the rows of the selector, the whole list being searched. *)
Rows(list, query) == Sources(list) \cap Naming[query]
=============================================================================
