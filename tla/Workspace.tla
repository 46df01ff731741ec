----------------------------- MODULE Workspace -----------------------------
(***************************************************************************)
(* One gitr window at a time, its list of projects and the git processes   *)
(* it starts: launching (crates/gitr/src/main.rs), opening, adding,        *)
(* switching, cloning, synchronising and deleting (ui/src/workspace.rs),   *)
(* the clone and the fetch themselves (vcs/src/process/remote.rs,          *)
(* branch.rs), the saved list (ui/src/persistence.rs), and the end of the  *)
(* process at any point.                                                   *)
(*                                                                         *)
(* A job is a background task with the handler that runs in the window     *)
(* when it ends; handlers run one at a time on the frame thread, the steps *)
(* of jobs and of detached saves interleave with them.  What a repository  *)
(* shows is reduced to the version of its clone it was last read at.       *)
(***************************************************************************)
EXTENDS ProjectList, WindowSettings

CONSTANTS
  None,       \* no source shown, no clone running
  Remembered, \* lists an earlier launch may have saved
  MaxInputs,  \* bound on what the user does, over every launch
  MaxLaunches \* bound on launches

Dir == {CacheDir[u] : u \in Url}

List == [projects : Seq(Project), active : Source \cup {NoSource}]

RemoteSources == {RemoteSource(u) : u \in Url}
RemotesIn(list) == Sources(list) \cap RemoteSources

(* A list a launch may find: no two remote projects have the same clone.  The
   file may be hand-edited or stale, so the active project may be absent, or
   one that is not listed. *)
Saveable(list) ==
  /\ list \in List
  /\ \A source, other \in RemotesIn(list) : source.root = other.root => source = other

ASSUME WorkspaceAssumption ==
  /\ None \notin Source \cup Url
  /\ EmptyList \in Remembered
  /\ \A list \in Remembered : Saveable(list)
  /\ MaxInputs \in Nat /\ MaxLaunches \in Nat

VARIABLES
  open,          \* whether the window, and with it the process, is there
  projects,      \* Workspace::projects
  shown,         \* the source Workspace::repository was opened on
  viewed,        \* the version of the clone the repository was last read at
  cloning,       \* the URL of cloning_project, or None
  synchronising, \* the flag of that name
  clones,        \* clones in progress: [url, step, ok]
  fetches,       \* fetches in progress: [source, step, ok]
  deletions,     \* branch deletions in progress: [source, step, ok]
  saves,         \* detached saves of the list: [list, step]
  destination,   \* per directory: "absent", "partial" or "whole"
  partial,       \* the same of its .gitr-partial sibling
  version,       \* per directory: how often its references moved
  orphans,       \* git processes of windows that are gone: [kind, dir]
  file,          \* projects.json: [list, readable]
  inputs, launches,
  told           \* per directory: the version of the last success reported

jobVars == <<clones, fetches, deletions>>
diskVars == <<destination, partial, version, orphans>>
windowVars == <<open, projects, shown, viewed, cloning, synchronising>>
workspaceVars == <<windowVars, jobVars, saves, diskVars, file, inputs, launches, told>>
allVars == <<workspaceVars, settingsVars>>

Presence == {"absent", "partial", "whole"}
CloneStep == {"prepare", "git", "writing", "rename", "cleanup", "ended"}

WorkspaceTypeOK ==
  /\ {open, synchronising} \subseteq BOOLEAN
  /\ {projects, file.list} \subseteq List /\ file.readable \in BOOLEAN
  /\ shown \in Source \cup {None} /\ viewed \in Nat
  /\ cloning \in Url \cup {None}
  /\ clones \subseteq [url : Url, step : CloneStep, ok : BOOLEAN]
  /\ fetches \cup deletions
       \subseteq [source : Source, step : {"git", "ended"}, ok : BOOLEAN]
  /\ saves \subseteq [list : List, step : {"open", "write"}]
  /\ {destination, partial} \subseteq [Dir -> Presence]
  /\ {version, told} \subseteq [Dir -> Nat]
  /\ orphans \subseteq [kind : {"clone", "references"}, dir : Dir]
  /\ inputs \in 0..MaxInputs /\ launches \in 0..MaxLaunches
  /\ SettingsTypeOK

----------------------------------------------------------------------------
VersionOf(source) == IF source \in RemoteSources THEN version[source.root] ELSE 0

(* persist_projects, for the list the step leaves behind. *)
PersistProjects == saves' = saves \cup {[list |-> projects', step |-> "open"]}

(* open_project: the repository is read anew, watched or not
   (repository_path_and_watch); panels start from its blank state. *)
OpenProject(source) == shown' = source /\ viewed' = VersionOf(source)

(* Mutant: adding a project to the list does not open it. *)
ActivateWithoutOpening(source) ==
  /\ projects' = AddOrActivate(projects, NewProject(source))
  /\ PersistProjects
  /\ IF projects.active = source \/ source \notin Sources(projects)
     THEN UNCHANGED <<shown, viewed>> ELSE OpenProject(source)

(* activate_project: add or activate, persist, and open unless it is the
   active project already. *)
ActivateProject(source) ==
  /\ projects' = AddOrActivate(projects, NewProject(source))
  /\ PersistProjects
  /\ IF projects.active = source THEN UNCHANGED <<shown, viewed>>
     ELSE OpenProject(source)

(* RepositoryState::reload of whichever repository is open. *)
ReloadShown == viewed' = VersionOf(shown)

Input == open /\ inputs < MaxInputs /\ inputs' = inputs + 1

----------------------------------------------------------------------------
(* Launching.  main reads the saved list, an unreadable one as an empty one,
   makes the repository of the requested path or of the working directory
   active, and saves before the window opens. *)
ListAtStartup == IF file.readable THEN file.list ELSE EmptyList

(* Mutant: a bare launch never aborts. *)
AbortsOnlyRequested(requested) == requested

(* aborts_launch, for a start directory outside any repository. *)
AbortsLaunch(requested) == requested \/ ListAtStartup.projects = <<>>

OpenWindow(list) ==
  /\ open' = TRUE
  /\ projects' = list
  /\ shown' = ActiveSource(list)
  /\ viewed' = VersionOf(ActiveSource(list))
  /\ file' = [list |-> list, readable |-> TRUE]
  /\ launches' = launches + 1
  /\ RestoreSettings
  /\ UNCHANGED <<cloning, synchronising, jobVars, saves, diskVars, inputs, told>>

Launch(root) ==
  /\ ~open /\ launches < MaxLaunches
  /\ OpenWindow(AddOrActivate(ListAtStartup, NewProject(LocalSource(root))))

LaunchOutsideRepository(requested) ==
  /\ ~open /\ launches < MaxLaunches
  /\ ~AbortsLaunch(requested)
  /\ OpenWindow(ListAtStartup)

(* The git processes the window leaves behind: nothing ends them with it. *)
Orphaned ==
  {[kind |-> "clone", dir |-> CacheDir[clone.url]] : clone \in {c \in clones : c.step = "writing"}}
    \cup {[kind |-> "references", dir |-> job.source.root] :
            job \in {j \in fetches \cup deletions :
                      j.step = "git" /\ j.source \in RemoteSources}}

(* The end of the process, by Quit or the last window closing (saves) or by
   a crash: every task ends where it is. *)
Exit(saves_layout) ==
  /\ open
  /\ open' = FALSE /\ shown' = None /\ viewed' = 0
  /\ projects' = EmptyList
  /\ cloning' = None /\ synchronising' = FALSE
  /\ clones' = {} /\ fetches' = {} /\ deletions' = {} /\ saves' = {}
  /\ orphans' = orphans \cup Orphaned
  /\ EndSettings(saves_layout)
  /\ UNCHANGED <<destination, partial, version, file, inputs, launches, told>>

(* The two halves of fs::write, of any save in flight: saves may overlap.
   Written over what another save left after the truncation, the content is
   a mixture no reader parses. *)
TruncateFile(save) ==
  /\ save \in saves /\ save.step = "open"
  /\ saves' = (saves \ {save}) \cup {[save EXCEPT !.step = "write"]}
  /\ file' = [list |-> EmptyList, readable |-> FALSE]
  /\ UNCHANGED <<windowVars, jobVars, diskVars, inputs, launches, told, settingsVars>>

WriteFile(save) ==
  /\ save \in saves /\ save.step = "write"
  /\ saves' = saves \ {save}
  /\ file' \in {[list |-> save.list, readable |-> TRUE]} \cup
               IF file.readable /\ file.list # save.list
               THEN {[list |-> EmptyList, readable |-> FALSE]} ELSE {}
  /\ UNCHANGED <<windowVars, jobVars, diskVars, inputs, launches, told, settingsVars>>

----------------------------------------------------------------------------
(* What the user does in the selector, the sidebar and the branch menu. *)
Unstarted == UNCHANGED <<open, synchronising, cloning, jobVars, diskVars, file,
                         launches, told, settingsVars>>

(* switch_to, on a row of the selector. *)
SwitchTo(query, source) ==
  /\ Input
  /\ source \in Rows(projects, query)
  /\ projects.active # source
  /\ projects' = Activate(projects, source)
  /\ PersistProjects
  /\ OpenProject(source)
  /\ Unstarted

(* add_project_from_disk, for a path inside a repository: any other is
   reported and changes nothing. *)
AddProjectFromDisk(root) ==
  /\ Input
  /\ ActivateProject(LocalSource(root))
  /\ Unstarted

(* add_project_from_url, for a URL that is valid: any other is reported. *)
ActivateKnownUrl(url) ==
  /\ Input
  /\ Knows(projects, RemoteSource(url))
  /\ ActivateProject(RemoteSource(url))
  /\ Unstarted

(* Mutant: a second clone may start while one is in flight. *)
StartAnyClone(url) ==
  /\ Input
  /\ ~Knows(projects, RemoteSource(url))
  /\ cloning' = url
  /\ clones' = clones \cup {[url |-> url, step |-> "prepare", ok |-> FALSE]}
  /\ UNCHANGED <<open, projects, shown, viewed, synchronising, fetches, deletions,
                 saves, diskVars, file, launches, told, settingsVars>>

StartClone(url) ==
  /\ Input
  /\ ~Knows(projects, RemoteSource(url))
  /\ cloning = None
  /\ cloning' = url
  /\ clones' = clones \cup {[url |-> url, step |-> "prepare", ok |-> FALSE]}
  /\ UNCHANGED <<open, projects, shown, viewed, synchronising, fetches, deletions,
                 saves, diskVars, file, launches, told, settingsVars>>

(* synchronise_active_project: nothing for a local project, or while the flag
   stands, whichever project it was raised for. *)
SynchroniseActiveProject ==
  LET source == ActiveSource(projects) IN
  /\ Input
  /\ source \in RemoteSources
  /\ ~synchronising
  /\ synchronising' = TRUE
  /\ fetches' = fetches \cup {[source |-> source, step |-> "git", ok |-> FALSE]}
  /\ UNCHANGED <<open, projects, shown, viewed, cloning, clones, deletions,
                 saves, diskVars, file, launches, told, settingsVars>>

(* Workspace::delete_local_branch: the path is the open repository's. *)
DeleteLocalBranch ==
  /\ Input
  /\ deletions' = deletions \cup {[source |-> shown, step |-> "git", ok |-> FALSE]}
  /\ UNCHANGED <<windowVars, clones, fetches, saves, diskVars, file, launches,
                 told, settingsVars>>

----------------------------------------------------------------------------
(* The steps of clone_bare_internal, on a background thread. *)
CloneStepOf(clone, step, ok) ==
  /\ clones' = (clones \ {clone}) \cup {[clone EXCEPT !.step = step, !.ok = ok]}
  /\ UNCHANGED <<windowVars, fetches, deletions, saves, version, orphans, file, inputs,
                 launches, told, settingsVars>>

(* Refuses a destination that exists and removes what an earlier clone left
   beside it, which may fail. *)
PrepareClone(clone) ==
  LET dir == CacheDir[clone.url] IN
  /\ clone.step = "prepare"
  /\ \/ /\ destination[dir] = "absent"
        /\ CloneStepOf(clone, "git", FALSE)
        /\ partial' = [partial EXCEPT ![dir] = "absent"]
     \/ /\ CloneStepOf(clone, "ended", FALSE)
        /\ UNCHANGED partial
  /\ UNCHANGED destination

(* git writes into the sibling; it ends with a whole clone, or fails and may
   leave what it wrote. *)
GitStartsWriting(clone) ==
  /\ clone.step = "git"
  /\ CloneStepOf(clone, "writing", FALSE)
  /\ partial' = [partial EXCEPT ![CacheDir[clone.url]] = "partial"]
  /\ UNCHANGED destination

GitEndsWriting(clone) ==
  LET dir == CacheDir[clone.url] IN
  /\ clone.step = "writing"
  /\ \/ /\ CloneStepOf(clone, "rename", TRUE)
        /\ partial' = [partial EXCEPT ![dir] = "whole"]
     \/ /\ CloneStepOf(clone, "cleanup", FALSE)
        /\ partial' \in {partial, [partial EXCEPT ![dir] = "absent"]}
  /\ UNCHANGED destination

(* Mutant: the sibling takes its place before git has ended. *)
RenameEarly(clone) ==
  LET dir == CacheDir[clone.url] IN
  /\ clone.step \in {"writing", "rename"}
  /\ CloneStepOf(clone, "ended", TRUE)
  /\ destination' = [destination EXCEPT ![dir] = partial[dir]]
  /\ partial' = [partial EXCEPT ![dir] = "absent"]

(* The rename into place; like every file operation it may fail, and does
   over a directory that is there, or of one that an orphan removed. *)
RenameClone(clone) ==
  LET dir == CacheDir[clone.url] IN
  /\ clone.step = "rename"
  /\ \/ /\ destination[dir] = "absent" /\ partial[dir] # "absent"
        /\ CloneStepOf(clone, "ended", TRUE)
        /\ destination' = [destination EXCEPT ![dir] = partial[dir]]
        /\ partial' = [partial EXCEPT ![dir] = "absent"]
     \/ /\ CloneStepOf(clone, "ended", FALSE)
        /\ UNCHANGED <<destination, partial>>

CleanUpClone(clone) ==
  /\ clone.step = "cleanup"
  /\ CloneStepOf(clone, "ended", FALSE)
  /\ partial' \in {partial, [partial EXCEPT ![CacheDir[clone.url]] = "absent"]}
  /\ UNCHANGED destination

(* The end of add_project_from_url's task, in the window. *)
CloneEnds(clone) ==
  /\ clone.step = "ended"
  /\ clones' = clones \ {clone}
  /\ cloning' = None
  /\ IF clone.ok THEN ActivateProject(RemoteSource(clone.url))
     ELSE UNCHANGED <<projects, shown, viewed, saves>>
  /\ UNCHANGED <<open, synchronising, fetches, deletions, diskVars, file,
                 inputs, launches, told, settingsVars>>

----------------------------------------------------------------------------
(* git fetch and git branch -D: either may move references of a clone, a
   fetch even when it fails halfway.  The checkout before a branch -D is
   refused in a clone, which has no work tree. *)
Moves(source) ==
  IF source \in RemoteSources
  THEN [version EXCEPT ![source.root] = @ + 1] ELSE version

GitFetches(fetch) ==
  /\ fetch.step = "git"
  /\ \E ok \in BOOLEAN :
       fetches' = (fetches \ {fetch}) \cup {[fetch EXCEPT !.step = "ended", !.ok = ok]}
  /\ version' \in {version, Moves(fetch.source)}
  /\ UNCHANGED <<windowVars, clones, deletions, saves, destination, partial, orphans,
                 file, inputs, launches, told, settingsVars>>

GitDeletes(deletion) ==
  /\ deletion.step = "git"
  /\ \E ok \in BOOLEAN :
       /\ deletions' = (deletions \ {deletion})
                         \cup {[deletion EXCEPT !.step = "ended", !.ok = ok]}
       /\ version' = IF ok THEN Moves(deletion.source) ELSE version
  /\ UNCHANGED <<windowVars, clones, fetches, saves, destination, partial, orphans,
                 file, inputs, launches, told, settingsVars>>

(* An orphan's clone stays where it is, whole or not, until the next clone
   removes it, or git removes the sibling on its way out, whoever has made it
   since; an orphaned fetch or deletion may move references. *)
OrphanEnds(orphan) ==
  /\ orphans' = orphans \ {orphan}
  /\ IF orphan.kind = "clone"
     THEN partial' \in {partial, [partial EXCEPT ![orphan.dir] = "absent"]} /\ UNCHANGED version
     ELSE version' \in {version, [version EXCEPT ![orphan.dir] = @ + 1]} /\ UNCHANGED partial
  /\ UNCHANGED <<windowVars, jobVars, saves, destination, file, inputs, launches, told,
                 settingsVars>>

(* A success is reported for the version the clone has then. *)
Report(source) ==
  told' = IF source \in RemoteSources
          THEN [told EXCEPT ![source.root] = version[source.root]] ELSE told

(* Mutant: the end of a fetch reloads nothing. *)
FetchEndsWithoutReload(fetch) ==
  /\ fetch.step = "ended"
  /\ fetches' = fetches \ {fetch}
  /\ synchronising' = FALSE
  /\ IF fetch.ok
     THEN /\ projects' = MarkSynchronised(projects, fetch.source)
          /\ PersistProjects
          /\ Report(fetch.source)
     ELSE UNCHANGED <<projects, saves, told>>
  /\ UNCHANGED <<open, shown, viewed, cloning, clones, deletions, diskVars, file,
                 inputs, launches, settingsVars>>

(* Mutant: a failed fetch leaves the flag standing. *)
FetchEndsBusy(fetch) ==
  /\ fetch.step = "ended"
  /\ fetches' = fetches \ {fetch}
  /\ synchronising' = ~fetch.ok
  /\ UNCHANGED <<open, projects, shown, viewed, cloning, clones, deletions,
                 saves, diskVars, file, inputs, launches, told, settingsVars>>

(* The end of synchronise_active_project's task: the repository is reloaded
   only when the project fetched is the one `active` names by then. *)
FetchEnds(fetch) ==
  /\ fetch.step = "ended"
  /\ fetches' = fetches \ {fetch}
  /\ synchronising' = FALSE
  /\ IF fetch.ok
     THEN /\ projects' = MarkSynchronised(projects, fetch.source)
          /\ PersistProjects
          /\ IF projects.active = fetch.source THEN ReloadShown ELSE UNCHANGED viewed
          /\ Report(fetch.source)
     ELSE UNCHANGED <<projects, viewed, saves, told>>
  /\ UNCHANGED <<open, shown, cloning, clones, deletions, diskVars, file,
                 inputs, launches, settingsVars>>

(* The end of delete_local_branch's task: whichever repository is open by
   then is reloaded. *)
DeletionEnds(deletion) ==
  /\ deletion.step = "ended"
  /\ deletions' = deletions \ {deletion}
  /\ IF deletion.ok THEN ReloadShown /\ Report(deletion.source)
     ELSE UNCHANGED <<viewed, told>>
  /\ UNCHANGED <<open, projects, shown, cloning, synchronising, clones, fetches,
                 saves, diskVars, file, inputs, launches, settingsVars>>

----------------------------------------------------------------------------
(* The settings of the window, under the same bound on inputs. *)
ChangeSettings ==
  /\ Input
  /\ (\E chosen \in ThemePreference : SetThemePreference(chosen))
       \/ AppearanceChanges \/ LayoutChanges
  /\ UNCHANGED <<windowVars, jobVars, saves, diskVars, file, launches, told>>

SettingsTimer ==
  /\ (\E id \in 1..MaxTransitions : TransitionElapses(id)) \/ SaveElapses
  /\ UNCHANGED workspaceVars

(* The controls of the project selector. *)
SelectorInput ==
  \/ \E query \in NameQuery, source \in Source : SwitchTo(query, source)
  \/ \E root \in Local : AddProjectFromDisk(root)
  \/ \E url \in Url : ActivateKnownUrl(url) \/ StartClone(url)
  \/ SynchroniseActiveProject

(* The selector, the menus of branches, and the menus of the application,
   which reach the handlers of the selector and of the settings. *)
UserInput == SelectorInput \/ DeleteLocalBranch \/ ChangeSettings

CloneProceeds ==
  \E clone \in clones : \/ PrepareClone(clone) \/ GitStartsWriting(clone)
                        \/ GitEndsWriting(clone) \/ RenameClone(clone)
                        \/ CleanUpClone(clone) \/ CloneEnds(clone)
FetchProceeds == \E fetch \in fetches : GitFetches(fetch) \/ FetchEnds(fetch)
DeletionProceeds ==
  \E deletion \in deletions : GitDeletes(deletion) \/ DeletionEnds(deletion)
SaveProceeds == \E save \in saves : TruncateFile(save) \/ WriteFile(save)

(* No window yet; the clones of the remembered remote projects are whole. *)
WorkspaceInit ==
  /\ open = FALSE /\ projects = EmptyList /\ shown = None /\ viewed = 0
  /\ cloning = None /\ synchronising = FALSE
  /\ clones = {} /\ fetches = {} /\ deletions = {} /\ saves = {}
  /\ \E list \in Remembered :
       /\ file = [list |-> list, readable |-> TRUE]
       /\ destination = [d \in Dir |-> IF \E s \in RemotesIn(list) : s.root = d
                                      THEN "whole" ELSE "absent"]
  /\ partial = [d \in Dir |-> "absent"]
  /\ orphans = {}
  /\ version = [d \in Dir |-> 0] /\ told = [d \in Dir |-> 0]
  /\ inputs = 0 /\ launches = 0
  /\ SettingsInit

WorkspaceNext ==
  \/ \E root \in Local : Launch(root)
  \/ \E requested \in BOOLEAN : LaunchOutsideRepository(requested)
  \/ \E saves_layout \in BOOLEAN : Exit(saves_layout)
  \/ UserInput
  \/ CloneProceeds \/ FetchProceeds \/ DeletionProceeds
  \/ SaveProceeds \/ SettingsTimer
  \/ \E orphan \in orphans : OrphanEnds(orphan)

(* The executor runs every task and git ends every command it is given:
   nothing in the code bounds a command that waits for the network. *)
WorkspaceFairness ==
  WF_allVars(CloneProceeds) /\ WF_allVars(FetchProceeds)

WorkspaceSpec == WorkspaceInit /\ [][WorkspaceNext]_allVars /\ WorkspaceFairness

----------------------------------------------------------------------------
(* Whatever the saved list named, a window shows a project of its list, and
   every change of the active project or of the repository shown, by a launch,
   a switch, an addition or the end of a clone, leaves the window showing the
   active project (Workspace::new, switch_to, activate_project, open_project). *)
WindowFollowsActive ==
  [][open' =>
       /\ shown' \in Sources(projects')
       /\ projects'.active # projects.active \/ shown' # shown
            => shown' = ActiveSource(projects')]_allVars

(* "Makes it active, persists the list, and - unless it was already the active
   project - opens it" (activate_project), where the active project is the one
   active_project falls back to for "a hand-edited or stale persisted file":
   the window has a project and shows the active one. *)
ShownIsActive ==
  open => projects.projects # <<>> /\ shown = ActiveSource(projects)

(* The selector shows a clone in progress exactly while the window has one,
   and never two (cloning_project, add_project_from_url). *)
CloneRowIsTrue ==
  {clone.url : clone \in clones} = {cloning} \ {None} /\ Cardinality(clones) \in 0..1

(* Every remote project, in memory or in a saved list, has a whole clone on
   disk, and no two have the same one: neither a failure nor a crash at any
   point leaves anything else at a destination (clone_bare,
   remote_cache_dir). *)
ListedRemotesAreCloned ==
  \A list \in {projects, file.list} \cup {save.list : save \in saves} :
    \A source \in RemotesIn(list) :
      /\ destination[source.root] = "whole"
      /\ \A other \in RemotesIn(list) : other.root = source.root => other = source

(* What a successful synchronise or deletion was reported for is on screen
   as long as its project is shown and is the one the list's `active` names,
   however the user switched meanwhile: a clone is not watched, only the
   handlers reload it (synchronise_active_project, delete_local_branch,
   open_project).  The window shows a project `active` does not name only
   after a stale or hand-edited list. *)
ReportedIsShown ==
  shown \in RemoteSources /\ shown = projects.active => viewed >= told[shown.root]

(* "The repository is reloaded so the history actually reflects what the fetch
   brought in", unless the user switched to another project
   (synchronise_active_project): what a success was reported for is on screen
   whenever its project is. *)
SynchroniseIsShown ==
  shown \in RemoteSources => viewed >= told[shown.root]

(* However choices of theme, changes of the system's appearance, timers and
   changes of the layout are ordered, the mode on screen is the preferred one,
   a cross-fade runs as long as its own timer, and no change of the layout is
   forgotten (set_theme_preference, schedule_save; see WindowSettings). *)
SettingsAreKept ==
  open => ModeIsPreferred /\ CrossFadeHasItsTimer /\ QuietLayoutIsSaved

(* Every clone and every synchronise leaves the window idle again, whatever
   step of it fails (add_project_from_url, synchronise_active_project). *)
BusyEnds == (cloning # None ~> cloning = None) /\ (synchronising ~> ~synchronising)
=============================================================================
