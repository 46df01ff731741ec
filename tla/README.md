# Formal model of gitr

gitr is a Git client for macOS: a window on one repository at a time, with a
history table and its commit graph, a detail panel and a sidebar of references
and projects. Another program (a terminal, an editor) keeps changing the
repository underneath. Everything slow runs on a background executor, on a
thread of its own or in a git process, and is applied later on the frame
thread, so the hard part of the program is what happens between a question and
its answer.

This directory holds TLA+ modules translated from the source, TLC
configurations that check them on small instances, and proofs checked by TLAPS.

    tlc -workers 2 -config Workspace.cfg MCWorkspace
    tlapm RepositoryStateProofs.tla
    tlapm WatchedProofs.tla

## 1. The system

| Part | State it keeps | Operations | Talks to |
|---|---|---|---|
| `RepositoryState` (ui/src/repository/state.rs) | four `LoadState` slots and their tasks, filter, selection | open, set_filter, select, reload, the apply_* completions | readers (background), panels (events), watcher |
| Readers (vcs/src/gix_reader) | none | head, references, history, commit | the files of the repository |
| Panels (ui/src/history, ui/src/detail, ui/src/sidebar) and their wiring in ui/src/workspace.rs | copies: rows, filter, third tab, detail, dock attachment, a diff that waits for a paint | click, search, scope tab, filter by reference, toggle, dismiss | RepositoryState by calls, back by `RepositoryEvent` |
| Watcher (vcs/src/watch) | debouncer, subscriptions, known children, watcher thread | watch, pump, drop of the guard | notify (external), RepositoryState by a channel |
| Watch relay (start_watching, pump_changes in state.rs) | mailbox, receiving thread, poll loop | receive, poll, drop | reload |
| Graph layout (graph/src/layout.rs) | the loop's locals | layout, assemble | called by the history read |
| History table (ui/src/history/delegate.rs, geometry.rs) | rows, query, gutter, the widget's column widths | set_history, set_query, render | panels, graph layout |
| Projects (ui/src/project.rs, ui/src/workspace.rs) | list, active project, cloning and synchronising flags | launch, switch, add, clone, synchronise, delete branch, save | git processes, persistence |
| Git processes (vcs/src/process) | partial clone directory, the child's pipes, progress buffer | clone, fetch, checkout, branch -D, show | git |
| Patch parser and writer (patch_parser.rs, detail/format.rs) | position in the text, counts of the hunk | parse; text and its marks | detail panel |
| Single instance (gitr/src/instance.rs, main.rs) | a socket's file, its connections, the map of windows | hand off, bind, serve, raise, open | other gitr processes |
| Persistence and themes (persistence.rs, theme_preference.rs) | projects.json, the theme, the dock layout | load, save | Workspace |

What makes each part correct, and what makes it hard:

* *RepositoryState*: a slot shows an answer to the question asked last. Reads
  race calls, each other, failures and a disk that moves.
* *Panels*: their copies follow the repository, and the next one when another
  project takes its place. They are told by events only, and two of them keep
  the same filter.
* *Watch*: a change is reported however it is split over batches, hops and
  lost events; a closed window leaves neither thread nor subscription.
* *Both together*: the window ends up showing the last change.
* *Graph and table*: rows are drawn one by one yet must join into one picture,
  inside a column whose width another handler computed.
* *Projects and clones*: a completion finds another project open; the process
  ends between a rename and a save; saves overlap. A listed clone must be whole.
* *Git's output*: lines of a file look like git's own lines; a chunk ends
  anywhere; one pipe fills while the other is read; progress outlives its clone.
* *Instances*: several processes race for one socket; every invocation must
  still get its answer.

## 2. The modules

| Module | Models | Kind |
|---|---|---|
| `RepositoryState` | state.rs without the watch; model.rs; what a walk reaches (gix_reader/history.rs) | component |
| `WorkspacePanels` | history panel and delegate, detail panel, sidebar list, on_repository_event and its siblings, the change of repository | composition: extends `RepositoryState` |
| `ChangeSignal` | what the `RepositoryWatcher` port promises (domain/src/watch.rs) | abstract specification |
| `WatchPipeline` | watcher.rs, classify.rs, git_dir.rs, start_watching and pump_changes | component, implements `ChangeSignal` |
| `WatchedRepository` | open with its watcher | composition of `RepositoryState` and an instance of `WatchPipeline` |
| `GraphLayout` | layout and assemble | algorithm, one loop turn per action |
| `HistoryTable` | delegate.rs, geometry.rs, the table widget's column widths | composition: extends `GraphLayout` |
| `ProjectList` | project.rs: sources, active project, add, activate, filter | operators |
| `WindowSettings` | theme preference, cross-fades, debounced layout | component |
| `Workspace` | launch, projects, clone, fetch, deletion, saves, the end of the process | composition: extends `ProjectList` and `WindowSettings` |
| `Instances` | main.rs and instance.rs | component, several processes |
| `PatchText` | git's patches (external), patch_parser.rs, the text and marks of detail/format.rs | component: text written, text read |
| `ClonePipes` | runner.rs, clone_progress.rs, run_clone_streaming, the pump and poll of workspace.rs | component |
| `DetailPanel` | detail/mod.rs, diff.rs, decorations.rs | component |
| `CommitDate` | the two date conversions (history/format.rs, detail/format.rs) against a calendar | algorithm |
| `ReferenceTree` | references.rs, names.rs, ReferenceIndex, branch_tree.rs, badges.rs, branch_actions.rs | algorithm |
| `RemoteUrl` | validate_remote_url, remote_display_name, sanitize_for_filesystem | algorithm |
| `GitOutput` | the six above side by side | composition, one at a time |
| `RepositoryStateProofs`, `PanelsProofs`, `WatchProofs`, `WatchedProofs`, `GraphProofs`, `WorkspaceProofs`, `InstancesProofs`, `GitOutputProofs` | theorems about `RepositoryState`, `WorkspacePanels`, `WatchPipeline`, `WatchedRepository`, `GraphLayout` with `HistoryTable`, `Workspace`, `Instances`, `GitOutput` | proofs |
| `MC...` | values for the constants | model checking |

**RepositoryState.** The disk is the sequence of states it has been in, so "the
disk when this read ran" is an index into it, and what a loaded history lists is
computed from that index and the scope. A slot's `Option<Task>` is a set of
reads (`tasks[s]`, never more than one in the code; a set lets a mutant of the
code, and the invariant, speak of two). A read has two steps: `ReadDisk`, when
the background closure looks, and `ApplySimple`, `ApplyHistory` or
`ApplyDetail`, when the frame thread applies the answer, with the whole body of
the apply_* method. Overwriting a task drops the read (`StartLoads`). The reads
of one closure are taken at one instant: a history read that overlaps a rewrite
is one read at some point between. `requested` records the disk at the last
request and is read by nothing but properties. `open`'s three calls are `Init`.

**WorkspacePanels.** gpui delivers the events of an update before the next
input, so a step of the repository and the handlers of the events it emitted
are one action (`HandleEvents`). A user acts only through what is on screen: a
row of the table's *old* history, a listed reference, a scope with a tab, the
close buttons. `open_project` replaces the entity: the reads of the old one are
dropped with it, the panels are filled from the new one's blank state, and the
history panel's filter is reset (`ResetForNewRepository`, `SetPanelFilter`).
`MaxCalls` bounds these inputs together with reloads asked for elsewhere. A
rewrite of the disk that leaves it as it was is left out here.

**WatchPipeline.** Four threads: the set-up on the background executor, the
watcher thread, the receiving thread and the frame thread. A path is the
top-level child it lies in, with the name `ClassifyGitDirPath` looks at; a lock
file below `refs` counts as no touch. A batch is the set of children touched and
whether a rescan is asked for. Subscriptions follow the platform the code is
written for: a non-recursive one on a directory reports its entries, and not
what happens deeper. The debouncer and the file system are external. `told` is
the change the last poll handed to reload. `missed` records, for the
properties, which children get no subscription of their own and why: the
platform dropped their events, the pump's listing (later than the set-up's) took
them for known, or the subscription was refused. A platform that ends a
subscription when its directory is removed and made again is not modelled.

**WatchedRepository.** The two components side by side; a write to HEAD or a
reference is also a new state of the disk, and a poll that finds a change
reloads in the same step. The user and the drop of the entity are left out
here (they are in the component modules), and so are lost events.

**GraphLayout, HistoryTable.** Parents are chosen when a row is reached, which
the algorithm cannot tell from a history chosen at the start. Columns count from
1 and 0 stands for none; the u16 of a column number does not wrap in these
bounds. When the layout is complete the table may be handed it, in any order
with queries (a query is the set of commits it matches) and with loading and
failed states. Coordinates are those of geometry.rs in whole pixels; a stroke
covers its ends and half its width on either side.

**Workspace.** A job is a background task with the handler that runs when it
ends; its record holds what the code's closure captured (the URL, the source),
and the handler reads the window as it is then. A clone is the steps of
`clone_bare_internal` on two directories, each "absent", "partial" or "whole".
`fs::write` is a truncation and a write, and a save that writes over the
remains of another leaves a file no reader parses (read as an empty list).
The saved list a launch finds may be stale or edited by hand: its active project
may be absent or not listed, and `active_project` then falls back to the first
one. `Exit` ends the process anywhere, quitting or crashing; `Launch` follows
main. Git processes are not ended with it: they are `orphans`, and `OrphanEnds`
lets a clone's leave its partial directory or remove the one at that path,
whoever made it, and a fetch's or a deletion's move references. The removal of a
directory is one step; a saved list that names a remote project whose clone
somebody deleted is left out. `told` records the version of a clone a success
was last reported for, and is read by properties alone. `remote_cache_dir` is any
function of the URL, so two URLs may share a directory.

**Instances.** A process is an invocation and the detached copy of itself it
relaunches. `UnixListener::bind` is two system calls, so a socket can be there
that nobody listens to; a claim of a stale socket is four steps, and any other
claim may come between them. The platform may refuse a window: the first one's
`expect` ends the process (`FirstWindowFails`), a later one's request is passed
over (`RequestFails`). A window may be switched to another project, of which the
map from roots to windows is not told (`SwitchProject`). An answer is a window
opened or raised (`served`), the loss with the process that held the request or
with a window refused (`dropped`), or a hand-over that found nobody, whose result
main does not look at (`refused`). `acts` counts what is nobody's duty: windows
closed, refused or switched, and processes killed. A bind that fails for another
reason than an address in use opens the window without listening, as a failed
second bind does, and is left out.

**GitOutput.** Six parts that share no state; a behaviour is about one of them.
`PatchText`: a printer (git, or the detail panel's writer) turns a patch into
lines, the parser reads them one by one. A line is a record of what the tests
on its first characters see, so a deleted `-- a/p` *is* the record of a side
line. `git` prints as its default configuration has it; `configured` prints, in
the place of a file's first line, one the user's configuration asks for
(diff.submodule=log); `cut` stops inside a hunk. What is committed and what the
parser is handed differ: the output is decoded lossily and split by `lines()`,
which takes a carriage return off the end of a line, so a content goes through
`Decoded`, which may be any function (`subject` is `committed` after it). Paths
are read as they were printed: those git quotes, those that are not UTF-8, and
the settings diff.noprefix, diff.mnemonicPrefix, diff.external and
diff.suppressBlankEmpty are left out. The program never parses the detail
panel's text: there the parser stands for any reader of it.
`ClonePipes`: the child's writes go to two pipes of bounded size, the runner
drains both, chunks end anywhere. `cloning` is the project whose row the polling
task writes into: the window takes it away when the clone completes
(`CloneCompletes`), whatever is still in the mailbox, and may start the next one
before the old task has ended (`StartNext`). The updates of that next clone are
left out. `DetailPanel`: the diff waits until the panel
is painted. `CommitDate`: a behaviour is a wall clock wound forward day by day by
the rules of the calendar, both conversions are compared with it; a run starts
at an anchor, and the module's assumption has TLC check each anchor against the
number of its day (`DayNumber`). `ReferenceTree`: any small set of references, in
any order of listing; Git keeps one reference of a name in a category. A
reference gix cannot read ends the listing whatever its category, one whose name
or target cannot be resolved only in a category that is shown, and the listing
may fail with every reference readable (`RefuseListing`). `RemoteUrl`: a text is a
sequence of pieces; its FNV hash and the time are left out.

## 3. What the runs show

| Run | Bounds | Question | States | Result |
|---|---|---|---|---|
| RepositoryState | 2 commits, 2 references, 2 disk states, 1 call | do slots answer the question asked last, and does every load end? | 152,954 | holds |
| WorkspacePanels | 2 commits, 2 references, a search text, 2 disk states, 2 calls | do the panels' copies follow, also into another project? | 1,174,879 | holds |
| WatchPipeline | 4 children, 2 touches, 1 loss | is the pipeline a `ChangeSignal`, is it live, is it torn down, what has a subscription of its own? | 115,251 | holds |
| WatchedRepository | 1 child, 3 disk states | does the window end up fresh, and settle? | 338,619 | holds |
| GraphLayout | all histories of 5 commits with up to 3 parents each, 3 queries | do rows join, is the width exact, does the table show it unclipped? | 216,234 | holds |
| Workspace | 1 repository, 3 URLs, 2 of one directory; a whole, an empty and a stale list; 3 inputs, 2 launches, 2 cross-fades | does the window follow the active project, are listed clones whole, are settings kept, is the window idle again? | 610,655 | holds |
| Instances | 3 invocations, 2 repositories, 2 windows closed, refused or switched or processes killed | is everyone answered, nobody lost without a cause, one window per repository? | 57,317 | holds |
| GitOutput | 1 or 2 files in every form, 4 scripts of writes, 3 commits, 800 days from 7 anchors, up to 4 references, up to 4 pieces after a scheme | is what git prints or holds what is shown? | 426,899 | holds |
| Badges | as WorkspacePanels, disk at rest | are badges those of the references? | | **violated** |
| GraphEdges | 4 commits, 2 parents | does every node have a line to each parent? | | **violated** |
| TwoInstances | 3 invocations, nothing ends | does every race have one winner, who answers the others? | | **violated** |
| UserConfiguration | as GitOutput | is git's output read whatever the user configures? | | **violated** |

The violations are disagreements between the code and its own comments:

1. *Badges*: `apply_history` reads the reference listing of that moment and
   `apply_references` never recomputes the badges (state.rs:259), so a history
   that answers first has none.
2. *GraphEdges*: a later parent that a column already expects is skipped
   (layout.rs:96) without a line from the merge to that column.
3. *TwoInstances*: "only ever one detached process" (main.rs:16), but a process
   that found a stale socket removes whatever lies at the path by then
   (instance.rs:39), which may be the socket of one that claimed it since.
4. *UserConfiguration*: "a user's own configuration cannot change the shape this
   parser has to understand" (patch_parser.rs:4), but patch_reader.rs:65 fixes
   two settings only: diff.submodule=log prints a line the parser refuses.

Ten more are shown by configurations of their own, each with one property, which
TLC finds violated. They are about the same components at smaller or equal
bounds (`tlc -config ChildGap.cfg MCWatchPipeline`):

| Configuration | Module | What the source says | What the code does |
|---|---|---|---|
| WatchStartGap | MCWatchedRepository | a live watch keeps the view fresh (watch.rs:113) | `open` reads before the watch is set up and does not read again when it is (state.rs:85): a change in between stays invisible |
| LinkedWorktree | MCWatchedRepository | the Git directory is watched | `resolve_pointer_file` (git_dir.rs:38) finds a linked worktree's own Git directory, but its branches lie in the common one |
| ChildGap | MCWatchPipeline | new entries are promoted "once they appear" (watcher.rs:151) | an entry made after the set-up's listing and found first by the pump's (watcher.rs:214) is taken for known and never subscribed |
| StaleActive | MCWorkspace | a project that was not active is opened (`activate_project`) | adding or choosing the project a stale `active` names is taken for already active (workspace.rs:844): the window shows another |
| StaleReport | MCWorkspace | the repository is reloaded after a fetch (workspace.rs:1104) | the project shown through the fallback fails the comparison with `active` (workspace.rs:1148): success without a reload |
| LateUnlink | MCInstances | the loser hands its path over (main.rs:22) | after a late removal the hand-over finds nobody, and its result is dropped (main.rs:111) |
| RaisedWindow | MCInstances | `raise` brings the window showing the root to the front (main.rs:214) | the map's window may have been switched to another project |
| LastUpdate | MCGitOutput | each update is shown (`start_clone_progress_watch`) | the completion takes the row away (workspace.rs:1024) within the tick the polling task waits, and the rest is discarded (workspace.rs:1083) |
| StaleProgress | MCGitOutput | no "stale or fabricated percentage" (workspace.rs:130) | the old task writes into whatever row is there (workspace.rs:1083), that of a clone started since included |
| BareHost | MCGitOutput | a bare host shows as the whole URL (project.rs:122) | it shows as the host (project.rs:127) |

Some properties are conjunctions of named parts that need each other:
`PanelsMirrorRepository` includes the filter that panel and repository share;
`LinesMeet` is `RowsContinue` and `LinesMeetOnlyAtTheNode`; `TableShowsTheGraph`
is rows, clipping and strokes; `SettingsAreKept` is mode, cross-fade and layout;
`CommitIsShown` is patch, editor and dates; `SidebarIsTrue` is references, with
their badges and the deletions offered, and names of remotes.

What the passing properties leave to those configurations, and hold for
everything else: `NewChildrenAreExamined` excepts the entries of `missed`;
`WindowFollowsActive` is about every change of the active project or of the one
shown, not about a list that was stale from the start; `ReportedIsShown` is
about a project `active` names; `LinesAreWhole` asks for the last update only
while the clone's row is there; `LaunchesSettle` counts a hand-over that found
nobody as an answer; `RemotesAreNamed` takes a bare host.

What they except, because the code does not do it and claims nothing:
paths with a space (git ends their side lines in a tab, which the parser keeps)
and paths holding `" b/"` (where the header is split) may be read wrong; a
diff's colours stay those of the theme at its paint; a clone's destination that
a crash left out of the saved list is refused ever after.

**Why the bounds are enough.** The slots interact pairwise (references with
history, history with detail): two disk states give an answer that is older
than its request, two commits a selection the new walk loses, one call on top
of the three opening reads a cancelled read. The panels need two calls: a
scope change and a click in the old rows while it loads. In the pipeline two
touches give two batches, two channel messages that merge in the mailbox, or a
creation followed by a write; one loss hits either. In the composition two
writes put one change while the reads of the other are under way. Five commits
with three parents contain crossing merges, convergence of three columns, holes
and roots in the middle; the queries keep all rows, some neighbours and none.
Three inputs are a clone, a switch away while it runs and a second URL, or a
fetch, a switch and a return; two launches put one before and one after an end
of the process at any step; the stale list names active what it does not hold, so
that the fallback, an addition of that project and a switch back to it all occur.
Three invocations put two claims and a hand-over against two ends, closings or
refusals: a window closed while a request for its root waits, and the process
that would open the next one killed. Two files in one patch put every way a file ends before every
way one begins; the scripts fill either pipe before, between and after lines;
the anchors lie before leap days of years divisible by 4, 100 and 400, at the
epoch, before it and before year 0.

**Fairness.** Weak fairness on each step of the background executor, of the
threads and of the frame thread's ready futures: the executor runs every
closure it holds, a timer fires, a receive returns when a message is there.
Nothing makes a user, another program or the platform act. `EveryLoadEnds`
holds because every read ends in an answer or an error; `WindowSettles` holds
because the number of writes is bounded: under changes that never end, reloads
may cancel each other for ever, which the code accepts. `BusyEnds` assumes that
git ends every command it is given (`WF` of `CloneProceeds`, `FetchProceeds`):
no line of the code bounds a command that waits for the network. `CallEnds`
assumes a child that writes when it can, and a runner that reads. For
`LaunchesSettle` each process and its serve thread run; nobody has to close,
switch or kill anything, and no window has to be refused.

`CHECK_DEADLOCK FALSE` is set everywhere: a window nobody touches, a layout that
is complete, a watch that is torn down, a process that has ended, a text that
is read and a calendar at the end of its span really stop.

## 4. What is proved

Every theorem is for all values of the constants, the bounds included, from the
assumptions the modules name. They cover every safety invariant and action
property of section 3's passing runs. Each inductive invariant was checked by TLC before
it was proved. The proofs have one lemma per kind of step, instantiated once per
action. What a loop of the code computes is a recursive function in the models
(`Among`, `Collapsed`, `Fed`...), and its properties are proved by least
counterexample: a claim about every length that fails has a least length at
which it fails (`LeastNatural`, from the well-foundedness of the subset order of
the library), and `LoopRuns` says that such a function unfolds.

**RepositoryStateProofs** (`ConstantsAssumption`). `Typing` is the type
invariant, `Safety` the strengthening `IInv`. `DetailIsOfSelection` alone is not
inductive: a detail's answer is applied when its read was started for the
selected commit, so the invariant must say what the live reads were started
for; that in turn needs a single live read per slot, which is what overwriting
an `Option<Task>` gives (`ReadsServeCurrentState`), and that a slot is not
loading without one (`LoadingHasReader`). `DetailAlwaysOfSelection`,
`HistoryAlwaysOfFilter`, `LoadingAlwaysHasReader`, `LaterCallAlwaysWins` and
`ReadsAlwaysCurrent` are the conjuncts, `DetailNeverReread` the action property
`DetailSurvivesReload`.

**PanelsProofs** (also `MatchingAssumption`: `None` is no reference). A step of
the panels is a step of the repository, leaves it alone, or replaces it by one
just opened (`RepositoryStep`), so `IInv` holds under the panels. The invariant
`PanelsInv` adds `ReadFromDisk`: nothing was read off a disk later than the
present one, without which what a history lists could change under it.
`SelectionAlwaysListed`, `PanelsAlwaysMirror`, `PanelsTyping`, and the action
property `DetailAlwaysGoes`.

**WatchProofs** (`WatchAssumption`). `WatchInv` says what each stage of the
set-up has done (`SetupOK`), that a thread ends only with the entity or a failed
set-up (`EndsOK`), and that a child the watcher thread does not know is in a
batch on its way to it (`ChildrenSeen`), and that one it knows is
subscribed, refused or listed by the pump itself (`KnownWatched`): together they
make `NewChildrenAreExamined` inductive. `SubscriptionsEnd`, `ChildrenAreExamined`,
`WatchTypeCorrect`. `PipelineForgetsNothing` is the refinement: under
`owed <- Owed`, every step of the five hops is a `Notice`, `Tell` or `GiveUp` of
`ChangeSignal`, or a stutter (`PipelineSteps`).

**WatchedProofs** (`ConstantsAssumption`, `WatchedAssumption`). A slot that
answers its latest request shows a disk no older than the request, so it is
enough that the requests catch up: after a covered change, an aspect that
reloads the slots is owed by the watch, or every slot was asked at the present
disk (`RequestsCatchUp`). That needs the Git directory's entries to be
subscribed to when the set-up returns (`SubscriptionsCover`), that nothing ends
while the window is open, and that nothing was read off a later disk.
`WindowCatchesUp` is `FreshAfterCoveredChange`, under the hypothesis
`RefFilesAreInGitDir`: the files of HEAD and the references lie in the watched
Git directory and are not excluded. That is so in every repository but a linked
worktree, where the run *LinkedWorktree* shows the property fail; the proof
shows that nothing else can make it fail. `StateStaysSafe` carries `IInv` over to the
composition, where reloads are not bounded calls; `WatchIsThePipeline` says the
composition's watch is a `WatchPipeline` that loses no events.

**GraphProofs** (`LayoutAssumption`), for histories of
any length and commits with any number of parents. `Typing` needs `NodePlaced`:
once the parents are looked at, the node's column is known. `GraphInv` follows
the loops: the columns and the parents not looked at yet expect exactly what is
due (`CommitsKept`); during the walk only the node's column expects this commit
(`WalkShape`); every upper line runs into a column of its own or the node's, and
every outgoing column is a line's, the node's or a spawned one
(`MappingShape`, `NodeShape`); the last row's lines are the incoming columns
(`RowsShape`). The crux is `SegmentsAreLines`: what `assemble` draws out of a row
is one line per outgoing column that is no hole, in its colour.
`NoParentIsForgotten`, `LinesOnlyMeetAtNodes`, `WidthStaysTight` follow.
On top of it, `TableInv` for the table: a history is there only once its layout
is complete, the rows are the matching ones of that history (`Matching`), and
the gutter and its column are those of the layout's width. `LinesOfRow` and
`Apart` carry the columns of a row's lines over to pixels, `HalvesJoin` and
`RowsJoin` say that what a row draws ends where the next one begins, `RowFits`
that the column is as wide as what it draws: `TableLaysOutTheGraph` (the
invariant) and `TableAlwaysShowsTheGraph`.

**WorkspaceProofs** (`WorkspaceAssumption`). The saved lists the program may
find have no two remote projects of one directory and name whole clones
(`Saveable`, `Cloned`); their active project may be anything. The invariant keeps
every list, held by the window, being saved or in the file, such a one
(`ListsOK`), and the project shown listed (`ShownIsListed`); it says that a clone
renames a whole partial directory, although an orphan may take a partial one
away, and that one that ended well left a whole destination no project of the
window claims yet (`ClonesOK`); that a fetch's source is a listed remote
(`FetchesOK`); that nothing is reported ahead of its time (`ToldOK`); what a
window that is closed leaves (`ClosedOK`). `WorkspaceTypeCorrect`,
`CloneRowStaysTrue`, `RemotesStayCloned`, `ReportsAreShown`, `SettingsStayKept`,
and the action property `WindowStaysWithActive` (`WindowFollowsActive`).

**InstancesProofs** (`InstancesAssumption`). `MapLeadsToOpen`: no window is open
before the first is opened, and the map's entry for the root of an open window
leads to that window. `AnsweredOnce`: an invocation waits at one process at most
and once in its queue (`Distinct`), who waits has no answer yet, and who has one
is past its own claim; this is what `NobodyIsLost` needs to survive the end of a
process that holds requests. `OneWindowForARoot`, `NobodyGetsLost`,
`InstancesTypeCorrect`. They hold for any number of processes, ends, closings and
refusals; that a race has one winner is not among them, since it has not.

**GitOutputProofs** (`PatchTextAssumption`, `ClonePipesAssumption`,
`CommitDateAssumption`, `DetailAssumption`, `ReferenceTreeAssumption`,
`RemoteUrlAssumption`), one section per part.

* *Clone.* `PipesInv` follows the hops: what was read is the lines handed out
  and the rest in the buffer (`LinesKept`), the channel holds the last of the
  updates sent (`ChannelKept`), the row has shown some of those the pump took,
  and while it is there the mailbox or the row has the last of them (`RowsKept`),
  and each stage ends when nothing is left for it (`EndsKept`). The crux is `FedWhole`: the
  bytes fed are the lines with their terminators and the remainder, so that
  where a read ends does not matter.
  `PipesSafety`, `LinesStayWhole`.
* *Dates.* The invariant `WallInv` says that the day counted is the
  `DayNumber` of the date on the wall. `CivilOfDays`, for every date of every
  era: the code's `civil_from_days` inverts `DayNumber`. The days are integers
  of any size, not of an i64. `DatesStayTheAuthors`.
* *Detail panel.* `EditorShowsDetail` is inductive. `EditorStaysOfDetail`.
* *Sidebar.* `TreeInv` says that each reference the reader has passed is listed
  readable, and listed once if it is of a section, unless the listing failed on
  one or was refused (`Passed`, `ListedOnce`). From it, the index
  finds every reference and no other, a forest spans exactly the prefixes of the
  names put into it (`InsertGrows`, `Grouped`), and its order is that of the
  siblings: a sibling's place is its rank, each rank is taken once, and finitely
  many places are all taken (`SortedChildren`). `BadgesAre` is the badges on the
  rows. `ReferencesStayListed`, and with the remotes `SidebarStaysTrue`.
* *Remotes.* The directory's part is short, of safe characters and dashed at
  neither end (`SlugIsSafe`), and the name shown is the last segment of the URL
  or the whole of it (`NameIsShown`).
  `RemotesStayNamed`.
* *Patch.* For any patch git's default configuration can print (`PrintedFile`: no
  empty hunk, the paths a file's status leaves it, no hunks in a binary file) of
  any number of files, hunks and lines, and any loss of characters in the
  contents on the way to the parser (`HandedTyped`). `PatchSurvivesText` says
  nothing of a text that is still being read, so `PatchInv` says it of every
  moment (`Parsing`): what is left of the text is what is left of the print, but
  for what was cut off or is foreign (`Due`), and the marks so far are those
  written (`MarksKept`). Where the print stands is a file, the lines read of its
  header, and the hunks or lines of a hunk read since (`Outside`, `Inside`). The
  files before it are kept (`FilesKept`), the counts of the hunk are those of
  the lines that are left (`BodyAt`), and what the header lacks of its file is
  said by a line ahead (`HeadKept`). The crux is that the counts, not the looks
  of a line, decide where a hunk ends (`NextOfBody`, `BodyEnds`): a deleted `--
  a/p` that reads like a side line is taken for a line of the hunk as long as
  the hunk wants one.
  `PatchStaysReadable`, and with the editor and the dates `CommitStaysShown`.

Only model-checked, and why: liveness (`EveryLoadEnds`, `WindowSettles`,
`ChangesAreReported`, `DropEndsThreads`, `BusyEnds`, `LaunchesSettle`,
`CallEnds`), since fairness and ENABLED are out of the prover's reach.

## 5. What is not modelled, and the plan

Not modelled for good: colours, fonts, icons and the layout of elements; the
geometry of the dock; the login shell's PATH; the decoding of Git objects (gix);
the encoding of settings as JSON; the wording of errors; readers nothing in the
window uses (remotes, stashes, submodules). Several windows of one instance are
in `Instances` and one window's projects in `Workspace`, not both together: each
window saves its own list over the others', and the code does not say which is
to win. The updates of a clone that starts while the task of the one before
still polls are left out, as is a deletion's checkout apart from its `branch
-D`.

Every safety and action property of the passing runs is proved. What could still
be modelled is what the proofs take from outside: what notify reports of a
change, and how git quotes a path in a patch.
