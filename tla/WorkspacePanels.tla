-------------------------- MODULE WorkspacePanels --------------------------
(***************************************************************************)
(* The window around one RepositoryState: the history table with its       *)
(* search field and scope tabs (crates/ui/src/history/panel.rs and         *)
(* delegate.rs), the detail panel (crates/ui/src/detail/mod.rs), the       *)
(* sidebar's reference list, and the wiring between them in                *)
(* crates/ui/src/workspace.rs.                                             *)
(*                                                                         *)
(* The panels hold copies of what the repository holds and are brought up  *)
(* to date only by the events it emits.  gpui delivers the events of an    *)
(* update before it handles the next input, so a step of the repository    *)
(* and the handlers of the events it emitted are one step here.            *)
(***************************************************************************)
EXTENDS RepositoryState

CONSTANT Matching   \* Matching[q]: the commits the text q keeps (matches)

ASSUME MatchingAssumption ==
  /\ None \notin Reference
  /\ Matching \in [Query -> SUBSET Commit]
  /\ Matching[NoQuery] = Commit

VARIABLES
  rows,         \* the history the table's delegate shows
  panelFilter,  \* the filter of the history panel's tabs and search field
  branchScope,  \* the reference the third scope tab offers, or None
  tableHead,    \* the HEAD and the references the table was last handed, for
  tableRefs,    \* its head mark and for which branches its menu may delete
  shownDetail,  \* what the detail panel shows
  revealed      \* whether the detail panel is attached to the dock

panelVars ==
  <<rows, panelFilter, branchScope, tableHead, tableRefs, shownDetail, revealed>>
repositoryVars == <<disk, view, tasks, filter, selected, requested, calls>>
allVars == <<vars, panelVars>>

----------------------------------------------------------------------------
(* A window opens with both panels synchronised and the detail hidden. *)
PanelsInit ==
  /\ Init
  /\ rows = view["history"]
  /\ tableHead = view["head"] /\ tableRefs = view["references"]
  /\ shownDetail = view["detail"]
  /\ panelFilter = DefaultFilter
  /\ branchScope = None
  /\ revealed = FALSE

(* The history and deletion_context go to the table together, whichever of the
   three was read. *)
HandleHistoryChanged ==
  IF "HistoryChanged" \in events'
  THEN /\ rows' = view'["history"]
       /\ tableHead' = view'["head"] /\ tableRefs' = view'["references"]
  ELSE UNCHANGED <<rows, tableHead, tableRefs>>

(* Mutant: the detail panel misses the change of selection. *)
HandleEventsWithoutDetail(reveals) ==
  /\ HandleHistoryChanged
  /\ revealed' = (revealed \/ reveals)
  /\ UNCHANGED shownDetail

(* on_repository_event, for the events of the step being taken; reveals says
   that the step also reattaches the detail panel before they are handled. *)
HandleEvents(reveals) ==
  /\ HandleHistoryChanged
  /\ shownDetail' = IF "SelectionChanged" \in events' THEN view'["detail"]
                    ELSE shownDetail
  /\ revealed' = IF "SelectionChanged" \in events' /\ selected' = None
                 THEN FALSE
                 ELSE revealed \/ reveals

VisibleRows == Commits(rows) \cap Matching[panelFilter.query]

(* The tabs above the table, and the references the sidebar lists. *)
ScopeOptions == {"AllReferences", "LocalReferences"} \cup ({branchScope} \ {None})

ListedReferences ==
  IF IsReady(view["references"])
  THEN {r \in Reference : disk[view["references"].at].refs[r] # None}
  ELSE {}

----------------------------------------------------------------------------
(* The user *)

(* A click selects the commit in its row and reveals the detail panel; on the
   row already selected the repository ignores it. *)
ClickRow(c) ==
  /\ c \in VisibleRows
  /\ IF c = selected
     THEN /\ events' = {}
          /\ UNCHANGED repositoryVars
     ELSE Select(c)
  /\ HandleEvents(TRUE)
  /\ UNCHANGED <<panelFilter, branchScope>>

SelectScope(scope) ==
  /\ scope \in ScopeOptions
  /\ panelFilter' = [panelFilter EXCEPT !.scope = scope]
  /\ SetFilter(panelFilter')
  /\ HandleEvents(FALSE)
  /\ UNCHANGED branchScope

Search(query) ==
  /\ query # panelFilter.query
  /\ panelFilter' = [panelFilter EXCEPT !.query = query]
  /\ SetFilter(panelFilter')
  /\ HandleEvents(FALSE)
  /\ UNCHANGED branchScope

(* Mutant: the panel is not told which reference its third tab stands for. *)
FilterByReferenceWithoutTab(reference) ==
  /\ reference \in ListedReferences
  /\ LET next == [scope |-> reference, query |-> filter.query]
     IN panelFilter' = next /\ SetFilter(next)
  /\ revealed' = FALSE
  /\ UNCHANGED <<branchScope, rows, tableHead, tableRefs, shownDetail>>

(* A press outside the panels, in the sidebar or on the status bar, takes the
   detail panel away. *)
DismissDetail == revealed' = FALSE

PressElsewhere ==
  /\ revealed
  /\ DismissDetail
  /\ events' = {}
  /\ UNCHANGED repositoryVars
  /\ UNCHANGED <<rows, panelFilter, branchScope, tableHead, tableRefs, shownDetail>>

(* HistoryPanel::set_filter: the third tab is the last reference filtered by. *)
SetPanelFilter(next) ==
  /\ panelFilter' = next
  /\ branchScope' = IF next.scope \in Reference THEN next.scope ELSE branchScope

(* A click in the sidebar: the query is the repository's, and the panel and
   the repository are each handed the same filter. *)
FilterByReference(reference) ==
  /\ reference \in ListedReferences
  /\ LET next == [scope |-> reference, query |-> filter.query]
     IN SetPanelFilter(next) /\ SetFilter(next)
  /\ DismissDetail
  /\ UNCHANGED <<rows, tableHead, tableRefs, shownDetail>>

ToggleDetail ==
  /\ revealed' = ~ revealed
  /\ events' = {}
  /\ UNCHANGED repositoryVars
  /\ UNCHANGED <<rows, panelFilter, branchScope, tableHead, tableRefs, shownDetail>>

(* Mutant: the panels keep what they copied from the repository before. *)
SyncPanelsLater == UNCHANGED <<rows, tableHead, tableRefs, shownDetail>>

SyncPanels ==
  /\ rows' = view'["history"]
  /\ tableHead' = view'["head"] /\ tableRefs' = view'["references"]
  /\ shownDetail' = view'["detail"]

(* Not set_filter alone, which would leave the third tab. *)
ResetForNewRepository == panelFilter' = DefaultFilter /\ branchScope' = None

(* Another project is opened: the repository is replaced by a new one, its
   reads in flight go with it, the panels start over, and the detail panel
   stays where it is. *)
OpenProject(d) ==
  /\ disk' = <<d>>
  /\ view' = [s \in Slot |-> IF s = "detail" THEN Idle ELSE Loading]
  /\ tasks' = [s \in Slot |->
                 IF s = "detail" THEN {}
                 ELSE {NewTask(IF s = "history" THEN DefaultFilter.scope ELSE None)}]
  /\ filter' = DefaultFilter /\ selected' = None
  /\ requested' = [s \in Slot |-> 1]
  /\ calls' = 0
  /\ events' = {}
  /\ SyncPanels
  /\ ResetForNewRepository
  /\ UNCHANGED revealed

----------------------------------------------------------------------------
(* Everything that is not the user, with the handlers of what it emits; a
   rewrite that leaves the repository as it was shows nothing new. *)
Background ==
  /\ \/ \E d \in Snapshot \ {disk[Len(disk)]} : DiskChanges(d)
     \/ \E change \in (SUBSET Aspect) \ {{}} : Reload(change)
     \/ \E s \in Slot : ReadDisk(s)
     \/ Apply
  /\ HandleEvents(FALSE)
  /\ UNCHANGED <<panelFilter, branchScope>>

PanelsNext ==
  \/ \E c \in Commit : ClickRow(c)
  \/ \E scope \in Scope : SelectScope(scope)
  \/ \E q \in Query : Search(q)
  \/ \E r \in Reference : FilterByReference(r)
  \/ ToggleDetail
  \/ PressElsewhere
  \/ \E d \in Snapshot : OpenProject(d)
  \/ Background

PanelsSpec == PanelsInit /\ [][PanelsNext]_allVars

----------------------------------------------------------------------------
(* Properties *)

PanelsTypeOK ==
  /\ TypeOK
  /\ {rows, tableHead, tableRefs, shownDetail} \subseteq LoadState
  /\ panelFilter \in Filter
  /\ branchScope \in Reference \cup {None}
  /\ revealed \in BOOLEAN

(* Whatever is selected is a row of the history that is loaded: rows are
   clicked in the table's old copy while a walk of another scope or of a
   rewritten repository is in flight, and preserve_selection settles it. *)
SelectionIsListed ==
  IsReady(view["history"]) /\ selected # None
    => selected \in Commits(view["history"])

(* The copies never disagree with the repository for longer than a read: the
   detail panel always shows its detail; the table shows its history, marks its
   HEAD and offers to delete by its references, except that what was read
   before stays up while the next read runs.  The two filters are one, whoever
   changed it last, and its scope has a tab: otherwise typing in the search
   field would silently change the scope. *)
PanelsMirrorRepository ==
  /\ shownDetail = view["detail"]
  /\ view["history"] # Loading => rows = view["history"]
  /\ view["head"] # Loading => tableHead = view["head"]
  /\ view["references"] # Loading => tableRefs = view["references"]
  /\ panelFilter = filter /\ filter.scope \in ScopeOptions

(* The detail panel goes away with the selection, unless another project is
   opened, and comes back only when a row is clicked or the user asks for it,
   never with a late answer. *)
DetailGoesWithSelection ==
  [][/\ selected # None /\ selected' = None
          => ~ revealed' \/ \E d \in Snapshot : OpenProject(d)
     /\ ~ revealed /\ revealed' => (\E c \in Commit : ClickRow(c)) \/ ToggleDetail]_allVars

(* "References pointing at each commit, for the badges beside a subject. A
   commit with no reference is absent": once every read has been applied, the
   badges of the loaded history are those of the loaded references. *)
BadgesFollowReferences ==
  (\A s \in Slot : tasks[s] = {}) /\ IsReady(view["history"])
      /\ IsReady(view["references"])
    => /\ view["history"].badges # 0
       /\ disk[view["history"].badges].refs = disk[view["references"].at].refs
=============================================================================
