---------------------------- MODULE PanelsProofs ----------------------------
(***************************************************************************)
(* Proofs about WorkspacePanels, for any set of commits and references,    *)
(* any history on disk, any projects opened and any number of calls.  The  *)
(* steps of the panels are steps of the repository, so its invariant, of   *)
(* RepositoryStateProofs, carries over.                                    *)
(***************************************************************************)
EXTENDS WorkspacePanels, RepositoryStateProofs

(* What was read was there to be read, and stays where it was read from. *)
ReadFromDisk ==
  \A s \in Slot : /\ IsReady(view[s]) => view[s].at <= Len(disk)
                  /\ \A t \in tasks[s] : t.seen <= Len(disk)

PanelsInv ==
  /\ IInv /\ ReadFromDisk
  /\ PanelsTypeOK
  /\ SelectionIsListed
  /\ PanelsMirrorRepository

----------------------------------------------------------------------------
(* The repository under the panels *)

(* A step of the panels is a step of the repository, or leaves all of it but
   its events, or replaces it by one that has just been opened. *)
RepositoryStep ==
  \/ [Next]_vars
  \/ UNCHANGED repositoryVars /\ events' = {}
  \/ \E d \in Snapshot : OpenProject(d)

LEMMA PanelsStepRepository ==
  ASSUME PanelsTypeOK, [PanelsNext]_allVars
  PROVE  RepositoryStep
<1>1. CASE UNCHANGED allVars
  BY <1>1 DEF allVars, RepositoryStep
<1>2. ASSUME NEW c \in Commit, ClickRow(c) PROVE RepositoryStep
  BY <1>2 DEF ClickRow, RepositoryStep, Next
<1>3. ASSUME NEW next \in Filter, SetFilter(next) PROVE RepositoryStep
  BY <1>3 DEF RepositoryStep, Next
<1>4. ASSUME NEW scope \in Scope, SelectScope(scope) PROVE RepositoryStep
  <2>1. [panelFilter EXCEPT !.scope = scope] \in Filter
    BY DEF PanelsTypeOK, Filter
  <2>. QED BY <1>3, <1>4, <2>1 DEF SelectScope
<1>5. ASSUME NEW q \in Query, Search(q) PROVE RepositoryStep
  <2>1. [panelFilter EXCEPT !.query = q] \in Filter
    BY DEF PanelsTypeOK, Filter
  <2>. QED BY <1>3, <1>5, <2>1 DEF Search
<1>6. ASSUME NEW r \in Reference, FilterByReference(r) PROVE RepositoryStep
  <2>1. [scope |-> r, query |-> filter.query] \in Filter
    BY DEF PanelsTypeOK, TypeOK, Filter, Scope
  <2>. QED BY <1>3, <1>6, <2>1 DEF FilterByReference
<1>7. CASE ToggleDetail \/ PressElsewhere
  BY <1>7 DEF ToggleDetail, PressElsewhere, RepositoryStep
<1>8. CASE \E d \in Snapshot : OpenProject(d)
  BY <1>8 DEF RepositoryStep
<1>9. CASE Background
  BY <1>9 DEF Background, RepositoryStep, Next
<1>. QED
  BY <1>1, <1>2, <1>4, <1>5, <1>6, <1>7, <1>8, <1>9 DEF PanelsNext

LEMMA OpenedIsInitial == (\E d \in Snapshot : OpenProject(d)) => Init'
BY DEF OpenProject, Init

(* The invariant of the repository survives every step of the panels. *)
LEMMA RepositoryStaysSafe == IInv /\ RepositoryStep => IInv'
<1>1. IInv /\ [Next]_vars => IInv'
  BY NextSafe
<1>2. IInv /\ UNCHANGED repositoryVars /\ events' = {} => IInv'
  BY DEF repositoryVars, IInv, TypeOK, DetailIsOfSelection, HistoryIsOfFilter, LoadingHasReader,
     AnswersLatestRequest, ReadsServeCurrentState
<1>3. Init' => IInv'
  BY InitSafe, PTL
<1>. QED
  BY <1>1, <1>2, <1>3, OpenedIsInitial DEF RepositoryStep

(* Reads see the disk as it is when they run, and the disk only grows, until
   another repository is opened. *)
LEMMA ReadsStayFromDisk ==
  ASSUME IInv, ReadFromDisk, RepositoryStep, IInv'
  PROVE  ReadFromDisk'
<1>1. /\ disk \in Seq(Snapshot) /\ Len(disk) \in Nat /\ Len(disk) \in Version
      /\ view \in [Slot -> LoadState] /\ tasks \in [Slot -> SUBSET Task]
  BY DEF IInv, TypeOK
<1>2. ASSUME disk' = disk,
             \A s \in Slot : \/ view'[s] = view[s] \/ ~IsReady(view'[s])
                             \/ \E t \in tasks[s] : view'[s].at = t.seen,
             \A s \in Slot : \A t \in tasks'[s] : t \in tasks[s] \/ t.seen = 0 \/ t.seen = Len(disk)
      PROVE  ReadFromDisk'
  BY <1>1, <1>2 DEF ReadFromDisk
<1>3. CASE UNCHANGED vars \/ UNCHANGED repositoryVars
  BY <1>2, <1>3 DEF vars, repositoryVars
<1>4. ASSUME NEW d \in Snapshot, DiskChanges(d) PROVE ReadFromDisk'
  <2>1. Len(disk') = Len(disk) + 1 /\ view' = view /\ tasks' = tasks
    BY <1>1, <1>4 DEF DiskChanges
  <2>2. \A s \in Slot : IsReady(view[s]) => view[s].at \in Nat
    BY <1>1, ConstantsAssumption DEF LoadState, IsReady, Version
  <2>3. \A s \in Slot : \A t \in tasks[s] : t.seen \in Nat
    BY <1>1 DEF Task
  <2>. QED BY <1>1, <2>1, <2>2, <2>3 DEF ReadFromDisk
<1>5. ASSUME NEW S, NEW of, StartLoads(S, of), disk' = disk PROVE ReadFromDisk'
  <2>1. \A s \in Slot : view'[s] = view[s] \/ ~IsReady(view'[s])
    BY <1>5, LoadStates DEF StartLoads
  <2>2. \A s \in Slot : \A t \in tasks'[s] : t \in tasks[s] \/ t.seen = 0
    BY <1>5 DEF StartLoads, NewTask
  <2>. QED BY <1>2, <1>5, <2>1, <2>2
<1>6. ASSUME NEW f \in Filter, SetFilter(f) PROVE ReadFromDisk'
  BY <1>2, <1>5, <1>6 DEF SetFilter
<1>7. ASSUME NEW c, Select(c) PROVE ReadFromDisk'
  <2>1. CASE c # None
    BY <1>5, <1>7, <2>1 DEF Select
  <2>2. CASE c = None
    <3>1. \A s \in Slot : view'[s] = view[s] \/ ~IsReady(view'[s])
      BY <1>1, <1>7, <2>2, LoadStates DEF Select
    <3>2. \A s \in Slot : tasks'[s] \subseteq tasks[s]
      BY <1>1, <1>7, <2>2 DEF Select
    <3>. QED BY <1>2, <1>7, <3>1, <3>2 DEF Select
  <2>. QED BY <2>1, <2>2
<1>8. ASSUME NEW change, Reload(change) PROVE ReadFromDisk'
  BY <1>5, <1>8 DEF Reload, ReloadBody
<1>9. ASSUME NEW s \in Slot, ReadDisk(s) PROVE ReadFromDisk'
  <2>1. \A r \in Slot : \A t \in tasks'[r] : t \in tasks[r] \/ t.seen = Len(disk)
    BY <1>1, <1>9 DEF ReadDisk
  <2>. QED BY <1>2, <1>9, <2>1 DEF ReadDisk
<1>10. CASE Apply
  <2>1. ASSUME NEW s \in {"head", "references"}, ApplySimple(s) PROVE ReadFromDisk'
    <3>1. PICK t \in tasks[s] :
            /\ view' = [view EXCEPT ![s] = IF t.ok THEN Ready(t.seen, None, 0) ELSE Failed]
            /\ tasks' = [tasks EXCEPT ![s] = @ \ {t}] /\ disk' = disk
      BY <2>1 DEF ApplySimple, Finish
    <3>2. s \in Slot
      BY DEF Slot
    <3>3. \A r \in Slot : \/ view'[r] = view[r] \/ ~IsReady(view'[r])
                          \/ \E u \in tasks[r] : view'[r].at = u.seen
      BY <1>1, <3>1, <3>2, LoadStates
    <3>4. \A r \in Slot : tasks'[r] \subseteq tasks[r]
      BY <1>1, <3>1, <3>2
    <3>. QED BY <1>2, <3>1, <3>3, <3>4
  <2>2. ASSUME NEW t \in tasks["history"], HistoryAnswer(t) PROVE ReadFromDisk'
    <3>1. disk' = disk /\ "history" \in Slot /\ "detail" \in Slot
      BY <2>2 DEF HistoryAnswer, Finish, Slot
    <3>2. \A r \in Slot : \/ view'[r] = view[r] \/ ~IsReady(view'[r])
                          \/ \E u \in tasks[r] : view'[r].at = u.seen
      <4>1. CASE t.ok
        <5>1. \A r \in Slot : \/ view'[r] = view[r] \/ view'[r] = Idle
                              \/ r = "history" /\ view'[r] = Ready(t.seen, t.of, BadgesNow)
          BY <2>2, <4>1 DEF HistoryAnswer
        <5>. QED BY <5>1, LoadStates
      <4>2. CASE ~t.ok
        BY <1>1, <2>2, <3>1, <4>2, LoadStates DEF HistoryAnswer
      <4>. QED BY <4>1, <4>2
    <3>3. \A r \in Slot : tasks'[r] \subseteq tasks[r]
      BY <1>1, <2>2 DEF HistoryAnswer
    <3>. QED BY <1>2, <3>1, <3>2, <3>3
  <2>3. CASE ApplyDetail
    <3>1. PICK t \in tasks["detail"] :
            /\ \/ view' = [view EXCEPT !["detail"] =
                             IF t.ok THEN Ready(t.seen, t.of, 0) ELSE Failed]
               \/ view' = view
            /\ tasks' = [tasks EXCEPT !["detail"] = @ \ {t}] /\ disk' = disk
      BY <2>3 DEF ApplyDetail, Finish
    <3>2. "detail" \in Slot
      BY DEF Slot
    <3>3. \A r \in Slot : \/ view'[r] = view[r] \/ ~IsReady(view'[r])
                          \/ \E u \in tasks[r] : view'[r].at = u.seen
      BY <1>1, <3>1, <3>2, LoadStates
    <3>4. \A r \in Slot : tasks'[r] \subseteq tasks[r]
      BY <1>1, <3>1, <3>2
    <3>. QED BY <1>2, <3>1, <3>3, <3>4
  <2>. QED BY <1>10, <2>1, <2>2, <2>3 DEF Apply, ApplyHistory
<1>11. ASSUME NEW d \in Snapshot, OpenProject(d) PROVE ReadFromDisk'
  <2>1. \A s \in Slot : ~IsReady(view'[s]) /\ \A t \in tasks'[s] : t.seen = 0
    BY <1>11, LoadStates DEF OpenProject, NewTask
  <2>2. Len(disk') = 1
    BY <1>11 DEF OpenProject
  <2>. QED BY <2>1, <2>2 DEF ReadFromDisk
<1>. QED
  BY <1>3, <1>4, <1>6, <1>7, <1>8, <1>9, <1>10, <1>11 DEF RepositoryStep, Next

(* What a step does to the views it does not start to load is announced by
   its events, and so is a selection that is lost. *)
Announced ==
  /\ \/ view'["detail"] = view["detail"]
     \/ "SelectionChanged" \in events'
  /\ \A s \in RepositorySlot : \/ view'[s] = view[s]
                             \/ view'[s] = Loading
                             \/ "HistoryChanged" \in events'
  /\ selected' = selected \/ "SelectionChanged" \in events'

LEMMA LoadsAnnounced ==
  ASSUME NEW S \in SUBSET RepositorySlot, NEW of, StartLoads(S, of), selected' = selected
  PROVE  Announced
BY DEF StartLoads, Announced, RepositorySlot, Slot

LEMMA ApplyAnnounced ==
  ASSUME TypeOK, Apply
  PROVE  Announced
<1>1. view \in [Slot -> LoadState] /\ RepositorySlot \subseteq Slot
      /\ "detail" \notin RepositorySlot /\ "detail" \in Slot /\ "history" \in Slot
  BY DEF TypeOK, RepositorySlot, Slot
<1>2. ASSUME NEW s \in {"head", "references"}, ApplySimple(s) PROVE Announced
  <2>1. "HistoryChanged" \in events' /\ selected' = selected
    BY <1>2 DEF ApplySimple
  <2>2. view'["detail"] = view["detail"]
    BY <1>1, <1>2 DEF ApplySimple
  <2>. QED BY <2>1, <2>2 DEF Announced
<1>3. ASSUME NEW t \in tasks["history"], HistoryAnswer(t) PROVE Announced
  <2>1. "HistoryChanged" \in events'
    BY <1>3 DEF HistoryAnswer
  <2>2. CASE t.ok
    <3>. DEFINE kept == PreserveSelection(Commits(Ready(t.seen, t.of, BadgesNow)))
                lost == selected # None /\ kept = None
    <3>1. /\ selected' = kept
          /\ view'["detail"] = IF lost THEN Idle ELSE view["detail"]
          /\ lost => "SelectionChanged" \in events'
      BY <1>1, <1>3, <2>2 DEF HistoryAnswer
    <3>2. kept = selected \/ kept = None
      BY DEF PreserveSelection
    <3>. QED BY <2>1, <3>1, <3>2 DEF Announced
  <2>3. CASE ~t.ok
    <3>1. view'["detail"] = view["detail"] /\ selected' = selected
      BY <1>1, <1>3, <2>3 DEF HistoryAnswer
    <3>. QED BY <2>1, <3>1 DEF Announced
  <2>. QED BY <2>2, <2>3
<1>4. CASE ApplyDetail
  <2>1. \A s \in RepositorySlot : view'[s] = view[s]
    BY <1>1, <1>4 DEF ApplyDetail
  <2>2. selected' = selected /\ (view' = view \/ "SelectionChanged" \in events')
    BY <1>4 DEF ApplyDetail
  <2>. QED BY <2>1, <2>2 DEF Announced
<1>. QED BY <1>2, <1>3, <1>4 DEF Apply, ApplyHistory

LEMMA StepAnnounced ==
  ASSUME TypeOK, \/ Next
                 \/ UNCHANGED repositoryVars
  PROVE  Announced
<1>1. CASE UNCHANGED <<view, selected>>
  BY <1>1 DEF Announced
<1>2. CASE UNCHANGED repositoryVars
  BY <1>1, <1>2 DEF repositoryVars
<1>3. ASSUME NEW f \in Filter, SetFilter(f) PROVE Announced
  <2>1. {"history"} \in SUBSET RepositorySlot
    BY DEF RepositorySlot, Slot
  <2>. QED BY <1>1, <1>3, <2>1, LoadsAnnounced DEF SetFilter
<1>4. ASSUME NEW c \in Commit \cup {None}, Select(c) PROVE Announced
  <2>1. "SelectionChanged" \in events'
    BY <1>4 DEF Select
  <2>2. \A s \in RepositorySlot : view'[s] = view[s]
    BY <1>4 DEF Select, StartLoads, RepositorySlot, TypeOK
  <2>. QED BY <2>1, <2>2 DEF Announced
<1>5. ASSUME NEW change \in SUBSET Aspect, Reload(change) PROVE Announced
  <2>1. ReloadTargets(change) \in SUBSET RepositorySlot
    BY DEF ReloadTargets
  <2>. QED BY <1>5, <2>1, LoadsAnnounced DEF Reload, ReloadBody
<1>6. CASE (\E d \in Snapshot : DiskChanges(d)) \/ (\E s \in Slot : ReadDisk(s))
  BY <1>1, <1>6 DEF DiskChanges, ReadDisk
<1>. QED
  BY <1>2, <1>3, <1>4, <1>5, <1>6, ApplyAnnounced DEF Next

----------------------------------------------------------------------------
(* The panels *)

(* What the panels copied, apart from the filter. *)
CopiesMirror ==
  /\ shownDetail = view["detail"]
  /\ view["history"] # Loading => rows = view["history"]
  /\ view["head"] # Loading => tableHead = view["head"]
  /\ view["references"] # Loading => tableRefs = view["references"]
FiltersMirror == panelFilter = filter /\ filter.scope \in ScopeOptions

(* Handling the events of a step, or none when it emits none, keeps the
   copies up to date. *)
LEMMA CopiesStay ==
  ASSUME CopiesMirror, Announced, NEW reveals,
         \/ HandleEvents(reveals)
         \/ events' = {} /\ UNCHANGED <<rows, tableHead, tableRefs, shownDetail>>
  PROVE  CopiesMirror'
<1>1. "history" \in RepositorySlot /\ "head" \in RepositorySlot /\ "references" \in RepositorySlot
  BY DEF RepositorySlot, Slot
<1>2. CASE HandleEvents(reveals)
  <2>1. shownDetail' = view'["detail"]
    BY <1>2 DEF HandleEvents, CopiesMirror, Announced
  <2>2. CASE "HistoryChanged" \in events'
    BY <1>2, <2>1, <2>2 DEF HandleEvents, HandleHistoryChanged, CopiesMirror
  <2>3. CASE "HistoryChanged" \notin events'
    <3>1. UNCHANGED <<rows, tableHead, tableRefs>>
      BY <1>2, <2>3 DEF HandleEvents, HandleHistoryChanged
    <3>. QED BY <1>1, <2>1, <2>3, <3>1 DEF CopiesMirror, Announced
  <2>. QED BY <2>2, <2>3
<1>3. CASE events' = {} /\ UNCHANGED <<rows, tableHead, tableRefs, shownDetail>>
  BY <1>1, <1>3 DEF CopiesMirror, Announced
<1>. QED BY <1>2, <1>3

(* The third tab stands for a reference, so a filter by one has its tab. *)
LEMMA FiltersStay ==
  ASSUME PanelsInv, [PanelsNext]_allVars
  PROVE  FiltersMirror'
<1>1. FiltersMirror /\ panelFilter \in Filter /\ filter \in Filter
  BY DEF PanelsInv, PanelsMirrorRepository, FiltersMirror, PanelsTypeOK, TypeOK
<1>2. CASE UNCHANGED <<filter, panelFilter, branchScope>>
  BY <1>1, <1>2 DEF FiltersMirror, ScopeOptions
<1>3. CASE UNCHANGED allVars \/ ToggleDetail \/ PressElsewhere \/ \E c \in Commit : ClickRow(c)
  <2>1. UNCHANGED <<filter, panelFilter, branchScope>>
    BY <1>3 DEF allVars, vars, panelVars, ToggleDetail, PressElsewhere, repositoryVars, ClickRow, Select
  <2>. QED BY <1>2, <2>1
<1>4. CASE Background
  <2>1. UNCHANGED filter
    BY <1>4 DEF Background, DiskChanges, Reload, ReloadBody, ReadDisk, Apply, ApplySimple,
       ApplyHistory, HistoryAnswer, ApplyDetail, Finish
  <2>. QED BY <1>2, <1>4, <2>1 DEF Background
<1>5. ASSUME NEW scope \in Scope, SelectScope(scope) PROVE FiltersMirror'
  <2>1. panelFilter' = filter' /\ branchScope' = branchScope /\ scope \in ScopeOptions
    BY <1>5 DEF SelectScope, SetFilter
  <2>2. filter'.scope = scope
    BY <1>1, <1>5, <2>1 DEF SelectScope, Filter
  <2>. QED BY <2>1, <2>2 DEF FiltersMirror, ScopeOptions
<1>6. ASSUME NEW q \in Query, Search(q) PROVE FiltersMirror'
  <2>1. panelFilter' = filter' /\ branchScope' = branchScope
    BY <1>6 DEF Search, SetFilter
  <2>2. filter'.scope = filter.scope
    BY <1>1, <1>6, <2>1 DEF Search, Filter, FiltersMirror
  <2>. QED BY <1>1, <2>1, <2>2 DEF FiltersMirror, ScopeOptions
<1>7. ASSUME NEW r \in Reference, FilterByReference(r) PROVE FiltersMirror'
  <2>1. /\ panelFilter' = [scope |-> r, query |-> filter.query]
        /\ filter' = [scope |-> r, query |-> filter.query]
    BY <1>7 DEF FilterByReference, SetPanelFilter, SetFilter
  <2>2. branchScope' = r
    BY <1>7 DEF FilterByReference, SetPanelFilter
  <2>3. r # None
    BY MatchingAssumption
  <2>. QED BY <2>1, <2>2, <2>3 DEF FiltersMirror, ScopeOptions
<1>8. ASSUME NEW d \in Snapshot, OpenProject(d) PROVE FiltersMirror'
  BY <1>8 DEF OpenProject, ResetForNewRepository, FiltersMirror, ScopeOptions, DefaultFilter
<1>. QED
  BY <1>3, <1>4, <1>5, <1>6, <1>7, <1>8 DEF PanelsNext

LEMMA PanelsStayMirrored ==
  ASSUME PanelsInv, [PanelsNext]_allVars
  PROVE  PanelsMirrorRepository'
<1>1. CopiesMirror /\ TypeOK
  BY DEF PanelsInv, PanelsMirrorRepository, CopiesMirror, IInv
<1>2. CopiesMirror'
  <2>1. CASE UNCHANGED allVars
    BY <1>1, <2>1 DEF allVars, vars, panelVars, CopiesMirror
  <2>2. ASSUME NEW c \in Commit, ClickRow(c) PROVE CopiesMirror'
    <3>1. Announced
      BY <1>1, <2>2, StepAnnounced DEF ClickRow, Next
    <3>. QED BY <1>1, <2>2, <3>1, CopiesStay DEF ClickRow
  <2>3. ASSUME NEW next \in Filter, SetFilter(next) PROVE Announced /\ events' = {}
    BY <1>1, <2>3, StepAnnounced DEF SetFilter, Next
  <2>4. ASSUME NEW scope \in Scope, SelectScope(scope) PROVE CopiesMirror'
    <3>1. [panelFilter EXCEPT !.scope = scope] \in Filter
      BY DEF PanelsInv, PanelsTypeOK, Filter
    <3>. QED BY <1>1, <2>3, <2>4, <3>1, CopiesStay DEF SelectScope
  <2>5. ASSUME NEW q \in Query, Search(q) PROVE CopiesMirror'
    <3>1. [panelFilter EXCEPT !.query = q] \in Filter
      BY DEF PanelsInv, PanelsTypeOK, Filter
    <3>. QED BY <1>1, <2>3, <2>5, <3>1, CopiesStay DEF Search
  <2>6. ASSUME NEW r \in Reference, FilterByReference(r) PROVE CopiesMirror'
    <3>1. [scope |-> r, query |-> filter.query] \in Filter
      BY <1>1 DEF TypeOK, Filter, Scope
    <3>. QED BY <1>1, <2>3, <2>6, <3>1, CopiesStay DEF FilterByReference
  <2>7. CASE ToggleDetail \/ PressElsewhere
    BY <1>1, <2>7 DEF ToggleDetail, PressElsewhere, repositoryVars, CopiesMirror
  <2>8. CASE \E d \in Snapshot : OpenProject(d)
    BY <2>8 DEF OpenProject, SyncPanels, CopiesMirror
  <2>9. CASE Background
    <3>1. Next /\ HandleEvents(FALSE)
      BY <2>9 DEF Background, Next
    <3>. QED BY <1>1, <3>1, StepAnnounced, CopiesStay
  <2>. QED BY <2>1, <2>2, <2>4, <2>5, <2>6, <2>7, <2>8, <2>9 DEF PanelsNext
<1>. QED
  BY <1>2, FiltersStay DEF PanelsMirrorRepository, CopiesMirror, FiltersMirror

LEMMA SelectionStaysListed ==
  ASSUME PanelsInv, [PanelsNext]_allVars
  PROVE  SelectionIsListed'
<1>1. /\ SelectionIsListed /\ ReadFromDisk /\ TypeOK /\ PanelsMirrorRepository
      /\ "history" \in Slot /\ "detail" \in Slot /\ "history" # "detail"
  BY DEF PanelsInv, IInv, Slot
<1>2. CASE UNCHANGED <<disk, selected>> /\ view'["history"] = view["history"]
  BY <1>1, <1>2 DEF SelectionIsListed, Commits
<1>3. CASE ~IsReady(view'["history"])
  BY <1>3 DEF SelectionIsListed
<1>4. ASSUME NEW S, NEW of, StartLoads(S, of), UNCHANGED <<disk, selected>>
      PROVE  SelectionIsListed'
  <2>1. view'["history"] \in {Loading, view["history"]}
    BY <1>1, <1>4 DEF StartLoads
  <2>. QED BY <1>2, <1>3, <1>4, <2>1, LoadStates
<1>5. ASSUME NEW next, SetFilter(next) PROVE SelectionIsListed'
  BY <1>2, <1>4, <1>5 DEF SetFilter
<1>6. CASE UNCHANGED allVars \/ ToggleDetail \/ PressElsewhere
  BY <1>2, <1>6 DEF allVars, vars, ToggleDetail, PressElsewhere, repositoryVars
<1>7. ASSUME NEW c \in Commit, ClickRow(c) PROVE SelectionIsListed'
  <2>1. CASE c = selected
    BY <1>2, <1>7, <2>1 DEF ClickRow, repositoryVars
  <2>2. CASE c # selected
    <3>1. selected' = c /\ disk' = disk /\ view'["history"] = view["history"]
      <4>1. c # None
        BY ConstantsAssumption
      <4>2. Select(c)
        BY <1>7, <2>2 DEF ClickRow
      <4>3. selected' = c /\ disk' = disk /\ StartLoads({"detail"}, c)
        BY <4>1, <4>2 DEF Select
      <4>. QED BY <1>1, <4>3 DEF StartLoads
    <3>2. IsReady(view["history"]) => c \in Commits(view["history"])
      BY <1>1, <1>7, LoadStates DEF ClickRow, VisibleRows, PanelsMirrorRepository
    <3>. QED BY <3>1, <3>2 DEF SelectionIsListed, Commits
  <2>. QED BY <2>1, <2>2
<1>8. CASE (\E scope \in Scope : SelectScope(scope)) \/ (\E q \in Query : Search(q))
           \/ (\E r \in Reference : FilterByReference(r))
  BY <1>5, <1>8 DEF SelectScope, Search, FilterByReference
<1>9. ASSUME NEW d \in Snapshot, OpenProject(d) PROVE SelectionIsListed'
  BY <1>9 DEF OpenProject, SelectionIsListed
<1>10. ASSUME NEW d \in Snapshot, DiskChanges(d) PROVE SelectionIsListed'
  <2>1. view' = view /\ selected' = selected /\ disk' = Append(disk, d)
    BY <1>10 DEF DiskChanges
  <2>. SUFFICES ASSUME IsReady(view["history"]), selected # None
                PROVE  selected \in Commits(view["history"])'
    BY <2>1 DEF SelectionIsListed
  <2>2. disk \in Seq(Snapshot) /\ view["history"].at \in 1 .. Len(disk)
    <3>1. disk \in Seq(Snapshot) /\ view["history"] \in LoadState
      BY <1>1 DEF TypeOK
    <3>2. view["history"].at \in 1 .. MaxVersion
      BY <3>1 DEF LoadState, IsReady, Version
    <3>3. view["history"].at <= Len(disk) /\ Len(disk) \in Nat
      BY <1>1, <3>1 DEF ReadFromDisk
    <3>. QED BY <3>1, <3>2, <3>3, ConstantsAssumption
  <2>3. disk'[view["history"].at] = disk[view["history"].at]
    BY <2>1, <2>2
  <2>. QED BY <1>1, <2>1, <2>3 DEF SelectionIsListed, Commits
<1>11. ASSUME NEW change, Reload(change) PROVE SelectionIsListed'
  BY <1>4, <1>11 DEF Reload, ReloadBody
<1>12. ASSUME NEW s \in Slot, ReadDisk(s) PROVE SelectionIsListed'
  BY <1>2, <1>12 DEF ReadDisk
<1>13. ASSUME NEW s \in {"head", "references"}, ApplySimple(s) PROVE SelectionIsListed'
  BY <1>1, <1>2, <1>13 DEF ApplySimple, Finish, TypeOK
<1>14. ASSUME NEW t \in tasks["history"], HistoryAnswer(t) PROVE SelectionIsListed'
  <2>1. disk' = disk
    BY <1>14 DEF HistoryAnswer, Finish
  <2>2. CASE t.ok
    <3>. DEFINE loaded == Ready(t.seen, t.of, BadgesNow)
    <3>1. view'["history"] = loaded /\ selected' = PreserveSelection(Commits(loaded))
      BY <1>1, <1>14, <2>2 DEF HistoryAnswer
    <3>. HIDE DEF loaded
    <3>2. selected' = None \/ selected' \in Commits(loaded)
      BY <3>1 DEF PreserveSelection
    <3>. QED BY <2>1, <3>1, <3>2 DEF SelectionIsListed, Commits
  <2>3. CASE ~t.ok
    BY <1>1, <1>3, <1>14, <2>3, LoadStates DEF HistoryAnswer, TypeOK
  <2>. QED BY <2>2, <2>3
<1>15. CASE ApplyDetail
  BY <1>1, <1>2, <1>15 DEF ApplyDetail, Finish, TypeOK
<1>16. CASE Background
  BY <1>10, <1>11, <1>12, <1>13, <1>14, <1>15, <1>16 DEF Background, Apply, ApplyHistory
<1>. QED
  BY <1>6, <1>7, <1>8, <1>9, <1>16 DEF PanelsNext

LEMMA PanelsStayTyped ==
  ASSUME PanelsInv, TypeOK', [PanelsNext]_allVars
  PROVE  PanelsTypeOK'
<1>1. /\ PanelsTypeOK /\ \A s \in Slot : view'[s] \in LoadState
      /\ {"history", "head", "references", "detail"} \subseteq Slot
  BY DEF PanelsInv, TypeOK, Slot
<1>2. {rows', tableHead', tableRefs', shownDetail'} \subseteq LoadState
  <2>1. /\ rows' \in {rows, view'["history"]} /\ tableHead' \in {tableHead, view'["head"]}
        /\ tableRefs' \in {tableRefs, view'["references"]}
        /\ shownDetail' \in {shownDetail, view'["detail"]}
    BY DEF PanelsNext, allVars, panelVars, ClickRow, SelectScope, Search, FilterByReference,
       ToggleDetail, PressElsewhere, OpenProject, SyncPanels, Background, HandleEvents,
       HandleHistoryChanged
  <2>. QED BY <1>1, <2>1 DEF PanelsTypeOK
<1>3. panelFilter' \in Filter
  BY FiltersStay DEF FiltersMirror, TypeOK
<1>4. branchScope' \in Reference \cup {None} /\ revealed' \in BOOLEAN
  <2>1. branchScope' \in Reference \cup {None}
    BY <1>1 DEF PanelsNext, allVars, panelVars, ClickRow, SelectScope, Search, FilterByReference,
       SetPanelFilter, ToggleDetail, PressElsewhere, OpenProject, ResetForNewRepository,
       Background, PanelsTypeOK
  <2>2. revealed' \in BOOLEAN
    BY <1>1, Zenon DEF PanelsNext, allVars, panelVars, ClickRow, SelectScope, Search,
       FilterByReference, DismissDetail, ToggleDetail, PressElsewhere, OpenProject, Background,
       HandleEvents, PanelsTypeOK
  <2>. QED BY <2>1, <2>2
<1>. QED BY <1>2, <1>3, <1>4 DEF PanelsTypeOK

----------------------------------------------------------------------------
(* The theorems *)

LEMMA PanelsInitInv == PanelsInit => PanelsInv
<1>. SUFFICES ASSUME PanelsInit PROVE PanelsInv
  OBVIOUS
<1>1. IInv /\ TypeOK
  BY InitSafe DEF PanelsInit, IInv
<1>2. ReadFromDisk
  <2>1. \A s \in Slot : ~IsReady(view[s]) /\ \A t \in tasks[s] : t.seen = 0
    BY LoadStates DEF PanelsInit, Init, NewTask
  <2>2. Len(disk) = 1
    BY DEF PanelsInit, Init
  <2>. QED BY <2>1, <2>2 DEF ReadFromDisk
<1>3. PanelsTypeOK
  BY <1>1 DEF PanelsInit, PanelsTypeOK, TypeOK, Slot, DefaultFilter, Init
<1>4. SelectionIsListed
  BY DEF PanelsInit, Init, SelectionIsListed
<1>5. PanelsMirrorRepository
  BY DEF PanelsInit, Init, PanelsMirrorRepository, ScopeOptions, DefaultFilter
<1>. QED BY <1>1, <1>2, <1>3, <1>4, <1>5 DEF PanelsInv

LEMMA PanelsNextInv == PanelsInv /\ [PanelsNext]_allVars => PanelsInv'
<1>. SUFFICES ASSUME PanelsInv, [PanelsNext]_allVars PROVE PanelsInv'
  OBVIOUS
<1>1. RepositoryStep
  BY PanelsStepRepository DEF PanelsInv
<1>2. IInv' /\ TypeOK'
  BY <1>1, RepositoryStaysSafe DEF PanelsInv, IInv
<1>3. ReadFromDisk'
  BY <1>1, <1>2, ReadsStayFromDisk DEF PanelsInv
<1>. QED
  BY <1>2, <1>3, PanelsStayTyped, SelectionStaysListed, PanelsStayMirrored DEF PanelsInv

(* The invariant of the window around one repository after the other. *)
THEOREM PanelsSafety == PanelsSpec => []PanelsInv
BY PanelsInitInv, PanelsNextInv, PTL DEF PanelsSpec

(* The panels' copies, filters and tabs keep their types. *)
THEOREM PanelsTyping == PanelsSpec => []PanelsTypeOK
<1>1. PanelsInv => PanelsTypeOK
  BY DEF PanelsInv
<1>. QED BY <1>1, PanelsSafety, PTL

(* Whatever is selected is in the history that is loaded, although rows are
   clicked in the table's copy of an older one. *)
THEOREM SelectionAlwaysListed == PanelsSpec => []SelectionIsListed
<1>1. PanelsInv => SelectionIsListed
  BY DEF PanelsInv
<1>. QED BY <1>1, PanelsSafety, PTL

(* The events the repository emits are enough to keep every copy the panels
   hold up to date. *)
THEOREM PanelsAlwaysMirror == PanelsSpec => []PanelsMirrorRepository
<1>1. PanelsInv => PanelsMirrorRepository
  BY DEF PanelsInv
<1>. QED BY <1>1, PanelsSafety, PTL

(* The detail panel goes with the selection and is never brought back by a
   late answer. *)
THEOREM DetailAlwaysGoes == PanelsSpec => DetailGoesWithSelection
<1>. DEFINE Goes == selected # None /\ selected' = None
                      => ~ revealed' \/ \E d \in Snapshot : OpenProject(d)
            Comes == ~ revealed /\ revealed' => (\E c \in Commit : ClickRow(c)) \/ ToggleDetail
<1>1. PanelsInv /\ [PanelsNext]_allVars => [Goes /\ Comes]_allVars
  <2>. SUFFICES ASSUME PanelsInv, PanelsNext PROVE Goes /\ Comes
    OBVIOUS
  <2>1. TypeOK
    BY DEF PanelsInv, IInv
  <2>2. CASE Background
    <3>1. Announced /\ HandleEvents(FALSE)
      BY <2>1, <2>2, StepAnnounced DEF Background, Next
    <3>. QED BY <3>1, Zenon DEF Announced, HandleEvents
  <2>3. ASSUME NEW c \in Commit, ClickRow(c) PROVE Goes /\ Comes
    <3>1. selected' = c \/ selected' = selected
      BY <2>3 DEF ClickRow, Select, repositoryVars
    <3>. QED BY <2>3, <3>1, ConstantsAssumption
  <2>4. CASE ToggleDetail
    BY <2>4 DEF ToggleDetail, repositoryVars
  <2>5. CASE \E d \in Snapshot : OpenProject(d)
    BY <2>5 DEF OpenProject
  <2>6. CASE \/ \E scope \in Scope : SelectScope(scope)
             \/ \E q \in Query : Search(q)
    BY <2>6 DEF SelectScope, Search, SetFilter, HandleEvents
  <2>7. CASE (\E r \in Reference : FilterByReference(r)) \/ PressElsewhere
    BY <2>7 DEF FilterByReference, DismissDetail, PressElsewhere
  <2>. QED BY <2>2, <2>3, <2>4, <2>5, <2>6, <2>7 DEF PanelsNext
<1>. QED
  BY <1>1, PanelsSafety, PTL DEF PanelsSpec, DetailGoesWithSelection
=============================================================================
