-------------------------- MODULE RepositoryState --------------------------
(***************************************************************************)
(* The entity that owns everything a window shows of one repository:       *)
(* crates/ui/src/repository/state.rs.  It answers four questions (what is  *)
(* HEAD, which references exist, which commits does the current scope      *)
(* reach, what is in the selected commit) by reads that run on a           *)
(* background thread and are applied later on the frame thread, while      *)
(* other programs keep rewriting the repository underneath.                *)
(*                                                                         *)
(* The repository on disk is a sequence of snapshots; its length is the    *)
(* version a read started now would see.  A loaded value is the version it *)
(* was read at, together with the argument it was read for, so its content *)
(* is a function of the snapshot (Walk, the snapshot's refs, its head).    *)
(***************************************************************************)
EXTENDS Naturals, Sequences, FiniteSets

CONSTANTS
  Commit,       \* commit identifiers
  LocalRef,     \* local branches and tags
  RemoteRef,    \* remote-tracking branches
  Ancestry,     \* Ancestry[c]: the commits reachable from c, c included
  Snapshot,     \* the states of the repository on disk that are considered
  Query,        \* texts the search field may hold
  NoQuery,      \* the empty text
  None,         \* Option::None
  MaxVersion,   \* bound: how many states the disk goes through
  MaxCalls      \* bound: how many calls other parts of the window make

Reference == LocalRef \cup RemoteRef

(* HistoryScope: a reference stands for HistoryScope::Single of it. *)
Scope == {"AllReferences", "LocalReferences"} \cup Reference

ASSUME ConstantsAssumption ==
  /\ None \notin Commit
  /\ NoQuery \in Query
  /\ Ancestry \in [Commit -> SUBSET Commit]
  /\ \A c \in Commit : c \in Ancestry[c]
  /\ Snapshot \subseteq [refs : [Reference -> Commit \cup {None}],
                         head : LocalRef \cup Commit]
  /\ Snapshot # {}
  /\ MaxVersion \in Nat \ {0}
  /\ MaxCalls \in Nat

Slot == {"head", "references", "history", "detail"}
RepositorySlot == Slot \ {"detail"}

Aspect == {"Head", "References", "Index", "WorkingTree"}

VARIABLES
  disk,       \* every state the repository on disk has been in, oldest first
  view,       \* the LoadState of each slot
  tasks,      \* the reads each slot's Option<Task> keeps alive
  filter,     \* HistoryFilter
  selected,   \* the selected commit, or None
  events,     \* the RepositoryEvents the last step emitted
  requested,  \* history variable: the version on disk when a slot was last asked
  calls       \* how many calls were made, for the bound

vars == <<disk, view, tasks, filter, selected, events, requested, calls>>

----------------------------------------------------------------------------
(* Values *)

Version == 1 .. MaxVersion

Filter == [scope : Scope, query : Query]

(* Mutant: a new filter names no scope. *)
DefaultFilterUnset == [scope |-> None, query |-> NoQuery]

DefaultFilter == [scope |-> "AllReferences", query |-> NoQuery]

(* badges is the version of the reference listing that History.refs_by_commit
   was computed from, 0 when it was left empty. *)
LoadState == [status : {"Idle", "Loading", "Failed"}]
               \cup [status : {"Ready"}, at : Version,
                     of : Scope \cup Commit \cup {None}, badges : 0 .. MaxVersion]

Idle    == [status |-> "Idle"]
Loading == [status |-> "Loading"]
Failed  == [status |-> "Failed"]
Ready(at, of, badges) ==
  [status |-> "Ready", at |-> at, of |-> of, badges |-> badges]

IsReady(v) == v.status = "Ready"

(* A read in flight: seen is the version the background closure saw, 0 until
   it has run. *)
Task == [of : Scope \cup Commit \cup {None}, seen : 0 .. MaxVersion, ok : BOOLEAN]

NewTask(of) == [of |-> of, seen |-> 0, ok |-> FALSE]

(* What the walk finds on a snapshot. *)
HeadTarget(d) == IF d.head \in LocalRef THEN d.refs[d.head] ELSE d.head

Tips(d, scope) ==
  LET listed(R) == {d.refs[r] : r \in R} \cup {HeadTarget(d)}
  IN (CASE scope = "AllReferences"   -> listed(Reference)
        [] scope = "LocalReferences" -> listed(LocalRef)
        [] OTHER                     -> {d.refs[scope]}) \ {None}

Walk(d, scope) == UNION {Ancestry[c] : c \in Tips(d, scope)}

(* peel_named fails for a reference that does not exist, so the read does. *)
Resolves(d, scope) == scope \in Reference => d.refs[scope] # None

(* The commits a loaded history lists. *)
Commits(v) == IF IsReady(v) THEN Walk(disk[v.at], v.of) ELSE {}

----------------------------------------------------------------------------
(* Starting and cancelling reads *)

(* Mutant: the read that was in flight is not dropped. *)
StartLoadsUncancelled(S, of) ==
  /\ view' = [s \in Slot |-> IF s \in S THEN Loading ELSE view[s]]
  /\ tasks' = [s \in Slot |->
                 IF s \in S
                 THEN tasks[s] \cup
                        {NewTask(IF s \in {"history", "detail"} THEN of ELSE None)}
                 ELSE tasks[s]]
  /\ requested' = [s \in Slot |-> IF s \in S THEN Len(disk) ELSE requested[s]]

(* Each slot in S starts to load: overwriting a slot's task drops the read
   that was in flight, so its answer is never applied. *)
StartLoads(S, of) ==
  /\ view' = [s \in Slot |-> IF s \in S THEN Loading ELSE view[s]]
  /\ tasks' = [s \in Slot |->
                 IF s \in S
                 THEN {NewTask(IF s \in {"history", "detail"} THEN of ELSE None)}
                 ELSE tasks[s]]
  /\ requested' = [s \in Slot |-> IF s \in S THEN Len(disk) ELSE requested[s]]

(* open: head, references and history start loading, nothing is selected. *)
Init ==
  /\ disk \in {<<d>> : d \in Snapshot}
  /\ view = [s \in Slot |-> IF s = "detail" THEN Idle ELSE Loading]
  /\ tasks = [s \in Slot |->
                IF s = "detail" THEN {}
                ELSE {NewTask(IF s = "history" THEN DefaultFilter.scope ELSE None)}]
  /\ filter = DefaultFilter
  /\ selected = None
  /\ events = {}
  /\ requested = [s \in Slot |-> 1]
  /\ calls = 0

Call == calls < MaxCalls /\ calls' = calls + 1

(* Mutant: the wrong field of the filter is compared. *)
RequiresReloadForQuery(current, next) == current.query # next.query

RequiresReload(current, next) == current.scope # next.scope

SetFilter(next) ==
  /\ Call
  /\ filter' = next
  /\ IF RequiresReload(filter, next)
     THEN StartLoads({"history"}, next.scope)
     ELSE UNCHANGED <<view, tasks, requested>>
  /\ events' = {}
  /\ UNCHANGED <<disk, selected>>

(* A selection that is already in place is left alone, its read included. *)
Select(commit) ==
  /\ Call
  /\ commit # selected
  /\ selected' = commit
  /\ IF commit # None
     THEN StartLoads({"detail"}, commit)
     ELSE /\ view' = [view EXCEPT !["detail"] = Idle]
          /\ tasks' = [tasks EXCEPT !["detail"] = {}]
          /\ UNCHANGED requested
  /\ events' = {"SelectionChanged"}
  /\ UNCHANGED <<disk, filter>>

(* Mutant: a reference is taken to concern HEAD no more than a file does. *)
ReloadTargetsOfHead(change) == IF "Head" \in change THEN RepositorySlot ELSE {}

ReloadTargets(change) ==
  IF "Head" \in change \/ "References" \in change THEN RepositorySlot ELSE {}

(* The body of reload; its callers decide when it runs. *)
ReloadBody(change) ==
  /\ StartLoads(ReloadTargets(change), filter.scope)
  /\ events' = {}
  /\ UNCHANGED <<disk, filter, selected>>

Reload(change) == Call /\ ReloadBody(change)

----------------------------------------------------------------------------
(* Reads running in the background *)

(* What a read may answer: a scope whose reference is gone always fails, and
   any read may fail for a reason of the file system's. *)
Answers(s, of) ==
  IF s = "history" /\ ~ Resolves(disk[Len(disk)], of) THEN {FALSE} ELSE BOOLEAN

ReadDisk(s) ==
  /\ \E t \in tasks[s] :
       /\ t.seen = 0
       /\ \E ok \in Answers(s, t.of) :
            tasks' = [tasks EXCEPT ![s] = (@ \ {t}) \cup
                        {[of |-> t.of, seen |-> Len(disk), ok |-> ok]}]
  /\ events' = {}
  /\ UNCHANGED <<disk, view, filter, selected, requested, calls>>

(* The answer of a read that has run, taken off its slot. *)
Finish(s, t) ==
  /\ t \in tasks[s]
  /\ t.seen # 0
  /\ UNCHANGED <<disk, filter, requested, calls>>

FailedEvent(t) == IF t.ok THEN {} ELSE {"Failed"}

(* Mutant: an error is dropped without an answer. *)
ApplySimpleIgnoresErrors(s) ==
  /\ s \in {"head", "references"}
  /\ \E t \in tasks[s] :
       /\ Finish(s, t) /\ t.ok
       /\ view' = [view EXCEPT ![s] = Ready(t.seen, None, 0)]
       /\ tasks' = [tasks EXCEPT ![s] = @ \ {t}]
       /\ events' = {"HistoryChanged"}
  /\ UNCHANGED selected

(* apply_head and apply_references *)
ApplySimple(s) ==
  /\ s \in {"head", "references"}
  /\ \E t \in tasks[s] :
       /\ Finish(s, t)
       /\ view' = [view EXCEPT ![s] = IF t.ok THEN Ready(t.seen, None, 0) ELSE Failed]
       /\ tasks' = [tasks EXCEPT ![s] = @ \ {t}]
       /\ events' = {"HistoryChanged"} \cup FailedEvent(t)
  /\ UNCHANGED selected

BadgesNow == IF IsReady(view["references"]) THEN view["references"].at ELSE 0

(* Mutant: the selection is kept whatever the walk lists. *)
PreserveAnySelection(commits) == selected

PreserveSelection(commits) == IF selected \in commits THEN selected ELSE None

(* Mutant: the lost selection's detail stays up. *)
HistoryAnswerKeepsDetail(t) ==
  /\ Finish("history", t) /\ t.ok
  /\ LET loaded == Ready(t.seen, t.of, BadgesNow)
     IN /\ view' = [view EXCEPT !["history"] = loaded]
        /\ selected' = PreserveSelection(Commits(loaded))
  /\ tasks' = [tasks EXCEPT !["history"] = @ \ {t}]
  /\ events' = {"HistoryChanged"}

(* Mutant: every answer takes the detail down. *)
HistoryAnswerDropsDetail(t) ==
  /\ Finish("history", t) /\ t.ok
  /\ LET loaded == Ready(t.seen, t.of, BadgesNow)
     IN /\ view' = [s \in Slot |-> IF s = "history" THEN loaded
                                   ELSE IF s = "detail" THEN Idle ELSE view[s]]
        /\ selected' = PreserveSelection(Commits(loaded))
  /\ tasks' = [tasks EXCEPT !["history"] = @ \ {t}]
  /\ events' = {"HistoryChanged"}

(* apply_history: badges come from the reference listing loaded at this very
   moment, and a selection the new walk does not list is cleared, its detail
   and the read of it included. *)
HistoryAnswer(t) ==
  /\ Finish("history", t)
  /\ IF t.ok
     THEN LET loaded == Ready(t.seen, t.of, BadgesNow)
              kept   == PreserveSelection(Commits(loaded))
              lost   == selected # None /\ kept = None
          IN /\ selected' = kept
             /\ view' = [s \in Slot |-> IF s = "history" THEN loaded
                                        ELSE IF s = "detail" /\ lost THEN Idle
                                        ELSE view[s]]
             /\ tasks' = [s \in Slot |-> IF s = "history" THEN tasks[s] \ {t}
                                         ELSE IF s = "detail" /\ lost THEN {}
                                         ELSE tasks[s]]
             /\ events' = {"HistoryChanged"} \cup
                            (IF lost THEN {"SelectionChanged"} ELSE {})
     ELSE /\ view' = [view EXCEPT !["history"] = Failed]
          /\ tasks' = [tasks EXCEPT !["history"] = @ \ {t}]
          /\ events' = {"HistoryChanged", "Failed"}
          /\ UNCHANGED selected

ApplyHistory == \E t \in tasks["history"] : HistoryAnswer(t)

(* apply_detail drops the answer for a commit that is no longer selected. *)
ApplyDetail ==
  /\ \E t \in tasks["detail"] :
       /\ Finish("detail", t)
       /\ tasks' = [tasks EXCEPT !["detail"] = @ \ {t}]
       /\ IF selected = t.of
          THEN /\ view' = [view EXCEPT !["detail"] =
                             IF t.ok THEN Ready(t.seen, t.of, 0) ELSE Failed]
               /\ events' = {"SelectionChanged"} \cup FailedEvent(t)
          ELSE events' = {} /\ UNCHANGED view
  /\ UNCHANGED selected

Apply == \/ \E s \in {"head", "references"} : ApplySimple(s)
         \/ ApplyHistory
         \/ ApplyDetail

----------------------------------------------------------------------------
(* Another program rewrites the repository. *)
DiskChanges(d) ==
  /\ Len(disk) < MaxVersion
  /\ disk' = Append(disk, d)
  /\ events' = {}
  /\ UNCHANGED <<view, tasks, filter, selected, requested, calls>>

Next ==
  \/ \E d \in Snapshot : DiskChanges(d)
  \/ \E f \in Filter : SetFilter(f)
  \/ \E c \in Commit \cup {None} : Select(c)
  \/ \E change \in (SUBSET Aspect) \ {{}} : Reload(change)
  \/ \E s \in Slot : ReadDisk(s)
  \/ Apply

(* The background executor runs every closure it holds and the frame thread
   runs every future that is ready; nothing makes the user or another program
   act. *)
Fairness ==
  /\ \A s \in Slot : WF_vars(ReadDisk(s))
  /\ \A s \in {"head", "references"} : WF_vars(ApplySimple(s))
  /\ WF_vars(ApplyHistory)
  /\ WF_vars(ApplyDetail)

Spec == Init /\ [][Next]_vars
FairSpec == Spec /\ Fairness

----------------------------------------------------------------------------
(* Properties *)

(* Every variable stays within its type: the fields of RepositoryState. *)
TypeOK ==
  /\ disk \in Seq(Snapshot) /\ Len(disk) \in Version
  /\ view \in [Slot -> LoadState]
  /\ tasks \in [Slot -> SUBSET Task]
  /\ filter \in Filter
  /\ selected \in Commit \cup {None}
  /\ events \subseteq {"HistoryChanged", "SelectionChanged", "Failed"}
  /\ requested \in [Slot -> Version]
  /\ calls \in 0 .. MaxCalls

(* The detail shown is the selected commit's: there is a detail exactly when
   something is selected, and a loaded one was read for that very commit, in
   whatever order clicks, reloads and late answers came (select, apply_detail,
   the clearing in apply_history). *)
DetailIsOfSelection ==
  /\ view["detail"] = Idle <=> selected = None
  /\ IsReady(view["detail"]) => view["detail"].of = selected

(* The history shown was walked for the scope the filter names, although a
   walk takes its scope when it starts and the filter may change meanwhile. *)
HistoryIsOfFilter ==
  IsReady(view["history"]) => view["history"].of = filter.scope

(* A slot says Loading exactly while a read that will answer it is alive: no
   cancelled read leaves a spinner behind, no finished slot is overwritten. *)
LoadingHasReader ==
  \A s \in Slot : view[s] = Loading <=> tasks[s] # {}

(* "A later call always wins over an earlier one that has not yet applied its
   result": what a slot shows was read no earlier than it was last asked for. *)
AnswersLatestRequest ==
  \A s \in Slot : IsReady(view[s]) => view[s].at >= requested[s]

(* The read a slot keeps alive is the only one, answers the question asked
   now (the filter's scope, the selected commit), and looks at a disk no older
   than the request.  With the four properties above it is inductive. *)
ReadsServeCurrentState ==
  /\ \A s \in Slot : /\ requested[s] <= Len(disk)
                     /\ \A t \in tasks[s] : t.seen # 0 => t.seen >= requested[s]
                     /\ \A t, u \in tasks[s] : t = u
  /\ \A t \in tasks["history"] : t.of = filter.scope
  /\ \A t \in tasks["detail"] : t.of = selected

(* A loaded detail is never read again or dropped while its commit stays
   selected: reloading the history keeps it, its content being immutable. *)
DetailSurvivesReload ==
  [][IsReady(view["detail"]) /\ selected' = selected
       => view'["detail"] = view["detail"]]_vars

(* Every load ends, answered or replaced by one that is. *)
EveryLoadEnds ==
  \A s \in Slot : view[s] = Loading ~> view[s] # Loading
=============================================================================
