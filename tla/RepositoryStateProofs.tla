----------------------- MODULE RepositoryStateProofs -----------------------
(***************************************************************************)
(* Proofs about RepositoryState, for any set of commits and references,    *)
(* any history on disk and any number of calls.                            *)
(***************************************************************************)
EXTENDS RepositoryState, TLAPS

Argument == Scope \cup Commit \cup {None}

(* Starting reads keeps the views and the reads within their types. *)
LEMMA StartLoadsTyped ==
  ASSUME TypeOK, NEW S \in SUBSET Slot, NEW of \in Argument, StartLoads(S, of)
  PROVE  /\ view' \in [Slot -> LoadState]
         /\ tasks' \in [Slot -> SUBSET Task]
         /\ requested' \in [Slot -> Version]
<1>1. NewTask(of) \in Task /\ NewTask(None) \in Task
  BY ConstantsAssumption DEF NewTask, Task, Argument
<1>2. Loading \in LoadState
  BY DEF Loading, LoadState
<1>. QED
  BY <1>1, <1>2, Zenon DEF StartLoads, TypeOK

(* What an answer that has arrived turns a slot into is a LoadState. *)
LEMMA AnswerTyped ==
  ASSUME TypeOK, NEW s \in Slot, NEW t \in tasks[s], t.seen # 0
  PROVE  /\ t \in Task /\ t.of \in Argument /\ t.seen \in Version
         /\ Idle \in LoadState /\ Failed \in LoadState
         /\ \A b \in 0 .. MaxVersion : Ready(t.seen, t.of, b) \in LoadState
         /\ Ready(t.seen, None, 0) \in LoadState
<1>1. t \in Task
  BY DEF TypeOK
<1>2. t.of \in Argument /\ t.seen \in Version
  BY <1>1, ConstantsAssumption DEF Task, Argument, Version
<1>3. None \in Argument
  BY DEF Argument
<1>4. 0 \in 0 .. MaxVersion
  BY ConstantsAssumption
<1>5. \A b \in 0 .. MaxVersion, a \in Argument : Ready(t.seen, a, b) \in LoadState
  BY <1>2 DEF Ready, LoadState, Argument
<1>. QED
  BY <1>1, <1>2, <1>3, <1>4, <1>5 DEF Idle, Failed, LoadState

LEMMA BadgesTyped ==
  ASSUME TypeOK
  PROVE  BadgesNow \in 0 .. MaxVersion
<1>1. view["references"] \in LoadState
  BY DEF TypeOK, Slot
<1>2. CASE IsReady(view["references"])
  <2>1. view["references"].at \in Version
    BY <1>1, <1>2 DEF IsReady, LoadState
  <2>. QED BY <2>1, <1>2, ConstantsAssumption DEF BadgesNow, Version
<1>3. CASE ~ IsReady(view["references"])
  BY <1>3, ConstantsAssumption DEF BadgesNow
<1>. QED BY <1>2, <1>3

----------------------------------------------------------------------------
(* Type correctness *)

LEMMA InitTyped == Init => TypeOK
<1> SUFFICES ASSUME Init PROVE TypeOK
  OBVIOUS
<1>1. PICK d \in Snapshot : disk = <<d>>
  BY DEF Init
<1>2. disk \in Seq(Snapshot) /\ Len(disk) \in Version
  BY <1>1, ConstantsAssumption DEF Version
<1>3. view \in [Slot -> LoadState]
  BY DEF Init, LoadState, Idle, Loading, Slot
<1>4. tasks \in [Slot -> SUBSET Task]
  <2>1. NewTask(None) \in Task /\ NewTask(DefaultFilter.scope) \in Task
    BY ConstantsAssumption DEF NewTask, Task, DefaultFilter, Scope
  <2>. QED BY <2>1 DEF Init
<1>5. filter \in Filter
  BY ConstantsAssumption DEF Init, DefaultFilter, Filter, Scope
<1>6. requested \in [Slot -> Version]
  BY ConstantsAssumption DEF Init, Version
<1>. QED
  BY <1>2, <1>3, <1>4, <1>5, <1>6, ConstantsAssumption DEF Init, TypeOK

LEMMA NextTyped == TypeOK /\ [Next]_vars => TypeOK'
<1> SUFFICES ASSUME TypeOK, [Next]_vars PROVE TypeOK'
  OBVIOUS
<1> USE DEF TypeOK
<1>1. ASSUME NEW d \in Snapshot, DiskChanges(d) PROVE TypeOK'
  <2>1. disk' \in Seq(Snapshot) /\ Len(disk') = Len(disk) + 1
    BY <1>1 DEF DiskChanges
  <2>2. Len(disk') \in Version
    BY <2>1, <1>1, ConstantsAssumption DEF DiskChanges, Version
  <2>. QED BY <2>1, <2>2, <1>1 DEF DiskChanges
<1>2. ASSUME NEW f \in Filter, SetFilter(f) PROVE TypeOK'
  <2>1. f.scope \in Argument /\ {"history"} \in SUBSET Slot
    BY DEF Filter, Argument, Slot
  <2>2. /\ view' \in [Slot -> LoadState]
        /\ tasks' \in [Slot -> SUBSET Task]
        /\ requested' \in [Slot -> Version]
    BY <1>2, <2>1, StartLoadsTyped, Zenon DEF SetFilter
  <2>3. calls' \in 0 .. MaxCalls
    BY <1>2, ConstantsAssumption DEF SetFilter, Call
  <2>. QED BY <2>2, <2>3, <1>2 DEF SetFilter
<1>3. ASSUME NEW c \in Commit \cup {None}, Select(c) PROVE TypeOK'
  <2>1. c \in Argument /\ {"detail"} \in SUBSET Slot
    BY DEF Argument, Slot
  <2>2. /\ view' \in [Slot -> LoadState]
        /\ tasks' \in [Slot -> SUBSET Task]
        /\ requested' \in [Slot -> Version]
    <3>1. CASE c # None
      BY <1>3, <2>1, <3>1, StartLoadsTyped, Zenon DEF Select
    <3>2. CASE c = None
      BY <1>3, <3>2 DEF Select, Idle, LoadState
    <3>. QED BY <3>1, <3>2
  <2>3. calls' \in 0 .. MaxCalls
    BY <1>3, ConstantsAssumption DEF Select, Call
  <2>. QED BY <2>2, <2>3, <1>3 DEF Select
<1>4. ASSUME NEW change \in SUBSET Aspect, Reload(change) PROVE TypeOK'
  <2>1. filter.scope \in Argument /\ ReloadTargets(change) \in SUBSET Slot
    BY DEF Filter, Argument, ReloadTargets, RepositorySlot
  <2>2. /\ view' \in [Slot -> LoadState]
        /\ tasks' \in [Slot -> SUBSET Task]
        /\ requested' \in [Slot -> Version]
    BY <1>4, <2>1, StartLoadsTyped, Zenon DEF Reload, ReloadBody
  <2>3. calls' \in 0 .. MaxCalls
    BY <1>4, ConstantsAssumption DEF Reload, Call
  <2>. QED BY <2>2, <2>3, <1>4 DEF Reload, ReloadBody
<1>5. ASSUME NEW s \in Slot, ReadDisk(s) PROVE TypeOK'
  <2>1. PICK t \in tasks[s], ok \in BOOLEAN :
          tasks' = [tasks EXCEPT ![s] = (@ \ {t}) \cup
                      {[of |-> t.of, seen |-> Len(disk), ok |-> ok]}]
    BY <1>5 DEF ReadDisk, Answers
  <2>2. [of |-> t.of, seen |-> Len(disk), ok |-> ok] \in Task
    BY ConstantsAssumption DEF Task, Version
  <2>3. tasks' \in [Slot -> SUBSET Task]
    BY <2>1, <2>2
  <2>. QED BY <2>3, <1>5 DEF ReadDisk
<1>6. ASSUME NEW s \in {"head", "references"}, ApplySimple(s) PROVE TypeOK'
  <2>1. s \in Slot
    BY DEF Slot
  <2>2. PICK t \in tasks[s] :
          /\ Finish(s, t)
          /\ view' = [view EXCEPT ![s] = IF t.ok THEN Ready(t.seen, None, 0) ELSE Failed]
          /\ tasks' = [tasks EXCEPT ![s] = @ \ {t}]
          /\ events' = {"HistoryChanged"} \cup FailedEvent(t)
    BY <1>6 DEF ApplySimple
  <2>3. view' \in [Slot -> LoadState] /\ tasks' \in [Slot -> SUBSET Task]
    BY <2>1, <2>2, AnswerTyped DEF Finish
  <2>. QED BY <2>2, <2>3, <1>6 DEF Finish, ApplySimple, FailedEvent
<1>7. ASSUME ApplyHistory PROVE TypeOK'
  <2> PICK t \in tasks["history"] : HistoryAnswer(t)
    BY <1>7 DEF ApplyHistory
  <2>1. "history" \in Slot
    BY DEF Slot
  <2>2. UNCHANGED <<disk, filter, requested, calls>> /\ t.seen # 0
    BY DEF HistoryAnswer, Finish
  <2>3. CASE t.ok
    <3>1. Ready(t.seen, t.of, BadgesNow) \in LoadState /\ Idle \in LoadState
      BY <2>1, <2>2, AnswerTyped, BadgesTyped
    <3>2. view' \in [Slot -> LoadState] /\ tasks' \in [Slot -> SUBSET Task]
      BY <2>1, <2>3, <3>1, Zenon DEF HistoryAnswer
    <3>3. selected' \in Commit \cup {None}
      BY <2>3 DEF HistoryAnswer, PreserveSelection
    <3>4. events' \subseteq {"HistoryChanged", "SelectionChanged", "Failed"}
      BY <2>3 DEF HistoryAnswer
    <3>. QED BY <2>2, <3>2, <3>3, <3>4
  <2>4. CASE ~ t.ok
    <3>1. Failed \in LoadState
      BY DEF Failed, LoadState
    <3>. QED BY <2>1, <2>2, <2>4, <3>1 DEF HistoryAnswer
  <2>. QED BY <2>3, <2>4
<1>8. ASSUME ApplyDetail PROVE TypeOK'
  <2>1. PICK t \in tasks["detail"] :
          /\ Finish("detail", t)
          /\ tasks' = [tasks EXCEPT !["detail"] = @ \ {t}]
          /\ IF selected = t.of
             THEN /\ view' = [view EXCEPT !["detail"] =
                                IF t.ok THEN Ready(t.seen, t.of, 0) ELSE Failed]
                  /\ events' = {"SelectionChanged"} \cup FailedEvent(t)
             ELSE events' = {} /\ UNCHANGED view
    BY <1>8 DEF ApplyDetail
  <2>2. "detail" \in Slot /\ 0 \in 0 .. MaxVersion
    BY ConstantsAssumption DEF Slot
  <2>3. view' \in [Slot -> LoadState] /\ tasks' \in [Slot -> SUBSET Task]
    BY <2>1, <2>2, AnswerTyped DEF Finish
  <2>. QED BY <2>1, <2>3, <1>8 DEF Finish, ApplyDetail, FailedEvent
<1>9. CASE UNCHANGED vars
  BY <1>9 DEF vars
<1>. QED
  BY <1>1, <1>2, <1>3, <1>4, <1>5, <1>6, <1>7, <1>8, <1>9, Zenon DEF Next, Apply

(* The type invariant of the four views, their reads and the selection holds
   in every reachable state. *)
THEOREM Typing == Spec => []TypeOK
<1>1. Init => TypeOK
  BY InitTyped
<1>2. TypeOK /\ [Next]_vars => TypeOK'
  BY NextTyped
<1>. QED
  BY <1>1, <1>2, PTL DEF Spec

----------------------------------------------------------------------------
(* The safety properties, together *)

IInv ==
  /\ TypeOK
  /\ DetailIsOfSelection
  /\ HistoryIsOfFilter
  /\ LoadingHasReader
  /\ AnswersLatestRequest
  /\ ReadsServeCurrentState

(* The four kinds of LoadState are told apart, and a ready one is read back. *)
LEMMA LoadStates ==
  /\ Loading # Idle /\ Loading # Failed /\ Idle # Failed
  /\ ~ IsReady(Loading) /\ ~ IsReady(Idle) /\ ~ IsReady(Failed)
  /\ \A at, of, b :
       /\ IsReady(Ready(at, of, b))
       /\ Ready(at, of, b) # Loading /\ Ready(at, of, b) # Idle
       /\ Ready(at, of, b).at = at /\ Ready(at, of, b).of = of
  BY DEF Loading, Idle, Failed, Ready, IsReady

LEMMA InitSafe == Init => IInv
<1> SUFFICES ASSUME Init PROVE IInv
  OBVIOUS
<1>1. TypeOK
  BY InitTyped
<1>2. Len(disk) = 1
  BY DEF Init
<1>3. /\ "head" \in Slot /\ "references" \in Slot /\ "history" \in Slot
      /\ "detail" \in Slot
  BY DEF Slot
<1>4. ASSUME NEW s \in Slot, NEW t \in tasks[s]
      PROVE  /\ t.seen = 0
             /\ s = "history" => t.of = filter.scope
             /\ s # "detail"
             /\ \A u \in tasks[s] : t = u
  <2> DEFINE n == NewTask(IF s = "history" THEN DefaultFilter.scope ELSE None)
  <2>1. s # "detail" /\ tasks[s] = {n}
    BY DEF Init
  <2>2. n.seen = 0 /\ (s = "history" => n.of = filter.scope)
    BY DEF NewTask, Init
  <2>. QED BY <2>1, <2>2
<1>5. DetailIsOfSelection /\ HistoryIsOfFilter /\ AnswersLatestRequest
  BY <1>3, LoadStates DEF Init, DetailIsOfSelection, HistoryIsOfFilter,
                          AnswersLatestRequest
<1>6. LoadingHasReader
  BY <1>3, LoadStates DEF Init, LoadingHasReader
<1>7. ReadsServeCurrentState
  BY <1>2, <1>3, <1>4 DEF Init, ReadsServeCurrentState
<1>. QED
  BY <1>1, <1>5, <1>6, <1>7 DEF IInv

(* Starting reads for the questions now asked re-establishes the invariant. *)
LEMMA StartLoadsSafe ==
  ASSUME IInv, TypeOK', NEW S \in SUBSET Slot, NEW of, StartLoads(S, of),
         disk' = disk,
         "history" \in S => of = filter'.scope,
         "history" \notin S => filter'.scope = filter.scope,
         "detail" \in S => of = selected' /\ selected' # None,
         "detail" \notin S => selected' = selected
  PROVE  IInv'
<1> USE DEF IInv
<1>1. \A s \in Slot : /\ s \in S => view'[s] = Loading /\ requested'[s] = Len(disk)
                      /\ s \notin S => /\ view'[s] = view[s]
                                       /\ tasks'[s] = tasks[s]
                                       /\ requested'[s] = requested[s]
  BY DEF StartLoads
<1>2. \A s \in S : \E t : /\ tasks'[s] = {t} /\ t.seen = 0
                          /\ s \in {"history", "detail"} => t.of = of
  <2> TAKE s \in S
  <2> DEFINE t == NewTask(IF s \in {"history", "detail"} THEN of ELSE None)
  <2>1. tasks'[s] = {t}
    BY Zenon DEF StartLoads
  <2>2. t.seen = 0 /\ (s \in {"history", "detail"} => t.of = of)
    BY DEF NewTask
  <2>. QED BY <2>1, <2>2
<1>3. "history" \in Slot /\ "detail" \in Slot
  BY DEF Slot
<1>4. DetailIsOfSelection'
  BY <1>1, <1>3, LoadStates DEF DetailIsOfSelection
<1>5. HistoryIsOfFilter'
  BY <1>1, <1>3, LoadStates DEF HistoryIsOfFilter
<1>6. LoadingHasReader'
  <2> SUFFICES ASSUME NEW s \in Slot
               PROVE  (view[s] = Loading)' <=> (tasks[s] # {})'
    BY DEF LoadingHasReader
  <2>1. CASE s \in S
    BY <1>1, <1>2, <2>1
  <2>2. CASE s \notin S
    BY <1>1, <2>2 DEF LoadingHasReader
  <2>. QED BY <2>1, <2>2
<1>7. AnswersLatestRequest'
  BY <1>1, LoadStates DEF AnswersLatestRequest
<1>8. ReadsServeCurrentState'
  <2>1. Len(disk) \in Nat
    BY DEF TypeOK
  <2>2. ASSUME NEW s \in Slot
        PROVE  /\ requested'[s] <= Len(disk')
               /\ \A t \in tasks'[s] : t.seen # 0 => t.seen >= requested'[s]
               /\ \A t, u \in tasks'[s] : t = u
    <3>1. CASE s \in S
      <4>1. PICK t : tasks'[s] = {t} /\ t.seen = 0
        BY <1>2, <3>1
      <4>. QED BY <1>1, <2>1, <3>1, <4>1
    <3>2. CASE s \notin S
      BY <1>1, <3>2 DEF ReadsServeCurrentState
    <3>. QED BY <3>1, <3>2
  <2>3. \A t \in tasks'["history"] : t.of = filter'.scope
    <3>1. CASE "history" \in S
      <4>1. PICK t : tasks'["history"] = {t} /\ t.of = of
        BY <1>2, <3>1
      <4>. QED BY <3>1, <4>1
    <3>2. CASE "history" \notin S
      BY <1>1, <1>3, <3>2 DEF ReadsServeCurrentState
    <3>. QED BY <3>1, <3>2
  <2>4. \A t \in tasks'["detail"] : t.of = selected'
    <3>1. CASE "detail" \in S
      <4>1. PICK t : tasks'["detail"] = {t} /\ t.of = of
        BY <1>2, <3>1
      <4>. QED BY <3>1, <4>1
    <3>2. CASE "detail" \notin S
      BY <1>1, <1>3, <3>2 DEF ReadsServeCurrentState
    <3>. QED BY <3>1, <3>2
  <2>. QED BY <2>2, <2>3, <2>4 DEF ReadsServeCurrentState
<1>. QED
  BY <1>4, <1>5, <1>6, <1>7, <1>8 DEF IInv

(* An answer taken off a slot was the only read there; it was read for the
   question now asked and no earlier than the last request. *)
LEMMA FinishSafe ==
  ASSUME IInv, NEW s \in Slot, NEW t, Finish(s, t)
  PROVE  /\ t \in Task /\ t.seen >= requested[s] /\ tasks[s] \ {t} = {}
         /\ s = "history" => t.of = filter.scope
         /\ s = "detail" => t.of = selected
  BY DEF IInv, TypeOK, Finish, ReadsServeCurrentState

(* A slot that becomes ready or failed with its only read removed, the others
   and everything else left alone, keeps the invariant. *)
LEMMA AnswerSafe ==
  ASSUME IInv, TypeOK', NEW s \in Slot, NEW t, Finish(s, t), NEW v,
         view' = [view EXCEPT ![s] = v],
         tasks' = [tasks EXCEPT ![s] = @ \ {t}],
         selected' = selected,
         v # Idle /\ v # Loading,
         IsReady(v) => v.at = t.seen /\ (s \in {"history", "detail"} => v.of = t.of),
         s = "detail" => selected # None
  PROVE  IInv'
<1> USE DEF IInv
<1>1. /\ t.seen >= requested[s] /\ tasks[s] \ {t} = {}
      /\ s = "history" => t.of = filter.scope
      /\ s = "detail" => t.of = selected
  BY FinishSafe
<1>2. /\ view'[s] = v /\ tasks'[s] = {}
      /\ \A r \in Slot \ {s} : view'[r] = view[r] /\ tasks'[r] = tasks[r]
  BY <1>1 DEF TypeOK
<1>3. "history" \in Slot /\ "detail" \in Slot
  BY DEF Slot
<1>4. UNCHANGED <<disk, filter, requested, calls>>
  BY DEF Finish
<1>5. DetailIsOfSelection'
  BY <1>1, <1>2, <1>3 DEF DetailIsOfSelection
<1>6. HistoryIsOfFilter'
  BY <1>1, <1>2, <1>3, <1>4 DEF HistoryIsOfFilter
<1>7. LoadingHasReader'
  BY <1>2 DEF LoadingHasReader
<1>8. AnswersLatestRequest'
  BY <1>1, <1>2, <1>4 DEF AnswersLatestRequest
<1>9. ReadsServeCurrentState'
  BY <1>2, <1>3, <1>4 DEF ReadsServeCurrentState
<1>. QED
  BY <1>5, <1>6, <1>7, <1>8, <1>9

(* The selection is lost with the commit: nothing selected, no detail. *)
LEMMA DetailDropped ==
  ASSUME IInv, TypeOK', selected' = None,
         view' = [view EXCEPT !["detail"] = Idle],
         tasks' = [tasks EXCEPT !["detail"] = {}],
         UNCHANGED <<disk, filter, requested>>
  PROVE  IInv'
<1> USE DEF IInv
<1>1. /\ "detail" \in Slot /\ "history" \in Slot
      /\ view'["detail"] = Idle /\ tasks'["detail"] = {}
      /\ \A r \in Slot \ {"detail"} : view'[r] = view[r] /\ tasks'[r] = tasks[r]
  BY DEF TypeOK, Slot
<1>2. DetailIsOfSelection' /\ HistoryIsOfFilter'
  BY <1>1, LoadStates DEF DetailIsOfSelection, HistoryIsOfFilter
<1>3. LoadingHasReader' /\ AnswersLatestRequest'
  BY <1>1, LoadStates DEF LoadingHasReader, AnswersLatestRequest
<1>4. ReadsServeCurrentState'
  BY <1>1 DEF ReadsServeCurrentState
<1>. QED
  BY <1>2, <1>3, <1>4

(* The three outcomes of a history answer. *)
LEMMA HistoryAnswerSafe ==
  ASSUME IInv, TypeOK', NEW t \in tasks["history"], HistoryAnswer(t)
  PROVE  IInv'
<1>1. Finish("history", t) /\ "history" \in Slot /\ "detail" \in Slot
  BY DEF HistoryAnswer, Slot
<1>2. CASE ~ t.ok
  BY <1>1, <1>2, AnswerSafe, LoadStates DEF HistoryAnswer
<1>3. CASE t.ok
  <2> DEFINE loaded == Ready(t.seen, t.of, BadgesNow)
             kept   == PreserveSelection(Commits(loaded))
             lost   == selected # None /\ kept = None
  <2>1. /\ selected' = kept
        /\ view' = [s \in Slot |-> IF s = "history" THEN loaded
                                   ELSE IF s = "detail" /\ lost THEN Idle
                                   ELSE view[s]]
        /\ tasks' = [s \in Slot |-> IF s = "history" THEN tasks[s] \ {t}
                                    ELSE IF s = "detail" /\ lost THEN {}
                                    ELSE tasks[s]]
    BY <1>3, Zenon DEF HistoryAnswer
  <2>2. /\ IsReady(loaded) /\ loaded # Loading /\ loaded # Idle
        /\ loaded.at = t.seen /\ loaded.of = t.of
    BY LoadStates
  <2>3. CASE ~ lost
    <3>1. selected' = selected
      BY <2>1, <2>3 DEF PreserveSelection
    <3>2. /\ view' = [view EXCEPT !["history"] = loaded]
          /\ tasks' = [tasks EXCEPT !["history"] = @ \ {t}]
      <4> HIDE DEF loaded, lost
      <4>. QED BY <2>1, <2>3 DEF IInv, TypeOK
    <3>. QED
      BY <1>1, <2>2, <3>1, <3>2, AnswerSafe
  <2>4. CASE lost
    <3> HIDE DEF loaded, kept
    <3>1. selected' = None
      BY <2>1, <2>4
    <3>2. /\ view'["history"] = loaded /\ tasks'["history"] = {}
          /\ view'["detail"] = Idle /\ tasks'["detail"] = {}
          /\ loaded.of = filter.scope /\ loaded.at >= requested["history"]
          /\ \A r \in Slot \ {"history", "detail"} :
               view'[r] = view[r] /\ tasks'[r] = tasks[r]
      BY <1>1, <2>1, <2>2, <2>4, FinishSafe
    <3>3. UNCHANGED <<disk, filter, requested>>
      BY <1>1 DEF Finish
    <3> HIDE DEF lost
    <3>4. DetailIsOfSelection' /\ HistoryIsOfFilter'
      BY <3>1, <3>2, <3>3, LoadStates DEF DetailIsOfSelection, HistoryIsOfFilter
    <3>5. LoadingHasReader' /\ AnswersLatestRequest'
      BY <2>2, <3>2, <3>3, LoadStates
      DEF IInv, LoadingHasReader, AnswersLatestRequest
    <3>6. ReadsServeCurrentState'
      BY <3>2, <3>3 DEF IInv, ReadsServeCurrentState
    <3>. QED
      BY <3>4, <3>5, <3>6 DEF IInv
  <2>. QED BY <2>3, <2>4
<1>. QED BY <1>2, <1>3

LEMMA NextSafe == IInv /\ [Next]_vars => IInv'
<1> SUFFICES ASSUME IInv, [Next]_vars PROVE IInv'
  OBVIOUS
<1>0. TypeOK'
  BY NextTyped DEF IInv
<1>1. ASSUME NEW d \in Snapshot, DiskChanges(d) PROVE IInv'
  <2>1. disk \in Seq(Snapshot) /\ Len(disk) \in Nat /\ Len(disk') = Len(disk) + 1
    BY <1>1 DEF DiskChanges, IInv, TypeOK
  <2>2. UNCHANGED <<view, tasks, filter, selected, requested>>
    BY <1>1 DEF DiskChanges
  <2>3. ReadsServeCurrentState'
    <3>1. requested \in [Slot -> Nat]
      BY DEF IInv, TypeOK, Version
    <3>. QED BY <2>1, <2>2, <3>1 DEF IInv, ReadsServeCurrentState
  <2>. QED
    BY <1>0, <2>2, <2>3 DEF IInv, DetailIsOfSelection, HistoryIsOfFilter,
                            LoadingHasReader, AnswersLatestRequest
<1>2. ASSUME NEW f \in Filter, SetFilter(f) PROVE IInv'
  <2>1. "history" \in Slot /\ disk' = disk /\ selected' = selected /\ filter' = f
    BY <1>2 DEF SetFilter, Slot
  <2>2. CASE RequiresReload(filter, f)
    <3>1. StartLoads({"history"}, f.scope)
      BY <1>2, <2>2 DEF SetFilter
    <3>. QED BY <1>0, <2>1, <3>1, StartLoadsSafe
  <2>3. CASE ~ RequiresReload(filter, f)
    <3>1. UNCHANGED <<view, tasks, requested>> /\ filter'.scope = filter.scope
      BY <1>2, <2>1, <2>3 DEF SetFilter, RequiresReload
    <3>. QED
      BY <1>0, <2>1, <3>1 DEF IInv, DetailIsOfSelection, HistoryIsOfFilter,
         LoadingHasReader, AnswersLatestRequest, ReadsServeCurrentState
  <2>. QED BY <2>2, <2>3
<1>3. ASSUME NEW c \in Commit \cup {None}, Select(c) PROVE IInv'
  <2>1. "detail" \in Slot /\ disk' = disk /\ filter' = filter /\ selected' = c
    BY <1>3 DEF Select, Slot
  <2>2. CASE c # None
    <3>1. StartLoads({"detail"}, c)
      BY <1>3, <2>2 DEF Select
    <3>. QED BY <1>0, <2>1, <2>2, <3>1, StartLoadsSafe
  <2>3. CASE c = None
    <3>1. /\ view' = [view EXCEPT !["detail"] = Idle]
          /\ tasks' = [tasks EXCEPT !["detail"] = {}]
          /\ UNCHANGED requested
      BY <1>3, <2>3 DEF Select
    <3>. QED BY <1>0, <2>1, <2>3, <3>1, DetailDropped
  <2>. QED BY <2>2, <2>3
<1>4. ASSUME NEW change \in SUBSET Aspect, Reload(change) PROVE IInv'
  <2>1. /\ StartLoads(ReloadTargets(change), filter.scope)
        /\ disk' = disk /\ filter' = filter /\ selected' = selected
    BY <1>4 DEF Reload, ReloadBody
  <2>2. ReloadTargets(change) \in SUBSET Slot /\ "detail" \notin ReloadTargets(change)
    BY DEF ReloadTargets, RepositorySlot
  <2>. QED BY <1>0, <2>1, <2>2, StartLoadsSafe
<1>5. ASSUME NEW s \in Slot, ReadDisk(s) PROVE IInv'
  <2> USE DEF IInv
  <2>1. PICK t \in tasks[s], ok \in BOOLEAN :
          tasks' = [tasks EXCEPT ![s] = (@ \ {t}) \cup
                      {[of |-> t.of, seen |-> Len(disk), ok |-> ok]}]
    BY <1>5 DEF ReadDisk, Answers
  <2> DEFINE u == [of |-> t.of, seen |-> Len(disk), ok |-> ok]
  <2>2. tasks[s] = {t}
    BY <2>1 DEF ReadsServeCurrentState
  <2>3. /\ tasks'[s] = {u}
        /\ \A r \in Slot \ {s} : tasks'[r] = tasks[r]
    BY <2>1, <2>2 DEF TypeOK
  <2>4. u.of = t.of /\ u.seen = Len(disk)
    OBVIOUS
  <2>5. UNCHANGED <<disk, view, filter, selected, requested>>
    BY <1>5 DEF ReadDisk
  <2>6. requested[s] <= Len(disk) /\ Len(disk) \in Nat /\ requested[s] \in Nat
    BY DEF TypeOK, Version, ReadsServeCurrentState
  <2> HIDE DEF u
  <2>7. LoadingHasReader'
    BY <2>1, <2>3, <2>5 DEF LoadingHasReader
  <2>8. ReadsServeCurrentState'
    BY <2>1, <2>3, <2>4, <2>5, <2>6 DEF ReadsServeCurrentState
  <2>. QED
    BY <1>0, <2>5, <2>7, <2>8 DEF DetailIsOfSelection, HistoryIsOfFilter,
                                  AnswersLatestRequest
<1>6. ASSUME NEW s \in {"head", "references"}, ApplySimple(s) PROVE IInv'
  <2>1. s \in Slot /\ s # "detail" /\ s # "history"
    BY DEF Slot
  <2>2. PICK t \in tasks[s] :
          /\ Finish(s, t)
          /\ view' = [view EXCEPT ![s] = IF t.ok THEN Ready(t.seen, None, 0) ELSE Failed]
          /\ tasks' = [tasks EXCEPT ![s] = @ \ {t}]
    BY <1>6 DEF ApplySimple
  <2>3. selected' = selected
    BY <1>6 DEF ApplySimple
  <2> DEFINE v == IF t.ok THEN Ready(t.seen, None, 0) ELSE Failed
  <2>4. v # Idle /\ v # Loading /\ (IsReady(v) => v.at = t.seen)
    BY LoadStates
  <2>5. view' = [view EXCEPT ![s] = v]
    BY <2>2
  <2> HIDE DEF v
  <2>. QED BY <1>0, <2>1, <2>2, <2>3, <2>4, <2>5, AnswerSafe
<1>7. CASE ApplyHistory
  BY <1>0, <1>7, HistoryAnswerSafe DEF ApplyHistory
<1>8. CASE ApplyDetail
  <2>1. PICK t \in tasks["detail"] :
          /\ Finish("detail", t)
          /\ tasks' = [tasks EXCEPT !["detail"] = @ \ {t}]
          /\ selected = t.of => view' = [view EXCEPT !["detail"] =
                                 IF t.ok THEN Ready(t.seen, t.of, 0) ELSE Failed]
    BY <1>8 DEF ApplyDetail
  <2>2. "detail" \in Slot /\ selected' = selected
    BY <1>8 DEF ApplyDetail, Slot
  <2>3. selected = t.of
    BY <2>1, <2>2, FinishSafe
  <2>4. selected # None
    BY <2>1, <2>2, LoadStates
    DEF IInv, DetailIsOfSelection, LoadingHasReader
  <2> DEFINE v == IF t.ok THEN Ready(t.seen, t.of, 0) ELSE Failed
  <2>5. v # Idle /\ v # Loading /\ (IsReady(v) => v.at = t.seen /\ v.of = t.of)
    BY LoadStates
  <2>6. view' = [view EXCEPT !["detail"] = v]
    BY <2>1, <2>3
  <2> HIDE DEF v
  <2>. QED BY <1>0, <2>1, <2>2, <2>4, <2>5, <2>6, AnswerSafe
<1>9. CASE UNCHANGED vars
  BY <1>0, <1>9 DEF vars, IInv, DetailIsOfSelection, HistoryIsOfFilter,
         LoadingHasReader, AnswersLatestRequest, ReadsServeCurrentState
<1>. QED
  BY <1>1, <1>2, <1>3, <1>4, <1>5, <1>6, <1>7, <1>8, <1>9, Zenon DEF Next, Apply

(* The strengthening is an invariant of the specification. *)
THEOREM Safety == Spec => []IInv
<1>1. Init => IInv
  BY InitSafe
<1>2. IInv /\ [Next]_vars => IInv'
  BY NextSafe
<1>. QED
  BY <1>1, <1>2, PTL DEF Spec

(* The detail shown is always the selected commit's, whatever the order of
   clicks, reloads and late answers (select, apply_history, apply_detail). *)
THEOREM DetailAlwaysOfSelection == Spec => []DetailIsOfSelection
<1>1. IInv => DetailIsOfSelection
  BY DEF IInv
<1>. QED
  BY <1>1, Safety, PTL

(* The history shown was always walked for the filter's present scope
   (set_filter, reload_history, apply_history). *)
THEOREM HistoryAlwaysOfFilter == Spec => []HistoryIsOfFilter
<1>1. IInv => HistoryIsOfFilter
  BY DEF IInv
<1>. QED
  BY <1>1, Safety, PTL

(* The read kept alive is the only one of its slot and serves the question
   asked now: what start_detail_load and reload_history do by overwriting. *)
THEOREM ReadsAlwaysCurrent == Spec => []ReadsServeCurrentState
<1>1. IInv => ReadsServeCurrentState
  BY DEF IInv
<1>. QED
  BY <1>1, Safety, PTL

(* A slot says Loading exactly while a read that answers it is alive. *)
THEOREM LoadingAlwaysHasReader == Spec => []LoadingHasReader
<1>1. IInv => LoadingHasReader
  BY DEF IInv
<1>. QED
  BY <1>1, Safety, PTL

(* "A later call always wins" (reload_head and its siblings): what a slot
   shows was read no earlier than the slot was last asked for. *)
THEOREM LaterCallAlwaysWins == Spec => []AnswersLatestRequest
<1>1. IInv => AnswersLatestRequest
  BY DEF IInv
<1>. QED
  BY <1>1, Safety, PTL

(* No step drops or reloads the detail of a commit that stays selected. *)
THEOREM DetailNeverReread == Spec => DetailSurvivesReload
<1> DEFINE A == IsReady(view["detail"]) /\ selected' = selected
                  => view'["detail"] = view["detail"]
<1>1. IInv /\ [Next]_vars => [A]_vars
  <2> SUFFICES ASSUME IInv, Next, IsReady(view["detail"]), selected' = selected
               PROVE  view'["detail"] = view["detail"]
    OBVIOUS
  <2>0. /\ "detail" \in Slot /\ view \in [Slot -> LoadState]
        /\ tasks["detail"] = {} /\ selected # None
    BY LoadStates DEF IInv, TypeOK, Slot, LoadingHasReader, DetailIsOfSelection
  <2>1. ASSUME NEW d \in Snapshot, DiskChanges(d)
        PROVE  view'["detail"] = view["detail"]
    BY <2>1 DEF DiskChanges
  <2>2. ASSUME NEW f \in Filter, SetFilter(f) PROVE view'["detail"] = view["detail"]
    BY <2>0, <2>2 DEF SetFilter, StartLoads
  <2>3. ASSUME NEW c \in Commit \cup {None}, Select(c) PROVE FALSE
    BY <2>3 DEF Select
  <2>4. ASSUME NEW change \in SUBSET Aspect, Reload(change)
        PROVE  view'["detail"] = view["detail"]
    <3>1. "detail" \notin ReloadTargets(change)
      BY DEF ReloadTargets, RepositorySlot
    <3>. QED BY <2>0, <2>4, <3>1 DEF Reload, ReloadBody, StartLoads
  <2>5. ASSUME NEW s \in Slot, ReadDisk(s) PROVE view'["detail"] = view["detail"]
    BY <2>5 DEF ReadDisk
  <2>6. ASSUME NEW s \in {"head", "references"}, ApplySimple(s)
        PROVE  view'["detail"] = view["detail"]
    BY <2>0, <2>6 DEF ApplySimple
  <2>7. CASE ApplyHistory
    <3> PICK t \in tasks["history"] : HistoryAnswer(t)
      BY <2>7 DEF ApplyHistory
    <3>1. CASE ~ t.ok
      BY <2>0, <3>1 DEF HistoryAnswer
    <3>2. CASE t.ok
      <4> DEFINE loaded == Ready(t.seen, t.of, BadgesNow)
                 kept   == PreserveSelection(Commits(loaded))
                 lost   == selected # None /\ kept = None
      <4>1. /\ selected' = kept
            /\ view'["detail"] = IF lost THEN Idle ELSE view["detail"]
        BY <2>0, <3>2 DEF HistoryAnswer
      <4>2. ~ lost
        BY <4>1
      <4>. QED BY <4>1, <4>2
    <3>. QED BY <3>1, <3>2
  <2>8. CASE ApplyDetail
    BY <2>0, <2>8 DEF ApplyDetail
  <2>. QED
    BY <2>1, <2>2, <2>3, <2>4, <2>5, <2>6, <2>7, <2>8, Zenon DEF Next, Apply
<1>. QED
  BY <1>1, Safety, PTL DEF Spec, DetailSurvivesReload
=============================================================================
