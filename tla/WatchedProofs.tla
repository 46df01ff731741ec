--------------------------- MODULE WatchedProofs ---------------------------
(***************************************************************************)
(* Proofs about WatchedRepository: the watch and the reads together keep a *)
(* window up to date, for any repository, any set of files the watch       *)
(* covers and any interleaving of the threads.                             *)
(***************************************************************************)
EXTENDS WatchedRepository, RepositoryStateProofs

(* The files git keeps HEAD and the references in, as the watch names them. *)
Telling == {"Head", "References"}
RefFiles == {c \in Child : Watch!ClassifyGitDirPath(NameOf[c]) \cap Telling # {}}

(* They lie in the Git directory the watch is set up on, which those of a
   linked worktree do not. *)
RefFilesAreInGitDir == \A c \in RefFiles : RootOf[c] = "gitDir" /\ c \notin Excluded

----------------------------------------------------------------------------
(* The inductive invariant *)

(* What the hops hold. *)
HopsTyped ==
  /\ window \in Watch!Batch /\ raw \in Seq(Watch!Batch)
  /\ channel \in Seq(SUBSET Aspect)
  /\ mailbox \in [pending : SUBSET Aspect, disconnected : BOOLEAN]

(* Nothing ends while the window is open and the set-up has not failed. *)
NothingEnds ==
  /\ alive /\ receiver # "ended" /\ setup # "dropped"
  /\ setup # "failed" => debouncer = "on"

Covering == setup \in {"returned", "live"}

(* When the set-up returns, the Git directory and every entry listed in it
   are subscribed to. *)
SubscriptionsCover ==
  /\ exists = Present
  /\ setup \in {"rootsWatched", "treeListed", "gitDirListed"} \/ Covering
       => "gitDir" \in watched
  /\ setup = "gitDirListed" \/ Covering =>
       \A c \in exists : RootOf[c] = "gitDir" /\ c \notin Excluded
                           => c \in watched \cup toWatch
  /\ Covering => toWatch = {} /\ coveredFrom \in 1 .. Len(disk)
  /\ ~ Covering => coveredFrom = 0

(* A change of the disk that was covered is on its way, or every slot was
   asked again after it. *)
RequestsCatchUp ==
  Covering /\ Len(disk) > coveredFrom =>
    \/ Watch!Owed \cap Telling # {}
    \/ \A s \in RepositorySlot : requested[s] = Len(disk)

(* What was read, or is shown, was on disk. *)
ReadsAreOfThePast ==
  \A s \in Slot : /\ IsReady(view[s]) => view[s].at <= Len(disk)
                  /\ \A t \in tasks[s] : t.seen <= Len(disk)

WatchedInv ==
  /\ IInv /\ HopsTyped /\ NothingEnds /\ SubscriptionsCover /\ RequestsCatchUp
  /\ ReadsAreOfThePast

----------------------------------------------------------------------------
(* The state of the repository, as it is driven by the watch *)

(* A reload the watch asks for keeps the invariant of RepositoryState, though
   it is none of the bounded calls counted there. *)
LEMMA ReloadSafe ==
  ASSUME IInv, NEW change, ReloadBody(change), calls' = calls
  PROVE  IInv'
<1>1. ReloadTargets(change) \in SUBSET Slot /\ "detail" \notin ReloadTargets(change)
  BY DEF ReloadTargets, RepositorySlot
<1>2. /\ StartLoads(ReloadTargets(change), filter.scope)
      /\ events' = {} /\ UNCHANGED <<disk, filter, selected>>
  BY DEF ReloadBody
<1>3. filter.scope \in Argument
  BY DEF IInv, TypeOK, Filter, Argument
<1>4. TypeOK'
  <2>1. /\ view' \in [Slot -> LoadState] /\ tasks' \in [Slot -> SUBSET Task]
        /\ requested' \in [Slot -> Version]
    BY <1>1, <1>2, <1>3, StartLoadsTyped DEF IInv
  <2>. QED BY <1>2, <2>1 DEF IInv, TypeOK
<1>. QED BY <1>1, <1>2, <1>4, StartLoadsSafe

(* What a step of the composition is to the state of the repository. *)
LEMMA StateSteps ==
  ASSUME [WatchedNext]_everything
  PROVE  \/ /\ Watch!Poll /\ told' # {} /\ ReloadBody(told') /\ UNCHANGED calls
         \/ \E d \in Snapshot : DiskChanges(d)
         \/ (\E s \in Slot : ReadDisk(s)) \/ Apply
         \/ UNCHANGED vars
BY DEF WatchedNext, GitWrites, PollAndReload, SetUp, Relay, Read, everything

LEMMA StateKept ==
  ASSUME IInv, [WatchedNext]_everything
  PROVE  IInv'
<1>1. CASE ReloadBody(told') /\ UNCHANGED calls
  BY <1>1, ReloadSafe
<1>2. CASE [Next]_vars
  BY <1>2, NextSafe
<1>. QED BY <1>1, <1>2, StateSteps DEF Next

LEMMA PastKept ==
  ASSUME IInv, ReadsAreOfThePast, [WatchedNext]_everything
  PROVE  ReadsAreOfThePast' /\ Len(disk) <= Len(disk')
<1>. USE DEF IInv, TypeOK
<1>0. IInv'
  BY StateKept
<1>1. /\ Len(disk) \in Nat /\ Len(disk') \in Nat
      /\ \A s \in Slot : /\ \A t \in tasks[s] : t.seen \in Nat
                         /\ IsReady(view[s]) => view[s].at \in Nat
  <2>1. Len(disk) \in Nat /\ Len(disk') \in Nat
    BY <1>0 DEF Version
  <2>2. \A s \in Slot : \A t \in tasks[s] : t \in Task
    OBVIOUS
  <2>3. \A t \in Task : t.seen \in Nat
    BY ConstantsAssumption DEF Task
  <2>4. \A v \in LoadState : IsReady(v) => v.at \in Nat
    BY DEF LoadState, IsReady, Version
  <2>5. \A s \in Slot : view[s] \in LoadState
    OBVIOUS
  <2>. QED BY <2>1, <2>2, <2>3, <2>4, <2>5
<1>2. SUFFICES /\ Len(disk) <= Len(disk')
               /\ \A s \in Slot :
                    /\ \/ view'[s] = view[s] \/ ~ IsReady(view'[s])
                       \/ \E t \in tasks[s] : view'[s].at = t.seen
                    /\ \A t \in tasks'[s] : t \in tasks[s] \/ t.seen = 0 \/ t.seen = Len(disk)
  BY <1>1 DEF ReadsAreOfThePast
<1>3. CASE ReloadBody(told')
  <2>1. /\ disk' = disk
        /\ StartLoads(ReloadTargets(told'), filter.scope)
    BY <1>3 DEF ReloadBody
  <2>2. \A of : NewTask(of).seen = 0
    BY DEF NewTask
  <2>3. \A s \in Slot : view'[s] = view[s] \/ view'[s] = Loading
    BY <2>1 DEF StartLoads
  <2>4. \A s \in Slot : tasks'[s] = tasks[s] \/ \E of : tasks'[s] = {NewTask(of)}
    BY <2>1 DEF StartLoads
  <2>. QED BY <1>1, <2>1, <2>2, <2>3, <2>4, LoadStates
<1>4. ASSUME NEW d \in Snapshot, DiskChanges(d) PROVE Len(disk') = Len(disk) + 1 /\ UNCHANGED <<view, tasks>>
  BY <1>4 DEF DiskChanges
<1>5. ASSUME NEW r \in Slot, ReadDisk(r)
      PROVE  /\ UNCHANGED <<view, disk>>
             /\ \A s \in Slot : \A t \in tasks'[s] : t \in tasks[s] \/ t.seen = Len(disk)
  <2>1. PICK u \in tasks[r], ok \in BOOLEAN :
          tasks' = [tasks EXCEPT ![r] = (@ \ {u}) \cup {[of |-> u.of, seen |-> Len(disk), ok |-> ok]}]
    BY <1>5 DEF ReadDisk, Answers
  <2>2. \A s \in Slot : s # r => tasks'[s] = tasks[s]
    BY <2>1
  <2>3. tasks'[r] = (tasks[r] \ {u}) \cup {[of |-> u.of, seen |-> Len(disk), ok |-> ok]}
    BY <2>1
  <2>. QED BY <1>5, <2>2, <2>3 DEF ReadDisk
<1>6. CASE Apply
  <2>1. ASSUME NEW r \in {"head", "references"}, ApplySimple(r)
        PROVE  /\ disk' = disk
               /\ \A s \in Slot : /\ tasks'[s] \subseteq tasks[s]
                                  /\ \/ view'[s] = view[s] \/ ~ IsReady(view'[s])
                                     \/ \E t \in tasks[s] : view'[s].at = t.seen
    <3>1. PICK t \in tasks[r] :
            /\ disk' = disk
            /\ view' = [view EXCEPT ![r] = IF t.ok THEN Ready(t.seen, None, 0) ELSE Failed]
            /\ tasks' = [tasks EXCEPT ![r] = @ \ {t}]
      BY <2>1 DEF ApplySimple, Finish
    <3>2. r \in Slot
      BY DEF Slot
    <3>3. view'[r] = Failed \/ view'[r] = Ready(t.seen, None, 0)
      BY <3>1, <3>2
    <3>4. \A s \in Slot : s # r => view'[s] = view[s]
      BY <3>1
    <3>5. \A s \in Slot : tasks'[s] \subseteq tasks[s]
      BY <3>1, <3>2
    <3>. QED BY <3>1, <3>3, <3>4, <3>5, LoadStates
  <2>2. ASSUME NEW t \in tasks["history"], HistoryAnswer(t)
        PROVE  /\ disk' = disk
               /\ \A s \in Slot : /\ tasks'[s] \subseteq tasks[s]
                                  /\ \/ view'[s] = view[s] \/ ~ IsReady(view'[s])
                                     \/ \E u \in tasks[s] : view'[s].at = u.seen
    <3>1. disk' = disk
      BY <2>2 DEF HistoryAnswer, Finish
    <3>2. CASE t.ok
      <4>1. \A s \in Slot : tasks'[s] \subseteq tasks[s]
        BY <2>2, <3>2 DEF HistoryAnswer
      <4>2. \A s \in Slot : \/ view'[s] = view[s] \/ view'[s] = Idle
                            \/ s = "history" /\ view'[s] = Ready(t.seen, t.of, BadgesNow)
        BY <2>2, <3>2 DEF HistoryAnswer
      <4>. QED BY <3>1, <4>1, <4>2, LoadStates
    <3>3. CASE ~ t.ok
      <4>1. /\ view' = [view EXCEPT !["history"] = Failed]
            /\ tasks' = [tasks EXCEPT !["history"] = @ \ {t}]
        BY <2>2, <3>3 DEF HistoryAnswer
      <4>. QED BY <3>1, <4>1, LoadStates DEF Slot
    <3>. QED BY <3>2, <3>3
  <2>3. ASSUME ApplyDetail
        PROVE  /\ disk' = disk
               /\ \A s \in Slot : /\ tasks'[s] \subseteq tasks[s]
                                  /\ \/ view'[s] = view[s] \/ ~ IsReady(view'[s])
                                     \/ \E t \in tasks[s] : view'[s].at = t.seen
    <3>1. PICK t \in tasks["detail"] :
            /\ disk' = disk /\ tasks' = [tasks EXCEPT !["detail"] = @ \ {t}]
            /\ \/ view' = [view EXCEPT !["detail"] = IF t.ok THEN Ready(t.seen, t.of, 0) ELSE Failed]
               \/ view' = view
      BY <2>3 DEF ApplyDetail, Finish
    <3>2. "detail" \in Slot
      BY DEF Slot
    <3>3. \A s \in Slot : tasks'[s] \subseteq tasks[s]
      BY <3>1, <3>2
    <3>4. \A s \in Slot : \/ view'[s] = view[s]
                          \/ s = "detail" /\ (view'[s] = Failed \/ view'[s] = Ready(t.seen, t.of, 0))
      BY <3>1, <3>2
    <3>. QED BY <3>1, <3>3, <3>4, LoadStates
  <2>. QED BY <1>1, <1>6, <2>1, <2>2, <2>3 DEF Apply, ApplyHistory
<1>7. CASE UNCHANGED vars
  BY <1>1, <1>7 DEF vars
<1>. QED BY <1>1, <1>3, <1>4, <1>5, <1>6, <1>7, StateSteps

----------------------------------------------------------------------------
(* The hops of the watch *)

LEMMA Appended ==
  ASSUME NEW S, NEW s \in Seq(S), NEW x \in S
  PROVE  Append(s, x) \in Seq(S) /\ Watch!ElementsOf(Append(s, x)) = Watch!ElementsOf(s) \cup {x}
<1>1. /\ DOMAIN Append(s, x) = DOMAIN s \cup {Len(s) + 1}
      /\ Append(s, x)[Len(s) + 1] = x /\ Append(s, x) \in Seq(S)
      /\ \A i \in DOMAIN s : Append(s, x)[i] = s[i]
  OBVIOUS
<1>. QED BY <1>1 DEF Watch!ElementsOf

LEMMA Taken ==
  ASSUME NEW S, NEW s \in Seq(S), s # <<>>
  PROVE  /\ Head(s) \in S /\ Tail(s) \in Seq(S)
         /\ Watch!ElementsOf(s) = {Head(s)} \cup Watch!ElementsOf(Tail(s))
<1>1. /\ Head(s) \in S /\ Tail(s) \in Seq(S) /\ Len(s) \in Nat \ {0} /\ Head(s) = s[1]
      /\ DOMAIN s = 1 .. Len(s) /\ DOMAIN Tail(s) = 1 .. (Len(s) - 1)
      /\ \A i \in 1 .. (Len(s) - 1) : Tail(s)[i] = s[i + 1]
  OBVIOUS
<1>2. \A i \in DOMAIN s : i = 1 \/ (i - 1 \in DOMAIN Tail(s) /\ Tail(s)[i - 1] = s[i])
  BY <1>1
<1>3. \A i \in DOMAIN Tail(s) : i + 1 \in DOMAIN s /\ Tail(s)[i] = s[i + 1]
  BY <1>1
<1>4. \A i \in DOMAIN s : s[i] \in {Head(s)} \cup Watch!ElementsOf(Tail(s))
  BY <1>1, <1>2 DEF Watch!ElementsOf
<1>5. \A i \in DOMAIN Tail(s) : Tail(s)[i] \in Watch!ElementsOf(s)
  BY <1>3 DEF Watch!ElementsOf
<1>6. Head(s) \in Watch!ElementsOf(s)
  BY <1>1 DEF Watch!ElementsOf
<1>. QED BY <1>1, <1>4, <1>5, <1>6 DEF Watch!ElementsOf

LEMMA ChangesAreAspects ==
  ASSUME NEW b \in Watch!Batch
  PROVE  Watch!ChangeFromBatch(b) \subseteq Aspect
<1>1. \A name : Watch!ClassifyGitDirPath(name) \subseteq Aspect
  BY DEF Watch!ClassifyGitDirPath, Aspect
<1>2. ASSUME NEW c \in Child PROVE Watch!AspectOf[c] \subseteq Aspect
  <2>1. RootOf[c] = "gitDir" \/ RootOf[c] = "workingTree" \/ RootOf[c] = Watch!Elsewhere
    BY WatchedAssumption DEF Watch!Root
  <2>2. Watch!Elsewhere # "gitDir" /\ Watch!Elsewhere # "workingTree"
    BY DEF Watch!Elsewhere
  <2>. QED BY <1>1, <2>1, <2>2 DEF Watch!AspectOf, Aspect
<1>. QED BY <1>2 DEF Watch!ChangeFromBatch, Watch!Batch, Watch!Aspect, Aspect

(* A touched child joins the window, with its aspects. *)
LEMMA Touched ==
  ASSUME NEW w \in Watch!Batch, NEW c \in Child
  PROVE  LET grown == [w EXCEPT !.paths = @ \cup {c}] IN
         /\ grown \in Watch!Batch
         /\ Watch!ChangeFromBatch(w) \subseteq Watch!ChangeFromBatch(grown)
         /\ Watch!AspectOf[c] \subseteq Watch!ChangeFromBatch(grown)
<1>. DEFINE grown == [w EXCEPT !.paths = @ \cup {c}]
<1>1. grown \in Watch!Batch /\ grown.paths = w.paths \cup {c} /\ grown.rescan = w.rescan
  BY DEF Watch!Batch
<1>. HIDE DEF grown
<1>2. CASE w.rescan
  <2>1. Watch!ChangeFromBatch(grown) = Aspect /\ Watch!ChangeFromBatch(w) = Aspect
    BY <1>1, <1>2, Zenon DEF Watch!ChangeFromBatch, Watch!Aspect, Aspect
  <2>2. Watch!ChangeFromBatch([paths |-> {c}, rescan |-> FALSE]) = Watch!AspectOf[c]
    BY DEF Watch!ChangeFromBatch
  <2>3. [paths |-> {c}, rescan |-> FALSE] \in Watch!Batch
    BY DEF Watch!Batch
  <2>. QED BY <1>1, <2>1, <2>2, <2>3, ChangesAreAspects DEF grown
<1>3. CASE ~ w.rescan
  <2>1. Watch!ChangeFromBatch(grown) = UNION {Watch!AspectOf[d] : d \in w.paths \cup {c}}
    BY <1>1, <1>3, Zenon DEF Watch!ChangeFromBatch
  <2>2. Watch!ChangeFromBatch(w) = UNION {Watch!AspectOf[d] : d \in w.paths}
    BY <1>3, Zenon DEF Watch!ChangeFromBatch
  <2>. QED BY <1>1, <2>1, <2>2 DEF grown
<1>. QED BY <1>2, <1>3

(* What the hops hold while the window is open. *)
Carried ==
  Watch!ChangeFromBatch(window)
    \cup (UNION {Watch!ChangeFromBatch(b) : b \in Watch!ElementsOf(raw)})
    \cup (UNION Watch!ElementsOf(channel))
    \cup mailbox.pending

LEMMA OwedIsCarried == alive /\ setup # "failed" => Watch!Owed = Carried
BY Zenon DEF Watch!Owed, Carried

(* A step that is neither a poll nor a write hands on what it takes from a
   hop. *)
Working ==
  SetUp \/ Relay(Watch!Flush) \/ Relay(Watch!DebouncerExits) \/ Relay(Watch!PumpLists)
  \/ Relay(Watch!PumpBatch) \/ Relay(Watch!Receive) \/ Relay(Watch!Adopt)
  \/ Relay(Watch!ReportFailure)

LEMMA WorkingHandsOn ==
  ASSUME HopsTyped, NothingEnds, Working
  PROVE  /\ HopsTyped' /\ NothingEnds' /\ exists' = exists
         /\ setup # "failed" => Carried \subseteq Carried'
<1>. USE DEF HopsTyped, NothingEnds, Watch!Leaves, Watch!delivery, Watch!files, Watch!others,
             Watch!watcher
<1>0. Watch!NoEvents \in Watch!Batch /\ Watch!ChangeFromBatch(Watch!NoEvents) = {}
  <2>1. /\ Watch!NoEvents \in Watch!Batch /\ Watch!NoEvents.paths = {}
        /\ Watch!NoEvents.rescan = FALSE
    BY DEF Watch!NoEvents, Watch!Batch
  <2>. QED BY <2>1 DEF Watch!ChangeFromBatch
<1>1. CASE SetUp
  <2>1. /\ UNCHANGED <<exists, window, raw, channel, mailbox, receiver, alive>>
        /\ setup' # "dropped" /\ setup # "failed"
    BY <1>1 DEF SetUp, Watch!Setup, Watch!SetupStep, Watch!Resolve, Watch!WatchRoot, Watch!ListRoot,
                Watch!RegisterChild, Watch!SpawnPump, Watch!SetupFails
  <2>2. setup' = "failed" \/ debouncer' = debouncer
    BY <1>1 DEF SetUp, Watch!Setup, Watch!SetupStep, Watch!Resolve, Watch!WatchRoot, Watch!ListRoot,
                Watch!RegisterChild, Watch!SpawnPump, Watch!SetupFails
  <2>. QED BY <2>1, <2>2 DEF Carried, Watch!ElementsOf
<1>2. CASE Relay(Watch!Flush)
  <2>1. /\ raw' = Append(raw, window) /\ window' = Watch!NoEvents
        /\ UNCHANGED <<exists, setup, debouncer, receiver, alive, channel, mailbox>>
    BY <1>2 DEF Relay, Watch!Flush
  <2>2. raw' \in Seq(Watch!Batch) /\ Watch!ElementsOf(raw)' = Watch!ElementsOf(raw) \cup {window}
    BY <2>1, Appended DEF Watch!ElementsOf
  <2>3. Watch!ElementsOf(channel)' = Watch!ElementsOf(channel)
    BY <2>1 DEF Watch!ElementsOf
  <2>4. Carried \subseteq Carried'
    BY <1>0, <2>1, <2>2, <2>3 DEF Carried
  <2>. QED BY <1>0, <2>1, <2>2, <2>4
<1>3. CASE Relay(Watch!DebouncerExits)
  <2>1. /\ setup = "failed" /\ window' = Watch!NoEvents
        /\ UNCHANGED <<exists, setup, receiver, alive, raw, channel, mailbox>>
    BY <1>3 DEF Relay, Watch!DebouncerExits
  <2>. QED BY <1>0, <2>1
<1>4. CASE Relay(Watch!PumpLists)
  <2>1. UNCHANGED <<exists, setup, debouncer, receiver, alive, window, raw, channel, mailbox>>
    BY <1>4 DEF Relay, Watch!PumpLists
  <2>. QED BY <2>1 DEF Carried, Watch!ElementsOf
<1>5. CASE Relay(Watch!PumpBatch)
  <2>. DEFINE change == Watch!ChangeFromBatch(Head(raw))
  <2>1. /\ raw # <<>> /\ raw' = Tail(raw) /\ Watch!SendChange(change)
        /\ UNCHANGED <<exists, setup, debouncer, receiver, alive, window, mailbox>>
    BY <1>5 DEF Relay, Watch!PumpBatch
  <2>2. /\ Head(raw) \in Watch!Batch /\ Tail(raw) \in Seq(Watch!Batch)
        /\ Watch!ElementsOf(raw) = {Head(raw)} \cup Watch!ElementsOf(Tail(raw))
    BY <2>1, Taken
  <2>3. change \in SUBSET Aspect
    BY <2>2, ChangesAreAspects
  <2>. HIDE DEF change
  <2>4. channel' = IF change # {} THEN Append(channel, change) ELSE channel
    BY <2>1 DEF Watch!SendChange
  <2>5. /\ channel' \in Seq(SUBSET Aspect)
        /\ (UNION Watch!ElementsOf(channel)) \cup change \subseteq UNION Watch!ElementsOf(channel')
    <3>1. CASE change = {}
      BY <2>4, <3>1
    <3>2. CASE change # {}
      <4>1. channel' = Append(channel, change)
        BY <2>4, <3>2
      <4>. QED BY <2>3, <4>1, Appended
    <3>. QED BY <3>1, <3>2
  <2>6. UNION {Watch!ChangeFromBatch(b) : b \in Watch!ElementsOf(raw)}
          \subseteq change \cup UNION {Watch!ChangeFromBatch(b) : b \in Watch!ElementsOf(Tail(raw))}
    BY <2>2 DEF change
  <2>7. /\ Watch!ElementsOf(raw)' = Watch!ElementsOf(Tail(raw))
        /\ Watch!ElementsOf(channel)' = Watch!ElementsOf(channel')
    BY <2>1 DEF Watch!ElementsOf
  <2>8. Carried \subseteq Carried'
    BY <2>1, <2>5, <2>6, <2>7 DEF Carried
  <2>. QED BY <2>1, <2>2, <2>5, <2>8
<1>6. CASE Relay(Watch!Receive)
  <2>1. /\ channel # <<>> /\ channel' = Tail(channel)
        /\ mailbox' = [mailbox EXCEPT !.pending = @ \cup Head(channel)]
        /\ UNCHANGED <<exists, setup, debouncer, receiver, alive, window, raw>>
    BY <1>6 DEF Relay, Watch!Receive, Watch!Merge
  <2>2. /\ Head(channel) \in SUBSET Aspect /\ Tail(channel) \in Seq(SUBSET Aspect)
        /\ Watch!ElementsOf(channel) = {Head(channel)} \cup Watch!ElementsOf(Tail(channel))
    BY <2>1, Taken
  <2>3. mailbox'.pending = mailbox.pending \cup Head(channel)
        /\ mailbox' \in [pending : SUBSET Aspect, disconnected : BOOLEAN]
    BY <2>1, <2>2
  <2>4. /\ Watch!ElementsOf(channel)' = Watch!ElementsOf(Tail(channel))
        /\ Watch!ElementsOf(raw)' = Watch!ElementsOf(raw)
    BY <2>1 DEF Watch!ElementsOf
  <2>5. Carried \subseteq Carried'
    BY <2>1, <2>2, <2>3, <2>4 DEF Carried
  <2>. QED BY <2>1, <2>2, <2>3, <2>5
<1>7. CASE Relay(Watch!Adopt)
  <2>1. /\ UNCHANGED <<exists, debouncer, alive, window, raw, channel, mailbox>>
        /\ setup = "returned" /\ setup' = "live" /\ receiver' = "running"
    BY <1>7 DEF Relay, Watch!Adopt
  <2>. QED BY <2>1 DEF Carried, Watch!ElementsOf
<1>8. CASE Relay(Watch!ReportFailure)
  <2>1. UNCHANGED <<exists, setup, debouncer, receiver, alive, window, raw, channel, mailbox>>
    BY <1>8 DEF Relay, Watch!ReportFailure
  <2>. QED BY <2>1 DEF Carried, Watch!ElementsOf
<1>. QED BY <1>1, <1>2, <1>3, <1>4, <1>5, <1>6, <1>7, <1>8 DEF Working

(* A write is held by the window when a subscription covers it. *)
LEMMA WriteIsHeld ==
  ASSUME HopsTyped, NothingEnds, NEW c \in Child, GitWrites(c)
  PROVE  /\ HopsTyped' /\ NothingEnds' /\ Carried \subseteq Carried'
         /\ UNCHANGED <<exists, setup, toWatch, watched, coveredFrom>>
         /\ c \in exists /\ (c \in watched => Watch!AspectOf[c] \subseteq Carried')
<1>. USE DEF HopsTyped, NothingEnds
<1>. DEFINE covered == c \in watched \/ (c \notin Directory /\ RootOf[c] \in watched)
<1>1. /\ c \in exists /\ UNCHANGED <<exists, setup, toWatch, watched, coveredFrom>>
      /\ UNCHANGED <<raw, channel, mailbox, receiver, alive, debouncer>>
      /\ window' = IF covered THEN [window EXCEPT !.paths = @ \cup {c}] ELSE window
  BY DEF GitWrites, Watch!Write, Watch!Observe, Watch!Leaves, Watch!watcher, Watch!others
<1>2. /\ window' \in Watch!Batch
      /\ Watch!ChangeFromBatch(window) \subseteq Watch!ChangeFromBatch(window')
      /\ c \in watched => Watch!AspectOf[c] \subseteq Watch!ChangeFromBatch(window')
  BY <1>1, Touched
<1>3. Watch!ElementsOf(raw)' = Watch!ElementsOf(raw)
      /\ Watch!ElementsOf(channel)' = Watch!ElementsOf(channel)
  BY <1>1 DEF Watch!ElementsOf
<1>. HIDE DEF covered
<1>4. Carried \subseteq Carried' /\ Watch!ChangeFromBatch(window') \subseteq Carried'
  BY <1>1, <1>2, <1>3 DEF Carried
<1>. QED BY <1>1, <1>2, <1>4

(* A poll takes the mailbox, and nothing else, off the hops. *)
LEMMA PollTakes ==
  ASSUME HopsTyped, NothingEnds, Watch!Poll
  PROVE  /\ HopsTyped' /\ NothingEnds' /\ Carried \subseteq Carried' \cup told'
         /\ UNCHANGED <<exists, setup, toWatch, watched>>
<1>. USE DEF HopsTyped, NothingEnds
<1>1. /\ told' = mailbox.pending /\ mailbox' = [mailbox EXCEPT !.pending = {}]
      /\ UNCHANGED <<exists, setup, toWatch, watched, window, raw, channel, receiver, alive, debouncer>>
  BY DEF Watch!Poll, Watch!files, Watch!watcher
<1>2. mailbox' \in [pending : SUBSET Aspect, disconnected : BOOLEAN]
  BY <1>1
<1>3. Watch!ElementsOf(raw)' = Watch!ElementsOf(raw)
      /\ Watch!ElementsOf(channel)' = Watch!ElementsOf(channel)
  BY <1>1 DEF Watch!ElementsOf
<1>4. Carried \subseteq Carried' \cup told'
  BY <1>1, <1>3 DEF Carried
<1>. QED BY <1>1, <1>2, <1>4

----------------------------------------------------------------------------
(* The steps of the composition, by what they do to the watch *)

LEMMA ReadsAskNothing == (\E s \in Slot : ReadDisk(s)) \/ Apply => UNCHANGED <<disk, requested>>
BY DEF ReadDisk, Apply, ApplySimple, ApplyHistory, HistoryAnswer, ApplyDetail, Finish

LEMMA WatchSteps ==
  ASSUME [WatchedNext]_everything
  PROVE  \/ \E c \in Child : GitWrites(c)
         \/ PollAndReload
         \/ Working /\ (SetUp \/ UNCHANGED <<vars, coveredFrom>>)
         \/ UNCHANGED <<watchVars, coveredFrom, disk, requested>>
<1>1. CASE UNCHANGED everything
  BY <1>1 DEF everything, vars
<1>2. CASE (\E s \in Slot : Read(ReadDisk(s))) \/ Read(Apply)
  BY <1>2, ReadsAskNothing DEF Read
<1>. QED BY <1>1, <1>2 DEF WatchedNext, Working, Relay

LEMMA HopsKept ==
  ASSUME HopsTyped, NothingEnds, [WatchedNext]_everything
  PROVE  HopsTyped' /\ NothingEnds'
<1>1. CASE PollAndReload
  BY <1>1, PollTakes DEF PollAndReload
<1>2. CASE UNCHANGED watchVars
  BY <1>2 DEF watchVars, HopsTyped, NothingEnds
<1>. QED BY <1>1, <1>2, WatchSteps, WriteIsHeld, WorkingHandsOn

(* The set-up ends with every entry of the Git directory subscribed to. *)
LEMMA SetUpCovers ==
  ASSUME SubscriptionsCover, Len(disk) \in Nat \ {0}, SetUp
  PROVE  SubscriptionsCover' /\ ~ Covering /\ (Covering' => coveredFrom' = Len(disk'))
<1>. USE DEF SubscriptionsCover, SetUp, Watch!Setup, Watch!SetupStep, Watch!Leaves,
             Watch!files, Covering
<1>1. exists' = exists /\ disk' = disk
  <2>1. disk' = disk
    BY DEF vars
  <2>2. exists' = exists
    BY DEF Watch!Resolve, Watch!WatchRoot, Watch!ListRoot, Watch!RegisterChild, Watch!SpawnPump,
           Watch!SetupFails
  <2>. QED BY <2>1, <2>2
<1>2. coveredFrom' = IF setup' = "returned" THEN Len(disk) ELSE coveredFrom
  OBVIOUS
<1>3. CASE Watch!Resolve
  BY <1>1, <1>2, <1>3 DEF Watch!Resolve
<1>4. CASE Watch!WatchRoot("workingTree", "resolved", "treeWatched")
  BY <1>1, <1>2, <1>4 DEF Watch!WatchRoot
<1>5. CASE Watch!WatchRoot("gitDir", "treeWatched", "rootsWatched")
  BY <1>1, <1>2, <1>5 DEF Watch!WatchRoot
<1>6. CASE Watch!ListRoot("workingTree", "rootsWatched", "treeListed")
  BY <1>1, <1>2, <1>6 DEF Watch!ListRoot
<1>7. CASE Watch!RegisterChild("treeListed")
  BY <1>1, <1>2, <1>7 DEF Watch!RegisterChild
<1>8. CASE Watch!ListRoot("gitDir", "treeListed", "gitDirListed")
  BY <1>1, <1>2, <1>8 DEF Watch!ListRoot, Watch!ChildrenOf
<1>9. CASE Watch!RegisterChild("gitDirListed")
  BY <1>1, <1>2, <1>9 DEF Watch!RegisterChild
<1>10. CASE Watch!SpawnPump
  BY <1>1, <1>2, <1>10 DEF Watch!SpawnPump
<1>11. CASE Watch!SetupFails
  BY <1>1, <1>2, <1>11 DEF Watch!SetupFails
<1>. QED BY <1>3, <1>4, <1>5, <1>6, <1>7, <1>8, <1>9, <1>10, <1>11

LEMMA SubscriptionsStay ==
  ASSUME WatchedInv, [WatchedNext]_everything
  PROVE  SubscriptionsCover'
<1>. USE DEF WatchedInv
<1>1. Len(disk) \in Nat \ {0} /\ Len(disk') \in Nat /\ Len(disk) <= Len(disk')
  <2>1. IInv'
    BY StateKept
  <2>. QED BY <2>1, PastKept DEF IInv, TypeOK, Version
<1>2. CASE SetUp
  BY <1>1, <1>2, SetUpCovers
<1>3. CASE /\ UNCHANGED <<exists, toWatch, coveredFrom>> /\ watched \subseteq watched'
           /\ setup' = setup \/ (setup = "returned" /\ setup' = "live")
  BY <1>1, <1>3 DEF SubscriptionsCover, Covering
<1>4. ASSUME NEW c \in Child, GitWrites(c) PROVE SubscriptionsCover'
  BY <1>3, <1>4, WriteIsHeld
<1>5. CASE PollAndReload
  BY <1>3, <1>5, PollTakes DEF PollAndReload
<1>6. CASE Working /\ ~ SetUp
  <2>1. CASE Relay(Watch!PumpBatch)
    BY <1>3, <2>1 DEF Relay, Watch!PumpBatch, Watch!Leaves, Watch!files
  <2>2. CASE Relay(Watch!Adopt)
    BY <1>3, <2>2 DEF Relay, Watch!Adopt, Watch!Leaves, Watch!files
  <2>. QED
    BY <1>3, <1>6, <2>1, <2>2
       DEF Working, Relay, Watch!Flush, Watch!DebouncerExits, Watch!PumpLists, Watch!Receive,
           Watch!ReportFailure, Watch!Leaves, Watch!files, Watch!watcher
<1>7. CASE UNCHANGED <<watchVars, coveredFrom>>
  BY <1>3, <1>7 DEF watchVars
<1>. QED BY <1>2, <1>4, <1>5, <1>6, <1>7, WatchSteps

----------------------------------------------------------------------------
(* No covered change is lost between the files and the reads *)

(* The files of HEAD and the references ask for a reload of every slot. *)
LEMMA RefFilesTell ==
  ASSUME RefFilesAreInGitDir, NEW c \in RefFiles
  PROVE  Watch!AspectOf[c] \cap Telling # {} /\ c \notin Excluded /\ RootOf[c] = "gitDir"
<1>1. c \in Child /\ RootOf[c] = "gitDir" /\ c \notin Excluded
      /\ Watch!ClassifyGitDirPath(NameOf[c]) \cap Telling # {}
  BY DEF RefFilesAreInGitDir, RefFiles
<1>2. Watch!Elsewhere # "gitDir"
  BY DEF Watch!Elsewhere
<1>3. Watch!AspectOf[c] = Watch!ClassifyGitDirPath(NameOf[c])
  BY <1>1, <1>2 DEF Watch!AspectOf
<1>. QED BY <1>1, <1>3

LEMMA CatchUpKept ==
  ASSUME WatchedInv, RefFilesAreInGitDir, [WatchedNext]_everything
  PROVE  RequestsCatchUp'
<1>. USE DEF WatchedInv
<1>. DEFINE asked == \A s \in RepositorySlot : requested[s] = Len(disk)
<1>0. HopsTyped' /\ NothingEnds'
  BY HopsKept
<1>1. SUFFICES ASSUME Covering', Len(disk') > coveredFrom'
               PROVE  Carried' \cap Telling # {} \/ asked'
  <2>1. Covering' => Watch!Owed' = Carried'
    <3>1. (alive /\ setup # "failed" => Watch!Owed = Carried)'
      BY OwedIsCarried, PTL
    <3>. QED BY <1>0, <3>1 DEF NothingEnds, Covering
  <2>. QED BY <2>1 DEF RequestsCatchUp
<1>2. ASSUME Covering, Len(disk) > coveredFrom PROVE Carried \cap Telling # {} \/ asked
  BY <1>2, OwedIsCarried DEF RequestsCatchUp, NothingEnds, Covering
<1>3. ASSUME Carried \subseteq Carried', UNCHANGED <<disk, requested, coveredFrom>>, Covering
      PROVE  Carried' \cap Telling # {} \/ asked'
  BY <1>1, <1>2, <1>3
<1>4. ASSUME NEW c \in Child, GitWrites(c) PROVE Carried' \cap Telling # {} \/ asked'
  <2>1. /\ Carried \subseteq Carried' /\ UNCHANGED <<exists, setup, toWatch, watched, coveredFrom>>
        /\ c \in exists /\ (c \in watched => Watch!AspectOf[c] \subseteq Carried')
    BY <1>4, WriteIsHeld
  <2>2. CASE c \in RefFiles
    <3>1. c \in watched
      BY <1>1, <2>1, <2>2, RefFilesTell DEF SubscriptionsCover, Covering
    <3>. QED BY <2>1, <2>2, <3>1, RefFilesTell
  <2>3. CASE c \notin RefFiles
    <3>1. UNCHANGED <<disk, requested>>
      BY <1>4, <2>3 DEF GitWrites, RefFiles, Telling, vars
    <3>. QED BY <1>1, <1>3, <2>1, <3>1 DEF Covering
  <2>. QED BY <2>2, <2>3
<1>5. CASE PollAndReload
  <2>1. /\ Watch!Poll /\ coveredFrom' = coveredFrom
        /\ Carried \subseteq Carried' \cup told' /\ UNCHANGED <<exists, setup, toWatch, watched>>
    BY <1>5, PollTakes DEF PollAndReload
  <2>2. CASE told' \cap Telling # {}
    <3>1. StartLoads(RepositorySlot, filter.scope) /\ disk' = disk
      BY <1>5, <2>2 DEF PollAndReload, ReloadBody, ReloadTargets, Telling
    <3>2. \A s \in RepositorySlot : requested'[s] = Len(disk)
      BY <3>1 DEF StartLoads, RepositorySlot
    <3>. QED BY <3>1, <3>2
  <2>3. CASE told' \cap Telling = {}
    <3>1. disk' = disk /\ \A s \in RepositorySlot : requested'[s] = requested[s]
      <4>1. CASE told' = {}
        BY <1>5, <4>1 DEF PollAndReload, vars
      <4>2. CASE told' # {}
        <5>1. StartLoads({}, filter.scope) /\ disk' = disk
          BY <1>5, <2>3, <4>2 DEF PollAndReload, ReloadBody, ReloadTargets, Telling
        <5>. QED BY <5>1 DEF StartLoads, RepositorySlot
      <4>. QED BY <4>1, <4>2
    <3>2. Carried \cap Telling # {} \/ asked
      BY <1>1, <1>2, <2>1, <3>1 DEF Covering
    <3>. QED BY <2>1, <2>3, <3>1, <3>2
  <2>. QED BY <2>2, <2>3
<1>6. CASE SetUp
  <2>1. Len(disk) \in Nat \ {0}
    BY DEF IInv, TypeOK, Version
  <2>2. coveredFrom' = Len(disk')
    BY <1>1, <1>6, <2>1, SetUpCovers
  <2>3. disk' = disk
    BY <1>6 DEF SetUp, vars
  <2>. QED BY <1>1, <2>1, <2>2, <2>3
<1>7. CASE Working /\ UNCHANGED <<vars, coveredFrom>> /\ ~ SetUp
  <2>1. setup' = setup \/ (setup = "returned" /\ setup' = "live")
    BY <1>7 DEF Working, Relay, Watch!Flush, Watch!DebouncerExits, Watch!PumpLists,
                Watch!PumpBatch, Watch!Receive, Watch!Adopt, Watch!ReportFailure, Watch!Leaves,
                Watch!watcher
  <2>2. Covering /\ setup # "failed"
    BY <1>1, <2>1 DEF Covering
  <2>. QED BY <1>3, <1>7, <2>2, WorkingHandsOn DEF vars
<1>8. CASE UNCHANGED <<watchVars, coveredFrom, disk, requested>>
  <2>1. Carried' = Carried /\ Covering
    BY <1>1, <1>8 DEF watchVars, Carried, Watch!ElementsOf, Covering
  <2>. QED BY <1>3, <1>8, <2>1
<1>. QED BY <1>4, <1>5, <1>6, <1>7, <1>8, WatchSteps

LEMMA WatchedStarts == WatchedInit => WatchedInv
<1>. SUFFICES ASSUME WatchedInit PROVE WatchedInv
  OBVIOUS
<1>1. IInv
  BY InitSafe DEF WatchedInit
<1>2. /\ exists = Present /\ setup = "queued" /\ toWatch = {} /\ debouncer = "on"
      /\ window = Watch!NoEvents /\ raw = <<>> /\ channel = <<>> /\ receiver = "absent" /\ alive
      /\ mailbox = [pending |-> {}, disconnected |-> FALSE] /\ coveredFrom = 0
  BY DEF WatchedInit, Watch!Init
<1>3. HopsTyped /\ NothingEnds
  BY <1>2 DEF HopsTyped, NothingEnds, Watch!NoEvents, Watch!Batch
<1>4. SubscriptionsCover /\ RequestsCatchUp
  BY <1>2 DEF SubscriptionsCover, RequestsCatchUp, Covering
<1>5. ReadsAreOfThePast
  <2>1. Len(disk) = 1 /\ \A s \in Slot : view[s] = Idle \/ view[s] = Loading
    BY DEF WatchedInit, Init
  <2>2. \A s \in Slot : tasks[s] = {} \/ \E of : tasks[s] = {NewTask(of)}
    BY DEF WatchedInit, Init
  <2>3. \A of : NewTask(of).seen = 0
    BY DEF NewTask
  <2>. QED BY <2>1, <2>2, <2>3, LoadStates DEF ReadsAreOfThePast
<1>. QED BY <1>1, <1>3, <1>4, <1>5 DEF WatchedInv

LEMMA WatchedKept ==
  ASSUME WatchedInv, RefFilesAreInGitDir, [WatchedNext]_everything
  PROVE  WatchedInv'
<1>1. IInv' /\ ReadsAreOfThePast' /\ HopsTyped' /\ NothingEnds'
  BY StateKept, PastKept, HopsKept DEF WatchedInv
<1>. QED BY <1>1, SubscriptionsStay, CatchUpKept DEF WatchedInv

----------------------------------------------------------------------------
(* With HEAD and the references in the watched Git directory, a change of them
   made after the set-up returned is on its way to the poll loop, or every
   slot has been asked again after it: the inductive invariant of the
   composition, that of RepositoryState included. *)
THEOREM WatchedSafety ==
  ASSUME RefFilesAreInGitDir
  PROVE  WatchedSpec => []WatchedInv
<1>1. WatchedInv /\ [WatchedNext]_everything => WatchedInv'
  BY WatchedKept
<1>. QED BY <1>1, WatchedStarts, PTL DEF WatchedSpec

(* What RepositoryState guarantees of its slots, it guarantees under the watch
   that drives it, whose reloads are not among its bounded calls, and wherever
   the files of the references lie. *)
THEOREM StateStaysSafe == WatchedSpec => []IInv
<1>1. WatchedInit => IInv
  BY InitSafe DEF WatchedInit
<1>2. IInv /\ [WatchedNext]_everything => IInv'
  BY StateKept
<1>. QED BY <1>1, <1>2, PTL DEF WatchedSpec

(* The window catches up, whatever the repository and the interleaving: once
   nothing is on its way and nothing is being read, every loaded slot shows
   the disk as it is, if the disk changed after the watch covered it. *)
THEOREM WindowCatchesUp ==
  ASSUME RefFilesAreInGitDir
  PROVE  WatchedSpec => []FreshAfterCoveredChange
<1>1. WatchedInv => FreshAfterCoveredChange
  <2>. SUFFICES ASSUME WatchedInv, Settled, Len(disk) > coveredFrom,
                       NEW s \in RepositorySlot, IsReady(view[s])
                PROVE  view[s].at = Len(disk)
    BY DEF FreshAfterCoveredChange
  <2>. USE DEF WatchedInv
  <2>1. /\ Covering /\ alive /\ setup # "failed" /\ window = Watch!NoEvents /\ raw = <<>>
        /\ channel = <<>> /\ mailbox.pending = {}
    BY DEF Settled, Watch!Quiet, Covering
  <2>2. Watch!ChangeFromBatch(Watch!NoEvents) = {}
    <3>1. Watch!NoEvents.paths = {} /\ Watch!NoEvents.rescan = FALSE
      BY DEF Watch!NoEvents
    <3>. QED BY <3>1 DEF Watch!ChangeFromBatch
  <2>3. Watch!ElementsOf(raw) = {} /\ Watch!ElementsOf(channel) = {}
    BY <2>1 DEF Watch!ElementsOf
  <2>4. Watch!Owed = {}
    BY <2>1, <2>2, <2>3, OwedIsCarried DEF Carried
  <2>5. s \in Slot /\ requested[s] = Len(disk)
    BY <2>1, <2>4 DEF RequestsCatchUp, RepositorySlot
  <2>6. view[s].at >= requested[s] /\ view[s].at <= Len(disk)
    BY <2>5 DEF IInv, AnswersLatestRequest, ReadsAreOfThePast
  <2>7. view[s].at \in Nat /\ Len(disk) \in Nat
    <3>1. view[s] \in LoadState /\ Len(disk) \in Nat
      BY <2>5 DEF IInv, TypeOK, Version
    <3>. QED BY <3>1 DEF LoadState, IsReady, Version
  <2>. QED BY <2>5, <2>6, <2>7
<1>. QED BY <1>1, WatchedSafety, PTL

(* The watch in the composition is the pipeline of WatchPipeline, without
   dropped events: what is proved of the pipeline alone is true of it here. *)
THEOREM WatchIsThePipeline == WatchedSpec => Watch!Spec
<1>1. WatchedInit => Watch!Init
  BY DEF WatchedInit
<1>2. [WatchedNext]_everything => [Watch!Next]_(Watch!watchVars)
  <2>. SUFFICES ASSUME [WatchedNext]_everything PROVE Watch!Next \/ UNCHANGED Watch!watchVars
    OBVIOUS
  <2>1. CASE UNCHANGED watchVars
    BY <2>1 DEF watchVars, Watch!watchVars, Watch!files, Watch!watcher, Watch!delivery, Watch!others
  <2>2. (\E c \in Child : GitWrites(c)) => \E c \in Child : Watch!Write(c)
    BY DEF GitWrites
  <2>3. PollAndReload \/ Working => Watch!Threads
    BY DEF PollAndReload, Working, SetUp, Relay, Watch!Threads
  <2>. QED BY <2>1, <2>2, <2>3, WatchSteps DEF Watch!Next
<1>. QED BY <1>1, <1>2, PTL DEF WatchedSpec, Watch!Spec
=============================================================================
