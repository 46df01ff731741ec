---------------------------- MODULE WatchProofs ----------------------------
(***************************************************************************)
(* Proofs about WatchPipeline: for any children of the watched             *)
(* directories, any number of changes other programs make and any number   *)
(* of times the platform loses events.                                     *)
(***************************************************************************)
EXTENDS WatchPipeline, TLAPS

(* The steps of the set-up that hold the debouncer and have started nothing. *)
Preparing == {"queued", "resolved", "treeWatched", "rootsWatched", "treeListed", "gitDirListed"}

(* Both roots are subscribed to before the first listing, and the watcher
   thread is started last; nothing is dropped for an entity that is there. *)
SetupOK ==
  /\ setup \in Preparing \cup {"failed"} => pump = "absent" /\ receiver = "absent"
  /\ setup \in Preparing \cup {"returned"} => debouncer = "on"
  /\ setup = "treeWatched" => "workingTree" \in watched
  /\ setup \in {"rootsWatched", "treeListed", "gitDirListed", "returned"} => Root \subseteq watched
  /\ setup = "returned" => pump \in {"starting", "running"} /\ receiver = "absent"
  /\ setup = "dropped" => ~alive

(* What ends a thread is the end of the entity or of the set-up. *)
EndsOK ==
  /\ poller = "live" => alive /\ setup = "live"
  /\ mailbox.disconnected => receiver = "ended"
  /\ pump = "ended" \/ receiver = "ended" => ~alive
  /\ debouncer # "on" => ~alive \/ setup = "failed"

ElementPaths(s) == UNION {b.paths : b \in ElementsOf(s)}

(* A child the watcher thread has not looked at is on its way to it, or its
   event was dropped. *)
ChildrenSeen ==
  alive /\ pump = "running" =>
    ChildrenOf("workingTree") \cup ChildrenOf("gitDir")
      \subseteq known \cup Excluded \cup missed.dropped \cup window.paths \cup ElementPaths(raw)

(* One it has looked at has its subscription, or was listed first by the
   thread itself, or was refused. *)
KnownWatched ==
  alive /\ pump = "running" =>
    known \subseteq watched \cup Excluded \cup missed.listed \cup missed.refused

WatchInv == /\ TypeOK /\ SetupOK /\ EndsOK /\ NoSubscriptionOutlives
            /\ ChildrenSeen /\ KnownWatched

----------------------------------------------------------------------------
(* Batches and sequences of them *)

LEMMA ElementsOfAppended ==
  ASSUME NEW S, NEW s \in Seq(S), NEW x \in S
  PROVE  ElementsOf(Append(s, x)) = ElementsOf(s) \cup {x}
<1>1. /\ DOMAIN Append(s, x) = DOMAIN s \cup {Len(s) + 1}
      /\ Append(s, x)[Len(s) + 1] = x
      /\ \A i \in DOMAIN s : Append(s, x)[i] = s[i]
  OBVIOUS
<1>. QED BY <1>1 DEF ElementsOf

LEMMA ElementsOfTaken ==
  ASSUME NEW S, NEW s \in Seq(S), s # <<>>
  PROVE  /\ Head(s) \in S /\ Tail(s) \in Seq(S)
         /\ ElementsOf(s) = {Head(s)} \cup ElementsOf(Tail(s))
<1>1. /\ Head(s) \in S /\ Tail(s) \in Seq(S) /\ Len(s) \in Nat \ {0}
      /\ Head(s) = s[1] /\ Len(Tail(s)) = Len(s) - 1
      /\ DOMAIN s = 1 .. Len(s) /\ DOMAIN Tail(s) = 1 .. (Len(s) - 1)
      /\ \A i \in 1 .. (Len(s) - 1) : Tail(s)[i] = s[i + 1]
  OBVIOUS
<1>2. ASSUME NEW i \in DOMAIN s PROVE s[i] \in {Head(s)} \cup ElementsOf(Tail(s))
  <2>1. CASE i = 1
    BY <1>1, <2>1
  <2>2. CASE i # 1
    <3>1. i - 1 \in 1 .. (Len(s) - 1) /\ Tail(s)[i - 1] = s[i]
      BY <1>1, <2>2
    <3>. QED BY <1>1, <3>1 DEF ElementsOf
  <2>. QED BY <2>1, <2>2
<1>3. ASSUME NEW i \in DOMAIN Tail(s) PROVE Tail(s)[i] \in ElementsOf(s)
  <2>1. i + 1 \in DOMAIN s /\ Tail(s)[i] = s[i + 1]
    BY <1>1
  <2>. QED BY <2>1 DEF ElementsOf
<1>4. Head(s) \in ElementsOf(s)
  BY <1>1 DEF ElementsOf
<1>. QED BY <1>1, <1>2, <1>3, <1>4 DEF ElementsOf

LEMMA ElementsOfNone == ElementsOf(<<>>) = {}
BY DEF ElementsOf

LEMMA ElementsTyped ==
  ASSUME NEW S, NEW s \in Seq(S)
  PROVE  ElementsOf(s) \subseteq S
BY DEF ElementsOf

(* Every batch is classified into aspects, one that asks for a rescan into
   all of them. *)
LEMMA ChangesAreAspects ==
  /\ \A c \in Child : AspectOf[c] \subseteq Aspect
  /\ \A b \in Batch : ChangeFromBatch(b) \subseteq Aspect /\ (b.rescan => ChangeFromBatch(b) = Aspect)
<1>1. ASSUME NEW c \in Child PROVE AspectOf[c] \subseteq Aspect
  <2>1. \A name : ClassifyGitDirPath(name) \subseteq Aspect
    BY DEF ClassifyGitDirPath, Aspect
  <2>2. RootOf[c] = "gitDir" \/ RootOf[c] = "workingTree" \/ RootOf[c] = Elsewhere
    BY WatchAssumption DEF Root
  <2>3. Elsewhere # "gitDir" /\ Elsewhere # "workingTree"
    BY DEF Elsewhere
  <2>. QED BY <2>1, <2>2, <2>3 DEF AspectOf, Aspect
<1>. QED BY <1>1 DEF ChangeFromBatch, Batch

(* A touched child joins the window and adds its aspects to the change. *)
LEMMA WindowGrown ==
  ASSUME NEW w \in Batch, NEW c \in Child
  PROVE  LET grown == [w EXCEPT !.paths = @ \cup {c}] IN
         /\ grown \in Batch /\ grown.paths = w.paths \cup {c}
         /\ ChangeFromBatch(grown) = ChangeFromBatch(w) \cup (IF w.rescan THEN {} ELSE AspectOf[c])
<1>. DEFINE grown == [w EXCEPT !.paths = @ \cup {c}]
<1>1. grown \in Batch /\ grown.paths = w.paths \cup {c} /\ grown.rescan = w.rescan
  BY DEF Batch
<1>. HIDE DEF grown
<1>2. ChangeFromBatch(grown) = ChangeFromBatch(w) \cup (IF w.rescan THEN {} ELSE AspectOf[c])
  <2>1. CASE w.rescan
    <3>1. ChangeFromBatch(grown) = Aspect /\ ChangeFromBatch(w) = Aspect
      BY <1>1, <2>1, Zenon DEF ChangeFromBatch
    <3>2. (IF w.rescan THEN {} ELSE AspectOf[c]) = {}
      BY <2>1, Zenon
    <3>. QED BY <3>1, <3>2
  <2>2. CASE ~w.rescan
    <3>1. ChangeFromBatch(grown) = UNION {AspectOf[d] : d \in w.paths \cup {c}}
      BY <1>1, <2>2, Zenon DEF ChangeFromBatch
    <3>2. ChangeFromBatch(w) = UNION {AspectOf[d] : d \in w.paths}
      BY <2>2, Zenon DEF ChangeFromBatch
    <3>3. \A P : {AspectOf[d] : d \in P \cup {c}} = {AspectOf[d] : d \in P} \cup {AspectOf[c]}
      OBVIOUS
    <3>4. \A S, x : UNION (S \cup {x}) = (UNION S) \cup x
      OBVIOUS
    <3>5. (IF w.rescan THEN {} ELSE AspectOf[c]) = AspectOf[c]
      BY <2>2, Zenon
    <3>. QED BY <3>1, <3>2, <3>3, <3>4, <3>5
  <2>. QED BY <2>1, <2>2
<1>. QED BY <1>1, <1>2 DEF grown

LEMMA NothingHeld ==
  /\ NoEvents \in Batch /\ NoEvents.paths = {} /\ ChangeFromBatch(NoEvents) = {}
<1>1. NoEvents \in Batch /\ NoEvents.paths = {} /\ NoEvents.rescan = FALSE
  BY DEF NoEvents, Batch
<1>. QED BY <1>1 DEF ChangeFromBatch

----------------------------------------------------------------------------
(* Types *)

FlagsTyped ==
  /\ setup \in {"queued", "resolved", "treeWatched", "rootsWatched", "treeListed",
                "gitDirListed", "returned", "live", "failed", "dropped"}
  /\ debouncer \in {"on", "stopping", "gone"}
  /\ pump \in {"absent", "starting", "running", "ended"}
  /\ receiver \in {"absent", "running", "ended"}
  /\ poller \in {"waiting", "live", "ended"}
  /\ alive \in BOOLEAN
FilesTyped ==
  /\ exists \subseteq Child /\ toWatch \subseteq Child
  /\ watched \subseteq Root \cup Child
  /\ known \subseteq Child
  /\ missed \in [dropped : SUBSET Child, listed : SUBSET Child, refused : SUBSET Child]
  /\ touches \in 0 .. MaxTouches /\ losses \in 0 .. MaxLosses
HopsTyped ==
  /\ window \in Batch /\ raw \in Seq(Batch)
  /\ channel \in Seq((SUBSET Aspect) \ {{}})
  /\ mailbox \in [pending : SUBSET Aspect, disconnected : BOOLEAN]
  /\ told \subseteq Aspect

LEMMA WatchTypeParts == TypeOK <=> FlagsTyped /\ FilesTyped /\ HopsTyped
BY DEF TypeOK, FlagsTyped, FilesTyped, HopsTyped

LEMMA FlagsStayTyped ==
  ASSUME FlagsTyped, [Next]_watchVars
  PROVE  FlagsTyped'
<1>1. alive' \in BOOLEAN
  BY Zenon DEF FlagsTyped, Next, Create, Remove, Write, Observe, LoseEvents, Threads, Setup, Resolve,
     WatchRoot, ListRoot, RegisterChild, SpawnPump, SetupFails, SetupStep, Leaves, Flush,
     DebouncerExits, PumpLists, PumpBatch, PumpEnds, Receive, Disconnect, Adopt, ReportFailure,
     Poll, Discard, DropEntity, others, watchVars
<1>2. CASE UNCHANGED watchVars
  BY <1>1, <1>2 DEF FlagsTyped, watchVars, watcher, delivery
<1>3. CASE (\E c \in Child : Create(c) \/ Remove(c) \/ Write(c)) \/ LoseEvents
  BY <1>1, <1>3 DEF FlagsTyped, Create, Remove, Write, Observe, LoseEvents, Leaves, watcher
<1>4. CASE Setup
  BY <1>1, <1>4 DEF FlagsTyped, Setup, Resolve, WatchRoot, ListRoot, RegisterChild, SpawnPump,
     SetupFails, SetupStep, Stop, Leaves, delivery
<1>5. CASE Flush \/ DebouncerExits \/ Receive \/ Disconnect \/ Poll
  BY <1>1, <1>5 DEF FlagsTyped, Flush, DebouncerExits, Receive, Disconnect, Poll, Leaves, watcher
<1>6. CASE PumpLists \/ PumpBatch \/ PumpEnds
  BY <1>1, <1>6 DEF FlagsTyped, PumpLists, PumpBatch, PumpEnds, SendChange, Leaves, delivery
<1>7. CASE Adopt \/ ReportFailure \/ Discard \/ DropEntity
  BY <1>1, <1>7 DEF FlagsTyped, Adopt, ReportFailure, Discard, DropEntity, Stop, Leaves, watcher
<1>. QED BY <1>2, <1>3, <1>4, <1>5, <1>6, <1>7 DEF Next, Threads

LEMMA FilesStayTyped ==
  ASSUME FilesTyped, HopsTyped, [Next]_watchVars
  PROVE  FilesTyped'
<1>1. CASE UNCHANGED watchVars
  BY <1>1 DEF FilesTyped, watchVars, files, watcher, others
<1>2. CASE \E c \in Child : Create(c) \/ Remove(c) \/ Write(c)
  BY <1>2, WatchAssumption DEF FilesTyped, Create, Remove, Write, Observe, Leaves, watcher, others
<1>3. CASE LoseEvents
  <2>1. window.paths \in SUBSET Child
    BY DEF HopsTyped, Batch
  <2>2. missed' = [missed EXCEPT !.dropped = @ \cup window.paths] /\ losses' \in 0 .. MaxLosses
    BY <1>3, WatchAssumption DEF FilesTyped, LoseEvents
  <2>3. missed' \in [dropped : SUBSET Child, listed : SUBSET Child, refused : SUBSET Child]
    BY <2>1, <2>2 DEF FilesTyped
  <2>. QED BY <1>3, <2>2, <2>3 DEF FilesTyped, LoseEvents, Leaves, files, watcher
<1>4. CASE Setup
  BY <1>4 DEF FilesTyped, Setup, Resolve, WatchRoot, ListRoot, RegisterChild, SpawnPump,
     SetupFails, SetupStep, Stop, ChildrenOf, Leaves, files, others, Root
<1>5. CASE Flush \/ DebouncerExits \/ Receive \/ Disconnect \/ Poll
  BY <1>5 DEF FilesTyped, Flush, DebouncerExits, Receive, Disconnect, Poll, Leaves, files, watcher,
     others
<1>6. CASE PumpLists \/ PumpEnds
  BY <1>6 DEF FilesTyped, PumpLists, PumpEnds, ChildrenOf, Leaves, files, others
<1>7. CASE PumpBatch
  <2>1. Discover(Head(raw)) \subseteq Child
    BY DEF FilesTyped, Discover
  <2>. QED BY <1>7, <2>1 DEF FilesTyped, PumpBatch, Leaves, files, others
<1>8. CASE Adopt \/ ReportFailure \/ Discard \/ DropEntity
  BY <1>8 DEF FilesTyped, Adopt, ReportFailure, Discard, DropEntity, Stop, Leaves, files, watcher,
     others
<1>. QED BY <1>1, <1>2, <1>3, <1>4, <1>5, <1>6, <1>7, <1>8 DEF Next, Threads

LEMMA HopsStayTyped ==
  ASSUME HopsTyped, [Next]_watchVars
  PROVE  HopsTyped'
<1>1. CASE UNCHANGED watchVars \/ Setup \/ PumpLists \/ PumpEnds
  BY <1>1 DEF HopsTyped, watchVars, Setup, Resolve, WatchRoot, ListRoot, RegisterChild, SpawnPump,
     SetupFails, SetupStep, PumpLists, PumpEnds, Leaves, delivery
<1>2. CASE \E c \in Child : Create(c) \/ Remove(c) \/ Write(c)
  <2>1. PICK c \in Child : Create(c) \/ Remove(c) \/ Write(c)
    BY <1>2
  <2>2. window' \in Batch
    BY <2>1, WindowGrown DEF HopsTyped, Create, Remove, Write, Observe
  <2>. QED BY <2>1, <2>2 DEF HopsTyped, Create, Remove, Write, Observe, Leaves
<1>3. CASE LoseEvents
  <2>1. window' \in Batch
    BY <1>3 DEF LoseEvents, Batch
  <2>. QED BY <1>3, <2>1 DEF HopsTyped, LoseEvents, Leaves
<1>4. CASE Flush
  BY <1>4, NothingHeld DEF HopsTyped, Flush, Leaves
<1>5. CASE DebouncerExits
  BY <1>5, NothingHeld DEF HopsTyped, DebouncerExits, Leaves
<1>6. CASE PumpBatch
  <2>1. Head(raw) \in Batch /\ Tail(raw) \in Seq(Batch)
    BY <1>6 DEF HopsTyped, PumpBatch
  <2>2. ChangeFromBatch(Head(raw)) \in SUBSET Aspect
    BY <2>1, ChangesAreAspects
  <2>3. channel' \in Seq((SUBSET Aspect) \ {{}})
    <3>. DEFINE change == ChangeFromBatch(Head(raw))
    <3>1. channel \in Seq((SUBSET Aspect) \ {{}})
      BY DEF HopsTyped
    <3>2. channel' = channel \/ (change # {} /\ channel' = Append(channel, change))
      BY <1>6 DEF PumpBatch, SendChange
    <3>. HIDE DEF change
    <3>3. change # {} => change \in (SUBSET Aspect) \ {{}}
      BY <2>2 DEF change
    <3>. QED BY <3>1, <3>2, <3>3
  <2>. QED BY <1>6, <2>1, <2>3 DEF HopsTyped, PumpBatch, Leaves
<1>7. CASE Receive
  <2>1. Head(channel) \in SUBSET Aspect /\ Tail(channel) \in Seq((SUBSET Aspect) \ {{}})
    BY <1>7 DEF HopsTyped, Receive
  <2>2. mailbox' \in [pending : SUBSET Aspect, disconnected : BOOLEAN]
    BY <1>7, <2>1 DEF HopsTyped, Receive, Merge
  <2>. QED BY <1>7, <2>1, <2>2 DEF HopsTyped, Receive, Leaves
<1>8. CASE Disconnect
  <2>1. mailbox' \in [pending : SUBSET Aspect, disconnected : BOOLEAN]
    BY <1>8 DEF HopsTyped, Disconnect
  <2>. QED BY <1>8, <2>1 DEF HopsTyped, Disconnect, Leaves
<1>9. CASE Poll
  <2>1. /\ mailbox' \in [pending : SUBSET Aspect, disconnected : BOOLEAN]
        /\ mailbox.pending \subseteq Aspect
    BY <1>9 DEF HopsTyped, Poll
  <2>. QED BY <1>9, <2>1 DEF HopsTyped, Poll
<1>10. CASE Adopt \/ ReportFailure \/ Discard \/ DropEntity
  BY <1>10 DEF HopsTyped, Adopt, ReportFailure, Discard, DropEntity, Leaves
<1>. QED BY <1>1, <1>2, <1>3, <1>4, <1>5, <1>6, <1>7, <1>8, <1>9, <1>10 DEF Next, Threads

----------------------------------------------------------------------------
(* The life of the watch *)

(* Only the set-up, the adoption of its answer and the end of the entity move
   it on; only the watcher thread's subscriptions are made besides. *)
LEMMA SetupUntouched ==
  ASSUME [Next]_watchVars,
         ~ (Setup \/ Adopt \/ ReportFailure \/ Discard \/ DropEntity)
  PROVE  /\ UNCHANGED <<setup, alive, poller>> \/ Poll
         /\ UNCHANGED <<setup, alive, toWatch>>
         /\ debouncer' = debouncer \/ DebouncerExits
         /\ watched' = watched \/ (debouncer = "on" /\ watched \subseteq watched')
         /\ pump' = pump \/ PumpLists \/ PumpBatch \/ PumpEnds
         /\ receiver' = receiver \/ Disconnect
         /\ mailbox'.disconnected = mailbox.disconnected \/ Disconnect \/ Receive \/ Poll
<1>1. CASE UNCHANGED watchVars
  BY <1>1 DEF watchVars, watcher, delivery, others
<1>2. CASE (\E c \in Child : Create(c) \/ Remove(c) \/ Write(c)) \/ LoseEvents
  BY <1>2 DEF Create, Remove, Write, Observe, LoseEvents, Leaves, watcher, others
<1>3. CASE Flush \/ DebouncerExits
  BY <1>3 DEF Flush, DebouncerExits, Leaves, watcher, others
<1>4. CASE Receive \/ Disconnect \/ Poll
  BY <1>4 DEF Receive, Disconnect, Poll, Leaves, watcher, others
<1>5. CASE PumpLists \/ PumpEnds
  BY <1>5 DEF PumpLists, PumpEnds, Leaves, delivery, others
<1>6. CASE PumpBatch
  BY <1>6 DEF PumpBatch, Leaves, others
<1>. QED BY <1>1, <1>2, <1>3, <1>4, <1>5, <1>6 DEF Next, Threads

LEMMA SetupKept ==
  ASSUME TypeOK, SetupOK, EndsOK, NoSubscriptionOutlives, [Next]_watchVars
  PROVE  SetupOK'
<1>1. CASE ~ (Setup \/ Adopt \/ ReportFailure \/ Discard \/ DropEntity)
  <2>1. UNCHANGED <<setup, alive>>
    BY <1>1, SetupUntouched
  <2>2. setup \in Preparing \cup {"returned"} => debouncer' = debouncer /\ watched \subseteq watched'
    BY <1>1, SetupUntouched DEF SetupOK, DebouncerExits
  <2>3. setup \in Preparing \cup {"failed"} => pump' = pump /\ receiver' = receiver
    BY <1>1, SetupUntouched DEF SetupOK, PumpLists, PumpBatch, PumpEnds, Disconnect
  <2>4. setup = "returned" => pump' \in {"starting", "running"} /\ receiver' = "absent"
    <3>1. pump' = pump \/ PumpLists \/ PumpBatch \/ PumpEnds
      BY <1>1, SetupUntouched
    <3>2. receiver' = receiver \/ Disconnect
      BY <1>1, SetupUntouched
    <3>. QED BY <3>1, <3>2 DEF SetupOK, PumpLists, PumpBatch, SendChange, PumpEnds, Disconnect
  <2>. QED BY <2>1, <2>2, <2>3, <2>4 DEF SetupOK, Preparing
<1>2. CASE Setup
  <2>1. UNCHANGED <<receiver, alive>>
    BY <1>2 DEF Setup, Resolve, WatchRoot, ListRoot, RegisterChild, SpawnPump, SetupFails,
       SetupStep, Leaves, delivery, others
  <2>2. CASE SetupFails
    BY <2>1, <2>2 DEF SetupFails, SetupStep, SetupOK, Preparing
  <2>3. CASE SpawnPump
    BY <2>1, <2>3 DEF SpawnPump, SetupStep, SetupOK, Preparing
  <2>4. CASE Resolve \/ WatchRoot("workingTree", "resolved", "treeWatched")
             \/ WatchRoot("gitDir", "treeWatched", "rootsWatched")
    BY <2>1, <2>4 DEF Resolve, WatchRoot, SetupStep, SetupOK, Preparing, Root
  <2>5. CASE ListRoot("workingTree", "rootsWatched", "treeListed")
             \/ ListRoot("gitDir", "treeListed", "gitDirListed")
    BY <2>1, <2>5 DEF ListRoot, SetupStep, SetupOK, Preparing
  <2>6. CASE RegisterChild("treeListed") \/ RegisterChild("gitDirListed")
    BY <2>1, <2>6 DEF RegisterChild, SetupStep, SetupOK, Preparing
  <2>. QED BY <1>2, <2>2, <2>3, <2>4, <2>5, <2>6 DEF Setup
<1>3. CASE Adopt \/ Discard
  BY <1>3 DEF Adopt, Discard, Leaves, others, SetupOK, Preparing
<1>4. CASE ReportFailure
  BY <1>4 DEF ReportFailure, Leaves, watcher, others, SetupOK, Preparing
<1>5. CASE DropEntity
  BY <1>5 DEF DropEntity, Leaves, Stop, SetupOK, Preparing
<1>. QED BY <1>1, <1>2, <1>3, <1>4, <1>5

LEMMA EndsKept ==
  ASSUME TypeOK, SetupOK, EndsOK, NoSubscriptionOutlives, [Next]_watchVars
  PROVE  EndsOK'
<1>1. CASE ~ (Setup \/ Adopt \/ ReportFailure \/ Discard \/ DropEntity)
  <2>1. UNCHANGED <<setup, alive>>
    BY <1>1, SetupUntouched
  <2>2. poller' = poller \/ (Poll /\ poller = "live")
    BY <1>1, SetupUntouched DEF Poll
  <2>3. debouncer' = debouncer \/ debouncer # "on"
    BY <1>1, SetupUntouched DEF DebouncerExits
  <2>4. pump' = "ended" \/ receiver' = "ended" => ~alive
    <3>1. pump' = pump \/ PumpLists \/ PumpBatch \/ PumpEnds
      BY <1>1, SetupUntouched
    <3>2. receiver' = receiver \/ Disconnect
      BY <1>1, SetupUntouched
    <3>3. PumpEnds => ~alive
      BY DEF PumpEnds, EndsOK, SetupOK
    <3>. QED BY <3>1, <3>2, <3>3 DEF EndsOK, PumpLists, PumpBatch, SendChange, PumpEnds, Disconnect
  <2>5. mailbox'.disconnected => receiver' = "ended"
    <3>1. mailbox \in [pending : SUBSET Aspect, disconnected : BOOLEAN]
      BY DEF TypeOK
    <3>2. Receive \/ Poll => mailbox'.disconnected = mailbox.disconnected
      BY <3>1 DEF Receive, Poll
    <3>3. receiver' = receiver \/ receiver' = "ended"
      BY <1>1, SetupUntouched DEF Disconnect
    <3>4. Disconnect => receiver' = "ended"
      BY DEF Disconnect
    <3>5. mailbox'.disconnected = mailbox.disconnected \/ Disconnect
      BY <1>1, <3>2, SetupUntouched
    <3>. QED BY <3>3, <3>4, <3>5, Zenon DEF EndsOK
  <2>. QED BY <2>1, <2>2, <2>3, <2>4, <2>5 DEF EndsOK
<1>2. CASE Setup
  <2>1. UNCHANGED <<receiver, alive, mailbox, poller>>
    BY <1>2 DEF Setup, Resolve, WatchRoot, ListRoot, RegisterChild, SpawnPump, SetupFails,
       SetupStep, Leaves, delivery, others
  <2>2. setup # "live" /\ setup \in Preparing
    BY <1>2 DEF Setup, Resolve, WatchRoot, ListRoot, RegisterChild, SpawnPump, SetupFails,
       SetupStep, Preparing
  <2>3. pump' \in {pump, "starting"}
    BY <1>2 DEF Setup, Resolve, WatchRoot, ListRoot, RegisterChild, SpawnPump, SetupFails,
       SetupStep, Leaves
  <2>4. debouncer' = debouncer \/ setup' = "failed"
    BY <1>2 DEF Setup, Resolve, WatchRoot, ListRoot, RegisterChild, SpawnPump, SetupFails,
       SetupStep, Leaves
  <2>. QED BY <2>1, <2>2, <2>3, <2>4 DEF EndsOK, SetupOK
<1>3. CASE Adopt
  BY <1>3 DEF Adopt, Leaves, others, EndsOK, SetupOK
<1>4. CASE ReportFailure
  BY <1>4 DEF ReportFailure, Leaves, watcher, others, EndsOK
<1>5. CASE Discard
  BY <1>5 DEF Discard, Leaves, Stop, others, EndsOK
<1>6. CASE DropEntity
  BY <1>6 DEF DropEntity, Leaves, Stop, EndsOK
<1>. QED BY <1>1, <1>2, <1>3, <1>4, <1>5, <1>6

LEMMA SubscriptionsKept ==
  ASSUME TypeOK, SetupOK, EndsOK, NoSubscriptionOutlives, [Next]_watchVars
  PROVE  NoSubscriptionOutlives'
<1>1. CASE ~ (Setup \/ Adopt \/ ReportFailure \/ Discard \/ DropEntity)
  <2>1. UNCHANGED <<setup, alive>>
    BY <1>1, SetupUntouched
  <2>2. debouncer' = debouncer \/ (debouncer = "stopping" /\ debouncer' = "gone")
    BY <1>1, SetupUntouched DEF DebouncerExits
  <2>3. debouncer # "on" => watched' = watched
    BY <1>1, SetupUntouched
  <2>4. watched \subseteq watched'
    BY <1>1, SetupUntouched
  <2>5. ASSUME setup = "live", alive
        PROVE  pump' \in {"starting", "running"} /\ receiver' = "running" /\ poller' = "live"
    <3>1. pump \in {"starting", "running"} /\ receiver = "running" /\ poller = "live"
          /\ debouncer = "on"
      BY <2>5 DEF NoSubscriptionOutlives
    <3>2. ~PumpEnds /\ ~Disconnect
      BY <3>1 DEF PumpEnds, Disconnect
    <3>3. PumpLists \/ PumpBatch => pump' \in {"starting", "running"}
      BY <3>1 DEF PumpLists, PumpBatch, SendChange
    <3>4. ~mailbox.disconnected
      BY <3>1 DEF EndsOK
    <3>5. Poll => poller' = "live"
      BY <3>4 DEF Poll
    <3>. QED BY <1>1, <3>1, <3>2, <3>3, <3>5, SetupUntouched
  <2>. QED BY <2>1, <2>2, <2>3, <2>4, <2>5 DEF NoSubscriptionOutlives
<1>2. CASE Setup
  <2>1. setup' # "live" /\ setup' # "dropped"
    BY <1>2 DEF Setup, Resolve, WatchRoot, ListRoot, RegisterChild, SpawnPump, SetupFails, SetupStep
  <2>2. setup' = "failed" => watched' = {} /\ debouncer' # "on"
    BY <1>2 DEF Setup, Resolve, WatchRoot, ListRoot, RegisterChild, SpawnPump, SetupFails,
       SetupStep, Stop
  <2>. QED BY <2>1, <2>2 DEF NoSubscriptionOutlives
<1>3. CASE Adopt
  BY <1>3 DEF Adopt, Leaves, others, NoSubscriptionOutlives, SetupOK
<1>4. CASE ReportFailure
  BY <1>4 DEF ReportFailure, Leaves, watcher, others, NoSubscriptionOutlives
<1>5. CASE Discard
  BY <1>5 DEF Discard, Leaves, Stop, others, NoSubscriptionOutlives
<1>6. CASE DropEntity
  BY <1>6 DEF DropEntity, Leaves, Stop, NoSubscriptionOutlives, EndsOK
<1>. QED BY <1>1, <1>2, <1>3, <1>4, <1>5, <1>6

(* A created child of a root reaches the window, and from there the watcher
   thread's own list, or is among those whose events were dropped. *)
LEMMA ChildrenKept ==
  ASSUME TypeOK, SetupOK, EndsOK, NoSubscriptionOutlives, ChildrenSeen, [Next]_watchVars
  PROVE  ChildrenSeen'
<1>. DEFINE children == ChildrenOf("workingTree") \cup ChildrenOf("gitDir")
            onTheWay == window.paths \cup ElementPaths(raw)
<1>1. /\ window \in Batch /\ raw \in Seq(Batch) /\ setup \in Preparing \cup {"returned", "live",
           "failed", "dropped"}
  BY DEF TypeOK, Preparing
<1>2. SUFFICES ASSUME alive', pump' = "running"
               PROVE  children' \subseteq known' \cup Excluded \cup missed'.dropped \cup onTheWay'
  BY DEF ChildrenSeen
<1>3. alive
  BY <1>2 DEF Next, Create, Remove, Write, Observe, LoseEvents, Threads, Setup, Resolve, WatchRoot,
     ListRoot, RegisterChild, SpawnPump, SetupFails, SetupStep, Leaves, Flush, DebouncerExits,
     PumpLists, PumpBatch, PumpEnds, Receive, Disconnect, Adopt, ReportFailure, Poll, Discard,
     DropEntity, others, watchVars
<1>4. ASSUME pump = "running"
      PROVE  /\ children \subseteq known \cup Excluded \cup missed.dropped \cup onTheWay
             /\ setup \in {"returned", "live"} /\ debouncer = "on" /\ Root \subseteq watched
  <2>1. setup \in {"returned", "live"}
    BY <1>1, <1>3, <1>4 DEF SetupOK, NoSubscriptionOutlives
  <2>. QED BY <1>3, <1>4, <2>1 DEF ChildrenSeen, SetupOK, NoSubscriptionOutlives
<1>5. ASSUME pump = "running", UNCHANGED <<exists, known, missed, window, raw>>
      PROVE  children' \subseteq known' \cup Excluded \cup missed'.dropped \cup onTheWay'
  BY <1>4, <1>5 DEF ChildrenOf, ElementPaths
<1>6. CASE UNCHANGED watchVars \/ Setup \/ Receive \/ Disconnect \/ Adopt \/ ReportFailure \/ Poll
           \/ Discard \/ DropEntity \/ PumpEnds
  <2>1. UNCHANGED <<exists, known, missed, window, raw>>
    BY <1>6 DEF watchVars, Setup, Resolve, WatchRoot, ListRoot, RegisterChild, SpawnPump,
       SetupFails, SetupStep, Leaves, Receive, Disconnect, Adopt, ReportFailure, Poll, Discard,
       DropEntity, PumpEnds, files, watcher, delivery, others
  <2>2. pump = "running"
    BY <1>2, <1>6 DEF watchVars, Setup, Resolve, WatchRoot, ListRoot, RegisterChild, SpawnPump,
       SetupFails, SetupStep, Leaves, Receive, Disconnect, Adopt, ReportFailure, Poll, Discard,
       DropEntity, PumpEnds, watcher
  <2>. QED BY <1>5, <2>1, <2>2
<1>7. CASE \E c \in Child : Create(c) \/ Remove(c) \/ Write(c)
  <2>1. PICK c \in Child : Create(c) \/ Remove(c) \/ Write(c)
    BY <1>7
  <2>2. UNCHANGED <<known, missed, raw, pump>>
    BY <2>1 DEF Create, Remove, Write, Observe, Leaves, watcher, others
  <2>3. window.paths \subseteq window'.paths
    BY <1>1, <2>1, WindowGrown DEF Create, Remove, Write, Observe
  <2>4. CASE ~Create(c)
    <3>1. exists' \subseteq exists
      BY <2>1, <2>4 DEF Remove, Write
    <3>. QED BY <1>2, <1>4, <2>2, <2>3, <3>1 DEF ChildrenOf, ElementPaths
  <2>5. CASE Create(c)
    <3>1. exists' = exists \cup {c}
      BY <2>5 DEF Create
    <3>2. RootOf[c] \in watched => c \in window'.paths
      BY <1>1, <2>5, WindowGrown DEF Create, Observe
    <3>3. c \in children' => c \in onTheWay'
      BY <1>2, <1>4, <2>2, <3>2 DEF ChildrenOf, Root
    <3>. QED BY <1>2, <1>4, <2>2, <2>3, <3>1, <3>3 DEF ChildrenOf, ElementPaths
  <2>. QED BY <2>4, <2>5
<1>8. CASE LoseEvents
  <2>1. /\ UNCHANGED <<exists, known, raw, pump>>
        /\ missed' = [missed EXCEPT !.dropped = @ \cup window.paths]
        /\ window'.paths = {}
    BY <1>8 DEF LoseEvents, Leaves, files, watcher
  <2>2. missed'.dropped = missed.dropped \cup window.paths
    BY <2>1 DEF TypeOK
  <2>. QED BY <1>2, <1>4, <2>1, <2>2 DEF ChildrenOf, ElementPaths
<1>9. CASE Flush
  <2>1. /\ UNCHANGED <<exists, known, missed, pump>> /\ raw' = Append(raw, window)
    BY <1>9 DEF Flush, Leaves, files, watcher, others
  <2>2. ElementsOf(raw') = ElementsOf(raw) \cup {window}
    BY <1>1, <2>1, ElementsOfAppended
  <2>3. onTheWay \subseteq ElementPaths(raw')
    BY <2>2 DEF ElementPaths
  <2>4. ElementPaths(raw)' = ElementPaths(raw')
    BY DEF ElementPaths, ElementsOf
  <2>. QED BY <1>2, <1>4, <2>1, <2>3, <2>4 DEF ChildrenOf
<1>10. CASE DebouncerExits
  <2>1. pump' = pump /\ debouncer = "stopping"
    BY <1>10 DEF DebouncerExits, Leaves
  <2>. QED BY <1>2, <1>4, <2>1
<1>11. CASE PumpLists
  BY <1>11 DEF PumpLists, Leaves, files, ChildrenOf
<1>12. CASE PumpBatch
  <2>. DEFINE head == Head(raw)
  <2>1. /\ UNCHANGED <<exists, window>> /\ raw # <<>> /\ raw' = Tail(raw)
        /\ known' = known \cup Discover(head) /\ pump = "running"
        /\ missed'.dropped = missed.dropped
    BY <1>12 DEF PumpBatch, Leaves, files, others, TypeOK
  <2>2. ElementsOf(raw) = {head} \cup ElementsOf(Tail(raw))
    BY <1>1, <2>1, ElementsOfTaken
  <2>3. onTheWay = window.paths \cup head.paths \cup ElementPaths(Tail(raw))
    BY <2>2 DEF ElementPaths
  <2>4. ElementPaths(raw)' = ElementPaths(Tail(raw))
    BY <2>1 DEF ElementPaths, ElementsOf
  <2>5. \A c \in children : c \in head.paths => c \in Discover(head) \cup Excluded \cup known
    BY DEF ChildrenOf, Discover, Root
  <2>6. children' = children
    BY <2>1 DEF ChildrenOf
  <2>. QED BY <1>4, <2>1, <2>3, <2>4, <2>5, <2>6
<1>. QED BY <1>6, <1>7, <1>8, <1>9, <1>10, <1>11, <1>12 DEF Next, Threads

(* What the watcher thread takes as known has a subscription, or a reason to
   have none. *)
LEMMA KnownKept ==
  ASSUME TypeOK, SetupOK, EndsOK, NoSubscriptionOutlives, KnownWatched, [Next]_watchVars
  PROVE  KnownWatched'
<1>1. setup \in Preparing \cup {"returned", "live", "failed", "dropped"}
  BY DEF TypeOK, Preparing
<1>2. SUFFICES ASSUME alive', pump' = "running"
               PROVE  known' \subseteq watched' \cup Excluded \cup missed'.listed \cup missed'.refused
  BY DEF KnownWatched
<1>3. alive
  BY <1>2 DEF Next, Create, Remove, Write, Observe, LoseEvents, Threads, Setup, Resolve, WatchRoot,
     ListRoot, RegisterChild, SpawnPump, SetupFails, SetupStep, Leaves, Flush, DebouncerExits,
     PumpLists, PumpBatch, PumpEnds, Receive, Disconnect, Adopt, ReportFailure, Poll, Discard,
     DropEntity, others, watchVars
<1>4. ASSUME pump = "running"
      PROVE  /\ known \subseteq watched \cup Excluded \cup missed.listed \cup missed.refused
             /\ setup \in {"returned", "live"} /\ debouncer = "on"
  <2>1. setup \in {"returned", "live"}
    BY <1>1, <1>3, <1>4 DEF SetupOK, NoSubscriptionOutlives
  <2>. QED BY <1>3, <1>4, <2>1 DEF KnownWatched, SetupOK, NoSubscriptionOutlives
<1>5. ASSUME pump = "running", known' = known, watched \subseteq watched',
             missed'.listed = missed.listed, missed'.refused = missed.refused
      PROVE  known' \subseteq watched' \cup Excluded \cup missed'.listed \cup missed'.refused
  BY <1>4, <1>5
<1>6. CASE UNCHANGED watchVars \/ Flush \/ DebouncerExits \/ Receive \/ Disconnect \/ Adopt
           \/ ReportFailure \/ Poll \/ PumpEnds
           \/ \E c \in Child : Create(c) \/ Remove(c) \/ Write(c)
  <2>1. UNCHANGED <<known, watched, missed>> /\ pump' \in {pump, "ended"}
    BY <1>6 DEF watchVars, Flush, DebouncerExits, Receive, Disconnect, Adopt, ReportFailure, Poll,
       PumpEnds, Create, Remove, Write, Observe, Leaves, files, watcher, others
  <2>. QED BY <1>2, <1>5, <2>1
<1>7. CASE Setup
  <2>1. UNCHANGED <<known, missed>>
    BY <1>7 DEF Setup, Resolve, WatchRoot, ListRoot, RegisterChild, SpawnPump, SetupFails,
       SetupStep, Leaves, others
  <2>2. pump = "running"
    BY <1>2, <1>7 DEF Setup, Resolve, WatchRoot, ListRoot, RegisterChild, SpawnPump, SetupFails
  <2>3. watched \subseteq watched'
    BY <1>4, <1>7, <2>2 DEF Setup, Resolve, WatchRoot, ListRoot, RegisterChild, SpawnPump,
       SetupFails, SetupStep
  <2>. QED BY <1>5, <2>1, <2>2, <2>3
<1>8. CASE LoseEvents
  <2>1. /\ UNCHANGED <<known, watched, pump>>
        /\ missed'.listed = missed.listed /\ missed'.refused = missed.refused
    BY <1>8 DEF LoseEvents, Leaves, watcher, TypeOK
  <2>. QED BY <1>2, <1>5, <2>1
<1>9. CASE Discard \/ DropEntity
  BY <1>2, <1>3, <1>9 DEF Discard, DropEntity
<1>10. CASE PumpLists
  <2>1. watched' = watched /\ missed'.listed = known' \ (watched \cup Excluded)
    BY <1>10 DEF PumpLists, Leaves, TypeOK
  <2>. QED BY <2>1
<1>11. CASE PumpBatch
  <2>1. pump = "running"
    BY <1>11 DEF PumpBatch
  <2>2. PICK found, subscribed :
          /\ known' = known \cup found /\ watched' = watched \cup subscribed
          /\ missed'.listed = missed.listed
          /\ missed'.refused = missed.refused \cup (found \ subscribed)
    BY <1>4, <1>11, <2>1 DEF PumpBatch, TypeOK
  <2>. QED BY <1>4, <2>1, <2>2
<1>. QED BY <1>6, <1>7, <1>8, <1>9, <1>10, <1>11 DEF Next, Threads

LEMMA WatchInitially == Init => WatchInv
<1>. SUFFICES ASSUME Init PROVE WatchInv
  OBVIOUS
<1>1. FlagsTyped
  <2>1. alive \in BOOLEAN
    BY Zenon DEF Init
  <2>. QED BY <2>1 DEF Init, FlagsTyped
<1>2. FilesTyped
  BY WatchAssumption DEF Init, FilesTyped
<1>3. HopsTyped
  <2>1. mailbox \in [pending : SUBSET Aspect, disconnected : BOOLEAN]
    BY DEF Init
  <2>. QED BY <2>1, NothingHeld DEF Init, HopsTyped
<1>4. SetupOK /\ EndsOK /\ NoSubscriptionOutlives /\ ChildrenSeen /\ KnownWatched
  BY DEF Init, SetupOK, EndsOK, NoSubscriptionOutlives, ChildrenSeen, KnownWatched, Preparing
<1>. QED BY <1>1, <1>2, <1>3, <1>4, WatchTypeParts DEF WatchInv

LEMMA WatchKept == WatchInv /\ [Next]_watchVars => WatchInv'
<1>. SUFFICES ASSUME WatchInv, [Next]_watchVars PROVE WatchInv'
  OBVIOUS
<1>1. FlagsTyped' /\ FilesTyped' /\ HopsTyped'
  BY WatchTypeParts, FlagsStayTyped, FilesStayTyped, HopsStayTyped DEF WatchInv
<1>2. TypeOK'
  BY <1>1 DEF TypeOK, FlagsTyped, FilesTyped, HopsTyped
<1>3. SetupOK' /\ EndsOK' /\ NoSubscriptionOutlives' /\ ChildrenSeen' /\ KnownWatched'
  BY SetupKept, EndsKept, SubscriptionsKept, ChildrenKept, KnownKept DEF WatchInv
<1>. QED BY <1>2, <1>3 DEF WatchInv

(* The inductive invariant: how far the set-up has come fixes which threads
   run and which roots are subscribed to (watch, RepositoryWatcher). *)
THEOREM WatchSafety == Spec => []WatchInv
BY WatchInitially, WatchKept, PTL DEF Spec

(* The threads, the queues between them and the subscriptions stay in their
   types; only changes that name an aspect are ever sent. *)
THEOREM WatchTypeCorrect == Spec => []TypeOK
<1>1. WatchInv => TypeOK
  BY DEF WatchInv
<1>. QED BY <1>1, WatchSafety, PTL

(* No subscription outlives the entity or a set-up that failed, and while the
   watch is live all its threads are (Shared::stop, start_watching). *)
THEOREM SubscriptionsEnd == Spec => []NoSubscriptionOutlives
<1>1. WatchInv => NoSubscriptionOutlives
  BY DEF WatchInv
<1>. QED BY <1>1, WatchSafety, PTL

(* Once nothing is on its way, every entry of a root has a subscription of its
   own, or one of the three reasons to have none
   (discover_new_top_level_child). *)
THEOREM ChildrenAreExamined == Spec => []NewChildrenAreExamined
<1>1. WatchInv => NewChildrenAreExamined
  <2>. SUFFICES ASSUME WatchInv, Quiet,
                       NEW c \in ChildrenOf("workingTree") \cup ChildrenOf("gitDir"), c \notin Excluded
                PROVE  c \in watched \cup UNION {missed[why] : why \in DOMAIN missed}
    BY DEF NewChildrenAreExamined, WatchableChildren
  <2>1. window.paths = {} /\ ElementPaths(raw) = {}
    BY ElementsOfNone, NothingHeld DEF Quiet, ElementPaths
  <2>2. c \in known \cup missed.dropped
    BY <2>1 DEF WatchInv, ChildrenSeen, Quiet
  <2>3. c \in watched \cup missed.dropped \cup missed.listed \cup missed.refused
    BY <2>2 DEF WatchInv, KnownWatched, Quiet
  <2>4. DOMAIN missed = {"dropped", "listed", "refused"}
    BY DEF WatchInv, TypeOK
  <2>. QED BY <2>3, <2>4
<1>. QED BY <1>1, WatchSafety, PTL

----------------------------------------------------------------------------
(* One signal that never forgets *)

Watching == alive /\ setup # "failed"

(* What is owed at each hop. *)
OwedInRaw(s) == UNION {ChangeFromBatch(b) : b \in ElementsOf(s)}
OwedInChannel(s) == UNION ElementsOf(s)

LEMMA OwedByHop ==
  Owed = IF Watching
         THEN ChangeFromBatch(window) \cup OwedInRaw(raw) \cup OwedInChannel(channel)
                \cup mailbox.pending
         ELSE {}
BY DEF Owed, Watching, OwedInRaw, OwedInChannel

LEMMA OwedAreAspects ==
  ASSUME HopsTyped
  PROVE  Owed \subseteq Aspect
<1>1. ChangeFromBatch(window) \subseteq Aspect
  BY ChangesAreAspects DEF HopsTyped
<1>2. OwedInRaw(raw) \subseteq Aspect
  <2>1. ElementsOf(raw) \subseteq Batch
    BY ElementsTyped DEF HopsTyped
  <2>. QED BY <2>1, ChangesAreAspects DEF OwedInRaw
<1>3. OwedInChannel(channel) \subseteq Aspect
  <2>1. ElementsOf(channel) \subseteq SUBSET Aspect
    BY ElementsTyped DEF HopsTyped
  <2>. QED BY <2>1 DEF OwedInChannel
<1>4. mailbox.pending \subseteq Aspect
  BY DEF HopsTyped
<1>. QED BY <1>1, <1>2, <1>3, <1>4, OwedByHop

(* The hops keep what they pass on. *)
LEMMA HopsOwe ==
  /\ \A s \in Seq(Batch), b \in Batch :
       OwedInRaw(Append(s, b)) = OwedInRaw(s) \cup ChangeFromBatch(b)
  /\ \A s \in Seq(Batch) : s # <<>> =>
       OwedInRaw(s) = ChangeFromBatch(Head(s)) \cup OwedInRaw(Tail(s))
  /\ \A s \in Seq((SUBSET Aspect) \ {{}}), change \in (SUBSET Aspect) \ {{}} :
       OwedInChannel(Append(s, change)) = OwedInChannel(s) \cup change
  /\ \A s \in Seq((SUBSET Aspect) \ {{}}) : s # <<>> =>
       OwedInChannel(s) = Head(s) \cup OwedInChannel(Tail(s))
<1>1. \A S, b : UNION {ChangeFromBatch(d) : d \in S \cup {b}}
                  = (UNION {ChangeFromBatch(d) : d \in S}) \cup ChangeFromBatch(b)
  <2>1. \A S, b : {ChangeFromBatch(d) : d \in S \cup {b}}
                    = {ChangeFromBatch(d) : d \in S} \cup {ChangeFromBatch(b)}
    OBVIOUS
  <2>2. \A S, x : UNION (S \cup {x}) = (UNION S) \cup x
    OBVIOUS
  <2>. QED BY <2>1, <2>2
<1>2. \A S, x : UNION (S \cup {x}) = (UNION S) \cup x
  OBVIOUS
<1>3. ASSUME NEW s \in Seq(Batch), NEW b \in Batch
      PROVE  OwedInRaw(Append(s, b)) = OwedInRaw(s) \cup ChangeFromBatch(b)
  <2>1. ElementsOf(Append(s, b)) = ElementsOf(s) \cup {b}
    BY ElementsOfAppended
  <2>2. OwedInRaw(Append(s, b)) = UNION {ChangeFromBatch(d) : d \in ElementsOf(s) \cup {b}}
    BY <2>1 DEF OwedInRaw
  <2>. QED BY <1>1, <2>2 DEF OwedInRaw
<1>4. ASSUME NEW s \in Seq(Batch), s # <<>>
      PROVE  OwedInRaw(s) = ChangeFromBatch(Head(s)) \cup OwedInRaw(Tail(s))
  <2>1. ElementsOf(s) = ElementsOf(Tail(s)) \cup {Head(s)}
    BY <1>4, ElementsOfTaken
  <2>2. OwedInRaw(s) = UNION {ChangeFromBatch(d) : d \in ElementsOf(Tail(s)) \cup {Head(s)}}
    BY <2>1 DEF OwedInRaw
  <2>3. OwedInRaw(s) = (UNION {ChangeFromBatch(d) : d \in ElementsOf(Tail(s))})
                         \cup ChangeFromBatch(Head(s))
    BY <1>1, <2>2
  <2>. QED BY <2>3 DEF OwedInRaw
<1>5. ASSUME NEW s \in Seq((SUBSET Aspect) \ {{}}), NEW change \in (SUBSET Aspect) \ {{}}
      PROVE  OwedInChannel(Append(s, change)) = OwedInChannel(s) \cup change
  <2>1. ElementsOf(Append(s, change)) = ElementsOf(s) \cup {change}
    BY ElementsOfAppended
  <2>. QED BY <1>2, <2>1 DEF OwedInChannel
<1>6. ASSUME NEW s \in Seq((SUBSET Aspect) \ {{}}), s # <<>>
      PROVE  OwedInChannel(s) = Head(s) \cup OwedInChannel(Tail(s))
  <2>1. ElementsOf(s) = ElementsOf(Tail(s)) \cup {Head(s)}
    BY <1>6, ElementsOfTaken
  <2>. QED BY <1>2, <2>1 DEF OwedInChannel
<1>. QED BY <1>3, <1>4, <1>5, <1>6

(* Every step of the pipeline notices a change, reports what was owed, gives
   the watch up, or does nothing the view could see. *)
LEMMA PipelineSteps ==
  ASSUME WatchInv, [Next]_watchVars
  PROVE  Signal!Next \/ UNCHANGED Signal!signal
<1>1. /\ HopsTyped /\ window \in Batch /\ raw \in Seq(Batch)
      /\ channel \in Seq((SUBSET Aspect) \ {{}})
      /\ mailbox \in [pending : SUBSET Aspect, disconnected : BOOLEAN]
  BY WatchTypeParts DEF WatchInv, HopsTyped
<1>2. Watching' => Watching
  <2>1. setup' = "failed" \/ setup # "failed"
    BY DEF Next, Create, Remove, Write, Observe, LoseEvents, Threads, Setup, Resolve, WatchRoot,
       ListRoot, RegisterChild, SpawnPump, SetupFails, SetupStep, Leaves, Flush, DebouncerExits,
       PumpLists, PumpBatch, PumpEnds, Receive, Disconnect, Adopt, ReportFailure, Poll, Discard,
       DropEntity, watcher, watchVars
  <2>2. alive' => alive
    BY DEF Next, Create, Remove, Write, Observe, LoseEvents, Threads, Setup, Resolve, WatchRoot,
       ListRoot, RegisterChild, SpawnPump, SetupFails, SetupStep, Leaves, Flush, DebouncerExits,
       PumpLists, PumpBatch, PumpEnds, Receive, Disconnect, Adopt, ReportFailure, Poll, Discard,
       DropEntity, others, watchVars
  <2>. QED BY <2>1, <2>2 DEF Watching
<1>3. ASSUME ~Watching', told' = {} PROVE Signal!Next
  <2>1. Owed' = {}
    BY <1>3 DEF Owed, Watching
  <2>2. (alive /\ setup # "failed")' = FALSE
    BY <1>3 DEF Watching
  <2>. QED BY <1>3, <2>1, <2>2 DEF Signal!Next, Signal!GiveUp
<1>4. ASSUME Watching', told' = {}, NEW change \in SUBSET Aspect, Owed' = Owed \cup change
      PROVE  Signal!Next
  <2>1. (alive /\ setup # "failed")' = (alive /\ setup # "failed") /\ alive /\ setup # "failed"
    BY <1>2, <1>4 DEF Watching
  <2>. QED BY <1>4, <2>1 DEF Signal!Next, Signal!Notice
<1>5. ASSUME Watching', told' = {}, Owed' = Owed PROVE Signal!Next
  <2>1. Owed' = Owed \cup {} /\ {} \in SUBSET Aspect
    BY <1>5
  <2>. QED BY <1>5, <1>4, <2>1
<1>6. ASSUME told' = {}, UNCHANGED <<window, raw, channel, mailbox>> PROVE Signal!Next
  <2>1. CASE Watching'
    <3>1. Owed' = Owed
      BY <1>2, <1>6, <2>1 DEF Owed, Watching, ElementsOf
    <3>. QED BY <1>5, <1>6, <2>1, <3>1
  <2>. QED BY <1>3, <1>6, <2>1
<1>7. CASE UNCHANGED watchVars
  <2>1. UNCHANGED Signal!signal
    BY <1>7 DEF Signal!signal, Owed, ElementsOf, watchVars, watcher, delivery, others
  <2>. QED BY <2>1
<1>8. CASE Setup \/ PumpLists \/ PumpEnds \/ Adopt \/ ReportFailure \/ Discard \/ DropEntity
  BY <1>6, <1>8 DEF Setup, Resolve, WatchRoot, ListRoot, RegisterChild, SpawnPump, SetupFails,
     SetupStep, Leaves, PumpLists, PumpEnds, Adopt, ReportFailure, Discard, DropEntity, delivery
<1>9. CASE \E c \in Child : Create(c) \/ Remove(c) \/ Write(c)
  <2>1. PICK c \in Child : Create(c) \/ Remove(c) \/ Write(c)
    BY <1>9
  <2>. DEFINE grown == [window EXCEPT !.paths = @ \cup {c}]
  <2>2. told' = {} /\ UNCHANGED <<raw, channel, mailbox>> /\ (window' = window \/ window' = grown)
    BY <2>1 DEF Create, Remove, Write, Observe, Leaves
  <2>3. CASE window' = window
    BY <1>6, <2>2, <2>3
  <2>4. CASE window' = grown /\ Watching'
    <3>. DEFINE change == IF window.rescan THEN {} ELSE AspectOf[c]
    <3>1. ChangeFromBatch(window') = ChangeFromBatch(window) \cup change
      BY <1>1, <2>4, WindowGrown
    <3>2. change \in SUBSET Aspect
      BY ChangesAreAspects
    <3>3. Owed' = ChangeFromBatch(window') \cup OwedInRaw(raw) \cup OwedInChannel(channel)
                    \cup mailbox.pending
      BY <2>2, <2>4 DEF Owed, Watching, OwedInRaw, OwedInChannel, ElementsOf
    <3>. HIDE DEF change
    <3>4. Owed' = Owed \cup change
      BY <1>2, <2>4, <3>1, <3>3, OwedByHop
    <3>. QED BY <1>4, <2>2, <2>4, <3>2, <3>4
  <2>. QED BY <1>3, <2>2, <2>3, <2>4
<1>10. CASE LoseEvents
  <2>1. told' = {} /\ window'.rescan /\ window' \in Batch /\ UNCHANGED <<raw, channel, mailbox>>
    BY <1>10 DEF LoseEvents, Leaves, Batch
  <2>2. CASE Watching'
    <3>1. Owed' = ChangeFromBatch(window') \cup OwedInRaw(raw) \cup OwedInChannel(channel)
                    \cup mailbox.pending
      BY <2>1, <2>2 DEF Owed, Watching, OwedInRaw, OwedInChannel, ElementsOf
    <3>2. ChangeFromBatch(window') = Aspect
      BY <2>1, ChangesAreAspects
    <3>3. Owed \subseteq Aspect
      BY <1>1, OwedAreAspects
    <3>4. OwedInRaw(raw) \cup OwedInChannel(channel) \cup mailbox.pending \subseteq Owed
      BY <1>2, <2>2, OwedByHop
    <3>5. Owed' = Owed \cup Aspect
      BY <3>1, <3>2, <3>3, <3>4
    <3>. QED BY <1>4, <2>1, <2>2, <3>5
  <2>. QED BY <1>3, <2>1, <2>2
<1>11. CASE Flush
  <2>1. told' = {} /\ raw' = Append(raw, window) /\ window' = NoEvents /\ UNCHANGED <<channel, mailbox>>
    BY <1>11 DEF Flush, Leaves
  <2>2. CASE Watching'
    <3>1. Owed' = ChangeFromBatch(window') \cup OwedInRaw(raw') \cup OwedInChannel(channel)
                    \cup mailbox.pending
      BY <2>1, <2>2 DEF Owed, Watching, OwedInRaw, OwedInChannel, ElementsOf
    <3>2. ChangeFromBatch(window') = {} /\ OwedInRaw(raw') = OwedInRaw(raw) \cup ChangeFromBatch(window)
      BY <1>1, <2>1, HopsOwe, NothingHeld
    <3>3. Owed' = Owed
      BY <1>2, <2>2, <3>1, <3>2, OwedByHop
    <3>. QED BY <1>5, <2>1, <2>2, <3>3
  <2>. QED BY <1>3, <2>1, <2>2
<1>12. CASE DebouncerExits
  <2>1. told' = {} /\ debouncer = "stopping" /\ alive' = alive /\ setup' = setup
    BY <1>12 DEF DebouncerExits, Leaves, others
  <2>2. ~Watching'
    BY <2>1 DEF WatchInv, EndsOK, Watching
  <2>. QED BY <1>3, <2>1, <2>2
<1>13. CASE PumpBatch
  <2>. DEFINE change == ChangeFromBatch(Head(raw))
  <2>1. /\ told' = {} /\ raw # <<>> /\ raw' = Tail(raw) /\ UNCHANGED <<window, mailbox, receiver>>
        /\ SendChange(change)
    BY <1>13 DEF PumpBatch, Leaves
  <2>2. CASE Watching'
    <3>1. receiver # "ended"
      BY <1>2, <2>2 DEF WatchInv, EndsOK, Watching
    <3>2. channel' = IF change # {} THEN Append(channel, change) ELSE channel
      BY <2>1, <3>1 DEF SendChange
    <3>3. change \in SUBSET Aspect
      BY <1>1, <2>1, ElementsOfTaken, ChangesAreAspects
    <3>4. OwedInRaw(raw) = change \cup OwedInRaw(raw')
      BY <1>1, <2>1, HopsOwe
    <3>5. Owed' = ChangeFromBatch(window) \cup OwedInRaw(raw') \cup OwedInChannel(channel')
                    \cup mailbox.pending
      BY <2>1, <2>2 DEF Owed, Watching, OwedInRaw, OwedInChannel, ElementsOf
    <3>. HIDE DEF change
    <3>6. OwedInChannel(channel') = OwedInChannel(channel) \cup change
      <4>1. CASE change = {}
        BY <3>2, <4>1
      <4>2. CASE change # {}
        BY <1>1, <3>2, <3>3, <4>2, HopsOwe
      <4>. QED BY <4>1, <4>2
    <3>7. Owed' = Owed
      BY <1>2, <2>2, <3>4, <3>5, <3>6, OwedByHop
    <3>. QED BY <1>5, <2>1, <2>2, <3>7
  <2>. QED BY <1>3, <2>1, <2>2
<1>14. CASE Receive
  <2>1. /\ told' = {} /\ channel # <<>> /\ channel' = Tail(channel) /\ UNCHANGED <<window, raw>>
        /\ mailbox'.pending = mailbox.pending \cup Head(channel)
    BY <1>1, <1>14 DEF Receive, Leaves, Merge
  <2>2. CASE Watching'
    <3>1. Owed' = ChangeFromBatch(window) \cup OwedInRaw(raw) \cup OwedInChannel(channel')
                    \cup mailbox'.pending
      BY <2>1, <2>2 DEF Owed, Watching, OwedInRaw, OwedInChannel, ElementsOf
    <3>2. OwedInChannel(channel) = Head(channel) \cup OwedInChannel(channel')
      BY <1>1, <2>1, HopsOwe
    <3>3. Owed' = Owed
      BY <1>2, <2>1, <2>2, <3>1, <3>2, OwedByHop
    <3>. QED BY <1>5, <2>1, <2>2, <3>3
  <2>. QED BY <1>3, <2>1, <2>2
<1>15. CASE Disconnect
  <2>1. told' = {} /\ UNCHANGED <<window, raw, channel>> /\ mailbox'.pending = mailbox.pending
    BY <1>1, <1>15 DEF Disconnect, Leaves
  <2>2. CASE Watching'
    <3>1. Owed' = Owed
      BY <1>2, <2>1, <2>2 DEF Owed, Watching, ElementsOf
    <3>. QED BY <1>5, <2>1, <2>2, <3>1
  <2>. QED BY <1>3, <2>1, <2>2
<1>16. CASE Poll
  <2>1. /\ told' = mailbox.pending /\ mailbox'.pending = {} /\ UNCHANGED <<window, raw, channel>>
        /\ UNCHANGED <<alive, setup>> /\ poller = "live"
    BY <1>1, <1>16 DEF Poll, watcher
  <2>2. Watching /\ Watching'
    BY <2>1 DEF WatchInv, EndsOK, Watching
  <2>3. Owed' = ChangeFromBatch(window) \cup OwedInRaw(raw) \cup OwedInChannel(channel)
    BY <2>1, <2>2 DEF Owed, Watching, OwedInRaw, OwedInChannel, ElementsOf
  <2>4. Owed = Owed' \cup mailbox.pending
    BY <2>2, <2>3, OwedByHop
  <2>5. CASE mailbox.pending = {}
    BY <1>5, <2>1, <2>2, <2>4, <2>5
  <2>6. CASE mailbox.pending # {}
    <3>1. mailbox.pending \in (SUBSET Owed) \ {{}}
      BY <2>4, <2>6
    <3>2. Owed' \subseteq Owed /\ Owed \ mailbox.pending \subseteq Owed'
      BY <2>4
    <3>3. (alive /\ setup # "failed")' = (alive /\ setup # "failed") /\ alive /\ setup # "failed"
      BY <2>2 DEF Watching
    <3>4. Signal!Tell
      BY <2>1, <3>1, <3>2, <3>3 DEF Signal!Tell
    <3>. QED BY <3>4 DEF Signal!Next
  <2>. QED BY <2>5, <2>6
<1>. QED BY <1>7, <1>8, <1>9, <1>10, <1>11, <1>12, <1>13, <1>14, <1>15, <1>16 DEF Next, Threads

(* The debouncer's window, the batches, the channel, the mailbox and the poll
   loop together are one signal that coalesces changes, asks for everything
   when events were lost, and forgets nothing (crates/domain/src/watch.rs). *)
THEOREM PipelineForgetsNothing == Spec => ForgetsNothing
<1>1. Init => Signal!Init
  <2>. SUFFICES ASSUME Init PROVE Signal!Init
    OBVIOUS
  <2>1. Owed = {}
    BY ElementsOfNone, NothingHeld DEF Init, Owed
  <2>2. (alive /\ setup # "failed") = TRUE
    BY DEF Init
  <2>. QED BY <2>1, <2>2 DEF Init, Signal!Init
<1>2. WatchInv /\ [Next]_watchVars => [Signal!Next]_(Signal!signal)
  BY PipelineSteps
<1>. QED BY <1>1, <1>2, WatchSafety, PTL DEF Spec, ForgetsNothing, Signal!Spec

============================================================================
