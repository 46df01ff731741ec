--------------------------- MODULE WatchPipeline ---------------------------
(***************************************************************************)
(* How a change of the files of a repository reaches the entity that shows *)
(* it: the watch set-up and the watcher thread of                          *)
(* crates/vcs/src/watch/watcher.rs, and the receiving thread and the poll  *)
(* loop of start_watching in crates/ui/src/repository/state.rs.            *)
(*                                                                         *)
(*   files -> debouncer -> raw -> pump -> channel -> pump_changes          *)
(*         -> mailbox -> poll loop -> RepositoryState::reload              *)
(*                                                                         *)
(* Four threads take part: the background executor (set-up), the watcher   *)
(* thread (pump), the receiving thread (pump_changes) and the frame thread *)
(* (poll loop, and the drop of the entity).  The debouncer is a library.   *)
(***************************************************************************)
EXTENDS Naturals, Sequences, FiniteSets

CONSTANTS
  Child,       \* entries of the watched directories, each a file or directory
  Directory,   \* the children that are directories
  RootOf,      \* the directory each child lies in
  Excluded,    \* .git in the working tree, objects and logs in the Git directory
  NameOf,      \* the name of each child
  Present,     \* the children there when the repository is opened
  MaxTouches,  \* bound: how many times other programs touch a child
  MaxLosses    \* bound: how many times the platform drops events

Root == {"workingTree", "gitDir"}

(* The common directory of a linked worktree, which no root covers. *)
Elsewhere == "commonDir"

Aspect == {"Head", "References", "Index", "WorkingTree"}

ASSUME WatchAssumption ==
  /\ Directory \subseteq Child /\ Excluded \subseteq Child /\ Present \subseteq Child
  /\ RootOf \in [Child -> Root \cup {Elsewhere}]
  /\ NameOf \in [Child -> STRING]
  /\ Child \cap Root = {}
  /\ MaxTouches \in Nat /\ MaxLosses \in Nat

VARIABLES
  exists,     \* the children now on disk
  setup,      \* how far the background set-up of the watch has come
  toWatch,    \* the children it has listed and not yet subscribed to
  watched,    \* roots (not recursive) and children (recursive) subscribed to
  debouncer,  \* "on", "stopping" once taken out of Shared, "gone" with its thread
  window,     \* the events the debouncer holds back
  raw,        \* the batches sent to the watcher thread
  pump,       \* the watcher thread
  known,      \* the children it no longer looks at
  channel,    \* the changes sent to the receiving thread
  receiver,   \* the receiving thread
  mailbox,    \* WatchMailbox
  poller,     \* watch_task
  alive,      \* whether the entity exists
  told,       \* the change the last step asked the entity to reload, or {}
  touches,    \* how many touches there were, for the bound
  losses,     \* how many times events were dropped, for the bound
  missed      \* history variable: the children that get no subscription of
              \* their own, by reason: their events were dropped by the
              \* platform, the pump listed them itself, or it was refused

files == <<exists, touches>>
watcher == <<setup, toWatch, debouncer, watched, pump, known>>
delivery == <<window, raw, channel, receiver, mailbox, poller>>
others == <<alive, losses, missed>>
watchVars == <<files, watcher, delivery, others, told>>

(* A step that asks the entity for nothing and leaves v alone. *)
Leaves(v) == told' = {} /\ UNCHANGED v

----------------------------------------------------------------------------
(* Batches of debounced events: the children touched, and whether an event
   asks for a rescan (or the batch is an error). *)
Batch == [paths : SUBSET Child, rescan : BOOLEAN]

NoEvents == [paths |-> {}, rescan |-> FALSE]

(* classify_git_dir_path, {} for None: a change below a child counts as one of
   the child, a change of a lock file below it as none. *)
ClassifyGitDirPath(name) ==
  CASE name \in {"HEAD", "ORIG_HEAD", "MERGE_HEAD", "REBASE_HEAD", "CHERRY_PICK_HEAD",
                 "rebase-merge", "rebase-apply"} -> {"Head"}
    [] name = "index" -> {"Index"}
    [] name \in {"refs", "packed-refs", "FETCH_HEAD"} -> {"References"}
    [] OTHER -> {}

(* classify_path *)
AspectOf == [c \in Child |->
  CASE RootOf[c] = "gitDir"      -> ClassifyGitDirPath(NameOf[c])
    [] RootOf[c] = "workingTree" -> {"WorkingTree"}
    [] RootOf[c] = Elsewhere     -> {}]

(* change_from_batch, {} for None *)
ChangeFromBatch(batch) ==
  IF batch.rescan THEN Aspect ELSE UNION {AspectOf[c] : c \in batch.paths}

ChildrenOf(root) == {c \in exists : RootOf[c] = root}

Init ==
  /\ exists = Present
  /\ setup = "queued" /\ toWatch = {} /\ watched = {}
  /\ debouncer = "on" /\ window = NoEvents /\ raw = <<>>
  /\ pump = "absent" /\ known = {}
  /\ channel = <<>> /\ receiver = "absent"
  /\ mailbox = [pending |-> {}, disconnected |-> FALSE]
  /\ poller = "waiting" /\ alive = TRUE
  /\ told = {} /\ touches = 0 /\ losses = 0
  /\ missed = [dropped |-> {}, listed |-> {}, refused |-> {}]

----------------------------------------------------------------------------
(* Other programs *)

(* An event of child c, if a subscription covers the path it carries. *)
Observe(c, covered) ==
  /\ touches < MaxTouches /\ touches' = touches + 1
  /\ window' = IF covered THEN [window EXCEPT !.paths = @ \cup {c}] ELSE window
  /\ Leaves(<<watcher, raw, channel, receiver, mailbox, poller, others>>)

Create(c) ==
  /\ c \notin exists /\ exists' = exists \cup {c}
  /\ Observe(c, RootOf[c] \in watched)

Remove(c) ==
  /\ c \in exists /\ exists' = exists \ {c}
  /\ Observe(c, RootOf[c] \in watched \/ c \in watched)

(* A root's own subscription is not recursive: it covers the files beside it,
   not what happens inside a directory. *)
Write(c) ==
  /\ c \in exists /\ UNCHANGED exists
  /\ Observe(c, c \in watched \/ (c \notin Directory /\ RootOf[c] \in watched))

(* The platform reports that events were dropped, or an error: what the
   debouncer was holding is replaced by the request for a rescan. *)
LoseEvents ==
  /\ debouncer = "on" /\ watched # {}
  /\ losses < MaxLosses /\ losses' = losses + 1
  /\ window' = [paths |-> {}, rescan |-> TRUE]
  /\ missed' = [missed EXCEPT !.dropped = @ \cup window.paths]
  /\ Leaves(<<files, watcher, raw, channel, receiver, mailbox, poller, alive>>)

----------------------------------------------------------------------------
(* Setting up, on the background executor *)

(* Mutant: the subscriptions are left in place. *)
StopKeepsSubscriptions == debouncer' = "stopping" /\ UNCHANGED watched

(* Shared::stop: the subscriptions end at once, the debouncer's thread later. *)
Stop == debouncer' = "stopping" /\ watched' = {}

SetupStep(from, to) ==
  /\ setup = from /\ setup' = to
  /\ Leaves(<<files, delivery, known, others>>)

(* watch resolves the Git directory and creates the debouncer. *)
Resolve ==
  /\ SetupStep("queued", "resolved")
  /\ UNCHANGED <<toWatch, watched, debouncer, pump>>

WatchRoot(root, from, to) ==
  /\ SetupStep(from, to)
  /\ watched' = watched \cup {root}
  /\ UNCHANGED <<toWatch, debouncer, pump>>

ListRoot(root, from, to) ==
  /\ toWatch = {}
  /\ SetupStep(from, to)
  /\ toWatch' = ChildrenOf(root) \ Excluded
  /\ UNCHANGED <<watched, debouncer, pump>>

RegisterChild(phase) ==
  /\ SetupStep(phase, phase)
  /\ \E c \in toWatch :
       /\ c \in exists
       /\ toWatch' = toWatch \ {c}
       /\ watched' = watched \cup {c}
  /\ UNCHANGED <<debouncer, pump>>

(* The watcher thread is started and the guard returned. *)
SpawnPump ==
  /\ toWatch = {}
  /\ SetupStep("gitDirListed", "returned")
  /\ pump' = "starting"
  /\ UNCHANGED <<toWatch, watched, debouncer>>

(* Any path may be refused, and one that vanished since it was listed is. *)
SetupFails ==
  /\ \E from \in {"resolved", "treeWatched", "rootsWatched",
                  "treeListed", "gitDirListed"} : SetupStep(from, "failed")
  /\ Stop /\ toWatch' = {}
  /\ UNCHANGED pump

Setup ==
  \/ Resolve
  \/ WatchRoot("workingTree", "resolved", "treeWatched")
  \/ WatchRoot("gitDir", "treeWatched", "rootsWatched")
  \/ ListRoot("workingTree", "rootsWatched", "treeListed")
  \/ RegisterChild("treeListed")
  \/ ListRoot("gitDir", "treeListed", "gitDirListed")
  \/ RegisterChild("gitDirListed")
  \/ SpawnPump
  \/ SetupFails

----------------------------------------------------------------------------
(* The debouncer, a library *)

Flush ==
  /\ debouncer = "on" /\ window # NoEvents
  /\ raw' = Append(raw, window) /\ window' = NoEvents
  /\ Leaves(<<files, watcher, channel, receiver, mailbox, poller, others>>)

DebouncerExits ==
  /\ debouncer = "stopping" /\ debouncer' = "gone"
  /\ window' = NoEvents
  /\ Leaves(<<files, setup, toWatch, watched, pump, known, raw, channel,
              receiver, mailbox, poller, others>>)

----------------------------------------------------------------------------
(* The watcher thread *)

(* Its own listing of the roots, later than the set-up's: what is here for the
   first time is taken as known, and never subscribed to. *)
PumpLists ==
  /\ pump = "starting" /\ pump' = "running"
  /\ known' = ChildrenOf("workingTree") \cup ChildrenOf("gitDir")
  /\ missed' = [missed EXCEPT !.listed = known' \ (watched \cup Excluded)]
  /\ Leaves(<<files, setup, toWatch, watched, debouncer, delivery, alive, losses>>)

(* Mutant: only the Git directory's new children are looked at. *)
DiscoverInGitDir(batch) ==
  {c \in batch.paths : RootOf[c] = "gitDir" /\ c \in exists \ (Excluded \cup known)}

(* discover_new_top_level_child, for every path of a batch *)
Discover(batch) ==
  {c \in batch.paths : RootOf[c] \in Root /\ c \in exists \ (Excluded \cup known)}

(* Mutant: a change is sent even when there is nothing to report. *)
SendAlways(change) == channel' = Append(channel, change) /\ UNCHANGED pump

(* A send fails, and the thread ends, once the receiving end is gone. *)
SendChange(change) ==
  IF change # {} /\ receiver = "ended"
  THEN pump' = "ended" /\ UNCHANGED channel
  ELSE /\ channel' = IF change # {} THEN Append(channel, change) ELSE channel
       /\ UNCHANGED pump

(* The subscription to a new child may fail silently, and does nothing once
   the guard is dropped. *)
PumpBatch ==
  /\ pump = "running" /\ raw # <<>>
  /\ raw' = Tail(raw)
  /\ LET found == Discover(Head(raw))
     IN /\ known' = known \cup found
        /\ \E subscribed \in {found, {}} :
             /\ watched' = IF debouncer = "on" THEN watched \cup subscribed ELSE watched
             /\ missed' = [missed EXCEPT !.refused = @ \cup (found \ subscribed)]
  /\ SendChange(ChangeFromBatch(Head(raw)))
  /\ Leaves(<<files, setup, toWatch, debouncer, window, receiver, mailbox,
              poller, alive, losses>>)

(* The debouncer's thread was the only sender of batches. *)
PumpEnds ==
  /\ pump = "running" /\ raw = <<>> /\ debouncer = "gone"
  /\ pump' = "ended"
  /\ Leaves(<<files, setup, toWatch, watched, debouncer, known, delivery, others>>)

----------------------------------------------------------------------------
(* The receiving thread: pump_changes *)

(* Mutant: a later change replaces the one not collected yet. *)
LaterOf(existing, change) == change

Merge(existing, change) == existing \cup change

Receive ==
  /\ receiver = "running" /\ channel # <<>>
  /\ channel' = Tail(channel)
  /\ mailbox' = [mailbox EXCEPT !.pending = Merge(@, Head(channel))]
  /\ Leaves(<<files, watcher, window, raw, receiver, poller, others>>)

Disconnect ==
  /\ receiver = "running" /\ channel = <<>> /\ pump = "ended"
  /\ receiver' = "ended"
  /\ mailbox' = [mailbox EXCEPT !.disconnected = TRUE]
  /\ Leaves(<<files, watcher, window, raw, channel, poller, others>>)

----------------------------------------------------------------------------
(* The frame thread *)

(* The set-up's answer: the guard is stored on the entity and the receiving
   thread started, or the error is reported and the task ends. *)
Adopt ==
  /\ alive /\ setup = "returned" /\ setup' = "live"
  /\ receiver' = "running" /\ poller' = "live"
  /\ Leaves(<<files, toWatch, watched, debouncer, pump, known, window, raw,
              channel, mailbox, others>>)

ReportFailure ==
  /\ alive /\ setup = "failed" /\ poller = "waiting"
  /\ poller' = "ended"
  /\ Leaves(<<files, watcher, window, raw, channel, receiver, mailbox, others>>)

Poll ==
  /\ poller = "live"
  /\ told' = mailbox.pending
  /\ mailbox' = [mailbox EXCEPT !.pending = {}]
  /\ poller' = IF mailbox.disconnected THEN "ended" ELSE "live"
  /\ UNCHANGED <<files, watcher, window, raw, channel, receiver, alive, losses, missed>>

(* The entity is dropped with its watch_task and its guard.  A set-up that
   has begun runs on; what it returns is dropped in Discard. *)
DropEntity ==
  /\ alive /\ alive' = FALSE
  /\ poller' = "ended"
  /\ setup' = IF setup = "queued" THEN "dropped" ELSE setup
  /\ IF setup \in {"queued", "live"} THEN Stop ELSE UNCHANGED <<debouncer, watched>>
  /\ Leaves(<<files, toWatch, pump, known, window, raw, channel, receiver,
              mailbox, losses, missed>>)

(* Mutant: the guard of a window closed meanwhile is leaked. *)
DiscardLeaksGuard ==
  /\ ~ alive /\ setup = "returned" /\ setup' = "dropped"
  /\ receiver' = "ended"
  /\ Leaves(<<files, toWatch, watched, debouncer, pump, known, window, raw,
              channel, mailbox, poller, others>>)

Discard ==
  /\ ~ alive /\ setup = "returned" /\ setup' = "dropped"
  /\ Stop
  /\ receiver' = "ended"
  /\ Leaves(<<files, toWatch, pump, known, window, raw, channel, mailbox, poller,
              others>>)

Threads ==
  \/ Setup \/ Flush \/ DebouncerExits
  \/ PumpLists \/ PumpBatch \/ PumpEnds \/ Receive \/ Disconnect
  \/ Adopt \/ ReportFailure \/ Poll \/ Discard

Next ==
  \/ \E c \in Child : Create(c) \/ Remove(c) \/ Write(c)
  \/ LoseEvents
  \/ Threads
  \/ DropEntity

(* Every thread keeps running and the frame thread keeps polling; nothing
   makes other programs write, the platform fail or the user close. *)
Fairness ==
  /\ WF_watchVars(Setup)
  /\ WF_watchVars(Flush \/ DebouncerExits)
  /\ WF_watchVars(PumpLists \/ PumpBatch \/ PumpEnds)
  /\ WF_watchVars(Receive \/ Disconnect)
  /\ WF_watchVars(Adopt \/ ReportFailure \/ Discard)
  /\ WF_watchVars(Poll)

Spec == Init /\ [][Next]_watchVars
FairSpec == Spec /\ Fairness

----------------------------------------------------------------------------
(* Properties *)

TypeOK ==
  /\ exists \subseteq Child /\ toWatch \subseteq Child
  /\ watched \subseteq Root \cup Child
  /\ known \subseteq Child
  /\ missed \in [dropped : SUBSET Child, listed : SUBSET Child, refused : SUBSET Child]
  /\ setup \in {"queued", "resolved", "treeWatched", "rootsWatched", "treeListed",
                "gitDirListed", "returned", "live", "failed", "dropped"}
  /\ debouncer \in {"on", "stopping", "gone"}
  /\ window \in Batch /\ raw \in Seq(Batch)
  /\ pump \in {"absent", "starting", "running", "ended"}
  /\ channel \in Seq((SUBSET Aspect) \ {{}})
  /\ receiver \in {"absent", "running", "ended"}
  /\ mailbox \in [pending : SUBSET Aspect, disconnected : BOOLEAN]
  /\ poller \in {"waiting", "live", "ended"}
  /\ alive \in BOOLEAN /\ told \subseteq Aspect
  /\ touches \in 0 .. MaxTouches /\ losses \in 0 .. MaxLosses

ElementsOf(s) == {s[i] : i \in DOMAIN s}

(* Every aspect somewhere between the files and the poll loop. *)
Owed ==
  IF alive /\ setup # "failed"
  THEN ChangeFromBatch(window)
         \cup (UNION {ChangeFromBatch(b) : b \in ElementsOf(raw)})
         \cup (UNION ElementsOf(channel))
         \cup mailbox.pending
  ELSE {}

(* Quiet: the watcher thread runs and nothing is on its way. *)
Quiet == /\ alive /\ pump = "running" /\ window = NoEvents /\ raw = <<>> /\ channel = <<>>
         /\ mailbox.pending = {}

(* The five hops implement one signal that coalesces and never forgets. *)
Signal == INSTANCE ChangeSignal
            WITH owed <- Owed, watching <- alive /\ setup # "failed"

ForgetsNothing == Signal!Spec

(* "What dropping the guard does": subscriptions never outlive the entity or a
   set-up that failed, and while the watch is live both threads run, so the
   view never looks live over a watch that has stopped. *)
NoSubscriptionOutlives ==
  /\ setup \in {"failed", "dropped"} => watched = {} /\ debouncer # "on"
  /\ setup = "live" /\ ~ alive => watched = {} /\ debouncer # "on"
  /\ setup = "live" /\ alive =>
       /\ debouncer = "on" /\ Root \subseteq watched
       /\ pump \in {"starting", "running"} /\ receiver = "running"
       /\ poller = "live"

WatchableChildren == (ChildrenOf("workingTree") \cup ChildrenOf("gitDir")) \ Excluded

(* Once nothing is on its way, whenever an entry of a root was made - before,
   between or after the listings - it has a subscription of its own, unless
   the pump's listing was the first to find it, the platform dropped its event
   or refused the subscription (discover_new_top_level_child). *)
NewChildrenAreExamined ==
  Quiet => WatchableChildren \subseteq watched \cup UNION {missed[why] : why \in DOMAIN missed}

(* "A non-recursive watch on each root additionally catches entries that do not
   exist yet ... so discover_new_top_level_child can promote them once they
   appear" (register_initial_watches): every directory of a root has a
   subscription of its own, unless the platform refused it.  A root's covers
   the files beside it, and nothing inside a directory. *)
NewChildrenAreWatched ==
  Quiet => WatchableChildren \cap Directory \subseteq watched \cup missed.refused

(* What changed is reloaded, unless the window is closed or the platform
   refused the watch. *)
ChangesAreReported ==
  \A a \in Aspect : a \in Owed ~> a \in told \/ ~ alive \/ setup = "failed"

(* Dropping the entity ends every thread, however far the set-up had come. *)
DropEndsThreads ==
  ~ alive ~> /\ debouncer = "gone" /\ watched = {}
             /\ pump \in {"absent", "ended"} /\ receiver \in {"absent", "ended"}
=============================================================================
