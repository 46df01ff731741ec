------------------------- MODULE WatchedRepository -------------------------
(***************************************************************************)
(* A local repository opened with its watcher: RepositoryState::open       *)
(* starts the three reads and the set-up of the watch side by side         *)
(* (crates/ui/src/repository/state.rs), and the poll loop of the watch     *)
(* calls reload.  The user is left out here: the window is open and        *)
(* nothing but the watch asks for anything.                                *)
(***************************************************************************)
EXTENDS RepositoryState

CONSTANTS Child, Directory, RootOf, Excluded, NameOf, Present, MaxTouches

VARIABLES exists, setup, toWatch, watched, debouncer, window, raw, pump, known,
          channel, receiver, mailbox, poller, alive, told, touches, losses,
          missed,
          coveredFrom  \* history variable: the version on disk once every
                       \* subscription was made, 0 before

(* Dropped events are examined in WatchPipeline: they ask for everything, which
   is no less than the change they stand for. *)
Watch == INSTANCE WatchPipeline WITH MaxLosses <- 0

ASSUME WatchedAssumption ==
  /\ Directory \subseteq Child /\ Excluded \subseteq Child /\ Present \subseteq Child
  /\ RootOf \in [Child -> Watch!Root \cup {Watch!Elsewhere}]
  /\ NameOf \in [Child -> STRING]
  /\ MaxTouches \in Nat

watchVars == <<exists, setup, toWatch, watched, debouncer, window, raw, pump, known,
               channel, receiver, mailbox, poller, alive, told, touches, losses,
               missed>>

everything == <<vars, watchVars, coveredFrom>>

----------------------------------------------------------------------------
WatchedInit == Init /\ Watch!Init /\ coveredFrom = 0

(* Git rewrites one of its files: the state of the repository changes with
   it when the file is HEAD or a reference. *)
GitWrites(c) ==
  /\ Watch!Write(c)
  /\ IF Watch!ClassifyGitDirPath(NameOf[c]) \cap {"Head", "References"} # {}
     THEN \E d \in Snapshot : DiskChanges(d)
     ELSE UNCHANGED vars
  /\ UNCHANGED coveredFrom

(* A poll that finds a change reloads in the same update. *)
PollAndReload ==
  /\ Watch!Poll
  /\ IF told' # {} THEN ReloadBody(told') /\ UNCHANGED calls ELSE UNCHANGED vars
  /\ UNCHANGED coveredFrom

SetUp ==
  /\ Watch!Setup
  /\ coveredFrom' = IF setup' = "returned" THEN Len(disk) ELSE coveredFrom
  /\ UNCHANGED vars

Relay(A) == A /\ UNCHANGED <<vars, coveredFrom>>

Read(A) == A /\ UNCHANGED <<watchVars, coveredFrom>>

(* The entity is never dropped here, so its threads never end. *)
WatchedNext ==
  \/ \E c \in Child : GitWrites(c)
  \/ PollAndReload
  \/ SetUp
  \/ Relay(Watch!Flush)
  \/ Relay(Watch!DebouncerExits)
  \/ Relay(Watch!PumpLists)
  \/ Relay(Watch!PumpBatch)
  \/ Relay(Watch!Receive)
  \/ Relay(Watch!Adopt)
  \/ Relay(Watch!ReportFailure)
  \/ \E s \in Slot : Read(ReadDisk(s))
  \/ Read(Apply)

WatchedFairness ==
  /\ WF_everything(PollAndReload)
  /\ WF_everything(SetUp)
  /\ WF_everything(Relay(Watch!Flush))
  /\ WF_everything(Relay(Watch!PumpLists \/ Watch!PumpBatch))
  /\ WF_everything(Relay(Watch!Receive))
  /\ WF_everything(Relay(Watch!Adopt \/ Watch!ReportFailure))
  /\ \A s \in RepositorySlot : WF_everything(Read(ReadDisk(s)))
  /\ \A s \in {"head", "references"} : WF_everything(Read(ApplySimple(s)))
  /\ WF_everything(Read(ApplyHistory))

WatchedSpec == WatchedInit /\ [][WatchedNext]_everything
FairWatchedSpec == WatchedSpec /\ WatchedFairness

----------------------------------------------------------------------------
(* Properties *)

(* Nothing is on its way from the files to the view. *)
Settled == /\ setup = "live" /\ Watch!Quiet
           /\ \A s \in Slot : tasks[s] = {}

Shows(s) == disk[view[s].at] = disk[Len(disk)]

(* The window catches up: a change made after the watch covers the repository
   is what every view ends up showing, however it races the reads under way,
   the debouncer, the mailbox and the poll. *)
FreshAfterCoveredChange ==
  Settled /\ Len(disk) > coveredFrom
    => \A s \in RepositorySlot : IsReady(view[s]) => view[s].at = Len(disk)

(* "Without this, every view is stale until something forces a reload": with
   the watch live and nothing on its way, no view is stale. *)
NoViewIsStale ==
  Settled => \A s \in RepositorySlot : IsReady(view[s]) => Shows(s)

(* Once the watch is live the window settles, when other programs rest. *)
WindowSettles == setup = "live" ~> Settled
=============================================================================
