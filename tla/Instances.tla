----------------------------- MODULE Instances -----------------------------
(***************************************************************************)
(* Several invocations of gitr and the socket that keeps them to one       *)
(* instance: main in crates/gitr/src/main.rs and instance.rs.              *)
(*                                                                         *)
(* A process stands for an invocation and for the detached copy of itself  *)
(* it relaunches.  It offers its root to the socket, claims the socket, or *)
(* finds it stale and replaces it; the instance that listens opens a       *)
(* window for every root it is handed.  Binding and listening are two      *)
(* system calls of UnixListener::bind.  The project list the processes     *)
(* save on the way is the subject of Workspace.                            *)
(***************************************************************************)
EXTENDS Naturals, Sequences, FiniteSets

CONSTANTS
  Proc,     \* invocations
  Root,     \* repositories they are given or started in
  NoRoot,   \* started outside any repository, with a saved project to show
  Given,    \* Given[p]: what invocation p may be given or started in
  NoFile,   \* no file at the socket's path
  Stale,    \* the socket of a process that ended before the first invocation
  MaxActs   \* bound on windows closed, refused or switched and processes killed

ASSUME InstancesAssumption ==
  /\ NoRoot \notin Root
  /\ Given \in [Proc -> SUBSET (Root \cup {NoRoot})]
  /\ NoFile # Stale /\ {NoFile, Stale} \cap Proc = {}
  /\ MaxActs \in Nat

VARIABLES
  pc,        \* where each process is in main
  root,      \* opened_root
  socket,    \* whose socket the file at the path is
  listening, \* processes with a socket that accepts connections
  backlog,   \* per listening process, connections it has not accepted
  requests,  \* the channel between its serve thread and its window loop
  windows,   \* the windows it has opened, for a root, and what they show now
  handle,    \* the window loop's map from roots to windows, 0 for no entry
  served,    \* invocations whose repository was opened or raised
  dropped,   \* invocations lost with the process that held them, or refused a window
  refused,   \* invocations whose hand-over to the winner found no listener
  acts

vars == <<pc, root, socket, listening, backlog, requests, windows, handle,
          served, dropped, refused, acts>>
queueVars == <<backlog, requests>>
windowVars == <<windows, handle, served>>
lostVars == <<dropped, refused>>

(* Steps of main; an instance has claimed the socket or given up on it. *)
Step == {"idle", "offer", "bind", "probe", "unlink", "rebind", "listen",
         "deliver", "opening", "running", "ended"}
Instance == {p \in Proc : pc[p] \in {"opening", "running"}}
Request == [from : Proc, root : Root]
Window == [root : Root \cup {NoRoot}, shows : Root \cup {NoRoot}, open : BOOLEAN]
OpenWindows(p) == {i \in DOMAIN windows[p] : windows[p][i].open}

InstancesTypeOK ==
  /\ pc \in [Proc -> Step]
  /\ root \in [Proc -> Root \cup {NoRoot}]
  /\ socket \in Proc \cup {NoFile, Stale}
  /\ listening \subseteq Instance
  /\ {backlog, requests} \subseteq [Proc -> Seq(Request)]
  /\ \A p \in Proc \ listening : backlog[p] = <<>> /\ requests[p] = <<>>
  /\ windows \in [Proc -> Seq(Window)]
  /\ handle \in [Proc -> [Root -> Nat]]
  /\ \A p \in Proc, r \in Root : handle[p][r] <= Len(windows[p])
  /\ {served, dropped, refused} \subseteq SUBSET Proc
  /\ acts \in 0..MaxActs

----------------------------------------------------------------------------
Go(p, step) == pc' = [pc EXCEPT ![p] = step]

(* An invocation, attached to its terminal when GITR_FOREGROUND is set by
   hand.  One whose path is not a repository fails before any of this. *)
Launch(p, r, attached) ==
  /\ pc[p] = "idle"
  /\ Go(p, IF attached THEN "bind" ELSE "offer")
  /\ root' = [root EXCEPT ![p] = r]
  /\ UNCHANGED <<socket, listening, queueVars, windowVars, lostVars, acts>>

(* hand_off_to: the connection waits in the listener's backlog; an empty
   path is read as no request (read_request). *)
HandOff(p) ==
  backlog' = IF root[p] = NoRoot THEN backlog
             ELSE [backlog EXCEPT ![socket] =
                     Append(@, [from |-> p, root |-> root[p]])]

(* The first process hands its root over and is done, or relaunches itself
   detached: the copy goes on to claim the socket. *)
Offer(p) ==
  /\ pc[p] = "offer"
  /\ IF socket \in listening
     THEN Go(p, "ended") /\ HandOff(p)
     ELSE Go(p, "bind") /\ UNCHANGED backlog
  /\ UNCHANGED <<root, socket, listening, requests, windowVars, lostVars, acts>>

(* instance::bind, call by call. *)
Bind(p) ==
  /\ pc[p] = "bind"
  /\ IF socket = NoFile
     THEN socket' = p /\ Go(p, "listen")
     ELSE UNCHANGED socket /\ Go(p, "probe")
  /\ UNCHANGED <<root, listening, queueVars, windowVars, lostVars, acts>>

Probe(p) ==
  /\ pc[p] = "probe"
  /\ Go(p, IF socket \in listening THEN "deliver" ELSE "unlink")
  /\ UNCHANGED <<root, socket, listening, queueVars, windowVars, lostVars, acts>>

(* The removal takes whatever lies at the path by now.  When it or the second
   bind fails, the instance opens its window without listening. *)
Unlink(p) ==
  /\ pc[p] = "unlink"
  /\ Go(p, IF socket = NoFile THEN "opening" ELSE "rebind")
  /\ socket' = NoFile
  /\ UNCHANGED <<root, listening, queueVars, windowVars, lostVars, acts>>

(* Mutant: the second bind is tried until the path is free. *)
RebindUntilFree(p) ==
  /\ pc[p] = "rebind" /\ socket = NoFile
  /\ socket' = p /\ Go(p, "listen")
  /\ UNCHANGED <<root, listening, queueVars, windowVars, lostVars, acts>>

Rebind(p) ==
  /\ pc[p] = "rebind"
  /\ IF socket = NoFile
     THEN socket' = p /\ Go(p, "listen")
     ELSE UNCHANGED socket /\ Go(p, "opening")
  /\ UNCHANGED <<root, listening, queueVars, windowVars, lostVars, acts>>

Listen(p) ==
  /\ pc[p] = "listen"
  /\ Go(p, "opening")
  /\ listening' = listening \cup {p}
  /\ UNCHANGED <<root, socket, queueVars, windowVars, lostVars, acts>>

(* The loser of a race hands over; whether that succeeded is not asked. *)
Deliver(p) ==
  /\ pc[p] = "deliver"
  /\ Go(p, "ended")
  /\ IF socket \in listening
     THEN HandOff(p) /\ UNCHANGED refused
     ELSE refused' = refused \cup {p} /\ UNCHANGED backlog
  /\ UNCHANGED <<root, socket, listening, requests, windowVars, dropped, acts>>

----------------------------------------------------------------------------
NewWindow(r) == [root |-> r, shows |-> r, open |-> TRUE]

(* Mutant: the window opened for a root is not entered in the map. *)
OpenUnlisted(p, r) ==
  /\ windows' = [windows EXCEPT ![p] = Append(@, NewWindow(r))]
  /\ handle' = handle

(* open_window; a window opened without a root has no entry in the map. *)
OpenWindow(p, r) ==
  /\ windows' = [windows EXCEPT ![p] = Append(@, NewWindow(r))]
  /\ handle' = IF r = NoRoot THEN handle
               ELSE [handle EXCEPT ![p][r] = Len(windows[p]) + 1]

OpenFirstWindow(p) ==
  /\ pc[p] = "opening"
  /\ Go(p, "running")
  /\ OpenWindow(p, root[p])
  /\ served' = served \cup {p}
  /\ UNCHANGED <<root, socket, listening, queueVars, lostVars, acts>>

(* The serve thread reads one connection after the other. *)
Accept(p) ==
  /\ p \in listening /\ backlog[p] # <<>>
  /\ backlog' = [backlog EXCEPT ![p] = Tail(@)]
  /\ requests' = [requests EXCEPT ![p] = Append(@, Head(backlog[p]))]
  /\ UNCHANGED <<pc, root, socket, listening, windowVars, lostVars, acts>>

(* raise: the window of the map's entry, unless it has been closed; what it
   shows by now is not asked. *)
Raisable(p, r) == handle[p][r] # 0 /\ windows[p][handle[p][r]].open

(* Mutant: a request whose root has a closed window is dropped. *)
HandleTrustingTheMap(p) ==
  LET request == Head(requests[p]) IN
  /\ pc[p] = "running" /\ requests[p] # <<>>
  /\ requests' = [requests EXCEPT ![p] = Tail(@)]
  /\ IF handle[p][request.root] # 0 THEN UNCHANGED <<windows, handle>>
     ELSE OpenWindow(p, request.root)
  /\ served' = IF handle[p][request.root] = 0 \/ Raisable(p, request.root)
               THEN served \cup {request.from} ELSE served
  /\ UNCHANGED <<pc, root, socket, listening, backlog, lostVars, acts>>

(* One turn of the window loop. *)
HandleRequest(p) ==
  LET request == Head(requests[p]) IN
  /\ pc[p] = "running" /\ requests[p] # <<>>
  /\ requests' = [requests EXCEPT ![p] = Tail(@)]
  /\ IF Raisable(p, request.root) THEN UNCHANGED <<windows, handle>>
     ELSE OpenWindow(p, request.root)
  /\ served' = served \cup {request.from}
  /\ UNCHANGED <<pc, root, socket, listening, backlog, lostVars, acts>>

----------------------------------------------------------------------------
(* What the end of p loses: itself if it was still on its way, and whatever
   was handed to it and not handled.  Its socket's file stays. *)
Queue(p) == requests[p] \o backlog[p]
Held(p) == {Queue(p)[i].from : i \in DOMAIN Queue(p)}

(* Mutant: an ended process still accepts what is handed to it. *)
EndStillListening(p) ==
  /\ Go(p, "ended")
  /\ listening' = listening
  /\ backlog' = [backlog EXCEPT ![p] = <<>>]
  /\ requests' = [requests EXCEPT ![p] = <<>>]
  /\ dropped' = dropped \cup Held(p) \cup ({p} \ served)

End(p) ==
  /\ Go(p, "ended")
  /\ listening' = listening \ {p}
  /\ backlog' = [backlog EXCEPT ![p] = <<>>]
  /\ requests' = [requests EXCEPT ![p] = <<>>]
  /\ dropped' = dropped \cup Held(p) \cup ({p} \ served)

Act == acts < MaxActs /\ acts' = acts + 1

(* The platform refuses a window: the first one's expect panics, a later
   one's request is passed over once raise has forgotten a closed window. *)
FirstWindowFails(p) ==
  /\ Act
  /\ pc[p] = "opening"
  /\ End(p)
  /\ UNCHANGED <<root, socket, windowVars, refused>>

RequestFails(p) ==
  LET request == Head(requests[p]) IN
  /\ Act
  /\ pc[p] = "running" /\ requests[p] # <<>> /\ ~Raisable(p, request.root)
  /\ requests' = [requests EXCEPT ![p] = Tail(@)]
  /\ handle' = [handle EXCEPT ![p][request.root] = 0]
  /\ dropped' = dropped \cup {request.from}
  /\ UNCHANGED <<pc, root, socket, listening, backlog, windows, served, refused>>

(* Another project is opened in a window (activate_project of Workspace); the
   map of main is not told. *)
SwitchProject(p, i, r) ==
  /\ Act
  /\ pc[p] = "running" /\ i \in OpenWindows(p)
  /\ windows' = [windows EXCEPT ![p][i].shows = r]
  /\ UNCHANGED <<pc, root, socket, listening, queueVars, handle, served, lostVars>>

(* Closing the last window ends the process (QuitMode::LastWindowClosed). *)
CloseWindow(p, i) ==
  /\ Act
  /\ pc[p] = "running" /\ i \in OpenWindows(p)
  /\ windows' = [windows EXCEPT ![p][i].open = FALSE]
  /\ IF OpenWindows(p) = {i} THEN End(p)
     ELSE UNCHANGED <<pc, listening, queueVars, dropped>>
  /\ UNCHANGED <<root, socket, handle, served, refused>>

(* Quit, or a process killed at any point. *)
Kill(p) ==
  /\ Act
  /\ pc[p] \notin {"idle", "ended"}
  /\ End(p)
  /\ windows' = [windows EXCEPT ![p] = [i \in DOMAIN @ |-> [@[i] EXCEPT !.open = FALSE]]]
  /\ UNCHANGED <<root, socket, handle, served, refused>>

----------------------------------------------------------------------------
Main(p) == \/ Offer(p) \/ Bind(p) \/ Probe(p) \/ Unlink(p) \/ Rebind(p)
           \/ Listen(p) \/ Deliver(p) \/ OpenFirstWindow(p) \/ HandleRequest(p)

Init ==
  /\ pc = [p \in Proc |-> "idle"] /\ root = [p \in Proc |-> NoRoot]
  /\ socket \in {NoFile, Stale} /\ listening = {}
  /\ backlog = [p \in Proc |-> <<>>] /\ requests = [p \in Proc |-> <<>>]
  /\ windows = [p \in Proc |-> <<>>]
  /\ handle = [p \in Proc |-> [r \in Root |-> 0]]
  /\ served = {} /\ dropped = {} /\ refused = {} /\ acts = 0

Next ==
  \E p \in Proc :
    \/ \E r \in Given[p], attached \in BOOLEAN : Launch(p, r, attached)
    \/ Main(p)
    \/ Accept(p)
    \/ FirstWindowFails(p)
    \/ RequestFails(p)
    \/ \E i \in OpenWindows(p), r \in Root : SwitchProject(p, i, r)
    \/ \E i \in OpenWindows(p) : CloseWindow(p, i)
    \/ Kill(p)

(* Processes and the serve thread of each run; nobody has to launch, close,
   switch or kill, and no window has to be refused. *)
Fairness == \A p \in Proc : WF_vars(Main(p)) /\ WF_vars(Accept(p))

Spec == Init /\ [][Next]_vars /\ Fairness

----------------------------------------------------------------------------
(* An instance never has two open windows it opened for one repository,
   through closings, refusals and requests in any order (raise, the map of
   main).  What a window was switched to since is not asked, as in raise. *)
OneWindowPerRoot ==
  \A p \in Proc : \A i, j \in OpenWindows(p) :
    windows[p][i].root = windows[p][j].root /\ windows[p][i].root # NoRoot => i = j

(* An invocation that ended with a repository to show has its answer (a
   window, or a loss with a known cause) or waits at a process that still
   listens; and it is answered once: who waits has no answer yet, waits at
   one process, and no answer comes with another (hand_off_to, serve, the
   window loop, and the ends of the process that holds the request). *)
NobodyIsLost ==
  /\ \A q \in Proc : pc[q] = "ended" /\ root[q] # NoRoot =>
       q \in served \cup dropped \cup refused \/ \E p \in listening : q \in Held(p)
  /\ \A p, q \in Proc : q \in Held(p) =>
       /\ pc[q] = "ended" /\ q \notin served \cup dropped \cup refused
       /\ \A o \in Proc \ {p} : q \notin Held(o)
  /\ served \cap (dropped \cup refused) = {} /\ dropped \cap refused = {}

(* Every launch comes to an answer, whatever race it ran into: a window, a
   loss with the process that held it or a window refused, or, as the code
   does not look at the result of the detached copy's hand-over, a silent
   loss (main, hand_off_to, bind, serve). *)
LaunchesSettle ==
  \A p \in Proc : pc[p] # "idle" /\ root[p] # NoRoot
                   ~> p \in served \cup dropped \cup refused

(* "Only ever one detached process", "two invocations racing both reach the
   bind, and the loser hands its path to the winner rather than failing" (the
   module doc of main.rs): as long as nothing has ended and no window was
   refused, one process at most has claimed an instance, and no hand-over of a
   loser finds nobody.  Two claims of a stale socket that meet half way break
   both (bind). *)
RacesHaveOneWinner == acts = 0 => Cardinality(Instance) <= 1 /\ refused = {}

(* "The loser hands its path to the winner rather than failing" (main.rs):
   when nothing has ended and no window was refused, every launch with a
   repository gets its window. *)
EveryLaunchIsServed ==
  \A p \in Proc : pc[p] # "idle" /\ root[p] # NoRoot ~> p \in served \cup dropped

(* "Brings the window already showing `root` to the front" (raise): an
   invocation served is one whose repository a window shows. *)
ServedIsShown ==
  [][\A q \in served' \ served : root[q] # NoRoot =>
       \E p \in Proc : \E i \in OpenWindows(p)' : windows'[p][i].shows = root[q]]_vars
=============================================================================
