-------------------------- MODULE InstancesProofs --------------------------
(***************************************************************************)
(* Proofs about Instances, for any number of invocations, any repositories *)
(* they are given and any number of acts.                                  *)
(***************************************************************************)
EXTENDS Instances, FiniteSetTheorems, TLAPS

(* No window is there before the first one is opened, and the entry of the
   map for the root of an open window leads to that window. *)
MapLeadsToOpen ==
  \A p \in Proc :
    /\ pc[p] \notin {"running", "ended"} => windows[p] = <<>>
    /\ \A i \in OpenWindows(p) :
         windows[p][i].root # NoRoot => handle[p][windows[p][i].root] = i

(* Nobody waits twice at one process, and only an instance and what it held
   have been answered. *)
Distinct(queue) == \A i, j \in DOMAIN queue : queue[i].from = queue[j].from => i = j
AnsweredOnce ==
  /\ NobodyIsLost
  /\ \A p \in Proc : Distinct(Queue(p))
  /\ \A p \in served : pc[p] \in {"running", "ended"}
  /\ \A p \in dropped \cup refused : pc[p] = "ended"

InstancesInv == InstancesTypeOK /\ MapLeadsToOpen /\ AnsweredOnce

(* What one invocation, its detached copy or its threads may do. *)
ProcessStep(p) ==
  \/ \E r \in Given[p], attached \in BOOLEAN : Launch(p, r, attached)
  \/ Main(p) \/ Accept(p)
  \/ FirstWindowFails(p) \/ RequestFails(p)
  \/ \E i \in OpenWindows(p), r \in Root : SwitchProject(p, i, r)
  \/ \E i \in OpenWindows(p) : CloseWindow(p, i)
  \/ Kill(p)

----------------------------------------------------------------------------
(* Windows *)

(* Opening and closing windows keeps the places of the others. *)
LEMMA WindowOpened ==
  ASSUME NEW w \in Seq(Window), NEW r \in Root \cup {NoRoot}
  PROVE  LET opened == Append(w, NewWindow(r)) IN
         /\ opened \in Seq(Window) /\ Len(opened) = Len(w) + 1
         /\ opened[Len(w) + 1] = NewWindow(r)
         /\ \A i \in DOMAIN w : opened[i] = w[i]
         /\ DOMAIN opened = DOMAIN w \cup {Len(w) + 1}
<1>1. NewWindow(r) \in Window
  BY DEF NewWindow, Window
<1>. QED BY <1>1

LEMMA WindowClosed ==
  ASSUME NEW w \in Seq(Window), NEW i \in DOMAIN w
  PROVE  LET closed == [w EXCEPT ![i].open = FALSE] IN
         /\ closed \in Seq(Window) /\ Len(closed) = Len(w) /\ DOMAIN closed = DOMAIN w
         /\ \A j \in DOMAIN w : /\ closed[j].root = w[j].root
                                /\ closed[j].open => w[j].open
<1>. DEFINE closed == [w EXCEPT ![i].open = FALSE]
<1>1. \A j \in DOMAIN w : w[j] \in Window
  OBVIOUS
<1>2. \A j \in DOMAIN w : closed[j] = IF j = i THEN [w[i] EXCEPT !.open = FALSE] ELSE w[j]
  OBVIOUS
<1>3. [w[i] EXCEPT !.open = FALSE] \in Window /\ [w[i] EXCEPT !.open = FALSE].root = w[i].root
      /\ ~[w[i] EXCEPT !.open = FALSE].open
  BY <1>1 DEF Window
<1>4. DOMAIN closed = 1 .. Len(w) /\ \A j \in 1 .. Len(w) : closed[j] \in Window
  BY <1>1, <1>2, <1>3
<1>5. closed \in [1 .. Len(w) -> Window]
  BY <1>4
<1>6. closed \in Seq(Window) /\ Len(closed) = Len(w)
  BY <1>5
<1>. HIDE DEF closed
<1>. QED BY <1>1, <1>2, <1>3, <1>4, <1>6 DEF closed

LEMMA WindowSwitched ==
  ASSUME NEW w \in Seq(Window), NEW i \in DOMAIN w, NEW r \in Root
  PROVE  LET switched == [w EXCEPT ![i].shows = r] IN
         /\ switched \in Seq(Window) /\ Len(switched) = Len(w) /\ DOMAIN switched = DOMAIN w
         /\ \A j \in DOMAIN w : switched[j].root = w[j].root /\ switched[j].open = w[j].open
<1>. DEFINE switched == [w EXCEPT ![i].shows = r]
<1>1. \A j \in DOMAIN w : w[j] \in Window
  OBVIOUS
<1>2. \A j \in DOMAIN w : switched[j] = IF j = i THEN [w[i] EXCEPT !.shows = r] ELSE w[j]
  OBVIOUS
<1>3. /\ [w[i] EXCEPT !.shows = r] \in Window
      /\ [w[i] EXCEPT !.shows = r].root = w[i].root
      /\ [w[i] EXCEPT !.shows = r].open = w[i].open
  BY <1>1 DEF Window
<1>4. DOMAIN switched = 1 .. Len(w) /\ \A j \in 1 .. Len(w) : switched[j] \in Window
  BY <1>1, <1>2, <1>3
<1>5. switched \in [1 .. Len(w) -> Window]
  BY <1>4
<1>6. switched \in Seq(Window) /\ Len(switched) = Len(w)
  BY <1>5
<1>. HIDE DEF switched
<1>. QED BY <1>1, <1>2, <1>3, <1>4, <1>6 DEF switched

LEMMA WindowsClosed ==
  ASSUME NEW w \in Seq(Window)
  PROVE  LET closed == [j \in DOMAIN w |-> [w[j] EXCEPT !.open = FALSE]] IN
         /\ closed \in Seq(Window) /\ Len(closed) = Len(w) /\ DOMAIN closed = DOMAIN w
         /\ \A j \in DOMAIN w : ~closed[j].open
<1>. DEFINE closed == [j \in DOMAIN w |-> [w[j] EXCEPT !.open = FALSE]]
<1>1. \A j \in DOMAIN w : [w[j] EXCEPT !.open = FALSE] \in Window
                          /\ ~[w[j] EXCEPT !.open = FALSE].open
  <2>. TAKE j \in DOMAIN w
  <2>1. w[j] \in Window
    OBVIOUS
  <2>. QED BY <2>1 DEF Window
<1>2. closed \in [1 .. Len(w) -> Window]
  BY <1>1
<1>3. closed \in Seq(Window) /\ Len(closed) = Len(w)
  BY <1>2
<1>. QED BY <1>1, <1>3

----------------------------------------------------------------------------
(* Types *)

ProcessesTyped ==
  /\ pc \in [Proc -> Step] /\ root \in [Proc -> Root \cup {NoRoot}]
  /\ socket \in Proc \cup {NoFile, Stale}
  /\ {served, dropped, refused} \subseteq SUBSET Proc
  /\ acts \in 0..MaxActs
QueuesTyped ==
  /\ listening \subseteq Instance
  /\ {backlog, requests} \subseteq [Proc -> Seq(Request)]
  /\ \A p \in Proc \ listening : backlog[p] = <<>> /\ requests[p] = <<>>
WindowsTyped ==
  /\ windows \in [Proc -> Seq(Window)]
  /\ handle \in [Proc -> [Root -> Nat]]
  /\ \A p \in Proc, r \in Root : handle[p][r] <= Len(windows[p])

LEMMA TypeParts == InstancesTypeOK <=> ProcessesTyped /\ QueuesTyped /\ WindowsTyped
BY DEF InstancesTypeOK, ProcessesTyped, QueuesTyped, WindowsTyped

(* What waits at a process has been sent by another for a repository. *)
LEMMA QueueFacts ==
  ASSUME QueuesTyped
  PROVE  \A p \in Proc :
           /\ Held(p) \subseteq Proc
           /\ requests[p] # <<>> =>
                /\ Head(requests[p]) \in Request /\ Tail(requests[p]) \in Seq(Request)
                /\ p \in listening
           /\ backlog[p] # <<>> =>
                /\ Head(backlog[p]) \in Request /\ Tail(backlog[p]) \in Seq(Request)
<1>. TAKE p \in Proc
<1>1. backlog[p] \in Seq(Request) /\ requests[p] \in Seq(Request)
  BY DEF QueuesTyped
<1>2. Queue(p) \in Seq(Request)
  BY <1>1 DEF Queue
<1>3. \A i \in DOMAIN Queue(p) : Queue(p)[i] \in Request
  BY <1>2
<1>4. Held(p) \subseteq Proc
  BY <1>3 DEF Held, Request
<1>. QED BY <1>1, <1>4 DEF QueuesTyped

LEMMA ProcessesStayTyped ==
  ASSUME InstancesTypeOK, [Next]_vars
  PROVE  ProcessesTyped'
<1>1. ProcessesTyped /\ QueuesTyped
  BY TypeParts
<1>2. CASE UNCHANGED vars
  BY <1>1, <1>2 DEF vars, ProcessesTyped
<1>. SUFFICES ASSUME NEW p \in Proc, ProcessStep(p)
              PROVE  ProcessesTyped'
  BY <1>2 DEF Next, ProcessStep
<1>3. ASSUME NEW step \in Step, Go(p, step) PROVE pc' \in [Proc -> Step]
  BY <1>1, <1>3 DEF Go, ProcessesTyped
<1>4. {"idle", "offer", "bind", "probe", "unlink", "rebind", "listen", "deliver", "opening",
       "running", "ended"} \subseteq Step
  BY DEF Step
<1>5. CASE \E r \in Given[p], attached \in BOOLEAN : Launch(p, r, attached)
  <2>1. PICK r \in Given[p], attached \in BOOLEAN : Launch(p, r, attached)
    BY <1>5
  <2>2. r \in Root \cup {NoRoot}
    BY InstancesAssumption
  <2>3. pc' \in [Proc -> Step]
    BY <1>3, <1>4, <2>1 DEF Launch
  <2>4. root' \in [Proc -> Root \cup {NoRoot}]
    BY <1>1, <2>1, <2>2 DEF Launch, ProcessesTyped
  <2>. QED BY <1>1, <2>1, <2>3, <2>4 DEF Launch, windowVars, lostVars, ProcessesTyped
<1>6. CASE Main(p)
  <2>1. pc' \in [Proc -> Step]
    BY <1>1, <1>3, <1>4, <1>6 DEF Main, Offer, Bind, Probe, Unlink, Rebind, Listen, Deliver,
       OpenFirstWindow, HandleRequest, ProcessesTyped
  <2>2. root' = root /\ socket' \in {socket, p, NoFile} /\ acts' = acts
    BY <1>6 DEF Main, Offer, Bind, Probe, Unlink, Rebind, Listen, Deliver, OpenFirstWindow,
       HandleRequest
  <2>3. socket' \in Proc \cup {NoFile, Stale}
    BY <1>1, <2>2 DEF ProcessesTyped
  <2>4. requests[p] # <<>> => Head(requests[p]).from \in Proc
    BY <1>1, QueueFacts DEF Request
  <2>5. served' \subseteq Proc /\ dropped' \subseteq Proc /\ refused' \subseteq Proc
    BY <1>1, <1>6, <2>4 DEF Main, Offer, Bind, Probe, Unlink, Rebind, Listen, Deliver,
       OpenFirstWindow, HandleRequest, windowVars, lostVars, ProcessesTyped
  <2>. QED BY <1>1, <2>1, <2>2, <2>3, <2>5 DEF ProcessesTyped
<1>7. CASE Accept(p)
  BY <1>1, <1>7 DEF Accept, windowVars, lostVars, ProcessesTyped
<1>8. ASSUME Act, UNCHANGED <<root, socket, served, refused>>,
             pc' = pc \/ Go(p, "ended"), dropped' \subseteq Proc
      PROVE  ProcessesTyped'
  <2>1. acts' \in 0 .. MaxActs
    BY <1>1, <1>8, InstancesAssumption DEF Act, ProcessesTyped
  <2>2. pc' \in [Proc -> Step]
    BY <1>1, <1>3, <1>4, <1>8 DEF ProcessesTyped
  <2>. QED BY <1>1, <1>8, <2>1, <2>2 DEF ProcessesTyped
<1>9. CASE RequestFails(p)
  <2>1. Head(requests[p]).from \in Proc
    BY <1>1, <1>9, QueueFacts DEF RequestFails, Request
  <2>. QED BY <1>1, <1>8, <1>9, <2>1 DEF RequestFails, ProcessesTyped
<1>10. CASE FirstWindowFails(p) \/ (\E i \in OpenWindows(p) : CloseWindow(p, i)) \/ Kill(p)
            \/ \E i \in OpenWindows(p), r \in Root : SwitchProject(p, i, r)
  <2>1. End(p) \/ UNCHANGED <<pc, dropped>>
    BY <1>10 DEF FirstWindowFails, CloseWindow, Kill, SwitchProject, lostVars
  <2>2. (pc' = pc \/ Go(p, "ended")) /\ dropped' \subseteq Proc
    BY <1>1, <2>1, QueueFacts DEF End, ProcessesTyped
  <2>3. Act /\ UNCHANGED <<root, socket, served, refused>>
    BY <1>10 DEF FirstWindowFails, CloseWindow, Kill, SwitchProject, windowVars, lostVars
  <2>. QED BY <1>8, <2>2, <2>3
<1>. QED BY <1>5, <1>6, <1>7, <1>9, <1>10 DEF ProcessStep

(* Whoever listens is an instance, and stays one until it ends, with nothing
   waiting. *)
LEMMA QueuesStayTyped ==
  ASSUME InstancesTypeOK, [Next]_vars
  PROVE  QueuesTyped'
<1>1. ProcessesTyped /\ QueuesTyped
  BY TypeParts
<1>2. /\ backlog \in [Proc -> Seq(Request)] /\ requests \in [Proc -> Seq(Request)]
      /\ pc \in [Proc -> Step]
  BY <1>1 DEF QueuesTyped, ProcessesTyped
<1>3. CASE UNCHANGED vars
  BY <1>1, <1>3 DEF vars, queueVars, QueuesTyped, Instance
<1>. SUFFICES ASSUME NEW p \in Proc, ProcessStep(p)
              PROVE  QueuesTyped'
  BY <1>3 DEF Next, ProcessStep
<1>4. ASSUME NEW step, Go(p, step), pc[p] \in {"opening", "running"} => step \in {"opening", "running"}
      PROVE  Instance \subseteq Instance'
  BY <1>2, <1>4 DEF Go, Instance
<1>5. ASSUME Instance \subseteq Instance', UNCHANGED <<listening, queueVars>>
      PROVE  QueuesTyped'
  BY <1>1, <1>5 DEF queueVars, QueuesTyped
<1>6. ASSUME HandOff(p), socket \in listening, UNCHANGED <<listening, requests>>,
             Instance \subseteq Instance'
      PROVE  QueuesTyped'
  <2>1. CASE root[p] = NoRoot
    BY <1>5, <1>6, <2>1 DEF HandOff, queueVars
  <2>2. CASE root[p] # NoRoot
    <3>1. [from |-> p, root |-> root[p]] \in Request
      BY <1>1, <2>2 DEF ProcessesTyped, Request
    <3>2. socket \in Proc
      BY <1>1, <1>6 DEF QueuesTyped, Instance
    <3>3. backlog' = [backlog EXCEPT ![socket] = Append(@, [from |-> p, root |-> root[p]])]
      BY <1>6, <2>2 DEF HandOff
    <3>4. Append(backlog[socket], [from |-> p, root |-> root[p]]) \in Seq(Request)
      BY <1>2, <3>1, <3>2
    <3>5. backlog' \in [Proc -> Seq(Request)] /\ \A q \in Proc \ {socket} : backlog'[q] = backlog[q]
      BY <1>2, <3>2, <3>3, <3>4
    <3>. QED BY <1>1, <1>6, <3>5 DEF QueuesTyped
  <2>. QED BY <2>1, <2>2
<1>7. CASE \E r \in Given[p], attached \in BOOLEAN : Launch(p, r, attached)
  BY <1>4, <1>5, <1>7 DEF Launch
<1>8. CASE Main(p)
  <2>1. CASE Offer(p) \/ Deliver(p)
    <3>1. Instance \subseteq Instance'
      BY <1>4, <2>1 DEF Offer, Deliver
    <3>. QED BY <1>5, <1>6, <2>1, <3>1 DEF Offer, Deliver, queueVars
  <2>2. CASE Bind(p) \/ Probe(p) \/ Unlink(p) \/ Rebind(p) \/ OpenFirstWindow(p)
    <3>1. Instance \subseteq Instance'
      BY <1>4, <2>2 DEF Bind, Probe, Unlink, Rebind, OpenFirstWindow
    <3>. QED BY <1>5, <2>2, <3>1 DEF Bind, Probe, Unlink, Rebind, OpenFirstWindow
  <2>3. CASE Listen(p)
    <3>1. Instance \subseteq Instance' /\ p \in Instance'
      BY <1>2, <1>4, <2>3 DEF Listen, Go, Instance
    <3>2. listening' = listening \cup {p} /\ UNCHANGED queueVars
      BY <2>3 DEF Listen
    <3>. QED BY <1>1, <3>1, <3>2 DEF QueuesTyped, queueVars
  <2>4. CASE HandleRequest(p)
    <3>1. Instance' = Instance /\ listening' = listening /\ backlog' = backlog
      BY <2>4 DEF HandleRequest, Instance
    <3>2. requests' \in [Proc -> Seq(Request)] /\ p \in listening
          /\ \A q \in Proc \ {p} : requests'[q] = requests[q]
      BY <1>1, <1>2, <2>4, QueueFacts DEF HandleRequest
    <3>. QED BY <1>1, <3>1, <3>2 DEF QueuesTyped
  <2>. QED BY <1>8, <2>1, <2>2, <2>3, <2>4 DEF Main
<1>9. CASE Accept(p)
  <2>1. Instance' = Instance /\ listening' = listening /\ p \in listening
    BY <1>9 DEF Accept, Instance
  <2>2. Append(requests[p], Head(backlog[p])) \in Seq(Request) /\ Tail(backlog[p]) \in Seq(Request)
    BY <1>1, <1>2, <1>9, QueueFacts DEF Accept
  <2>3. /\ backlog' \in [Proc -> Seq(Request)] /\ requests' \in [Proc -> Seq(Request)]
        /\ \A q \in Proc \ {p} : backlog'[q] = backlog[q] /\ requests'[q] = requests[q]
    BY <1>2, <1>9, <2>2 DEF Accept
  <2>. QED BY <1>1, <2>1, <2>3 DEF QueuesTyped
<1>10. CASE End(p)
  <2>1. <<>> \in Seq(Request)
    OBVIOUS
  <2>2. /\ backlog' \in [Proc -> Seq(Request)] /\ requests' \in [Proc -> Seq(Request)]
        /\ backlog'[p] = <<>> /\ requests'[p] = <<>>
        /\ \A q \in Proc \ {p} : backlog'[q] = backlog[q] /\ requests'[q] = requests[q]
    BY <1>2, <1>10, <2>1 DEF End
  <2>3. Instance \ {p} \subseteq Instance' /\ listening' = listening \ {p}
    BY <1>2, <1>10 DEF End, Go, Instance
  <2>. QED BY <1>1, <2>2, <2>3 DEF QueuesTyped
<1>11. CASE RequestFails(p)
  <2>1. Instance' = Instance /\ listening' = listening /\ backlog' = backlog
    BY <1>11 DEF RequestFails, Instance
  <2>2. requests' \in [Proc -> Seq(Request)] /\ p \in listening
        /\ \A q \in Proc \ {p} : requests'[q] = requests[q]
    BY <1>1, <1>2, <1>11, QueueFacts DEF RequestFails
  <2>. QED BY <1>1, <2>1, <2>2 DEF QueuesTyped
<1>12. CASE FirstWindowFails(p) \/ (\E i \in OpenWindows(p) : CloseWindow(p, i)) \/ Kill(p)
            \/ \E i \in OpenWindows(p), r \in Root : SwitchProject(p, i, r)
  <2>1. End(p) \/ UNCHANGED <<pc, listening, queueVars>>
    BY <1>12 DEF FirstWindowFails, CloseWindow, Kill, SwitchProject
  <2>. QED BY <1>5, <1>10, <2>1 DEF Instance
<1>. QED BY <1>7, <1>8, <1>9, <1>11, <1>12 DEF ProcessStep

(* A window opened at a process has a place of its own in the map. *)
LEMMA OpenWindowKeeps ==
  ASSUME WindowsTyped, NEW p \in Proc, NEW r \in Root \cup {NoRoot}, OpenWindow(p, r)
  PROVE  /\ WindowsTyped'
         /\ \A q \in Proc \ {p} : windows'[q] = windows[q] /\ handle'[q] = handle[q]
         /\ \A i \in OpenWindows(p)' :
              \/ i = Len(windows[p]) + 1 /\ windows'[p][i].root = r
                 /\ (r # NoRoot => handle'[p][r] = i)
              \/ i \in OpenWindows(p) /\ windows'[p][i] = windows[p][i]
         /\ \A s \in Root \ {r} : handle'[p][s] = handle[p][s]
<1>. DEFINE w == windows[p]  opened == Append(w, NewWindow(r))
<1>1. windows \in [Proc -> Seq(Window)] /\ w \in Seq(Window) /\ Len(w) \in Nat
      /\ handle \in [Proc -> [Root -> Nat]] /\ handle[p] \in [Root -> Nat]
  BY DEF WindowsTyped
<1>2. /\ opened \in Seq(Window) /\ Len(opened) = Len(w) + 1
      /\ opened[Len(w) + 1] = NewWindow(r)
      /\ \A i \in DOMAIN w : opened[i] = w[i]
      /\ DOMAIN opened = DOMAIN w \cup {Len(w) + 1}
  BY <1>1, WindowOpened
<1>3. windows' = [windows EXCEPT ![p] = opened]
  BY DEF OpenWindow
<1>. HIDE DEF opened
<1>4. /\ windows' \in [Proc -> Seq(Window)] /\ windows'[p] = opened
      /\ \A q \in Proc \ {p} : windows'[q] = windows[q]
  BY <1>1, <1>2, <1>3
<1>5. /\ handle' \in [Proc -> [Root -> Nat]]
      /\ \A q \in Proc \ {p} : handle'[q] = handle[q]
      /\ r # NoRoot => handle'[p][r] = Len(w) + 1
      /\ \A s \in Root \ {r} : handle'[p][s] = handle[p][s]
  <2>1. CASE r = NoRoot
    BY <1>1, <2>1, InstancesAssumption DEF OpenWindow
  <2>2. CASE r # NoRoot
    <3>1. handle' = [handle EXCEPT ![p] = [handle[p] EXCEPT ![r] = Len(w) + 1]]
      BY <1>1, <2>2 DEF OpenWindow
    <3>2. [handle[p] EXCEPT ![r] = Len(w) + 1] \in [Root -> Nat]
      BY <1>1, <2>2
    <3>. QED BY <1>1, <2>2, <3>1, <3>2
  <2>. QED BY <2>1, <2>2
<1>6. \A q \in Proc, s \in Root : handle'[q][s] <= Len(windows'[q])
  <2>. TAKE q \in Proc, s \in Root
  <2>1. handle[q][s] \in Nat /\ handle[q][s] <= Len(windows[q])
    BY <1>1 DEF WindowsTyped
  <2>2. CASE q # p
    BY <1>4, <1>5, <2>1, <2>2
  <2>3. CASE q = p
    <3>1. handle'[p][s] = Len(w) + 1 \/ handle'[p][s] = handle[p][s]
      BY <1>5, InstancesAssumption
    <3>2. Len(windows'[p]) = Len(w) + 1
      BY <1>2, <1>4
    <3>3. handle'[p][s] <= Len(w) + 1
      BY <1>1, <2>1, <2>3, <3>1
    <3>. QED BY <2>3, <3>2, <3>3
  <2>. QED BY <2>2, <2>3
<1>7. WindowsTyped'
  BY <1>4, <1>5, <1>6 DEF WindowsTyped
<1>8. \A i \in OpenWindows(p)' :
        \/ i = Len(w) + 1
        \/ i \in OpenWindows(p) /\ windows'[p][i] = windows[p][i]
  BY <1>2, <1>4 DEF OpenWindows
<1>9. windows'[p][Len(w) + 1].root = r
  BY <1>2, <1>4 DEF NewWindow
<1>. QED BY <1>4, <1>5, <1>7, <1>8, <1>9

(* The window of the root that is asked for is opened only when none of it is
   open; what closes closes the windows of one process. *)
LEMMA WindowsStayInMap ==
  ASSUME InstancesTypeOK, MapLeadsToOpen, [Next]_vars
  PROVE  WindowsTyped' /\ MapLeadsToOpen'
<1>1. ProcessesTyped /\ QueuesTyped /\ WindowsTyped
  BY TypeParts
<1>2. /\ pc \in [Proc -> Step] /\ root \in [Proc -> Root \cup {NoRoot}]
      /\ windows \in [Proc -> Seq(Window)] /\ handle \in [Proc -> [Root -> Nat]]
  BY <1>1 DEF ProcessesTyped, WindowsTyped
<1>3. CASE UNCHANGED vars
  BY <1>1, <1>3 DEF vars, windowVars, WindowsTyped, MapLeadsToOpen, OpenWindows
<1>. SUFFICES ASSUME NEW p \in Proc, ProcessStep(p)
              PROVE  WindowsTyped' /\ MapLeadsToOpen'
  BY <1>3 DEF Next, ProcessStep
<1>4. ASSUME UNCHANGED <<windows, handle>>,
             pc' = pc \/ \E step : Go(p, step)
                           /\ (step \in {"running", "ended"} \/ pc[p] \notin {"running", "ended"})
      PROVE  WindowsTyped' /\ MapLeadsToOpen'
  <2>1. \A q \in Proc : pc'[q] \notin {"running", "ended"} => pc[q] \notin {"running", "ended"}
    BY <1>2, <1>4 DEF Go
  <2>. QED BY <1>1, <1>4, <2>1 DEF WindowsTyped, MapLeadsToOpen, OpenWindows
<1>5. ASSUME NEW r \in Root \cup {NoRoot}, OpenWindow(p, r),
             \A i \in OpenWindows(p) : windows[p][i].root = r => r = NoRoot,
             pc'[p] = "running", \A q \in Proc \ {p} : pc'[q] = pc[q]
      PROVE  WindowsTyped' /\ MapLeadsToOpen'
  <2>1. /\ WindowsTyped'
        /\ \A q \in Proc \ {p} : windows'[q] = windows[q] /\ handle'[q] = handle[q]
        /\ \A i \in OpenWindows(p)' :
             \/ i = Len(windows[p]) + 1 /\ windows'[p][i].root = r
                /\ (r # NoRoot => handle'[p][r] = i)
             \/ i \in OpenWindows(p) /\ windows'[p][i] = windows[p][i]
        /\ \A s \in Root \ {r} : handle'[p][s] = handle[p][s]
    BY <1>1, <1>5, OpenWindowKeeps
  <2>2. ASSUME NEW i \in OpenWindows(p)', windows'[p][i].root # NoRoot
        PROVE  handle'[p][windows'[p][i].root] = i
    <3>1. CASE windows'[p][i].root = r /\ (r # NoRoot => handle'[p][r] = i)
      BY <2>2, <3>1
    <3>2. CASE i \in OpenWindows(p) /\ windows'[p][i] = windows[p][i]
      <4>1. windows[p][i].root \in Root
        <5>1. windows[p] \in Seq(Window) /\ i \in DOMAIN windows[p]
          BY <1>2, <3>2 DEF OpenWindows
        <5>2. windows[p][i] \in Window
          BY <5>1
        <5>. QED BY <2>2, <3>2, <5>2 DEF Window
      <4>2. windows[p][i].root # r
        BY <1>5, <2>2, <3>2
      <4>3. handle[p][windows[p][i].root] = i
        BY <2>2, <3>2 DEF MapLeadsToOpen
      <4>. QED BY <2>1, <3>2, <4>1, <4>2, <4>3
    <3>. QED BY <2>1, <3>1, <3>2
  <2>3. ASSUME NEW q \in Proc \ {p}
        PROVE  /\ pc'[q] \notin {"running", "ended"} => windows'[q] = <<>>
               /\ \A i \in OpenWindows(q)' :
                    windows'[q][i].root # NoRoot => handle'[q][windows'[q][i].root] = i
    BY <1>5, <2>1 DEF MapLeadsToOpen, OpenWindows
  <2>. QED BY <1>5, <2>1, <2>2, <2>3 DEF MapLeadsToOpen
<1>6. ASSUME NEW closed \in Seq(Window), windows' = [windows EXCEPT ![p] = closed],
             Len(closed) = Len(windows[p]), DOMAIN closed = DOMAIN windows[p],
             \A j \in DOMAIN closed :
                closed[j].open => windows[p][j].open /\ closed[j].root = windows[p][j].root,
             handle' = handle, pc[p] \in {"running", "ended"} \/ pc'[p] = "ended",
             pc' = pc \/ Go(p, "ended")
      PROVE  WindowsTyped' /\ MapLeadsToOpen'
  <2>1. /\ windows' \in [Proc -> Seq(Window)] /\ windows'[p] = closed
        /\ \A q \in Proc \ {p} : windows'[q] = windows[q]
    BY <1>2, <1>6
  <2>2. \A q \in Proc : Len(windows'[q]) = Len(windows[q])
    BY <1>6, <2>1
  <2>3. WindowsTyped'
    BY <1>1, <1>6, <2>1, <2>2 DEF WindowsTyped
  <2>4. pc'[p] \in {"running", "ended"} /\ \A q \in Proc \ {p} : pc'[q] = pc[q]
    BY <1>2, <1>6 DEF Go
  <2>5. \A i \in OpenWindows(p)' :
          windows'[p][i].root # NoRoot => handle'[p][windows'[p][i].root] = i
    BY <1>6, <2>1 DEF MapLeadsToOpen, OpenWindows
  <2>6. ASSUME NEW q \in Proc \ {p}
        PROVE  /\ pc'[q] \notin {"running", "ended"} => windows'[q] = <<>>
               /\ \A i \in OpenWindows(q)' :
                    windows'[q][i].root # NoRoot => handle'[q][windows'[q][i].root] = i
    BY <1>6, <2>1, <2>4 DEF MapLeadsToOpen, OpenWindows
  <2>. QED BY <2>3, <2>4, <2>5, <2>6 DEF MapLeadsToOpen
<1>7. CASE \E r \in Given[p], attached \in BOOLEAN : Launch(p, r, attached)
  BY <1>4, <1>7 DEF Launch, windowVars
<1>8. CASE Main(p)
  <2>1. CASE Offer(p) \/ Bind(p) \/ Probe(p) \/ Unlink(p) \/ Rebind(p) \/ Listen(p) \/ Deliver(p)
    <3>1. \E step : Go(p, step) /\ pc[p] \notin {"running", "ended"}
      BY <2>1 DEF Offer, Bind, Probe, Unlink, Rebind, Listen, Deliver
    <3>2. UNCHANGED <<windows, handle>>
      BY <2>1 DEF Offer, Bind, Probe, Unlink, Rebind, Listen, Deliver, windowVars
    <3>. QED BY <1>4, <3>1, <3>2
  <2>2. CASE OpenFirstWindow(p)
    <3>1. root[p] \in Root \cup {NoRoot} /\ OpenWindow(p, root[p])
      BY <1>2, <2>2 DEF OpenFirstWindow
    <3>2. windows[p] = <<>>
      BY <2>2 DEF OpenFirstWindow, MapLeadsToOpen
    <3>3. OpenWindows(p) = {}
      BY <3>2 DEF OpenWindows
    <3>4. pc'[p] = "running" /\ \A q \in Proc \ {p} : pc'[q] = pc[q]
      BY <1>2, <2>2 DEF OpenFirstWindow, Go
    <3>. QED BY <1>5, <3>1, <3>3, <3>4
  <2>3. CASE HandleRequest(p)
    <3>. DEFINE r == Head(requests[p]).root
    <3>1. r \in Root /\ r \in Root \cup {NoRoot}
      BY <1>1, <2>3, QueueFacts DEF HandleRequest, Request
    <3>2. pc'[p] = "running" /\ pc' = pc
      BY <2>3 DEF HandleRequest
    <3>3. CASE Raisable(p, r)
      BY <1>4, <2>3, <3>2, <3>3 DEF HandleRequest
    <3>4. CASE ~Raisable(p, r)
      <4>1. OpenWindow(p, r)
        BY <2>3, <3>4 DEF HandleRequest
      <4>2. \A i \in OpenWindows(p) : windows[p][i].root # r
        <5>1. SUFFICES ASSUME NEW i \in OpenWindows(p), windows[p][i].root = r PROVE FALSE
          OBVIOUS
        <5>2. handle[p][r] = i
          BY <3>1, <5>1, InstancesAssumption DEF MapLeadsToOpen
        <5>3. i # 0 /\ windows[p][i].open
          BY <1>2, <5>1 DEF OpenWindows
        <5>. QED BY <3>4, <5>2, <5>3 DEF Raisable
      <4>. QED BY <1>5, <3>1, <3>2, <4>1, <4>2
    <3>. QED BY <3>3, <3>4
  <2>. QED BY <1>8, <2>1, <2>2, <2>3 DEF Main
<1>9. CASE Accept(p)
  BY <1>4, <1>9 DEF Accept, windowVars
<1>10. CASE \E i \in OpenWindows(p) : CloseWindow(p, i)
  <2>1. PICK i \in OpenWindows(p) : CloseWindow(p, i)
    BY <1>10
  <2>. DEFINE w == windows[p]  closed == [w EXCEPT ![i].open = FALSE]
  <2>2. i \in DOMAIN w /\ w \in Seq(Window)
    BY <1>2 DEF OpenWindows
  <2>3. /\ closed \in Seq(Window) /\ Len(closed) = Len(w) /\ DOMAIN closed = DOMAIN w
        /\ \A j \in DOMAIN w : /\ closed[j].root = w[j].root
                               /\ closed[j].open => w[j].open
    BY <2>2, WindowClosed
  <2>4. windows' = [windows EXCEPT ![p] = closed]
    BY <2>1 DEF CloseWindow
  <2>5. handle' = handle /\ pc[p] = "running" /\ (pc' = pc \/ Go(p, "ended"))
    BY <2>1 DEF CloseWindow, End
  <2>. HIDE DEF closed
  <2>. QED BY <1>6, <2>3, <2>4, <2>5
<1>11. CASE Kill(p)
  <2>. DEFINE w == windows[p]  closed == [j \in DOMAIN w |-> [w[j] EXCEPT !.open = FALSE]]
  <2>1. w \in Seq(Window)
    BY <1>2
  <2>2. /\ closed \in Seq(Window) /\ Len(closed) = Len(w) /\ DOMAIN closed = DOMAIN w
        /\ \A j \in DOMAIN w : ~closed[j].open
    BY <2>1, WindowsClosed
  <2>3. windows' = [windows EXCEPT ![p] = closed]
    BY <1>11 DEF Kill
  <2>4. handle' = handle /\ Go(p, "ended") /\ pc'[p] = "ended"
    BY <1>2, <1>11 DEF Kill, End, Go
  <2>. HIDE DEF closed
  <2>. QED BY <1>6, <2>2, <2>3, <2>4
<1>12. CASE RequestFails(p)
  <2>. DEFINE r == Head(requests[p]).root
  <2>1. r \in Root
    BY <1>1, <1>12, QueueFacts DEF RequestFails, Request
  <2>2. /\ windows' = windows /\ pc' = pc /\ ~Raisable(p, r)
        /\ handle' = [handle EXCEPT ![p] = [handle[p] EXCEPT ![r] = 0]]
    BY <1>2, <1>12, <2>1 DEF RequestFails
  <2>. HIDE DEF r
  <2>3. [handle[p] EXCEPT ![r] = 0] \in [Root -> Nat] /\ handle' \in [Proc -> [Root -> Nat]]
    BY <1>2, <2>1, <2>2
  <2>4. /\ \A q \in Proc \ {p} : handle'[q] = handle[q]
        /\ handle'[p][r] = 0 /\ \A t \in Root \ {r} : handle'[p][t] = handle[p][t]
    BY <1>2, <2>1, <2>2
  <2>5. WindowsTyped'
    BY <1>1, <1>2, <2>1, <2>2, <2>3, <2>4 DEF WindowsTyped
  <2>6. ASSUME NEW i \in OpenWindows(p), windows[p][i].root # NoRoot
        PROVE  handle'[p][windows[p][i].root] = i
    <3>1. windows[p] \in Seq(Window) /\ i \in DOMAIN windows[p] /\ i # 0 /\ windows[p][i].open
      BY <1>2, <2>6 DEF OpenWindows
    <3>2. windows[p][i] \in Window
      BY <3>1
    <3>3. windows[p][i].root \in Root /\ handle[p][windows[p][i].root] = i
      BY <2>6, <3>2 DEF MapLeadsToOpen, Window
    <3>4. windows[p][i].root # r
      BY <2>2, <3>1, <3>3 DEF Raisable
    <3>. QED BY <2>4, <3>3, <3>4
  <2>7. OpenWindows(p)' = OpenWindows(p)
    BY <2>2 DEF OpenWindows
  <2>8. ASSUME NEW q \in Proc \ {p}
        PROVE  \A i \in OpenWindows(q)' :
                 windows'[q][i].root # NoRoot => handle'[q][windows'[q][i].root] = i
    BY <2>2, <2>4 DEF MapLeadsToOpen, OpenWindows
  <2>. QED BY <2>2, <2>5, <2>6, <2>7, <2>8 DEF MapLeadsToOpen
<1>13. CASE \E i \in OpenWindows(p), r \in Root : SwitchProject(p, i, r)
  <2>1. PICK i \in OpenWindows(p), r \in Root : SwitchProject(p, i, r)
    BY <1>13
  <2>. DEFINE w == windows[p]  switched == [w EXCEPT ![i].shows = r]
  <2>2. i \in DOMAIN w /\ w \in Seq(Window)
    BY <1>2 DEF OpenWindows
  <2>3. /\ switched \in Seq(Window) /\ Len(switched) = Len(w) /\ DOMAIN switched = DOMAIN w
        /\ \A j \in DOMAIN w : switched[j].root = w[j].root /\ switched[j].open = w[j].open
    BY <2>2, WindowSwitched
  <2>4. windows' = [windows EXCEPT ![p] = switched]
    BY <2>1 DEF SwitchProject
  <2>5. handle' = handle /\ pc[p] = "running" /\ pc' = pc
    BY <2>1 DEF SwitchProject
  <2>. HIDE DEF switched
  <2>. QED BY <1>6, <2>3, <2>4, <2>5
<1>14. CASE FirstWindowFails(p)
  BY <1>4, <1>14 DEF FirstWindowFails, End, windowVars
<1>. QED BY <1>7, <1>8, <1>9, <1>10, <1>11, <1>12, <1>13, <1>14 DEF ProcessStep

----------------------------------------------------------------------------
(* The answers *)

From(queue) == {queue[i].from : i \in DOMAIN queue}

(* The queue of a process is its requests before its backlog: accepting a
   connection leaves it alone, a hand-over goes to its end, and the window
   loop takes its head. *)
LEMMA QueueOrder ==
  ASSUME NEW a \in Seq(Request), NEW b \in Seq(Request)
  PROVE  /\ a # <<>> => /\ Tail(a) \o b = Tail(a \o b) /\ Head(a \o b) = Head(a)
                        /\ a \o b # <<>>
         /\ b # <<>> => Append(a, Head(b)) \o Tail(b) = a \o b
         /\ \A m \in Request : a \o Append(b, m) = Append(a \o b, m)
<1>1. ASSUME a # <<>>
      PROVE  Tail(a) \o b = Tail(a \o b) /\ Head(a \o b) = Head(a) /\ a \o b # <<>>
  BY <1>1
<1>2. ASSUME b # <<>> PROVE Append(a, Head(b)) \o Tail(b) = a \o b
  BY <1>2
<1>3. ASSUME NEW m \in Request PROVE a \o Append(b, m) = Append(a \o b, m)
  OBVIOUS
<1>. QED BY <1>1, <1>2, <1>3

LEMMA HeadTaken ==
  ASSUME NEW queue \in Seq(Request), queue # <<>>, Distinct(queue)
  PROVE  /\ Distinct(Tail(queue)) /\ Head(queue).from \in From(queue)
         /\ From(Tail(queue)) = From(queue) \ {Head(queue).from}
<1>1. /\ DOMAIN queue = 1 .. Len(queue) /\ Len(queue) \in Nat \ {0}
      /\ DOMAIN Tail(queue) = 1 .. (Len(queue) - 1)
      /\ \A i \in 1 .. (Len(queue) - 1) : Tail(queue)[i] = queue[i + 1]
      /\ Head(queue) = queue[1]
  OBVIOUS
<1>2. Distinct(Tail(queue))
  BY <1>1 DEF Distinct
<1>3. Head(queue).from \in From(queue)
  BY <1>1 DEF From
<1>4. ASSUME NEW q \in From(Tail(queue)) PROVE q \in From(queue) \ {Head(queue).from}
  <2>1. PICK i \in 1 .. (Len(queue) - 1) : q = queue[i + 1].from
    BY <1>1 DEF From
  <2>2. i + 1 \in DOMAIN queue /\ 1 \in DOMAIN queue /\ i + 1 # 1
    BY <1>1
  <2>. QED BY <1>1, <2>1, <2>2 DEF From, Distinct
<1>5. ASSUME NEW q \in From(queue), q # Head(queue).from PROVE q \in From(Tail(queue))
  <2>1. PICK i \in DOMAIN queue : q = queue[i].from
    BY DEF From
  <2>2. i # 1 /\ i - 1 \in 1 .. (Len(queue) - 1) /\ (i - 1) + 1 = i
    BY <1>1, <1>5, <2>1
  <2>. QED BY <1>1, <2>1, <2>2 DEF From
<1>. QED BY <1>2, <1>3, <1>4, <1>5

LEMMA RequestAppended ==
  ASSUME NEW queue \in Seq(Request), NEW m \in Request, Distinct(queue),
         m.from \notin From(queue)
  PROVE  /\ Distinct(Append(queue, m)) /\ From(Append(queue, m)) = From(queue) \cup {m.from}
<1>1. /\ DOMAIN queue = 1 .. Len(queue) /\ Len(queue) \in Nat
      /\ DOMAIN Append(queue, m) = 1 .. (Len(queue) + 1)
      /\ \A i \in 1 .. Len(queue) : Append(queue, m)[i] = queue[i]
      /\ Append(queue, m)[Len(queue) + 1] = m
  OBVIOUS
<1>2. \A i \in DOMAIN queue : queue[i].from # m.from
  BY DEF From
<1>3. \A i \in 1 .. (Len(queue) + 1) : i \in 1 .. Len(queue) \/ i = Len(queue) + 1
  BY <1>1
<1>. DEFINE appended == Append(queue, m)
<1>4. Distinct(appended)
  <2>. SUFFICES ASSUME NEW i \in 1 .. (Len(queue) + 1), NEW j \in 1 .. (Len(queue) + 1),
                       appended[i].from = appended[j].from
                PROVE  i = j
    BY <1>1 DEF Distinct
  <2>. QED BY <1>1, <1>2, <1>3 DEF Distinct
<1>5. From(appended) = From(queue) \cup {m.from}
  <2>. HIDE DEF appended
  <2>1. ASSUME NEW q \in From(appended) PROVE q \in From(queue) \cup {m.from}
    <3>1. PICK i \in 1 .. (Len(queue) + 1) : q = appended[i].from
      BY <1>1 DEF From, appended
    <3>. QED BY <1>1, <1>3, <3>1 DEF From, appended
  <2>2. \A q \in From(queue) : q \in From(appended)
    <3>. TAKE q \in From(queue)
    <3>1. PICK i \in 1 .. Len(queue) : q = queue[i].from
      BY <1>1 DEF From
    <3>2. i \in DOMAIN appended /\ appended[i] = queue[i]
      BY <1>1, <3>1 DEF appended
    <3>. QED BY <3>1, <3>2 DEF From
  <2>3. m.from \in From(appended)
    BY <1>1 DEF From, appended
  <2>. QED BY <2>1, <2>2, <2>3
<1>. QED BY <1>4, <1>5

(* Each step moves an invocation from one fate to the next: on its way,
   waiting at a listening process, answered. *)
LEMMA AnswersStayOnce ==
  ASSUME InstancesTypeOK, AnsweredOnce, [Next]_vars
  PROVE  AnsweredOnce'
<1>1. ProcessesTyped /\ QueuesTyped
  BY TypeParts
<1>2. /\ pc \in [Proc -> Step] /\ root \in [Proc -> Root \cup {NoRoot}]
      /\ backlog \in [Proc -> Seq(Request)] /\ requests \in [Proc -> Seq(Request)]
      /\ listening \subseteq Proc
      /\ served \subseteq Proc /\ dropped \subseteq Proc /\ refused \subseteq Proc
  BY <1>1 DEF ProcessesTyped, QueuesTyped, Instance
<1>3. \A q \in Proc : /\ Held(q) = From(Queue(q)) /\ Held(q)' = From(Queue(q)')
                       /\ Queue(q) \in Seq(Request) /\ Held(q) \subseteq Proc
  BY <1>1, <1>2, QueueFacts DEF Held, From, Queue
<1>a. /\ \A q \in Proc : pc[q] = "ended" /\ root[q] # NoRoot =>
           q \in served \cup dropped \cup refused \/ \E o \in listening : q \in Held(o)
      /\ \A o, q \in Proc : q \in Held(o) =>
           /\ pc[q] = "ended" /\ q \notin served \cup dropped \cup refused
           /\ \A t \in Proc \ {o} : q \notin Held(t)
  BY DEF AnsweredOnce, NobodyIsLost
<1>4. CASE UNCHANGED vars
  <2>1. /\ UNCHANGED <<pc, root, listening, served, dropped, refused>>
        /\ \A q \in Proc : Queue(q)' = Queue(q)
    BY <1>4 DEF vars, Queue
  <2>2. \A q \in Proc : Held(q)' = Held(q) /\ Distinct(Queue(q))'
    BY <1>3, <2>1 DEF AnsweredOnce, Distinct
  <2>3. NobodyIsLost'
    BY <1>2, <2>1, <2>2 DEF AnsweredOnce, NobodyIsLost
  <2>. QED BY <2>1, <2>2, <2>3 DEF AnsweredOnce
<1>. SUFFICES ASSUME NEW p \in Proc, ProcessStep(p)
              PROVE  AnsweredOnce'
  BY <1>4 DEF Next, ProcessStep
<1>5. \A step : Go(p, step) => pc'[p] = step /\ \A q \in Proc \ {p} : pc'[q] = pc[q]
  BY <1>2 DEF Go
\* Nobody is handed over or answered.
<1>6. ASSUME UNCHANGED lostVars, served' = served, listening \subseteq listening',
             \A q \in Proc : Queue(q)' = Queue(q),
             \A q \in Proc \ {p} : pc'[q] = pc[q] /\ root'[q] = root[q],
             \/ pc'[p] = pc[p] /\ root'[p] = root[p]
             \/ pc[p] \notin {"running", "ended"} /\ pc'[p] # "ended"
      PROVE  AnsweredOnce'
  <2>1. \A q \in Proc : Held(q)' = Held(q)
    BY <1>3, <1>6
  <2>2. \A q \in Proc : pc'[q] = "ended" <=> pc[q] = "ended"
    BY <1>6
  <2>3. \A q \in Proc : pc'[q] = "ended" => root'[q] = root[q]
    BY <1>6
  <2>4. NobodyIsLost'
    BY <1>2, <1>6, <2>1, <2>2, <2>3 DEF AnsweredOnce, NobodyIsLost, lostVars
  <2>5. \A q \in Proc : Distinct(Queue(q))'
    BY <1>6 DEF AnsweredOnce, Distinct
  <2>. QED BY <1>2, <1>6, <2>2, <2>4, <2>5 DEF AnsweredOnce, lostVars
\* p hands over, or ends with nothing to hand over.
<1>7. ASSUME HandOff(p), socket \in listening, pc[p] \in {"offer", "deliver"}, Go(p, "ended"),
             UNCHANGED <<root, listening, requests, served, dropped, refused>>
      PROVE  AnsweredOnce'
  <2>1. \A q \in Proc : p \notin Held(q) /\ p \notin served \cup dropped \cup refused
    BY <1>7 DEF AnsweredOnce, NobodyIsLost
  <2>2. CASE root[p] = NoRoot
    <3>1. \A q \in Proc : Queue(q)' = Queue(q)
      BY <1>7, <2>2 DEF HandOff, Queue
    <3>2. \A q \in Proc : Held(q)' = Held(q) /\ Distinct(Queue(q))'
      BY <1>3, <3>1 DEF AnsweredOnce, Distinct
    <3>3. pc'[p] = "ended" /\ \A q \in Proc \ {p} : pc'[q] = pc[q]
      BY <1>5, <1>7
    <3>4. \A q \in Proc : pc'[q] = "ended" /\ root'[q] # NoRoot =>
            q \in (served \cup dropped \cup refused)' \/ \E o \in listening' : q \in Held(o)'
      <4>. TAKE q \in Proc
      <4>1. CASE q = p
        BY <1>7, <2>2, <4>1
      <4>2. CASE q # p
        <5>1. pc'[q] = pc[q] /\ root' = root /\ listening' = listening
          BY <1>7, <3>3, <4>2
        <5>2. \A o \in listening : Held(o)' = Held(o)
          BY <1>2, <3>2
        <5>3. /\ root'[q] = root[q]
              /\ (served \cup dropped \cup refused)' = served \cup dropped \cup refused
          BY <1>7
        <5>4. pc[q] = "ended" /\ root[q] # NoRoot =>
                q \in served \cup dropped \cup refused \/ \E o \in listening : q \in Held(o)
          BY <1>a
        <5>. QED BY <5>1, <5>2, <5>3, <5>4
      <4>. QED BY <4>1, <4>2
    <3>5. \A o, q \in Proc : q \in Held(o)' =>
            /\ pc'[q] = "ended" /\ q \notin (served \cup dropped \cup refused)'
            /\ \A t \in Proc \ {o} : q \notin Held(t)'
      BY <1>7, <1>a, <3>2, <3>3
    <3>6. NobodyIsLost'
      BY <1>7, <3>4, <3>5 DEF AnsweredOnce, NobodyIsLost
    <3>. QED BY <1>2, <1>7, <3>2, <3>3, <3>6 DEF AnsweredOnce
  <2>3. CASE root[p] # NoRoot
    <3>. DEFINE m == [from |-> p, root |-> root[p]]
    <3>1. m \in Request /\ m.from = p
      BY <1>2, <2>3 DEF Request
    <3>. HIDE DEF m
    <3>2. PICK s \in listening : backlog' = [backlog EXCEPT ![s] = Append(backlog[s], m)]
      BY <1>2, <1>7, <2>3 DEF HandOff, m
    <3>6. s \in Proc
      BY <1>2
    <3>3. /\ Queue(s)' = Append(Queue(s), m)
          /\ \A q \in Proc \ {s} : Queue(q)' = Queue(q)
      BY <1>2, <1>7, <3>1, <3>2, <3>6, QueueOrder DEF Queue
    <3>4. /\ Held(s)' = Held(s) \cup {p} /\ Distinct(Queue(s))'
          /\ \A q \in Proc \ {s} : Held(q)' = Held(q) /\ Distinct(Queue(q))'
      <4>1. Distinct(Append(Queue(s), m))
            /\ From(Append(Queue(s), m)) = From(Queue(s)) \cup {p}
        BY <1>3, <2>1, <3>1, <3>2, <3>6, RequestAppended DEF AnsweredOnce
      <4>2. \A q \in Proc \ {s} : Distinct(Queue(q))'
        BY <3>3 DEF AnsweredOnce, Distinct
      <4>3. Distinct(Queue(s))'
        BY <3>3, <4>1 DEF Distinct
      <4>. QED BY <1>3, <3>2, <3>6, <3>3, <4>1, <4>2, <4>3
    <3>5. NobodyIsLost'
      <4>3. pc'[p] = "ended" /\ \A q \in Proc \ {p} : pc'[q] = pc[q]
        BY <1>5, <1>7
      <4>4. \A o \in Proc : Held(o) \subseteq Held(o)'
        BY <3>4
      <4>1. \A q \in Proc : pc'[q] = "ended" /\ root'[q] # NoRoot =>
              q \in (served \cup dropped \cup refused)'
                \/ \E o \in listening' : q \in Held(o)'
        BY <1>a, <1>2, <1>7, <3>2, <3>6, <3>4, <4>3, <4>4
      <4>2. \A o, q \in Proc : q \in Held(o)' =>
              /\ pc'[q] = "ended" /\ q \notin (served \cup dropped \cup refused)'
              /\ \A t \in Proc \ {o} : q \notin Held(t)'
        <5>. TAKE o, q \in Proc
        <5>1. CASE q = p
          BY <1>7, <2>1, <3>4, <4>3, <5>1
        <5>2. CASE q # p
          <6>1. \A t \in Proc : q \in Held(t)' <=> q \in Held(t)
            BY <3>4, <5>2
          <6>. QED BY <1>a, <1>7, <4>3, <5>2, <6>1
        <5>. QED BY <5>1, <5>2
      <4>. QED BY <1>7, <4>1, <4>2 DEF AnsweredOnce, NobodyIsLost
    <3>. QED BY <1>2, <1>5, <1>7, <3>2, <3>6, <3>4, <3>5 DEF AnsweredOnce
  <2>. QED BY <2>2, <2>3
\* The head of the queue of p gets its answer.
<1>8. ASSUME NEW q \in Proc, requests[p] # <<>>, q = Head(requests[p]).from,
             requests' = [requests EXCEPT ![p] = Tail(@)],
             UNCHANGED <<pc, root, listening, backlog, refused>>,
             \/ served' = served \cup {q} /\ dropped' = dropped
             \/ dropped' = dropped \cup {q} /\ served' = served
      PROVE  AnsweredOnce'
  <2>1. Queue(p) # <<>> /\ Head(Queue(p)).from = q /\ Queue(p)' = Tail(Queue(p))
    BY <1>2, <1>8, QueueOrder DEF Queue
  <2>2. \A o \in Proc \ {p} : Queue(o)' = Queue(o)
    BY <1>2, <1>8 DEF Queue
  <2>3. /\ Held(p)' = Held(p) \ {q} /\ q \in Held(p) /\ Distinct(Queue(p))'
        /\ \A o \in Proc \ {p} : Held(o)' = Held(o) /\ Distinct(Queue(o))'
    <3>1. /\ Distinct(Tail(Queue(p))) /\ From(Tail(Queue(p))) = From(Queue(p)) \ {q}
          /\ q \in From(Queue(p))
      BY <1>3, <2>1, HeadTaken DEF AnsweredOnce
    <3>2. \A o \in Proc \ {p} : Distinct(Queue(o))'
      BY <2>2 DEF AnsweredOnce, Distinct
    <3>3. Distinct(Queue(p))'
      BY <2>1, <3>1 DEF Distinct
    <3>. QED BY <1>3, <2>1, <2>2, <3>1, <3>2, <3>3
  <2>4. /\ pc[q] = "ended" /\ q \notin served \cup dropped \cup refused
        /\ \A o \in Proc \ {p} : q \notin Held(o)
    BY <2>3 DEF AnsweredOnce, NobodyIsLost
  <2>5. NobodyIsLost'
    <3>1. \A o \in Proc : pc'[o] = "ended" /\ root'[o] # NoRoot =>
            o \in (served \cup dropped \cup refused)'
              \/ \E t \in listening' : o \in Held(t)'
      BY <1>a, <1>2, <1>8, <2>3
    <3>2. \A o, t \in Proc : t \in Held(o)' =>
            /\ pc'[t] = "ended" /\ t \notin (served \cup dropped \cup refused)'
            /\ \A u \in Proc \ {o} : t \notin Held(u)'
      <4>. TAKE o, t \in Proc
      <4>1. CASE t = q
        BY <2>3, <2>4, <4>1
      <4>2. CASE t # q
        <5>1. \A u \in Proc : t \in Held(u)' <=> t \in Held(u)
          BY <2>3, <4>2
        <5>. QED BY <1>a, <1>8, <4>2, <5>1
      <4>. QED BY <4>1, <4>2
    <3>. QED BY <1>8, <2>4, <3>1, <3>2 DEF AnsweredOnce, NobodyIsLost
  <2>. QED BY <1>2, <1>8, <2>3, <2>4, <2>5 DEF AnsweredOnce
\* p ends, with all it held.
<1>9. ASSUME End(p), pc[p] \notin {"idle", "ended"}, UNCHANGED <<root, served, refused>>
      PROVE  AnsweredOnce'
  <2>1. /\ Queue(p)' = <<>> /\ \A q \in Proc \ {p} : Queue(q)' = Queue(q)
    BY <1>2, <1>9 DEF End, Queue
  <2>2. /\ Held(p)' = {} /\ Distinct(Queue(p))'
        /\ \A q \in Proc \ {p} : Held(q)' = Held(q) /\ Distinct(Queue(q))'
    <3>1. From(<<>>) = {} /\ Distinct(<<>>)
      BY DEF From, Distinct
    <3>2. \A q \in Proc \ {p} : Distinct(Queue(q))'
      BY <2>1 DEF AnsweredOnce, Distinct
    <3>3. Distinct(Queue(p))'
      BY <2>1, <3>1 DEF Distinct
    <3>. QED BY <1>3, <2>1, <3>1, <3>2, <3>3
  <2>3. dropped' = dropped \cup Held(p) \cup ({p} \ served) /\ listening' = listening \ {p}
    BY <1>9 DEF End
  <2>4. p \notin dropped \cup refused /\ \A q \in Proc : p \notin Held(q)
    BY <1>9 DEF AnsweredOnce, NobodyIsLost
  <2>5. NobodyIsLost'
    <3>1. \A q \in Proc : pc'[q] = "ended" /\ root'[q] # NoRoot =>
            q \in (served \cup dropped \cup refused)'
              \/ \E t \in listening' : q \in Held(t)'
      BY <1>a, <1>2, <1>5, <1>9, <2>2, <2>3 DEF End
    <3>2. \A o, q \in Proc : q \in Held(o)' =>
            /\ pc'[q] = "ended" /\ q \notin (served \cup dropped \cup refused)'
            /\ \A t \in Proc \ {o} : q \notin Held(t)'
      <4>. TAKE o, q \in Proc
      <4>1. pc'[p] = "ended" /\ \A t \in Proc \ {p} : pc'[t] = pc[t]
        BY <1>5, <1>9 DEF End
      <4>2. CASE q \in Held(p) \/ q = p
        <5>1. \A u \in Proc : q \notin Held(u)'
          BY <1>a, <2>2, <2>4, <4>2
        <5>. QED BY <5>1
      <4>3. CASE q \notin Held(p) /\ q # p
        <5>1. \A u \in Proc : q \in Held(u)' <=> q \in Held(u)
          BY <2>2, <4>3
        <5>. QED BY <1>a, <1>9, <2>3, <4>1, <4>3, <5>1
      <4>. QED BY <4>2, <4>3
    <3>3. (served \cap (dropped \cup refused) = {} /\ dropped \cap refused = {})'
      BY <1>2, <1>3, <1>9, <2>3, <2>4 DEF AnsweredOnce, NobodyIsLost
    <3>. QED BY <3>1, <3>2, <3>3 DEF NobodyIsLost
  <2>6. \A q \in Held(p) \cup {p} : pc'[q] = "ended"
    BY <1>3, <1>5, <1>9 DEF AnsweredOnce, NobodyIsLost, End
  <2>. QED BY <1>2, <1>3, <1>5, <1>9, <2>2, <2>3, <2>5, <2>6 DEF AnsweredOnce, End
<1>10. CASE \E r \in Given[p], attached \in BOOLEAN : Launch(p, r, attached)
  <2>1. PICK r \in Given[p], attached \in BOOLEAN : Launch(p, r, attached)
    BY <1>10
  <2>2. /\ \A q \in Proc \ {p} : root'[q] = root[q]
        /\ \A q \in Proc : Queue(q)' = Queue(q)
    BY <1>2, <2>1 DEF Launch, queueVars, Queue
  <2>. QED BY <1>5, <1>6, <2>1, <2>2 DEF Launch, windowVars
<1>11. CASE Bind(p) \/ Probe(p) \/ Unlink(p) \/ Rebind(p) \/ Listen(p)
  <2>1. \A q \in Proc : Queue(q)' = Queue(q)
    BY <1>11 DEF Bind, Probe, Unlink, Rebind, Listen, queueVars, Queue
  <2>2. /\ \E step : Go(p, step) /\ step # "ended"
        /\ pc[p] \notin {"running", "ended"}
        /\ UNCHANGED <<root, lostVars, served>> /\ listening \subseteq listening'
    BY <1>11 DEF Bind, Probe, Unlink, Rebind, Listen, windowVars
  <2>. QED BY <1>5, <1>6, <2>1, <2>2
<1>12. CASE Offer(p)
  <2>1. CASE socket \in listening
    BY <1>7, <1>12, <2>1 DEF Offer, windowVars, lostVars
  <2>2. CASE socket \notin listening
    <3>1. \A q \in Proc : Queue(q)' = Queue(q)
      BY <1>12, <2>2 DEF Offer, Queue
    <3>. QED BY <1>5, <1>6, <1>12, <2>2, <3>1 DEF Offer, windowVars
  <2>. QED BY <2>1, <2>2
<1>13. CASE Deliver(p)
  <2>1. CASE socket \in listening
    BY <1>7, <1>13, <2>1 DEF Deliver, windowVars
  <2>2. CASE socket \notin listening
    <3>1. /\ \A q \in Proc : Queue(q)' = Queue(q)
          /\ refused' = refused \cup {p} /\ UNCHANGED <<root, listening, served, dropped>>
          /\ pc[p] = "deliver" /\ Go(p, "ended")
      BY <1>13, <2>2 DEF Deliver, Queue, windowVars
    <3>2. \A q \in Proc : Held(q)' = Held(q) /\ Distinct(Queue(q))'
      BY <1>3, <3>1 DEF AnsweredOnce, Distinct
    <3>3. \A q \in Proc : p \notin Held(q) /\ p \notin served \cup dropped
      BY <3>1 DEF AnsweredOnce, NobodyIsLost
    <3>4. NobodyIsLost'
      BY <1>2, <1>5, <3>1, <3>2, <3>3 DEF AnsweredOnce, NobodyIsLost
    <3>. QED BY <1>2, <1>5, <3>1, <3>2, <3>4 DEF AnsweredOnce
  <2>. QED BY <2>1, <2>2
<1>14. CASE OpenFirstWindow(p)
  <2>1. /\ \A q \in Proc : Queue(q)' = Queue(q)
        /\ served' = served \cup {p} /\ UNCHANGED <<root, listening, dropped, refused>>
        /\ pc[p] = "opening" /\ Go(p, "running")
    BY <1>14 DEF OpenFirstWindow, Queue, queueVars, lostVars
  <2>2. \A q \in Proc : Held(q)' = Held(q) /\ Distinct(Queue(q))'
    BY <1>3, <2>1 DEF AnsweredOnce, Distinct
  <2>3. \A q \in Proc : p \notin Held(q) /\ p \notin dropped \cup refused
    BY <2>1 DEF AnsweredOnce, NobodyIsLost
  <2>4. NobodyIsLost'
    BY <1>2, <1>5, <2>1, <2>2, <2>3 DEF AnsweredOnce, NobodyIsLost
  <2>. QED BY <1>2, <1>5, <2>1, <2>2, <2>4 DEF AnsweredOnce
<1>15. CASE HandleRequest(p) \/ RequestFails(p)
  <2>1. requests[p] # <<>> /\ Head(requests[p]).from \in Proc
    BY <1>1, <1>15, QueueFacts DEF HandleRequest, RequestFails, Request
  <2>2. CASE HandleRequest(p)
    BY <1>8, <2>1, <2>2 DEF HandleRequest, lostVars
  <2>3. CASE RequestFails(p)
    BY <1>8, <2>1, <2>3 DEF RequestFails
  <2>. QED BY <1>15, <2>2, <2>3
<1>16. CASE Accept(p)
  <2>1. Queue(p)' = Queue(p)
    <3>1. /\ requests'[p] = Append(requests[p], Head(backlog[p])) /\ backlog'[p] = Tail(backlog[p])
          /\ backlog[p] # <<>>
      BY <1>2, <1>16 DEF Accept
    <3>. QED BY <1>2, <3>1, QueueOrder DEF Queue
  <2>3. \A q \in Proc \ {p} : Queue(q)' = Queue(q)
    BY <1>2, <1>16 DEF Accept, Queue
  <2>2. \A q \in Proc : Queue(q)' = Queue(q)
    BY <2>1, <2>3
  <2>. QED BY <1>6, <1>16, <2>2 DEF Accept, windowVars
<1>17. CASE FirstWindowFails(p) \/ (\E i \in OpenWindows(p) : CloseWindow(p, i)) \/ Kill(p)
            \/ \E i \in OpenWindows(p), r \in Root : SwitchProject(p, i, r)
  <2>1. /\ End(p) \/ UNCHANGED <<pc, listening, queueVars, dropped>>
        /\ UNCHANGED <<root, served, refused>> /\ pc[p] \notin {"idle", "ended"}
    BY <1>17 DEF FirstWindowFails, CloseWindow, Kill, SwitchProject, windowVars, lostVars
  <2>2. CASE UNCHANGED <<pc, listening, queueVars, dropped>>
    <3>1. \A q \in Proc : Queue(q)' = Queue(q)
      BY <2>2 DEF queueVars, Queue
    <3>. QED BY <1>6, <2>1, <2>2, <3>1 DEF lostVars
  <2>. QED BY <1>9, <2>1, <2>2
<1>. QED BY <1>10, <1>11, <1>12, <1>13, <1>14, <1>15, <1>16, <1>17 DEF ProcessStep, Main

----------------------------------------------------------------------------
(* The invariant *)

LEMMA InstancesInitially == Init => InstancesInv
<1>. SUFFICES ASSUME Init PROVE InstancesInv
  OBVIOUS
<1>1. "idle" \in Step /\ MaxActs \in Nat
  BY InstancesAssumption DEF Step
<1>2. <<>> \in Seq(Request) /\ <<>> \in Seq(Window)
  OBVIOUS
<1>3. ProcessesTyped
  <2>1. acts \in 0 .. MaxActs
    BY <1>1 DEF Init
  <2>2. pc \in [Proc -> Step] /\ root \in [Proc -> Root \cup {NoRoot}]
    BY <1>1 DEF Init
  <2>3. socket \in Proc \cup {NoFile, Stale}
    BY Zenon DEF Init
  <2>4. {served, dropped, refused} \subseteq SUBSET Proc
    BY DEF Init
  <2>. QED BY <2>1, <2>2, <2>3, <2>4 DEF ProcessesTyped
<1>4. QueuesTyped
  BY <1>2 DEF Init, QueuesTyped
<1>5. WindowsTyped
  BY <1>2 DEF Init, WindowsTyped
<1>6. MapLeadsToOpen
  BY DEF Init, MapLeadsToOpen, OpenWindows
<1>7. AnsweredOnce
  BY DEF Init, AnsweredOnce, NobodyIsLost, Held, Queue, Distinct
<1>. QED BY <1>3, <1>4, <1>5, <1>6, <1>7, TypeParts DEF InstancesInv

LEMMA InstancesKept == InstancesInv /\ [Next]_vars => InstancesInv'
<1>. SUFFICES ASSUME InstancesInv, [Next]_vars PROVE InstancesInv'
  OBVIOUS
<1>1. ProcessesTyped' /\ QueuesTyped' /\ WindowsTyped' /\ MapLeadsToOpen'
  BY ProcessesStayTyped, QueuesStayTyped, WindowsStayInMap DEF InstancesInv
<1>2. InstancesTypeOK'
  BY <1>1 DEF ProcessesTyped, QueuesTyped, WindowsTyped, InstancesTypeOK
<1>3. AnsweredOnce'
  BY AnswersStayOnce DEF InstancesInv
<1>. QED BY <1>1, <1>2, <1>3 DEF InstancesInv

(* The inductive invariant holds in every reachable state: it is what main,
   instance.rs and the window loop keep between any two steps. *)
THEOREM InstancesSafety == Spec => []InstancesInv
BY InstancesInitially, InstancesKept, PTL DEF Spec

(* The processes, their queues and their windows stay in their types, and
   nothing waits at a process that does not listen. *)
THEOREM InstancesTypeCorrect == Spec => []InstancesTypeOK
<1>1. InstancesInv => InstancesTypeOK
  BY DEF InstancesInv
<1>. QED BY <1>1, InstancesSafety, PTL

(* No instance opens a second window for a repository while one is open,
   whatever is requested and closed in whatever order (raise). *)
THEOREM OneWindowForARoot == Spec => []OneWindowPerRoot
<1>1. InstancesInv => OneWindowPerRoot
  BY DEF InstancesInv, MapLeadsToOpen, OneWindowPerRoot
<1>. QED BY <1>1, InstancesSafety, PTL

(* Whatever races, ends, closings and refusals an invocation meets, it has one
   answer, or waits at one process that still listens (hand_off_to, serve, the
   window loop). *)
THEOREM NobodyGetsLost == Spec => []NobodyIsLost
<1>1. InstancesInv => NobodyIsLost
  BY DEF InstancesInv, AnsweredOnce
<1>. QED BY <1>1, InstancesSafety, PTL
=============================================================================
