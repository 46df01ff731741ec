----------------------------- MODULE ClonePipes -----------------------------
(***************************************************************************)
(* One git clone and its progress, from the child's two pipes to the row   *)
(* of the project list: run_with_stderr_chunks in                          *)
(* crates/vcs/src/process/runner.rs, the line splitter of                  *)
(* clone_progress.rs, run_clone_streaming in remote.rs, and in             *)
(* crates/ui/src/workspace.rs the pump thread, its mailbox and the polling *)
(* task.  What the clone leaves on disk is the subject of Workspace.       *)
(*                                                                         *)
(* A byte is a number: the terminators of a line are 0, and the label of a *)
(* phase, the prefix of the server's lines and a percentage are one each.  *)
(***************************************************************************)
EXTENDS Naturals, Sequences, SequencesExt

CONSTANTS
  Script,     \* what the child may do: sequences of writes to "out" or "err"
  PipeSize,   \* bytes a pipe of the operating system holds
  NoUpdate    \* no update waits in the mailbox, or none was shown

ASSUME ClonePipesAssumption ==
  /\ PipeSize \in Nat \ {0}
  /\ Script \subseteq Seq([to : {"out", "err"}, byte : Nat])

VARIABLES
  script,      \* the writes the child has not made
  child,       \* "running", "ended" or "killed"
  pipe,        \* per stream, the bytes written and not read
  drainer,     \* the thread that reads stdout: "running" or "ended"
  call,        \* run_with_stderr_chunks: "reading", "waiting" or "returned"
  readBytes,   \* stderr_buffer
  buffer,      \* ProgressLineSplitter::buffer
  handed,      \* the lines it has handed out
  channel,     \* updates sent and not received
  pump,        \* the pump thread: "running" or "ended"
  mailbox,     \* CloneProgressMailbox
  poll,        \* the polling task: "running" or "ended"
  shown,       \* what the row of this clone has shown, in order
  cloning,     \* cloning_project: this clone, "none", the "next" one, or the
               \* next one "misled" by an update of this clone
  windowOpen

pipesVars == <<script, child, pipe, drainer, call, readBytes, buffer, handed,
               channel, pump, mailbox, poll, shown, cloning, windowOpen>>
childVars == <<script, child, pipe>>
callVars == <<call, readBytes, buffer, handed>>
watchVars == <<channel, pump, mailbox, poll, shown, cloning, windowOpen>>

PipesInit ==
  /\ script \in Script /\ child = "running"
  /\ pipe = [out |-> <<>>, err |-> <<>>]
  /\ drainer = "running" /\ call = "reading"
  /\ readBytes = <<>> /\ buffer = <<>> /\ handed = <<>>
  /\ channel = <<>> /\ pump = "running"
  /\ mailbox = [latest |-> NoUpdate, disconnected |-> FALSE]
  /\ poll = "running" /\ shown = <<>> /\ cloning = "this" /\ windowOpen = TRUE

(* A clone that is over. *)
PipesIdle ==
  /\ script = <<>> /\ child = "ended"
  /\ pipe = [out |-> <<>>, err |-> <<>>]
  /\ drainer = "ended" /\ call = "returned"
  /\ readBytes = <<>> /\ buffer = <<>> /\ handed = <<>>
  /\ channel = <<>> /\ pump = "ended"
  /\ mailbox = [latest |-> NoUpdate, disconnected |-> TRUE]
  /\ poll = "ended" /\ shown = <<>> /\ cloning = "none" /\ windowOpen = TRUE

----------------------------------------------------------------------------
(* External: git writes in the order of its script, waits while a pipe is
   full, and closes both when it ends. *)
ChildWrites ==
  /\ child = "running" /\ script # <<>>
  /\ Len(pipe[script[1].to]) < PipeSize
  /\ pipe' = [pipe EXCEPT ![script[1].to] = Append(@, script[1].byte)]
  /\ script' = Tail(script)
  /\ UNCHANGED <<child, drainer, callVars, watchVars>>

ChildEnds ==
  /\ child = "running" /\ script = <<>>
  /\ child' = "ended"
  /\ UNCHANGED <<script, pipe, drainer, callVars, watchVars>>

(* Mutant: stdout is read once the child is gone. *)
DrainStdoutAfterwards ==
  /\ drainer = "running" /\ child # "running"
  /\ pipe' = [pipe EXCEPT !.out = <<>>]
  /\ drainer' = "ended"
  /\ UNCHANGED <<script, child, callVars, watchVars>>

(* The thread of read_to_end. *)
DrainStdout ==
  /\ drainer = "running"
  /\ IF pipe.out # <<>>
     THEN pipe' = [pipe EXCEPT !.out = <<>>] /\ UNCHANGED drainer
     ELSE child # "running" /\ drainer' = "ended" /\ UNCHANGED pipe
  /\ UNCHANGED <<script, child, callVars, watchVars>>

----------------------------------------------------------------------------
Phase == {1, 5}  \* a label of PHASES with its colon
Remote == 2      \* "remote: "
Percentage == 3  \* what parse_percent reads

(* parse_progress_line: the prefix is stripped once, and whatever is not a
   phase is no progress. *)
ParseProgressLine(line) ==
  LET rest == IF line # <<>> /\ line[1] = Remote THEN Tail(line) ELSE line
  IN  IF rest # <<>> /\ rest[1] \in Phase
      THEN [phase |-> rest[1], percent |-> Len(rest) > 1 /\ rest[2] = Percentage]
      ELSE NoUpdate

(* cloning_row: the bar is determinate once a percentage is known. *)
CloningRow(progress) ==
  IF progress = NoUpdate THEN [label |-> "Starting", determinate |-> FALSE]
  ELSE [label |-> progress.phase, determinate |-> progress.percent]

(* ProgressLineSplitter::feed: the bytes in turn; a terminator closes the line
   that starts after the one before it. *)
Fed(bytes) ==
  LET scan[i \in 0 .. Len(bytes)] ==
        IF i = 0 THEN [lines |-> <<>>, start |-> 1]
        ELSE LET before == scan[i - 1] IN
             IF bytes[i] = 0
             THEN [lines |-> Append(before.lines, SubSeq(bytes, before.start, i - 1)),
                   start |-> i + 1]
             ELSE before
  IN  scan[Len(bytes)]

ClosedLines(bytes) == Fed(bytes).lines

(* Mutant: what follows the last terminator of a chunk is forgotten. *)
RemainderForgotten(bytes) ==
  IF Fed(bytes).lines = <<>> THEN bytes ELSE <<>>

Remainder(bytes) == SubSeq(bytes, Fed(bytes).start, Len(bytes))

(* The callback of run_clone_streaming: the update a line is, if it is one. *)
Sent(line) ==
  LET progress == ParseProgressLine(line)
  IN  IF progress = NoUpdate THEN <<>> ELSE <<progress>>

Recognised(lines) == FlattenSeq([i \in DOMAIN lines |-> Sent(lines[i])])

(* One read returns any part of what the pipe holds; run_clone_streaming
   sends the lines it recognises, whether or not anyone receives. *)
ReadChunk ==
  /\ call = "reading"
  /\ \E n \in 1..Len(pipe.err) :
       LET bytes == buffer \o SubSeq(pipe.err, 1, n)
           lines == ClosedLines(bytes) IN
       /\ pipe' = [pipe EXCEPT !.err = SubSeq(@, n + 1, Len(@))]
       /\ readBytes' = readBytes \o SubSeq(pipe.err, 1, n)
       /\ buffer' = Remainder(bytes)
       /\ handed' = handed \o lines
       /\ channel' = channel \o Recognised(lines)
  /\ UNCHANGED <<script, child, drainer, call, pump, mailbox, poll, shown, cloning, windowOpen>>

(* A read of 0 bytes: stderr is closed and empty. *)
ReadEnds ==
  /\ call = "reading" /\ pipe.err = <<>> /\ child # "running"
  /\ call' = "waiting"
  /\ UNCHANGED <<childVars, drainer, readBytes, buffer, handed, watchVars>>

(* A read that fails, an interrupted one included: the child is killed and
   waited for, the thread of stdout left to itself. *)
ReadFails ==
  /\ call = "reading"
  /\ call' = "returned"
  /\ child' = IF child = "running" THEN "killed" ELSE child
  /\ script' = <<>>
  /\ UNCHANGED <<pipe, drainer, readBytes, buffer, handed, watchVars>>

(* wait and join, and with the return the sender of updates is dropped. *)
Return ==
  /\ call = "waiting" /\ child # "running" /\ drainer = "ended"
  /\ call' = "returned"
  /\ UNCHANGED <<childVars, drainer, readBytes, buffer, handed, watchVars>>

----------------------------------------------------------------------------
(* pump_clone_progress: only the latest update waits. *)
PumpUpdate ==
  /\ pump = "running" /\ channel # <<>>
  /\ mailbox' = [mailbox EXCEPT !.latest = Head(channel)]
  /\ channel' = Tail(channel)
  /\ UNCHANGED <<childVars, drainer, callVars, pump, poll, shown, cloning, windowOpen>>

PumpEnds ==
  /\ pump = "running" /\ channel = <<>> /\ call = "returned"
  /\ pump' = "ended"
  /\ mailbox' = [mailbox EXCEPT !.disconnected = TRUE]
  /\ UNCHANGED <<childVars, drainer, callVars, channel, poll, shown, cloning, windowOpen>>

(* What the window does with an update: the row of whatever clone is running
   takes it, and without one it is discarded. *)
RowOpen == windowOpen /\ cloning = "this"
Show(update) ==
  /\ shown' = IF RowOpen THEN Append(shown, CloningRow(update)) ELSE shown
  /\ cloning' = IF windowOpen /\ cloning = "next" THEN "misled" ELSE cloning

(* Mutant: the mailbox is asked whether it is disconnected first. *)
PollDisconnectedFirst ==
  /\ poll = "running"
  /\ IF mailbox.disconnected
     THEN poll' = "ended" /\ UNCHANGED <<mailbox, shown, cloning>>
     ELSE /\ mailbox' = [mailbox EXCEPT !.latest = NoUpdate]
          /\ IF mailbox.latest # NoUpdate THEN Show(mailbox.latest)
             ELSE UNCHANGED <<shown, cloning>>
          /\ UNCHANGED poll
  /\ UNCHANGED <<childVars, drainer, callVars, channel, pump, windowOpen>>

(* The loop of start_clone_progress_watch after a tick of its timer: the
   update and the end are taken under one lock. *)
Poll ==
  /\ poll = "running"
  /\ mailbox' = [mailbox EXCEPT !.latest = NoUpdate]
  /\ IF mailbox.latest # NoUpdate THEN Show(mailbox.latest)
     ELSE UNCHANGED <<shown, cloning>>
  /\ poll' = IF mailbox.disconnected \/ (mailbox.latest # NoUpdate /\ ~windowOpen)
             THEN "ended" ELSE poll
  /\ UNCHANGED <<childVars, drainer, callVars, channel, pump, windowOpen>>

(* add_project_from_url when its clone has returned, whatever its polling
   task has still to show (what else it does is Workspace's). *)
CloneCompletes ==
  /\ RowOpen /\ call = "returned"
  /\ cloning' = "none"
  /\ UNCHANGED <<childVars, drainer, callVars, channel, pump, mailbox, poll, shown, windowOpen>>

(* add_project_from_url for another project, while the task still polls.  The
   updates of that clone, which would overwrite its row, are left out. *)
StartNext ==
  /\ windowOpen /\ cloning = "none" /\ poll = "running"
  /\ cloning' = "next"
  /\ UNCHANGED <<childVars, drainer, callVars, channel, pump, mailbox, poll, shown, windowOpen>>

CloseWindow ==
  /\ windowOpen /\ poll = "running"
  /\ windowOpen' = FALSE
  /\ UNCHANGED <<childVars, drainer, callVars, channel, pump, mailbox, poll, shown, cloning>>

PipesNext ==
  \/ ChildWrites \/ ChildEnds \/ DrainStdout
  \/ ReadChunk \/ ReadEnds \/ ReadFails \/ Return
  \/ PumpUpdate \/ PumpEnds
  \/ Poll \/ CloneCompletes \/ StartNext \/ CloseWindow

(* The threads are scheduled, the timer ticks and git runs on; neither a
   failing read nor a closed window has to happen. *)
PipesFairness ==
  /\ WF_pipesVars(ChildWrites) /\ WF_pipesVars(ChildEnds)
  /\ WF_pipesVars(DrainStdout)
  /\ WF_pipesVars(ReadChunk) /\ WF_pipesVars(ReadEnds) /\ WF_pipesVars(Return)
  /\ WF_pipesVars(PumpUpdate) /\ WF_pipesVars(PumpEnds) /\ WF_pipesVars(Poll)

----------------------------------------------------------------------------
(* Lines as they were read, each with its terminator. *)
Joined(lines) == FlattenSeq([i \in DOMAIN lines |-> Append(lines[i], 0)])

Unbroken(line) == \A i \in DOMAIN line : line[i] # 0

Told == Recognised(handed)

(* What the row has to show: the last update, when it has shown any. *)
ShowsLast == shown # <<>> /\ shown[Len(shown)] = CloningRow(Told[Len(Told)])

(* However the pipe cuts its bytes, the splitter hands out every line whole,
   once and in order as soon as it is closed; the row shows a selection of
   the recognised ones in their order, and while the clone has not completed
   it shows the last one as soon as none waits, at the latest when its watch
   ends (feed, run_clone_streaming, pump_clone_progress,
   start_clone_progress_watch). *)
LinesAreWhole ==
  /\ readBytes = Joined(handed) \o buffer
  /\ Unbroken(buffer) /\ \A i \in DOMAIN handed : Unbroken(handed[i])
  /\ \E kept \in [DOMAIN shown -> DOMAIN Told] :
       /\ \A i, j \in DOMAIN shown : i < j => kept[i] < kept[j]
       /\ \A i \in DOMAIN shown : shown[i] = CloningRow(Told[kept[i]])
  /\ RowOpen /\ Told # <<>>
       /\ (poll = "ended" \/ (channel = <<>> /\ mailbox.latest = NoUpdate))
       => ShowsLast

(* "Shows each CloneProgress update a running clone reports, as it arrives",
   says start_clone_progress_watch, whose task ends "when the clone this
   progress belongs to has returned": the last update, at least, has been
   shown by then.  The completion takes the row away first (workspace.rs). *)
LastUpdateIsShown == poll = "ended" /\ windowOpen /\ Told # <<>> => ShowsLast

(* The row of a clone renders the absence of progress "rather than a stale or
   fabricated percentage" (CloningProject): it never shows another clone's. *)
RowIsItsOwn == cloning # "misled"

(* The call returns, and with it end the pump, the polling task and the
   thread of stdout, whatever the child writes and in which order, and
   whether or not the window is still open (run_with_stderr_chunks,
   pump_clone_progress, start_clone_progress_watch). *)
CallEnds ==
  <>[](call = "returned" /\ drainer = "ended" /\ pump = "ended" /\ poll = "ended")
=============================================================================
