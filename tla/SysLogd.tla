------------------------------- MODULE SysLogd -------------------------------
(***************************************************************************)
(* A worker of sys-logd (cmd/sys-logd): it carries the lines a service     *)
(* prints to the journal.  A reader takes them from standard input into a  *)
(* queue, a writer takes them from the queue to the sink.  The sink is the *)
(* broker, which writes to the journal, or syslog while the broker cannot  *)
(* be reached.  When the queue is full or the sink fails, lines are        *)
(* spilled to files, which the writer replays later.                       *)
(*                                                                         *)
(* Reader and writer share the atomic spillMode, the queue and the spill   *)
(* files: WriteLine and the choice of the files to replay hold the spill   *)
(* manager's lock, reading and removing a file do not.                     *)
(***************************************************************************)
EXTENDS Integers, Sequences, SequencesExt

CONSTANTS
  NLines,    \* bound: lines the service prints, numbered from 1
  QueueSize, \* cfg.queueSize
  MaxLines,  \* spillMaxBytes, in lines
  Rotations, \* spillRotations
  MaxFaults  \* bound: of all kinds

Lines == 1 .. NLines
Paths == 0 .. Rotations
Parts == {"broker", "journal", "syslog"}

\* MaxLines: a file holds a line at least
Parameters ==
  NLines \in Nat /\ QueueSize \in Nat /\ MaxLines \in Nat \ {0} /\ Rotations \in Nat /\ MaxFaults \in Nat

VARIABLES
  read,      \* lines read; the service ends after the last
  reader,    \* "read", "send" or "spill" (with a line in hand), "closed"
  queue,     \* messages
  spillMode,
  disk,      \* the spill files; a missing one is empty
  file,      \* the open file: "nil", path 0 ("current"), or one that was removed ("gone")
  gone,      \* lines in the removed file
  writer,    \* "loop", "replay", "scan", "remove", "done"
  scan,      \* the replay: see Replay
  conn,      \* of the sink to the broker: "nil", "open", or closed by the broker ("stale")
  backoff,   \* the broker is not tried
  up,        \* parts that work
  delivered, \* lines in the journal or in syslog
  lost,      \* ghost: lines given up with a message on standard error, or rotated away
  late,      \* ghost: lines at risk, as a line was spilled during a replay (see Spilled)
  faults

spill == <<disk, file, gone>>
sink == <<conn, backoff, delivered>>
vars == <<read, reader, queue, spillMode, spill, writer, scan, sink, up, lost, late, faults>>

(* paths: the files to replay, from the oldest, which is being read: at is   *)
(* the path its file has now, -1 once it has none (rest is what it holds     *)
(* then), next the line to read.                                             *)
Replay == [paths |-> {}, at |-> -1, rest |-> <<>>, next |-> 1]

TypeOK ==
  /\ read \in 0 .. NLines /\ reader \in {"read", "send", "spill", "closed"}
  /\ queue \in BoundedSeq(Lines, QueueSize) /\ spillMode \in BOOLEAN
  /\ \A p \in Paths : Range(disk[p]) \subseteq Lines /\ Len(disk[p]) <= MaxLines
  /\ file \in {"nil", "current", "gone"} /\ gone \in 0 .. MaxLines
  /\ writer \in {"loop", "replay", "scan", "remove", "done"}
  /\ scan.paths \subseteq Paths /\ scan.at \in Paths \cup {-1}
  /\ conn \in {"nil", "open", "stale"} /\ backoff \in BOOLEAN /\ up \subseteq Parts
  /\ delivered \subseteq Lines /\ lost \subseteq Lines /\ late \subseteq Lines
  /\ faults \in 0 .. MaxFaults

Init ==
  /\ read = 0 /\ reader = "read" /\ queue = <<>> /\ spillMode = FALSE
  /\ disk = [p \in Paths |-> <<>>] /\ file = "nil" /\ gone = 0
  /\ writer = "loop" /\ scan = Replay
  /\ conn = "nil" /\ backoff = FALSE /\ up = Parts
  /\ delivered = {} /\ lost = {} /\ late = {} /\ faults = 0

Fault == faults < MaxFaults /\ faults' = faults + 1

-----------------------------------------------------------------------------
(* The spill files. *)

Size == IF file = "gone" THEN gone ELSE Len(disk[0])

\* rotateLocked, of the files and of the one being replayed
Rotated == [p \in Paths |-> IF p = 0 THEN <<>> ELSE disk[p - 1]]
ScanRotated ==
  IF scan.at = Rotations THEN [scan EXCEPT !.at = -1, !.rest = disk[Rotations]]
  ELSE IF scan.at >= 0 THEN [scan EXCEPT !.at = @ + 1] ELSE scan

(* WriteLine: a file is opened if none is; a full one is rotated, and the    *)
(* oldest lost; the line is appended to the open file, even if that has no   *)
(* path any more.                                                            *)
WriteLine(m) ==
  LET full == Size >= MaxLines
      to == IF full \/ file = "nil" THEN "current" ELSE file
      files == IF full THEN Rotated ELSE disk
  IN /\ file' = to
     /\ disk' = IF to = "current" THEN [files EXCEPT ![0] = Append(@, m)] ELSE files
     /\ gone' = IF to = "gone" THEN gone + 1 ELSE 0
     /\ scan' = IF full THEN ScanRotated ELSE scan
     /\ lost' = IF full THEN lost \cup Range(disk[Rotations]) ELSE lost

OnDisk == UNION {Range(disk[p]) : p \in Paths}

\* HasSpill
HasSpill == (file # "nil" /\ Size > 0) \/ \E p \in Paths : disk[p] # <<>>

(* A line spilled while files are replayed, or later into a file that the    *)
(* replay removed, is lost with the file; if it rotates the files that are   *)
(* replayed, so may all others be.  One spilled after spill mode has ended   *)
(* waits for the next time.                                                  *)
Spilled(m, mode) ==
  LET risky == scan.paths # {} \/ (file = "gone" /\ Size < MaxLines)
  IN late' = late \cup (IF risky \/ ~mode THEN {m} ELSE {})
                  \cup (IF scan.paths # {} /\ Size >= MaxLines THEN OnDisk ELSE {})

-----------------------------------------------------------------------------
(* The reader: readInput, routeMessage. *)

\* A line is read, and spillMode; or the input ends.
ReadLine ==
  /\ reader = "read"
  /\ \/ /\ read < NLines
        /\ read' = read + 1
        /\ reader' = IF spillMode THEN "spill" ELSE "send"
     \/ /\ read = NLines
        /\ reader' = "closed"
        /\ UNCHANGED read
  /\ UNCHANGED <<queue, spillMode, spill, writer, scan, sink, up, lost, late, faults>>

Enqueue ==
  /\ reader = "send" /\ Len(queue) < QueueSize
  /\ queue' = Append(queue, read)
  /\ reader' = "read"
  /\ UNCHANGED <<read, spillMode, spill, writer, scan, sink, up, lost, late, faults>>

\* The queue stays full for enqueueTimeout.
EnqueueTimeout ==
  /\ reader = "send" /\ Len(queue) = QueueSize
  /\ spillMode' = TRUE
  /\ reader' = "spill"
  /\ UNCHANGED <<read, queue, spill, writer, scan, sink, up, lost, late, faults>>

SpillLine ==
  /\ reader = "spill"
  /\ reader' = "read"
  /\ \/ WriteLine(read) /\ Spilled(read, spillMode) /\ UNCHANGED faults
     \/ Fault /\ lost' = lost \cup {read} /\ UNCHANGED <<spill, scan, late>>
  /\ UNCHANGED <<read, queue, spillMode, writer, sink, up>>

-----------------------------------------------------------------------------
(* The sink: fallbackSink.WriteMessage over brokerSink and syslogSink. *)

\* brokerSink: the broker accepts the worker, writes the line to the journal, and answers.
BrokerAccepts == "broker" \in up /\ conn # "stale"
BrokerDelivers == ~backoff /\ BrokerAccepts /\ "journal" \in up

\* The broker fails, or its answer is lost: it is left alone for a while.
BrokerFails ==
  \/ ~BrokerDelivers /\ conn' = (IF backoff THEN conn ELSE "nil") /\ UNCHANGED faults
  \/ BrokerDelivers /\ Fault /\ conn' = "nil"

\* The line is written to the journal, or else to syslog.
WriteMessage(m) ==
  /\ delivered' = delivered \cup {m}
  /\ \/ BrokerDelivers /\ conn' = "open" /\ backoff' = FALSE /\ UNCHANGED faults
     \/ BrokerFails /\ "syslog" \in up /\ backoff' = TRUE

\* Both fail, although the broker may have written the line.
WriteMessageFails(m) ==
  /\ BrokerFails /\ "syslog" \notin up /\ backoff' = TRUE
  /\ delivered' \in {delivered} \cup (IF BrokerDelivers THEN {delivered \cup {m}} ELSE {})

\* The retry interval passes.
BackoffEnds ==
  /\ backoff
  /\ backoff' = FALSE
  /\ UNCHANGED <<read, reader, queue, spillMode, spill, writer, scan, conn, delivered, up, lost, late, faults>>

\* The broker closes an idle connection (readBrokerPacket's deadline).
BrokerCloses ==
  /\ conn = "open" /\ Fault
  /\ conn' = "stale"
  /\ UNCHANGED <<read, reader, queue, spillMode, spill, writer, scan, backoff, delivered, up, lost, late>>

PartFails(p) ==
  /\ p \in up /\ Fault
  /\ up' = up \ {p}
  /\ conn' = IF p = "broker" /\ conn = "open" THEN "stale" ELSE conn
  /\ UNCHANGED <<read, reader, queue, spillMode, spill, writer, scan, backoff, delivered, lost, late>>

PartsRecover ==
  /\ up # Parts
  /\ up' = Parts
  /\ UNCHANGED <<read, reader, queue, spillMode, spill, writer, scan, sink, lost, late, faults>>

-----------------------------------------------------------------------------
(* The writer: runWriter, replaySpill, ReplayTo. *)

Replaying == spillMode /\ queue = <<>>

\* A message is written, or spilled if that fails.
WriteQueued ==
  /\ writer = "loop" /\ queue # <<>>
  /\ queue' = Tail(queue)
  /\ \/ WriteMessage(Head(queue)) /\ UNCHANGED <<spillMode, spill, scan, lost, late>>
     \/ /\ WriteMessageFails(Head(queue))
        /\ spillMode' = TRUE
        /\ WriteLine(Head(queue)) /\ Spilled(Head(queue), TRUE)
  /\ UNCHANGED <<read, reader, writer, up>>

WriterEnds ==
  /\ writer = "loop" /\ queue = <<>> /\ ~spillMode /\ reader = "closed"
  /\ writer' = "done"
  /\ UNCHANGED <<read, reader, queue, spillMode, spill, scan, sink, up, lost, late, faults>>

\* prepareReplayPaths: the open file is closed; every file that is not empty.
ReplayPaths == {p \in Paths : disk[p] # <<>>}

Opened(paths) ==
  IF paths = {} THEN Replay ELSE [Replay EXCEPT !.paths = paths, !.at = Max(paths)]

ReplayStarts ==
  /\ writer = "loop" /\ Replaying
  /\ writer' = "replay"
  /\ UNCHANGED <<read, reader, queue, spillMode, spill, scan, sink, up, lost, late, faults>>

(* replaySpill: as long as there is a spill, its files are replayed; then    *)
(* spill mode ends.                                                          *)
ReplayRound ==
  /\ writer = "replay"
  /\ \/ /\ HasSpill
        /\ file' = "nil" /\ gone' = 0
        /\ scan' = Opened(ReplayPaths)
        /\ writer' = IF ReplayPaths = {} THEN "replay" ELSE "scan"
        /\ UNCHANGED spillMode
     \/ /\ ~HasSpill
        /\ spillMode' = FALSE
        /\ writer' = "loop"
        /\ UNCHANGED <<file, gone, scan>>
  /\ UNCHANGED <<read, reader, queue, disk, sink, up, lost, late, faults>>

Content == IF scan.at = -1 THEN scan.rest ELSE disk[scan.at]

ReplayLineGoesOn ==   \* faulty variant: a failed write does not end the replay
  /\ writer = "scan" /\ scan.next <= Len(Content)
  /\ WriteMessage(Content[scan.next]) \/ WriteMessageFails(Content[scan.next])
  /\ scan' = [scan EXCEPT !.next = @ + 1]
  /\ UNCHANGED <<read, reader, queue, spillMode, spill, writer, up, lost, late>>

\* replayFile: the next line; a failure ends the replay, and the file stays.
ReplayLine ==
  /\ writer = "scan" /\ scan.next <= Len(Content)
  /\ \/ WriteMessage(Content[scan.next]) /\ scan' = [scan EXCEPT !.next = @ + 1] /\ UNCHANGED writer
     \/ WriteMessageFails(Content[scan.next]) /\ scan' = Replay /\ writer' = "loop"
  /\ UNCHANGED <<read, reader, queue, spillMode, spill, up, lost, late>>

\* replayFile: the end of the file.
ReplayEnd ==
  /\ writer = "scan" /\ scan.next > Len(Content)
  /\ writer' = "remove"
  /\ UNCHANGED <<read, reader, queue, spillMode, spill, scan, sink, up, lost, late, faults>>

\* ReplayTo: the path is removed, whatever it names by now; the next is opened, if it is there.
RemoveReplayed ==
  /\ writer = "remove"
  /\ LET p == Max(scan.paths)
         rest == scan.paths \ {p}
         openFails == rest # {} /\ disk[Max(rest)] = <<>>
     IN /\ disk' = [disk EXCEPT ![p] = <<>>]
        /\ IF p = 0 /\ file = "current" THEN file' = "gone" /\ gone' = Len(disk[0])
           ELSE UNCHANGED <<file, gone>>
        /\ scan' = IF openFails THEN Replay ELSE Opened(rest)
        /\ writer' = IF openFails THEN "loop" ELSE IF rest = {} THEN "replay" ELSE "scan"
  /\ UNCHANGED <<read, reader, queue, spillMode, sink, up, lost, late, faults>>

-----------------------------------------------------------------------------
ReaderStep == ReadLine \/ Enqueue \/ EnqueueTimeout \/ SpillLine
WriterStep ==
  \/ WriteQueued \/ WriterEnds \/ ReplayStarts \/ ReplayRound \/ ReplayLine \/ ReplayEnd
  \/ RemoveReplayed

Next ==
  \/ ReaderStep \/ WriterStep \/ BackoffEnds \/ BrokerCloses
  \/ \E p \in Parts : PartFails(p)
  \/ PartsRecover

\* Both goroutines run, and what failed comes back.
Spec ==
  /\ Init /\ [][Next]_vars
  /\ WF_vars(ReaderStep) /\ WF_vars(WriterStep) /\ WF_vars(PartsRecover)

-----------------------------------------------------------------------------
InHand == IF reader \in {"send", "spill"} THEN {read} ELSE {}

(* No line vanishes: each one read is delivered, in the queue, in hand, or   *)
(* in a spill file, however reader, writer and failures interleave.          *)
(* Excepted are lines given up knowingly, and those that are at risk because *)
(* the reader spills while a replay reads and removes the files.             *)
NothingVanishes ==
  1 .. read \subseteq delivered \cup Range(queue) \cup InHand \cup OnDisk \cup lost \cup late

Drained == writer = "done" /\ Lines \subseteq delivered \cup lost \cup late

(* A worker whose service ended goes on until the lines are delivered, and   *)
(* then ends: it is not stuck in spill mode.                                 *)
EventuallyDelivered == <>Drained

(* Spill mode ends only when all is replayed: the files then hold no line    *)
(* but those that were spilled too late, which stay until the next time.     *)
SpillIsReplayed == ~spillMode => OnDisk \subseteq late
=============================================================================
