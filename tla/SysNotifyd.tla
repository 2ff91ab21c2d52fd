----------------------------- MODULE SysNotifyd -----------------------------
(***************************************************************************)
(* The backend lifecycle of sys-notifyd (cmd/sys-notifyd/main.go): one     *)
(* server supervises successive generations of one backend command.        *)
(*                                                                         *)
(* Threads, each a pc: the main goroutine (mpc), the notify reader (rpc),  *)
(* one cmd.Wait goroutine per backend (wpc[g]), one startup monitor per    *)
(* lazily started backend (mon[g]), the watchdog loop and the activation   *)
(* loops.  An action is one critical section of server.mu, or one step     *)
(* between two of them, so that every interleaving the mutex allows is a   *)
(* behaviour.  A generation g is the value childReadyN takes in the g-th   *)
(* startChild; 0 stands for nil.                                           *)
(*                                                                         *)
(* Left out: the text fields status and failure (display only), the        *)
(* durations (a deadline may pass whenever it is armed, so EXTEND_TIMEOUT  *)
(* and WATCHDOG=1, which only push deadlines, change nothing), startErr    *)
(* (only logged), and PID reuse by the kernel.                             *)
(***************************************************************************)
EXTENDS Integers, Sequences, FiniteSets

CONSTANTS
  MaxGen,       \* bound: backends started in one run of the daemon
  StartNow,     \* -start-now: eager; otherwise lazy (socket or D-Bus) activation
  Notify,       \* -service-type=notify
  Payloads,     \* the datagrams a backend may send, each a sequence of lines
  Helpers,      \* the generations whose backend may fork a helper process
  Inputs,       \* what the environment does: "traffic", "control", "sigterm"
  NotifyQMax,   \* bound: datagrams waiting in the notify socket
  StartReqCap,  \* capacity of startReq, 8 in the code
  CmdExitCap,   \* capacity of cmdExit, 4 in the code
  WatchdogCap   \* capacity of watchdogSet, 4 in the code

Lines == {"READY", "RELOADING", "STOPPING", "MAINPID", "WATCHDOG_USEC"}

ASSUME ConstantsAssumption ==
  /\ MaxGen \in Nat \ {0}
  /\ StartNow \in BOOLEAN
  /\ Notify \in BOOLEAN
  /\ Payloads \subseteq Seq(Lines)
  /\ Helpers \subseteq 1 .. MaxGen
  /\ Inputs \subseteq {"traffic", "control", "sigterm"}
  /\ NotifyQMax \in Nat
  /\ StartReqCap \in Nat \ {0}
  /\ CmdExitCap \in Nat \ {0}
  /\ WatchdogCap \in Nat \ {0}

Gens == 1 .. MaxGen
Gens0 == 0 .. MaxGen

(* A process: the command of generation g, or a process it forked.  A      *)
(* MAINPID= line names the forked one.                                     *)
Pids == Gens \X {"main", "helper"}
NoPid == <<0, "none">>

Datagrams == [from : Pids, lines : Seq(Lines)]

VARIABLES
  mpc,         \* main goroutine
  mReady,      \* childReady captured by waitUntilReady
  mDone,       \* cmdDone captured by waitUntilReady, stopChild or abortChild
  emitted,     \* the readiness message was written to -ready-fd
  seq,         \* childReadyN
  cmd,         \* s.cmd
  cmdDone,     \* s.cmdDone
  childReady,  \* s.childReady
  childState, phase, mainPID,
  readyClosed, \* the childReady channel of generation g is closed
  doneClosed,  \* the cmdDone channel of generation g is closed
  proc,        \* the command process of generation g, as the kernel sees it
  helper,      \* the process it forked
  wpc,         \* cmd.Wait goroutine of generation g
  mon,         \* startup monitor of generation g
  monDone,     \* cmdDone captured by the monitor's abortChild
  rpc, rdFrom, rdLines,   \* notify reader: authenticated sender, lines left
  rdSeq,       \* childReadyN as handleNotifyLine loaded it for READY=1
  notifyQ,     \* datagrams in the notify socket
  watchdogSet, \* queued watchdog intervals: "off" is 0, which disarms
  watchdogArmed, \* the watchdog timer runs
  watchdogErr, \* a watchdog timeout is pending
  startReq,    \* number of queued start requests
  cmdExit,     \* number of queued child exit events
  traffic,     \* unaccepted traffic on an activation socket
  sigterm      \* SIGTERM delivered to the daemon

mainVars == <<mpc, mReady, mDone, emitted>>
srvVars == <<seq, cmd, cmdDone, childReady, childState, phase, mainPID>>
chanVars == <<readyClosed, doneClosed>>
procVars == <<proc, helper>>
monVars == <<mon, monDone>>
readVars == <<rpc, rdFrom, rdLines, rdSeq>>
dogVars == <<watchdogSet, watchdogArmed, watchdogErr>>
envVars == <<traffic, sigterm>>
peerVars == <<wpc, monVars, readVars, notifyQ>>      \* never changed by main
inVars == <<dogVars, startReq, cmdExit, envVars>>    \* what main selects on
vars == <<mainVars, srvVars, chanVars, procVars, wpc, monVars, readVars,
          notifyQ, dogVars, startReq, cmdExit, envVars>>

MainPcs == {"boot", "start", "exec", "spawn", "ready", "wait", "mark", "emit", "loop",
            "stopPhase", "stopSignal", "stopWait", "stopCheck", "stopKill", "stopJoin",
            "abort", "abortCheck", "abortKill", "abortJoin",
            "exit", "fatal", "killed"}
MonPcs == {"none", "wait", "mark", "abort", "check", "kill", "join", "done"}

MainType ==
  /\ mpc \in MainPcs
  /\ mReady \in Gens0 /\ mDone \in Gens0
  /\ emitted \in BOOLEAN

ServerType ==
  /\ seq \in Gens0 /\ cmd \in Gens0 /\ cmdDone \in Gens0 /\ childReady \in Gens0
  /\ childState \in {"idle", "starting", "running", "stopping"}
  /\ phase \in {"starting", "ready", "reloading", "stopping", "stopped"}
  /\ mainPID \in Pids \cup {NoPid}

ChanType ==
  /\ readyClosed \in [Gens -> BOOLEAN]
  /\ doneClosed \in [Gens -> BOOLEAN]

ProcType ==
  /\ proc \in [Gens -> {"unborn", "alive", "zombie", "reaped"}]
  /\ helper \in [Gens -> {"unborn", "alive", "dead"}]
  /\ wpc \in [Gens -> {"none", "wait", "send", "done"}]

MonType ==
  /\ mon \in [Gens -> MonPcs]
  /\ monDone \in [Gens -> Gens0]

ReadType ==
  /\ rpc \in {"recv", "lines", "mark", "setpid"}
  /\ rdFrom \in Pids \cup {NoPid}
  /\ rdLines \in Seq(Lines)
  /\ rdSeq \in Gens0
  /\ notifyQ \in Seq(Datagrams)

QueueType ==
  /\ watchdogSet \in Seq({"off", "on"})
  /\ startReq \in 0 .. StartReqCap
  /\ cmdExit \in 0 .. CmdExitCap

FlagType ==
  /\ watchdogArmed \in BOOLEAN
  /\ watchdogErr \in BOOLEAN
  /\ traffic \in BOOLEAN
  /\ sigterm \in BOOLEAN

(* TypeOK: every variable keeps the type of the field or channel it models,  *)
(* and the bounded channels their capacity.                                  *)
TypeOK ==
  /\ MainType
  /\ ServerType
  /\ ChanType
  /\ ProcType
  /\ MonType
  /\ ReadType
  /\ QueueType
  /\ FlagType

(* main returned ("exit"), called logger.Fatal or died of SIGTERM before     *)
(* signal.Notify ("fatal"), or the daemon died of its own SIGKILL.         *)
Ended == mpc \in {"exit", "fatal", "killed"}

Init ==
  /\ mpc = "boot" /\ mReady = 0 /\ mDone = 0 /\ emitted = FALSE
  /\ seq = 0 /\ cmd = 0 /\ cmdDone = 0 /\ childReady = 0
  /\ childState = "idle" /\ phase = "starting" /\ mainPID = NoPid
  /\ readyClosed = [g \in Gens |-> FALSE]
  /\ doneClosed = [g \in Gens |-> FALSE]
  /\ proc = [g \in Gens |-> "unborn"]
  /\ helper = [g \in Gens |-> "unborn"]
  /\ wpc = [g \in Gens |-> "none"]
  /\ mon = [g \in Gens |-> "none"]
  /\ monDone = [g \in Gens |-> 0]
  /\ rpc = "recv" /\ rdFrom = NoPid /\ rdLines = <<>> /\ rdSeq = 0
  /\ notifyQ = <<>>
  /\ watchdogSet = <<>> /\ watchdogArmed = FALSE /\ watchdogErr = FALSE
  /\ startReq = 0 /\ cmdExit = 0
  /\ traffic = FALSE /\ sigterm = FALSE

-----------------------------------------------------------------------------
(* Helpers of the code. *)

\* trySendDuration and the select/default sends: a full channel drops the value.
TrySend(q, v, cap) == IF Len(q) < cap THEN Append(q, v) ELSE q

\* resetForIdleLocked, but for the channels of the generation that ended.
ResetForIdle ==
  /\ cmd' = 0
  /\ cmdDone' = 0
  /\ childReady' = 0
  /\ mainPID' = NoPid
  /\ childState' = "idle"
  /\ phase' = IF StartNow THEN "stopped" ELSE "ready"
  /\ watchdogSet' = TrySend(watchdogSet, "off", WatchdogCap)

\* markChildReady(s): one critical section.
MarkChildReady(s) ==
  IF s # seq
  THEN UNCHANGED <<readyClosed, childState, phase, mainPID>>
  ELSE /\ readyClosed' = [g \in Gens |-> readyClosed[g] \/ g = childReady]
       /\ childState' = "running"
       /\ phase' = "ready"
       /\ mainPID' = IF cmd # 0 /\ mainPID = NoPid THEN <<cmd, "main">> ELSE mainPID

\* ownsNotifyPID: the command itself, the recorded main process, or a process
\* whose ancestry still reaches it (an orphan is reparented and fails).
OwnsNotifyPID(p) ==
  /\ cmd # 0
  /\ \/ p = <<cmd, "main">>
     \/ p = mainPID
     \/ p = <<cmd, "helper">> /\ helper[cmd] = "alive" /\ proc[cmd] = "alive"

\* syscall.Kill(p, SIGKILL); ESRCH is not an error.  kill(2) with PID 0 signals
\* the daemon's own process group, which its backends inherit.
Kill(p) ==
  /\ proc' = [g \in Gens |-> IF p \in {<<g, "main">>, NoPid} /\ proc[g] = "alive"
                             THEN "zombie" ELSE proc[g]]
  /\ helper' = [g \in Gens |-> IF p \in {<<g, "helper">>, NoPid} /\ helper[g] = "alive"
                               THEN "dead" ELSE helper[g]]

\* A step of main that changes nothing but where it is.
Goto(from, to) ==
  /\ mpc = from /\ mpc' = to
  /\ UNCHANGED <<mReady, mDone, emitted, srvVars, chanVars, procVars, peerVars, inVars>>

-----------------------------------------------------------------------------
(* Main goroutine: boot, startChild, waitUntilReady. *)

\* newServer and the arm* calls; a lazy server is ready once it listens.
Boot ==
  /\ mpc = "boot"
  /\ \/ /\ StartNow
        /\ mpc' = "start"
        /\ UNCHANGED phase
     \/ /\ ~StartNow
        /\ mpc' = "emit"
        /\ phase' = "ready"
  /\ UNCHANGED <<mReady, mDone, emitted, seq, cmd, cmdDone, childReady,
                 childState, mainPID, chanVars, procVars, peerVars, inVars>>

\* startChild, first critical section: a new generation and its channels.
StartChildBegin ==
  /\ mpc = "start"
  /\ cmd = 0
  /\ seq < MaxGen
  /\ seq' = seq + 1
  /\ childReady' = seq + 1
  /\ cmdDone' = seq + 1
  /\ childState' = "starting"
  /\ phase' = "starting"
  /\ watchdogSet' = TrySend(watchdogSet, "off", WatchdogCap)
  /\ mpc' = "exec"
  /\ UNCHANGED <<mReady, mDone, emitted, cmd, mainPID, chanVars, procVars,
                 peerVars, watchdogArmed, watchdogErr, startReq, cmdExit,
                 envVars>>

\* startChild, cmd.Start succeeded: the PID is published under the same lock.
StartChildExec ==
  /\ mpc = "exec"
  /\ proc' = [proc EXCEPT ![seq] = "alive"]
  /\ cmd' = seq
  /\ mainPID' = <<seq, "main">>
  /\ mpc' = "spawn"
  /\ UNCHANGED <<mReady, mDone, emitted, seq, cmdDone, childReady, childState,
                 phase, chanVars, helper, peerVars, inVars>>

\* startChild, cmd.Start failed: back to idle, and main calls logger.Fatal.
StartChildFail ==
  /\ mpc = "exec"
  /\ ResetForIdle
  /\ mpc' = "fatal"
  /\ UNCHANGED <<mReady, mDone, emitted, seq, chanVars, procVars, peerVars,
                 watchdogArmed, watchdogErr, startReq, cmdExit, envVars>>

\* startChild, after the PID is known: a service that does not notify is ready
\* at once; the startup monitor (lazy only) and the waiter are spawned.
StartChildSpawn ==
  /\ mpc = "spawn"
  /\ \/ ~Notify /\ MarkChildReady(seq)
     \/ Notify /\ UNCHANGED <<readyClosed, childState, phase, mainPID>>
  /\ wpc' = [wpc EXCEPT ![seq] = "wait"]
  /\ mon' = [mon EXCEPT ![seq] = IF ~StartNow /\ Notify THEN "wait" ELSE "none"]
  /\ mpc' = IF StartNow THEN "ready" ELSE "loop"
  /\ UNCHANGED <<mReady, mDone, emitted, seq, cmd, cmdDone, childReady,
                 doneClosed, procVars, monDone, readVars, notifyQ, inVars>>

\* waitUntilReady: currentChildWatchers, one critical section.  A nil cmdDone
\* (the backend is already reaped) returns no error.
WaitUntilReady ==
  /\ mpc = "ready"
  /\ mReady' = childReady
  /\ mDone' = cmdDone
  /\ mpc' = IF cmdDone = 0 THEN "emit" ELSE IF Notify THEN "wait" ELSE "mark"
  /\ UNCHANGED <<emitted, srvVars, chanVars, procVars, peerVars, inVars>>

\* waitForReady in main: READY=1 first, or the exit or the deadline first.
WaitForReadyOk == Goto("wait", "mark") /\ readyClosed[mReady]

\* Faulty variant: the deadline counts as readiness.
WaitForReadyFailEmits == Goto("wait", "emit")

WaitForReadyFail == Goto("wait", "abort")

\* markChildReady, called by waitUntilReady or waitForReady.
WaitMark ==
  /\ mpc = "mark"
  /\ MarkChildReady(mReady)
  /\ mpc' = "emit"
  /\ UNCHANGED <<mReady, mDone, emitted, seq, cmd, cmdDone, childReady,
                 doneClosed, procVars, peerVars, inVars>>

EmitReady ==
  /\ mpc = "emit"
  /\ emitted' = TRUE
  /\ mpc' = "loop"
  /\ UNCHANGED <<mReady, mDone, srvVars, chanVars, procVars, peerVars, inVars>>

-----------------------------------------------------------------------------
(* Main goroutine: the select loop. *)

\* case reason := <-startReq: startChildIfNeeded drops the request when busy.
HandleStartReq ==
  /\ mpc = "loop"
  /\ startReq > 0
  /\ startReq' = startReq - 1
  /\ mpc' = IF cmd # 0 \/ childState \in {"starting", "stopping"} \/ seq = MaxGen
            THEN "loop" ELSE "start"
  /\ UNCHANGED <<mReady, mDone, emitted, srvVars, chanVars, procVars, peerVars,
                 dogVars, cmdExit, envVars>>

\* case event := <-cmdExit: a lazy server stays armed, an eager one is fatal.
HandleChildExit ==
  /\ mpc = "loop"
  /\ cmdExit > 0
  /\ cmdExit' = cmdExit - 1
  /\ mpc' = IF StartNow THEN "fatal" ELSE "loop"
  /\ UNCHANGED <<mReady, mDone, emitted, srvVars, chanVars, procVars, peerVars,
                 dogVars, startReq, envVars>>

\* case err := <-watchdogErr: abortChild, and its cause is always fatal.
HandleWatchdogTimeout ==
  /\ mpc = "loop"
  /\ watchdogErr
  /\ watchdogErr' = FALSE
  /\ mpc' = "abort"
  /\ UNCHANGED <<mReady, mDone, emitted, srvVars, chanVars, procVars, peerVars,
                 watchdogSet, watchdogArmed, startReq, cmdExit, envVars>>

\* case sig := <-sigCh: stopChild, first critical section.
StopChildBegin ==
  /\ mpc = "loop"
  /\ sigterm
  /\ mDone' = cmdDone
  /\ \/ /\ cmd = 0
        /\ mpc' = "exit"
        /\ UNCHANGED childState
     \/ /\ cmd # 0
        /\ mpc' = "stopPhase"
        /\ childState' = "stopping"
  /\ UNCHANGED <<mReady, emitted, seq, cmd, cmdDone, childReady, phase,
                 mainPID, chanVars, procVars, peerVars, inVars>>

StopChildPhase ==
  /\ mpc = "stopPhase"
  /\ phase' = "stopping"
  /\ mpc' = "stopSignal"
  /\ UNCHANGED <<mReady, mDone, emitted, seq, cmd, cmdDone, childReady,
                 childState, mainPID, chanVars, procVars, peerVars, inVars>>

\* The stop command or the kill signal; the backend may ignore either.  A stop
\* command that fails, or a main PID of 0 (read without the lock), is fatal.
StopChildSignal ==
  \/ Goto("stopSignal", "stopWait")
  \/ Goto("stopSignal", "fatal")

StopChildExited ==
  \/ Goto("stopWait", "exit") /\ doneClosed[mDone]
  \/ Goto("stopJoin", "exit") /\ doneClosed[mDone]

\* Faulty variant: the stop signal is sent again, and SIGKILL never.
StopChildTimeoutResignals == Goto("stopWait", "stopSignal")

StopChildTimeout == Goto("stopWait", "stopCheck")

\* signalMainProcess("KILL") reads mainPID twice without the lock: for the test
\* here, for the system call in the next step.
StopChildCheck ==
  Goto("stopCheck", IF mainPID = NoPid THEN "fatal" ELSE "stopKill")

\* Faulty variant: returns without waiting for the killed backend.
StopChildKillNoJoin ==
  /\ mpc = "stopKill"
  /\ Kill(mainPID)
  /\ mpc' = IF mainPID = NoPid THEN "killed" ELSE "exit"
  /\ UNCHANGED <<mReady, mDone, emitted, srvVars, chanVars, peerVars, inVars>>

StopChildKill ==
  /\ mpc = "stopKill"
  /\ Kill(mainPID)
  /\ mpc' = IF mainPID = NoPid THEN "killed" ELSE "stopJoin"
  /\ UNCHANGED <<mReady, mDone, emitted, srvVars, chanVars, peerVars, inVars>>

\* abortChild called by main; every outcome ends in logger.Fatal.
AbortBegin ==
  /\ mpc = "abort"
  /\ mDone' = cmdDone
  /\ mpc' = IF cmd = 0 THEN "fatal" ELSE "abortCheck"
  /\ UNCHANGED <<mReady, emitted, srvVars, chanVars, procVars, peerVars,
                 inVars>>

AbortCheck ==
  Goto("abortCheck", IF mainPID = NoPid THEN "fatal" ELSE "abortKill")

AbortKill ==
  /\ mpc = "abortKill"
  /\ Kill(mainPID)
  /\ mpc' = IF mainPID = NoPid THEN "killed" ELSE "abortJoin"
  /\ UNCHANGED <<mReady, mDone, emitted, srvVars, chanVars, peerVars, inVars>>

AbortJoin == Goto("abortJoin", "fatal") /\ doneClosed[mDone]

-----------------------------------------------------------------------------
(* The cmd.Wait goroutine of generation g. *)

\* Faulty variant: cmdDone is closed only for a backend that became ready.
ReapClosesReadyOnly(g) ==
  /\ ~Ended
  /\ wpc[g] = "wait"
  /\ proc[g] = "zombie"
  /\ proc' = [proc EXCEPT ![g] = "reaped"]
  /\ wpc' = [wpc EXCEPT ![g] = "send"]
  /\ ResetForIdle
  /\ doneClosed' = [doneClosed EXCEPT ![g] = childState = "running"]
  /\ UNCHANGED <<mainVars, seq, readyClosed, helper, monVars, readVars,
                 notifyQ, watchdogArmed, watchdogErr, startReq, cmdExit,
                 envVars>>

\* cmd.Wait returned: reset under the lock and close cmdDone.
Reap(g) ==
  /\ ~Ended
  /\ wpc[g] = "wait"
  /\ proc[g] = "zombie"
  /\ proc' = [proc EXCEPT ![g] = "reaped"]
  /\ wpc' = [wpc EXCEPT ![g] = "send"]
  /\ IF cmd = g
     THEN /\ ResetForIdle
          /\ doneClosed' = [doneClosed EXCEPT ![g] = TRUE]
     ELSE UNCHANGED <<cmd, cmdDone, childReady, mainPID, childState, phase,
                      watchdogSet, doneClosed>>
  /\ UNCHANGED <<mainVars, seq, readyClosed, helper, monVars, readVars,
                 notifyQ, watchdogArmed, watchdogErr, startReq, cmdExit,
                 envVars>>

\* cmdExit <- childExitEvent: blocks while the channel is full.
SendExit(g) ==
  /\ ~Ended
  /\ wpc[g] = "send"
  /\ cmdExit < CmdExitCap
  /\ cmdExit' = cmdExit + 1
  /\ wpc' = [wpc EXCEPT ![g] = "done"]
  /\ UNCHANGED <<mainVars, srvVars, chanVars, procVars, monVars, readVars,
                 notifyQ, dogVars, startReq, envVars>>

-----------------------------------------------------------------------------
(* The startup monitor of generation g: waitForReady, then abortChild.  *)
(* abortChild acts on whatever backend is current when it runs.         *)

MonitorStep(g, from, to) ==
  /\ ~Ended
  /\ mon[g] = from
  /\ mon' = [mon EXCEPT ![g] = to]
  /\ UNCHANGED <<mReady, mDone, emitted, seq, cmd, cmdDone, childReady,
                 doneClosed, wpc, readVars, notifyQ, inVars>>

MonitorReady(g) ==
  /\ readyClosed[g]
  /\ MonitorStep(g, "wait", "mark")
  /\ UNCHANGED <<mpc, childState, phase, mainPID, readyClosed, procVars,
                 monDone>>

MonitorMark(g) ==
  /\ MonitorStep(g, "mark", "done")
  /\ MarkChildReady(g)
  /\ UNCHANGED <<mpc, procVars, monDone>>

\* The backend exited before READY=1, or the deadline passed.
MonitorFail(g) ==
  /\ MonitorStep(g, "wait", "abort")
  /\ UNCHANGED <<mpc, childState, phase, mainPID, readyClosed, procVars,
                 monDone>>

\* Faulty variant: a backend still in startup is left alone.
MonitorAbortSkips(g) ==
  /\ MonitorStep(g, "abort", IF cmd = 0 \/ childState = "starting" THEN "done" ELSE "check")
  /\ monDone' = [monDone EXCEPT ![g] = IF cmd = 0 THEN 0 ELSE cmdDone]
  /\ UNCHANGED <<mpc, childState, phase, mainPID, readyClosed, procVars>>

MonitorAbort(g) ==
  /\ MonitorStep(g, "abort", IF cmd = 0 THEN "done" ELSE "check")
  /\ monDone' = [monDone EXCEPT ![g] = IF cmd = 0 THEN 0 ELSE cmdDone]
  /\ UNCHANGED <<mpc, childState, phase, mainPID, readyClosed, procVars>>

MonitorCheck(g) ==
  /\ MonitorStep(g, "check", IF mainPID = NoPid THEN "done" ELSE "kill")
  /\ UNCHANGED <<mpc, childState, phase, mainPID, readyClosed, procVars,
                 monDone>>

\* Faulty variant: abortChild does not wait for cmdDone.
MonitorKillNoJoin(g) ==
  /\ MonitorStep(g, "kill", "done")
  /\ Kill(mainPID)
  /\ mpc' = IF mainPID = NoPid THEN "killed" ELSE mpc
  /\ UNCHANGED <<childState, phase, mainPID, readyClosed, monDone>>

\* Faulty variant: abortChild forgets the command it killed, as startChild's
\* error path does.
MonitorKillForgets(g) ==
  /\ ~Ended
  /\ mon[g] = "kill"
  /\ mon' = [mon EXCEPT ![g] = "done"]
  /\ Kill(mainPID)
  /\ ResetForIdle
  /\ UNCHANGED <<mainVars, seq, chanVars, wpc, monDone, readVars, notifyQ,
                 watchdogArmed, watchdogErr, startReq, cmdExit, envVars>>

MonitorKill(g) ==
  /\ MonitorStep(g, "kill", "join")
  /\ Kill(mainPID)
  /\ mpc' = IF mainPID = NoPid THEN "killed" ELSE mpc
  /\ UNCHANGED <<childState, phase, mainPID, readyClosed, monDone>>

MonitorJoin(g) ==
  /\ MonitorStep(g, "join", "done")
  /\ doneClosed[monDone[g]]
  /\ monDone' = [monDone EXCEPT ![g] = 0]
  /\ UNCHANGED <<mpc, childState, phase, mainPID, readyClosed, procVars>>

Monitor(g) ==
  \/ MonitorReady(g)
  \/ MonitorMark(g)
  \/ MonitorFail(g)
  \/ MonitorAbort(g)
  \/ MonitorCheck(g)
  \/ MonitorKill(g)
  \/ MonitorJoin(g)

-----------------------------------------------------------------------------
(* The notify reader: a datagram is authenticated once, then its lines are *)
(* handled one by one, each in its own critical sections.                  *)

ReadNotify ==
  /\ ~Ended
  /\ rpc = "recv"
  /\ notifyQ # <<>>
  /\ notifyQ' = Tail(notifyQ)
  /\ \/ /\ OwnsNotifyPID(Head(notifyQ).from)
        /\ rpc' = "lines"
        /\ rdFrom' = Head(notifyQ).from
        /\ rdLines' = Head(notifyQ).lines
        /\ UNCHANGED rdSeq
     \/ /\ ~OwnsNotifyPID(Head(notifyQ).from)
        /\ UNCHANGED readVars
  /\ UNCHANGED <<mainVars, srvVars, chanVars, procVars, wpc, monVars, inVars>>

ReadDone ==
  /\ ~Ended
  /\ rpc = "lines"
  /\ rdLines = <<>>
  /\ rpc' = "recv"
  /\ rdFrom' = NoPid
  /\ UNCHANGED <<rdLines, rdSeq, mainVars, srvVars, chanVars, procVars, wpc,
                 monVars, notifyQ, inVars>>

NextLine(line) ==
  /\ ~Ended
  /\ rpc = "lines"
  /\ rdLines # <<>>
  /\ Head(rdLines) = line
  /\ rdLines' = Tail(rdLines)
  /\ UNCHANGED <<rdFrom, mainVars, seq, cmd, cmdDone, childReady, doneClosed,
                 procVars, wpc, monVars, notifyQ, watchdogArmed, watchdogErr,
                 startReq, cmdExit, envVars>>

\* READY=1: childReadyN is loaded when the line is handled ...
NotifyReady ==
  /\ NextLine("READY")
  /\ rpc' = "mark"
  /\ rdSeq' = seq
  /\ UNCHANGED <<childState, phase, mainPID, readyClosed, watchdogSet>>

\* ... and markChildReady compares it again under the lock.
NotifyMark ==
  /\ ~Ended
  /\ rpc = "mark"
  /\ rpc' = "lines"
  /\ MarkChildReady(rdSeq)
  /\ rdSeq' = 0
  /\ UNCHANGED <<rdFrom, rdLines, mainVars, seq, cmd, cmdDone, childReady,
                 doneClosed, procVars, wpc, monVars, notifyQ, inVars>>

NotifyPhase ==
  /\ \/ NextLine("RELOADING") /\ phase' = "reloading"
     \/ NextLine("STOPPING") /\ phase' = "stopping"
  /\ UNCHANGED <<rpc, rdSeq, childState, mainPID, readyClosed, watchdogSet>>

\* WATCHDOG_USEC=: the interval goes to the watchdog loop, or is dropped.
NotifyWatchdog ==
  /\ NextLine("WATCHDOG_USEC")
  /\ watchdogSet' = TrySend(watchdogSet, "on", WatchdogCap)
  /\ UNCHANGED <<rpc, rdSeq, childState, phase, mainPID, readyClosed>>

\* MAINPID=: the named process is checked in one critical section ...
NotifyMainPID ==
  /\ NextLine("MAINPID")
  /\ rpc' = IF OwnsNotifyPID(<<rdFrom[1], "helper">>) THEN "setpid" ELSE "lines"
  /\ UNCHANGED <<rdSeq, childState, phase, mainPID, readyClosed, watchdogSet>>

\* ... and stored in the next one.
SetMainPID ==
  /\ ~Ended
  /\ rpc = "setpid"
  /\ rpc' = "lines"
  /\ mainPID' = <<rdFrom[1], "helper">>
  /\ UNCHANGED <<rdFrom, rdLines, rdSeq, mainVars, seq, cmd, cmdDone,
                 childReady, childState, phase, chanVars, procVars, wpc,
                 monVars, notifyQ, inVars>>

Reader ==
  \/ ReadNotify
  \/ NotifyReady
  \/ NotifyMark
  \/ NotifyPhase
  \/ NotifyWatchdog
  \/ NotifyMainPID
  \/ SetMainPID
  \/ ReadDone

-----------------------------------------------------------------------------
(* The watchdog loop and the activation loops. *)

WatchdogSet ==
  /\ ~Ended
  /\ watchdogSet # <<>>
  /\ watchdogArmed' = (Head(watchdogSet) = "on")
  /\ watchdogSet' = Tail(watchdogSet)
  /\ UNCHANGED <<watchdogErr, mainVars, srvVars, chanVars, procVars, peerVars,
                 startReq, cmdExit, envVars>>

\* The timer fired; watchdogErr holds one error.
WatchdogFire ==
  /\ ~Ended
  /\ watchdogArmed
  /\ watchdogErr' = TRUE
  /\ watchdogArmed' = FALSE
  /\ UNCHANGED <<watchdogSet, mainVars, srvVars, chanVars, procVars, peerVars,
                 startReq, cmdExit, envVars>>

\* Faulty variant: the loop ends once it has started a backend.
ActivationLoopOnce ==
  /\ ~Ended /\ ~StartNow /\ mpc # "boot"
  /\ traffic /\ seq = 0
  /\ startReq < StartReqCap
  /\ startReq' = startReq + 1
  /\ UNCHANGED <<mainVars, srvVars, chanVars, procVars, peerVars, dogVars,
                 cmdExit, envVars>>

\* activationLoop: level-triggered epoll queues a start while traffic waits.
ActivationLoop ==
  /\ ~Ended /\ ~StartNow /\ mpc # "boot"
  /\ traffic
  /\ startReq < StartReqCap
  /\ startReq' = startReq + 1
  /\ UNCHANGED <<mainVars, srvVars, chanVars, procVars, peerVars, dogVars,
                 cmdExit, envVars>>

\* handleControlActivation, dbusActivationLoop: one request, dropped when full.
ControlActivation ==
  /\ ~Ended /\ ~StartNow /\ mpc # "boot"
  /\ "control" \in Inputs
  /\ startReq < StartReqCap
  /\ startReq' = startReq + 1
  /\ UNCHANGED <<mainVars, srvVars, chanVars, procVars, peerVars, dogVars,
                 cmdExit, envVars>>

-----------------------------------------------------------------------------
(* Environment: the backend, its clients and Dinit. *)

\* The backend runs once cmd.Start released the lock (mpc # "exec").
BackendNotify(g) ==
  /\ ~Ended /\ Notify
  /\ Len(notifyQ) < NotifyQMax
  /\ \E from \in {<<g, "main">>, <<g, "helper">>}, lines \in Payloads :
       /\ IF from[2] = "main" THEN proc[g] = "alive" ELSE helper[g] = "alive"
       /\ notifyQ' = Append(notifyQ, [from |-> from, lines |-> lines])
  /\ UNCHANGED <<mainVars, srvVars, chanVars, procVars, wpc, monVars, readVars,
                 inVars>>

BackendFork(g) ==
  /\ ~Ended
  /\ g \in Helpers
  /\ proc[g] = "alive" /\ helper[g] = "unborn"
  /\ helper' = [helper EXCEPT ![g] = "alive"]
  /\ UNCHANGED <<proc, mainVars, srvVars, chanVars, peerVars, inVars>>

BackendExit(g) ==
  /\ ~Ended
  /\ proc[g] = "alive"
  /\ proc' = [proc EXCEPT ![g] = "zombie"]
  /\ UNCHANGED <<helper, mainVars, srvVars, chanVars, peerVars, inVars>>

HelperExit(g) ==
  /\ ~Ended
  /\ helper[g] = "alive"
  /\ helper' = [helper EXCEPT ![g] = "dead"]
  /\ UNCHANGED <<proc, mainVars, srvVars, chanVars, peerVars, inVars>>

\* A running backend accepts the traffic waiting on the inherited sockets.
BackendAccept(g) ==
  /\ ~Ended
  /\ proc[g] = "alive" /\ traffic
  /\ traffic' = FALSE
  /\ UNCHANGED <<sigterm, mainVars, srvVars, chanVars, procVars, peerVars,
                 dogVars, startReq, cmdExit>>

ClientConnect ==
  /\ ~Ended /\ ~StartNow
  /\ "traffic" \in Inputs
  /\ ~traffic /\ traffic' = TRUE
  /\ UNCHANGED <<sigterm, mainVars, srvVars, chanVars, procVars, peerVars,
                 dogVars, startReq, cmdExit>>

\* Until signal.Notify, SIGTERM has its default action.
Sigterm ==
  /\ ~Ended
  /\ "sigterm" \in Inputs
  /\ ~sigterm /\ sigterm' = TRUE
  /\ mpc' = IF emitted THEN mpc ELSE "fatal"
  /\ UNCHANGED <<traffic, mReady, mDone, emitted, srvVars, chanVars, procVars,
                 peerVars, dogVars, startReq, cmdExit>>

Backend(g) ==
  \/ BackendNotify(g)
  \/ BackendFork(g)
  \/ BackendExit(g)
  \/ HelperExit(g)
  \/ BackendAccept(g)

-----------------------------------------------------------------------------
MainStart ==
  \/ Boot
  \/ StartChildBegin
  \/ StartChildExec
  \/ StartChildFail
  \/ StartChildSpawn
  \/ WaitUntilReady
  \/ WaitForReadyOk
  \/ WaitForReadyFail
  \/ WaitMark
  \/ EmitReady

MainStop ==
  \/ StopChildBegin
  \/ StopChildPhase
  \/ StopChildSignal
  \/ StopChildExited
  \/ StopChildTimeout
  \/ StopChildCheck
  \/ StopChildKill
  \/ AbortBegin
  \/ AbortCheck
  \/ AbortKill
  \/ AbortJoin

Main ==
  \/ MainStart
  \/ HandleStartReq
  \/ HandleChildExit
  \/ HandleWatchdogTimeout
  \/ MainStop

Terminated == Ended /\ UNCHANGED vars

Next ==
  \/ Main
  \/ \E g \in Gens : Reap(g) \/ SendExit(g) \/ Monitor(g) \/ Backend(g)
  \/ Reader
  \/ WatchdogSet
  \/ WatchdogFire
  \/ ActivationLoop
  \/ ControlActivation
  \/ ClientConnect
  \/ Sigterm
  \/ Terminated

Spec == Init /\ [][Next]_vars

(* Fairness.  Every goroutine that can run does run.  The cases of a Go      *)
(* select are drawn at random, so a case that is ready again and again is   *)
(* taken: strong fairness for the cases of main's loop and of the watchdog  *)
(* loop.  A deadline that is armed passes.  Backends and clients owe the    *)
(* daemon nothing.                                                          *)
MainRun == mpc # "loop" /\ Main

Fairness ==
  /\ WF_vars(MainRun)
  /\ SF_vars(HandleStartReq)
  /\ SF_vars(HandleChildExit)
  /\ SF_vars(HandleWatchdogTimeout)
  /\ SF_vars(StopChildBegin)
  /\ \A g \in Gens : WF_vars(Reap(g)) /\ WF_vars(SendExit(g)) /\ WF_vars(Monitor(g))
  /\ WF_vars(Reader)
  /\ SF_vars(WatchdogSet)
  /\ WF_vars(ActivationLoop)

FairSpec == Spec /\ Fairness

-----------------------------------------------------------------------------
(* Safety. *)

(* At most one backend command is unreaped at any time, and it is the one   *)
(* s.cmd tracks: no start, exit, abort or late notification leaves a        *)
(* process that stopChild would not find (startChildIfNeeded, startChild,   *)
(* the cmd.Wait goroutine).                                                 *)
OneBackend == \A g \in Gens : proc[g] \in {"alive", "zombie"} <=> cmd = g

(* When main returns (and cleanup removes the state file and the sockets),  *)
(* every backend it ever started has exited and has been reaped: stopChild  *)
(* never returns early.                                                     *)
CleanExitReaps ==
  mpc = "exit" => \A g \in Gens : proc[g] \in {"unborn", "reaped"}

(* Every waiter on cmdDone is released: the channel of a reaped backend is  *)
(* closed, whatever started, stopped or aborted in between, so stopChild    *)
(* and abortChild never wait on a channel nobody will close.                *)
WaitersReleased ==
  /\ \A g \in Gens : proc[g] = "reaped" <=> doneClosed[g]
  /\ mpc \in {"stopWait", "stopJoin", "abortJoin"} => mDone # 0
  /\ \A g \in Gens : mon[g] = "join" => monDone[g] # 0

(* A startup monitor gives up only when its own backend is ready or gone:   *)
(* abortChild, which acts on the current backend whichever it is, does not  *)
(* end the supervision of a startup that is still pending                   *)
(* (monitorChildStartup).                                                   *)
MonitorSettles ==
  \A g \in Gens : mon[g] = "done" => readyClosed[g] \/ doneClosed[g]

(* A notify service writes the readiness message only when each backend     *)
(* that was started has sent READY=1 or was reaped: an eager one waits for   *)
(* its backend (waitUntilReady, which takes a cmdDone that is already nil   *)
(* for success), a lazy one has not started any yet.                        *)
EmitStep ==
  emitted' # emitted /\ Notify => \A g \in 1 .. seq : readyClosed[g] \/ doneClosed[g]
EmittedAfterReadyOrExit == [][EmitStep]_vars

-----------------------------------------------------------------------------
(* Liveness under FairSpec. *)

\* main waits for a command that SIGKILL did not reach, because MAINPID= moved
\* mainPID to a helper of it.
HeldByReplacedMain ==
  /\ mpc \in {"stopJoin", "abortJoin"}
  /\ proc[mDone] = "alive" /\ helper[mDone] = "dead"

(* SIGTERM ends the daemon: no pending start, exit event, monitor, watchdog *)
(* timeout or notification keeps main from stopChild, and stopChild ends    *)
(* (but for a replaced main process).                                       *)
StopTerminates == sigterm ~> (Ended \/ HeldByReplacedMain)

(* Traffic on an activation socket is served: a request dropped because the *)
(* previous backend was still going down is queued again by the             *)
(* level-triggered epoll, until a backend runs.                             *)
TrafficTaken == cmd # 0 \/ ~traffic \/ Ended \/ seq = MaxGen \/ HeldByReplacedMain
TrafficServed == traffic ~> TrafficTaken

\* The same for the monitor of generation g, in abortChild.
MonitorHeld(g) ==
  mon[g] = "join" /\ proc[monDone[g]] = "alive" /\ helper[monDone[g]] = "dead"

(* A lazily started backend does not stay in startup: it becomes ready, or  *)
(* the monitor's deadline ends it (but for a replaced main process).        *)
StartupSettles ==
  \A g \in Gens :
    mon[g] = "wait" ~> (readyClosed[g] \/ doneClosed[g] \/ Ended \/ MonitorHeld(g))
=============================================================================
