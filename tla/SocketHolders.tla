---------------------------- MODULE SocketHolders ---------------------------
(***************************************************************************)
(* cleanupSocketActivationState (socket_holder_policy.go, main.go): before *)
(* servicectl starts a socket-activated unit it looks through /proc for    *)
(* processes that still hold the unit's socket paths, ends the stale ones  *)
(* if it may, and removes the paths.  Processes come and go meanwhile, and *)
(* the kernel gives a process number out again.                            *)
(***************************************************************************)
EXTENDS Integers, FiniteSets

CONSTANTS
  Pids,      \* process numbers, in the order of /proc
  Owner,     \* the process that busctl names for org.freedesktop.DBus
  MaxReuse   \* bound: numbers given out again, sockets bound later

VARIABLES
  alive,     \* processes
  holds,     \* processes that refer to a path or to a socket bound to it
  since,     \* ghost: processes that have held a path since the command began
  tracked,   \* trackedUnitPIDs
  path,      \* the paths exist
  force, enabled, adaptive,   \* --force, SERVICECTL_KILL_STALE_SOCKET_HOLDERS, the policy
  todo, found,   \* the scan of /proc: numbers to come, holders found
  targets,       \* cleanupStaleSocketHoldersAndPaths: holders to end
  pc, reused,
  killed         \* ghost: processes killed that have held a path since the command began

options == <<tracked, force, enabled, adaptive>>
procs == <<alive, holds, since, reused>>
vars == <<options, procs, path, todo, found, targets, pc, killed>>

Init ==
  /\ alive = Pids /\ holds \in SUBSET Pids /\ since = holds /\ reused = 0
  /\ tracked \in SUBSET Pids /\ force \in BOOLEAN /\ enabled \in BOOLEAN /\ adaptive \in BOOLEAN
  /\ path \in BOOLEAN /\ (holds # {} => path)
  /\ todo = Pids /\ found = {} /\ targets = {} /\ pc = "scan" /\ killed = {}

-----------------------------------------------------------------------------
(* The processes. *)

Gone(S) == alive' = alive \ S /\ holds' = holds \ S /\ since' = since \ S

Exit(p) == p \in alive /\ Gone({p}) /\ UNCHANGED <<options, reused, path, todo, found, targets, pc, killed>>

Release(p) ==
  /\ p \in holds /\ holds' = holds \ {p} /\ since' = since \ {p}
  /\ UNCHANGED <<options, alive, reused, path, todo, found, targets, pc, killed>>

\* A new process takes the number of one that is gone, a process binds the path.
Reuse(p) ==
  /\ p \notin alive /\ reused < MaxReuse /\ reused' = reused + 1 /\ alive' = alive \cup {p}
  /\ UNCHANGED <<options, holds, since, path, todo, found, targets, pc, killed>>

Bind(p) ==
  /\ p \in alive \ holds /\ ~path /\ reused < MaxReuse /\ reused' = reused + 1
  /\ holds' = holds \cup {p} /\ path' = TRUE
  /\ UNCHANGED <<options, alive, since, todo, found, targets, pc, killed>>

-----------------------------------------------------------------------------
(* staleSocketHolderPIDs, and what is done about the holders. *)

First(S) == CHOOSE p \in S : \A q \in S : p <= q

ScanOne ==
  /\ pc = "scan" /\ todo # {}
  /\ LET p == First(todo)
     IN  /\ found' = IF p \in holds \ tracked THEN found \cup {p} ELSE found
         /\ todo' = todo \ {p}
  /\ UNCHANGED <<options, procs, path, targets, pc, killed>>

Acceptable == IF adaptive /\ path /\ Owner \in alive THEN {Owner} ELSE {}
Remaining == found \ Acceptable

DecideAll ==   \* faulty variant: the holders the policy accepts are ended as well
  /\ pc = "scan" /\ todo = {}
  /\ targets' = found
  /\ pc' = IF found = {} THEN "remove"
           ELSE IF Remaining = {} /\ ~force THEN "kept"
           ELSE IF ~force /\ ~enabled THEN "refused" ELSE "term"
  /\ UNCHANGED <<options, procs, path, todo, found, killed>>

Decide ==
  /\ pc = "scan" /\ todo = {}
  /\ targets' = IF force THEN found ELSE Remaining
  /\ pc' = IF found = {} THEN "remove"
           ELSE IF Remaining = {} /\ ~force THEN "kept"
           ELSE IF ~force /\ ~enabled THEN "refused" ELSE "term"
  /\ UNCHANGED <<options, procs, path, todo, found, killed>>

\* SIGTERM ends the processes that do not catch it, SIGKILL those that are not
\* stuck in the kernel.
Signal(S) == Gone(S) /\ killed' = killed \cup (S \cap since)

Term ==
  /\ pc = "term" /\ pc' = "kill"
  /\ \E S \in SUBSET (targets \cap alive) : Signal(S)
  /\ UNCHANGED <<options, reused, path, todo, found, targets>>

\* waitForPIDsToExit ends when they are gone or after 1.5 s.
Kill ==
  /\ pc = "kill" /\ pc' = "check"
  /\ \E S \in SUBSET (targets \cap alive) : Signal(S)
  /\ UNCHANGED <<options, reused, path, todo, found, targets>>

Check ==
  /\ pc = "check" /\ pc' = IF targets \cap alive = {} THEN "remove" ELSE "stuck"
  /\ UNCHANGED <<options, procs, path, todo, found, targets, killed>>

Remove ==
  /\ pc = "remove" /\ path' = FALSE /\ pc' = "removed"
  /\ UNCHANGED <<options, procs, todo, found, targets, killed>>

Next ==
  \/ ScanOne \/ Decide \/ Term \/ Kill \/ Check \/ Remove
  \/ \E p \in Pids : Exit(p) \/ Release(p) \/ Reuse(p) \/ Bind(p)

Spec == Init /\ [][Next]_vars

-----------------------------------------------------------------------------
(* The paths are removed only when every process that has held them since    *)
(* the command began has ended, but for the unit's own processes and, without *)
(* --force, a holder that the policy accepts.                                 *)
RemovedWhenReleased ==
  pc = "removed" => since \ tracked \subseteq (IF adaptive /\ ~force THEN {Owner} ELSE {})

(* Without --force the process that the policy accepts is not ended, and     *)
(* none is unless the environment variable allows it.                        *)
PolicyKept ==
  killed # {} /\ ~force => enabled /\ (adaptive => Owner \notin killed)

(* Neither is a path taken from a process that may hold it, nor is a process *)
(* killed that may live.                                                     *)
HoldersSound == RemovedWhenReleased /\ PolicyKept
=============================================================================
