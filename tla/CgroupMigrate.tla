---------------------------- MODULE CgroupMigrate ----------------------------
(***************************************************************************)
(* How sys-cgroupd moves the processes of a service into its cgroup        *)
(* (internal/cgrouptrack/migrate.go): the main process, then, in rounds,   *)
(* the descendants that a snapshot of /proc shows, until one shows nothing *)
(* new.  Meanwhile processes fork, end, and leave their pids to others.    *)
(***************************************************************************)
EXTENDS Integers, FiniteSets

CONSTANTS
  Pids,      \* 1 is the main process's; 0 stands for init
  MaxStarts, \* bound: processes ever started
  MaxRounds

VARIABLES
  proc,      \* of each pid, its process: [start, ppid, grouped], or Nobody
  starts,    \* processes started so far: start times
  mpc,       \* the migrator: "list", "inspect", "check", "write", "verify", "done"
  todo,      \* pids to inspect, or [pid, start] to move
  cur,       \* the process that is being moved
  snapshot,  \* processes of the round: [pid, start, ppid]
  moved,     \* pids
  round,
  state,     \* result.State
  reused     \* ghost: a descendant outside the cgroup got the pid of one moved before

kernel == <<proc, starts>>
vars == <<kernel, mpc, todo, cur, snapshot, moved, round, state, reused>>

Main == 1
Parameters == Main \in Pids /\ 0 \notin Pids /\ MaxStarts \in Nat \ {0} /\ MaxRounds \in Nat
Unseen == [pid |-> 0, start |-> 0]
Nobody == [start |-> 0, ppid |-> 0, grouped |-> FALSE]
Alive == {p \in Pids : proc[p] # Nobody}

TypeOK ==
  /\ proc \in [Pids -> [start : 0 .. MaxStarts, ppid : Pids \cup {0}, grouped : BOOLEAN]]
  /\ starts \in 1 .. MaxStarts /\ moved \subseteq Pids /\ round \in 0 .. MaxRounds
  /\ mpc \in {"list", "inspect", "check", "write", "verify", "done"}
  /\ state \in {"pending", "tracked", "partial", "degraded"} /\ reused \in BOOLEAN

\* Migrate has inspected the main process, whose children may be there already.
Init ==
  /\ \E children \in SUBSET (Pids \ {Main}) :
       /\ proc = [p \in Pids |-> IF p \in children \cup {Main}
                                 THEN [start |-> 1, ppid |-> IF p = Main THEN 0 ELSE Main, grouped |-> FALSE]
                                 ELSE Nobody]
  /\ starts = 1
  /\ mpc = "check" /\ todo = {[pid |-> Main, start |-> 1]} /\ cur = Unseen
  /\ snapshot = {} /\ moved = {} /\ round = 0 /\ state = "pending" /\ reused = FALSE

-----------------------------------------------------------------------------
(* The kernel. *)

\* A process, or init, starts another: in its own cgroup.
Fork(p) ==
  /\ p \in Alive \cup {0} /\ starts < MaxStarts
  /\ starts' = starts + 1
  /\ LET inside == p # 0 /\ proc[p].grouped IN
     \E q \in Pids \ Alive :
       /\ proc' = [proc EXCEPT ![q] = [start |-> starts + 1, ppid |-> p, grouped |-> inside]]
       /\ reused' = (reused \/ (p # 0 /\ ~inside /\ q \in moved))
  /\ UNCHANGED <<mpc, todo, cur, snapshot, moved, round, state>>

\* A process ends; init adopts its children.
Exit(p) ==
  /\ p \in Alive
  /\ proc' = [q \in Pids |-> IF q = p THEN Nobody
                             ELSE IF proc[q].ppid = p THEN [proc[q] EXCEPT !.ppid = 0] ELSE proc[q]]
  /\ UNCHANGED <<starts, mpc, todo, cur, snapshot, moved, round, state, reused>>

-----------------------------------------------------------------------------
(* The migrator. *)

\* The migrator goes on with the rest, from here or in the next round; or it is through.
GoOn(rest) == todo' = rest /\ mpc' = (IF rest = {} THEN "list" ELSE "check") /\ cur' = Unseen
End(s) == mpc' = "done" /\ state' = s /\ todo' = {} /\ cur' = Unseen

\* processSnapshot: the pids are listed, unless the rounds are used up.
ListPIDs ==
  /\ mpc = "list"
  /\ \/ /\ round < MaxRounds
        /\ round' = round + 1 /\ mpc' = "inspect"
        /\ todo' = Alive /\ snapshot' = {}
        /\ UNCHANGED <<cur, state>>
     \/ /\ round = MaxRounds
        /\ End("partial")
        /\ UNCHANGED <<round, snapshot>>
  /\ UNCHANGED <<kernel, moved, reused>>

(* processSnapshot, inspectStable: in the order of the pids; a process that  *)
(* is gone is skipped, unless it is the main one.                            *)
Inspect ==
  /\ mpc = "inspect" /\ todo # {}
  /\ LET p == CHOOSE q \in todo : \A o \in todo : q <= o IN
     \/ /\ p \in Alive
        /\ snapshot' = snapshot \cup {[pid |-> p, start |-> proc[p].start, ppid |-> proc[p].ppid]}
        /\ todo' = todo \ {p}
        /\ UNCHANGED <<mpc, cur, state>>
     \/ /\ p \notin Alive /\ p # Main
        /\ todo' = todo \ {p}
        /\ UNCHANGED <<snapshot, mpc, cur, state>>
     \/ /\ p \notin Alive /\ p = Main
        /\ End("degraded")
        /\ UNCHANGED snapshot
  /\ UNCHANGED <<kernel, moved, round, reused>>

\* Descendants: by the parents that the processes had when they were inspected.
Descendants(root, processes) ==
  LET Closed == {S \in SUBSET ({root} \cup {p.pid : p \in processes}) :
                   root \in S /\ \A p \in processes : p.ppid \in S => p.pid \in S}
  IN  {p \in processes : p.pid # root /\ \A S \in Closed : p.pid \in S}

\* Those that were not moved yet are, in turn; when there are none, all are tracked.
Pending(found) == {p \in found : p.pid \notin moved}

Select ==
  /\ mpc = "inspect" /\ todo = {}
  /\ LET new == Pending(Descendants(Main, snapshot)) IN
     \/ /\ new # {}
        /\ todo' = {[pid |-> p.pid, start |-> p.start] : p \in new}
        /\ mpc' = "check"
        /\ UNCHANGED <<cur, state>>
     \/ /\ new = {}
        /\ End("tracked")
  /\ snapshot' = {}
  /\ UNCHANGED <<kernel, moved, round, reused>>

\* moveAndVerify has failed: for the main process that is the end, another is skipped.
Skip == IF moved = {} THEN End("degraded") ELSE GoOn(todo) /\ UNCHANGED state

Same(t) == t.pid \in Alive /\ proc[t.pid].start = t.start

\* moveAndVerify: it is still the process that was seen.
Check(t) ==
  /\ mpc = "check" /\ t \in todo
  /\ IF Same(t)
     THEN cur' = t /\ todo' = todo \ {t} /\ mpc' = "write" /\ UNCHANGED state
     ELSE IF moved = {} THEN End("degraded") ELSE GoOn(todo \ {t}) /\ UNCHANGED state
  /\ UNCHANGED <<kernel, snapshot, moved, round, reused>>

\* Its pid is written to cgroup.procs, whose ever it is by now.
MovePID ==
  /\ mpc = "write"
  /\ IF cur.pid \in Alive
     THEN /\ proc' = [proc EXCEPT ![cur.pid].grouped = TRUE]
          /\ mpc' = "verify"
          /\ UNCHANGED <<todo, cur, state>>
     ELSE Skip /\ UNCHANGED proc
  /\ UNCHANGED <<starts, snapshot, moved, round, reused>>

\* faulty variant: the last move of a round is the end
VerifyLast ==
  /\ mpc = "verify"
  /\ IF Same(cur)
     THEN /\ moved' = moved \cup {cur.pid}
          /\ IF todo = {} /\ round > 0 THEN End("tracked") ELSE GoOn(todo) /\ UNCHANGED state
     ELSE Skip /\ UNCHANGED moved
  /\ UNCHANGED <<kernel, snapshot, round, reused>>

\* It is still the same process afterwards, and is in the cgroup.
Verify ==
  /\ mpc = "verify"
  /\ IF Same(cur)
     THEN moved' = moved \cup {cur.pid} /\ GoOn(todo) /\ UNCHANGED state
     ELSE Skip /\ UNCHANGED moved
  /\ UNCHANGED <<kernel, snapshot, round, reused>>

\* The deadline is looked at before each round and each move.
DeadlinePasses ==
  /\ mpc \in {"list", "check"}
  /\ End(IF moved = {} THEN "degraded" ELSE "partial")
  /\ UNCHANGED <<kernel, snapshot, moved, round, reused>>

Step == ListPIDs \/ Inspect \/ Select \/ (\E t \in todo : Check(t)) \/ MovePID \/ Verify
Next ==
  \/ Step \/ DeadlinePasses
  \/ \E p \in Pids \cup {0} : Fork(p)
  \/ \E p \in Pids : Exit(p)

Spec == Init /\ [][Next]_vars

-----------------------------------------------------------------------------
(* "tracked: MainPID and all currently discovered eligible descendants were  *)
(* observed in the target group" (sys-cgroupd design): when a migration says *)
(* tracked, no descendant of the main process is outside of the cgroup,      *)
(* although the snapshot is not atomic and processes fork, end and are       *)
(* adopted all the time; nor is one later.  Excepted is a child that gets    *)
(* the pid of a process moved before, from a parent not yet moved.           *)
TrackedIsComplete ==
  state = "tracked" /\ ~reused /\ proc[Main].start = 1 =>
    /\ proc[Main].grouped
    /\ \A d \in Descendants(Main, {[pid |-> p, ppid |-> proc[p].ppid] : p \in Alive}) : proc[d.pid].grouped
=============================================================================
