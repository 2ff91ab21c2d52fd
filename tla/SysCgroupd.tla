----------------------------- MODULE SysCgroupd -----------------------------
(***************************************************************************)
(* The scheduler of sys-cgroupd (cmd/sys-cgroupd): it learns from          *)
(* sysvisiond which services are ready, moves their processes into the     *)
(* cgroup of their unit, and removes the cgroups of services that ended.   *)
(* Dinit may start a service in a cgroup prepared for it beforehand: such  *)
(* a cgroup is declared native, and is never removed while it is declared. *)
(*                                                                         *)
(* One unit is modelled.  Of the goroutines that work on it, "source"      *)
(* follows the stream of events (runSource), "main" reconciles             *)
(* periodically (main), the workers are timers that have fired             *)
(* (migrateCurrent), and the API serves Prepare and Release.  They share   *)
(* the unit's record under mu and the cgroup under nothing, except that    *)
(* nativeMu orders declaring and removing it.  How the descendants of the  *)
(* main process are moved is the subject of CgroupMigrate.                 *)
(***************************************************************************)
EXTENDS Integers

CONSTANTS
  Workers,   \* timers that may run at a time
  MaxEvents  \* bound: starts of the service, failed queries, lost streams, restarts of the
             \* daemon, SIGHUPs and requests, together

ASSUME CgroupAssumption == MaxEvents \in Nat

Loops == {"source", "main"}
States == {"pending", "tracked", "partial", "degraded", "stopped", "orphaned",
           "unknown", "offline"}

VARIABLES
  svc,      \* sysvisiond's snapshot of the service: its identity, and whether it is ready
  alive,    \* processes that live; each is named by the identity it was started with
  root,     \* the cgroup root is usable
  exists,   \* the unit's cgroup exists
  members,  \* the processes in it
  unit,     \* units[key], or None
  native,   \* native[key]
  saved,    \* the registry file: its native
  stream,   \* of events, which are only reasons to query: some (1), none (0), closed (-1)
  loop,     \* of each loop: see Rest
  work,     \* of each worker: where it is, its identity and result
  api,      \* the request under way, which holds nativeMu, or "idle"
  acked,    \* ghost: Prepare has answered ok, and no Release has deleted it since
  ops       \* counts what else than a start the bound counts

kernel == <<alive, root, exists, members>>
daemon == <<unit, native, saved, stream, loop, work, api>>
vars == <<svc, kernel, daemon, acked, ops>>

None == [id |-> -1, state |-> "stopped", source |-> FALSE, timer |-> FALSE]
\* next: where the loop goes on after Ready or Stopped; snap: what sysvisiond said;
\* ref: the record that was looked up is still units[key]; found: see Found
Rest == [pc |-> "start", next |-> "scan", snap |-> [id |-> 0, ready |-> FALSE],
         ref |-> FALSE, found |-> "none"]
Free == [pc |-> "free", id |-> 0, result |-> "pending"]

Records == [id : 0 .. MaxEvents, state : States, source : BOOLEAN, timer : BOOLEAN]
Units == Records \cup {None}
Passes == [pc : {"start", "apply", "finish", "scan", "adopt", "watch", "events"},
           next : {"events", "scan"}, snap : [id : 0 .. MaxEvents, ready : BOOLEAN],
           ref : BOOLEAN, found : {"none", "empty", "populated", "error"}]
Migrations == [pc : {"free", "ask", "move", "update"}, id : 0 .. MaxEvents, result : States]

TypeOK ==
  /\ svc \in [id : 0 .. MaxEvents, ready : BOOLEAN]
  /\ alive \subseteq 1 .. MaxEvents /\ members \subseteq alive
  /\ root \in BOOLEAN /\ exists \in BOOLEAN
  /\ unit \in Units /\ native \in BOOLEAN
  /\ saved \in BOOLEAN
  /\ stream \in -1 .. 1
  /\ loop \in [Loops -> Passes]
  /\ work \in [Workers -> Migrations]
  /\ api \in {"idle", "declared", "undeclared"}
  /\ acked \in BOOLEAN /\ ops \in 0 .. MaxEvents

\* The daemon starts, with a cgroup prepared in an earlier life or without one.
Init ==
  /\ svc = [id |-> 0, ready |-> FALSE]
  /\ alive = {} /\ members = {}
  /\ exists \in BOOLEAN /\ acked = exists /\ native = exists /\ saved = exists
  /\ root \in {exists, TRUE}
  /\ unit = None
  /\ stream = -1 /\ loop = [l \in Loops |-> Rest] /\ work = [w \in Workers |-> Free]
  /\ api = "idle" /\ ops = 0

Op == svc.id + ops < MaxEvents /\ ops' = ops + 1

-----------------------------------------------------------------------------
(* The service, Dinit and sysvisiond. *)

Told == IF stream = -1 THEN -1 ELSE 1

\* A new process is ready; it is born in the cgroup if Dinit was given a prepared one.
ServiceStarts ==
  /\ ~svc.ready /\ svc.id + ops < MaxEvents
  /\ LET p == svc.id + 1 IN
     /\ svc' = [id |-> p, ready |-> TRUE]
     /\ alive' = alive \cup {p}
     /\ members' = IF acked /\ exists THEN members \cup {p} ELSE members
  /\ stream' = Told
  /\ UNCHANGED <<root, exists, unit, native, saved, loop, work, api, acked, ops>>

\* The service is not ready any more; its process may take longer to end.
ServiceStops ==
  /\ svc.ready
  /\ svc' = [svc EXCEPT !.ready = FALSE]
  /\ stream' = Told
  /\ UNCHANGED <<kernel, unit, native, saved, loop, work, api, acked, ops>>

ProcessEnds(p) ==
  /\ p \in alive /\ ~(svc.ready /\ svc.id = p)
  /\ alive' = alive \ {p} /\ members' = members \ {p}
  /\ UNCHANGED <<svc, root, exists, daemon, acked, ops>>

-----------------------------------------------------------------------------
(* The record of the unit; every step is one critical section of mu. *)

\* The loop goes on at pc, and forgets what it knew.
Goto(l, pc) == loop' = [loop EXCEPT ![l] = [Rest EXCEPT !.pc = pc]]

\* units[key] becomes another record, or none: whoever looked it up holds an old one.
SetUnit(u, l, pc) ==
  /\ unit' = u
  /\ loop' = [m \in Loops |-> IF m = l THEN [Rest EXCEPT !.pc = pc] ELSE [loop[m] EXCEPT !.ref = FALSE]]

\* The state is set; a timer that fires in another state than pending does nothing.
Marked(state) == [unit EXCEPT !.state = state, !.timer = FALSE]

\* MarkSourceOffline
MarkedOffline ==
  IF unit.source /\ unit.state \notin {"stopped", "orphaned"} THEN Marked("offline") ELSE unit

\* Ready: what is known under this identity is left alone, unless it needs another try.
NeedsNoRetry(state) == state = "offline"   \* faulty variant: a failed migration is final
NeedsRetry(state) == state \in {"offline", "degraded", "partial"}

Ready(l) ==
  LET s == loop[l].snap
      known == unit.id = s.id /\ unit.source /\ ~NeedsRetry(unit.state)
  IN
  /\ loop[l].pc = "apply" /\ s.ready
  /\ IF known THEN Goto(l, loop[l].next) /\ UNCHANGED unit
     ELSE SetUnit([id |-> s.id, state |-> "pending", source |-> TRUE, timer |-> TRUE], l, loop[l].next)
  /\ UNCHANGED <<svc, kernel, native, saved, stream, work, api, acked, ops>>

Found == IF ~root THEN "error" ELSE IF ~exists THEN "absent"
         ELSE IF members = {} THEN "empty" ELSE "populated"

\* Stopped, Missing: the record is looked up, its timer stopped, and its cgroup read.
Stopped(l) ==
  /\ loop[l].pc = "apply" /\ ~loop[l].snap.ready
  /\ IF unit = None THEN Goto(l, loop[l].next) /\ UNCHANGED unit
     ELSE /\ unit' = [unit EXCEPT !.timer = FALSE]
          /\ loop' = [loop EXCEPT ![l].pc = "finish", ![l].ref = TRUE, ![l].found = IF Found = "absent" THEN "empty" ELSE Found,
                                  ![l].snap = Rest.snap]
  /\ UNCHANGED <<svc, kernel, native, saved, stream, work, api, acked, ops>>

RemoveIfEmpty == exists' = (exists /\ (~root \/ members # {}))

\* removeUndeclaredEmpty, under nativeMu
RemoveUndeclaredEmpty ==
  /\ api = "idle"
  /\ IF native THEN UNCHANGED exists ELSE RemoveIfEmpty

\* An empty cgroup is removed; the record, if it is still the one, is deleted or marked.
StoppedUpdate(l) ==
  /\ loop[l].pc = "finish"
  /\ LET gone == loop[l].found = "empty"
     IN /\ IF gone THEN RemoveUndeclaredEmpty ELSE UNCHANGED exists
        /\ \/ ~loop[l].ref /\ Goto(l, loop[l].next) /\ UNCHANGED unit
           \/ loop[l].ref /\ gone /\ SetUnit(None, l, loop[l].next)
           \/ /\ loop[l].ref /\ ~gone
              /\ unit' = Marked(IF loop[l].found = "error" THEN "degraded" ELSE "orphaned")
              /\ Goto(l, loop[l].next)
  /\ UNCHANGED <<svc, alive, root, members, native, saved, stream, work, api, acked, ops>>

-----------------------------------------------------------------------------
(* ReconcileSource, then ReconcileGroups. *)

\* What saveRegistry keeps of a record, and LoadRegistry makes of it.
Recorded(u) == IF u.id > 0 THEN [u EXCEPT !.source = FALSE, !.timer = FALSE] ELSE None

(* A round begins: at the start, after a delay, on a tick, which first tries *)
(* to recover the root.  A failed query puts the source offline.             *)
Query(l) ==
  /\ loop[l].pc = "start"
  /\ root' = (root \/ l = "main")
  /\ \/ /\ loop' = [loop EXCEPT ![l] = [Rest EXCEPT !.pc = "apply", !.snap = svc]]
        /\ UNCHANGED <<unit, ops, stream>>
     \/ /\ Op
        /\ unit' = MarkedOffline
        /\ Goto(l, IF l = "main" THEN "scan" ELSE "start")
        /\ stream' = IF l = "source" THEN -1 ELSE stream
  /\ UNCHANGED <<svc, alive, exists, members, native, saved, work, api, acked>>

\* SIGHUP: the root, and the cgroups.
Hangup ==
  /\ loop["main"].pc = "start" /\ Op
  /\ root' = TRUE
  /\ Goto("main", "scan")
  /\ UNCHANGED <<svc, alive, exists, members, unit, native, saved, stream, work, api, acked>>

\* The round is over: main saves the registry, source goes on with its stream.
SaveNothing(n) == FALSE   \* faulty variant: only the units are saved
SaveDeclared(n) == n
EndRound(l) ==
  /\ Goto(l, IF l = "main" THEN "start" ELSE IF stream = -1 THEN "watch" ELSE "events")
  /\ saved' = IF l = "main" THEN SaveDeclared(native) ELSE saved

(* ReconcileGroups: a root that cannot be read puts the source offline; an   *)
(* empty cgroup without a record is removed; a record is made for a          *)
(* populated one, as seen a moment ago; a stopped unit's cgroup is looked    *)
(* at; a tracked unit whose cgroup is gone is migrated again.                *)
Scan(l) ==
  /\ loop[l].pc = "scan"
  /\ \/ /\ Found = "error"
        /\ unit' = MarkedOffline
        /\ Goto(l, "start")
        /\ stream' = IF l = "source" THEN -1 ELSE stream
        /\ saved' = IF l = "main" THEN SaveDeclared(native) ELSE saved
        /\ UNCHANGED exists
     \/ /\ Found \in {"empty", "populated"} /\ unit # None
        /\ unit' = IF unit.state = "stopped" /\ Found = "populated"
                   THEN Marked("orphaned") ELSE unit
        /\ EndRound(l)
        /\ UNCHANGED <<exists, stream>>
     \/ /\ Found = "empty" /\ unit = None
        /\ RemoveUndeclaredEmpty
        /\ EndRound(l)
        /\ UNCHANGED <<unit, stream>>
     \/ /\ Found = "populated" /\ unit = None
        /\ Goto(l, "adopt")
        /\ UNCHANGED <<unit, exists, saved, stream>>
     \/ /\ Found = "absent"
        /\ unit' = IF unit.source /\ unit.state = "tracked"
                   THEN [unit EXCEPT !.state = "pending", !.timer = TRUE] ELSE unit
        /\ EndRound(l)
        /\ UNCHANGED <<exists, stream>>
  /\ UNCHANGED <<svc, alive, root, members, native, work, api, acked, ops>>

\* ReconcileGroups: the record is stored, whatever is there by now.
Adopt(l) ==
  /\ loop[l].pc = "adopt"
  /\ unit' = [id |-> 0, state |-> "unknown", source |-> FALSE, timer |-> FALSE]
  /\ loop' = [m \in Loops |->
        IF m # l THEN [loop[m] EXCEPT !.ref = FALSE]
        ELSE [Rest EXCEPT !.pc = IF l = "main" THEN "start" ELSE IF stream = -1 THEN "watch" ELSE "events"]]
  /\ saved' = IF l = "main" THEN SaveDeclared(native) ELSE saved
  /\ UNCHANGED <<svc, kernel, native, stream, work, api, acked, ops>>

\* runSource: the stream is opened, and then everything is reconciled again.
Watch ==
  /\ loop["source"].pc = "watch"
  /\ \/ stream' = 0 /\ UNCHANGED <<unit, ops>>
     \/ Op /\ unit' = MarkedOffline /\ UNCHANGED stream
  /\ Goto("source", "start")
  /\ UNCHANGED <<svc, kernel, native, saved, work, api, acked>>

\* runSource: the unit of an event is queried.
ReadEvent ==
  /\ loop["source"].pc = "events" /\ stream = 1
  /\ stream' \in {0, 1}
  /\ loop' = [loop EXCEPT !["source"] = [Rest EXCEPT !.pc = "apply", !.next = "events", !.snap = svc]]
  /\ UNCHANGED <<svc, kernel, unit, native, saved, work, api, acked, ops>>

StreamCloses ==
  /\ loop["source"].pc = "events" /\ Op
  /\ stream' = -1 /\ unit' = MarkedOffline
  /\ Goto("source", "start")
  /\ UNCHANGED <<svc, kernel, native, saved, work, api, acked>>

-----------------------------------------------------------------------------
(* migrateCurrent, for the identity whose timer fired. *)

Result(w, state) == work' = [work EXCEPT ![w].pc = "update", ![w].result = state]

TimerFires(w) ==
  /\ unit.timer /\ work[w].pc = "free"
  /\ unit' = [unit EXCEPT !.timer = FALSE]
  /\ work' = [work EXCEPT ![w] = [pc |-> "ask", id |-> unit.id, result |-> "pending"]]
  /\ UNCHANGED <<svc, kernel, native, saved, stream, loop, api, acked, ops>>

(* sysvisiond is asked again.  verifyNative: a native process is where Dinit *)
(* put it, or is not tracked.  Migrate: the main process is inspected, and   *)
(* the cgroup made.                                                          *)
Ask(w) ==
  /\ work[w].pc = "ask"
  /\ LET same == svc = [id |-> work[w].id, ready |-> TRUE]
         make == same /\ ~native /\ root
     IN \/ /\ exists' = (exists \/ make)
           /\ IF make THEN work' = [work EXCEPT ![w].pc = "move"]
              ELSE Result(w, IF same /\ native /\ root /\ work[w].id \in members THEN "tracked" ELSE "degraded")
           /\ UNCHANGED ops
        \/ Op /\ Result(w, "degraded") /\ UNCHANGED exists
  /\ UNCHANGED <<svc, alive, root, members, unit, native, saved, stream, loop, api, acked>>

(* Migrate: the process is moved, and seen to be; its descendants follow,   *)
(* unless the deadline passes before they have all been moved.               *)
Move(w) ==
  /\ work[w].pc = "move"
  /\ LET ok == exists /\ work[w].id \in alive
     IN /\ members' = IF ok THEN members \cup {work[w].id} ELSE members
        /\ \/ Result(w, IF ok THEN "tracked" ELSE "degraded") /\ UNCHANGED ops
           \/ ok /\ Op /\ Result(w, "partial")
  /\ UNCHANGED <<svc, alive, root, exists, unit, native, saved, stream, loop, api, acked>>

\* updateMigration
UpdateMigration(w) ==
  /\ work[w].pc = "update"
  /\ unit' = IF unit.id = work[w].id THEN Marked(work[w].result) ELSE unit
  /\ work' = [work EXCEPT ![w] = Free]
  /\ UNCHANGED <<svc, kernel, native, saved, stream, loop, api, acked, ops>>

-----------------------------------------------------------------------------
(* Prepare, Release and the registry. *)

\* Prepare: the cgroup is made and declared; the answer comes when that is saved.
Prepare ==
  /\ api = "idle" /\ Op
  /\ exists' = (exists \/ root) /\ native' = (native \/ root)
  /\ api' = IF root THEN "declared" ELSE "idle"
  /\ UNCHANGED <<svc, alive, root, members, unit, saved, stream, loop, work, acked>>

PrepareSave ==
  /\ api = "declared"
  /\ api' = "idle"
  /\ \/ saved' = SaveDeclared(native) /\ acked' = TRUE
     \/ UNCHANGED <<saved, acked>>
  /\ UNCHANGED <<svc, kernel, unit, native, stream, loop, work, ops>>

(* Release: the declaration of an empty cgroup is deleted, and restored if   *)
(* that cannot be saved; a populated or unreadable one is refused.           *)
Release ==
  /\ api = "idle" /\ Op /\ ~svc.ready
  /\ \/ /\ Found \in {"empty", "absent"}
        /\ native' = FALSE /\ saved' = SaveDeclared(FALSE)
        /\ acked' = FALSE /\ api' = "undeclared"
     \/ UNCHANGED <<native, saved, acked, api>>
  /\ UNCHANGED <<svc, kernel, unit, stream, loop, work>>

ReleaseRemove ==
  /\ api = "undeclared"
  /\ RemoveIfEmpty
  /\ api' = "idle"
  /\ UNCHANGED <<svc, alive, root, members, unit, native, saved, stream, loop, work, acked, ops>>

(* The daemon ends and is started again: LoadRegistry.  The record of the    *)
(* unit is in the file or not; as it comes without a source, what else it    *)
(* says is shown until the service is reported again, and no more.           *)
Restart ==
  /\ Op
  /\ unit' \in {None, Recorded(unit)} /\ native' = saved
  /\ stream' = -1 /\ api' = "idle"
  /\ loop' = [l \in Loops |-> Rest] /\ work' = [w \in Workers |-> Free]
  /\ UNCHANGED <<svc, kernel, saved, acked>>

-----------------------------------------------------------------------------
LoopStep(l) ==
  \/ Query(l) \/ Ready(l) \/ Stopped(l) \/ StoppedUpdate(l) \/ Scan(l) \/ Adopt(l)
SourceStep == LoopStep("source") \/ Watch \/ ReadEvent
WorkerStep(w) == TimerFires(w) \/ Ask(w) \/ Move(w) \/ UpdateMigration(w)
ApiStep == PrepareSave \/ ReleaseRemove

Next ==
  \/ ServiceStarts \/ ServiceStops \/ \E p \in alive : ProcessEnds(p)
  \/ SourceStep \/ StreamCloses \/ LoopStep("main") \/ \E w \in Workers : WorkerStep(w)
  \/ ApiStep \/ Prepare \/ Release \/ Hangup \/ Restart

Spec == Init /\ [][Next]_vars

\* The goroutines run, the ticker ticks, and timers fire.
FairSpec ==
  /\ Spec
  /\ WF_vars(SourceStep) /\ WF_vars(LoopStep("main")) /\ WF_vars(ApiStep)
  /\ \A w \in Workers : WF_vars(WorkerStep(w))

-----------------------------------------------------------------------------
(* The cgroup that a Prepare promised to Dinit stays until it is released,   *)
(* across everything the loops remove and across restarts of the daemon.     *)
PreparedExists == acked => exists

(* "tracked: MainPID and all currently discovered eligible descendants were  *)
(* observed in the target group" (design): a process that is said to be      *)
(* tracked is in its cgroup as long as it lives, and nobody lives in a       *)
(* cgroup that is gone.                                                      *)
TrackedIsMember ==
  /\ unit.state = "tracked" /\ unit.id \in alive => unit.id \in members
  /\ members # {} => exists

(* What the daemon promises Dinit and tells its clients holds of the kernel: *)
(* a prepared cgroup is there, and a tracked process is in its cgroup,       *)
(* whatever the loops, timers and requests do to it in between.              *)
CgroupSound == TypeOK /\ PreparedExists /\ TrackedIsMember

(* Whatever was missed, in the end the record is of the service as it is:    *)
(* tracked when ready, and not tracked when not.  Excepted are a ready       *)
(* service marked orphaned or stopped under its own identity, and one that   *)
(* was started before its cgroup was declared native: it is never moved.     *)
Reconciled ==
  <>[](IF svc.ready
       THEN /\ unit.id = svc.id
            /\ unit.state \in {"tracked", "orphaned", "stopped"} \/ (native /\ svc.id \notin members)
       ELSE unit.state \in {"orphaned", "stopped", "unknown"})
=============================================================================
