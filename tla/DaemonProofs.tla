----------------------------- MODULE DaemonProofs ---------------------------
(***************************************************************************)
(* Proofs about the smaller daemons.  SysCgroupd comes first: a cgroup     *)
(* that was prepared for Dinit is there, and a process that is said to be  *)
(* tracked is in its cgroup, for any number of timers and events.  Then    *)
(* those of DaemonParts, from the shortest to the longest: one invocation  *)
(* of servicectl --user starts a Dinit, the log broker's slots are those   *)
(* it counts, the streams of servicectl-api have no gap, and the worker of *)
(* sys-logd loses no line, for any number of callers, connections,         *)
(* streams and lines.                                                      *)
(***************************************************************************)
EXTENDS SysCgroupd, DaemonParts, Sequences, FiniteSetTheorems, WellFoundedInduction, TLAPS

USE CgroupAssumption

-----------------------------------------------------------------------------
(* The inductive invariant. *)

\* What was acknowledged is declared, in memory and in the file, and is not being removed.
Declared ==
  /\ acked => exists /\ native /\ saved /\ api # "undeclared"
  /\ api = "declared" => exists /\ native

\* Nobody lives in a cgroup that is gone, or outside the one that is said to track it.
Placed ==
  /\ members # {} => exists
  /\ unit.state = "tracked" /\ unit.id \in alive => unit.id \in members

\* Identities are of the past; who holds a record knows that there is one.
LoopFor(l) == loop[l].snap.id <= svc.id /\ (loop[l].ref => unit # None)

\* A migration is not said to have succeeded unless it has.
WorkFor(w) ==
  /\ work[w].id <= svc.id
  /\ work[w].pc = "update" /\ work[w].result = "tracked" /\ work[w].id \in alive
       => work[w].id \in members

SchedulerSound ==
  /\ TypeOK /\ Declared /\ Placed
  /\ unit.id <= svc.id
  /\ \A l \in Loops : LoopFor(l)
  /\ \A w \in Workers : WorkFor(w)

-----------------------------------------------------------------------------
(* What the helpers of the model do. *)

Pcs == {"start", "apply", "finish", "scan", "adopt", "watch", "events"}

LEMMA UnitCases ==
  ASSUME unit \in Units
  PROVE  /\ unit # None => unit \in Records /\ unit.id \in 0 .. MaxEvents
         /\ unit.id # -1 => unit # None
         /\ unit.source => unit # None
         /\ unit.timer => unit # None
         /\ unit.id \in Int
         /\ None.id = -1 /\ None.state = "stopped" /\ None \in Units
<1>1. None.id = -1 /\ None.source = FALSE /\ None.timer = FALSE /\ None.state = "stopped"
  BY DEF None
<1>2. unit # None => unit \in Records
  BY DEF Units
<1>3. unit \in Records => unit.id \in 0 .. MaxEvents
  BY DEF Records
<1> QED
  BY <1>1, <1>2, <1>3 DEF Units

\* A record keeps its identity when its state is set.
LEMMA MarkedFacts ==
  ASSUME unit \in Units, unit # None, NEW state \in States, NEW u, u = Marked(state)
  PROVE  u \in Units /\ u # None /\ u.id = unit.id /\ u.state = state
<1>1. unit \in Records
  BY UnitCases
<1>2. u \in Records /\ u.id = unit.id /\ u.state = state
  BY <1>1 DEF Marked, Records
<1>3. u.id # -1
  BY <1>2 DEF Records
<1> QED
  BY <1>2, <1>3 DEF Units, None

LEMMA OfflineFacts ==
  ASSUME unit \in Units, NEW u, u = MarkedOffline
  PROVE  /\ u \in Units /\ u.id = unit.id /\ (unit # None => u # None)
         /\ u.state = "tracked" => unit.state = "tracked"
<1>1. CASE unit.source /\ unit.state \notin {"stopped", "orphaned"}
  <2>1. u = Marked("offline") /\ unit # None
    BY <1>1, UnitCases DEF MarkedOffline
  <2>2. u \in Units /\ u # None /\ u.id = unit.id /\ u.state = "offline"
    BY <2>1, MarkedFacts DEF States
  <2> QED
    BY <2>2
<1>2. CASE ~(unit.source /\ unit.state \notin {"stopped", "orphaned"})
  BY <1>2 DEF MarkedOffline
<1> QED
  BY <1>1, <1>2

LEMMA RestFacts ==
  /\ Rest \in Passes /\ Rest.snap = [id |-> 0, ready |-> FALSE] /\ Rest.snap.id = 0 /\ Rest.ref = FALSE
  /\ \A place \in Pcs : LET r == [Rest EXCEPT !.pc = place] IN r \in Passes /\ r.snap.id = 0 /\ r.ref = FALSE
<1>1. PICK s : s = [id |-> 0, ready |-> FALSE]
  OBVIOUS
<1>2. s \in [id : 0 .. MaxEvents, ready : BOOLEAN] /\ s.id = 0
  BY <1>1
<1>3. Rest.snap = s /\ Rest.ref = FALSE
  BY <1>1 DEF Rest
<1>4. Rest \in Passes
  BY <1>1, <1>2 DEF Rest, Passes
<1>5. ASSUME NEW place \in Pcs, NEW r, r = [Rest EXCEPT !.pc = place]
      PROVE  r \in Passes /\ r.snap = s /\ r.ref = FALSE
  BY <1>3, <1>4, <1>5 DEF Passes, Pcs
<1> QED
  BY <1>1, <1>2, <1>3, <1>4, <1>5

\* Where a loop goes on, it has forgotten what it knew.
LEMMA GotoFacts ==
  ASSUME SchedulerSound, NEW l \in Loops, NEW place \in Pcs, Goto(l, place),
         svc' = svc, unit # None => unit' # None
  PROVE  loop' \in [Loops -> Passes] /\ \A m \in Loops : LoopFor(m)'
<1>1. loop \in [Loops -> Passes] /\ svc.id \in Nat /\ \A m \in Loops : LoopFor(m)
  BY DEF SchedulerSound, TypeOK
<1>2. PICK r \in Passes : r = [Rest EXCEPT !.pc = place] /\ r.snap.id = 0 /\ r.ref = FALSE
  BY RestFacts
<1>3. loop' = [loop EXCEPT ![l] = r]
  BY <1>2 DEF Goto
<1> QED
  BY <1>1, <1>2, <1>3 DEF LoopFor

LEMMA SetUnitFacts ==
  ASSUME SchedulerSound, NEW l \in Loops, NEW place \in Pcs, NEW u, SetUnit(u, l, place), svc' = svc
  PROVE  loop' \in [Loops -> Passes] /\ (\A m \in Loops : LoopFor(m)') /\ unit' = u
<1>1. loop \in [Loops -> Passes] /\ svc.id \in Nat /\ \A m \in Loops : LoopFor(m) /\ loop[m] \in Passes
  BY DEF SchedulerSound, TypeOK
<1>2. PICK r \in Passes : r = [Rest EXCEPT !.pc = place] /\ r.snap.id = 0 /\ r.ref = FALSE
  BY RestFacts
<1>3. ASSUME NEW m \in Loops, m # l
      PROVE  loop'[m] \in Passes /\ loop'[m].snap = loop[m].snap /\ loop'[m].ref = FALSE
  <2>1. loop'[m] = [loop[m] EXCEPT !.ref = FALSE]
    BY <1>3 DEF SetUnit
  <2> QED
    BY <1>1, <2>1 DEF Passes
<1>4. loop'[l] = r
  BY <1>2 DEF SetUnit
<1>5. loop' \in [Loops -> Passes]
  <2>1. loop' = [m \in Loops |-> loop'[m]]
    BY DEF SetUnit
  <2> QED
    BY <1>2, <1>3, <1>4, <2>1
<1> QED
  BY <1>1, <1>2, <1>3, <1>4, <1>5 DEF LoopFor, SetUnit

\* A loop that only moves its program counter and forgets its record, or takes a snapshot.
LEMMA SnapFacts ==
  ASSUME SchedulerSound, NEW l \in Loops, NEW r \in Passes, r.snap.id <= svc.id, r.ref => unit' # None,
         loop' = [loop EXCEPT ![l] = r], svc' = svc, unit # None => unit' # None
  PROVE  loop' \in [Loops -> Passes] /\ \A m \in Loops : LoopFor(m)'
BY DEF SchedulerSound, TypeOK, LoopFor

\* The migrations under way are not concerned.
LEMMA WorkKept ==
  ASSUME SchedulerSound, UNCHANGED <<work, alive, members, svc>>
  PROVE  work' \in [Workers -> Migrations] /\ \A w \in Workers : WorkFor(w)'
BY DEF SchedulerSound, TypeOK, WorkFor

\* The record afterwards is of the past, and not tracked if it was not.
LEMMA UnitKept ==
  ASSUME SchedulerSound, UNCHANGED <<svc, alive, members>>, unit' \in Units,
         \/ unit' = unit
         \/ unit'.state # "tracked" /\ unit'.id <= svc.id
         \/ unit'.id = unit.id /\ (unit'.state = "tracked" => unit.state = "tracked")
  PROVE  unit'.id <= svc'.id /\ (unit'.state = "tracked" /\ unit'.id \in alive' => unit'.id \in members')
BY DEF SchedulerSound, Placed

-----------------------------------------------------------------------------
(* The invariant, step by step. *)

\* What the steps of the service and of its processes keep.
LEMMA ServiceSound ==
  ASSUME SchedulerSound, ServiceStarts \/ ServiceStops \/ \E p \in alive : ProcessEnds(p)
  PROVE  SchedulerSound'
<1> USE DEF daemon, kernel
<1>0. /\ TypeOK /\ Declared /\ Placed /\ unit.id <= svc.id /\ unit.id \in Int
      /\ \A l \in Loops : LoopFor(l) /\ loop[l].snap.id \in Nat
      /\ \A w \in Workers : WorkFor(w) /\ work[w].id \in Nat
      /\ svc.id \in 0 .. MaxEvents /\ ops \in 0 .. MaxEvents /\ stream \in -1 .. 1
  <2>1. \A l \in Loops : loop[l] \in Passes /\ loop[l].snap.id \in Nat
    BY DEF SchedulerSound, TypeOK, Passes
  <2>2. \A w \in Workers : work[w] \in Migrations /\ work[w].id \in Nat
    <3>1. \A w \in Workers : work[w] \in Migrations
      BY DEF SchedulerSound, TypeOK
    <3>2. ASSUME NEW m \in Migrations PROVE m.id \in Nat
      BY DEF Migrations
    <3> QED
      BY <3>1, <3>2
  <2>3. unit.id \in Int
    BY UnitCases DEF SchedulerSound, TypeOK
  <2> QED
    BY <2>1, <2>2, <2>3 DEF SchedulerSound, TypeOK
<1>1. Told \in -1 .. 1
  BY <1>0 DEF Told
<1>2. CASE ServiceStarts
  <2>1. PICK p : p = svc.id + 1
    OBVIOUS
  <2>2. p \in 1 .. MaxEvents /\ svc'.id = p /\ svc' \in [id : 0 .. MaxEvents, ready : BOOLEAN]
    BY <1>0, <1>2, <2>1 DEF ServiceStarts
  <2>3. alive' = alive \cup {p} /\ members' \in {members, members \cup {p}} /\ (members' # members => exists)
    BY <1>2, <2>1 DEF ServiceStarts
  <2>4. TypeOK'
    BY <1>0, <1>1, <1>2, <2>2, <2>3 DEF ServiceStarts, TypeOK
  <2>5. Declared'
    BY <1>0, <1>2 DEF ServiceStarts, Declared
  <2>6. Placed' /\ unit'.id <= svc'.id
    BY <1>0, <1>2, <2>1, <2>2, <2>3 DEF ServiceStarts, Placed
  <2>7. \A l \in Loops : LoopFor(l)'
    BY <1>0, <1>2, <2>1, <2>2 DEF ServiceStarts, LoopFor
  <2>8. \A w \in Workers : WorkFor(w)'
    BY <1>0, <1>2, <2>1, <2>2, <2>3 DEF ServiceStarts, WorkFor
  <2> QED
    BY <2>4, <2>5, <2>6, <2>7, <2>8 DEF SchedulerSound
<1>3. CASE ServiceStops
  <2>1. svc' \in [id : 0 .. MaxEvents, ready : BOOLEAN] /\ svc'.id = svc.id
    BY <1>0, <1>3 DEF ServiceStops, TypeOK
  <2> QED
    BY <1>0, <1>1, <1>3, <2>1 DEF ServiceStops, SchedulerSound, TypeOK, Declared, Placed, LoopFor, WorkFor
<1>4. ASSUME NEW p \in alive, ProcessEnds(p) PROVE SchedulerSound'
  <2>1. alive' = alive \ {p} /\ members' = members \ {p}
    BY <1>4 DEF ProcessEnds
  <2> QED
    BY <1>0, <1>4, <2>1 DEF ProcessEnds, SchedulerSound, TypeOK, Declared, Placed, LoopFor, WorkFor
<1> QED
  BY <1>2, <1>3, <1>4

\* A step of a loop, of the stream or of the daemon's life: the kernel's processes stay where they are.
LEMMA LoopSound ==
  ASSUME SchedulerSound, UNCHANGED <<svc, alive, members>>,
         work' \in [Workers -> Migrations] /\ \A w \in Workers : WorkFor(w)',
         loop' \in [Loops -> Passes] /\ \A l \in Loops : LoopFor(l)',
         unit' \in Units,
         \/ unit' = unit
         \/ unit'.state # "tracked" /\ unit'.id <= svc.id
         \/ unit'.id = unit.id /\ (unit'.state = "tracked" => unit.state = "tracked"),
         root' \in BOOLEAN, exists' \in BOOLEAN, native' \in BOOLEAN, saved' \in BOOLEAN,
         stream' \in -1 .. 1, api' \in {"idle", "declared", "undeclared"}, acked' \in BOOLEAN,
         ops' \in 0 .. MaxEvents,
         Declared', members # {} => exists'
  PROVE  SchedulerSound'
<1>1. TypeOK'
  BY DEF SchedulerSound, TypeOK
<1>2. unit'.id <= svc'.id /\ (unit'.state = "tracked" /\ unit'.id \in alive' => unit'.id \in members')
  BY UnitKept
<1> QED
  BY <1>1, <1>2 DEF SchedulerSound, Placed

LEMMA OpTypes == TypeOK /\ Op => ops' \in 0 .. MaxEvents
<1> SUFFICES ASSUME TypeOK, Op PROVE ops' \in 0 .. MaxEvents
  OBVIOUS
<1>1. svc.id \in Nat /\ ops \in Nat
  BY DEF TypeOK
<1> QED
  BY <1>1 DEF Op

\* An empty cgroup may be removed, if nothing was declared.
LEMMA RemoveFacts ==
  ASSUME SchedulerSound, UNCHANGED <<acked, native, saved, api>>,
         RemoveUndeclaredEmpty \/ UNCHANGED exists
  PROVE  exists' \in BOOLEAN /\ Declared' /\ (members # {} => exists')
<1>1. exists \in BOOLEAN /\ Declared /\ (members # {} => exists)
  BY DEF SchedulerSound, TypeOK, Placed
<1>2. CASE UNCHANGED exists
  BY <1>1, <1>2 DEF Declared
<1>3. CASE api = "idle" /\ ~native /\ RemoveIfEmpty
  BY <1>1, <1>3 DEF Declared, RemoveIfEmpty
<1> QED
  BY <1>2, <1>3 DEF RemoveUndeclaredEmpty

\* The rounds of the loops.
LEMMA QueryScanSound ==
  ASSUME SchedulerSound, NEW l \in Loops, Query(l) \/ Scan(l) \/ Adopt(l)
  PROVE  SchedulerSound'
<1> USE DEF kernel
<1>0. /\ TypeOK /\ Declared /\ unit \in Units /\ unit.id <= svc.id /\ svc.id \in Nat
      /\ exists \in BOOLEAN /\ root \in BOOLEAN /\ native \in BOOLEAN /\ saved \in BOOLEAN
      /\ stream \in -1 .. 1 /\ api \in {"idle", "declared", "undeclared"} /\ acked \in BOOLEAN
      /\ ops \in 0 .. MaxEvents /\ loop \in [Loops -> Passes]
      /\ (members # {} => exists)
  BY DEF SchedulerSound, TypeOK, Placed
<1>1. UNCHANGED <<svc, alive, members, work, api, acked, native>>
  BY DEF Query, Scan, Adopt
<1>2. work' \in [Workers -> Migrations] /\ \A w \in Workers : WorkFor(w)'
  BY <1>1, WorkKept
<1>3. PICK off : off = MarkedOffline
  OBVIOUS
<1>4. /\ off \in Units /\ off.id = unit.id /\ (unit # None => off # None)
      /\ off.state = "tracked" => unit.state = "tracked"
  BY <1>0, <1>3, OfflineFacts
<1>5. saved' \in {saved, native}
  BY DEF Query, Scan, Adopt, EndRound, SaveDeclared
<1>6. UNCHANGED exists => Declared'
  BY <1>0, <1>1, <1>5 DEF Declared
<1>7. CASE Query(l)
  <2>1. root' \in BOOLEAN /\ UNCHANGED <<exists, saved>>
    BY <1>0, <1>7 DEF Query
  <2>2. CASE loop' = [loop EXCEPT ![l] = [Rest EXCEPT !.pc = "apply", !.snap = svc]] /\ UNCHANGED <<unit, ops, stream>>
    <3>1. PICK r : r = [Rest EXCEPT !.pc = "apply", !.snap = svc]
      OBVIOUS
    <3>2. r \in Passes /\ r.snap = svc /\ r.ref = FALSE
      BY <1>0, <3>1, RestFacts DEF TypeOK, Passes
    <3>3. loop' \in [Loops -> Passes] /\ \A m \in Loops : LoopFor(m)'
      <4>1. r.snap.id <= svc.id /\ ~r.ref
        BY <1>0, <3>2
      <4>2. loop' = [loop EXCEPT ![l] = r] /\ svc' = svc /\ unit' = unit
        BY <1>1, <2>2, <3>1
      <4> QED
        BY <3>2, <4>1, <4>2, SnapFacts
    <3> QED
      BY <1>0, <1>1, <1>2, <1>6, <2>1, <2>2, <3>3, LoopSound
  <2>3. CASE Op /\ unit' = off /\ Goto(l, IF l = "main" THEN "scan" ELSE "start")
             /\ stream' = (IF l = "source" THEN -1 ELSE stream)
    <3>1. loop' \in [Loops -> Passes] /\ \A m \in Loops : LoopFor(m)'
      BY <1>1, <1>4, <2>3, GotoFacts DEF Pcs
    <3>2. stream' \in -1 .. 1 /\ ops' \in 0 .. MaxEvents
      BY <1>0, <2>3, OpTypes
    <3> QED
      BY <1>0, <1>1, <1>2, <1>4, <1>6, <2>1, <2>3, <3>1, <3>2, LoopSound
  <2> QED
    BY <1>3, <1>7, <2>2, <2>3 DEF Query
<1>8. CASE Adopt(l)
  <2>1. PICK place \in Pcs : place = IF l = "main" THEN "start" ELSE IF stream = -1 THEN "watch" ELSE "events"
    BY DEF Pcs
  <2>2. PICK u : u = [id |-> 0, state |-> "unknown", source |-> FALSE, timer |-> FALSE]
    OBVIOUS
  <2>3. u \in Units /\ u.id = 0 /\ u.state = "unknown"
    BY <2>2 DEF Units, Records, States
  <2>4. SetUnit(u, l, place)
    BY <1>8, <2>1, <2>2 DEF Adopt, SetUnit
  <2>5. loop' \in [Loops -> Passes] /\ (\A m \in Loops : LoopFor(m)') /\ unit' = u
    BY <1>1, <2>4, SetUnitFacts
  <2>6. UNCHANGED <<root, exists, stream, ops>>
    BY <1>8 DEF Adopt
  <2> QED
    BY <1>0, <1>1, <1>2, <1>5, <1>6, <2>3, <2>5, <2>6, LoopSound
<1>9. CASE Scan(l)
  <2>0. UNCHANGED <<root, ops>>
    BY <1>9 DEF Scan
  <2>1. ASSUME NEW place \in Pcs, Goto(l, place), unit' \in Units, unit # None => unit' # None,
               \/ unit' = unit
               \/ unit'.state # "tracked" /\ unit'.id <= svc.id
               \/ unit'.id = unit.id /\ (unit'.state = "tracked" => unit.state = "tracked"),
               stream' \in -1 .. 1, UNCHANGED exists \/ (RemoveUndeclaredEmpty /\ saved' = saved)
                                    \/ (RemoveUndeclaredEmpty /\ UNCHANGED native)
        PROVE  SchedulerSound'
    <3>1. loop' \in [Loops -> Passes] /\ \A m \in Loops : LoopFor(m)'
      BY <1>1, <2>1, GotoFacts
    <3>2. exists' \in BOOLEAN /\ Declared' /\ (members # {} => exists')
      <4>1. CASE UNCHANGED exists
        BY <1>0, <1>6, <4>1
      <4>2. CASE RemoveUndeclaredEmpty
        BY <1>0, <1>1, <1>5, <1>6, <4>2 DEF RemoveUndeclaredEmpty, RemoveIfEmpty, Declared
      <4> QED
        BY <2>1, <4>1, <4>2
    <3> QED
      BY <1>0, <1>1, <1>2, <1>5, <2>0, <2>1, <3>1, <3>2, LoopSound
  <2>2. ASSUME EndRound(l) PROVE \E place \in Pcs : Goto(l, place)
    <3>1. PICK place \in Pcs : place = IF l = "main" THEN "start" ELSE IF stream = -1 THEN "watch" ELSE "events"
      BY DEF Pcs
    <3> QED
      BY <2>2, <3>1 DEF EndRound
  <2>3. CASE unit' = off /\ Goto(l, "start") /\ stream' = (IF l = "source" THEN -1 ELSE stream) /\ UNCHANGED exists
    BY <1>0, <1>4, <2>1, <2>3 DEF Pcs
  <2>4. CASE EndRound(l) /\ unit # None /\ unit' \in {unit, Marked("orphaned")} /\ UNCHANGED <<exists, stream>>
    <3>1. PICK place \in Pcs : Goto(l, place)
      BY <2>2, <2>4
    <3>2. PICK u : u = Marked("orphaned")
      OBVIOUS
    <3>3. u \in Units /\ u # None /\ u.id = unit.id /\ u.state = "orphaned"
      BY <1>0, <2>4, <3>2, MarkedFacts DEF States
    <3> QED
      BY <1>0, <2>1, <2>4, <3>1, <3>2, <3>3
  <2>5. CASE RemoveUndeclaredEmpty /\ EndRound(l) /\ UNCHANGED <<unit, stream>>
    BY <1>0, <1>1, <2>1, <2>2, <2>5
  <2>6. CASE Goto(l, "adopt") /\ UNCHANGED <<unit, exists, saved, stream>>
    BY <1>0, <2>1, <2>6 DEF Pcs
  <2>7. CASE /\ EndRound(l) /\ UNCHANGED <<exists, stream>>
             /\ unit' = IF unit.source /\ unit.state = "tracked"
                        THEN [unit EXCEPT !.state = "pending", !.timer = TRUE] ELSE unit
    <3>1. PICK place \in Pcs : Goto(l, place)
      BY <2>2, <2>7
    <3>2. CASE unit' = unit
      BY <1>0, <2>1, <2>7, <3>1, <3>2
    <3>3. CASE unit.source /\ unit' = [unit EXCEPT !.state = "pending", !.timer = TRUE]
      <4>1. unit \in Records
        BY <1>0, <3>3, UnitCases
      <4>2. unit' \in Records /\ unit'.id = unit.id /\ unit'.state = "pending"
        BY <3>3, <4>1 DEF Records, States
      <4>3. unit' # None
        BY <4>2 DEF Records, None
      <4> QED
        BY <1>0, <2>1, <2>7, <3>1, <4>2, <4>3 DEF Units
    <3> QED
      BY <2>7, <3>2, <3>3
  <2> QED
    <3>1. \/ unit' = off /\ Goto(l, "start") /\ stream' = (IF l = "source" THEN -1 ELSE stream) /\ UNCHANGED exists
          \/ EndRound(l) /\ unit # None /\ unit' \in {unit, Marked("orphaned")} /\ UNCHANGED <<exists, stream>>
          \/ RemoveUndeclaredEmpty /\ EndRound(l) /\ UNCHANGED <<unit, stream>>
          \/ Goto(l, "adopt") /\ UNCHANGED <<unit, exists, saved, stream>>
          \/ /\ EndRound(l) /\ UNCHANGED <<exists, stream>>
             /\ unit' = IF unit.source /\ unit.state = "tracked"
                        THEN [unit EXCEPT !.state = "pending", !.timer = TRUE] ELSE unit
      BY <1>3, <1>9 DEF Scan
    <3> QED
      BY <2>3, <2>4, <2>5, <2>6, <2>7, <3>1
<1> QED
  BY <1>7, <1>8, <1>9

\* What is done about one service.
LEMMA ApplySound ==
  ASSUME SchedulerSound, NEW l \in Loops, Ready(l) \/ Stopped(l) \/ StoppedUpdate(l)
  PROVE  SchedulerSound'
<1> USE DEF kernel
<1>0. /\ TypeOK /\ Declared /\ unit \in Units /\ unit.id <= svc.id /\ svc.id \in Nat
      /\ exists \in BOOLEAN /\ root \in BOOLEAN /\ native \in BOOLEAN /\ saved \in BOOLEAN
      /\ stream \in -1 .. 1 /\ api \in {"idle", "declared", "undeclared"} /\ acked \in BOOLEAN
      /\ ops \in 0 .. MaxEvents /\ loop \in [Loops -> Passes] /\ loop[l] \in Passes
      /\ LoopFor(l) /\ (members # {} => exists)
  BY DEF SchedulerSound, TypeOK, Placed
<1>1. UNCHANGED <<svc, alive, root, members, native, saved, stream, work, api, acked, ops>>
  BY DEF Ready, Stopped, StoppedUpdate
<1>2. work' \in [Workers -> Migrations] /\ \A w \in Workers : WorkFor(w)'
  BY <1>1, WorkKept
<1>3. loop[l].next \in Pcs /\ loop[l].snap.id \in 0 .. MaxEvents /\ loop[l].snap.id <= svc.id
  BY <1>0 DEF Passes, Pcs, LoopFor
<1>4. exists' \in BOOLEAN /\ Declared' /\ (members # {} => exists')
  <2>1. RemoveUndeclaredEmpty \/ UNCHANGED exists
    BY DEF Ready, Stopped, StoppedUpdate
  <2> QED
    BY <1>1, <2>1, RemoveFacts
<1>5. ASSUME unit' \in Units, loop' \in [Loops -> Passes] /\ \A m \in Loops : LoopFor(m)',
             \/ unit' = unit
             \/ unit'.state # "tracked" /\ unit'.id <= svc.id
             \/ unit'.id = unit.id /\ (unit'.state = "tracked" => unit.state = "tracked")
      PROVE  SchedulerSound'
  BY <1>0, <1>1, <1>2, <1>4, <1>5, LoopSound
<1>6. ASSUME Goto(l, loop[l].next), UNCHANGED unit PROVE SchedulerSound'
  BY <1>0, <1>1, <1>3, <1>5, <1>6, GotoFacts
<1>7. CASE Ready(l)
  <2>1. PICK u : u = [id |-> loop[l].snap.id, state |-> "pending", source |-> TRUE, timer |-> TRUE]
    OBVIOUS
  <2>2. u \in Units /\ u.id <= svc.id /\ u.state = "pending"
    BY <1>3, <2>1 DEF Units, Records, States
  <2>3. CASE SetUnit(u, l, loop[l].next)
    BY <1>1, <1>3, <1>5, <2>2, <2>3, SetUnitFacts
  <2> QED
    BY <1>6, <1>7, <2>1, <2>3 DEF Ready
<1>8. CASE Stopped(l)
  <2>1. CASE unit # None
    <3>1. PICK f \in {"none", "empty", "populated", "error"} : f = IF Found = "absent" THEN "empty" ELSE Found
      BY DEF Found
    <3>2. PICK r : r = [loop[l] EXCEPT !.pc = "finish", !.ref = TRUE, !.found = f, !.snap = Rest.snap]
      OBVIOUS
    <3>3. loop' = [loop EXCEPT ![l] = r]
      BY <1>8, <2>1, <3>1, <3>2 DEF Stopped
    <3>4. r \in Passes /\ r.snap.id = 0
      <4>1. PICK s \in [id : 0 .. MaxEvents, ready : BOOLEAN] : s = Rest.snap /\ s.id = 0
        BY RestFacts DEF Passes
      <4> QED
        BY <1>0, <3>1, <3>2, <4>1 DEF Passes
    <3>5. unit' = [unit EXCEPT !.timer = FALSE] /\ unit \in Records
      BY <1>0, <1>8, <2>1, UnitCases DEF Stopped
    <3>6. unit' \in Records /\ unit'.id = unit.id /\ unit'.state = unit.state
      BY <3>5 DEF Records
    <3>7. unit' \in Units /\ unit' # None
      BY <3>6 DEF Units, Records, None
    <3>8. loop' \in [Loops -> Passes] /\ \A m \in Loops : LoopFor(m)'
      <4>1. r.snap.id <= svc.id
        BY <1>0, <3>4
      <4> QED
        BY <1>1, <3>3, <3>4, <3>7, <4>1, SnapFacts
    <3> QED
      BY <1>5, <3>6, <3>7, <3>8
  <2> QED
    BY <1>6, <1>8, <2>1 DEF Stopped
<1>9. CASE StoppedUpdate(l)
  <2>1. CASE SetUnit(None, l, loop[l].next)
    <3>1. loop' \in [Loops -> Passes] /\ (\A m \in Loops : LoopFor(m)') /\ unit' = None
      BY <1>1, <1>3, <2>1, SetUnitFacts
    <3>2. None \in Units /\ None.id = -1 /\ None.state = "stopped" /\ -1 <= svc.id
      BY <1>0, UnitCases
    <3> QED
      BY <1>5, <3>1, <3>2
  <2>2. CASE /\ loop[l].ref /\ Goto(l, loop[l].next)
             /\ unit' = Marked(IF loop[l].found = "error" THEN "degraded" ELSE "orphaned")
    <3>1. PICK x \in States \ {"tracked"} : x = IF loop[l].found = "error" THEN "degraded" ELSE "orphaned"
      BY DEF States
    <3>2. unit # None
      BY <1>0, <2>2 DEF LoopFor
    <3>3. unit' \in Units /\ unit' # None /\ unit'.id = unit.id /\ unit'.state = x
      BY <1>0, <2>2, <3>1, <3>2, MarkedFacts
    <3>4. loop' \in [Loops -> Passes] /\ \A m \in Loops : LoopFor(m)'
      BY <1>1, <1>3, <2>2, <3>3, GotoFacts
    <3> QED
      BY <1>5, <3>3, <3>4
  <2> QED
    BY <1>6, <1>9, <2>1, <2>2 DEF StoppedUpdate
<1> QED
  BY <1>7, <1>8, <1>9

\* The stream of events, the signal, and a restart of the daemon.
LEMMA WatchSound ==
  ASSUME SchedulerSound, Watch \/ ReadEvent \/ StreamCloses \/ Hangup \/ Restart
  PROVE  SchedulerSound'
<1> USE DEF kernel
<1>0. /\ TypeOK /\ Declared /\ unit \in Units /\ unit.id <= svc.id /\ svc.id \in Nat
      /\ exists \in BOOLEAN /\ root \in BOOLEAN /\ native \in BOOLEAN /\ saved \in BOOLEAN
      /\ stream \in -1 .. 1 /\ api \in {"idle", "declared", "undeclared"} /\ acked \in BOOLEAN
      /\ ops \in 0 .. MaxEvents /\ loop \in [Loops -> Passes]
      /\ (members # {} => exists) /\ "source" \in Loops /\ "main" \in Loops
  BY DEF SchedulerSound, TypeOK, Placed, Loops
<1>1. UNCHANGED <<svc, alive, members, exists, saved, acked>>
  BY DEF Watch, ReadEvent, StreamCloses, Hangup, Restart
<1>2. PICK off : off = MarkedOffline
  OBVIOUS
<1>3. /\ off \in Units /\ off.id = unit.id /\ (unit # None => off # None)
      /\ off.state = "tracked" => unit.state = "tracked"
  BY <1>0, <1>2, OfflineFacts
<1>4. ASSUME NEW l \in Loops, NEW place \in Pcs, Goto(l, place), unit' \in {unit, off}, UNCHANGED <<native, work, api>>,
             root' \in BOOLEAN, stream' \in -1 .. 1, UNCHANGED ops \/ Op
      PROVE  SchedulerSound'
  <2>1. work' \in [Workers -> Migrations] /\ \A w \in Workers : WorkFor(w)'
    BY <1>1, <1>4, WorkKept
  <2>2. loop' \in [Loops -> Passes] /\ \A m \in Loops : LoopFor(m)'
    BY <1>1, <1>3, <1>4, GotoFacts
  <2>3. Declared' /\ ops' \in 0 .. MaxEvents
    BY <1>0, <1>1, <1>4, OpTypes DEF Declared
  <2> QED
    BY <1>0, <1>1, <1>3, <1>4, <2>1, <2>2, <2>3, LoopSound
<1>5. CASE Watch
  BY <1>0, <1>2, <1>4, <1>5 DEF Watch, Pcs
<1>6. CASE StreamCloses
  BY <1>0, <1>2, <1>4, <1>6 DEF StreamCloses, Pcs
<1>7. CASE Hangup
  BY <1>0, <1>4, <1>7 DEF Hangup, Pcs
<1>8. CASE ReadEvent
  <2>1. PICK r : r = [Rest EXCEPT !.pc = "apply", !.next = "events", !.snap = svc]
    OBVIOUS
  <2>2. r \in Passes /\ r.snap = svc /\ ~r.ref
    <3>1. svc \in [id : 0 .. MaxEvents, ready : BOOLEAN]
      BY <1>0 DEF TypeOK
    <3> QED
      BY <2>1, <3>1, RestFacts DEF Passes
  <2>3. loop' = [loop EXCEPT !["source"] = r] /\ UNCHANGED <<root, unit, native, work, api, ops>> /\ stream' \in -1 .. 1
    BY <1>8, <2>1 DEF ReadEvent
  <2>4. loop' \in [Loops -> Passes] /\ \A m \in Loops : LoopFor(m)'
    <3>1. r.snap.id <= svc.id
      BY <1>0, <2>2
    <3> QED
      BY <1>0, <1>1, <2>2, <2>3, <3>1, SnapFacts
  <2>5. work' \in [Workers -> Migrations] /\ \A w \in Workers : WorkFor(w)'
    BY <1>1, <2>3, WorkKept
  <2>6. Declared'
    BY <1>0, <1>1, <2>3 DEF Declared
  <2> QED
    BY <1>0, <1>1, <2>3, <2>4, <2>5, <2>6, LoopSound
<1>9. CASE Restart
  <2>1. PICK u : u = Recorded(unit)
    OBVIOUS
  <2>2. u \in Units /\ (u = None \/ (u.id = unit.id /\ u.state = unit.state))
    <3>1. CASE unit.id > 0
      <4>1. unit \in Records
        BY <1>0, <3>1, UnitCases
      <4>2. u = [unit EXCEPT !.source = FALSE, !.timer = FALSE]
        BY <2>1, <3>1 DEF Recorded
      <4>3. u \in Records /\ u.id = unit.id /\ u.state = unit.state
        BY <4>1, <4>2 DEF Records
      <4> QED
        BY <4>3 DEF Units
    <3>2. CASE ~(unit.id > 0)
      BY <2>1, <3>2 DEF Recorded, Units
    <3> QED
      BY <3>1, <3>2
  <2>3. /\ unit' \in {None, u} /\ native' = saved /\ stream' = -1 /\ api' = "idle"
        /\ loop' = [l \in Loops |-> Rest] /\ work' = [w \in Workers |-> Free] /\ UNCHANGED root
        /\ ops' \in 0 .. MaxEvents
    BY <1>0, <1>9, <2>1, OpTypes DEF Restart
  <2>4. loop' \in [Loops -> Passes] /\ \A l \in Loops : LoopFor(l)'
    BY <1>0, <1>1, <2>3, RestFacts DEF LoopFor
  <2>5. Free \in Migrations /\ Free.id = 0 /\ Free.pc = "free"
    BY DEF Free, Migrations, States
  <2>6. work' \in [Workers -> Migrations] /\ \A w \in Workers : WorkFor(w)'
    BY <1>0, <1>1, <2>3, <2>5 DEF WorkFor
  <2>7. Declared'
    BY <1>0, <1>1, <2>3 DEF Declared
  <2>8. None \in Units /\ None.id = -1 /\ None.state = "stopped" /\ -1 <= svc.id
    BY <1>0, UnitCases
  <2>9. /\ unit' \in Units
        /\ \/ unit'.state # "tracked" /\ unit'.id <= svc.id
           \/ unit'.id = unit.id /\ (unit'.state = "tracked" => unit.state = "tracked")
    BY <2>2, <2>3, <2>8
  <2> QED
    BY <1>0, <1>1, <2>3, <2>4, <2>6, <2>7, <2>9, LoopSound
<1> QED
  BY <1>5, <1>6, <1>7, <1>8, <1>9

\* A migration that goes on.
LEMMA WorkFacts ==
  ASSUME SchedulerSound, NEW w \in Workers, NEW e \in Migrations, work' = [work EXCEPT ![w] = e],
         svc' = svc, alive' = alive, members \subseteq members', e.id <= svc.id,
         e.pc = "update" /\ e.result = "tracked" /\ e.id \in alive => e.id \in members'
  PROVE  work' \in [Workers -> Migrations] /\ \A v \in Workers : WorkFor(v)'
BY DEF SchedulerSound, TypeOK, WorkFor

LEMMA MigrationSound ==
  ASSUME SchedulerSound, NEW w \in Workers, WorkerStep(w)
  PROVE  SchedulerSound'
<1> USE DEF kernel
<1>0. /\ TypeOK /\ Declared /\ Placed /\ unit \in Units /\ unit.id <= svc.id /\ svc.id \in Nat
      /\ exists \in BOOLEAN /\ root \in BOOLEAN /\ native \in BOOLEAN /\ saved \in BOOLEAN
      /\ stream \in -1 .. 1 /\ api \in {"idle", "declared", "undeclared"} /\ acked \in BOOLEAN
      /\ ops \in 0 .. MaxEvents /\ loop \in [Loops -> Passes]
      /\ (members # {} => exists) /\ work \in [Workers -> Migrations]
      /\ \A l \in Loops : LoopFor(l)
  BY DEF SchedulerSound, TypeOK, Placed
<1>1. work[w] \in Migrations /\ WorkFor(w)
  BY <1>0 DEF SchedulerSound
<1>2. /\ work[w].id \in 0 .. MaxEvents /\ work[w].id <= svc.id /\ work[w].result \in States
  BY <1>1 DEF Migrations, WorkFor
<1>3. UNCHANGED <<svc, alive, root, native, saved, stream, loop, api, acked>>
  BY DEF WorkerStep, TimerFires, Ask, Move, UpdateMigration
<1>4. ASSUME unit # None => unit' # None
      PROVE  loop' \in [Loops -> Passes] /\ \A l \in Loops : LoopFor(l)'
  BY <1>0, <1>3, <1>4 DEF LoopFor
<1>5. ASSUME UNCHANGED members, unit' \in Units, unit # None => unit' # None,
             work' \in [Workers -> Migrations] /\ \A v \in Workers : WorkFor(v)',
             \/ unit' = unit
             \/ unit'.state # "tracked" /\ unit'.id <= svc.id
             \/ unit'.id = unit.id /\ (unit'.state = "tracked" => unit.state = "tracked"),
             exists' \in BOOLEAN, exists => exists', UNCHANGED ops \/ Op
      PROVE  SchedulerSound'
  <2>1. Declared' /\ (members # {} => exists') /\ ops' \in 0 .. MaxEvents
    BY <1>0, <1>3, <1>5, OpTypes DEF Declared
  <2>2. loop' \in [Loops -> Passes] /\ \A l \in Loops : LoopFor(l)'
    BY <1>4, <1>5
  <2> QED
    BY <1>0, <1>3, <1>5, <2>1, <2>2, LoopSound
<1>6. ASSUME NEW x \in States, NEW e, e = [work[w] EXCEPT !.pc = "update", !.result = x]
      PROVE  e \in Migrations /\ e.pc = "update" /\ e.result = x /\ e.id = work[w].id
  BY <1>1, <1>6 DEF Migrations
<1>7. CASE TimerFires(w)
  <2>1. PICK e : e = [pc |-> "ask", id |-> unit.id, result |-> "pending"]
    OBVIOUS
  <2>2. unit \in Records /\ unit.id \in 0 .. MaxEvents
    BY <1>0, <1>7, UnitCases DEF TimerFires
  <2>3. e \in Migrations /\ e.id = unit.id /\ e.pc = "ask"
    BY <2>1, <2>2 DEF Migrations, States
  <2>4. unit' \in Records /\ unit'.id = unit.id /\ unit'.state = unit.state
    BY <1>7, <2>2 DEF TimerFires, Records
  <2>5. unit' \in Units /\ unit' # None
    BY <2>4 DEF Units, Records, None
  <2>6. UNCHANGED <<members, exists, ops>> /\ work' = [work EXCEPT ![w] = e]
    BY <1>7, <2>1 DEF TimerFires
  <2>7. work' \in [Workers -> Migrations] /\ \A v \in Workers : WorkFor(v)'
    BY <1>0, <1>3, <2>3, <2>6, WorkFacts
  <2> QED
    BY <1>0, <1>5, <2>4, <2>5, <2>6, <2>7
<1>8. CASE Ask(w)
  <2>0. UNCHANGED <<members, unit>>
    BY <1>8 DEF Ask
  <2>1. ASSUME NEW x \in States, x = "tracked" => work[w].id \in members,
               work' = [work EXCEPT ![w].pc = "update", ![w].result = x]
        PROVE  work' \in [Workers -> Migrations] /\ \A v \in Workers : WorkFor(v)'
    <3>1. PICK e : e = [work[w] EXCEPT !.pc = "update", !.result = x]
      OBVIOUS
    <3>2. work' = [work EXCEPT ![w] = e]
      BY <2>1, <3>1
    <3> QED
      <4>1. e \in Migrations /\ e.pc = "update" /\ e.result = x /\ e.id = work[w].id
        BY <1>6, <3>1
      <4>2. /\ e.id <= svc.id /\ members \subseteq members' /\ svc' = svc /\ alive' = alive
            /\ (e.result = "tracked" => e.id \in members')
        BY <1>2, <1>3, <2>0, <2>1, <4>1
      <4> QED
        BY <3>2, <4>1, <4>2, WorkFacts
  <2>2. CASE Op /\ Result(w, "degraded") /\ UNCHANGED exists
    BY <1>0, <1>5, <2>0, <2>1, <2>2 DEF Result, States
  <2>3. CASE /\ UNCHANGED <<exists, ops>>
             /\ Result(w, IF /\ svc = [id |-> work[w].id, ready |-> TRUE] /\ native /\ root
                             /\ work[w].id \in members THEN "tracked" ELSE "degraded")
    <3>1. PICK x \in States : x = IF /\ svc = [id |-> work[w].id, ready |-> TRUE] /\ native /\ root
                                     /\ work[w].id \in members THEN "tracked" ELSE "degraded"
      BY DEF States
    <3>2. x = "tracked" => work[w].id \in members
      BY <3>1
    <3> QED
      BY <1>0, <1>5, <2>0, <2>1, <2>3, <3>1, <3>2 DEF Result
  <2>4. CASE exists' = TRUE /\ work' = [work EXCEPT ![w].pc = "move"] /\ UNCHANGED ops
    <3>1. PICK e : e = [work[w] EXCEPT !.pc = "move"]
      OBVIOUS
    <3>2. e \in Migrations /\ e.pc = "move" /\ e.id = work[w].id
      BY <1>1, <3>1 DEF Migrations
    <3>3. work' \in [Workers -> Migrations] /\ \A v \in Workers : WorkFor(v)'
      BY <1>2, <1>3, <2>0, <2>4, <3>1, <3>2, WorkFacts
    <3> QED
      BY <1>0, <1>5, <2>0, <2>4, <3>3
  <2> QED
    BY <1>0, <1>8, <2>2, <2>3, <2>4 DEF Ask
<1>9. CASE Move(w)
  <2>0. UNCHANGED <<unit, exists>>
    BY <1>9 DEF Move
  <2>1. PICK ok \in BOOLEAN : ok = (exists /\ work[w].id \in alive)
    OBVIOUS
  <2>2. /\ members' = IF ok THEN members \cup {work[w].id} ELSE members
        /\ \/ Result(w, IF ok THEN "tracked" ELSE "degraded") /\ UNCHANGED ops
           \/ ok /\ Op /\ Result(w, "partial")
    BY <1>9, <2>1 DEF Move
  <2>3. PICK x \in States : Result(w, x) /\ (x = "tracked" => ok)
    BY <2>2 DEF States
  <2>4. PICK e : e = [work[w] EXCEPT !.pc = "update", !.result = x]
    OBVIOUS
  <2>5. e \in Migrations /\ e.pc = "update" /\ e.result = x /\ e.id = work[w].id
    BY <1>6, <2>4
  <2>6. work' = [work EXCEPT ![w] = e]
    BY <2>3, <2>4 DEF Result
  <2>7. work' \in [Workers -> Migrations] /\ \A v \in Workers : WorkFor(v)'
    BY <1>2, <1>3, <2>2, <2>3, <2>5, <2>6, WorkFacts
  <2>8. /\ members \subseteq members' /\ members' \subseteq alive /\ (members' # {} => exists)
    BY <1>0, <2>1, <2>2 DEF TypeOK
  <2>9. ops' \in 0 .. MaxEvents
    BY <1>0, <2>2, OpTypes
  <2>10. TypeOK'
    BY <1>0, <1>3, <2>0, <2>7, <2>8, <2>9 DEF TypeOK
  <2>11. Placed' /\ Declared'
    BY <1>0, <1>3, <2>0, <2>8 DEF Placed, Declared
  <2>12. \A l \in Loops : LoopFor(l)'
    BY <1>4, <2>0
  <2> QED
    BY <1>0, <1>3, <2>0, <2>7, <2>10, <2>11, <2>12 DEF SchedulerSound
<1>10. CASE UpdateMigration(w)
  <2>0. UNCHANGED <<members, exists, ops>> /\ work[w].pc = "update" /\ work' = [work EXCEPT ![w] = Free]
    BY <1>10 DEF UpdateMigration
  <2>1. Free \in Migrations /\ Free.id = 0 /\ Free.pc = "free"
    BY DEF Free, Migrations, States
  <2>2. work' \in [Workers -> Migrations] /\ \A v \in Workers : WorkFor(v)'
    <3>1. Free.id <= svc.id /\ members \subseteq members' /\ svc' = svc /\ alive' = alive
      BY <1>0, <1>3, <2>0, <2>1
    <3> QED
      BY <2>0, <2>1, <3>1, WorkFacts
  <2>3. CASE unit' = unit
    BY <1>0, <1>5, <2>0, <2>2, <2>3
  <2>4. CASE unit.id = work[w].id /\ unit' = Marked(work[w].result)
    <3>1. unit # None /\ unit' \in Units /\ unit' # None /\ unit'.id = unit.id /\ unit'.state = work[w].result
      <4>1. unit # None
        BY <1>0, <1>2, <2>4, UnitCases
      <4> QED
        BY <1>0, <1>2, <2>4, <4>1, MarkedFacts
    <3>2. unit'.state = "tracked" /\ unit'.id \in alive => unit'.id \in members
      BY <1>1, <2>0, <2>4, <3>1 DEF WorkFor
    <3>3. TypeOK'
      BY <1>0, <1>3, <2>0, <2>2, <3>1 DEF TypeOK
    <3>4. Placed' /\ Declared'
      BY <1>0, <1>3, <2>0, <3>2 DEF Placed, Declared
    <3>5. \A l \in Loops : LoopFor(l)'
      BY <1>4, <3>1
    <3> QED
      BY <1>0, <1>3, <2>2, <3>1, <3>3, <3>4, <3>5 DEF SchedulerSound
  <2> QED
    BY <1>10, <2>3, <2>4 DEF UpdateMigration
<1> QED
  BY <1>7, <1>8, <1>9, <1>10 DEF WorkerStep

\* Prepare and Release.
LEMMA RequestsSound ==
  ASSUME SchedulerSound, ApiStep \/ Prepare \/ Release
  PROVE  SchedulerSound'
<1> USE DEF kernel
<1>0. /\ TypeOK /\ Declared /\ unit \in Units
      /\ exists \in BOOLEAN /\ root \in BOOLEAN /\ native \in BOOLEAN /\ saved \in BOOLEAN
      /\ stream \in -1 .. 1 /\ api \in {"idle", "declared", "undeclared"} /\ acked \in BOOLEAN
      /\ ops \in 0 .. MaxEvents /\ loop \in [Loops -> Passes]
      /\ (members # {} => exists) /\ \A l \in Loops : LoopFor(l)
  BY DEF SchedulerSound, TypeOK, Placed
<1>1. UNCHANGED <<svc, alive, root, members, unit, stream, loop, work>>
  BY DEF ApiStep, Prepare, PrepareSave, Release, ReleaseRemove
<1>2. work' \in [Workers -> Migrations] /\ \A w \in Workers : WorkFor(w)'
  BY <1>1, WorkKept
<1>3. loop' \in [Loops -> Passes] /\ \A l \in Loops : LoopFor(l)'
  BY <1>0, <1>1 DEF LoopFor
<1>4. ASSUME exists' \in BOOLEAN, native' \in BOOLEAN, saved' \in BOOLEAN, acked' \in BOOLEAN,
             api' \in {"idle", "declared", "undeclared"}, Declared', members # {} => exists',
             UNCHANGED ops \/ Op
      PROVE  SchedulerSound'
  <2>1. ops' \in 0 .. MaxEvents
    BY <1>0, <1>4, OpTypes
  <2> QED
    BY <1>0, <1>1, <1>2, <1>3, <1>4, <2>1, LoopSound
<1>5. CASE Prepare
  BY <1>0, <1>4, <1>5 DEF Prepare, Declared
<1>6. CASE PrepareSave
  BY <1>0, <1>4, <1>6 DEF PrepareSave, Declared, SaveDeclared
<1>7. CASE Release
  <2>1. exists' = exists /\ Op
    BY <1>7 DEF Release
  <2>2. CASE native' = FALSE /\ saved' = FALSE /\ acked' = FALSE /\ api' = "undeclared"
    <3>1. Declared'
      BY <2>2 DEF Declared
    <3> QED
      BY <1>0, <1>4, <2>1, <2>2, <3>1
  <2>3. CASE UNCHANGED <<native, saved, acked, api>>
    <3>1. Declared'
      BY <1>0, <2>1, <2>3 DEF Declared
    <3> QED
      BY <1>0, <1>4, <2>1, <2>3, <3>1
  <2> QED
    BY <1>7, <2>2, <2>3 DEF Release, SaveDeclared
<1>8. CASE ReleaseRemove
  BY <1>0, <1>4, <1>8 DEF ReleaseRemove, RemoveIfEmpty, Declared
<1> QED
  BY <1>5, <1>6, <1>7, <1>8 DEF ApiStep

-----------------------------------------------------------------------------
LEMMA SchedulerInit == Init => SchedulerSound
<1> SUFFICES ASSUME Init PROVE SchedulerSound
  OBVIOUS
<1>1. None \in Units /\ None.id = -1 /\ None.state = "stopped" /\ Rest \in Passes
      /\ Rest.snap.id = 0 /\ ~Rest.ref
  BY RestFacts DEF Units, None
<1>2. Free \in Migrations /\ Free.id = 0 /\ Free.pc = "free"
  BY DEF Free, Migrations, States
<1>3. svc.id = 0 /\ svc \in [id : 0 .. MaxEvents, ready : BOOLEAN]
  BY DEF Init
<1>4. TypeOK
  <2>1. loop \in [Loops -> Passes] /\ work \in [Workers -> Migrations] /\ unit \in Units
    BY <1>1, <1>2 DEF Init
  <2>2. /\ alive \subseteq 1 .. MaxEvents /\ members \subseteq alive
        /\ root \in BOOLEAN /\ exists \in BOOLEAN /\ native \in BOOLEAN /\ saved \in BOOLEAN
        /\ api = "idle" /\ acked \in BOOLEAN
    BY DEF Init
  <2>3. stream \in -1 .. 1 /\ ops \in 0 .. MaxEvents
    BY DEF Init
  <2> QED
    BY <1>3, <2>1, <2>2, <2>3 DEF TypeOK
<1>5. Declared /\ Placed
  BY <1>1 DEF Init, Declared, Placed
<1>6. \A l \in Loops : LoopFor(l)
  BY <1>1, <1>3 DEF Init, LoopFor
<1>7. \A w \in Workers : WorkFor(w)
  <2>1. ASSUME NEW w \in Workers PROVE work[w].id = 0 /\ work[w].pc = "free"
    BY <1>2 DEF Init
  <2>2. ASSUME NEW w \in Workers PROVE work[w].id <= svc.id /\ work[w].pc # "update"
    <3>1. work[w].id = 0 /\ work[w].pc = "free" /\ svc.id = 0
      BY <1>3, <2>1
    <3> QED
      BY <3>1
  <2> QED
    BY <2>2 DEF WorkFor
<1> QED
  BY <1>1, <1>3, <1>4, <1>5, <1>6, <1>7 DEF Init, SchedulerSound

LEMMA SchedulerNext == SchedulerSound /\ [Next]_vars => SchedulerSound'
<1> SUFFICES ASSUME SchedulerSound, [Next]_vars PROVE SchedulerSound'
  OBVIOUS
<1>1. CASE UNCHANGED vars
  BY <1>1 DEF vars, kernel, daemon, SchedulerSound, TypeOK, Declared, Placed, LoopFor, WorkFor
<1>2. ASSUME NEW l \in Loops, LoopStep(l) PROVE SchedulerSound'
  BY <1>2, QueryScanSound, ApplySound DEF LoopStep
<1> QED
  BY <1>1, <1>2, ServiceSound, WatchSound, MigrationSound, RequestsSound DEF Next, SourceStep, Loops

(* A cgroup that Prepare has promised to Dinit is there until it is          *)
(* released, whatever the two loops remove and in spite of restarts, and a   *)
(* live process that is said to be tracked is in its cgroup: a record gets   *)
(* the result of its own migration only (main.go Prepare, Release,           *)
(* removeUndeclaredEmpty, migrateCurrent, updateMigration).                  *)
THEOREM CgroupCorrect == Spec => []CgroupSound
<1>1. SchedulerSound => CgroupSound
  BY DEF SchedulerSound, Declared, Placed, CgroupSound, PreparedExists, TrackedIsMember
<1> QED
  BY <1>1, SchedulerInit, SchedulerNext, PTL DEF Spec

-----------------------------------------------------------------------------
(* The invocations of servicectl --user. *)

(* The instance of FiniteSets that the module has is the same one.           *)
LEMMA UserCardinality == ASSUME NEW S PROVE User!Cardinality(S) = Cardinality(S)
  BY Zenon DEF User!Cardinality, Cardinality

\* There is an instance for each lapse at most.
OnlyLapses == IsFiniteSet(User!Running) /\ Cardinality(User!Running) <= lapses

(* Who looks for an instance holds the lock; one that starts an instance has *)
(* found none but those of lapses, and so has everybody who comes after      *)
(* nobody waits for an instance and none answers.                            *)
InvocationsSound ==
  /\ User!TypeOK
  /\ IsFiniteSet(User!Running) /\ Cardinality(User!Running) <= 1 + lapses
  /\ \A c \in Callers : pc[c] \in {"list", "spawn", "poll"} => lock = c
  /\ \A c \in Callers : pc[c] = "spawn" => OnlyLapses
  /\ ready = {} /\ (\A c \in Callers : pc[c] # "poll") => OnlyLapses

LEMMA InvocationsBegin == ASSUME User!Parameters, User!Init PROVE InvocationsSound
<1>1. User!Running = {}
  BY DEF User!Init, User!Running
<1>2. lapses = 0 /\ IsFiniteSet(User!Running) /\ Cardinality(User!Running) = 0
  BY <1>1, FS_EmptySet DEF User!Init
<1>3. User!TypeOK
  BY DEF User!Init, User!TypeOK, User!NoOne
<1>4. \A c \in Callers : pc[c] = "gate"
  BY DEF User!Init
<1> QED
  BY <1>2, <1>3, <1>4 DEF InvocationsSound, OnlyLapses

\* What a step of an invocation on its way does to the places of all.
LEMMA GoesTo ==
  ASSUME InvocationsSound, NEW c \in Callers, NEW l, User!GoTo(c, l),
         l \in {"gate", "lock", "list", "spawn", "poll", "ready", "error", "killed"}
  PROVE  /\ pc' \in [Callers -> {"gate", "lock", "list", "spawn", "poll", "ready", "error", "killed"}]
         /\ pc'[c] = l /\ \A d \in Callers \ {c} : pc'[d] = pc[d]
  BY DEF InvocationsSound, User!TypeOK, User!GoTo

LEMMA InvocationsGoOn ==
  ASSUME User!Parameters, InvocationsSound, [User!Next]_User!vars
  PROVE  InvocationsSound'
<1> USE DEF OnlyLapses
<1>t. /\ User!TypeOK /\ lapses \in Nat /\ started \in Nat
      /\ IsFiniteSet(User!Running) /\ Cardinality(User!Running) \in Nat
  BY FS_CardinalityType DEF InvocationsSound, User!TypeOK
<1>1. CASE UNCHANGED User!vars
  <2>1. UNCHANGED <<plane, pc, polls, lock, starting, ready, started, faults, lapses>>
    BY <1>1 DEF User!vars
  <2>2. User!Running' = User!Running /\ User!TypeOK'
    BY <1>t, <2>1 DEF User!Running, User!TypeOK
  <2> QED
    BY <2>1, <2>2 DEF InvocationsSound
<1>2. ASSUME NEW c \in Callers, User!Gate(c) PROVE InvocationsSound'
  <2>1. /\ UNCHANGED <<plane, polls, lock, starting, ready, started, faults, lapses>> /\ pc[c] = "gate"
        /\ \E l \in {"lock", "error"} : User!GoTo(c, l)
    BY <1>2 DEF User!Gate
  <2>2. PICK l \in {"lock", "error"} : User!GoTo(c, l)
    BY <2>1
  <2>3. /\ pc' \in [Callers -> {"gate", "lock", "list", "spawn", "poll", "ready", "error", "killed"}]
        /\ pc'[c] = l /\ \A d \in Callers \ {c} : pc'[d] = pc[d]
    BY <2>2, GoesTo
  <2>4. User!Running' = User!Running /\ User!TypeOK'
    BY <1>t, <2>1, <2>3 DEF User!Running, User!TypeOK
  <2> QED
    BY <1>t, <2>1, <2>3, <2>4 DEF InvocationsSound
<1>3. ASSUME NEW c \in Callers, User!Lock(c) PROVE InvocationsSound'
  <2>1. /\ UNCHANGED <<plane, polls, starting, ready, started, faults, lapses>>
        /\ pc[c] = "lock" /\ lock = "none" /\ lock' = c /\ User!GoTo(c, "list")
    BY <1>3 DEF User!Lock, User!NoOne
  <2>2. /\ pc' \in [Callers -> {"gate", "lock", "list", "spawn", "poll", "ready", "error", "killed"}]
        /\ pc'[c] = "list" /\ \A d \in Callers \ {c} : pc'[d] = pc[d]
    BY <2>1, GoesTo
  <2>3. User!Running' = User!Running /\ User!TypeOK'
    BY <1>t, <2>1, <2>2 DEF User!Running, User!TypeOK
  <2>4. \A d \in Callers : pc[d] \notin {"list", "spawn", "poll"}
    BY <2>1 DEF InvocationsSound, User!Parameters
  <2> QED
    BY <1>t, <2>1, <2>2, <2>3, <2>4 DEF InvocationsSound
<1>4. ASSUME NEW c \in Callers, pc[c] \in {"list", "spawn", "poll"}, NEW l \in {"spawn", "ready", "error", "killed"},
             User!GoTo(c, l), lock' = IF l = "spawn" THEN lock ELSE "none",
             UNCHANGED <<plane, polls, starting, ready, started>>, faults' \in Nat, lapses' \in Nat,
             IF l = "spawn" \/ (pc[c] = "poll" /\ l # "ready") \/ (pc[c] = "spawn" /\ ready = {})
             THEN Cardinality(User!Running) <= lapses' ELSE lapses' = lapses,
             lapses <= lapses', l = "ready" => ready # {}
      PROVE  InvocationsSound'
  <2>1. /\ pc' \in [Callers -> {"gate", "lock", "list", "spawn", "poll", "ready", "error", "killed"}]
        /\ pc'[c] = l /\ \A d \in Callers \ {c} : pc'[d] = pc[d]
    BY <1>4, GoesTo
  <2>2. User!Running' = User!Running /\ User!TypeOK'
    BY <1>t, <1>4, <2>1 DEF User!Running, User!TypeOK, User!NoOne
  <2>3. lock = c /\ \A d \in Callers \ {c} : pc[d] \notin {"list", "spawn", "poll"}
    BY <1>4 DEF InvocationsSound
  <2>4. \A d \in Callers : pc'[d] \in {"list", "spawn", "poll"} => d = c /\ l = "spawn" /\ lock' = d
    BY <1>4, <2>1, <2>3
  <2>5. Cardinality(User!Running) <= 1 + lapses'
    BY <1>t, <1>4 DEF InvocationsSound
  <2>6. l = "spawn" => Cardinality(User!Running) <= lapses'
    BY <1>4
  <2>7. ready = {} => Cardinality(User!Running) <= lapses'
    <3>1. CASE pc[c] = "list" /\ l # "spawn"
      BY <1>t, <1>4, <2>3, <3>1 DEF InvocationsSound
    <3> QED
      BY <1>4, <3>1
  <2> QED
    BY <1>t, <1>4, <2>2, <2>4, <2>5, <2>6, <2>7 DEF InvocationsSound
<1>5. ASSUME NEW c \in Callers, User!List(c) PROVE InvocationsSound'
  <2>1. /\ UNCHANGED <<plane, polls, starting, ready, started, faults, lapses>> /\ pc[c] = "list" /\ lock = c
    BY <1>5 DEF User!List, InvocationsSound
  <2>2. CASE ready # {}
    <3>1. User!GoTo(c, "ready") /\ lock' = "none"
      BY <1>5, <2>1, <2>2 DEF User!List, User!Unlock, User!NoOne
    <3> QED
      BY <1>t, <1>4, <2>1, <2>2, <3>1 DEF User!TypeOK
  <2>3. CASE ready = {}
    <3>1. User!GoTo(c, "spawn") /\ lock' = lock
      BY <1>5, <2>3 DEF User!List
    <3>2. \A d \in Callers : pc[d] # "poll"
      BY <2>1 DEF InvocationsSound
    <3>3. Cardinality(User!Running) <= lapses'
      BY <2>1, <2>3, <3>2 DEF InvocationsSound
    <3> QED
      BY <1>t, <1>4, <2>1, <3>1, <3>3 DEF User!TypeOK
  <2> QED
    BY <2>2, <2>3
<1>6. ASSUME NEW c \in Callers, User!Spawn(c) PROVE InvocationsSound'
  <2>1. /\ UNCHANGED <<plane, polls, lock, ready, faults, lapses>> /\ pc[c] = "spawn" /\ lock = c
        /\ started' = started + 1 /\ starting' = starting \cup {started + 1} /\ User!GoTo(c, "poll")
    BY <1>6 DEF User!Spawn, InvocationsSound
  <2>2. /\ pc' \in [Callers -> {"gate", "lock", "list", "spawn", "poll", "ready", "error", "killed"}]
        /\ pc'[c] = "poll" /\ \A d \in Callers \ {c} : pc'[d] = pc[d]
    BY <2>1, GoesTo
  <2>3. User!Running' = User!Running \cup {started + 1}
    BY <2>1 DEF User!Running
  <2>4. User!TypeOK'
    <3>1. starting' \subseteq 1 .. started' /\ ready' \subseteq 1 .. started'
      BY <1>t, <2>1 DEF User!TypeOK
    <3> QED
      BY <1>t, <2>1, <2>2, <3>1 DEF User!TypeOK
  <2>5. IsFiniteSet(User!Running') /\ Cardinality(User!Running') <= Cardinality(User!Running) + 1
    <3>1. PICK S : S = User!Running
      OBVIOUS
    <3>2. IsFiniteSet(S \cup {started + 1})
      BY <1>t, <3>1, FS_AddElement
    <3>3. Cardinality(S \cup {started + 1}) <= Cardinality(S) + 1
      <4>1. Cardinality(S \cup {started + 1})
              = IF started + 1 \in S THEN Cardinality(S) ELSE Cardinality(S) + 1
        BY <1>t, <3>1, FS_AddElement
      <4> QED
        BY <1>t, <3>1, <4>1
    <3> QED
      BY <2>3, <3>1, <3>2, <3>3
  <2>6. \A d \in Callers \ {c} : pc[d] \notin {"list", "spawn", "poll"}
    BY <2>1 DEF InvocationsSound
  <2>7. Cardinality(User!Running) <= lapses /\ Cardinality(User!Running') \in Nat
    BY <2>1, <2>5, FS_CardinalityType DEF InvocationsSound
  <2> QED
    BY <1>t, <2>1, <2>2, <2>4, <2>5, <2>6, <2>7 DEF InvocationsSound
<1>7. ASSUME NEW c \in Callers, User!SpawnFails(c) PROVE InvocationsSound'
  <2>1. /\ UNCHANGED <<plane, polls, starting, ready, started, faults, lapses>> /\ pc[c] = "spawn" /\ lock' = "none"
        /\ User!GoTo(c, "error") /\ Cardinality(User!Running) <= lapses
    BY <1>7 DEF User!SpawnFails, User!Unlock, User!NoOne, InvocationsSound
  <2> QED
    BY <1>t, <1>4, <2>1 DEF User!TypeOK
<1>8. ASSUME NEW c \in Callers, User!Poll(c) PROVE InvocationsSound'
  <2>1. UNCHANGED <<plane, starting, ready, started, faults, lapses>> /\ pc[c] = "poll" /\ lock = c
    BY <1>8 DEF User!Poll, InvocationsSound
  <2>2. CASE ready # {}
    <3>1. User!GoTo(c, "ready") /\ lock' = "none" /\ polls' = polls
      BY <1>8, <2>1, <2>2 DEF User!Poll, User!Unlock, User!NoOne
    <3> QED
      BY <1>t, <1>4, <2>1, <2>2, <3>1 DEF User!TypeOK
  <2>3. CASE ready = {}
    <3>1. polls' = [polls EXCEPT ![c] = @ + 1] /\ UNCHANGED <<pc, lock>>
      BY <1>8, <2>3 DEF User!Poll
    <3>2. User!Running' = User!Running /\ User!TypeOK'
      BY <1>t, <2>1, <3>1 DEF User!Running, User!TypeOK
    <3> QED
      BY <2>1, <3>1, <3>2 DEF InvocationsSound
  <2> QED
    BY <2>2, <2>3
<1>9. ASSUME NEW c \in Callers, User!GiveUp(c) PROVE InvocationsSound'
  <2>1. /\ UNCHANGED <<plane, polls, starting, ready, started, faults>> /\ pc[c] = "poll" /\ lock' = "none"
        /\ User!GoTo(c, "error") /\ lapses' = lapses + 1
    BY <1>9 DEF User!GiveUp, User!Unlock, User!NoOne, InvocationsSound
  <2>2. Cardinality(User!Running) <= lapses' /\ lapses' \in Nat
    BY <1>t, <2>1 DEF InvocationsSound
  <2> QED
    BY <1>t, <1>4, <2>1, <2>2 DEF User!TypeOK
<1>10. ASSUME NEW c \in Callers, User!Killed(c) PROVE InvocationsSound'
  <2>1. /\ UNCHANGED <<plane, polls, starting, ready, started>> /\ pc[c] \notin {"ready", "error", "killed"}
        /\ User!GoTo(c, "killed") /\ faults' = faults + 1 /\ lock' = (IF lock = c THEN "none" ELSE lock)
        /\ lapses' = IF pc[c] = "poll" THEN lapses + 1 ELSE lapses
    BY <1>10 DEF User!Killed, User!Unlock, User!NoOne
  <2>2. faults' \in Nat /\ lapses' \in Nat /\ lapses <= lapses'
    BY <1>t, <2>1 DEF User!TypeOK
  <2>3. CASE pc[c] \in {"list", "spawn", "poll"}
    <3>1. lock' = "none"
      BY <2>1, <2>3 DEF InvocationsSound
    <3>2. pc[c] = "poll" => Cardinality(User!Running) <= lapses'
      BY <1>t, <2>1 DEF InvocationsSound
    <3>3. pc[c] = "spawn" => Cardinality(User!Running) <= lapses'
      BY <1>t, <2>1, <2>2 DEF InvocationsSound
    <3> QED
      BY <1>4, <2>1, <2>2, <2>3, <3>1, <3>2, <3>3
  <2>4. CASE pc[c] \notin {"list", "spawn", "poll"}
    <3>1. /\ pc' \in [Callers -> {"gate", "lock", "list", "spawn", "poll", "ready", "error", "killed"}]
          /\ pc'[c] = "killed" /\ \A d \in Callers \ {c} : pc'[d] = pc[d]
      BY <2>1, GoesTo
    <3>2. User!Running' = User!Running /\ User!TypeOK' /\ lapses' = lapses
      BY <1>t, <2>1, <2>2, <2>4, <3>1 DEF User!Running, User!TypeOK, User!NoOne
    <3>3. \A d \in Callers : pc'[d] \in {"list", "spawn", "poll"} => d # c /\ pc[d] = pc'[d] /\ lock' = d
      BY <2>1, <3>1 DEF InvocationsSound
    <3> QED
      BY <1>t, <2>1, <2>4, <3>1, <3>2, <3>3 DEF InvocationsSound
  <2> QED
    BY <2>3, <2>4
<1>11. ASSUME NEW c \in Callers, User!ListFails(c) PROVE InvocationsSound'
  <2>1. /\ UNCHANGED <<plane, polls, lock, starting, ready, started>> /\ pc[c] = "list"
        /\ User!GoTo(c, "spawn") /\ faults' = faults + 1 /\ lapses' = lapses + 1
    BY <1>11 DEF User!ListFails
  <2>2. Cardinality(User!Running) <= lapses' /\ lapses' \in Nat /\ faults' \in Nat /\ lapses <= lapses'
    BY <1>t, <2>1 DEF InvocationsSound, User!TypeOK
  <2> QED
    BY <1>4, <2>1, <2>2
<1>12. ASSUME NEW i, User!Answers(i) PROVE InvocationsSound'
  <2>1. /\ i \in starting /\ starting' = starting \ {i} /\ ready' = ready \cup {i}
        /\ UNCHANGED <<plane, pc, polls, lock, started, faults, lapses>>
    BY <1>12 DEF User!Answers
  <2>2. User!Running' = User!Running /\ User!TypeOK' /\ ready' # {}
    BY <1>t, <2>1 DEF User!Running, User!TypeOK
  <2> QED
    BY <2>1, <2>2 DEF InvocationsSound
<1>13. ASSUME NEW i, User!Ends(i) PROVE InvocationsSound'
  <2>1. /\ i \in User!Running /\ starting' = starting \ {i} /\ ready' = ready \ {i} /\ faults' = faults + 1
        /\ UNCHANGED <<plane, pc, polls, lock, started, lapses>>
    BY <1>13 DEF User!Ends
  <2>2. User!Running' = User!Running \ {i} /\ User!TypeOK'
    BY <1>t, <2>1 DEF User!Running, User!TypeOK
  <2>3. IsFiniteSet(User!Running') /\ Cardinality(User!Running') = Cardinality(User!Running) - 1
    BY <1>t, <2>1, <2>2, FS_RemoveElement
  <2>4. Cardinality(User!Running') <= lapses'
    BY <1>t, <2>1, <2>3 DEF InvocationsSound
  <2>5. Cardinality(User!Running') <= 1 + lapses' /\ \A c \in Callers : pc'[c] \in {"list", "spawn", "poll"} => lock' = c
    BY <1>t, <2>1, <2>3, <2>4 DEF InvocationsSound
  <2> QED
    BY <2>2, <2>3, <2>4, <2>5 DEF InvocationsSound
<1> QED
  BY <1>1, <1>2, <1>3, <1>5, <1>6, <1>7, <1>8, <1>9, <1>10, <1>11, <1>12, <1>13
  DEF User!Next, User!Caller

LEMMA InvocationsArrive == InvocationsSound => User!TypeOK /\ User!OneDinit
  BY UserCardinality DEF InvocationsSound, User!OneDinit

-----------------------------------------------------------------------------
(* The connections of the log broker. *)

(* The instance of FiniteSets that the module has is the same one.           *)
LEMMA BrokerCardinality ==
  /\ \A S : Broker!Cardinality(S) = Cardinality(S)
  /\ \A S : Broker!IsFiniteSet(S) <=> IsFiniteSet(S)
<1>1. ASSUME NEW S PROVE Broker!Cardinality(S) = Cardinality(S)
  BY Zenon DEF Broker!Cardinality, Cardinality
<1>2. ASSUME NEW S PROVE Broker!IsFiniteSet(S) <=> IsFiniteSet(S)
  BY Zenon DEF Broker!IsFiniteSet, IsFiniteSet
<1> QED
  BY <1>1, <1>2

\* The connections that hold a slot, and those of a user among them.
Held(states) == {c \in Conns : states[c] \in Broker!Holding}
HeldBy(states, u) == {c \in Conns : states[c] \in Broker!Holding /\ UidOf(c) = u}

\* The slots that are counted are those that are held.
SlotsCounted(states, all, each) ==
  /\ states \in [Conns -> Broker!ConnStates]
  /\ all = Cardinality(Held(states))
  /\ each \in [Broker!Uids -> Nat]
  /\ \A u \in Broker!Uids : each[u] = Cardinality(HeldBy(states, u))

(* The acceptor's connection has a slot once the limiter has admitted it,    *)
(* and the shutdown closes none that has not.                                *)
ConnectionsSound ==
  /\ Broker!TypeOK
  /\ SlotsCounted(conn, total, perUid)
  /\ acceptor \in Conns => conn[acceptor] = IF checked THEN "dialed" ELSE "held"
  /\ \A c \in active : conn[c] \in {"hello", "routed", "closed"}

LEMMA HeldFinite ==
  ASSUME Broker!Parameters, NEW states
  PROVE  /\ IsFiniteSet(Held(states)) /\ Cardinality(Held(states)) \in Nat
         /\ \A u : IsFiniteSet(HeldBy(states, u)) /\ Cardinality(HeldBy(states, u)) \in Nat
<1>1. IsFiniteSet(Conns)
  BY BrokerCardinality DEF Broker!Parameters
<1>2. ASSUME NEW S \in SUBSET Conns PROVE IsFiniteSet(S) /\ Cardinality(S) \in Nat
  BY <1>1, FS_Subset, FS_CardinalityType
<1>3. Held(states) \in SUBSET Conns /\ \A u : HeldBy(states, u) \in SUBSET Conns
  BY DEF Held, HeldBy
<1> QED
  BY <1>2, <1>3

\* Who holds a slot goes on holding it: the counts stay right.
LEMMA SlotsStay ==
  ASSUME NEW s, NEW all, NEW each, SlotsCounted(s, all, each), NEW t \in [Conns -> Broker!ConnStates],
         \A c \in Conns : t[c] \in Broker!Holding <=> s[c] \in Broker!Holding
  PROVE  SlotsCounted(t, all, each)
<1>1. Held(t) = Held(s) /\ \A u : HeldBy(t, u) = HeldBy(s, u)
  BY DEF Held, HeldBy
<1> QED
  BY <1>1 DEF SlotsCounted

LEMMA SlotTaken ==
  ASSUME Broker!Parameters, NEW s, NEW all, NEW each, SlotsCounted(s, all, each),
         NEW c \in Conns, s[c] \notin Broker!Holding, NEW x \in Broker!Holding
  PROVE  SlotsCounted([s EXCEPT ![c] = x], all + 1, [each EXCEPT ![UidOf(c)] = @ + 1])
<1> DEFINE t == [s EXCEPT ![c] = x]
<1>1. t \in [Conns -> Broker!ConnStates] /\ t[c] = x /\ \A d \in Conns \ {c} : t[d] = s[d]
  BY DEF SlotsCounted, Broker!Holding, Broker!ConnStates
<1>2. Held(t) = Held(s) \cup {c} /\ c \notin Held(s)
  BY <1>1 DEF Held
<1>3. ASSUME NEW u
      PROVE  /\ u = UidOf(c) => HeldBy(t, u) = HeldBy(s, u) \cup {c} /\ c \notin HeldBy(s, u)
             /\ u # UidOf(c) => HeldBy(t, u) = HeldBy(s, u)
  BY <1>1 DEF HeldBy
<1>4. ASSUME NEW S, IsFiniteSet(S), c \notin S PROVE Cardinality(S \cup {c}) = Cardinality(S) + 1
  BY <1>4, FS_AddElement
<1>5. Cardinality(Held(t)) = all + 1
  BY <1>2, <1>4, HeldFinite DEF SlotsCounted
<1>6. UidOf(c) \in Broker!Uids
  BY DEF Broker!Uids
<1>7. [each EXCEPT ![UidOf(c)] = @ + 1] \in [Broker!Uids -> Nat]
  BY <1>6 DEF SlotsCounted
<1>8. ASSUME NEW u \in Broker!Uids
      PROVE  [each EXCEPT ![UidOf(c)] = @ + 1][u] = Cardinality(HeldBy(t, u))
  <2>1. CASE u = UidOf(c)
    <3>1. Cardinality(HeldBy(t, u)) = Cardinality(HeldBy(s, u)) + 1
      BY <1>3, <1>4, <2>1, HeldFinite
    <3> QED
      BY <1>6, <2>1, <3>1 DEF SlotsCounted
  <2>2. CASE u # UidOf(c)
    BY <1>3, <2>2 DEF SlotsCounted
  <2> QED
    BY <2>1, <2>2
<1> QED
  BY <1>1, <1>5, <1>7, <1>8 DEF SlotsCounted

LEMMA SlotGiven ==
  ASSUME Broker!Parameters, NEW s, NEW all, NEW each, SlotsCounted(s, all, each),
         NEW c \in Conns, s[c] \in Broker!Holding, NEW x \in Broker!ConnStates \ Broker!Holding
  PROVE  /\ SlotsCounted([s EXCEPT ![c] = x], all - 1, [each EXCEPT ![UidOf(c)] = @ - 1])
         /\ all > 0 /\ each[UidOf(c)] > 0
<1> DEFINE t == [s EXCEPT ![c] = x]
<1>1. t \in [Conns -> Broker!ConnStates] /\ t[c] = x /\ \A d \in Conns \ {c} : t[d] = s[d]
  BY DEF SlotsCounted
<1>2. Held(t) = Held(s) \ {c} /\ c \in Held(s)
  BY <1>1 DEF Held
<1>3. ASSUME NEW u
      PROVE  /\ u = UidOf(c) => HeldBy(t, u) = HeldBy(s, u) \ {c} /\ c \in HeldBy(s, u)
             /\ u # UidOf(c) => HeldBy(t, u) = HeldBy(s, u)
  BY <1>1 DEF HeldBy
<1>4. ASSUME NEW S, IsFiniteSet(S), c \in S
      PROVE  Cardinality(S \ {c}) = Cardinality(S) - 1 /\ Cardinality(S) > 0
  <2>1. Cardinality(S) \in Nat /\ Cardinality(S) # 0
    BY <1>4, FS_CardinalityType, FS_EmptySet
  <2>2. Cardinality(S \ {c}) = Cardinality(S) - 1
    BY <1>4, FS_RemoveElement
  <2> QED
    BY <2>1, <2>2
<1>5. Cardinality(Held(t)) = all - 1 /\ all > 0
  BY <1>2, <1>4, HeldFinite DEF SlotsCounted
<1>6. UidOf(c) \in Broker!Uids
  BY DEF Broker!Uids
<1>7. each[UidOf(c)] > 0 /\ Cardinality(HeldBy(t, UidOf(c))) = each[UidOf(c)] - 1
  <2>1. PICK u : u = UidOf(c)
    OBVIOUS
  <2>2. Cardinality(HeldBy(t, u)) = Cardinality(HeldBy(s, u)) - 1 /\ Cardinality(HeldBy(s, u)) > 0
    BY <1>3, <1>4, <2>1, HeldFinite
  <2> QED
    BY <1>6, <2>1, <2>2 DEF SlotsCounted
<1>8. [each EXCEPT ![UidOf(c)] = @ - 1] \in [Broker!Uids -> Nat]
  BY <1>6, <1>7 DEF SlotsCounted
<1>9. ASSUME NEW u \in Broker!Uids
      PROVE  [each EXCEPT ![UidOf(c)] = @ - 1][u] = Cardinality(HeldBy(t, u))
  <2>1. CASE u = UidOf(c)
    BY <1>6, <1>7, <2>1 DEF SlotsCounted
  <2>2. CASE u # UidOf(c)
    BY <1>3, <2>2 DEF SlotsCounted
  <2> QED
    BY <2>1, <2>2
<1> QED
  BY <1>1, <1>5, <1>7, <1>8, <1>9 DEF SlotsCounted

LEMMA ConnectionsBegin == ASSUME Broker!Parameters, Broker!Init PROVE ConnectionsSound
<1>1. conn \in [Conns -> Broker!ConnStates] /\ \A c \in Conns : conn[c] = "none"
  BY DEF Broker!Init, Broker!ConnStates
<1>2. Held(conn) = {} /\ \A u : HeldBy(conn, u) = {}
  BY <1>1 DEF Held, HeldBy, Broker!Holding
<1>3. Cardinality({}) = 0
  BY FS_EmptySet
<1>4. perUid \in [Broker!Uids -> Nat] /\ total = 0 /\ \A u \in Broker!Uids : perUid[u] = 0
  BY DEF Broker!Init
<1>5. SlotsCounted(conn, total, perUid)
  BY <1>1, <1>2, <1>3, <1>4 DEF SlotsCounted
<1>6. perUid \in [Broker!Uids -> 0 .. MaxPerUid] /\ total \in 0 .. MaxTotal
  BY DEF Broker!Init, Broker!Parameters
<1>7. /\ cancelled \in BOOLEAN /\ listener \in BOOLEAN /\ checked \in BOOLEAN
      /\ active = {} /\ missed = {} /\ acceptor = "accept"
  BY DEF Broker!Init
<1>8. Broker!TypeOK
  BY <1>1, <1>6, <1>7 DEF Broker!TypeOK
<1>9. acceptor \notin Conns
  BY <1>7 DEF Broker!Parameters
<1> QED
  BY <1>5, <1>7, <1>8, <1>9 DEF ConnectionsSound

\* A connection that holds a slot as much as before moves on.
LEMMA ConnectionMoves ==
  ASSUME ConnectionsSound, NEW c \in Conns, NEW x \in Broker!ConnStates, conn' = [conn EXCEPT ![c] = x],
         x \in Broker!Holding <=> conn[c] \in Broker!Holding,
         UNCHANGED <<total, perUid, cancelled, listener>>,
         checked' \in BOOLEAN, missed' \subseteq Conns, acceptor' \in Conns \cup {"accept", "wait", "done"},
         active' \subseteq Conns,
         acceptor' \in Conns => acceptor' # c /\ acceptor' = acceptor /\ checked' = checked,
         active' \subseteq active \cup {c},
         c \in active' => x \in {"hello", "routed", "closed"}
  PROVE  ConnectionsSound'
<1>1. conn' \in [Conns -> Broker!ConnStates] /\ conn'[c] = x /\ \A d \in Conns \ {c} : conn'[d] = conn[d]
  BY DEF ConnectionsSound, Broker!TypeOK
<1>2. SlotsCounted(conn', total, perUid)
  <2>1. \A d \in Conns : conn'[d] \in Broker!Holding <=> conn[d] \in Broker!Holding
    BY <1>1
  <2> QED
    BY <1>1, <2>1, SlotsStay DEF ConnectionsSound
<1>3. SlotsCounted(conn, total, perUid)'
  BY <1>2
<1>4. Broker!TypeOK'
  BY <1>1 DEF ConnectionsSound, Broker!TypeOK, Broker!ConnStates, Broker!Uids
<1>5. (acceptor \in Conns => conn[acceptor] = IF checked THEN "dialed" ELSE "held")'
  BY <1>1 DEF ConnectionsSound
<1>6. (\A d \in active : conn[d] \in {"hello", "routed", "closed"})'
  BY <1>1 DEF ConnectionsSound
<1> QED
  BY <1>3, <1>4, <1>5, <1>6 DEF ConnectionsSound

LEMMA ConnectionsGoOn ==
  ASSUME Broker!Parameters, ConnectionsSound, [Broker!Next]_Broker!vars
  PROVE  ConnectionsSound'
<1>t. /\ Broker!TypeOK /\ SlotsCounted(conn, total, perUid)
      /\ conn \in [Conns -> Broker!ConnStates]
      /\ cancelled \in BOOLEAN /\ listener \in BOOLEAN /\ checked \in BOOLEAN
      /\ active \subseteq Conns /\ missed \subseteq Conns
      /\ acceptor \in Conns \cup {"accept", "wait", "done"}
      /\ Conns \cap {"accept", "wait", "done"} = {}
  BY DEF ConnectionsSound, Broker!TypeOK, Broker!Parameters
<1>m. ASSUME UNCHANGED <<active, conn, total, perUid>>, cancelled' \in BOOLEAN, listener' \in BOOLEAN,
             missed' = missed, acceptor' \in {acceptor, "accept", "wait", "done"},
             IF acceptor' = acceptor THEN checked' = checked ELSE checked' \in BOOLEAN
      PROVE  ConnectionsSound'
  <2>1. acceptor' \in Conns => acceptor' = acceptor /\ checked' = checked
    BY <1>t, <1>m
  <2>2. SlotsCounted(conn, total, perUid)'
    BY <1>t, <1>m
  <2>3. Broker!TypeOK'
    BY <1>t, <1>m DEF Broker!TypeOK, Broker!ConnStates, Broker!Uids
  <2> QED
    BY <1>m, <2>1, <2>2, <2>3 DEF ConnectionsSound
<1>0. CASE UNCHANGED Broker!vars
  BY <1>t, <1>0, <1>m DEF Broker!vars
<1>1. ASSUME NEW c \in Conns, Broker!Dial(c) \/ Broker!Hello(c) \/ Broker!Drop(c) PROVE ConnectionsSound'
  <2>1. UNCHANGED <<cancelled, listener, active, acceptor, checked, total, perUid, missed>>
    BY <1>1 DEF Broker!Dial, Broker!Hello, Broker!Drop
  <2>2. \E x \in {"dialed", "routed", "closed"} :
          /\ conn' = [conn EXCEPT ![c] = x]
          /\ IF x = "dialed" THEN conn[c] = "none" ELSE conn[c] \in {"hello", "routed"}
    BY <1>1 DEF Broker!Dial, Broker!Hello, Broker!Drop
  <2>3. PICK x \in {"dialed", "routed", "closed"} :
          /\ conn' = [conn EXCEPT ![c] = x]
          /\ IF x = "dialed" THEN conn[c] = "none" ELSE conn[c] \in {"hello", "routed"}
    BY <2>2
  <2>4. x \in Broker!ConnStates /\ (x \in Broker!Holding <=> conn[c] \in Broker!Holding)
    BY <2>3 DEF Broker!ConnStates, Broker!Holding
  <2>5. acceptor # c \/ acceptor \notin Conns
    BY <2>3 DEF ConnectionsSound
  <2>6. c \in active => x \in {"hello", "routed", "closed"}
    BY <2>3 DEF ConnectionsSound
  <2> QED
    BY <1>t, <2>1, <2>3, <2>4, <2>5, <2>6, ConnectionMoves
<1>2. ASSUME NEW c \in Conns, Broker!Release(c) PROVE ConnectionsSound'
  <2>1. /\ UNCHANGED <<cancelled, listener, acceptor, checked, missed>> /\ active' = active \ {c}
        /\ conn[c] = "closed" /\ conn' = [conn EXCEPT ![c] = "ended"]
        /\ total' = total - 1 /\ perUid' = [perUid EXCEPT ![UidOf(c)] = @ - 1]
    BY <1>2 DEF Broker!Release
  <2>2. "ended" \in Broker!ConnStates \ Broker!Holding /\ conn[c] \in Broker!Holding
    BY <2>1 DEF Broker!ConnStates, Broker!Holding
  <2>3. SlotsCounted(conn', total', perUid') /\ total > 0 /\ perUid[UidOf(c)] > 0
    BY <1>t, <2>1, <2>2, SlotGiven
  <2>4. conn' \in [Conns -> Broker!ConnStates] /\ conn'[c] = "ended" /\ \A d \in Conns \ {c} : conn'[d] = conn[d]
    BY <1>t, <2>1, <2>2
  <2>5. total' \in 0 .. MaxTotal /\ perUid' \in [Broker!Uids -> 0 .. MaxPerUid]
    <3>1. total' \in 0 .. MaxTotal
      BY <1>t, <2>1, <2>3 DEF Broker!TypeOK, Broker!Parameters
    <3>2. perUid[UidOf(c)] - 1 \in 0 .. MaxPerUid
      BY <1>t, <2>3 DEF Broker!TypeOK, Broker!Parameters, Broker!Uids
    <3> QED
      BY <1>t, <2>1, <3>1, <3>2 DEF Broker!TypeOK
  <2>6. Broker!TypeOK'
    BY <1>t, <2>1, <2>4, <2>5 DEF Broker!TypeOK, Broker!ConnStates, Broker!Uids
  <2>7. acceptor # c \/ acceptor \notin Conns
    BY <2>1 DEF ConnectionsSound
  <2> QED
    BY <1>t, <2>1, <2>3, <2>4, <2>6, <2>7 DEF ConnectionsSound
<1>3. ASSUME Broker!Accept PROVE ConnectionsSound'
  <2>1. UNCHANGED <<cancelled, listener, active, total, perUid, missed>> /\ acceptor = "accept"
    BY <1>3 DEF Broker!Accept
  <2>2. ASSUME NEW c \in Conns, conn[c] = "dialed", conn' = [conn EXCEPT ![c] = "refused"],
               acceptor' \in {"accept", "wait"}, checked' \in BOOLEAN
        PROVE  ConnectionsSound'
    <3>1. "refused" \in Broker!ConnStates /\ "refused" \notin Broker!Holding /\ conn[c] \notin Broker!Holding
      BY <2>2 DEF Broker!ConnStates, Broker!Holding
    <3>2. c \notin active /\ acceptor' \notin Conns
      BY <1>t, <2>2 DEF ConnectionsSound
    <3> QED
      BY <1>t, <2>1, <2>2, <3>1, <3>2, ConnectionMoves
  <2>3. ASSUME NEW c \in Conns, conn[c] = "dialed", acceptor' = c, checked' = TRUE, conn' = conn
        PROVE  ConnectionsSound'
    <3>1. Broker!TypeOK' /\ SlotsCounted(conn, total, perUid)'
      BY <1>t, <2>1, <2>3 DEF Broker!TypeOK, Broker!ConnStates, Broker!Uids
    <3> QED
      BY <2>1, <2>3, <3>1 DEF ConnectionsSound
  <2>4. ASSUME acceptor' = "wait", checked' = checked, conn' = conn PROVE ConnectionsSound'
    BY <1>t, <1>m, <2>1, <2>4
  <2> QED
    BY <1>3, <1>t, <2>1, <2>2, <2>3, <2>4 DEF Broker!Accept
<1>4. ASSUME Broker!Acquire PROVE ConnectionsSound'
  <2>1. PICK c \in Conns : c = acceptor
    BY <1>4 DEF Broker!Acquire
  <2>2. /\ UNCHANGED <<cancelled, listener, active, missed>> /\ checked /\ checked' = FALSE
        /\ conn[c] = "dialed" /\ c \notin active
    BY <1>4, <2>1 DEF Broker!Acquire, ConnectionsSound
  <2>3. CASE Broker!Admits(UidOf(c))
    <3>1. /\ total' = total + 1 /\ perUid' = [perUid EXCEPT ![UidOf(c)] = @ + 1]
          /\ conn' = [conn EXCEPT ![c] = "held"] /\ acceptor' = c
      BY <1>4, <2>1, <2>3 DEF Broker!Acquire
    <3>2. "held" \in Broker!Holding /\ "held" \in Broker!ConnStates /\ conn[c] \notin Broker!Holding
      BY <2>2 DEF Broker!Holding, Broker!ConnStates
    <3>3. SlotsCounted(conn', total', perUid')
      BY <1>t, <3>1, <3>2, SlotTaken
    <3>4. conn' \in [Conns -> Broker!ConnStates] /\ conn'[c] = "held" /\ \A d \in Conns \ {c} : conn'[d] = conn[d]
      BY <1>t, <3>1, <3>2
    <3>5. total' \in 0 .. MaxTotal /\ perUid' \in [Broker!Uids -> 0 .. MaxPerUid]
      <4>1. total' \in 0 .. MaxTotal
        BY <1>t, <2>3, <3>1 DEF Broker!Admits, Broker!TypeOK, Broker!Parameters
      <4>2. perUid[UidOf(c)] + 1 \in 0 .. MaxPerUid
        BY <1>t, <2>3 DEF Broker!Admits, Broker!TypeOK, Broker!Parameters, Broker!Uids
      <4> QED
        BY <1>t, <3>1, <4>1, <4>2 DEF Broker!TypeOK
    <3>6. Broker!TypeOK'
      BY <1>t, <2>2, <3>1, <3>4, <3>5 DEF Broker!TypeOK, Broker!ConnStates, Broker!Uids
    <3> QED
      BY <2>2, <3>1, <3>3, <3>4, <3>6 DEF ConnectionsSound
  <2>4. CASE ~Broker!Admits(UidOf(c))
    <3>1. /\ conn' = [conn EXCEPT ![c] = "refused"] /\ acceptor' = "accept" /\ UNCHANGED <<total, perUid>>
      BY <1>4, <2>1, <2>4 DEF Broker!Acquire
    <3>2. "refused" \in Broker!ConnStates /\ "refused" \notin Broker!Holding /\ conn[c] \notin Broker!Holding
      BY <2>2 DEF Broker!ConnStates, Broker!Holding
    <3>3. acceptor' \notin Conns
      BY <1>t, <3>1
    <3> QED
      BY <1>t, <2>2, <3>1, <3>2, <3>3, ConnectionMoves
  <2> QED
    BY <2>3, <2>4
<1>5. ASSUME Broker!Register PROVE ConnectionsSound'
  <2>1. PICK c \in Conns : c = acceptor
    BY <1>5 DEF Broker!Register
  <2>2. /\ UNCHANGED <<cancelled, listener, checked, total, perUid>> /\ conn[c] = "held"
        /\ active' = active \cup {c} /\ conn' = [conn EXCEPT ![c] = "hello"] /\ acceptor' = "accept"
        /\ missed' \subseteq Conns
    BY <1>5, <1>t, <2>1 DEF Broker!Register, ConnectionsSound
  <2>3. "hello" \in Broker!ConnStates /\ "hello" \in Broker!Holding /\ conn[c] \in Broker!Holding
    BY <2>2 DEF Broker!ConnStates, Broker!Holding
  <2>4. acceptor' \notin Conns
    BY <1>t, <2>2
  <2> QED
    BY <1>t, <2>2, <2>3, <2>4, ConnectionMoves
<1>6. ASSUME Broker!Return PROVE ConnectionsSound'
  BY <1>6, <1>t, <1>m DEF Broker!Return
<1>7. ASSUME Broker!Cancel PROVE ConnectionsSound'
  BY <1>7, <1>t, <1>m DEF Broker!Cancel
<1>8. ASSUME Broker!CloseAll PROVE ConnectionsSound'
  <2>1. /\ UNCHANGED <<cancelled, active, acceptor, checked, total, perUid, missed>> /\ listener' = FALSE
        /\ conn' = [c \in Conns |-> IF c \in active THEN "closed" ELSE conn[c]]
    BY <1>8 DEF Broker!CloseAll
  <2>2. "closed" \in Broker!ConnStates /\ "closed" \in Broker!Holding
    BY DEF Broker!ConnStates, Broker!Holding
  <2>3. conn' \in [Conns -> Broker!ConnStates]
    BY <1>t, <2>1, <2>2
  <2>4. \A c \in Conns : conn'[c] = IF c \in active THEN "closed" ELSE conn[c]
    BY <2>1
  <2>5. \A c \in active : conn[c] \in Broker!Holding /\ conn[c] \notin {"dialed", "held"}
    BY DEF ConnectionsSound, Broker!Holding
  <2>6. \A c \in Conns : conn'[c] \in Broker!Holding <=> conn[c] \in Broker!Holding
    BY <2>2, <2>4, <2>5
  <2>7. SlotsCounted(conn', total, perUid)
    BY <1>t, <2>3, <2>6, SlotsStay
  <2>8. SlotsCounted(conn, total, perUid)'
    BY <2>1, <2>7
  <2>9. Broker!TypeOK'
    BY <1>t, <2>1, <2>3 DEF Broker!TypeOK, Broker!ConnStates, Broker!Uids
  <2>10. acceptor \in Conns => acceptor \notin active
    BY <2>5 DEF ConnectionsSound
  <2> QED
    BY <1>t, <2>1, <2>4, <2>8, <2>9, <2>10 DEF ConnectionsSound
<1> QED
  BY <1>0, <1>1, <1>2, <1>3, <1>4, <1>5, <1>6, <1>7, <1>8 DEF Broker!Next

LEMMA ConnectionsArrive == ConnectionsSound => Broker!TypeOK /\ Broker!SlotsExact
<1> SUFFICES ASSUME ConnectionsSound PROVE Broker!TypeOK /\ Broker!SlotsExact
  OBVIOUS
<1>1. Broker!Cardinality({c \in Conns : conn[c] \in Broker!Holding}) = total
  BY BrokerCardinality DEF ConnectionsSound, SlotsCounted, Held
<1>2. ASSUME NEW u \in Broker!Uids
      PROVE  perUid[u] = Broker!Cardinality({c \in Conns : conn[c] \in Broker!Holding /\ UidOf(c) = u})
  BY BrokerCardinality DEF ConnectionsSound, SlotsCounted, HeldBy
<1> QED
  BY <1>1, <1>2 DEF ConnectionsSound, Broker!SlotsExact

-----------------------------------------------------------------------------
(* servicectl-api. *)

StreamRecords ==
  [state : {"none", "subscribed", "dropped", "gone"}, sent : Nat, ch : Seq(Nat), got : Nat, closes : Nat]

(* What a stream has yet to write follows what it has written, and reaches   *)
(* what was published as long as it is subscribed; its channel is closed     *)
(* once.                                                                     *)
StreamSound(s) ==
  /\ s \in StreamRecords
  /\ Len(s.ch) <= Cap
  /\ \A i \in 1 .. Len(s.ch) : s.ch[i] = s.got + i
  /\ s.state \in {"none", "subscribed"} => s.got + Len(s.ch) = s.sent
  /\ s.closes = IF s.state \in {"dropped", "gone"} THEN 1 ELSE 0

StreamsSound == subs \in [Streams -> StreamRecords] /\ \A w \in Streams : StreamSound(subs[w])

Scans == [by : Clients \cup {"main", "none"}, todo : SUBSET Services, found : SUBSET Services]
Reports == [unit : Services, present : BOOLEAN]

ListsSound ==
  /\ running \subseteq Services /\ runners \subseteq Services
  /\ refresh \in Scans /\ datagrams \in Seq(Reports)

(* Startup goes on from its refresh only when that has succeeded, and nobody *)
(* else's refresh is taken for it.                                           *)
StartupSound ==
  /\ main \in {"refresh", "sockets", "ready", "failed", "ended"}
  /\ main \in {"sockets", "ready"} => refreshed
  /\ main = "ready" => sockets = {"ingress", "api"}
  /\ waiting \subseteq Clients \cup {"main"}
  /\ refresh.by = "main" \/ "main" \in waiting => main = "refresh"
  /\ ~(refresh.by = "main" /\ "main" \in waiting)

ServerSound == ListsSound /\ StartupSound /\ StreamsSound

\* The sequence that follows g, as the channel of a stream that has written g.
Follows(q, g) == \A i \in 1 .. Len(q) : q[i] = g + i

LEMMA FollowsAppend ==
  ASSUME NEW q \in Seq(Nat), NEW g \in Nat, Follows(q, g), NEW k \in Nat, g + Len(q) + 1 = k
  PROVE  /\ Append(q, k) \in Seq(Nat) /\ Len(Append(q, k)) = Len(q) + 1
         /\ Follows(Append(q, k), g)
<1>0. PICK r : r = Append(q, k)
  OBVIOUS
<1>1. /\ r \in Seq(Nat) /\ Len(r) = Len(q) + 1 /\ Len(q) \in Nat /\ r[Len(q) + 1] = k
      /\ \A i \in 1 .. Len(q) : r[i] = q[i]
  BY <1>0
<1>2. ASSUME NEW i \in 1 .. Len(r) PROVE r[i] = g + i
  <2>1. CASE i \in 1 .. Len(q)
    BY <1>1, <2>1 DEF Follows
  <2>2. CASE i = Len(q) + 1
    <3>1. g + i = k
      BY <1>1, <2>2
    <3> QED
      BY <1>1, <2>2, <3>1
  <2> QED
    BY <1>1, <2>1, <2>2
<1>3. Follows(r, g)
  BY <1>2 DEF Follows
<1> QED
  BY <1>0, <1>1, <1>3

LEMMA FollowsTail ==
  ASSUME NEW q \in Seq(Nat), NEW g \in Nat, Follows(q, g), q # <<>>, NEW r, r = Tail(q)
  PROVE  /\ r \in Seq(Nat) /\ Len(r) = Len(q) - 1 /\ Head(q) = g + 1
         /\ Follows(r, g + 1) /\ (g + 1) + Len(r) = g + Len(q)
<1>1. /\ r \in Seq(Nat) /\ Len(r) = Len(q) - 1 /\ Len(q) \in Nat \ {0} /\ Head(q) = q[1]
      /\ \A i \in 1 .. Len(r) : r[i] = q[i + 1]
  OBVIOUS
<1>2. Head(q) = g + 1
  BY <1>1 DEF Follows
<1>3. ASSUME NEW i \in 1 .. Len(r) PROVE r[i] = (g + 1) + i
  <2>1. i + 1 \in 1 .. Len(q) /\ i \in Nat
    BY <1>1
  <2>2. r[i] = g + (i + 1)
    BY <1>1, <2>1 DEF Follows
  <2> QED
    BY <2>1, <2>2
<1> QED
  BY <1>1, <1>2, <1>3 DEF Follows

LEMMA StreamFields ==
  ASSUME NEW s, StreamSound(s)
  PROVE  /\ s \in StreamRecords /\ s.ch \in Seq(Nat) /\ s.sent \in Nat /\ s.got \in Nat /\ s.closes \in Nat
         /\ Len(s.ch) \in Nat /\ Len(s.ch) <= Cap /\ Follows(s.ch, s.got)
<1>1. s \in StreamRecords /\ Len(s.ch) <= Cap /\ Follows(s.ch, s.got)
  BY DEF StreamSound, Follows
<1>2. s.ch \in Seq(Nat) /\ s.sent \in Nat /\ s.got \in Nat /\ s.closes \in Nat
  BY <1>1 DEF StreamRecords
<1> QED
  BY <1>1, <1>2

LEMMA PublishKeeps == ASSUME Api!Parameters, NEW s, StreamSound(s) PROVE StreamSound(Api!Publish(s))
<1>0. /\ s \in StreamRecords /\ s.ch \in Seq(Nat) /\ s.sent \in Nat /\ s.got \in Nat /\ s.closes \in Nat
      /\ Len(s.ch) \in Nat /\ Len(s.ch) <= Cap /\ Follows(s.ch, s.got)
  BY StreamFields
<1>c. Cap \in Nat
  BY DEF Api!Parameters
<1>1. CASE s.state # "subscribed"
  BY <1>1 DEF Api!Publish
<1>2. CASE s.state = "subscribed" /\ Len(s.ch) < Cap
  <2>1. PICK q : q = Append(s.ch, s.sent + 1)
    OBVIOUS
  <2>2. s.got + Len(s.ch) = s.sent /\ s.closes = 0
    BY <1>2 DEF StreamSound
  <2>3. q \in Seq(Nat) /\ Len(q) = Len(s.ch) + 1 /\ Follows(q, s.got) /\ s.got + Len(q) = s.sent + 1
    <3>1. PICK c \in Seq(Nat) : c = s.ch
      BY <1>0
    <3>2. PICK g \in Nat : g = s.got
      BY <1>0
    <3>3. PICK m \in Nat : m = s.sent
      BY <1>0
    <3>4. PICK k \in Nat : k = m + 1
      OBVIOUS
    <3>5. c \in Seq(Nat) /\ g \in Nat /\ k \in Nat /\ Follows(c, g)
      BY <1>0, <3>1, <3>2
    <3>6. g + Len(c) + 1 = k
      BY <1>0, <2>2, <3>1, <3>2, <3>3, <3>4
    <3>7. /\ Append(c, k) \in Seq(Nat) /\ Len(Append(c, k)) = Len(c) + 1
          /\ Follows(Append(c, k), g)
      BY <3>5, <3>6, FollowsAppend
    <3>8. q = Append(c, k)
      BY <2>1, <3>1, <3>3, <3>4
    <3>9. g + (Len(c) + 1) = k
      <4>1. Len(c) \in Nat
        BY <3>5
      <4> QED
        BY <3>5, <3>6, <4>1
    <3> QED
      BY <3>1, <3>2, <3>3, <3>4, <3>7, <3>8, <3>9
  <2>4. PICK m \in Nat : m = s.sent + 1
    BY <1>0
  <2>5. PICK x : x = [s EXCEPT !.sent = m, !.ch = q]
    OBVIOUS
  <2>6. Api!Publish(s) = x
    BY <1>2, <2>1, <2>4, <2>5 DEF Api!Publish
  <2>7. /\ x \in StreamRecords /\ x.state = s.state /\ x.sent = m /\ x.ch = q /\ x.got = s.got
        /\ x.closes = s.closes
    BY <1>0, <2>3, <2>4, <2>5 DEF StreamRecords
  <2>8. Len(q) <= Cap /\ s.got + Len(q) = m
    <3>1. \A n : n = Len(s.ch) /\ Len(q) = n + 1 => Len(q) <= Cap
      BY <1>0, <1>c, <1>2
    <3> QED
      BY <2>3, <2>4, <3>1
  <2> QED
    BY <1>2, <2>2, <2>3, <2>6, <2>7, <2>8 DEF StreamSound, Follows
<1>3. CASE s.state = "subscribed" /\ ~(Len(s.ch) < Cap)
  <2>1. s.closes = 0
    BY <1>3 DEF StreamSound
  <2>2. PICK m \in Nat : m = s.sent + 1
    BY <1>0
  <2>3. PICK x : x = [s EXCEPT !.sent = m, !.state = "dropped", !.closes = 1]
    OBVIOUS
  <2>4. Api!Publish(s) = x
    BY <1>3, <2>1, <2>2, <2>3 DEF Api!Publish
  <2>5. x \in StreamRecords /\ x.state = "dropped" /\ x.ch = s.ch /\ x.got = s.got /\ x.closes = 1
    BY <1>0, <2>2, <2>3 DEF StreamRecords
  <2> QED
    BY <1>0, <2>4, <2>5 DEF StreamSound, Follows
<1> QED
  BY <1>1, <1>2, <1>3

LEMMA UnsubscribeKeeps ==
  ASSUME NEW s, StreamSound(s), s.state \in {"subscribed", "dropped"}
  PROVE  StreamSound(Api!Unsubscribe(s))
<1>0. s \in StreamRecords /\ s.closes \in Nat
  BY StreamFields
<1>1. s.closes = IF s.state = "subscribed" THEN 0 ELSE 1
  BY DEF StreamSound
<1>2. (IF s.state = "subscribed" THEN s.closes + 1 ELSE s.closes) = 1
  BY <1>1
<1>3. PICK x : x = [s EXCEPT !.state = "gone", !.closes = 1]
  OBVIOUS
<1>4. Api!Unsubscribe(s) = x
  BY <1>2, <1>3 DEF Api!Unsubscribe
<1>5. x \in StreamRecords /\ x.state = "gone" /\ x.ch = s.ch /\ x.got = s.got /\ x.closes = 1
  BY <1>0, <1>3 DEF StreamRecords
<1> QED
  BY <1>4, <1>5 DEF StreamSound

LEMMA WriteKeeps ==
  ASSUME NEW s, StreamSound(s), s.ch # <<>>,
         NEW x, x = [s EXCEPT !.ch = Tail(@), !.got = Head(s.ch)]
  PROVE  StreamSound(x)
<1>0. /\ s \in StreamRecords /\ s.ch \in Seq(Nat) /\ s.sent \in Nat /\ s.got \in Nat
      /\ Len(s.ch) \in Nat /\ Len(s.ch) <= Cap /\ Follows(s.ch, s.got)
  BY StreamFields
<1>1. PICK q : q = Tail(s.ch)
  OBVIOUS
<1>2. PICK g \in Nat : g = s.got + 1
  BY <1>0
<1>3. /\ q \in Seq(Nat) /\ Len(q) = Len(s.ch) - 1 /\ Head(s.ch) = g
      /\ Follows(q, g) /\ g + Len(q) = s.got + Len(s.ch)
  <2>1. PICK c \in Seq(Nat) : c = s.ch
    BY <1>0
  <2>2. PICK h \in Nat : h = s.got
    BY <1>0
  <2>3. Follows(c, h) /\ c # <<>> /\ q = Tail(c)
    BY <1>0, <1>1, <2>1, <2>2
  <2>4. /\ q \in Seq(Nat) /\ Len(q) = Len(c) - 1 /\ Head(c) = h + 1
        /\ Follows(q, h + 1) /\ (h + 1) + Len(q) = h + Len(c)
    BY <2>3, FollowsTail
  <2> QED
    BY <1>2, <2>1, <2>2, <2>4
<1>4. x = [s EXCEPT !.ch = q, !.got = g]
  BY <1>1, <1>3
<1>5. /\ x \in StreamRecords /\ x.state = s.state /\ x.ch = q /\ x.got = g
      /\ x.closes = s.closes /\ x.sent = s.sent
  BY <1>0, <1>2, <1>3, <1>4 DEF StreamRecords
<1>6. Len(q) <= Cap
  <2>1. Cap \in Nat
    BY DaemonAssumption DEF Api!Parameters
  <2>2. \A n, k : n \in Nat /\ n <= Cap /\ k = n - 1 => k <= Cap
    BY <2>1
  <2> QED
    BY <1>0, <1>3, <2>2
<1> QED
  BY <1>3, <1>5, <1>6 DEF StreamSound, Follows

\* One stream changes.
LEMMA StreamChanges ==
  ASSUME StreamsSound, NEW w \in Streams, NEW x, StreamSound(x), subs' = [subs EXCEPT ![w] = x]
  PROVE  StreamsSound'
<1>1. x \in StreamRecords
  BY DEF StreamSound
<1>2. subs' \in [Streams -> StreamRecords] /\ subs'[w] = x /\ \A v \in Streams \ {w} : subs'[v] = subs[v]
  BY <1>1 DEF StreamsSound
<1>3. ASSUME NEW v \in Streams PROVE StreamSound(subs'[v])
  BY <1>2 DEF StreamsSound
<1>4. ASSUME NEW v \in Streams PROVE StreamSound(subs[v])'
  BY <1>3 DEF StreamSound, StreamRecords
<1> QED
  BY <1>2, <1>4 DEF StreamsSound, StreamRecords

LEMMA PublishEventKeeps == ASSUME Api!Parameters, StreamsSound, Api!PublishEvent PROVE StreamsSound'
<1>1. ASSUME NEW w \in Streams PROVE StreamSound(subs'[w]) /\ subs'[w] \in StreamRecords
  <2>1. subs'[w] = Api!Publish(subs[w])
    BY DEF Api!PublishEvent
  <2>2. StreamSound(subs'[w])
    BY <2>1, PublishKeeps DEF StreamsSound
  <2> QED
    BY <2>2 DEF StreamSound
<1>2. subs' \in [Streams -> StreamRecords]
  <2>1. subs' = [w \in Streams |-> subs'[w]]
    BY DEF Api!PublishEvent
  <2> QED
    BY <1>1, <2>1
<1>3. ASSUME NEW w \in Streams PROVE StreamSound(subs[w])'
  BY <1>1 DEF StreamSound, StreamRecords
<1> QED
  BY <1>2, <1>3 DEF StreamsSound, StreamRecords

LEMMA StreamsStay == ASSUME StreamsSound, subs' = subs PROVE StreamsSound'
  BY DEF StreamsSound, StreamSound, StreamRecords

LEMMA ServerBegins == ASSUME Api!Parameters, Api!Init PROVE ServerSound
<1>1. ListsSound
  <2>1. refresh \in Scans
    BY DEF Api!Init, Api!NoRefresh, Scans
  <2>2. datagrams \in Seq(Reports)
    BY DEF Api!Init
  <2> QED
    BY <2>1, <2>2 DEF Api!Init, ListsSound
<1>2. StartupSound
  BY DEF Api!Init, Api!NoRefresh, StartupSound
<1>3. StreamsSound
  <2>1. PICK e : e = <<>>
    OBVIOUS
  <2>2. e \in Seq(Nat) /\ Len(e) = 0
    BY <2>1
  <2>3. PICK x : x = [state |-> "none", sent |-> 0, ch |-> e, got |-> 0, closes |-> 0]
    OBVIOUS
  <2>4. x \in StreamRecords /\ x.state = "none" /\ x.sent = 0 /\ x.ch = e /\ x.got = 0 /\ x.closes = 0
    BY <2>2, <2>3 DEF StreamRecords
  <2>5. StreamSound(x)
    BY <2>2, <2>4 DEF StreamSound, Api!Parameters
  <2>6. subs = [w \in Streams |-> x]
    BY <2>1, <2>3 DEF Api!Init
  <2> QED
    BY <2>4, <2>5, <2>6 DEF StreamsSound
<1> QED
  BY <1>1, <1>2, <1>3 DEF ServerSound

\* A step that leaves startup and the refreshes alone.
LEMMA StartupStays ==
  ASSUME StartupSound, UNCHANGED <<main, sockets, refreshed, waiting>>, refresh'.by = refresh.by
  PROVE  StartupSound'
  BY DEF StartupSound

LEMMA ListedIn ==
  ASSUME ListsSound, NEW u \in Services, NEW present
  PROVE  Api!Listed(u, present) \subseteq Services
  BY DEF ListsSound, Api!Listed

LEMMA ServerGoesOn ==
  ASSUME Api!Parameters, ServerSound, [Api!Next]_Api!vars
  PROVE  ServerSound'
<1> USE DEF Api!env, Api!startup, Api!lists
<1>t. /\ ListsSound /\ StartupSound /\ StreamsSound
      /\ running \subseteq Services /\ runners \subseteq Services
      /\ refresh \in Scans /\ datagrams \in Seq(Reports)
  BY DEF ServerSound, ListsSound
<1>0. CASE UNCHANGED Api!vars
  <2>1. UNCHANGED <<running, runners, main, sockets, refreshed, refresh, waiting, datagrams, subs>>
    BY <1>0 DEF Api!vars
  <2>2. ListsSound'
    BY <1>t, <2>1 DEF ListsSound, Scans, Reports
  <2> QED
    BY <1>t, <2>1, <2>2, StartupStays, StreamsStay DEF ServerSound
<1>1. ASSUME NEW u \in Services, Api!Change(u) PROVE ServerSound'
  <2>1. /\ UNCHANGED <<runners, main, sockets, refreshed, refresh, waiting, subs>>
        /\ running' \subseteq Services
        /\ \/ datagrams' = datagrams
           \/ datagrams' = Append(datagrams, [unit |-> u, present |-> u \in running'])
    BY <1>1, <1>t DEF Api!Change
  <2>2. PICK now : now = running'
    OBVIOUS
  <2>3. PICK d : d = [unit |-> u, present |-> u \in now]
    OBVIOUS
  <2>4. d \in Reports
    BY <2>3 DEF Reports
  <2>5. datagrams' = datagrams \/ datagrams' = Append(datagrams, d)
    BY <2>1, <2>2, <2>3
  <2>6. datagrams' \in Seq(Reports)
    BY <1>t, <2>4, <2>5
  <2>7. ListsSound'
    BY <1>t, <2>1, <2>6 DEF ListsSound, Scans, Reports
  <2> QED
    BY <1>t, <2>1, <2>7, StartupStays, StreamsStay DEF ServerSound
<1>2. ASSUME NEW w \in Streams, Api!Subscribe(w) \/ Api!StreamWrite(w) \/ Api!StreamEnd(w) PROVE ServerSound'
  <2>1. UNCHANGED <<running, runners, main, sockets, refreshed, refresh, waiting, datagrams>>
    BY <1>2 DEF Api!Subscribe, Api!StreamWrite, Api!StreamEnd
  <2>2. ListsSound'
    BY <1>t, <2>1 DEF ListsSound, Scans, Reports
  <2>3. StreamSound(subs[w]) /\ subs[w] \in StreamRecords
    BY <1>t DEF StreamsSound
  <2>4. CASE Api!Subscribe(w)
    <3>1. subs[w].state = "none" /\ subs' = [subs EXCEPT ![w].state = "subscribed"]
      BY <2>4 DEF Api!Subscribe
    <3>2. PICK x : x = [subs[w] EXCEPT !.state = "subscribed"]
      OBVIOUS
    <3>3. subs' = [subs EXCEPT ![w] = x]
      BY <3>1, <3>2
    <3>4. /\ x \in StreamRecords /\ x.state = "subscribed" /\ x.ch = subs[w].ch /\ x.got = subs[w].got
          /\ x.closes = subs[w].closes /\ x.sent = subs[w].sent
      BY <2>3, <3>2 DEF StreamRecords
    <3>5. StreamSound(x)
      BY <2>3, <3>1, <3>4 DEF StreamSound
    <3> QED
      BY <1>t, <2>1, <2>2, <3>3, <3>5, StartupStays, StreamChanges DEF ServerSound
  <2>5. CASE Api!StreamWrite(w)
    <3>1. subs[w].ch # <<>> /\ subs' = [subs EXCEPT ![w].ch = Tail(@), ![w].got = Head(subs[w].ch)]
      BY <2>5 DEF Api!StreamWrite
    <3>2. PICK x : x = [subs[w] EXCEPT !.ch = Tail(@), !.got = Head(subs[w].ch)]
      OBVIOUS
    <3>3. subs' = [subs EXCEPT ![w] = x]
      BY <1>t, <3>1, <3>2 DEF StreamsSound
    <3>4. StreamSound(x)
      BY <2>3, <3>1, <3>2, WriteKeeps
    <3> QED
      BY <1>t, <2>1, <2>2, <3>3, <3>4, StartupStays, StreamChanges DEF ServerSound
  <2>6. CASE Api!StreamEnd(w)
    <3>1. subs[w].state \in {"subscribed", "dropped"} /\ subs' = [subs EXCEPT ![w] = Api!Unsubscribe(@)]
      BY <2>6 DEF Api!StreamEnd
    <3>2. StreamSound(Api!Unsubscribe(subs[w]))
      BY <2>3, <3>1, UnsubscribeKeeps
    <3>3. PICK x : x = Api!Unsubscribe(subs[w])
      OBVIOUS
    <3>4. subs' = [subs EXCEPT ![w] = x]
      BY <3>1, <3>3
    <3> QED
      BY <1>t, <2>1, <2>2, <3>2, <3>3, <3>4, StartupStays, StreamChanges DEF ServerSound
  <2> QED
    BY <1>2, <2>4, <2>5, <2>6
<1>3. ASSUME NEW c \in Clients, Api!Request(c) PROVE ServerSound'
  <2>1. /\ UNCHANGED <<running, runners, main, sockets, refreshed, refresh, datagrams, subs>>
        /\ waiting' = waiting \cup {c} /\ c # "main"
    BY <1>3 DEF Api!Request, Api!Parameters
  <2>2. ListsSound'
    BY <1>t, <2>1 DEF ListsSound, Scans, Reports
  <2>3. StartupSound'
    BY <1>t, <2>1 DEF StartupSound
  <2> QED
    BY <1>t, <2>1, <2>2, <2>3, StreamsStay DEF ServerSound
<1>4. ASSUME NEW c \in Clients \cup {"main"}, Api!Lock(c) PROVE ServerSound'
  <2>1. /\ UNCHANGED <<running, runners, main, sockets, refreshed, datagrams, subs>>
        /\ c \in waiting /\ waiting' = waiting \ {c}
        /\ refresh' = [by |-> c, todo |-> Services, found |-> {}]
    BY <1>4 DEF Api!Lock
  <2>2. refresh' \in Scans /\ refresh'.by = c
    BY <2>1 DEF Scans
  <2>3. ListsSound'
    BY <1>t, <2>1, <2>2 DEF ListsSound, Scans, Reports
  <2>4. StartupSound'
    BY <1>t, <2>1, <2>2 DEF StartupSound
  <2> QED
    BY <1>t, <2>1, <2>3, <2>4, StreamsStay DEF ServerSound
<1>5. ASSUME Api!Ingress PROVE ServerSound'
  <2>1. /\ UNCHANGED <<running, main, sockets, refreshed, refresh, waiting>>
        /\ datagrams # <<>> /\ datagrams' = Tail(datagrams) /\ Api!PublishEvent
        /\ runners' = runners \/ runners' = Api!Listed(Head(datagrams).unit, Head(datagrams).present)
    BY <1>5 DEF Api!Ingress
  <2>2. Head(datagrams) \in Reports /\ datagrams' \in Seq(Reports)
    BY <1>t, <2>1
  <2>3. Head(datagrams).unit \in Services
    BY <2>2 DEF Reports
  <2>4. runners' \subseteq Services
    BY <1>t, <2>1, <2>3, ListedIn
  <2>5. ListsSound'
    BY <1>t, <2>1, <2>2, <2>4 DEF ListsSound, Scans, Reports
  <2> QED
    BY <1>t, <2>1, <2>5, StartupStays, PublishEventKeeps DEF ServerSound
<1>6. ASSUME Api!Snapshot \/ Api!SnapshotFails \/ Api!RowsWritten \/ Api!Tick \/ Api!DinitEvent
      PROVE  ServerSound'
  <2>1. /\ UNCHANGED <<running, runners, main, sockets, refreshed, refresh, waiting, datagrams>>
        /\ Api!PublishEvent \/ subs' = subs
    BY <1>6 DEF Api!Snapshot, Api!SnapshotFails, Api!RowsWritten, Api!Tick, Api!DinitEvent
  <2>2. ListsSound'
    BY <1>t, <2>1 DEF ListsSound, Scans, Reports
  <2> QED
    BY <1>t, <2>1, <2>2, StartupStays, StreamsStay, PublishEventKeeps DEF ServerSound
<1>7. ASSUME NEW u \in Services, Api!WriteRow(u) PROVE ServerSound'
  <2>1. /\ UNCHANGED <<running, main, sockets, refreshed, refresh, waiting, datagrams, subs>>
        /\ runners' = runners \/ \E b : runners' = Api!Listed(u, b)
    BY <1>7 DEF Api!WriteRow
  <2>2. runners' \subseteq Services
    BY <1>t, <2>1, ListedIn
  <2>3. ListsSound'
    BY <1>t, <2>1, <2>2 DEF ListsSound, Scans, Reports
  <2> QED
    BY <1>t, <2>1, <2>3, StartupStays, StreamsStay DEF ServerSound
<1>8. ASSUME NEW u \in Services, Api!ScanRunnerUnit(u) PROVE ServerSound'
  <2>1. /\ UNCHANGED <<running, runners, main, sockets, refreshed, waiting, datagrams, subs>>
        /\ refresh' = [refresh EXCEPT !.todo = @ \ {u},
                                      !.found = IF u \in running THEN @ \cup {u} ELSE @]
    BY <1>8 DEF Api!ScanRunnerUnit
  <2>2. refresh' \in Scans /\ refresh'.by = refresh.by
    BY <1>t, <2>1 DEF Scans
  <2>3. ListsSound'
    BY <1>t, <2>1, <2>2 DEF ListsSound, Scans, Reports
  <2> QED
    BY <1>t, <2>1, <2>2, <2>3, StartupStays, StreamsStay DEF ServerSound
<1>9. ASSUME Api!ReplaceRunnerList PROVE ServerSound'
  <2>1. /\ UNCHANGED <<running, sockets, waiting, datagrams, subs>>
        /\ runners' = refresh.found /\ refresh' = [by |-> "none", todo |-> {}, found |-> {}] /\ refreshed' = TRUE
        /\ main' = IF refresh.by = "main" THEN "sockets" ELSE main
    BY <1>9 DEF Api!ReplaceRunnerList, Api!NoRefresh
  <2>2. refresh' \in Scans /\ refresh'.by = "none" /\ runners' \subseteq Services
    BY <1>t, <2>1 DEF Scans
  <2>3. ListsSound'
    BY <1>t, <2>1, <2>2 DEF ListsSound, Scans, Reports
  <2>4. StartupSound'
    BY <1>t, <2>1, <2>2 DEF StartupSound
  <2> QED
    BY <1>t, <2>1, <2>3, <2>4, StreamsStay DEF ServerSound
<1>10. ASSUME Api!RefreshFails PROVE ServerSound'
  <2>1. /\ UNCHANGED <<running, runners, sockets, refreshed, waiting, datagrams, subs>>
        /\ refresh' = [by |-> "none", todo |-> {}, found |-> {}]
        /\ main' = IF refresh.by = "main" THEN "failed" ELSE main
    BY <1>10 DEF Api!RefreshFails, Api!NoRefresh
  <2>2. refresh' \in Scans /\ refresh'.by = "none"
    BY <2>1 DEF Scans
  <2>3. ListsSound'
    BY <1>t, <2>1, <2>2 DEF ListsSound, Scans, Reports
  <2>4. StartupSound'
    BY <1>t, <2>1, <2>2 DEF StartupSound
  <2> QED
    BY <1>t, <2>1, <2>3, <2>4, StreamsStay DEF ServerSound
<1>11. ASSUME NEW s \in {"ingress", "api"}, Api!Listen(s) PROVE ServerSound'
  <2>1. /\ UNCHANGED <<running, runners, main, refreshed, refresh, waiting, datagrams, subs>> /\ main = "sockets"
    BY <1>11 DEF Api!Listen
  <2>2. ListsSound'
    BY <1>t, <2>1 DEF ListsSound, Scans, Reports
  <2>3. StartupSound'
    BY <1>t, <2>1 DEF StartupSound
  <2> QED
    BY <1>t, <2>1, <2>2, <2>3, StreamsStay DEF ServerSound
<1>12. ASSUME Api!Ready PROVE ServerSound'
  <2>1. /\ UNCHANGED <<running, runners, sockets, refreshed, refresh, waiting, datagrams, subs>>
        /\ main = "sockets" /\ main' = "ready" /\ sockets = {"ingress", "api"}
    BY <1>12 DEF Api!Ready
  <2>2. ListsSound'
    BY <1>t, <2>1 DEF ListsSound, Scans, Reports
  <2>3. StartupSound'
    BY <1>t, <2>1 DEF StartupSound
  <2> QED
    BY <1>t, <2>1, <2>2, <2>3, StreamsStay DEF ServerSound
<1>13. ASSUME Api!ServerFails PROVE ServerSound'
  <2>1. /\ UNCHANGED <<running, runners, refreshed, refresh, waiting, subs>>
        /\ main \in {"sockets", "ready"} /\ main' \in {"ended", "failed"} /\ datagrams' = <<>>
    BY <1>13 DEF Api!ServerFails
  <2>2. datagrams' \in Seq(Reports)
    BY <2>1
  <2>3. ListsSound'
    BY <1>t, <2>1, <2>2 DEF ListsSound, Scans, Reports
  <2>4. StartupSound'
    BY <1>t, <2>1 DEF StartupSound
  <2> QED
    BY <1>t, <2>1, <2>3, <2>4, StreamsStay DEF ServerSound
<1> QED
  BY <1>0, <1>1, <1>2, <1>3, <1>4, <1>5, <1>6, <1>7, <1>8, <1>9, <1>10, <1>11, <1>12, <1>13
  DEF Api!Next, Api!Observer, Api!Refresher

LEMMA ServerArrives ==
  ServerSound => Api!TypeOK /\ Api!ReadyMeansServing /\ Api!StreamsHaveNoGaps /\ Api!ClosedOnce
<1> SUFFICES ASSUME ServerSound
             PROVE  Api!TypeOK /\ Api!ReadyMeansServing /\ Api!StreamsHaveNoGaps /\ Api!ClosedOnce
  OBVIOUS
<1>1. \A w \in Streams : StreamSound(subs[w]) /\ subs[w] \in StreamRecords
  BY DEF ServerSound, StreamsSound
<1>2. Api!TypeOK
  <2>1. refresh.found \subseteq Services
    BY DEF ServerSound, ListsSound, Scans
  <2> QED
    BY <1>1, <2>1 DEF Api!TypeOK, ServerSound, ListsSound, StreamSound
<1>3. Api!ReadyMeansServing
  BY DEF Api!ReadyMeansServing, ServerSound, StartupSound
<1>4. Api!StreamsHaveNoGaps
  <2>1. ASSUME NEW w \in Streams PROVE DOMAIN subs[w].ch = 1 .. Len(subs[w].ch)
    BY <1>1 DEF StreamRecords
  <2> QED
    BY <1>1, <2>1 DEF Api!StreamsHaveNoGaps, StreamSound
<1>5. Api!ClosedOnce
  BY <1>1 DEF Api!ClosedOnce, StreamSound
<1> QED
  BY <1>2, <1>3, <1>4, <1>5

-----------------------------------------------------------------------------
(* The worker of sys-logd. *)

\* A nonempty set of numbers up to n has a largest.
LEMMA Largest ==
  ASSUME NEW n \in Nat, NEW S \in SUBSET (0 .. n), S # {}
  PROVE  \E x \in S : \A y \in S : x >= y
<1> DEFINE T == {k \in Nat : n - k \in S}
<1>1. T \subseteq Nat /\ T # {}
  <2>1. PICK y \in S : TRUE
    OBVIOUS
  <2>2. n - y \in Nat /\ n - (n - y) = y
    OBVIOUS
  <2> QED
    BY <2>1, <2>2
<1> DEFINE R == OpToRel(<, Nat)
<1>2. IsWellFoundedOn(R, Nat)
  BY NatLessThanWellFounded
<1>3. \A x, y \in Nat : x < y => <<x, y>> \in R
  BY Zenon DEF OpToRel
<1> HIDE DEF R, T
<1>4. PICK x \in T : \A y \in T : ~(<<y, x>> \in R)
  BY <1>1, <1>2, WFMin
<1>5. ASSUME NEW y \in T PROVE x <= y
  <2>1. x \in Nat /\ y \in Nat /\ ~(<<y, x>> \in R)
    BY <1>1, <1>4
  <2>2. ~(y < x)
    BY <1>3, <2>1
  <2> QED
    BY <2>1, <2>2
<1>6. n - x \in S /\ x \in Nat
  BY <1>4 DEF T
<1>7. ASSUME NEW y \in S PROVE n - x >= y
  <2>1. n - y \in T
    BY DEF T
  <2> QED
    BY <1>5, <1>6, <2>1
<1> QED
  BY <1>6, <1>7

LEMMA OldestPath ==
  ASSUME Logd!Parameters, NEW S \in SUBSET Logd!Paths, S # {}
  PROVE  Logd!Max(S) \in S /\ Logd!Max(S) \in Logd!Paths
<1>1. \E x \in S : \A y \in S : x >= y
  <2>1. Rotations \in Nat
    BY DEF Logd!Parameters
  <2>2. S \in SUBSET (0 .. Rotations)
    BY DEF Logd!Paths
  <2> QED
    BY <2>1, <2>2, Largest
<1> QED
  BY <1>1 DEF Logd!Max

-----------------------------------------------------------------------------
ThreadsTyped ==
  /\ read \in 0 .. NLines /\ reader \in {"read", "send", "spill", "closed"}
  /\ reader \in {"send", "spill"} => read \in Logd!Lines
  /\ queue \in Seq(Logd!Lines) /\ Len(queue) <= QueueSize
  /\ spillMode \in BOOLEAN /\ writer \in {"loop", "replay", "scan", "remove", "done"}

Replays == [paths : SUBSET Logd!Paths, at : Logd!Paths \cup {-1}, rest : Seq(Logd!Lines), next : Nat \ {0}]

FilesTyped ==
  /\ disk \in [Logd!Paths -> Seq(Logd!Lines)] /\ \A p \in Logd!Paths : Len(disk[p]) <= MaxLines
  /\ file \in {"nil", "current", "gone"} /\ gone \in 0 .. MaxLines
  /\ scan \in Replays
  /\ lost \subseteq Logd!Lines /\ late \subseteq Logd!Lines

SinkTyped ==
  /\ conn \in {"nil", "open", "stale"} /\ backoff \in BOOLEAN /\ up \subseteq Logd!Parts
  /\ delivered \subseteq Logd!Lines /\ faults \in 0 .. LogFaults

\* The lines up to the next one to read, or all when the file is to be removed.
ReadSoFar ==
  \A i \in 1 .. Len(disk[scan.at]) : writer = "remove" \/ i < scan.next => disk[scan.at][i] \in delivered \cup late

(* The file that will be removed is the one that is read, and what was read  *)
(* of it is delivered, unless all that is on disk is at risk as it is.       *)
ReplaySound ==
  /\ writer \in {"scan", "remove"} <=> scan.paths # {}
  /\ scan.paths # {} => Logd!OnDisk \subseteq late \/ (scan.at = Logd!Max(scan.paths) /\ ReadSoFar)

\* What a line that was read has come to.
Accounted(m) ==
  \/ m \in delivered \/ m \in lost \/ m \in late
  \/ m \in Logd!OnDisk
  \/ \E i \in 1 .. Len(queue) : queue[i] = m
  \/ m \in Logd!InHand

WorkerSound ==
  /\ ThreadsTyped /\ FilesTyped /\ SinkTyped
  /\ ReplaySound
  /\ \A m \in 1 .. read : Accounted(m)
  /\ Logd!SpillIsReplayed

LEMMA OnDiskIs ==
  ASSUME FilesTyped, NEW m
  PROVE  m \in Logd!OnDisk <=> \E p \in Logd!Paths : \E i \in 1 .. Len(disk[p]) : disk[p][i] = m
<1>1. \A p \in Logd!Paths : DOMAIN disk[p] = 1 .. Len(disk[p])
  BY DEF FilesTyped
<1>2. m \in Logd!OnDisk <=> \E p \in Logd!Paths : m \in Logd!Range(disk[p])
  BY DEF Logd!OnDisk
<1>3. \A p : m \in Logd!Range(disk[p]) <=> \E i \in DOMAIN disk[p] : disk[p][i] = m
  BY DEF Logd!Range
<1> QED
  BY <1>1, <1>2, <1>3

LEMMA FilesStay ==
  ASSUME FilesTyped, UNCHANGED <<disk, file, gone>>, scan' \in Replays,
         lost' \subseteq Logd!Lines, late' \subseteq Logd!Lines
  PROVE  FilesTyped'
  BY DEF FilesTyped, Logd!Paths, Logd!Lines, Replays

LEMMA ReplayStays ==
  ASSUME ReplaySound, UNCHANGED <<disk, scan>>, delivered \subseteq delivered', late \subseteq late',
         writer' = writer \/ {writer, writer'} \cap {"scan", "remove"} = {}
  PROVE  ReplaySound'
<1>1. Logd!OnDisk' = Logd!OnDisk
  BY DEF Logd!OnDisk
<1>2. CASE scan.paths = {}
  BY <1>2 DEF ReplaySound
<1>3. CASE scan.paths # {}
  <2>1. writer' = writer /\ writer \in {"scan", "remove"}
    BY <1>3 DEF ReplaySound
  <2>2. ReadSoFar => ReadSoFar'
    BY <2>1 DEF ReadSoFar
  <2>3. Logd!OnDisk \subseteq late => Logd!OnDisk' \subseteq late'
    BY <1>1
  <2>4. scan.at = Logd!Max(scan.paths) => (scan.at = Logd!Max(scan.paths))'
    OBVIOUS
  <2> QED
    BY <1>3, <2>1, <2>2, <2>3, <2>4 DEF ReplaySound
<1> QED
  BY <1>2, <1>3

\* No line leaves the queue or the disk.
LEMMA AccountedStay ==
  ASSUME \A m \in 1 .. read : Accounted(m), UNCHANGED <<read, reader, queue, disk>>,
         delivered \subseteq delivered', lost \subseteq lost', late \subseteq late'
  PROVE  (\A m \in 1 .. read : Accounted(m))'
<1>1. Logd!OnDisk' = Logd!OnDisk
  BY DEF Logd!OnDisk
<1>2. Logd!InHand' = Logd!InHand
  BY DEF Logd!InHand
<1> QED
  BY <1>1, <1>2 DEF Accounted

LEMMA ReplayedStay ==
  ASSUME Logd!SpillIsReplayed, disk' = disk, late \subseteq late', spillMode => spillMode'
  PROVE  Logd!SpillIsReplayed'
<1>1. Logd!OnDisk' = Logd!OnDisk
  BY DEF Logd!OnDisk
<1> QED
  BY <1>1 DEF Logd!SpillIsReplayed

-----------------------------------------------------------------------------
(* A line is spilled. *)

Spills(m, mode) == Logd!WriteLine(m) /\ Logd!Spilled(m, mode)

\* A full file is rotated; all that was on disk is at risk while files are replayed.
LEMMA SpillRotates ==
  ASSUME Logd!Parameters, FilesTyped, NEW m \in Logd!Lines, NEW mode \in BOOLEAN, Spills(m, mode),
         Logd!Size >= MaxLines
  PROVE  /\ FilesTyped' /\ scan'.paths = scan.paths
         /\ lost \subseteq lost' /\ late \subseteq late'
         /\ Logd!OnDisk \subseteq Logd!OnDisk' \cup lost'
         /\ m \in Logd!OnDisk' /\ Logd!OnDisk' \subseteq Logd!OnDisk \cup {m}
         /\ ~mode => m \in late'
         /\ scan.paths # {} => Logd!OnDisk' \subseteq late'
<1>r. Rotations \in Nat /\ MaxLines \in Nat \ {0} /\ Logd!Paths = 0 .. Rotations
  BY DEF Logd!Parameters, Logd!Paths
<1>t. /\ disk \in [Logd!Paths -> Seq(Logd!Lines)] /\ \A p \in Logd!Paths : Len(disk[p]) <= MaxLines
      /\ scan \in Replays /\ lost \subseteq Logd!Lines /\ late \subseteq Logd!Lines
  BY DEF FilesTyped
<1>1. /\ file' = "current" /\ gone' = 0
      /\ disk' = [Logd!Rotated EXCEPT ![0] = Append(@, m)]
      /\ scan' = Logd!ScanRotated /\ lost' = lost \cup Logd!Range(disk[Rotations])
  BY DEF Spills, Logd!WriteLine
<1>2. late' = late \cup (IF scan.paths # {} \/ ~mode THEN {m} ELSE {})
                   \cup (IF scan.paths # {} THEN Logd!OnDisk ELSE {})
  <2>1. Logd!Size \in Int
    <3>1. 0 \in Logd!Paths /\ Len(disk[0]) \in Nat /\ gone \in Int
      BY <1>r, <1>t DEF FilesTyped
    <3> QED
      BY <3>1 DEF Logd!Size
  <2>2. ~(Logd!Size < MaxLines)
    BY <1>r, <2>1
  <2> QED
    BY <2>2 DEF Spills, Logd!Spilled
<1>3. PICK one : one = Append(<<>>, m)
  OBVIOUS
<1>4. one \in Seq(Logd!Lines) /\ Len(one) = 1 /\ one[1] = m
  BY <1>3
<1>5. /\ disk' \in [Logd!Paths -> Seq(Logd!Lines)] /\ disk'[0] = one
      /\ \A p \in 1 .. Rotations : disk'[p] = disk[p - 1] /\ p \in Logd!Paths /\ p - 1 \in Logd!Paths
      /\ 0 \in Logd!Paths /\ Rotations \in Logd!Paths
  <2>1. Logd!Rotated = [p \in Logd!Paths |-> IF p = 0 THEN <<>> ELSE disk[p - 1]]
    BY DEF Logd!Rotated
  <2>2. \A p \in Logd!Paths : p = 0 \/ (p \in 1 .. Rotations /\ p - 1 \in Logd!Paths)
    BY <1>r
  <2>3. 0 \in Logd!Paths /\ Rotations \in Logd!Paths /\ \A p \in 1 .. Rotations : p \in Logd!Paths /\ p # 0
    BY <1>r
  <2>4. Logd!Rotated[0] = <<>>
    BY <2>1, <2>3
  <2>5. disk' = [Logd!Rotated EXCEPT ![0] = one]
    BY <1>1, <1>3, <2>4
  <2>6. disk' = [p \in Logd!Paths |-> IF p = 0 THEN one ELSE disk[p - 1]]
    BY <2>1, <2>5
  <2>7. \A p \in Logd!Paths : (IF p = 0 THEN one ELSE disk[p - 1]) \in Seq(Logd!Lines)
    BY <1>4, <1>t, <2>2
  <2> QED
    BY <2>2, <2>3, <2>6, <2>7
<1>a. 0 \in Logd!Paths /\ Len(disk'[0]) = 1 /\ disk'[0][1] = m
  <2>1. disk'[0] = one /\ 0 \in Logd!Paths
    BY <1>5
  <2> QED
    BY <1>4, <2>1
<1>6. \A p \in Logd!Paths : Len(disk'[p]) <= MaxLines
  <2>1. ASSUME NEW p \in Logd!Paths PROVE Len(disk'[p]) <= MaxLines
    <3>1. p = 0 \/ p \in 1 .. Rotations
      BY <1>r
    <3>2. CASE p = 0
      <4>1. 1 <= MaxLines
        BY <1>r
      <4>2. Len(disk'[p]) = 1
        BY <1>a, <3>2
      <4> QED
        BY <4>1, <4>2
    <3>3. CASE p \in 1 .. Rotations
      BY <1>5, <1>t, <3>3
    <3> QED
      BY <3>1, <3>2, <3>3
  <2> QED
    BY <2>1
<1>7. ASSUME NEW x
      PROVE  x \in Logd!OnDisk' <=> \E p \in Logd!Paths : \E i \in 1 .. Len(disk'[p]) : disk'[p][i] = x
  <2>1. \A p \in Logd!Paths : DOMAIN disk'[p] = 1 .. Len(disk'[p])
    BY <1>5
  <2>2. x \in Logd!OnDisk' <=> \E p \in Logd!Paths : x \in Logd!Range(disk'[p])
    BY DEF Logd!OnDisk, Logd!Paths
  <2>3. \A p : x \in Logd!Range(disk'[p]) <=> \E i \in DOMAIN disk'[p] : disk'[p][i] = x
    BY DEF Logd!Range
  <2> QED
    BY <2>1, <2>2, <2>3
<1>8. m \in Logd!OnDisk'
  <2>1. 0 \in Logd!Paths /\ 1 \in 1 .. Len(disk'[0]) /\ disk'[0][1] = m
    BY <1>a
  <2> QED
    BY <1>7, <2>1
<1>9. ASSUME NEW x \in Logd!OnDisk' PROVE x \in Logd!OnDisk \cup {m}
  <2>1. PICK p \in Logd!Paths : \E i \in 1 .. Len(disk'[p]) : disk'[p][i] = x
    BY <1>7
  <2>2. PICK i \in 1 .. Len(disk'[p]) : disk'[p][i] = x
    BY <2>1
  <2>3. CASE p = 0
    BY <1>4, <1>5, <2>2, <2>3
  <2>4. CASE p # 0
    <3>1. p \in 1 .. Rotations
      BY <1>r, <2>4
    <3>2. disk[p - 1][i] = x /\ i \in 1 .. Len(disk[p - 1]) /\ p - 1 \in Logd!Paths
      BY <1>5, <2>2, <3>1
    <3> QED
      BY <3>2, OnDiskIs
  <2> QED
    BY <2>3, <2>4
<1>10. ASSUME NEW x \in Logd!OnDisk PROVE x \in Logd!OnDisk' \cup lost'
  <2>1. PICK p \in Logd!Paths : \E i \in 1 .. Len(disk[p]) : disk[p][i] = x
    BY OnDiskIs
  <2>2. PICK i \in 1 .. Len(disk[p]) : disk[p][i] = x
    BY <2>1
  <2>3. CASE p = Rotations
    <3>1. i \in DOMAIN disk[p]
      BY <1>t
    <3>2. x \in Logd!Range(disk[p])
      BY <2>2, <3>1 DEF Logd!Range
    <3> QED
      BY <1>1, <2>3, <3>2
  <2>4. CASE p # Rotations
    <3>1. p + 1 \in 1 .. Rotations /\ (p + 1) - 1 = p
      BY <1>r, <2>4
    <3>2. disk'[p + 1] = disk[p] /\ p + 1 \in Logd!Paths
      BY <1>5, <3>1
    <3> QED
      BY <1>7, <2>2, <3>2
  <2> QED
    BY <2>3, <2>4
<1>11. scan' \in Replays /\ scan'.paths = scan.paths
  <2>1. CASE scan.at = Rotations
    <3>1. PICK q : q = disk[Rotations]
      OBVIOUS
    <3>2. q \in Seq(Logd!Lines)
      BY <1>5, <1>t, <3>1
    <3>3. scan' = [scan EXCEPT !.at = -1, !.rest = q]
      BY <1>1, <2>1, <3>1 DEF Logd!ScanRotated
    <3> QED
      BY <1>t, <3>2, <3>3 DEF Replays
  <2>2. CASE scan.at # Rotations /\ scan.at >= 0
    <3>1. scan.at \in 0 .. Rotations
      BY <1>r, <1>t, <2>2 DEF Replays
    <3>2. PICK k \in Logd!Paths : k = scan.at + 1
      BY <1>r, <2>2, <3>1
    <3>3. scan' = [scan EXCEPT !.at = k]
      BY <1>1, <2>2, <3>2 DEF Logd!ScanRotated
    <3> QED
      BY <1>t, <3>3 DEF Replays
  <2>3. CASE scan.at # Rotations /\ ~(scan.at >= 0)
    BY <1>1, <1>t, <2>3 DEF Logd!ScanRotated
  <2> QED
    BY <2>1, <2>2, <2>3
<1>12. Logd!OnDisk \subseteq Logd!Lines
  <2>1. ASSUME NEW x \in Logd!OnDisk PROVE x \in Logd!Lines
    <3>1. PICK p \in Logd!Paths : \E i \in 1 .. Len(disk[p]) : disk[p][i] = x
      BY OnDiskIs
    <3>2. disk[p] \in Seq(Logd!Lines)
      BY <1>t
    <3> QED
      BY <3>1, <3>2
  <2> QED
    BY <2>1
<1>13. lost' \subseteq Logd!Lines
  <2>1. disk[Rotations] \in Seq(Logd!Lines)
    BY <1>5, <1>t
  <2>2. Logd!Range(disk[Rotations]) \subseteq Logd!Lines
    BY <2>1 DEF Logd!Range
  <2> QED
    BY <1>1, <1>t, <2>2
<1>14. late' \subseteq Logd!Lines /\ late \subseteq late' /\ (~mode => m \in late')
       /\ (scan.paths # {} => Logd!OnDisk' \subseteq late')
  BY <1>2, <1>9, <1>12, <1>t
<1>15. FilesTyped'
  <2>1. /\ disk' \in [Logd!Paths -> Seq(Logd!Lines)] /\ \A p \in Logd!Paths : Len(disk'[p]) <= MaxLines
        /\ file' \in {"nil", "current", "gone"} /\ gone' \in 0 .. MaxLines
        /\ scan' \in Replays /\ lost' \subseteq Logd!Lines /\ late' \subseteq Logd!Lines
    BY <1>r, <1>1, <1>5, <1>6, <1>11, <1>13, <1>14
  <2> QED
    BY <2>1 DEF FilesTyped, Logd!Paths, Logd!Lines, Replays
<1> QED
  BY <1>1, <1>8, <1>9, <1>10, <1>11, <1>14, <1>15

\* A line is appended to the open file, which may have been removed.
LEMMA SpillAppends ==
  ASSUME Logd!Parameters, FilesTyped, NEW m \in Logd!Lines, NEW mode \in BOOLEAN, Spills(m, mode),
         ~(Logd!Size >= MaxLines)
  PROVE  /\ FilesTyped' /\ scan' = scan /\ lost' = lost /\ late \subseteq late'
         /\ \A p \in Logd!Paths : /\ Len(disk[p]) <= Len(disk'[p])
                                  /\ \A i \in 1 .. Len(disk'[p]) :
                                       disk'[p][i] = m \/ (i <= Len(disk[p]) /\ disk'[p][i] = disk[p][i])
                                  /\ \A i \in 1 .. Len(disk[p]) : disk'[p][i] = disk[p][i]
         /\ Logd!OnDisk \subseteq Logd!OnDisk'
         /\ m \in Logd!OnDisk' \cup late' /\ Logd!OnDisk' \subseteq Logd!OnDisk \cup {m}
         /\ ~mode \/ scan.paths # {} => m \in late'
<1>r. MaxLines \in Nat \ {0} /\ 0 \in Logd!Paths
  BY DEF Logd!Parameters, Logd!Paths
<1>t. /\ disk \in [Logd!Paths -> Seq(Logd!Lines)] /\ \A p \in Logd!Paths : Len(disk[p]) <= MaxLines
      /\ file \in {"nil", "current", "gone"} /\ gone \in 0 .. MaxLines
      /\ scan \in Replays /\ lost \subseteq Logd!Lines /\ late \subseteq Logd!Lines
  BY DEF FilesTyped
<1>1. scan' = scan /\ lost' = lost
  BY DEF Spills, Logd!WriteLine
<1>2. late' = late \cup (IF scan.paths # {} \/ file = "gone" \/ ~mode THEN {m} ELSE {})
  <2>1. Logd!Size < MaxLines
    <3>1. Logd!Size \in Int
      BY <1>t, <1>r DEF Logd!Size
    <3> QED
      BY <1>r, <3>1
  <2> QED
    BY <2>1 DEF Spills, Logd!Spilled
<1>3. /\ disk' \in [Logd!Paths -> Seq(Logd!Lines)] /\ \A p \in Logd!Paths : Len(disk'[p]) <= MaxLines
      /\ file' \in {"nil", "current", "gone"} /\ gone' \in 0 .. MaxLines
      /\ \A p \in Logd!Paths : /\ Len(disk[p]) <= Len(disk'[p])
                               /\ \A i \in 1 .. Len(disk'[p]) :
                                    disk'[p][i] = m \/ (i <= Len(disk[p]) /\ disk'[p][i] = disk[p][i])
                               /\ \A i \in 1 .. Len(disk[p]) : disk'[p][i] = disk[p][i]
      /\ file = "gone" \/ \E i \in 1 .. Len(disk'[0]) : disk'[0][i] = m
  <2>1. CASE file = "gone"
    <3>1. file' = "gone" /\ gone' = gone + 1 /\ disk' = disk
      BY <2>1 DEF Spills, Logd!WriteLine
    <3>2. gone < MaxLines
      BY <1>r, <1>t, <2>1 DEF Logd!Size
    <3>3. gone' \in 0 .. MaxLines
      BY <1>r, <1>t, <3>1, <3>2
    <3>4. \A p \in Logd!Paths : Len(disk[p]) \in Nat /\ \A i \in 1 .. Len(disk[p]) : i <= Len(disk[p])
      BY <1>t
    <3> QED
      BY <1>t, <2>1, <3>1, <3>3, <3>4
  <2>2. CASE file # "gone"
    <3>1. PICK q : q = Append(disk[0], m)
      OBVIOUS
    <3>2. file' = "current" /\ gone' = 0 /\ disk' = [disk EXCEPT ![0] = q]
      BY <1>t, <2>2, <3>1 DEF Spills, Logd!WriteLine
    <3>3. disk[0] \in Seq(Logd!Lines) /\ Len(disk[0]) \in Nat /\ ~(Len(disk[0]) >= MaxLines)
      BY <1>r, <1>t, <2>2 DEF Logd!Size
    <3>4. /\ q \in Seq(Logd!Lines) /\ Len(q) = Len(disk[0]) + 1 /\ q[Len(disk[0]) + 1] = m
          /\ \A i \in 1 .. Len(disk[0]) : q[i] = disk[0][i]
      BY <3>1, <3>3
    <3>5. disk' \in [Logd!Paths -> Seq(Logd!Lines)] /\ disk'[0] = q /\ \A p \in Logd!Paths \ {0} : disk'[p] = disk[p]
      BY <1>r, <1>t, <3>2, <3>4
    <3>6. /\ Len(q) <= MaxLines /\ Len(disk[0]) <= Len(q)
          /\ \A i \in 1 .. Len(q) : q[i] = m \/ (i <= Len(disk[0]) /\ q[i] = disk[0][i])
          /\ \E i \in 1 .. Len(q) : q[i] = m
      <4>1. Len(q) <= MaxLines /\ Len(disk[0]) <= Len(q) /\ Len(disk[0]) + 1 \in 1 .. Len(q)
        BY <1>r, <3>3, <3>4
      <4>2. ASSUME NEW i \in 1 .. Len(q) PROVE q[i] = m \/ (i <= Len(disk[0]) /\ q[i] = disk[0][i])
        <5>1. i = Len(disk[0]) + 1 \/ i \in 1 .. Len(disk[0])
          BY <3>3, <3>4
        <5> QED
          BY <3>3, <3>4, <5>1
      <4> QED
        BY <3>4, <4>1, <4>2
    <3>7. ASSUME NEW p \in Logd!Paths
          PROVE  /\ Len(disk'[p]) <= MaxLines /\ Len(disk[p]) <= Len(disk'[p])
                 /\ \A i \in 1 .. Len(disk'[p]) :
                      disk'[p][i] = m \/ (i <= Len(disk[p]) /\ disk'[p][i] = disk[p][i])
                 /\ \A i \in 1 .. Len(disk[p]) : disk'[p][i] = disk[p][i]
      <4>1. CASE p = 0
        BY <3>4, <3>5, <3>6, <4>1
      <4>2. CASE p # 0
        <5>1. disk'[p] = disk[p] /\ Len(disk[p]) \in Nat /\ Len(disk[p]) <= MaxLines
          BY <1>t, <3>5, <4>2
        <5> QED
          BY <5>1
      <4> QED
        BY <4>1, <4>2
    <3> QED
      BY <1>r, <3>2, <3>5, <3>6, <3>7
  <2> QED
    BY <2>1, <2>2
<1>4. late' \subseteq Logd!Lines /\ late \subseteq late' /\ (~mode \/ scan.paths # {} => m \in late')
  BY <1>2, <1>t
<1>5. FilesTyped'
  <2>1. scan' \in Replays /\ lost' \subseteq Logd!Lines
    BY <1>1, <1>t
  <2> QED
    BY <1>3, <1>4, <2>1 DEF FilesTyped, Logd!Paths, Logd!Lines, Replays
<1>6. ASSUME NEW x
      PROVE  x \in Logd!OnDisk' <=> \E p \in Logd!Paths : \E i \in 1 .. Len(disk'[p]) : disk'[p][i] = x
  <2>1. \A p \in Logd!Paths : DOMAIN disk'[p] = 1 .. Len(disk'[p])
    BY <1>3
  <2>2. x \in Logd!OnDisk' <=> \E p \in Logd!Paths : x \in Logd!Range(disk'[p])
    BY DEF Logd!OnDisk, Logd!Paths
  <2>3. \A p : x \in Logd!Range(disk'[p]) <=> \E i \in DOMAIN disk'[p] : disk'[p][i] = x
    BY DEF Logd!Range
  <2> QED
    BY <2>1, <2>2, <2>3
<1>7. m \in Logd!OnDisk' \cup late'
  BY <1>r, <1>2, <1>3, <1>6
<1>8. ASSUME NEW x \in Logd!OnDisk PROVE x \in Logd!OnDisk'
  <2>1. PICK p \in Logd!Paths : \E i \in 1 .. Len(disk[p]) : disk[p][i] = x
    BY OnDiskIs
  <2>2. PICK i \in 1 .. Len(disk[p]) : disk[p][i] = x
    BY <2>1
  <2>3. Len(disk[p]) \in Nat /\ Len(disk'[p]) \in Nat /\ Len(disk[p]) <= Len(disk'[p])
    BY <1>t, <1>3
  <2>4. i \in 1 .. Len(disk'[p]) /\ disk'[p][i] = x
    BY <1>3, <2>2, <2>3
  <2> QED
    BY <1>6, <2>4
<1>9. ASSUME NEW x \in Logd!OnDisk' PROVE x \in Logd!OnDisk \cup {m}
  <2>1. PICK p \in Logd!Paths : \E i \in 1 .. Len(disk'[p]) : disk'[p][i] = x
    BY <1>6
  <2>2. PICK i \in 1 .. Len(disk'[p]) : disk'[p][i] = x
    BY <2>1
  <2>3. CASE x = m
    BY <2>3
  <2>4. CASE x # m
    <3>1. i <= Len(disk[p]) /\ disk[p][i] = x /\ Len(disk[p]) \in Nat
      BY <1>3, <1>t, <2>2, <2>4
    <3>2. i \in 1 .. Len(disk[p])
      BY <3>1
    <3> QED
      BY <3>1, <3>2, OnDiskIs
  <2> QED
    BY <2>3, <2>4
<1> QED
  BY <1>1, <1>3, <1>4, <1>5, <1>7, <1>8, <1>9

\* What both have in common.
LEMMA SpillFacts ==
  ASSUME Logd!Parameters, FilesTyped, NEW m \in Logd!Lines, NEW mode \in BOOLEAN, Spills(m, mode)
  PROVE  /\ FilesTyped' /\ scan'.paths = scan.paths
         /\ lost \subseteq lost' /\ late \subseteq late'
         /\ Logd!OnDisk \subseteq Logd!OnDisk' \cup lost'
         /\ m \in Logd!OnDisk' \cup late' /\ Logd!OnDisk' \subseteq Logd!OnDisk \cup {m}
         /\ ~mode => m \in late'
<1>1. CASE Logd!Size >= MaxLines
  BY <1>1, SpillRotates
<1>2. CASE ~(Logd!Size >= MaxLines)
  BY <1>2, SpillAppends
<1> QED
  BY <1>1, <1>2

\* The reader spills while files are replayed.
LEMMA SpillKeepsReplay ==
  ASSUME Logd!Parameters, FilesTyped, ReplaySound, NEW m \in Logd!Lines, NEW mode \in BOOLEAN,
         Spills(m, mode), writer' = writer, delivered' = delivered
  PROVE  ReplaySound'
<1>0. CASE scan.paths = {}
  BY <1>0, SpillFacts DEF ReplaySound
<1>1. CASE scan.paths # {} /\ Logd!Size >= MaxLines
  BY <1>1, SpillRotates DEF ReplaySound
<1>2. CASE scan.paths # {} /\ ~(Logd!Size >= MaxLines)
  <2>1. /\ FilesTyped' /\ scan' = scan /\ late \subseteq late' /\ m \in late'
        /\ Logd!OnDisk' \subseteq Logd!OnDisk \cup {m}
        /\ \A p \in Logd!Paths :
             \A i \in 1 .. Len(disk'[p]) : disk'[p][i] = m \/ (i <= Len(disk[p]) /\ disk'[p][i] = disk[p][i])
    BY <1>2, SpillAppends
  <2>2. CASE Logd!OnDisk \subseteq late
    <3>1. Logd!OnDisk' \subseteq late'
      BY <2>1, <2>2
    <3> QED
      BY <1>2, <2>1, <3>1 DEF ReplaySound
  <2>3. CASE scan.at = Logd!Max(scan.paths) /\ ReadSoFar
    <3>1. scan.at \in Logd!Paths
      <4>1. scan.paths \in SUBSET Logd!Paths
        BY DEF FilesTyped, Replays
      <4> QED
        BY <1>2, <2>3, <4>1, OldestPath
    <3>2. Len(disk[scan.at]) \in Nat
      BY <3>1 DEF FilesTyped
    <3>3. ASSUME NEW i \in 1 .. Len(disk'[scan.at]), writer = "remove" \/ i < scan.next
          PROVE  disk'[scan.at][i] \in delivered \cup late'
      <4>1. CASE disk'[scan.at][i] = m
        BY <2>1, <4>1
      <4>2. CASE disk'[scan.at][i] # m
        <5>1. i <= Len(disk[scan.at]) /\ disk'[scan.at][i] = disk[scan.at][i]
          BY <2>1, <3>1, <4>2
        <5>2. i \in 1 .. Len(disk[scan.at])
          BY <3>2, <5>1
        <5> QED
          BY <2>1, <2>3, <3>3, <5>1, <5>2 DEF ReadSoFar
      <4> QED
        BY <4>1, <4>2
    <3>4. ReadSoFar'
      BY <2>1, <3>3 DEF ReadSoFar
    <3> QED
      BY <1>2, <2>1, <2>3, <3>4 DEF ReplaySound
  <2> QED
    BY <1>2, <2>2, <2>3 DEF ReplaySound
<1> QED
  BY <1>0, <1>1, <1>2


-----------------------------------------------------------------------------
(* The files that are replayed. *)

LEMMA NoReplay ==
  Logd!Replay \in Replays /\ Logd!Replay.paths = {}
<1>1. PICK q : q = <<>>
  OBVIOUS
<1>2. q \in Seq(Logd!Lines)
  BY <1>1
<1>3. Logd!Replay = [paths |-> {}, at |-> -1, rest |-> q, next |-> 1]
  BY <1>1 DEF Logd!Replay
<1> QED
  BY <1>2, <1>3 DEF Replays

LEMMA OpensReplay ==
  ASSUME Logd!Parameters, NEW S \in SUBSET Logd!Paths, S # {}
  PROVE  /\ Logd!Opened(S) \in Replays /\ Logd!Opened(S).paths = S
         /\ Logd!Opened(S).at = Logd!Max(S) /\ Logd!Opened(S).next = 1
<1>1. PICK q : q = <<>>
  OBVIOUS
<1>2. q \in Seq(Logd!Lines)
  BY <1>1
<1>3. PICK k \in Logd!Paths : k = Logd!Max(S)
  BY OldestPath
<1>4. Logd!Opened(S) = [paths |-> S, at |-> k, rest |-> q, next |-> 1]
  BY <1>1, <1>3 DEF Logd!Replay, Logd!Opened
<1> QED
  BY <1>2, <1>3, <1>4 DEF Replays

-----------------------------------------------------------------------------
(* A line is written. *)

LEMMA Delivers ==
  ASSUME Logd!Parameters, SinkTyped, UNCHANGED up, NEW m \in Logd!Lines, Logd!WriteMessage(m)
  PROVE  SinkTyped' /\ delivered' = delivered \cup {m}
<1>1. delivered' = delivered \cup {m}
  BY DEF Logd!WriteMessage
<1>2. conn' \in {"nil", "open", "stale"} /\ backoff' \in BOOLEAN
  BY DEF Logd!WriteMessage, Logd!BrokerFails, SinkTyped
<1>3. faults' = faults \/ (faults < LogFaults /\ faults' = faults + 1)
  BY DEF Logd!WriteMessage, Logd!BrokerFails, Logd!Fault
<1>4. faults' \in 0 .. LogFaults
  BY <1>3 DEF SinkTyped, Logd!Parameters
<1> QED
  BY <1>1, <1>2, <1>4 DEF SinkTyped, Logd!Lines, Logd!Parts

LEMMA DeliversNot ==
  ASSUME Logd!Parameters, SinkTyped, UNCHANGED up, NEW m \in Logd!Lines, Logd!WriteMessageFails(m)
  PROVE  SinkTyped' /\ delivered \subseteq delivered'
<1>1. delivered' = delivered \/ delivered' = delivered \cup {m}
  BY DEF Logd!WriteMessageFails
<1>2. conn' \in {"nil", "open", "stale"} /\ backoff' \in BOOLEAN
  BY DEF Logd!WriteMessageFails, Logd!BrokerFails, SinkTyped
<1>3. faults' = faults \/ (faults < LogFaults /\ faults' = faults + 1)
  BY DEF Logd!WriteMessageFails, Logd!BrokerFails, Logd!Fault
<1>4. faults' \in 0 .. LogFaults
  BY <1>3 DEF SinkTyped, Logd!Parameters
<1> QED
  BY <1>1, <1>2, <1>4 DEF SinkTyped, Logd!Lines, Logd!Parts

-----------------------------------------------------------------------------
(* The invariant. *)

LEMMA WorkerBegins ==
  ASSUME Logd!Parameters, Logd!Init
  PROVE  WorkerSound
<1> USE DEF Logd!Init
<1>0. /\ NLines \in Nat /\ QueueSize \in Nat /\ MaxLines \in Nat \ {0} /\ Rotations \in Nat /\ LogFaults \in Nat
      /\ 0 \in Logd!Paths
  BY DEF Logd!Parameters, Logd!Paths
<1>1. PICK q : q = <<>>
  OBVIOUS
<1>2. q \in Seq(Logd!Lines) /\ Len(q) = 0 /\ queue = q /\ disk = [p \in Logd!Paths |-> q]
  BY <1>1
<1>3. ThreadsTyped
  BY <1>0, <1>2 DEF ThreadsTyped
<1>4. FilesTyped
  <2>1. scan \in Replays
    BY NoReplay
  <2>2. disk \in [Logd!Paths -> Seq(Logd!Lines)] /\ \A p \in Logd!Paths : Len(disk[p]) <= MaxLines
    BY <1>0, <1>2
  <2>3. gone \in 0 .. MaxLines /\ file \in {"nil", "current", "gone"} /\ lost \subseteq Logd!Lines /\ late \subseteq Logd!Lines
    BY <1>0
  <2> QED
    BY <2>1, <2>2, <2>3 DEF FilesTyped
<1>5. SinkTyped
  BY <1>0 DEF SinkTyped
<1>6. ReplaySound
  BY NoReplay DEF ReplaySound
<1>7. \A m \in 1 .. read : Accounted(m)
  OBVIOUS
<1>8. Logd!SpillIsReplayed
  <2>1. ASSUME NEW x \in Logd!OnDisk PROVE FALSE
    <3>1. PICK p \in Logd!Paths : \E i \in 1 .. Len(disk[p]) : disk[p][i] = x
      BY <1>4, OnDiskIs
    <3>2. Len(disk[p]) = 0
      BY <1>2
    <3> QED
      BY <3>1, <3>2
  <2> QED
    BY <2>1 DEF Logd!SpillIsReplayed
<1> QED
  BY <1>3, <1>4, <1>5, <1>6, <1>7, <1>8 DEF WorkerSound

LEMMA ReadsLine ==
  ASSUME Logd!Parameters, WorkerSound, Logd!ReadLine
  PROVE  WorkerSound'
<1> USE DEF Logd!spill, Logd!sink
<1>0. /\ ThreadsTyped /\ FilesTyped /\ SinkTyped /\ ReplaySound /\ Logd!SpillIsReplayed
      /\ \A m \in 1 .. read : Accounted(m)
  BY DEF WorkerSound
<1>1. /\ reader = "read" /\ UNCHANGED <<queue, spillMode, disk, file, gone, writer, scan>>
      /\ UNCHANGED <<conn, backoff, delivered, up, lost, late, faults>>
      /\ \/ read < NLines /\ read' = read + 1 /\ reader' \in {"spill", "send"}
         \/ read' = read /\ reader' = "closed"
  BY DEF Logd!ReadLine
<1>2. NLines \in Nat /\ Logd!Lines = 1 .. NLines
  BY DEF Logd!Parameters, Logd!Lines
<1>3. ThreadsTyped'
  <2>1. /\ read' \in 0 .. NLines /\ reader' \in {"read", "send", "spill", "closed"}
        /\ reader' \in {"send", "spill"} => read' \in 1 .. NLines
    BY <1>0, <1>1, <1>2 DEF ThreadsTyped
  <2> QED
    BY <1>0, <1>1, <1>2, <2>1 DEF ThreadsTyped, Logd!Lines
<1>4. FilesTyped'
  BY <1>0, <1>1, FilesStay DEF FilesTyped
<1>5. SinkTyped'
  BY <1>0, <1>1 DEF SinkTyped, Logd!Lines, Logd!Parts
<1>6. ReplaySound'
  BY <1>0, <1>1, ReplayStays
<1>7. ASSUME NEW m \in 1 .. read' PROVE Accounted(m)'
  <2>1. CASE m \in 1 .. read
    <3>1. Accounted(m)
      BY <1>0, <2>1
    <3>2. Logd!OnDisk' = Logd!OnDisk
      BY <1>1 DEF Logd!OnDisk
    <3>3. Logd!InHand = {}
      BY <1>1 DEF Logd!InHand
    <3> QED
      BY <1>1, <3>1, <3>2, <3>3 DEF Accounted
  <2>2. CASE m \notin 1 .. read
    <3>1. read' = read + 1 /\ reader' \in {"spill", "send"} /\ m = read'
      BY <1>0, <1>1, <2>2 DEF ThreadsTyped
    <3>2. m \in Logd!InHand'
      BY <3>1 DEF Logd!InHand
    <3> QED
      BY <3>2 DEF Accounted
  <2> QED
    BY <2>1, <2>2
<1>8. Logd!SpillIsReplayed'
  BY <1>0, <1>1, ReplayedStay
<1> QED
  BY <1>3, <1>4, <1>5, <1>6, <1>7, <1>8 DEF WorkerSound

LEMMA Enqueues ==
  ASSUME Logd!Parameters, WorkerSound, Logd!Enqueue
  PROVE  WorkerSound'
<1> USE DEF Logd!spill, Logd!sink
<1>0. /\ ThreadsTyped /\ FilesTyped /\ SinkTyped /\ ReplaySound /\ Logd!SpillIsReplayed
      /\ \A m \in 1 .. read : Accounted(m)
  BY DEF WorkerSound
<1>1. /\ reader = "send" /\ Len(queue) < QueueSize /\ queue' = Append(queue, read) /\ reader' = "read"
      /\ UNCHANGED <<read, spillMode, disk, file, gone, writer, scan>>
      /\ UNCHANGED <<conn, backoff, delivered, up, lost, late, faults>>
  BY DEF Logd!Enqueue
<1>2. /\ queue' \in Seq(Logd!Lines) /\ Len(queue) \in Nat /\ Len(queue') = Len(queue) + 1
      /\ queue'[Len(queue) + 1] = read
      /\ \A i \in 1 .. Len(queue) : queue'[i] = queue[i]
  <2>1. queue \in Seq(Logd!Lines) /\ read \in Logd!Lines
    BY <1>0, <1>1 DEF ThreadsTyped
  <2> QED
    BY <1>1, <2>1
<1>3. ThreadsTyped'
  <2>1. Len(queue') <= QueueSize
    BY <1>1, <1>2 DEF Logd!Parameters
  <2> QED
    BY <1>0, <1>1, <1>2, <2>1 DEF ThreadsTyped, Logd!Lines
<1>4. FilesTyped'
  BY <1>0, <1>1, FilesStay DEF FilesTyped
<1>5. SinkTyped'
  BY <1>0, <1>1 DEF SinkTyped, Logd!Lines, Logd!Parts
<1>6. ReplaySound'
  BY <1>0, <1>1, ReplayStays
<1>7. ASSUME NEW m \in 1 .. read' PROVE Accounted(m)'
  <2>1. Accounted(m)
    BY <1>0, <1>1
  <2>2. Logd!OnDisk' = Logd!OnDisk
    BY <1>1 DEF Logd!OnDisk
  <2>3. Logd!InHand = {read}
    BY <1>1 DEF Logd!InHand
  <2>4. ASSUME NEW i \in 1 .. Len(queue), queue[i] = m PROVE \E j \in 1 .. Len(queue') : queue'[j] = m
    BY <1>2, <2>4
  <2>5. ASSUME m = read PROVE \E j \in 1 .. Len(queue') : queue'[j] = m
    <3>1. Len(queue) + 1 \in 1 .. Len(queue')
      BY <1>2
    <3> QED
      BY <1>2, <2>5, <3>1
  <2> QED
    BY <1>1, <2>1, <2>2, <2>3, <2>4, <2>5 DEF Accounted
<1>8. Logd!SpillIsReplayed'
  BY <1>0, <1>1, ReplayedStay
<1> QED
  BY <1>3, <1>4, <1>5, <1>6, <1>7, <1>8 DEF WorkerSound

LEMMA SpillsLine ==
  ASSUME Logd!Parameters, WorkerSound, Logd!SpillLine
  PROVE  WorkerSound'
<1> USE DEF Logd!spill, Logd!sink
<1>0. /\ ThreadsTyped /\ FilesTyped /\ SinkTyped /\ ReplaySound /\ Logd!SpillIsReplayed
      /\ \A m \in 1 .. read : Accounted(m)
  BY DEF WorkerSound
<1>1. /\ reader = "spill" /\ reader' = "read" /\ UNCHANGED <<read, queue, spillMode, writer>>
      /\ UNCHANGED <<conn, backoff, delivered, up>>
      /\ read \in Logd!Lines /\ spillMode \in BOOLEAN
  BY <1>0 DEF Logd!SpillLine, ThreadsTyped
<1>3. ThreadsTyped'
  BY <1>0, <1>1 DEF ThreadsTyped, Logd!Lines
<1>b. Logd!InHand = {read}
  BY <1>1 DEF Logd!InHand
<1>4. CASE Spills(read, spillMode) /\ UNCHANGED faults
  <2>1. /\ FilesTyped' /\ lost \subseteq lost' /\ late \subseteq late'
        /\ Logd!OnDisk \subseteq Logd!OnDisk' \cup lost'
        /\ read \in Logd!OnDisk' \cup late' /\ Logd!OnDisk' \subseteq Logd!OnDisk \cup {read}
        /\ ~spillMode => read \in late'
    BY <1>0, <1>1, <1>4, SpillFacts
  <2>2. SinkTyped'
    BY <1>0, <1>1, <1>4 DEF SinkTyped, Logd!Lines, Logd!Parts
  <2>3. ReplaySound'
    BY <1>0, <1>1, <1>4, SpillKeepsReplay
  <2>4. ASSUME NEW m \in 1 .. read' PROVE Accounted(m)'
    <3>1. Accounted(m)
      BY <1>0, <1>1
    <3> QED
      BY <1>1, <1>b, <2>1, <3>1 DEF Accounted
  <2>5. Logd!SpillIsReplayed'
    BY <1>0, <1>1, <2>1 DEF Logd!SpillIsReplayed
  <2> QED
    BY <1>3, <2>1, <2>2, <2>3, <2>4, <2>5 DEF WorkerSound
<1>5. CASE Logd!Fault /\ lost' = lost \cup {read} /\ UNCHANGED <<disk, file, gone, scan, late>>
  <2>1. FilesTyped'
    BY <1>0, <1>1, <1>5, FilesStay DEF FilesTyped
  <2>2. SinkTyped'
    <3>1. faults' \in 0 .. LogFaults
      BY <1>0, <1>5 DEF SinkTyped, Logd!Fault, Logd!Parameters
    <3> QED
      BY <1>0, <1>1, <3>1 DEF SinkTyped, Logd!Lines, Logd!Parts
  <2>3. ReplaySound'
    BY <1>0, <1>1, <1>5, ReplayStays
  <2>4. ASSUME NEW m \in 1 .. read' PROVE Accounted(m)'
    <3>1. Accounted(m)
      BY <1>0, <1>1
    <3>2. Logd!OnDisk' = Logd!OnDisk
      BY <1>5 DEF Logd!OnDisk
    <3> QED
      BY <1>1, <1>b, <1>5, <3>1, <3>2 DEF Accounted
  <2>5. Logd!SpillIsReplayed'
    BY <1>0, <1>1, <1>5, ReplayedStay
  <2> QED
    BY <1>3, <2>1, <2>2, <2>3, <2>4, <2>5 DEF WorkerSound
<1> QED
  BY <1>4, <1>5 DEF Logd!SpillLine, Spills

LEMMA WritesQueued ==
  ASSUME Logd!Parameters, WorkerSound, Logd!WriteQueued
  PROVE  WorkerSound'
<1> USE DEF Logd!spill, Logd!sink
<1>0. /\ ThreadsTyped /\ FilesTyped /\ SinkTyped /\ ReplaySound /\ Logd!SpillIsReplayed
      /\ \A m \in 1 .. read : Accounted(m)
  BY DEF WorkerSound
<1>1. /\ writer = "loop" /\ queue # <<>> /\ queue' = Tail(queue)
      /\ UNCHANGED <<read, reader, writer, up>>
  BY DEF Logd!WriteQueued
<1>2. PICK h : h = Head(queue)
  OBVIOUS
<1>3. /\ h \in Logd!Lines /\ queue' \in Seq(Logd!Lines) /\ Len(queue) \in Nat /\ Len(queue') = Len(queue) - 1
      /\ \A i \in 1 .. Len(queue) : (i = 1 /\ queue[i] = h) \/ (i - 1 \in 1 .. Len(queue') /\ queue'[i - 1] = queue[i])
  <2>1. queue \in Seq(Logd!Lines)
    BY <1>0 DEF ThreadsTyped
  <2>2. Len(queue) \in Nat \ {0} /\ h = queue[1] /\ h \in Logd!Lines
    BY <1>1, <1>2, <2>1
  <2>3. queue' \in Seq(Logd!Lines) /\ Len(queue') = Len(queue) - 1
    BY <1>1, <2>1
  <2>4. \A j \in 1 .. Len(queue') : queue'[j] = queue[j + 1]
    BY <1>1, <2>1
  <2>5. ASSUME NEW i \in 1 .. Len(queue)
        PROVE  (i = 1 /\ queue[i] = h) \/ (i - 1 \in 1 .. Len(queue') /\ queue'[i - 1] = queue[i])
    <3>1. CASE i = 1
      BY <2>2, <3>1
    <3>2. CASE i # 1
      <4>1. i - 1 \in 1 .. Len(queue') /\ (i - 1) + 1 = i
        BY <2>2, <2>3, <3>2
      <4> QED
        BY <2>4, <4>1
    <3> QED
      BY <3>1, <3>2
  <2> QED
    BY <2>2, <2>3, <2>5
<1>4. ASSUME spillMode' \in BOOLEAN PROVE ThreadsTyped'
  <2>1. Len(queue') <= QueueSize
    BY <1>0, <1>3 DEF ThreadsTyped, Logd!Parameters
  <2> QED
    BY <1>0, <1>1, <1>3, <1>4, <2>1 DEF ThreadsTyped, Logd!Lines
<1>5. ASSUME delivered \subseteq delivered', lost \subseteq lost', late \subseteq late',
             Logd!OnDisk \subseteq Logd!OnDisk' \cup lost', h \in delivered' \cup Logd!OnDisk' \cup late'
      PROVE  \A m \in 1 .. read' : Accounted(m)'
  <2>1. ASSUME NEW m \in 1 .. read' PROVE Accounted(m)'
    <3>1. Accounted(m)
      BY <1>0, <1>1, <2>1
    <3>2. Logd!InHand' = Logd!InHand
      BY <1>1 DEF Logd!InHand
    <3>3. ASSUME NEW i \in 1 .. Len(queue), queue[i] = m PROVE m = h \/ \E j \in 1 .. Len(queue') : queue'[j] = m
      BY <1>3, <3>3
    <3> QED
      BY <1>5, <3>1, <3>2, <3>3 DEF Accounted
  <2> QED
    BY <2>1
<1>6. CASE Logd!WriteMessage(h) /\ UNCHANGED <<spillMode, disk, file, gone, scan, lost, late>>
  <2>1. SinkTyped' /\ delivered' = delivered \cup {h}
    BY <1>0, <1>1, <1>3, <1>6, Delivers
  <2>2. FilesTyped'
    BY <1>0, <1>6, FilesStay DEF FilesTyped
  <2>3. ReplaySound'
    BY <1>0, <1>1, <1>6, <2>1, ReplayStays
  <2>4. Logd!OnDisk' = Logd!OnDisk
    BY <1>6 DEF Logd!OnDisk
  <2>5. \A m \in 1 .. read' : Accounted(m)'
    BY <1>5, <1>6, <2>1, <2>4
  <2>6. Logd!SpillIsReplayed'
    BY <1>0, <1>6, ReplayedStay
  <2>7. ThreadsTyped'
    BY <1>0, <1>4, <1>6 DEF ThreadsTyped
  <2> QED
    BY <2>1, <2>2, <2>3, <2>5, <2>6, <2>7 DEF WorkerSound
<1>7. CASE Logd!WriteMessageFails(h) /\ spillMode' = TRUE /\ Spills(h, TRUE)
  <2>1. SinkTyped' /\ delivered \subseteq delivered'
    BY <1>0, <1>1, <1>3, <1>7, DeliversNot
  <2>2. /\ FilesTyped' /\ scan'.paths = scan.paths /\ lost \subseteq lost' /\ late \subseteq late'
        /\ Logd!OnDisk \subseteq Logd!OnDisk' \cup lost' /\ h \in Logd!OnDisk' \cup late'
    BY <1>0, <1>3, <1>7, SpillFacts
  <2>3. ReplaySound'
    BY <1>0, <1>1, <2>2 DEF ReplaySound
  <2>5. \A m \in 1 .. read' : Accounted(m)'
    BY <1>5, <2>1, <2>2
  <2>6. Logd!SpillIsReplayed'
    BY <1>7 DEF Logd!SpillIsReplayed
  <2>7. ThreadsTyped'
    BY <1>4, <1>7
  <2> QED
    BY <2>1, <2>2, <2>3, <2>5, <2>6, <2>7 DEF WorkerSound
<1> QED
  BY <1>2, <1>6, <1>7 DEF Logd!WriteQueued, Spills


LEMMA ReplaysRound ==
  ASSUME Logd!Parameters, WorkerSound, Logd!ReplayRound
  PROVE  WorkerSound'
<1> USE DEF Logd!spill, Logd!sink
<1>0. /\ ThreadsTyped /\ FilesTyped /\ SinkTyped /\ ReplaySound /\ Logd!SpillIsReplayed
      /\ \A m \in 1 .. read : Accounted(m)
  BY DEF WorkerSound
<1>1. /\ writer = "replay" /\ UNCHANGED <<read, reader, queue, disk, conn, backoff, delivered, up, lost, late, faults>>
  BY DEF Logd!ReplayRound
<1>2. SinkTyped'
  BY <1>0, <1>1 DEF SinkTyped, Logd!Lines, Logd!Parts
<1>3. \A m \in 1 .. read' : Accounted(m)'
  BY <1>0, <1>1, AccountedStay
<1>4. CASE Logd!HasSpill /\ file' = "nil" /\ gone' = 0 /\ scan' = Logd!Opened(Logd!ReplayPaths)
           /\ writer' = (IF Logd!ReplayPaths = {} THEN "replay" ELSE "scan") /\ UNCHANGED spillMode
  <2>1. ThreadsTyped'
    BY <1>0, <1>1, <1>4 DEF ThreadsTyped, Logd!Lines
  <2>2. Logd!SpillIsReplayed'
    BY <1>0, <1>1, <1>4, ReplayedStay
  <2>3. scan' \in Replays /\ (Logd!ReplayPaths = {} => scan'.paths = {})
        /\ (Logd!ReplayPaths # {} => scan'.paths # {} /\ scan'.at = Logd!Max(scan'.paths) /\ scan'.next = 1)
    <3>1. Logd!ReplayPaths \in SUBSET Logd!Paths
      BY DEF Logd!ReplayPaths
    <3>2. CASE Logd!ReplayPaths = {}
      <4>1. scan' = Logd!Replay
        BY <1>4, <3>2 DEF Logd!Opened
      <4> QED
        BY <3>2, <4>1, NoReplay
    <3>3. CASE Logd!ReplayPaths # {}
      BY <1>4, <3>1, <3>3, OpensReplay
    <3> QED
      BY <3>2, <3>3
  <2>4. FilesTyped'
    <3>1. gone' \in 0 .. MaxLines
      BY <1>4 DEF Logd!Parameters
    <3> QED
      BY <1>0, <1>1, <1>4, <2>3, <3>1 DEF FilesTyped, Logd!Paths, Logd!Lines, Replays
  <2>5. ReplaySound'
    <3>1. CASE Logd!ReplayPaths = {}
      BY <1>4, <2>3, <3>1 DEF ReplaySound
    <3>2. CASE Logd!ReplayPaths # {}
      <4>1. writer' = "scan" /\ scan'.next = 1
        BY <1>4, <2>3, <3>2
      <4>2. ReadSoFar'
        <5>1. ASSUME NEW i \in 1 .. Len(disk'[scan'.at]) PROVE ~(writer' = "remove" \/ i < scan'.next)
          BY <4>1
        <5> QED
          BY <5>1 DEF ReadSoFar
      <4> QED
        BY <2>3, <3>2, <4>1, <4>2 DEF ReplaySound
    <3> QED
      BY <3>1, <3>2
  <2> QED
    BY <1>2, <1>3, <2>1, <2>2, <2>4, <2>5 DEF WorkerSound
<1>5. CASE ~Logd!HasSpill /\ spillMode' = FALSE /\ writer' = "loop" /\ UNCHANGED <<file, gone, scan>>
  <2>1. ThreadsTyped'
    BY <1>0, <1>1, <1>5 DEF ThreadsTyped, Logd!Lines
  <2>2. FilesTyped'
    BY <1>0, <1>1, <1>5, FilesStay DEF FilesTyped
  <2>3. ReplaySound'
    <3>1. scan.paths = {}
      BY <1>0, <1>1 DEF ReplaySound
    <3> QED
      BY <1>5, <3>1 DEF ReplaySound
  <2>4. Logd!SpillIsReplayed'
    <3>1. \A p \in Logd!Paths : disk[p] = <<>>
      BY <1>5 DEF Logd!HasSpill
    <3>2. ASSUME NEW x \in Logd!OnDisk PROVE FALSE
      <4>1. PICK p \in Logd!Paths : \E i \in 1 .. Len(disk[p]) : disk[p][i] = x
        BY <1>0, <3>2, OnDiskIs
      <4>2. Len(disk[p]) = 0
        <5>1. disk[p] = <<>>
          BY <3>1
        <5> QED
          BY <5>1
      <4> QED
        BY <4>1, <4>2
    <3>3. Logd!OnDisk' = Logd!OnDisk
      BY <1>1 DEF Logd!OnDisk
    <3> QED
      BY <3>2, <3>3 DEF Logd!SpillIsReplayed
  <2> QED
    BY <1>2, <1>3, <2>1, <2>2, <2>3, <2>4 DEF WorkerSound
<1> QED
  BY <1>4, <1>5 DEF Logd!ReplayRound

\* The file that is read, as long as not all is at risk.
LEMMA ReadFile ==
  ASSUME Logd!Parameters, FilesTyped, ReplaySound, writer \in {"scan", "remove"}
  PROVE  /\ scan.paths \in SUBSET Logd!Paths /\ scan.paths # {}
         /\ Logd!Max(scan.paths) \in scan.paths /\ Logd!Max(scan.paths) \in Logd!Paths
         /\ Logd!OnDisk \subseteq late \/ (scan.at = Logd!Max(scan.paths) /\ ReadSoFar)
<1>1. scan.paths \in SUBSET Logd!Paths /\ scan.paths # {}
  BY DEF FilesTyped, Replays, ReplaySound
<1> QED
  BY <1>1, OldestPath DEF ReplaySound

LEMMA ReplaysLine ==
  ASSUME Logd!Parameters, WorkerSound, Logd!ReplayLine
  PROVE  WorkerSound'
<1> USE DEF Logd!spill, Logd!sink
<1>0. /\ ThreadsTyped /\ FilesTyped /\ SinkTyped /\ ReplaySound /\ Logd!SpillIsReplayed
      /\ \A m \in 1 .. read : Accounted(m)
  BY DEF WorkerSound
<1>1. /\ writer = "scan" /\ scan.next <= Len(Logd!Content)
      /\ UNCHANGED <<read, reader, queue, spillMode, disk, file, gone, up, lost, late>>
  BY DEF Logd!ReplayLine
<1>2. PICK q : q = Logd!Content
  OBVIOUS
<1>3. q \in Seq(Logd!Lines)
  <2>1. scan \in Replays /\ disk \in [Logd!Paths -> Seq(Logd!Lines)]
    BY <1>0 DEF FilesTyped
  <2>2. scan.rest \in Seq(Logd!Lines) /\ scan.at \in Logd!Paths \cup {-1}
    BY <2>1 DEF Replays
  <2> QED
    BY <1>2, <2>1, <2>2 DEF Logd!Content
<1>4. PICK m : m = q[scan.next]
  OBVIOUS
<1>5. m \in Logd!Lines
  <2>1. scan.next \in Nat \ {0} /\ Len(q) \in Nat
    BY <1>0, <1>3 DEF FilesTyped, Replays
  <2>2. scan.next \in 1 .. Len(q)
    BY <1>1, <1>2, <2>1
  <2> QED
    BY <1>3, <1>4, <2>2
<1>6. ThreadsTyped'
  BY <1>0, <1>1 DEF ThreadsTyped, Logd!Lines, Logd!ReplayLine
<1>7. Logd!SpillIsReplayed'
  BY <1>0, <1>1, ReplayedStay
<1>8. CASE Logd!WriteMessage(m) /\ scan' = [scan EXCEPT !.next = @ + 1] /\ UNCHANGED writer
  <2>1. SinkTyped' /\ delivered' = delivered \cup {m}
    BY <1>0, <1>1, <1>5, <1>8, Delivers
  <2>2. PICK n : n = scan.next
    OBVIOUS
  <2>3. /\ n \in Nat \ {0} /\ n + 1 \in Nat \ {0} /\ scan \in Replays /\ scan' = [scan EXCEPT !.next = n + 1]
    BY <1>0, <1>8, <2>2 DEF FilesTyped, Replays
  <2>4. scan' \in Replays /\ scan'.paths = scan.paths /\ scan'.at = scan.at /\ scan'.next = n + 1
    BY <2>3 DEF Replays
  <2>5. FilesTyped'
    BY <1>0, <1>1, <2>4, FilesStay DEF FilesTyped
  <2>6. \A x \in 1 .. read' : Accounted(x)'
    BY <1>0, <1>1, <2>1, AccountedStay
  <2>7. ReplaySound'
    <3>1. scan'.paths # {} /\ writer' = "scan"
      BY <1>0, <1>1, <1>8, <2>4, ReadFile
    <3>2. CASE Logd!OnDisk \subseteq late
      <4>1. Logd!OnDisk' \subseteq late'
        BY <1>1, <3>2 DEF Logd!OnDisk
      <4> QED
        BY <3>1, <4>1 DEF ReplaySound
    <3>3. CASE scan.at = Logd!Max(scan.paths) /\ ReadSoFar
      <4>1. scan'.at = Logd!Max(scan'.paths)
        BY <2>4, <3>3
      <4>2. q = disk[scan.at]
        <5>1. scan.at # -1
          <6>1. scan.at \in 0 .. Rotations
            BY <1>0, <1>1, <3>3, ReadFile DEF Logd!Paths
          <6> QED
            BY <6>1 DEF Logd!Parameters
        <5> QED
          BY <1>2, <5>1 DEF Logd!Content
      <4>3. ASSUME NEW i \in 1 .. Len(disk'[scan'.at]), i < scan'.next
            PROVE  disk'[scan'.at][i] \in delivered' \cup late'
        <5>1. disk'[scan'.at] = q /\ i \in 1 .. Len(q)
          BY <1>1, <2>4, <4>2, <4>3
        <5>2. CASE i = n
          BY <1>4, <2>1, <2>2, <5>1, <5>2
        <5>3. CASE i # n
          <6>1. i < scan.next /\ i \in 1 .. Len(disk[scan.at])
            BY <2>2, <2>3, <2>4, <4>2, <4>3, <5>1, <5>3
          <6>2. q[i] \in delivered \cup late
            BY <3>3, <4>2, <6>1 DEF ReadSoFar
          <6> QED
            BY <1>1, <2>1, <5>1, <6>2
        <5> QED
          BY <5>2, <5>3
      <4>4. ReadSoFar'
        BY <3>1, <4>3 DEF ReadSoFar
      <4> QED
        BY <3>1, <4>1, <4>4 DEF ReplaySound
    <3> QED
      BY <1>0, <1>1, <3>2, <3>3, ReadFile
  <2> QED
    BY <1>6, <1>7, <2>1, <2>5, <2>6, <2>7 DEF WorkerSound
<1>9. CASE Logd!WriteMessageFails(m) /\ scan' = Logd!Replay /\ writer' = "loop"
  <2>1. SinkTyped' /\ delivered \subseteq delivered'
    BY <1>0, <1>1, <1>5, <1>9, DeliversNot
  <2>2. FilesTyped'
    BY <1>0, <1>1, <1>9, NoReplay, FilesStay DEF FilesTyped
  <2>3. \A x \in 1 .. read' : Accounted(x)'
    BY <1>0, <1>1, <2>1, AccountedStay
  <2>4. ReplaySound'
    BY <1>9, NoReplay DEF ReplaySound
  <2> QED
    BY <1>6, <1>7, <2>1, <2>2, <2>3, <2>4 DEF WorkerSound
<1> QED
  BY <1>2, <1>4, <1>8, <1>9 DEF Logd!ReplayLine

LEMMA ReplaysEnd ==
  ASSUME Logd!Parameters, WorkerSound, Logd!ReplayEnd
  PROVE  WorkerSound'
<1> USE DEF Logd!spill, Logd!sink
<1>0. /\ ThreadsTyped /\ FilesTyped /\ SinkTyped /\ ReplaySound /\ Logd!SpillIsReplayed
      /\ \A m \in 1 .. read : Accounted(m)
  BY DEF WorkerSound
<1>1. /\ writer = "scan" /\ scan.next > Len(Logd!Content) /\ writer' = "remove"
      /\ UNCHANGED <<read, reader, queue, spillMode, disk, file, gone, scan>>
      /\ UNCHANGED <<conn, backoff, delivered, up, lost, late, faults>>
  BY DEF Logd!ReplayEnd
<1>2. ThreadsTyped' /\ SinkTyped'
  BY <1>0, <1>1 DEF ThreadsTyped, SinkTyped, Logd!Lines, Logd!Parts
<1>3. FilesTyped'
  BY <1>0, <1>1, FilesStay DEF FilesTyped
<1>4. \A x \in 1 .. read' : Accounted(x)'
  BY <1>0, <1>1, AccountedStay
<1>5. Logd!SpillIsReplayed'
  BY <1>0, <1>1, ReplayedStay
<1>6. ReplaySound'
  <2>1. scan'.paths # {} /\ writer' = "remove"
    BY <1>0, <1>1, ReadFile
  <2>2. CASE Logd!OnDisk \subseteq late
    <3>1. Logd!OnDisk' \subseteq late'
      BY <1>1, <2>2 DEF Logd!OnDisk
    <3> QED
      BY <2>1, <3>1 DEF ReplaySound
  <2>3. CASE scan.at = Logd!Max(scan.paths) /\ ReadSoFar
    <3>1. scan.at \in 0 .. Rotations
      BY <1>0, <1>1, <2>3, ReadFile DEF Logd!Paths
    <3>2. Logd!Content = disk[scan.at]
      BY <3>1 DEF Logd!Content, Logd!Parameters
    <3>3. Len(disk[scan.at]) \in Nat /\ scan.next \in Nat
      BY <1>0, <3>1 DEF FilesTyped, Replays, Logd!Paths
    <3>4. \A i \in 1 .. Len(disk[scan.at]) : i < scan.next
      BY <1>1, <3>2, <3>3
    <3>5. ReadSoFar'
      BY <1>1, <2>3, <3>4 DEF ReadSoFar
    <3>6. scan'.at = Logd!Max(scan'.paths)
      BY <1>1, <2>3
    <3> QED
      BY <2>1, <3>5, <3>6 DEF ReplaySound
  <2> QED
    BY <1>0, <1>1, <2>2, <2>3, ReadFile
<1> QED
  BY <1>2, <1>3, <1>4, <1>5, <1>6 DEF WorkerSound

LEMMA RemovesReplayed ==
  ASSUME Logd!Parameters, WorkerSound, Logd!RemoveReplayed
  PROVE  WorkerSound'
<1> USE DEF Logd!spill, Logd!sink
<1>0. /\ ThreadsTyped /\ FilesTyped /\ SinkTyped /\ ReplaySound /\ Logd!SpillIsReplayed
      /\ \A m \in 1 .. read : Accounted(m)
  BY DEF WorkerSound
<1>1. /\ writer = "remove"
      /\ UNCHANGED <<read, reader, queue, spillMode, conn, backoff, delivered, up, lost, late, faults>>
  BY DEF Logd!RemoveReplayed
<1>2. PICK p : p = Logd!Max(scan.paths)
  OBVIOUS
<1>3. PICK rest : rest = scan.paths \ {p}
  OBVIOUS
<1>4. /\ scan.paths \in SUBSET Logd!Paths /\ scan.paths # {} /\ p \in Logd!Paths
      /\ rest \in SUBSET Logd!Paths
      /\ Logd!OnDisk \subseteq late \/ (scan.at = p /\ ReadSoFar)
  BY <1>0, <1>1, <1>2, <1>3, ReadFile
<1>5. /\ disk' = [disk EXCEPT ![p] = <<>>]
      /\ \/ p = 0 /\ file' = "gone" /\ gone' = Len(disk[0])
         \/ UNCHANGED <<file, gone>>
      /\ \/ scan' = Logd!Replay /\ writer' = "loop"
         \/ rest = {} /\ scan' = Logd!Replay /\ writer' = "replay"
         \/ rest # {} /\ scan' = Logd!Opened(rest) /\ writer' = "scan"
  BY <1>2, <1>3 DEF Logd!RemoveReplayed, Logd!Opened
<1>6. ThreadsTyped' /\ SinkTyped'
  BY <1>0, <1>1, <1>5 DEF ThreadsTyped, SinkTyped, Logd!Lines, Logd!Parts
<1>7. PICK q : q = <<>>
  OBVIOUS
<1>8. /\ disk' \in [Logd!Paths -> Seq(Logd!Lines)] /\ \A x \in Logd!Paths : Len(disk'[x]) <= MaxLines
      /\ disk'[p] = q /\ Len(q) = 0 /\ \A x \in Logd!Paths \ {p} : disk'[x] = disk[x]
  <2>1. q \in Seq(Logd!Lines) /\ Len(q) = 0 /\ 0 <= MaxLines
    BY <1>7 DEF Logd!Parameters
  <2>2. disk \in [Logd!Paths -> Seq(Logd!Lines)] /\ \A x \in Logd!Paths : Len(disk[x]) <= MaxLines
    BY <1>0 DEF FilesTyped
  <2>3. disk' = [disk EXCEPT ![p] = q]
    BY <1>5, <1>7
  <2> HIDE <1>7
  <2> QED
    BY <1>4, <2>1, <2>2, <2>3
<1>9. scan' \in Replays /\ (writer' = "scan" \/ scan'.paths = {})
      /\ (writer' = "scan" => scan'.paths # {} /\ scan'.at = Logd!Max(scan'.paths) /\ scan'.next = 1)
      /\ writer' \in {"loop", "replay", "scan"}
  <2>1. CASE scan' = Logd!Replay /\ writer' \in {"loop", "replay"}
    BY <2>1, NoReplay
  <2>2. CASE rest # {} /\ scan' = Logd!Opened(rest) /\ writer' = "scan"
    BY <1>4, <2>2, OpensReplay
  <2> QED
    BY <1>5, <2>1, <2>2
<1>10. FilesTyped'
  <2>1. file' \in {"nil", "current", "gone"} /\ gone' \in 0 .. MaxLines
    <3>1. CASE p = 0 /\ file' = "gone" /\ gone' = Len(disk[0])
      <4>1. Len(disk[0]) \in Nat /\ Len(disk[0]) <= MaxLines
        BY <1>0, <1>4, <3>1 DEF FilesTyped
      <4> QED
        BY <3>1, <4>1 DEF Logd!Parameters
    <3>2. CASE UNCHANGED <<file, gone>>
      BY <1>0, <3>2 DEF FilesTyped
    <3> QED
      BY <1>5, <3>1, <3>2
  <2>2. lost' \subseteq Logd!Lines /\ late' \subseteq Logd!Lines
    BY <1>0, <1>1 DEF FilesTyped
  <2> QED
    BY <1>8, <1>9, <2>1, <2>2 DEF FilesTyped, Logd!Paths, Logd!Lines, Replays
<1>11. ReplaySound'
  <2>1. CASE writer' = "scan"
    <3>1. \A i \in 1 .. Len(disk'[scan'.at]) : ~(writer' = "remove" \/ i < scan'.next)
      BY <1>9, <2>1
    <3>2. ReadSoFar'
      BY <3>1 DEF ReadSoFar
    <3> QED
      BY <1>9, <2>1, <3>2 DEF ReplaySound
  <2>2. CASE writer' # "scan"
    BY <1>9, <2>2 DEF ReplaySound
  <2> QED
    BY <2>1, <2>2
<1>12. ASSUME NEW x
       PROVE  x \in Logd!OnDisk' <=> \E y \in Logd!Paths : \E i \in 1 .. Len(disk'[y]) : disk'[y][i] = x
  <2>1. \A y \in Logd!Paths : DOMAIN disk'[y] = 1 .. Len(disk'[y])
    BY <1>8
  <2>2. x \in Logd!OnDisk' <=> \E y \in Logd!Paths : x \in Logd!Range(disk'[y])
    BY DEF Logd!OnDisk, Logd!Paths
  <2>3. \A y : x \in Logd!Range(disk'[y]) <=> \E i \in DOMAIN disk'[y] : disk'[y][i] = x
    BY DEF Logd!Range
  <2> QED
    BY <2>1, <2>2, <2>3
<1>13. ASSUME NEW x \in Logd!OnDisk' PROVE x \in Logd!OnDisk
  <2>1. PICK y \in Logd!Paths : \E i \in 1 .. Len(disk'[y]) : disk'[y][i] = x
    BY <1>12
  <2>2. PICK i \in 1 .. Len(disk'[y]) : disk'[y][i] = x
    BY <2>1
  <2>3. y # p
    BY <1>8, <2>2
  <2>4. disk'[y] = disk[y]
    BY <1>8, <2>3
  <2> QED
    BY <1>0, <2>2, <2>4, OnDiskIs
<1>14. ASSUME NEW x \in Logd!OnDisk PROVE x \in Logd!OnDisk' \cup delivered \cup late
  <2>1. CASE Logd!OnDisk \subseteq late
    BY <2>1
  <2>2. CASE scan.at = p /\ ReadSoFar
    <3>1. PICK y \in Logd!Paths : \E i \in 1 .. Len(disk[y]) : disk[y][i] = x
      BY <1>0, OnDiskIs
    <3>2. PICK i \in 1 .. Len(disk[y]) : disk[y][i] = x
      BY <3>1
    <3>3. CASE y = p
      BY <1>1, <2>2, <3>2, <3>3 DEF ReadSoFar
    <3>4. CASE y # p
      <4>1. disk'[y] = disk[y]
        BY <1>8, <3>4
      <4> QED
        BY <1>12, <3>2, <4>1
    <3> QED
      BY <3>3, <3>4
  <2> QED
    BY <1>4, <2>1, <2>2
<1>15. ASSUME NEW m \in 1 .. read' PROVE Accounted(m)'
  <2>1. Accounted(m)
    BY <1>0, <1>1
  <2>2. Logd!InHand' = Logd!InHand
    BY <1>1 DEF Logd!InHand
  <2> QED
    BY <1>1, <1>14, <2>1, <2>2 DEF Accounted
<1>16. Logd!SpillIsReplayed'
  BY <1>0, <1>1, <1>13 DEF Logd!SpillIsReplayed
<1> QED
  BY <1>6, <1>10, <1>11, <1>15, <1>16 DEF WorkerSound

\* The steps that leave lines and files alone.
LEMMA LeavesLines ==
  ASSUME Logd!Parameters, WorkerSound,
         UNCHANGED <<read, queue, disk, file, gone, scan, delivered, lost, late>>,
         spillMode' \in BOOLEAN, spillMode => spillMode', Logd!InHand' = Logd!InHand,
         ThreadsTyped', SinkTyped',
         writer' = writer \/ {writer, writer'} \cap {"scan", "remove"} = {}
  PROVE  WorkerSound'
<1>0. /\ ThreadsTyped /\ FilesTyped /\ SinkTyped /\ ReplaySound /\ Logd!SpillIsReplayed
      /\ \A m \in 1 .. read : Accounted(m)
  BY DEF WorkerSound
<1>1. FilesTyped'
  BY <1>0, FilesStay DEF FilesTyped
<1>2. ReplaySound'
  BY <1>0, ReplayStays
<1>3. ASSUME NEW m \in 1 .. read' PROVE Accounted(m)'
  <2>1. Accounted(m)
    BY <1>0
  <2>2. Logd!OnDisk' = Logd!OnDisk
    BY DEF Logd!OnDisk
  <2> QED
    BY <2>1, <2>2 DEF Accounted
<1>4. Logd!SpillIsReplayed'
  BY <1>0, ReplayedStay
<1> QED
  BY <1>1, <1>2, <1>3, <1>4 DEF WorkerSound

LEMMA WorkerGoesOn ==
  ASSUME Logd!Parameters, WorkerSound, [Logd!Next]_(Logd!vars)
  PROVE  WorkerSound'
<1> USE DEF Logd!spill, Logd!sink
<1>0. ThreadsTyped /\ SinkTyped
  BY DEF WorkerSound
<1>1. CASE Logd!EnqueueTimeout
  <2>1. /\ reader = "send" /\ reader' = "spill" /\ spillMode' = TRUE
        /\ UNCHANGED <<read, queue, disk, file, gone, writer, scan>>
        /\ UNCHANGED <<conn, backoff, delivered, up, lost, late, faults>>
    BY <1>1 DEF Logd!EnqueueTimeout
  <2>2. ThreadsTyped' /\ SinkTyped'
    BY <1>0, <2>1 DEF ThreadsTyped, SinkTyped, Logd!Lines, Logd!Parts
  <2>3. Logd!InHand' = Logd!InHand
    BY <2>1 DEF Logd!InHand
  <2> QED
    BY <2>1, <2>2, <2>3, LeavesLines
<1>2. CASE Logd!WriterEnds \/ Logd!ReplayStarts
  <2>1. /\ writer = "loop" /\ writer' \in {"done", "replay"}
        /\ UNCHANGED <<read, reader, queue, spillMode, disk, file, gone, scan>>
        /\ UNCHANGED <<conn, backoff, delivered, up, lost, late, faults>>
    BY <1>2 DEF Logd!WriterEnds, Logd!ReplayStarts
  <2>2. ThreadsTyped' /\ SinkTyped'
    BY <1>0, <2>1 DEF ThreadsTyped, SinkTyped, Logd!Lines, Logd!Parts
  <2>3. Logd!InHand' = Logd!InHand /\ spillMode' \in BOOLEAN
    BY <1>0, <2>1 DEF Logd!InHand, ThreadsTyped
  <2>4. {writer, writer'} \cap {"scan", "remove"} = {}
    BY <2>1
  <2> QED
    BY <2>1, <2>2, <2>3, <2>4, LeavesLines
<1>3. CASE Logd!BackoffEnds \/ Logd!BrokerCloses \/ (\E p \in Logd!Parts : Logd!PartFails(p)) \/ Logd!PartsRecover
  <2>1. UNCHANGED <<read, reader, queue, spillMode, disk, file, gone, writer, scan, delivered, lost, late>>
    BY <1>3 DEF Logd!BackoffEnds, Logd!BrokerCloses, Logd!PartFails, Logd!PartsRecover
  <2>2. conn' \in {"nil", "open", "stale"} /\ backoff' \in BOOLEAN /\ up' \subseteq Logd!Parts
    BY <1>0, <1>3 DEF Logd!BackoffEnds, Logd!BrokerCloses, Logd!PartFails, Logd!PartsRecover, SinkTyped
  <2>3. faults' = faults \/ (faults < LogFaults /\ faults' = faults + 1)
    BY <1>3 DEF Logd!BackoffEnds, Logd!BrokerCloses, Logd!PartFails, Logd!PartsRecover, Logd!Fault
  <2>4. faults' \in 0 .. LogFaults
    BY <1>0, <2>3 DEF SinkTyped, Logd!Parameters
  <2>5. ThreadsTyped' /\ SinkTyped'
    BY <1>0, <2>1, <2>2, <2>4 DEF ThreadsTyped, SinkTyped, Logd!Lines, Logd!Parts
  <2>6. Logd!InHand' = Logd!InHand /\ spillMode' \in BOOLEAN
    BY <1>0, <2>1 DEF Logd!InHand, ThreadsTyped
  <2> QED
    BY <2>1, <2>5, <2>6, LeavesLines
<1>4. CASE UNCHANGED Logd!vars
  <2>1. UNCHANGED <<read, reader, queue, spillMode, disk, file, gone, writer, scan, delivered, lost, late>>
        /\ UNCHANGED <<conn, backoff, up, faults>>
    BY <1>4 DEF Logd!vars
  <2>2. ThreadsTyped' /\ SinkTyped'
    BY <1>0, <2>1 DEF ThreadsTyped, SinkTyped, Logd!Lines, Logd!Parts
  <2>3. Logd!InHand' = Logd!InHand /\ spillMode' \in BOOLEAN
    BY <1>0, <2>1 DEF Logd!InHand, ThreadsTyped
  <2> QED
    BY <2>1, <2>2, <2>3, LeavesLines
<1> QED
  BY <1>1, <1>2, <1>3, <1>4, ReadsLine, Enqueues, SpillsLine, WritesQueued, ReplaysRound, ReplaysLine,
     ReplaysEnd, RemovesReplayed DEF Logd!Next, Logd!ReaderStep, Logd!WriterStep

LEMMA WorkerArrives ==
  ASSUME Logd!Parameters, WorkerSound
  PROVE  Logd!TypeOK /\ Logd!NothingVanishes /\ Logd!SpillIsReplayed
<1>0. /\ ThreadsTyped /\ FilesTyped /\ SinkTyped /\ Logd!SpillIsReplayed
      /\ \A m \in 1 .. read : Accounted(m)
  BY DEF WorkerSound
<1>1. queue \in Seq(Logd!Lines) /\ Len(queue) \in 0 .. QueueSize
  BY <1>0 DEF ThreadsTyped, Logd!Parameters
<1>2. queue \in Logd!BoundedSeq(Logd!Lines, QueueSize)
  BY <1>1 DEF Logd!BoundedSeq, Logd!SeqOf
<1>3. \A p \in Logd!Paths : Logd!Range(disk[p]) \subseteq Logd!Lines /\ Len(disk[p]) <= MaxLines
  <2>1. ASSUME NEW p \in Logd!Paths PROVE Logd!Range(disk[p]) \subseteq Logd!Lines
    <3>1. disk[p] \in Seq(Logd!Lines)
      BY <1>0 DEF FilesTyped
    <3> QED
      BY <3>1 DEF Logd!Range
  <2> QED
    BY <1>0, <2>1 DEF FilesTyped
<1>4. scan.paths \subseteq Logd!Paths /\ scan.at \in Logd!Paths \cup {-1}
  BY <1>0 DEF FilesTyped, Replays
<1>5. Logd!TypeOK
  BY <1>0, <1>2, <1>3, <1>4 DEF Logd!TypeOK, ThreadsTyped, FilesTyped, SinkTyped
<1>6. ASSUME NEW m \in 1 .. read
      PROVE  m \in delivered \cup Logd!Range(queue) \cup Logd!InHand \cup Logd!OnDisk \cup lost \cup late
  <2>1. ASSUME NEW i \in 1 .. Len(queue), queue[i] = m PROVE m \in Logd!Range(queue)
    <3>1. i \in DOMAIN queue
      BY <1>1
    <3> QED
      BY <2>1, <3>1 DEF Logd!Range
  <2> QED
    BY <1>0, <2>1 DEF Accounted
<1> QED
  BY <1>0, <1>5, <1>6 DEF Logd!NothingVanishes


-----------------------------------------------------------------------------
(* A behaviour is one of a single daemon, which keeps its own invariant.     *)

DaemonsSound ==
  /\ part = "worker" => WorkerSound
  /\ part = "broker" => ConnectionsSound
  /\ part = "api" => ServerSound
  /\ part = "user" => InvocationsSound

LEMMA DaemonsBegin == DaemonInit => DaemonsSound
BY DaemonAssumption, WorkerBegins, ConnectionsBegin, ServerBegins, InvocationsBegin
DEF DaemonInit, LogdInit, BrokerInit, ApiInit, UserInit, DaemonsSound

LEMMA DaemonsGoOn == DaemonsSound /\ [DaemonNext]_daemonVars => DaemonsSound'
<1> SUFFICES ASSUME DaemonsSound, [DaemonNext]_daemonVars PROVE DaemonsSound'
  OBVIOUS
<1>p. Logd!Parameters /\ Broker!Parameters /\ Api!Parameters /\ User!Parameters
  BY DaemonAssumption
<1>0. part' = part
  BY DEF DaemonNext, LogdNext, BrokerNext, ApiNext, UserNext, daemonVars
<1>1. CASE part = "worker"
  <2>1. [Logd!Next]_(Logd!vars)
    BY <1>1 DEF DaemonNext, LogdNext, BrokerNext, ApiNext, UserNext, daemonVars
  <2> QED
    BY <1>p, <1>0, <1>1, <2>1, WorkerGoesOn DEF DaemonsSound
<1>2. CASE part = "broker"
  <2>1. [Broker!Next]_(Broker!vars)
    BY <1>2 DEF DaemonNext, LogdNext, BrokerNext, ApiNext, UserNext, daemonVars
  <2> QED
    BY <1>p, <1>0, <1>2, <2>1, ConnectionsGoOn DEF DaemonsSound
<1>3. CASE part = "api"
  <2>1. [Api!Next]_(Api!vars)
    BY <1>3 DEF DaemonNext, LogdNext, BrokerNext, ApiNext, UserNext, daemonVars
  <2> QED
    BY <1>p, <1>0, <1>3, <2>1, ServerGoesOn DEF DaemonsSound
<1>4. CASE part = "user"
  <2>1. [User!Next]_(User!vars)
    BY <1>4 DEF DaemonNext, LogdNext, BrokerNext, ApiNext, UserNext, daemonVars
  <2> QED
    BY <1>p, <1>0, <1>4, <2>1, InvocationsGoOn DEF DaemonsSound
<1> QED
  BY <1>0, <1>1, <1>2, <1>3, <1>4 DEF DaemonsSound

(* A line that the worker of sys-logd has read is delivered, queued, in      *)
(* hand or in a spill file, unless it was given up with a message or the     *)
(* reader spilled while files were replayed, and spill mode ends only when   *)
(* the files are replayed; the broker's limiter counts the connections that  *)
(* hold a slot, each once, whichever way they end (worker.go routeMessage,   *)
(* runWriter; spill.go WriteLine, ReplayTo; broker.go tryAcquire, release).  *)
THEOREM LogdCorrect == DaemonSpec => []LogdSound
<1>1. DaemonsSound => LogdSound
  BY DaemonAssumption, WorkerArrives, ConnectionsArrive DEF DaemonsSound, LogdSound
<1> QED
  BY <1>1, DaemonsBegin, DaemonsGoOn, PTL DEF DaemonSpec

(* servicectl-api says that it is ready only after a refresh of its own has  *)
(* filled the lists and both sockets listen; what a stream writes are the    *)
(* events published since it subscribed, without a gap, and its channel is   *)
(* closed once, by whichever of a full channel and a leaving client comes    *)
(* first (servicectl_api.go runServicectlAPI, publish, unsubscribe).         *)
THEOREM ApiCorrect == DaemonSpec => []ApiSound
<1>1. DaemonsSound => ApiSound
  BY ServerArrives DEF DaemonsSound, ApiSound
<1> QED
  BY <1>1, DaemonsBegin, DaemonsGoOn, PTL DEF DaemonSpec

(* Of any number of invocations of servicectl --user, one starts a Dinit,    *)
(* however long it takes to answer and wherever the others are: there are    *)
(* more only where an instance answered once and then did not                *)
(* (ensureUserModeReady, the lock on the runtime directory).                 *)
THEOREM UserCorrect == DaemonSpec => []UserSound
<1>1. DaemonsSound => UserSound
  BY InvocationsArrive DEF DaemonsSound, UserSound
<1> QED
  BY <1>1, DaemonsBegin, DaemonsGoOn, PTL DEF DaemonSpec
=============================================================================
