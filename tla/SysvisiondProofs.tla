-------------------------- MODULE SysvisiondProofs --------------------------
(* Machine-checked properties of Sysvisiond, for every value of its constants. *)
EXTENDS Sysvisiond, TLAPS

-----------------------------------------------------------------------------
(* Type correctness. *)

LEMMA UnitFacts ==
  /\ Units \subseteq Nat
  /\ "loop" \in Refreshers /\ Queries \subseteq Refreshers
  /\ Nobody \notin Refreshers /\ "loop" \notin Queries
  BY VisionAssumption DEF Units, Refreshers, Nobody

LEMMA NoteFacts ==
  TypeOK => [note EXCEPT !["bridge"] = <<>>] \in [Sources -> Seq(Units)]
<1>1. TypeOK => note \in [Sources -> Seq(Units)]
  BY DEF TypeOK
<1>2. <<>> \in Seq(Units)
  OBVIOUS
<1> QED
  BY <1>1, <1>2

LEMMA LogFacts ==
  ASSUME TypeOK, NEW i \in DOMAIN log
  PROVE  log[i] \in Events /\ log[i].unit \in Units /\ log[i].gen \in Nat
<1>1. log \in Seq(Events)
  BY DEF TypeOK
<1>2. log[i] \in Events
  BY <1>1
<1> QED
  BY <1>2 DEF Events

LEMMA BroadcastType ==
  ASSUME TypeOK, NEW e \in Events, Broadcast(e)
  PROVE  /\ sub' \in [Subs -> {"off", "open", "cut", "ended", "gone"}]
         /\ queue' \in [Subs -> Seq(Events)]
         /\ \A s \in Subs : Len(queue'[s]) <= Buffer
         /\ out' = out
         /\ log' \in Seq(Events)
<1> USE DEF TypeOK, Broadcast
<1>1. \A s \in Subs : queue[s] \in Seq(Events) /\ Len(queue[s]) \in Nat
  OBVIOUS
<1>2. \A s \in Subs : queue'[s] \in Seq(Events)
  BY <1>1
<1>3. \A s \in Subs : Len(queue'[s]) <= Buffer
  BY <1>1, VisionAssumption
<1> QED
  BY <1>2, <1>3

LEMMA TypeInit == Init => TypeOK
<1> SUFFICES ASSUME Init PROVE TypeOK
  OBVIOUS
<1> USE UnitFacts, VisionAssumption DEF Init
<1>1. /\ up \in [Units -> {"up", "down", "absent"}]
      /\ ver \in [Units -> Nat] /\ shown \in [Units -> Nat]
  OBVIOUS
<1>2. /\ note \in [Sources -> Seq(Units)]
      /\ spc \in [Sources -> {"recv", "request"}]
  OBVIOUS
<1>3. norm \in [Units -> Entries] /\ units \in [Units -> Entries]
  BY DEF None, Entries, Lives
<1>4. /\ pc \in [Refreshers -> {"idle", "want", "busy", "answer", "done"}]
      /\ \A r \in Refreshers : pc[r] = "busy" <=> holder = r
  BY DEF Nobody
<1>5. asked \in [Queries -> [Units -> Nat]]
  OBVIOUS
<1>6. view \in [Units -> Views]
  BY DEF NoView, Views
<1>7. /\ sub \in [Subs -> {"off", "open", "cut", "ended", "gone"}]
      /\ queue \in [Subs -> Seq(Events)]
      /\ \A s \in Subs : Len(queue[s]) <= Buffer
      /\ out \in [Subs -> Seq(Events)]
      /\ log \in Seq(Events)
  OBVIOUS
<1> QED
  BY <1>1, <1>2, <1>3, <1>4, <1>5, <1>6, <1>7 DEF TypeOK

(* Every step keeps the types. *)
LEMMA TypeNext == TypeOK /\ [Next]_vars => TypeOK'
<1> SUFFICES ASSUME TypeOK, [Next]_vars PROVE TypeOK'
  OBVIOUS
<1> USE UnitFacts, VisionAssumption
    DEF TypeOK, worldVars, sourceVars, tableVars, workVars, askVars, watchVars
<1>1. ASSUME NEW u \in Units, Change(u) PROVE TypeOK'
  <2>1. up' \in [Units -> {"up", "down", "absent"}] /\ ver' \in [Units -> Nat]
    BY <1>1 DEF Change
  <2>2. \A src \in Sources : Append(note[src], u) \in Seq(Units)
    OBVIOUS
  <2>3. note' \in [Sources -> Seq(Units)] /\ lost' \in BOOLEAN
    BY <1>1, <2>2, ZenonT(40) DEF Change
  <2> QED
    BY <1>1, <2>1, <2>3, ZenonT(40) DEF Change
<1>2. CASE BridgeConnect
  BY <1>2 DEF BridgeConnect
<1>3. CASE BridgeBreak
  <2>0. note' = [note EXCEPT !["bridge"] = <<>>]
    BY <1>3, Zenon DEF BridgeBreak
  <2>1. note' \in [Sources -> Seq(Units)]
    BY <2>0, NoteFacts
  <2>2. lost' \in BOOLEAN
    BY <1>3, Zenon DEF BridgeBreak
  <2> QED
    BY <1>3, <2>1, <2>2 DEF BridgeBreak
<1>4. ASSUME NEW src \in Sources, SourceReceive(src) PROVE TypeOK'
  <2>1. Head(note[src]) \in Units /\ Tail(note[src]) \in Seq(Units)
    BY <1>4 DEF SourceReceive
  <2> DEFINE e == [unit |-> Head(note[src]), life |-> "report", inst |-> 0, gen |-> 0,
                   mode |-> TRUE]
  <2>2. e \in Events
    BY <2>1 DEF Events, Lives
  <2>3. Broadcast(e)
    BY <1>4 DEF SourceReceive
  <2> HIDE DEF e
  <2>4. note' \in [Sources -> Seq(Units)] /\ spc' \in [Sources -> {"recv", "request"}]
    BY <1>4, <2>1 DEF SourceReceive
  <2>5. /\ sub' \in [Subs -> {"off", "open", "cut", "ended", "gone"}]
        /\ queue' \in [Subs -> Seq(Events)]
        /\ \A s \in Subs : Len(queue'[s]) <= Buffer
        /\ out' = out
        /\ log' \in Seq(Events)
    BY <2>2, <2>3, BroadcastType
  <2> QED
    BY <1>4, <2>4, <2>5 DEF SourceReceive
<1>5. ASSUME NEW src \in Sources, SourceRequest(src) PROVE TypeOK'
  BY <1>5 DEF SourceRequest
<1>6. CASE LoopWake
  BY <1>6, ZenonT(40) DEF LoopWake
<1>7. ASSUME NEW r \in Refreshers, Lock(r) PROVE TypeOK'
  BY <1>7 DEF Lock
<1>8. CASE RefreshUpstream
  BY <1>8 DEF RefreshUpstream
<1>9. ASSUME NEW u \in Units, FetchUnit(u) PROVE TypeOK'
  BY <1>9 DEF FetchUnit, Views
<1>10. CASE RefreshFail
  BY <1>10 DEF RefreshFail, Unlock, NoView, Views
<1>11. CASE Normalize
  <2>1. PICK gone \in SUBSET Ended : 
     LET Inst(u) == IF view[u].st = "up" /\ u \notin gone THEN view[u].ver + 1 ELSE 0
       IN  /\ norm' = [u \in Units |-> NextEntry(norm[u], Inst(u), view[u].st # "absent")]
           /\ casting' = {u \in Units : Advances(norm[u], Inst(u))}
    BY <1>11 DEF Normalize
  <2>2. ASSUME NEW prev \in Entries, NEW inst \in Nat, NEW listed
        PROVE NextEntry(prev, inst, listed) \in Entries
    BY DEF NextEntry, Entries, Lives
  <2>3. \A u \in Units : view[u].ver \in Nat
    BY DEF Views
  <2>4. norm' \in [Units -> Entries] /\ casting' \subseteq Units
    BY <2>1, <2>2, <2>3
  <2> QED
    BY <1>11, <2>4 DEF Normalize
<1>12. CASE Swap
  BY <1>12 DEF Swap, None, Entries, Lives, Views
<1>13. CASE NotifyReady
  BY <1>13 DEF NotifyReady
<1>14. CASE Cast
  <2>1. PICK u \in casting : casting' = casting \ {u} /\ Broadcast(LifecycleEvent(u))
    BY <1>14 DEF Cast
  <2>2. LifecycleEvent(u) \in Events
    BY <2>1 DEF LifecycleEvent, Events, Entries, Views
  <2> QED
    BY <1>14, <2>1, <2>2, BroadcastType DEF Cast
<1>15. CASE Finish
  BY <1>15 DEF Finish, Unlock, NoView, Views
<1>16. ASSUME NEW q \in Queries, Ask(q) PROVE TypeOK'
  BY <1>16 DEF Ask
<1>17. ASSUME NEW q \in Queries, Answer(q) PROVE TypeOK'
  BY <1>17 DEF Answer
<1>18. ASSUME NEW s \in Subs, Watch(s) PROVE TypeOK'
  <2> USE DEF WatchStep
  <2>1. CASE Subscribe(s)
    BY <2>1 DEF Subscribe
  <2>2. CASE Deliver(s)
    BY <2>2 DEF Deliver
  <2>3. CASE EndOfStream(s)
    BY <2>3 DEF EndOfStream
  <2>4. CASE Disconnect(s)
    BY <2>4 DEF Disconnect
  <2> QED
    BY <1>18, <2>1, <2>2, <2>3, <2>4 DEF Watch
<1>19. CASE UNCHANGED vars
  BY <1>19 DEF vars
<1> QED
  BY <1>1, <1>2, <1>3, <1>4, <1>5, <1>6, <1>7, <1>8, <1>9, <1>10, <1>11, <1>12,
     <1>13, <1>14, <1>15, <1>16, <1>17, <1>18, <1>19 DEF Next, Refresh

(* Every state of the daemon is type correct. *)
THEOREM TypeCorrect == Spec => []TypeOK
<1>1. Init => TypeOK
  BY TypeInit
<1>2. TypeOK /\ [Next]_vars => TypeOK'
  BY TypeNext
<1> QED
  BY <1>1, <1>2, PTL DEF Spec
-----------------------------------------------------------------------------
(* Generations.  The events already broadcast are compared with the          *)
(* normalizer rather than with each other: an event is never ahead of its    *)
(* unit's entry, is behind it while the unit still waits for its event, and  *)
(* agrees with it when the numbers are equal.                                *)

EntryOK(n) ==
  /\ n.life # "ready" => n.inst = 0
  /\ n.life = "none" => n.gen = 0

Behind(e, n, pending) ==
  Lifecycle(e) =>
    /\ 1 <= e.gen /\ e.gen <= n.gen
    /\ pending => e.gen < n.gen
    /\ e.gen = n.gen => e.life = n.life /\ e.inst = n.inst

Numbered ==
  /\ \A u \in Units : EntryOK(norm[u])
  /\ \A u \in casting : 1 <= norm[u].gen
  /\ stage \notin {"swap", "ready", "cast"} => casting = {}
  /\ holder = Nobody => stage = "none"

Logged ==
  \A i \in DOMAIN log : Behind(log[i], norm[log[i].unit], log[i].unit \in casting)

\* Except between Update and the replacement of the table.
Tabled ==
  stage # "swap" => \A u \in Units : units[u].life = "none" \/ units[u] = norm[u]

GenInv == Numbered /\ Logged /\ Tabled /\ GenerationOrder /\ SnapshotNotBehind

(* normalizer.Update: the generation moves with every announced change, and  *)
(* nothing else that an event mentions moves without it.                     *)
LEMMA NextEntryFacts ==
  ASSUME NEW prev \in Entries, NEW inst \in Nat, NEW listed, EntryOK(prev)
  PROVE  LET next == NextEntry(prev, inst, listed)
         IN  /\ EntryOK(next)
             /\ Advances(prev, inst) => next.gen = prev.gen + 1
             /\ ~Advances(prev, inst) =>
                  /\ next.gen = prev.gen /\ next.inst = prev.inst
                  /\ prev.life = "none" \/ next.life = prev.life
  BY DEF NextEntry, Advances, EntryOK, Entries, Lives

(* Appending an event that is not behind what was sent keeps the log in      *)
(* order.                                                                    *)
LEMMA LogAppend ==
  ASSUME TypeOK, NEW e \in Events, Broadcast(e)
  PROVE  /\ DOMAIN log' = 1 .. Len(log) + 1
         /\ DOMAIN log = 1 .. Len(log) /\ Len(log) \in Nat
         /\ \A i \in DOMAIN log : log'[i] = log[i] /\ log[i] \in Events
         /\ log'[Len(log) + 1] = e
<1>1. log \in Seq(Events) /\ log' = Append(log, e)
  BY DEF TypeOK, Broadcast
<1> QED
  BY <1>1

LEMMA GenInit == Init => GenInv
  BY UnitFacts DEF Init, GenInv, Numbered, Logged, Tabled, GenerationOrder,
     SnapshotNotBehind, EntryOK, None

LEMMA GenNext == TypeOK /\ GenInv /\ [Next]_vars => GenInv'
<1> SUFFICES ASSUME TypeOK, GenInv, [Next]_vars PROVE GenInv'
  OBVIOUS
<1> USE UnitFacts
    DEF GenInv, Numbered, Logged, Tabled, GenerationOrder, SnapshotNotBehind,
        worldVars, sourceVars, tableVars, workVars, askVars, watchVars
<1>1. ASSUME NEW u \in Units, Change(u) PROVE GenInv'
  BY <1>1 DEF Change
<1>2. CASE BridgeConnect
  BY <1>2 DEF BridgeConnect
<1>3. CASE BridgeBreak
  BY <1>3 DEF BridgeBreak
<1>4. ASSUME NEW src \in Sources, SourceReceive(src) PROVE GenInv'
  <2> DEFINE e == [unit |-> Head(note[src]), life |-> "report", inst |-> 0, gen |-> 0,
                   mode |-> TRUE]
  <2>1. Head(note[src]) \in Units
    BY <1>4 DEF SourceReceive, TypeOK
  <2>2. e \in Events /\ Broadcast(e) /\ ~Lifecycle(e)
    BY <1>4, <2>1 DEF SourceReceive, Events, Lives, Lifecycle
  <2> HIDE DEF e
  <2>3. UNCHANGED <<norm, units, casting, stage, holder>>
    BY <1>4 DEF SourceReceive
  <2>4. Logged'
    BY <2>2, <2>3, LogAppend DEF Behind
  <2>5. GenerationOrder'
    BY <2>2, LogAppend
  <2>6. SnapshotNotBehind'
    BY <2>2, <2>3, LogAppend
  <2> QED
    BY <2>3, <2>4, <2>5, <2>6
<1>5. ASSUME NEW src \in Sources, SourceRequest(src) PROVE GenInv'
  BY <1>5 DEF SourceRequest
<1>6. CASE LoopWake
  BY <1>6 DEF LoopWake
<1>7. ASSUME NEW r \in Refreshers, Lock(r) PROVE GenInv'
  BY <1>7 DEF Lock
<1>8. CASE RefreshUpstream
  BY <1>8 DEF RefreshUpstream
<1>9. ASSUME NEW u \in Units, FetchUnit(u) PROVE GenInv'
  BY <1>9 DEF FetchUnit
<1>10. CASE RefreshFail
  BY <1>10 DEF RefreshFail, Unlock
<1>11. CASE Normalize
  <2>1. PICK gone \in SUBSET Ended :
     LET Inst(u) == IF view[u].st = "up" /\ u \notin gone THEN view[u].ver + 1 ELSE 0
     IN  /\ norm' = [u \in Units |-> NextEntry(norm[u], Inst(u), view[u].st # "absent")]
         /\ casting' = {u \in Units : Advances(norm[u], Inst(u))}
    BY <1>11 DEF Normalize
  <2> DEFINE Inst(u) == IF view[u].st = "up" /\ u \notin gone THEN view[u].ver + 1 ELSE 0
  <2>2. \A u \in Units : Inst(u) \in Nat /\ norm[u] \in Entries
    BY DEF TypeOK, Views
  <2>3. /\ \A u \in Units : norm'[u] = NextEntry(norm[u], Inst(u), view[u].st # "absent")
        /\ \A u \in Units : u \in casting' <=> Advances(norm[u], Inst(u))
        /\ casting' \subseteq Units
    BY <2>1
  <2> HIDE DEF Inst
  <2>4. \A u \in Units :
          /\ EntryOK(norm'[u])
          /\ u \in casting' => norm'[u].gen = norm[u].gen + 1
          /\ u \notin casting' =>
               /\ norm'[u].gen = norm[u].gen /\ norm'[u].inst = norm[u].inst
               /\ norm[u].life = "none" \/ norm'[u].life = norm[u].life
    BY <2>2, <2>3, NextEntryFacts
  <2>5. UNCHANGED <<log, units, holder>> /\ stage = "stat" /\ stage' = "swap"
    BY <1>11 DEF Normalize
  <2>6. \A i \in DOMAIN log : log[i] \in Events /\ log[i].unit \in Units /\ log[i].gen \in Nat
    BY LogFacts
  <2>7. \A u \in Units : norm[u].gen \in Nat
    BY <2>2 DEF Entries
  <2>8. Logged'
    <3> SUFFICES ASSUME NEW i \in DOMAIN log
                 PROVE  Behind(log[i], norm'[log[i].unit], log[i].unit \in casting')
      BY <2>5
    <3>1. Behind(log[i], norm[log[i].unit], FALSE) /\ EntryOK(norm[log[i].unit])
      BY <2>6 DEF Behind
    <3> DEFINE u == log[i].unit
    <3>2. u \in Units /\ log[i].gen \in Nat /\ norm[u].gen \in Nat
      BY <2>6, <2>7
    <3>3. CASE u \in casting'
      <4>1. norm'[u].gen = norm[u].gen + 1
        BY <3>2, <3>3, <2>4
      <4>2. Lifecycle(log[i]) => 1 <= log[i].gen /\ log[i].gen <= norm[u].gen
        BY <3>1 DEF Behind
      <4>3. Lifecycle(log[i]) => log[i].gen < norm'[u].gen /\ log[i].gen # norm'[u].gen
        BY <3>2, <4>1, <4>2
      <4>4. Lifecycle(log[i]) => log[i].gen <= norm'[u].gen
        BY <3>2, <4>1, <4>2
      <4> HIDE DEF GenInv, Numbered, Logged, Tabled, GenerationOrder, SnapshotNotBehind
      <4> QED
        BY <4>2, <4>3, <4>4, Zenon DEF Behind
    <3>4. CASE u \notin casting'
      <4>1. /\ norm'[u].gen = norm[u].gen /\ norm'[u].inst = norm[u].inst
            /\ norm[u].life = "none" \/ norm'[u].life = norm[u].life
        BY <3>2, <3>4, <2>4
      <4>2. Lifecycle(log[i]) => norm[u].life # "none"
        BY <3>1, <3>2 DEF Behind, EntryOK
      <4> QED
        BY <3>1, <3>4, <4>1, <4>2 DEF Behind
    <3> QED
      BY <3>3, <3>4
  <2>9. Numbered'
    BY <2>3, <2>4, <2>5, <2>7
  <2> QED
    BY <2>5, <2>8, <2>9
<1>12. CASE Swap
  <2>1. UNCHANGED <<norm, casting, log, holder>> /\ stage' = "ready" /\ stage = "swap"
    BY <1>12 DEF Swap
  <2>2. \A u \in Units : units'[u].life = "none" \/ units'[u] = norm[u]
    BY <1>12 DEF Swap, None
  <2>3. \A i \in DOMAIN log : log[i].unit \in Units
    BY LogFacts
  <2>4. SnapshotNotBehind'
    <3> SUFFICES ASSUME NEW i \in DOMAIN log, Lifecycle(log[i]),
                        units'[log[i].unit].life # "none"
                 PROVE  /\ log[i].gen <= units'[log[i].unit].gen
                        /\ log[i].gen = units'[log[i].unit].gen =>
                             /\ log[i].life = units'[log[i].unit].life
                             /\ log[i].inst = units'[log[i].unit].inst
      BY <2>1
    <3>1. units'[log[i].unit] = norm[log[i].unit]
      BY <2>2, <2>3
    <3> QED
      BY <3>1 DEF Behind
  <2> QED
    BY <2>1, <2>2, <2>4
<1>13. CASE NotifyReady
  BY <1>13 DEF NotifyReady
<1>14. CASE Cast
  <2>1. PICK u \in casting : casting' = casting \ {u} /\ Broadcast(LifecycleEvent(u))
    BY <1>14 DEF Cast
  <2> DEFINE e == LifecycleEvent(u)
  <2>2. u \in Units /\ norm[u] \in Entries /\ norm[u].gen \in Nat
    BY <2>1 DEF TypeOK, Entries
  <2>3. e \in Events
    BY <2>2 DEF LifecycleEvent, Events, Entries, TypeOK
  <2>4. e.unit = u /\ e.life = norm[u].life /\ e.inst = norm[u].inst /\ e.gen = norm[u].gen
    BY DEF LifecycleEvent
  <2>5. Broadcast(e) /\ 1 <= e.gen
    BY <2>1, <2>4
  <2> HIDE DEF e
  <2>6. UNCHANGED <<norm, units, stage, holder>> /\ stage = "cast"
    BY <1>14 DEF Cast
  <2>7. \A i \in DOMAIN log : log[i].unit \in Units /\ log[i].gen \in Nat
    BY LogFacts
  <2>8. Logged'
    <3> SUFFICES ASSUME NEW i \in DOMAIN log'
                 PROVE  Behind(log'[i], norm[log'[i].unit], log'[i].unit \in casting')
      BY <2>6
    <3>1. CASE i \in DOMAIN log
      BY <3>1, <2>1, <2>3, <2>5, LogAppend DEF Behind
    <3>2. CASE i = Len(log) + 1
      BY <3>2, <2>1, <2>2, <2>3, <2>4, <2>5, LogAppend DEF Behind
    <3> QED
      BY <3>1, <3>2, <2>3, <2>5, LogAppend
  <2>9. GenerationOrder'
    <3> SUFFICES ASSUME NEW i \in DOMAIN log', NEW j \in DOMAIN log', i < j,
                        log'[i].unit = log'[j].unit, Lifecycle(log'[i]), Lifecycle(log'[j])
                 PROVE  log'[i].gen < log'[j].gen
      OBVIOUS
    <3>1. CASE j \in DOMAIN log
      BY <3>1, <2>3, <2>5, LogAppend
    <3>2. CASE j = Len(log) + 1
      <4>1. i \in DOMAIN log /\ log'[i] = log[i] /\ log'[j] = e
        BY <3>2, <2>3, <2>5, LogAppend
      <4> QED
        BY <4>1, <2>1, <2>4 DEF Behind
    <3> QED
      BY <3>1, <3>2, <2>3, <2>5, LogAppend
  <2>10. SnapshotNotBehind'
    <3> SUFFICES ASSUME NEW i \in DOMAIN log', Lifecycle(log'[i]),
                        units[log'[i].unit].life # "none"
                 PROVE  /\ log'[i].gen <= units[log'[i].unit].gen
                        /\ log'[i].gen = units[log'[i].unit].gen =>
                             /\ log'[i].life = units[log'[i].unit].life
                             /\ log'[i].inst = units[log'[i].unit].inst
      BY <2>6
    <3>1. CASE i \in DOMAIN log
      BY <3>1, <2>3, <2>5, LogAppend
    <3>2. CASE i = Len(log) + 1
      BY <3>2, <2>2, <2>3, <2>4, <2>5, <2>6, LogAppend
    <3> QED
      BY <3>1, <3>2, <2>3, <2>5, LogAppend
  <2>11. Numbered' /\ Tabled'
    BY <2>1, <2>6
  <2> QED
    BY <2>8, <2>9, <2>10, <2>11
<1>15. CASE Finish
  BY <1>15 DEF Finish, Unlock
<1>16. ASSUME NEW q \in Queries, Ask(q) PROVE GenInv'
  BY <1>16 DEF Ask
<1>17. ASSUME NEW q \in Queries, Answer(q) PROVE GenInv'
  BY <1>17 DEF Answer
<1>18. ASSUME NEW s \in Subs, Watch(s) PROVE GenInv'
  BY <1>18 DEF Watch, WatchStep, Subscribe, Deliver, EndOfStream, Disconnect
<1>19. CASE UNCHANGED vars
  BY <1>19 DEF vars
<1> QED
  BY <1>1, <1>2, <1>3, <1>4, <1>5, <1>6, <1>7, <1>8, <1>9, <1>10, <1>11, <1>12,
     <1>13, <1>14, <1>15, <1>16, <1>17, <1>18, <1>19 DEF Next, Refresh

(* GenerationOrder holds of every behaviour. *)
THEOREM GenerationsCorrect == Spec => []GenerationOrder
<1>1. TypeOK /\ GenInv /\ [Next]_vars => TypeOK' /\ GenInv'
  BY TypeNext, GenNext
<1>2. Init => TypeOK /\ GenInv
  BY TypeInit, GenInit
<1>3. GenInv => GenerationOrder
  BY DEF GenInv
<1> QED
  BY <1>1, <1>2, <1>3, PTL DEF Spec

(* SnapshotNotBehind holds of every behaviour. *)
THEOREM SnapshotCorrect == Spec => []SnapshotNotBehind
<1>1. TypeOK /\ GenInv /\ [Next]_vars => TypeOK' /\ GenInv'
  BY TypeNext, GenNext
<1>2. Init => TypeOK /\ GenInv
  BY TypeInit, GenInit
<1>3. GenInv => SnapshotNotBehind
  BY DEF GenInv
<1> QED
  BY <1>1, <1>2, <1>3, PTL DEF Spec

-----------------------------------------------------------------------------
(* Freshness of answers.  No version runs ahead of the manager; what the     *)
(* refresher under refreshMu has read is at least as new as the table it     *)
(* will replace and as the query it works for.                               *)

Bounded ==
  /\ \A u \in Units : view[u].ver <= ver[u] /\ shown[u] <= ver[u]
  /\ \A q \in Queries, u \in Units : asked[q][u] <= ver[u]

Reading ==
  /\ stage \in {"fetch", "stat", "swap"} =>
       \A u \in Units \ todo :
         /\ shown[u] <= view[u].ver
         /\ \A q \in Queries : holder = q => asked[q][u] <= view[u].ver
  /\ stage = "upstream" => todo = Units
  /\ stage \in {"stat", "swap"} => todo = {}

Replaced ==
  stage \in {"ready", "cast"} =>
    \A q \in Queries, u \in Units : holder = q => asked[q][u] <= shown[u]

FreshInv == Bounded /\ Reading /\ Replaced /\ FreshAnswers

VersionType ==
  /\ \A u \in Units : ver[u] \in Nat /\ shown[u] \in Nat /\ view[u].ver \in Nat
  /\ \A q \in Queries, u \in Units : asked[q][u] \in Nat

LEMMA VersionFacts == TypeOK => VersionType
  BY DEF TypeOK, Views, VersionType

LEMMA FreshInit == Init => FreshInv
  BY UnitFacts DEF Init, FreshInv, Bounded, Reading, Replaced, FreshAnswers, NoView

LEMMA FreshNext == TypeOK /\ FreshInv /\ [Next]_vars => FreshInv'
<1> SUFFICES ASSUME TypeOK, FreshInv, [Next]_vars PROVE FreshInv'
  OBVIOUS
<1>0. /\ VersionType
      /\ \A r \in Refreshers : pc[r] = "busy" <=> holder = r
      /\ pc \in [Refreshers -> {"idle", "want", "busy", "answer", "done"}]
      /\ ver \in [Units -> Nat] /\ view \in [Units -> Views]
      /\ asked \in [Queries -> [Units -> Nat]]
      /\ todo \subseteq Units
  BY VersionFacts DEF TypeOK
<1> USE <1>0, UnitFacts
    DEF FreshInv, Bounded, Reading, Replaced, FreshAnswers, VersionType, NoView,
        worldVars, sourceVars, tableVars, workVars, askVars, watchVars
<1>1. ASSUME NEW u \in Units, Change(u) PROVE FreshInv'
  BY <1>1 DEF Change
<1>2. CASE BridgeConnect
  BY <1>2 DEF BridgeConnect
<1>3. CASE BridgeBreak
  BY <1>3 DEF BridgeBreak
<1>4. ASSUME NEW src \in Sources, SourceReceive(src) PROVE FreshInv'
  BY <1>4 DEF SourceReceive
<1>5. ASSUME NEW src \in Sources, SourceRequest(src) PROVE FreshInv'
  BY <1>5 DEF SourceRequest
<1>6. CASE LoopWake
  BY <1>6 DEF LoopWake
<1>7. ASSUME NEW r \in Refreshers, Lock(r) PROVE FreshInv'
  BY <1>7 DEF Lock
<1>8. CASE RefreshUpstream
  BY <1>8 DEF RefreshUpstream
<1>9. ASSUME NEW u \in Units, FetchUnit(u) PROVE FreshInv'
  BY <1>9 DEF FetchUnit
<1>10. CASE RefreshFail
  BY <1>10 DEF RefreshFail, Unlock
<1>11. CASE Normalize
  BY <1>11 DEF Normalize
<1>12. CASE Swap
  BY <1>12 DEF Swap
<1>13. CASE NotifyReady
  BY <1>13 DEF NotifyReady
<1>14. CASE Cast
  BY <1>14 DEF Cast
<1>15. CASE Finish
  BY <1>15 DEF Finish, Unlock
<1>16. ASSUME NEW q \in Queries, Ask(q) PROVE FreshInv'
  BY <1>16 DEF Ask
<1>17. ASSUME NEW q \in Queries, Answer(q) PROVE FreshInv'
  BY <1>17 DEF Answer
<1>18. ASSUME NEW s \in Subs, Watch(s) PROVE FreshInv'
  BY <1>18 DEF Watch, WatchStep, Subscribe, Deliver, EndOfStream, Disconnect
<1>19. CASE UNCHANGED vars
  BY <1>19 DEF vars
<1> QED
  BY <1>1, <1>2, <1>3, <1>4, <1>5, <1>6, <1>7, <1>8, <1>9, <1>10, <1>11, <1>12,
     <1>13, <1>14, <1>15, <1>16, <1>17, <1>18, <1>19 DEF Next, Refresh

(* FreshAnswers holds of every behaviour. *)
THEOREM AnswersCorrect == Spec => []FreshAnswers
<1>1. TypeOK /\ FreshInv /\ [Next]_vars => TypeOK' /\ FreshInv'
  BY TypeNext, FreshNext
<1>2. Init => TypeOK /\ FreshInv
  BY TypeInit, FreshInit
<1>3. FreshInv => FreshAnswers
  BY DEF FreshInv
<1> QED
  BY <1>1, <1>2, <1>3, PTL DEF Spec

-----------------------------------------------------------------------------
(* The streams: sysvisiond implements VisionStream. *)

LEMMA MoveHead ==
  ASSUME NEW S, NEW o \in Seq(S), NEW q \in Seq(S), q # <<>>
  PROVE  /\ Append(o, Head(q)) \o Tail(q) = o \o q
         /\ Len(o) < Len(o \o q)
         /\ (o \o q)[Len(o) + 1] = Head(q)
  OBVIOUS

LEMMA AppendBack ==
  ASSUME NEW S, NEW o \in Seq(S), NEW q \in Seq(S), NEW e \in S
  PROVE  o \o Append(q, e) = Append(o \o q, e)
  OBVIOUS

LEMMA EmptyBack ==
  ASSUME NEW S, NEW o \in Seq(S)
  PROVE  o \o <<>> = o
  OBVIOUS

(* broadcast publishes one event. *)
LEMMA BroadcastPublishes ==
  ASSUME TypeOK, NEW e \in Events, Broadcast(e)
  PROVE  Stream!Publish
<1> DEFINE Gets == {s \in Subs : sub[s] = "open" /\ Matches(s, e)}
           slow == {s \in Gets : Len(queue[s]) >= Buffer}
<1>1. /\ log' = Append(log, e) /\ Len(log') = Len(log) + 1
      /\ log'[Len(log')] = e
  BY DEF Broadcast, TypeOK
<1>2. sub' = [s \in Subs |-> IF s \in slow THEN "cut" ELSE sub[s]]
  BY DEF Broadcast, Feeds
<1>3. \A s \in Subs : out'[s] \o queue'[s] =
        IF s \in Gets \ slow THEN Append(out[s] \o queue[s], e) ELSE out[s] \o queue[s]
  <2> SUFFICES ASSUME NEW s \in Subs
               PROVE  out'[s] \o queue'[s] =
                        IF s \in Gets \ slow THEN Append(out[s] \o queue[s], e)
                        ELSE out[s] \o queue[s]
    OBVIOUS
  <2>1. out[s] \in Seq(Events) /\ queue[s] \in Seq(Events) /\ Buffer \in Nat
    BY VisionAssumption DEF TypeOK
  <2>2. out'[s] = out[s]
    BY DEF Broadcast
  <2>3. s \in Gets \ slow <=> Feeds(s, e) /\ Len(queue[s]) < Buffer
    BY <2>1 DEF Feeds
  <2>4. queue'[s] = IF s \in Gets \ slow THEN Append(queue[s], e) ELSE queue[s]
    <3>1. queue'[s] = IF Feeds(s, e) /\ Len(queue[s]) < Buffer
                      THEN Append(queue[s], e) ELSE queue[s]
      BY DEF Broadcast
    <3> HIDE DEF Gets, slow
    <3> QED
      BY <2>3, <3>1, Zenon
  <2> HIDE DEF Gets, slow
  <2>5. out[s] \o Append(queue[s], e) = Append(out[s] \o queue[s], e)
    <3> DEFINE o == out[s]
               q == queue[s]
    <3>1. o \in Seq(Events) /\ q \in Seq(Events)
      BY <2>1
    <3> HIDE DEF o, q
    <3>2. o \o Append(q, e) = Append(o \o q, e)
      BY <3>1, AppendBack
    <3> QED
      BY <3>2 DEF o, q
  <2> QED
    BY <2>2, <2>4, <2>5, Zenon
<1>4. slow \in SUBSET Gets
  OBVIOUS
<1>5. out' = out
  BY DEF Broadcast
<1> DEFINE pub == [s \in Subs |-> out[s] \o queue[s]]
<1>6. pub' = [s \in Subs |-> IF s \in Gets \ slow THEN Append(pub[s], e) ELSE pub[s]]
  BY <1>3, Zenon
<1>7. Gets = {s \in Subs : sub[s] = "open" /\ Matches(s, log'[Len(log')])}
  BY <1>1
<1> HIDE DEF Gets, slow
<1> QED
  BY <1>1, <1>2, <1>4, <1>5, <1>6, <1>7, ZenonT(40) DEF Stream!Publish

LEMMA StreamStep == TypeOK /\ [Next]_vars => [Stream!StreamNext]_(Stream!streamVars)
<1> SUFFICES ASSUME TypeOK, [Next]_vars
             PROVE  Stream!StreamNext \/ UNCHANGED Stream!streamVars
  OBVIOUS
<1>1. ASSUME UNCHANGED watchVars PROVE UNCHANGED Stream!streamVars
  BY <1>1 DEF watchVars, Stream!streamVars
<1>2. ASSUME NEW src \in Sources, SourceReceive(src) PROVE Stream!StreamNext
  <2> DEFINE e == [unit |-> Head(note[src]), life |-> "report", inst |-> 0, gen |-> 0,
                   mode |-> TRUE]
  <2>1. Head(note[src]) \in Units
    BY <1>2 DEF SourceReceive, TypeOK
  <2>2. e \in Events /\ Broadcast(e)
    BY <1>2, <2>1 DEF SourceReceive, Events, Lives
  <2> QED
    BY <2>2, BroadcastPublishes DEF Stream!StreamNext
<1>3. CASE Cast
  <2>1. PICK u \in casting : Broadcast(LifecycleEvent(u))
    BY <1>3 DEF Cast
  <2>2. LifecycleEvent(u) \in Events
    BY <2>1 DEF LifecycleEvent, Events, Entries, TypeOK
  <2> QED
    BY <2>1, <2>2, BroadcastPublishes DEF Stream!StreamNext
<1>4. ASSUME NEW s \in Subs, Watch(s) PROVE Stream!StreamNext
  <2>0. /\ out[s] \in Seq(Events) /\ queue[s] \in Seq(Events)
        /\ out \in [Subs -> Seq(Events)] /\ queue \in [Subs -> Seq(Events)]
    BY DEF TypeOK
  <2> DEFINE pub == [w \in Subs |-> out[w] \o queue[w]]
  <2>1. CASE Subscribe(s)
    <3>1. Stream!Open(s)
      BY <2>1 DEF Subscribe, WatchStep, Stream!Open
    <3> QED
      BY <3>1 DEF Stream!StreamNext
  <2>2. CASE Deliver(s)
    <3>1. out' = [out EXCEPT ![s] = Append(out[s], Head(queue[s]))]
      BY <2>2 DEF Deliver
    <3>2. queue' = [queue EXCEPT ![s] = Tail(queue[s])]
      BY <2>2 DEF Deliver
    <3>3. queue[s] # <<>> /\ sub[s] \in {"open", "cut"} /\ UNCHANGED <<log, sub>>
      BY <2>2 DEF Deliver, WatchStep
    <3>4. pub[s] = out[s] \o queue[s]
      OBVIOUS
    <3>5. Len(out[s]) < Len(pub[s]) /\ pub[s][Len(out[s]) + 1] = Head(queue[s])
      BY <2>0, <3>3, <3>4, MoveHead
    <3>6. \A w \in Subs : out'[w] \o queue'[w] = out[w] \o queue[w]
      <4> SUFFICES ASSUME NEW w \in Subs PROVE out'[w] \o queue'[w] = out[w] \o queue[w]
        OBVIOUS
      <4>1. CASE w = s
        <5>1. out'[s] = Append(out[s], Head(queue[s])) /\ queue'[s] = Tail(queue[s])
          BY <2>0, <3>1, <3>2
        <5>2. Append(out[s], Head(queue[s])) \o Tail(queue[s]) = out[s] \o queue[s]
          BY <2>0, <3>3, MoveHead
        <5> QED
          BY <4>1, <5>1, <5>2, Zenon
      <4>2. CASE w # s
        BY <4>2, <2>0, <3>1, <3>2
      <4> QED
        BY <4>1, <4>2
    <3>7. pub' = pub
      BY <3>6
    <3>8. out' = [out EXCEPT ![s] = Append(out[s], pub[s][Len(out[s]) + 1])]
      BY <3>1, <3>5
    <3> QED
      BY <3>3, <3>5, <3>7, <3>8 DEF Stream!StreamNext, Stream!Receive
  <2>3. CASE EndOfStream(s)
    <3>1. out[s] = out[s] \o queue[s]
      BY <2>0, <2>3, EmptyBack DEF EndOfStream
    <3>2. Stream!End(s)
      BY <2>3, <3>1 DEF EndOfStream, WatchStep, Stream!End
    <3> QED
      BY <3>2 DEF Stream!StreamNext
  <2>4. CASE Disconnect(s)
    <3>1. out' = out /\ queue' = [queue EXCEPT ![s] = <<>>]
      BY <2>4 DEF Disconnect
    <3>2. out[s] \o <<>> = out[s]
      BY <2>0, EmptyBack
    <3>3. pub' = [pub EXCEPT ![s] = out[s]]
      BY <2>0, <3>1, <3>2
    <3>4. Stream!Leave(s)
      BY <2>4, <3>1, <3>3 DEF Disconnect, WatchStep, Stream!Leave
    <3> QED
      BY <3>4 DEF Stream!StreamNext
  <2> QED
    BY <1>4, <2>1, <2>2, <2>3, <2>4 DEF Watch
<1>5. CASE UNCHANGED vars
  BY <1>5, <1>1 DEF vars
<1>6. ASSUME NEW u \in Units, Change(u) \/ FetchUnit(u) PROVE UNCHANGED watchVars
  BY <1>6 DEF Change, FetchUnit
<1>7. CASE BridgeConnect \/ BridgeBreak \/ LoopWake
  BY <1>7, <1>1 DEF BridgeConnect, BridgeBreak, LoopWake
<1>8. ASSUME NEW src \in Sources, SourceRequest(src) PROVE UNCHANGED watchVars
  BY <1>8 DEF SourceRequest
<1>9. ASSUME NEW r \in Refreshers, Lock(r) PROVE UNCHANGED watchVars
  BY <1>9 DEF Lock
<1>10. CASE RefreshUpstream \/ RefreshFail \/ Normalize \/ Swap \/ NotifyReady \/ Finish
  BY <1>10, <1>1 DEF RefreshUpstream, RefreshFail, Normalize, Swap, NotifyReady, Finish
<1>11. ASSUME NEW q \in Queries, Ask(q) \/ Answer(q) PROVE UNCHANGED watchVars
  BY <1>11 DEF Ask, Answer
<1> QED
  BY <1>1, <1>2, <1>3, <1>4, <1>5, <1>6, <1>7, <1>8, <1>9, <1>10, <1>11
     DEF Next, Refresh

(* sysvisiond implements the promise of VisionStream. *)
THEOREM StreamCorrect == Spec => StreamPromise
<1>1. Init => Stream!StreamInit
  BY EmptyBack DEF Init, Stream!StreamInit
<1>2. TypeOK /\ [Next]_vars => [Stream!StreamNext]_(Stream!streamVars)
  BY StreamStep
<1>3. Spec => []TypeOK
  BY TypeCorrect
<1> QED
  BY <1>1, <1>2, <1>3, PTL DEF Spec, StreamPromise, Stream!StreamSpec
=============================================================================
