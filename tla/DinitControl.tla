---------------------------- MODULE DinitControl ----------------------------
(***************************************************************************)
(* The path of a command to Dinit (internal/dinit, dinit_control.go).  The *)
(* servicectl command hands its request to the plane's controller or, when *)
(* no plane runs, executes it with a controller of its own.  A controller  *)
(* sends it over one connection, whose replies are matched with requests   *)
(* by their order alone, and polls until the service is where the request  *)
(* wants it.  The plane also observes: it lists the services, again and    *)
(* again, and publishes what changed.                                      *)
(*                                                                         *)
(* Controller.mu serialises all use of a connection.  One service is       *)
(* modelled; wake is as start, and release, signal and unpin are as        *)
(* setenv.  Dinit itself is external: a service, the handles given out for *)
(* it, and the requests and replies under way.                             *)
(***************************************************************************)
EXTENDS Integers, Sequences

CONSTANTS
  Callers,    \* commands, each of which makes one request
  Requests,   \* what may be requested: records [act, nowait, ignore]
  EventCap,   \* capacity of the events channel (1024)
  MaxFaults   \* bound: failed dials, broken connections, contexts and services that end

Observer == "observer"
Procs == Callers \cup {Observer}
Conns == Callers \cup {"plane"}

(* Changes are requested: status and list end with their query.  Nobody asks *)
(* for a restart that may find nothing (dinit_gen.go:559, :658).             *)
ASSUME DinitAssumption ==
  /\ Observer \notin Callers /\ "plane" \notin Callers /\ "nobody" \notin Procs
  /\ Requests \subseteq [act : {"start", "stop", "restart", "reload", "unload", "setenv"},
                        nowait : BOOLEAN, ignore : BOOLEAN]
  /\ \A r \in Requests : r.ignore => r.act # "restart"
  /\ EventCap \in Nat /\ MaxFaults \in Nat

VARIABLES
  plane,     \* a plane is running (chosen initially)
  request,   \* the request of each caller (chosen initially)
  svc,       \* Dinit: the service
  pids,      \* Dinit: processes started so far
  faults,
  conn,      \* of each controller, its client and the connection: see Fresh
  holder,    \* of each Controller.mu
  proc,      \* Execute of each caller, and Observe: see Idle
  previous,  \* Observe: the rows last compared with
  published, \* Observe: what was last passed to changed
  applied    \* ghost: how often Dinit executed the request of a caller

rigid == <<plane, request>>
dinitVars == <<svc, pids, applied>>
obsVars == <<previous, published>>
vars == <<rigid, dinitVars, faults, conn, holder, proc, obsVars>>

None == [rows |-> "none"]
Fresh == [status |-> "none",   \* or "open", or "failed": done is closed
          doomed |-> FALSE,    \* an AfterFunc is about to call fail
          handle |-> FALSE,    \* handles has the service
          granted |-> FALSE,   \* Dinit: a handle is out on this connection
          sent |-> <<>>, wire |-> <<>>, replies |-> <<>>, events |-> 0]
Idle == [pc |-> "idle", phase |-> "change", todo |-> <<>>, seen |-> None,
         initial |-> 0, ended |-> FALSE, result |-> "none"]

\* Call: the plane's controller if there is a plane, else one's own.
Conn(p) == IF plane THEN "plane" ELSE p

Services == [state : {"stopped", "starting", "started", "stopping"},
             target : {"stopped", "started"}, pid : Nat, loaded : BOOLEAN, again : BOOLEAN]
Kinds == {"find", "load", "status", "list", "start", "stop", "restart", "reload",
          "unload", "setenv"}
Replies == [kind : Kinds, from : Procs, svc : Services,
            answer : {"ok", "missing", "rejected", "row", "end"}]
Event == [kind |-> "event"]
Links == [status : {"none", "open", "failed"}, doomed : BOOLEAN, handle : BOOLEAN,
          granted : BOOLEAN, sent : Seq([kind : Kinds, from : Procs]),
          wire : Seq(Replies \cup {Event}), replies : Seq(Replies), events : 0 .. EventCap]
Tasks == [pc : {"idle", "lock", "send", "await", "wait", "close", "pause", "end"},
          phase : {"initial", "change", "poll", "observe"}, todo : Seq(Kinds),
          seen : Services \cup {None}, initial : Int, ended : BOOLEAN,
          result : {"none", "ok", "error"}]

TypeOK ==
  /\ plane \in BOOLEAN /\ request \in [Callers -> Requests]
  /\ svc \in Services /\ pids \in Nat
  /\ faults \in 0 .. MaxFaults
  /\ conn \in [Conns -> Links]
  /\ holder \in [Conns -> Procs \cup {"nobody"}]
  /\ proc \in [Procs -> Tasks]
  /\ previous \in Services \cup {None, [rows |-> "empty"]}
  /\ published \in Services \cup {None, [rows |-> "empty"], [rows |-> "error"]}
  /\ applied \in [Callers -> Nat]

Init ==
  /\ plane \in BOOLEAN /\ request \in [Callers -> Requests]
  /\ \E up, loaded \in BOOLEAN :
       /\ up => loaded
       /\ svc = [state |-> IF up THEN "started" ELSE "stopped",
                 target |-> IF up THEN "started" ELSE "stopped",
                 pid |-> IF up THEN 1 ELSE 0, loaded |-> loaded, again |-> FALSE]
  /\ pids = 1 /\ faults = 0
  /\ conn = [c \in Conns |-> Fresh] /\ holder = [c \in Conns |-> "nobody"]
  /\ proc = [p \in Procs |-> IF p # Observer THEN Idle
                             ELSE [Idle EXCEPT !.phase = "observe", !.pc = IF plane THEN "pause" ELSE "end"]]
  /\ previous = None /\ published = None
  /\ applied = [p \in Callers |-> 0]

-----------------------------------------------------------------------------
(* Dinit. *)

\* The service is now s, of which every connection with a handle is told.
Becomes(s) ==
  /\ svc' = s
  /\ conn' = [c \in Conns |-> IF conn[c].granted THEN [conn[c] EXCEPT !.wire = Append(@, Event)]
                                                 ELSE conn[c]]

\* The service goes where it is to go; a process that is started may fail.
Progress ==
  /\ \/ /\ svc.state = "starting"
        /\ \/ /\ Becomes([svc EXCEPT !.state = "started", !.pid = pids + 1])
              /\ pids' = pids + 1
           \/ /\ Becomes([svc EXCEPT !.state = "stopped", !.target = "stopped"])
              /\ UNCHANGED pids
     \/ /\ svc.state = "started" /\ svc.again
        /\ Becomes([svc EXCEPT !.state = "stopping"])
        /\ UNCHANGED pids
     \/ /\ svc.state = "stopping"
        /\ Becomes([svc EXCEPT !.state = IF svc.again THEN "starting" ELSE "stopped",
                               !.target = IF svc.again THEN "started" ELSE "stopped",
                               !.pid = 0, !.again = FALSE])
        /\ UNCHANGED pids
  /\ UNCHANGED <<rigid, applied, faults, holder, proc, obsVars>>

\* The process ends by itself.
ServiceEnds ==
  /\ svc.state = "started" /\ faults < MaxFaults
  /\ faults' = faults + 1
  /\ Becomes([svc EXCEPT !.state = "stopped", !.target = "stopped", !.pid = 0, !.again = FALSE])
  /\ UNCHANGED <<rigid, pids, applied, holder, proc, obsVars>>

\* The service after Dinit has accepted a request.
After(kind) ==
  CASE kind = "start" /\ svc.state = "stopped"  -> [svc EXCEPT !.state = "starting", !.target = "started"]
    [] kind = "start" /\ svc.state = "stopping" -> [svc EXCEPT !.again = TRUE]
    [] kind = "stop" /\ svc.state # "stopped"   -> [svc EXCEPT !.state = "stopping", !.target = "stopped",
                                                               !.again = FALSE]
    [] kind = "restart" -> [svc EXCEPT !.again = TRUE]
    [] kind = "load"    -> [svc EXCEPT !.loaded = TRUE]
    [] kind = "unload"  -> [svc EXCEPT !.loaded = FALSE]
    [] OTHER -> svc

\* The answers Dinit may give: a stop may be refused for the sake of a dependent.
Answers(c, kind) ==
  CASE kind = "find" -> {IF svc.loaded THEN "ok" ELSE "missing"}
    [] kind = "load" -> {"ok"} \cup (IF svc.loaded THEN {} ELSE {"missing"})
    [] kind = "stop" -> {"ok"} \cup (IF svc.state = "stopped" THEN {} ELSE {"rejected"})
    [] kind = "restart" -> {IF svc.state = "started" THEN "ok" ELSE "rejected"}
    [] kind \in {"reload", "unload"} ->
         {IF svc.state = "stopped" /\ \A d \in Conns \ {c} : ~conn[d].granted THEN "ok" ELSE "rejected"}
    [] kind = "list" -> {IF svc.loaded THEN "row" ELSE "end"}
    [] OTHER -> {"ok"}

\* Dinit reads a request and answers it.
Serve(c) ==
  /\ conn[c].sent # <<>>
  /\ LET m == Head(conn[c].sent) IN
     \E answer \in Answers(c, m.kind) :
       LET Reply(a) == [kind |-> m.kind, from |-> m.from, answer |-> a, svc |-> svc]
           ok == answer = "ok"
       IN /\ conn' = [conn EXCEPT ![c].sent = Tail(@),
                        ![c].wire = IF answer = "row" THEN Append(Append(@, Reply("row")), Reply("end"))
                                    ELSE Append(@, Reply(answer)),
                        ![c].granted = IF ok /\ m.kind \in {"find", "load"} THEN TRUE
                                       ELSE IF ok /\ m.kind \in {"reload", "unload"} THEN FALSE ELSE @]
          /\ svc' = IF ok THEN After(m.kind) ELSE svc
          /\ applied' = IF ok /\ m.kind \notin {"find", "load", "status"}
                        THEN [applied EXCEPT ![m.from] = @ + 1] ELSE applied
  /\ UNCHANGED <<rigid, pids, faults, holder, proc, obsVars>>

-----------------------------------------------------------------------------
(* The client. *)

\* fail: done is closed, and so is the connection.
Failed(k) == [k EXCEPT !.status = "failed", !.doomed = FALSE, !.granted = FALSE,
                       !.sent = <<>>, !.wire = <<>>]

\* readLoop: a reply or an event is handed on; a full events channel is an error.
ReadLoop(c) ==
  /\ conn[c].wire # <<>>
  /\ LET k == conn[c]
         m == Head(k.wire)
     IN conn' = [conn EXCEPT ![c] =
                   IF m # Event THEN [k EXCEPT !.wire = Tail(@), !.replies = Append(@, m)]
                   ELSE IF k.events < EventCap THEN [k EXCEPT !.wire = Tail(@), !.events = @ + 1]
                   ELSE Failed(k)]
  /\ UNCHANGED <<rigid, dinitVars, faults, holder, proc, obsVars>>

\* Dinit or the kernel ends the connection, or what is read makes no sense.
Break(c) ==
  /\ conn[c].status = "open" /\ faults < MaxFaults
  /\ faults' = faults + 1
  /\ conn' = [conn EXCEPT ![c] = Failed(@)]
  /\ UNCHANGED <<rigid, dinitVars, holder, proc, obsVars>>

\* A deadline passes, or the caller goes away; request has registered an AfterFunc.
ContextEnds(p) ==
  /\ proc[p].pc \in {"lock", "send", "await", "wait"} /\ ~proc[p].ended /\ faults < MaxFaults
  /\ faults' = faults + 1
  /\ proc' = [proc EXCEPT ![p].ended = TRUE]
  /\ conn' = [conn EXCEPT ![Conn(p)].doomed = IF proc[p].pc = "await" /\ conn[Conn(p)].status = "open"
                                               THEN TRUE ELSE @]
  /\ UNCHANGED <<rigid, dinitVars, holder, obsVars>>

\* The AfterFunc runs, possibly after request has returned.
AfterFunc(c) ==
  /\ conn[c].doomed
  /\ conn' = [conn EXCEPT ![c] = Failed(@)]
  /\ UNCHANGED <<rigid, dinitVars, faults, holder, proc, obsVars>>

-----------------------------------------------------------------------------
(* The controller. *)

\* What is asked in one critical section: a handle, the command, its status.
Steps(a) ==
  CASE a \in {"setenv", "list"}  -> <<a>>
    [] a = "status"              -> <<"find", "status">>
    [] a = "start"               -> <<"load", "start", "status">>
    [] a = "reload"              -> <<"load", "reload">>
    [] a = "unload"              -> <<"find", "unload">>
    [] a \in {"stop", "restart"} -> <<"find", a, "status">>

\* Execute: a restart first asks for the process that is to be replaced.
Execute(p) ==
  /\ proc[p].pc = "idle"
  /\ LET restart == request[p].act = "restart"
     IN proc' = [proc EXCEPT ![p].pc = "lock", ![p].phase = IF restart THEN "initial" ELSE "change",
                             ![p].todo = Steps(IF restart THEN "status" ELSE request[p].act)]
  /\ UNCHANGED <<rigid, dinitVars, faults, conn, holder, obsVars>>

\* faulty variant: what may have been executed is sent again
OnErrorAgain(p, q, missing) ==
  IF q.phase = "observe" THEN [q EXCEPT !.pc = "close", !.todo = <<>>]
  ELSE [q EXCEPT !.pc = "lock", !.phase = "change", !.todo = Steps(request[p].act)]

\* Change: the handle is dropped before a reload is sent, and stays so if that fails.
Forgets(k, kind) == IF kind = "reload" THEN [k EXCEPT !.handle = FALSE] ELSE k

\* The critical section of q, a record of proc, is over and went wrong.
OnError(p, q, missing) ==
  CASE q.phase = "initial" -> [q EXCEPT !.pc = "lock", !.phase = "change", !.initial = -1,
                                        !.todo = Steps("restart")]
    [] q.phase = "observe" -> [q EXCEPT !.pc = "close", !.todo = <<>>]
    [] OTHER -> [q EXCEPT !.pc = "end", !.todo = <<>>,
                   !.result = IF q.phase = "change" /\ missing /\ request[p].ignore THEN "ok" ELSE "error"]

\* A failed reload or unload closes the connection, before the lock is released.
Settled(p, k) ==
  IF proc[p].phase = "change" /\ request[p].act \in {"reload", "unload"} THEN Fresh ELSE k

Waits(r) == ~r.nowait /\ r.act \in {"start", "stop", "restart"}

\* The critical section is over and went well; status is what the last reply says.
OnSuccess(p, q, status) ==
  CASE q.phase = "initial" -> [q EXCEPT !.pc = "lock", !.phase = "change", !.initial = status.pid,
                                        !.todo = Steps("restart")]
    [] q.phase = "observe" -> [q EXCEPT !.pc = "pause", !.todo = <<>>]
    [] OTHER -> IF Waits(request[p]) THEN [q EXCEPT !.pc = "wait", !.todo = <<>>]
                ELSE [q EXCEPT !.pc = "end", !.todo = <<>>, !.result = "ok"]

\* Observe passes an error on.
TellError(p) == /\ published' = IF p = Observer THEN [rows |-> "error"] ELSE published
                /\ UNCHANGED previous

\* The lock is taken, and connection() finds a live client or dials one.
Acquire(p) ==
  LET c == Conn(p) IN
  /\ proc[p].pc = "lock" /\ holder[c] = "nobody"
  /\ \/ /\ conn[c].status = "open" \/ ~proc[p].ended
        /\ conn' = IF conn[c].status = "open" THEN conn
                   ELSE [conn EXCEPT ![c] = [Fresh EXCEPT !.status = "open"]]
        /\ holder' = [holder EXCEPT ![c] = p]
        /\ proc' = [proc EXCEPT ![p].pc = "send"]
        /\ UNCHANGED <<faults, obsVars>>
     \/ /\ conn[c].status # "open" /\ (proc[p].ended \/ faults < MaxFaults)
        /\ faults' = IF proc[p].ended THEN faults ELSE faults + 1
        /\ conn' = [conn EXCEPT ![c] = Fresh]
        /\ proc' = [proc EXCEPT ![p] = OnError(p, @, FALSE)]
        /\ TellError(p)
        /\ UNCHANGED holder
  /\ UNCHANGED <<rigid, dinitVars>>

\* request: the packet is written, unless a handle makes it needless.
Send(p) ==
  LET c == Conn(p)
      k == Head(proc[p].todo)
      known == k \in {"find", "load"} /\ conn[c].handle
  IN
  /\ proc[p].pc = "send"
  /\ \/ /\ known
        /\ proc' = [proc EXCEPT ![p].todo = Tail(@)]
        /\ UNCHANGED <<conn, holder, obsVars>>
     \/ /\ ~known /\ ~proc[p].ended /\ conn[c].status = "open"
        /\ conn' = [conn EXCEPT ![c].sent = Append(@, [kind |-> k, from |-> p])]
        /\ proc' = [proc EXCEPT ![p].pc = "await"]
        /\ UNCHANGED <<holder, obsVars>>
     \/ /\ ~known /\ (proc[p].ended \/ conn[c].status # "open")
        /\ conn' = [conn EXCEPT ![c] = Settled(p, Forgets(@, k))]
        /\ proc' = [proc EXCEPT ![p] = OnError(p, @, FALSE)]
        /\ holder' = [holder EXCEPT ![c] = "nobody"]
        /\ TellError(p)
  /\ UNCHANGED <<rigid, dinitVars, faults>>

\* handle, Change: whether handles has the service after a reply to k.
HandleAfter(k, had, ok) ==
  CASE k = "reload" \/ (ok /\ k = "unload") -> FALSE
    [] ok /\ k \in {"find", "load"} -> TRUE
    [] OTHER -> had

\* k after its next reply, to a request of that kind, is taken.
Taken(k, kind, ok) ==
  [k EXCEPT !.replies = Tail(k.replies), !.handle = HandleAfter(kind, k.handle, ok)]

\* handle, status, Change, List, SetEnv: the next reply is taken as the answer.
Receive(p) ==
  LET c == Conn(p)
      k == Head(proc[p].todo)
      m == Head(conn[c].replies)
      bad == m.answer \in {"missing", "rejected"}
      rest == IF m.answer = "row" THEN proc[p].todo
              ELSE IF m.answer = "end" /\ proc[p].phase = "observe" /\ proc[p].seen # None
                   THEN Steps("status") ELSE Tail(proc[p].todo)
      seen == IF m.answer = "row" \/ (k = "status" /\ proc[p].phase # "observe") THEN m.svc
              ELSE proc[p].seen
      next == [proc[p] EXCEPT !.todo = rest, !.seen = seen, !.pc = IF m.answer = "row" THEN "await" ELSE "send"]
      rows == IF seen = None THEN [rows |-> "empty"] ELSE seen
  IN
  /\ proc[p].pc = "await" /\ conn[c].replies # <<>>
  /\ \/ /\ bad
        /\ conn' = [conn EXCEPT ![c] = Settled(p, Taken(@, k, ~bad))]
        /\ proc' = [proc EXCEPT ![p] = OnError(p, @, m.answer = "missing")]
        /\ holder' = [holder EXCEPT ![c] = "nobody"]
        /\ TellError(p)
     \/ /\ ~bad
        /\ conn' = [conn EXCEPT ![c] = Taken(@, k, TRUE)]
        /\ \/ /\ rest # <<>>
              /\ proc' = [proc EXCEPT ![p] = next]
              /\ UNCHANGED <<holder, obsVars>>
           \/ /\ rest = <<>>
              /\ proc' = [proc EXCEPT ![p] = OnSuccess(p, next, m.svc)]
              /\ holder' = [holder EXCEPT ![c] = "nobody"]
              /\ IF p = Observer /\ previous # rows
                 THEN previous' = rows /\ published' = rows
                 ELSE UNCHANGED obsVars
  /\ UNCHANGED <<rigid, dinitVars, faults>>

\* faulty variant: the connection stays in use
AwaitForgets(p) ==
  /\ proc[p].pc = "await" /\ proc[p].ended
  /\ proc' = [proc EXCEPT ![p] = OnError(p, @, FALSE)]
  /\ holder' = [holder EXCEPT ![Conn(p)] = "nobody"]
  /\ TellError(p)
  /\ UNCHANGED <<rigid, dinitVars, faults, conn>>

\* The wait for a reply ends without one: the client fails, if it has not yet.
AwaitFails(p) ==
  LET c == Conn(p) IN
  /\ proc[p].pc = "await"
  /\ proc[p].ended \/ (conn[c].status # "open" /\ conn[c].replies = <<>>)
  /\ conn' = [conn EXCEPT ![c] = Settled(p, Forgets(Failed(@), Head(proc[p].todo)))]
  /\ proc' = [proc EXCEPT ![p] = OnError(p, @, FALSE)]
  /\ holder' = [holder EXCEPT ![c] = "nobody"]
  /\ TellError(p)
  /\ UNCHANGED <<rigid, dinitVars, faults>>

Target(r) == IF r.act = "stop" THEN "stopped" ELSE "started"

\* The state last seen is what the request wants.
Reached(p) ==
  LET q == proc[p] IN
  /\ q.seen.state = Target(request[p])
  /\ request[p].act = "restart" =>
       q.seen.pid # (IF q.initial = -1 THEN 0 ELSE q.initial) \/ q.seen.pid = 0

\* Execute's loop: the state last seen is judged; if it will not do, it is queried again.
Wait(p) ==
  LET q == proc[p]
      hopeless == /\ Target(request[p]) = "started"
                  /\ q.seen.state = "stopped" /\ q.seen.target # "started"
  IN
  /\ q.pc = "wait"
  /\ \/ Reached(p) /\ proc' = [proc EXCEPT ![p].pc = "end", ![p].result = "ok"]
     \/ /\ ~Reached(p) /\ (hopeless \/ q.ended)
        /\ proc' = [proc EXCEPT ![p].pc = "end", ![p].result = "error"]
     \/ /\ ~Reached(p) /\ ~hopeless
        /\ proc' = [proc EXCEPT ![p].pc = "lock", ![p].phase = "poll", ![p].todo = Steps("status")]
  /\ UNCHANGED <<rigid, dinitVars, faults, conn, holder, obsVars>>

\* faulty variant: the rows before the error are still compared with
ObserveCloseKeeps ==
  /\ proc[Observer].pc = "close" /\ holder["plane"] = "nobody"
  /\ conn' = [conn EXCEPT !["plane"] = Fresh]
  /\ proc' = [proc EXCEPT ![Observer].pc = "pause"]
  /\ UNCHANGED <<rigid, dinitVars, faults, holder, obsVars>>

\* Observe after an error: Close, for which the lock is taken.
ObserveClose ==
  /\ proc[Observer].pc = "close" /\ holder["plane"] = "nobody"
  /\ conn' = [conn EXCEPT !["plane"] = Fresh]
  /\ previous' = None
  /\ proc' = [proc EXCEPT ![Observer].pc = "pause"]
  /\ UNCHANGED <<rigid, dinitVars, faults, holder, published>>

\* Observe's select: a tick, the client's end, or an event, which forgets previous.
ObserveAgain ==
  /\ proc[Observer].pc = "pause"
  /\ proc' = [proc EXCEPT ![Observer].pc = "lock", ![Observer].todo = Steps("list"),
                          ![Observer].seen = None, ![Observer].ended = FALSE]
  /\ \/ UNCHANGED <<conn, previous>>
     \/ /\ conn["plane"].events > 0
        /\ conn' = [conn EXCEPT !["plane"].events = @ - 1]
        /\ previous' = None
  /\ UNCHANGED <<rigid, dinitVars, faults, holder, published>>

Step(p) == Acquire(p) \/ Send(p) \/ Receive(p) \/ AwaitFails(p)

Next ==
  \/ Progress \/ ServiceEnds
  \/ \E c \in Conns : Serve(c) \/ ReadLoop(c) \/ Break(c) \/ AfterFunc(c)
  \/ \E p \in Procs : ContextEnds(p) \/ Step(p)
  \/ \E p \in Callers : Execute(p) \/ Wait(p)
  \/ ObserveClose \/ ObserveAgain

(* Goroutines run and Dinit answers; Go's mutex hands the lock over to a     *)
(* waiter that has waited for long, so nobody waits for ever.                *)
Spec ==
  /\ Init /\ [][Next]_vars
  /\ WF_vars(Progress)
  /\ \A c \in Conns : WF_vars(Serve(c) \/ ReadLoop(c) \/ AfterFunc(c))
  /\ \A p \in Callers : WF_vars(Execute(p) \/ Wait(p))
  /\ \A p \in Procs : SF_vars(Acquire(p)) /\ WF_vars(Send(p) \/ Receive(p) \/ AwaitFails(p))
  /\ SF_vars(ObserveClose) /\ WF_vars(ObserveAgain)

-----------------------------------------------------------------------------
(* "Cancellation closes the stream, because a late reply must never be      *)
(* consumed as the reply to a later request" (client.go request): whatever   *)
(* is under way on a usable connection belongs to the request that the       *)
(* holder of the lock is waiting for.                                        *)
Awaited(c, m) ==
  holder[c] = m.from /\ proc[m.from].pc = "await" /\ Head(proc[m.from].todo) = m.kind

Paired ==
  \A c \in Conns : conn[c].status = "open" =>
    /\ \A i \in DOMAIN conn[c].sent : Awaited(c, conn[c].sent[i])
    /\ \A i \in DOMAIN conn[c].wire : conn[c].wire[i] # Event => Awaited(c, conn[c].wire[i])
    /\ \A i \in DOMAIN conn[c].replies : Awaited(c, conn[c].replies[i])

(* "an uncertain mutation is never replayed" (api.go Call), and a command    *)
(* that reports success was executed, or had nothing to stop.                *)
MutationOnce ==
  \A p \in Callers :
    /\ applied[p] <= 1
    /\ proc[p].result = "ok" => applied[p] = 1 \/ request[p].ignore

\* A cached handle is one that Dinit still honours on this connection.
HandlesValid ==
  \A c \in Conns : conn[c].status = "open" /\ conn[c].handle =>
    \/ conn[c].granted
    \/ holder[c] # "nobody" /\ Head(proc[holder[c]].todo) \in {"reload", "unload"}

(* A connection that is usable is consistent: the reply under way is that of *)
(* the request that is waited for (client.go request), and the cached handle *)
(* is one Dinit knows (controller.go handle), in spite of cancelled          *)
(* requests, full queues, redials, reloads and unloads.                      *)
ConnectionSound == Paired /\ HandlesValid

(* A restart that reports success has replaced the process it found, when    *)
(* it could ask for it.                                                      *)
RestartReplaces ==
  \A p \in Callers :
    LET q == proc[p] IN
    q.result = "ok" /\ request[p].act = "restart" /\ Waits(request[p]) /\ q.initial > 0
      => q.seen.state = "started" /\ q.seen.pid > q.initial

(* What a command reports is true: a change it asked for was made once, at   *)
(* most, and a restart has another process (controller.go Execute).          *)
OutcomesTrue == MutationOnce /\ RestartReplaces

(* What Observe published last comes to be what Dinit has: neither an error  *)
(* nor an old snapshot stays, whatever failed in between.                    *)
Converges ==
  plane => <>[](published = IF svc.loaded THEN svc ELSE [rows |-> "empty"])
=============================================================================
