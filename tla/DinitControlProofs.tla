------------------------- MODULE DinitControlProofs -------------------------
(***************************************************************************)
(* Theorems about DinitControl, for any number of callers, any requests    *)
(* and any capacity of the events channel.                                 *)
(***************************************************************************)
EXTENDS DinitControl, TLAPS

-----------------------------------------------------------------------------
(* The inductive invariant, in the order in which its parts are proved. *)

\* p is in its critical section.
Held(p) == proc[p].pc \in {"send", "await"}

\* The lock of a controller and the goroutine that is in it know each other.
LockSound == \A c \in Conns, p \in Procs : holder[c] = p <=> Held(p) /\ Conn(p) = c

Queries == {<<"find", "status">>, <<"status">>}

\* What a request of act may still have to ask, in the order of Change.
Changes(act) ==
  CASE act = "setenv" -> {<<"setenv">>}
    [] act = "start"  -> {<<"load", "start", "status">>, <<"start", "status">>, <<"status">>}
    [] act = "reload" -> {<<"load", "reload">>, <<"reload">>}
    [] act = "unload" -> {<<"find", "unload">>, <<"unload">>}
    [] OTHER -> {<<"find", act, "status">>, <<act, "status">>, <<"status">>}

Todos(p, phase) ==
  IF phase = "observe" THEN {<<"list">>} \cup Queries
  ELSE IF phase = "change" THEN Changes(request[p].act) ELSE Queries

\* q, the task of p, has steps of its phase left if it is at one.
TaskFor(p, q) ==
  /\ p = Observer => /\ q.phase = "observe"
                     /\ q.pc \in {"pause", "lock", "send", "await", "close", "end"}
                     /\ ~plane => q.pc = "end"
  /\ p # Observer => /\ q.phase # "observe"
                     /\ q.pc \notin {"pause", "close"}
                     /\ q.phase = "initial" => request[p].act = "restart"
  /\ q.pc \in {"lock", "send", "await"} => q.todo \in Todos(p, q.phase)

TaskSound == \A p \in Procs : TaskFor(p, proc[p])

\* m is a reply that is on its way, or has come and not been taken.
Carried(k, m) ==
  /\ m # Event
  /\ \/ \E i \in DOMAIN k.wire : k.wire[i] = m
     \/ \E i \in DOMAIN k.replies : k.replies[i] = m

\* Somebody could still take a reply of c.
Live(c) ==
  conn[c].status = "open" \/ (holder[c] # "nobody" /\ proc[holder[c]].pc = "await")

\* One request at a time is under way, and its last reply comes last.
Ordered(k) ==
  /\ Len(k.sent) <= 1
  /\ k.sent # <<>> => \A m \in Replies : ~Carried(k, m)
  /\ \A i, j \in DOMAIN k.wire :
       i < j /\ k.wire[i] # Event /\ k.wire[j] # Event => k.wire[i].answer = "row"
  /\ \A i, j \in DOMAIN k.replies : i < j => k.replies[i].answer = "row"
  /\ \A i \in DOMAIN k.replies, j \in DOMAIN k.wire :
       k.wire[j] # Event => k.replies[i].answer = "row"

\* Whatever is under way on c belongs to the request that is waited for.
FlowFor(c) ==
  /\ conn[c].status # "open" => conn[c].sent = <<>> /\ conn[c].wire = <<>> /\ ~conn[c].granted
  /\ Live(c) =>
       /\ Ordered(conn[c])
       /\ \A i \in DOMAIN conn[c].sent : Awaited(c, conn[c].sent[i])
       /\ \A m \in Replies : Carried(conn[c], m) =>
            /\ Awaited(c, m)
            /\ m.answer \in {"row", "end"} <=> m.kind = "list"

FlowSound == \A c \in Conns : FlowFor(c)

\* A handle that is cached, or on its way, is honoured until it is given up.
HandleFor(c) ==
  conn[c].status = "open" =>
    /\ \A m \in Replies :
         Carried(conn[c], m) /\ m.kind \in {"find", "load"} /\ m.answer = "ok" => conn[c].granted
    /\ conn[c].handle /\ ~conn[c].granted =>
         /\ holder[c] # "nobody" /\ proc[holder[c]].pc = "await"
         /\ Head(proc[holder[c]].todo) \in {"reload", "unload"}
         /\ conn[c].sent = <<>>
         /\ \A m \in Replies : Carried(conn[c], m) => m.answer = "ok"

HandleSound == \A c \in Conns : HandleFor(c)

\* q has yet to ask for the change it is to make, or has asked and has no answer.
Unasked(q, sent) ==
  \/ q.pc = "idle" \/ q.phase = "initial"
  \/ /\ q.phase = "change"
     /\ \/ q.pc \in {"lock", "send"} /\ Head(q.todo) # "status"
        \/ q.pc = "await" /\ Head(q.todo) \in {"find", "load"}
        \/ q.pc = "await" /\ Head(q.todo) # "status" /\ sent # <<>>

\* The change q has asked for was made, and q has been told so.
Told(q) ==
  \/ q.pc = "wait"
  \/ /\ q.pc \in {"lock", "send", "await"}
     /\ \/ q.phase = "poll"
        \/ q.phase = "change" /\ Head(q.todo) = "status"

\* q, the task of p, for which Dinit has made n changes.
OnceAs(p, q, sent, n) ==
  /\ n <= 1
  /\ Unasked(q, sent) => n = 0
  /\ Told(q) => n = 1
  /\ q.result # "none" => q.pc = "end"
  /\ q.result = "ok" => n = 1 \/ request[p].ignore

OnceFor(p) == OnceAs(p, proc[p], conn[Conn(p)].sent, applied[p])

\* A change that is being reported was made.
AnsweredFor(c) ==
  \A m \in Replies :
    Live(c) /\ Carried(conn[c], m) /\ m.kind \notin {"find", "load", "status"} /\ m.answer = "ok"
      => applied[m.from] = 1

OnceSound == (\A p \in Callers : OnceFor(p)) /\ \A c \in Conns : AnsweredFor(c)

\* The service was s when process n had been started, or later.
NotBefore(s, n) ==
  /\ s \in Services /\ s.pid <= pids
  /\ s.state = "started" => s.pid >= n /\ s.pid >= 1

\* p, a restart, reports that it has seen another process.
Restarted(p) ==
  proc[p].result = "ok" /\ request[p].act = "restart" /\ Waits(request[p])

RestartFor(p) ==
  /\ proc[p].initial <= pids
  /\ proc[p].pc = "wait" \/ Restarted(p) => NotBefore(proc[p].seen, proc[p].initial)
  /\ Restarted(p) => Reached(p)

\* Snapshots come in the order in which the processes were started.
ReportsFor(c) ==
  \A m \in Replies :
    Live(c) /\ Carried(conn[c], m) /\ m.from \in Callers => NotBefore(m.svc, proc[m.from].initial)

\* The process that runs is the last that was started.
PidSound == pids >= 1 /\ svc.pid <= pids /\ (svc.state = "started" => svc.pid = pids)

RestartSound ==
  /\ PidSound
  /\ \A c \in Conns : ReportsFor(c)
  /\ \A p \in Callers : RestartFor(p)

-----------------------------------------------------------------------------
(* Sequences of two and three elements. *)

LEMMA Sequences123 ==
  ASSUME NEW S, NEW a \in S, NEW b \in S, NEW d \in S
  PROVE  /\ <<a>> \in Seq(S) /\ <<a>> # <<>> /\ Head(<<a>>) = a /\ Tail(<<a>>) = <<>>
         /\ <<a, b>> \in Seq(S) /\ <<a, b>> # <<>> /\ Head(<<a, b>>) = a /\ Tail(<<a, b>>) = <<b>>
         /\ <<a, b, d>> \in Seq(S) /\ <<a, b, d>> # <<>> /\ Head(<<a, b, d>>) = a
         /\ Tail(<<a, b, d>>) = <<b, d>>
OBVIOUS

\* What is left to ask of a query, step by step.
LEMMA QueryFacts ==
  ASSUME NEW t \in Queries
  PROVE  /\ t \in Seq(Kinds) /\ t # <<>>
         /\ Head(t) \in {"find", "status"}
         /\ Head(t) = "find" => Tail(t) = <<"status">>
         /\ Head(t) = "status" => Tail(t) = <<>>
<1>1. "find" \in Kinds /\ "status" \in Kinds
  BY DEF Kinds
<1>2. CASE t = <<"find", "status">>
  BY <1>1, <1>2, Sequences123
<1>3. CASE t = <<"status">>
  BY <1>1, <1>3, Sequences123
<1> QED
  BY <1>2, <1>3 DEF Queries

Acts == {"start", "stop", "restart", "reload", "unload", "setenv"}

\* t leads on to what is left after its first request.
ChangeStep(act, t) ==
  /\ t \in Seq(Kinds) /\ t # <<>>
  /\ Head(t) \in {"find", "load", "status", act}
  /\ Head(t) \in {"find", "load"} =>
       Tail(t) \in Changes(act) /\ Tail(t) # <<>> /\ Head(Tail(t)) = act
  /\ Head(t) = act => Tail(t) = <<>> \/ (Tail(t) \in Changes(act) /\ Head(Tail(t)) = "status")
  /\ Head(t) = act /\ act \in {"start", "stop", "restart"} => Tail(t) # <<>>
  /\ Head(t) = "status" => Tail(t) = <<>>

\* What is left to ask of a change: a handle, the change, its status.
LEMMA ChangeFacts ==
  ASSUME NEW act \in Acts, NEW t \in Changes(act)
  PROVE  ChangeStep(act, t)
<1> USE DEF ChangeStep
<1>1. Acts \subseteq Kinds /\ {"find", "load", "status"} \subseteq Kinds
  BY DEF Kinds, Acts
<1>2. CASE act = "setenv"
  <2>1. t = <<"setenv">>
    BY <1>2 DEF Changes
  <2> QED
    BY <1>1, <1>2, <2>1, Sequences123
<1>3. CASE act = "start"
  <2>1. Changes(act) = {<<"load", "start", "status">>, <<"start", "status">>, <<"status">>}
    BY <1>3 DEF Changes
  <2>2. CASE t = <<"load", "start", "status">>
    BY <1>1, <1>3, <2>1, <2>2, Sequences123
  <2>3. CASE t = <<"start", "status">>
    BY <1>1, <1>3, <2>1, <2>3, Sequences123
  <2>4. CASE t = <<"status">>
    BY <1>1, <1>3, <2>1, <2>4, Sequences123
  <2> QED
    BY <2>1, <2>2, <2>3, <2>4
<1>4. CASE act = "reload"
  <2>1. Changes(act) = {<<"load", "reload">>, <<"reload">>}
    BY <1>4 DEF Changes
  <2>2. CASE t = <<"load", "reload">>
    BY <1>1, <1>4, <2>1, <2>2, Sequences123
  <2>3. CASE t = <<"reload">>
    BY <1>1, <1>4, <2>1, <2>3, Sequences123
  <2> QED
    BY <2>1, <2>2, <2>3
<1>5. CASE act = "unload"
  <2>1. Changes(act) = {<<"find", "unload">>, <<"unload">>}
    BY <1>5 DEF Changes
  <2>2. CASE t = <<"find", "unload">>
    BY <1>1, <1>5, <2>1, <2>2, Sequences123
  <2>3. CASE t = <<"unload">>
    BY <1>1, <1>5, <2>1, <2>3, Sequences123
  <2> QED
    BY <2>1, <2>2, <2>3
<1>6. CASE act \in {"stop", "restart"}
  <2>1. Changes(act) = {<<"find", act, "status">>, <<act, "status">>, <<"status">>}
    BY <1>6 DEF Changes
  <2>2. CASE t = <<"find", act, "status">>
    BY <1>1, <1>6, <2>1, <2>2, Sequences123
  <2>3. CASE t = <<act, "status">>
    BY <1>1, <1>6, <2>1, <2>3, Sequences123
  <2>4. CASE t = <<"status">>
    BY <1>1, <1>6, <2>1, <2>4, Sequences123
  <2> QED
    BY <2>1, <2>2, <2>3, <2>4
<1> QED
  BY <1>2, <1>3, <1>4, <1>5, <1>6 DEF Acts

-----------------------------------------------------------------------------
(* Types. *)

Asks == [kind : Kinds, from : Procs]
Wired == Replies \cup {Event}

LEMMA SequenceTypes ==
  ASSUME NEW S, NEW s \in Seq(S)
  PROVE  /\ \A e \in S : Append(s, e) \in Seq(S)
         /\ s # <<>> => Head(s) \in S /\ Tail(s) \in Seq(S)
OBVIOUS

\* The fields of a connection.
LEMMA LinkFields ==
  ASSUME NEW k \in Links
  PROVE  /\ k.status \in {"none", "open", "failed"} /\ k.doomed \in BOOLEAN /\ k.handle \in BOOLEAN
         /\ k.granted \in BOOLEAN /\ k.sent \in Seq(Asks) /\ k.wire \in Seq(Wired)
         /\ k.replies \in Seq(Replies) /\ k.events \in 0 .. EventCap
         /\ \A w \in Seq(Wired) : [k EXCEPT !.wire = w] \in Links
         /\ \A t \in Seq(Asks), w \in Seq(Wired), g \in BOOLEAN :
              [k EXCEPT !.sent = t, !.wire = w, !.granted = g] \in Links
         /\ \A w \in Seq(Wired), r \in Seq(Replies) : [k EXCEPT !.wire = w, !.replies = r] \in Links
         /\ \A w \in Seq(Wired), n \in 0 .. EventCap : [k EXCEPT !.wire = w, !.events = n] \in Links
         /\ \A r \in Seq(Replies), h \in BOOLEAN : [k EXCEPT !.replies = r, !.handle = h] \in Links
         /\ \A t \in Seq(Asks) : [k EXCEPT !.sent = t] \in Links
         /\ \A d \in BOOLEAN : [k EXCEPT !.doomed = d] \in Links
         /\ \A n \in 0 .. EventCap : [k EXCEPT !.events = n] \in Links
         /\ [k EXCEPT !.status = "open"] \in Links
BY DEF Links, Asks, Wired

\* What the client and the controller make of a connection is a connection.
LEMMA LinkTypes ==
  ASSUME NEW k \in Links
  PROVE  /\ Fresh \in Links /\ Failed(k) \in Links
         /\ \A p : Settled(p, k) \in Links
         /\ \A kind : Forgets(k, kind) \in Links
         /\ \A kind : \A ok \in BOOLEAN : k.replies # <<>> => Taken(k, kind, ok) \in Links
<1>1. Fresh \in Links
  BY DinitAssumption DEF Fresh, Links
<1>2. Failed(k) \in Links
  <2>1. \A u \in Seq([kind : Kinds, from : Procs]), w \in Seq(Replies \cup {Event}) :
          [k EXCEPT !.status = "failed", !.doomed = FALSE, !.granted = FALSE,
                    !.sent = u, !.wire = w] \in Links
    BY DEF Links
  <2>2. <<>> \in Seq([kind : Kinds, from : Procs]) /\ <<>> \in Seq(Replies \cup {Event})
    OBVIOUS
  <2> QED
    BY <2>1, <2>2 DEF Failed
<1>3. \A p : Settled(p, k) \in Links
  BY <1>1 DEF Settled
<1>4. \A kind : Forgets(k, kind) \in Links
  BY DEF Forgets, Links
<1>5. ASSUME NEW kind, NEW ok \in BOOLEAN, k.replies # <<>>
      PROVE  Taken(k, kind, ok) \in Links
  <2> DEFINE h == HandleAfter(kind, k.handle, ok)
             r == Tail(k.replies)
  <2>1. h \in BOOLEAN
    BY LinkFields DEF HandleAfter
  <2>2. r \in Seq(Replies)
    BY <1>5, LinkFields, SequenceTypes
  <2>3. Taken(k, kind, ok) = [k EXCEPT !.replies = r, !.handle = h]
    BY DEF Taken
  <2> HIDE DEF h, r
  <2>4. [k EXCEPT !.replies = r, !.handle = h] \in Links
    BY <2>1, <2>2, LinkFields
  <2> QED
    BY <2>3, <2>4, Zenon
<1> QED
  BY <1>1, <1>2, <1>3, <1>4, <1>5

\* The steps of each action, all of them.
LEMMA StepsFacts ==
  /\ Steps("status") \in Queries
  /\ Steps("list") = <<"list">> /\ Steps("list") \in Seq(Kinds)
  /\ Head(<<"list">>) = "list" /\ Tail(<<"list">>) = <<>> /\ <<"list">> # <<>>
  /\ \A act \in Acts : Steps(act) \in Changes(act) /\ Head(Steps(act)) # "status"
<1>1. Steps("status") \in Queries
  BY DEF Steps, Queries
<1>2. Steps("list") = <<"list">> /\ Steps("list") \in Seq(Kinds)
  BY DEF Steps, Kinds
<1>3. Head(<<"list">>) = "list" /\ Tail(<<"list">>) = <<>> /\ <<"list">> # <<>>
  OBVIOUS
<1>4. ASSUME NEW act \in Acts
      PROVE  Steps(act) \in Changes(act) /\ Head(Steps(act)) # "status"
  <2>1. CASE act = "setenv"
    BY <2>1 DEF Steps, Changes
  <2>2. CASE act = "start"
    BY <2>2 DEF Steps, Changes
  <2>3. CASE act = "reload"
    BY <2>3 DEF Steps, Changes
  <2>4. CASE act = "unload"
    BY <2>4 DEF Steps, Changes
  <2>5. CASE act \in {"stop", "restart"}
    BY <2>5 DEF Steps, Changes
  <2> QED
    BY <2>1, <2>2, <2>3, <2>4, <2>5 DEF Acts
<1> QED
  BY <1>1, <1>2, <1>3, <1>4

\* Requests are for changes.
LEMMA RequestFacts ==
  ASSUME TypeOK, NEW p \in Callers
  PROVE  /\ request[p] \in Requests /\ request[p].act \in Acts
         /\ request[p].ignore => request[p].act # "restart"
BY DinitAssumption DEF TypeOK, Acts

\* What is left to do in a phase, for whoever is in it.
LEMMA TodoFacts ==
  ASSUME TypeOK, NEW p \in Procs, NEW phase \in {"initial", "change", "poll", "observe"},
         phase = "observe" <=> p = Observer,
         NEW t \in Todos(p, phase)
  PROVE  /\ t \in Seq(Kinds) /\ t # <<>> /\ Head(t) \in Kinds /\ Tail(t) \in Seq(Kinds)
         /\ Tail(t) = <<>> \/ Tail(t) \in Todos(p, phase)
         /\ Head(t) \in {"find", "load"} => Tail(t) # <<>>
         /\ Head(t) = "list" => phase = "observe"
         /\ phase \in {"initial", "poll"} => Head(t) \in {"find", "status"}
         /\ phase = "observe" => Head(t) \in {"list", "find", "status"}
<1>1. t \in Seq(Kinds) /\ t # <<>> => Head(t) \in Kinds /\ Tail(t) \in Seq(Kinds)
  OBVIOUS
<1>2. CASE phase = "change"
  <2>1. p \in Callers /\ Todos(p, phase) = Changes(request[p].act)
    BY <1>2 DEF Procs, Todos
  <2>2. request[p].act \in Acts
    BY <2>1, RequestFacts
  <2>3. /\ t \in Seq(Kinds) /\ t # <<>>
        /\ Head(t) \in {"find", "load", "status"} \cup Acts
        /\ Tail(t) = <<>> \/ Tail(t) \in Changes(request[p].act)
        /\ Head(t) \in {"find", "load"} => Tail(t) # <<>>
    <3> SUFFICES ASSUME NEW act \in Acts, t \in Changes(act)
                 PROVE  /\ t \in Seq(Kinds) /\ t # <<>>
                        /\ Head(t) \in {"find", "load", "status"} \cup Acts
                        /\ Tail(t) = <<>> \/ Tail(t) \in Changes(act)
                        /\ Head(t) \in {"find", "load"} => Tail(t) # <<>>
      BY <2>1, <2>2
    <3>1. ChangeStep(act, t)
      BY ChangeFacts, Zenon
    <3> QED
      BY <3>1, Zenon DEF ChangeStep
  <2> QED
    BY <1>1, <1>2, <2>1, <2>3 DEF Acts
<1>3. CASE t \in Queries /\ phase # "change"
  <2>1. Queries \subseteq Todos(p, phase) /\ <<"status">> \in Queries
    BY <1>3 DEF Todos, Queries
  <2>2. Tail(t) = <<>> \/ Tail(t) = <<"status">>
    BY <1>3, QueryFacts
  <2>3. <<"status">> # <<>>
    OBVIOUS
  <2> QED
    BY <1>1, <1>3, <2>1, <2>2, <2>3, QueryFacts
<1>4. CASE t = <<"list">> /\ phase = "observe"
  BY <1>1, <1>4, StepsFacts
<1> QED
  BY <1>2, <1>3, <1>4 DEF Todos

-----------------------------------------------------------------------------
(* The end of a critical section. *)

\* A task that is over, whatever it does next.
LEMMA ErrorFacts ==
  ASSUME NEW p, NEW q \in Tasks, NEW missing,
         NEW e, e = OnError(p, q, missing)
  PROVE  /\ e \in Tasks
         /\ e.seen = q.seen
         /\ q.phase = "initial" => /\ e.pc = "lock" /\ e.phase = "change" /\ e.initial = -1
                                   /\ e.todo = Steps("restart") /\ e.result = q.result
         /\ q.phase = "observe" => /\ e.pc = "close" /\ e.phase = "observe" /\ e.initial = q.initial
                                   /\ e.result = q.result
         /\ q.phase \in {"change", "poll"} =>
              /\ e.pc = "end" /\ e.phase = q.phase /\ e.initial = q.initial
              /\ e.result \in {"ok", "error"}
<1>0. <<>> \in Seq(Kinds) /\ Steps("restart") \in Seq(Kinds)
  BY StepsFacts, ChangeFacts DEF ChangeStep, Acts
<1>1. CASE q.phase = "initial"
  <2>1. e = [q EXCEPT !.pc = "lock", !.phase = "change", !.initial = -1, !.todo = Steps("restart")]
    BY <1>1 DEF OnError
  <2>2. /\ e \in Tasks /\ e.seen = q.seen /\ e.pc = "lock" /\ e.phase = "change"
        /\ e.initial = -1 /\ e.todo = Steps("restart") /\ e.result = q.result
    <3>1. -1 \in Int
      OBVIOUS
    <3> QED
      BY <1>0, <2>1, <3>1 DEF Tasks
  <2> QED
    BY <1>1, <2>2
<1>2. CASE q.phase = "observe"
  <2>1. ASSUME NEW t \in Seq(Kinds), e = [q EXCEPT !.pc = "close", !.todo = t]
        PROVE  /\ e \in Tasks /\ e.seen = q.seen /\ e.pc = "close" /\ e.phase = "observe"
               /\ e.initial = q.initial /\ e.result = q.result
    BY <1>2, <2>1 DEF Tasks
  <2>2. e = [q EXCEPT !.pc = "close", !.todo = <<>>]
    BY <1>2 DEF OnError
  <2> QED
    BY <1>0, <1>2, <2>1, <2>2
<1>3. CASE q.phase \in {"change", "poll"}
  <2> DEFINE C == q.phase = "change" /\ missing /\ request[p].ignore
  <2>1. ASSUME NEW t \in Seq(Kinds), NEW r \in {"ok", "error"},
               e = [q EXCEPT !.pc = "end", !.todo = t, !.result = r]
        PROVE  /\ e \in Tasks /\ e.seen = q.seen /\ e.pc = "end" /\ e.phase = q.phase
               /\ e.initial = q.initial /\ e.result = r
    BY <1>3, <2>1 DEF Tasks
  <2>2. C => e = [q EXCEPT !.pc = "end", !.todo = <<>>, !.result = "ok"]
    BY <1>3, Zenon DEF OnError
  <2>3. ~C => e = [q EXCEPT !.pc = "end", !.todo = <<>>, !.result = "error"]
    BY <1>3, Zenon DEF OnError
  <2> HIDE DEF C
  <2>4. /\ e \in Tasks /\ e.seen = q.seen /\ e.pc = "end" /\ e.phase = q.phase
        /\ e.initial = q.initial /\ e.result \in {"ok", "error"}
    BY <1>0, <2>1, <2>2, <2>3
  <2> QED
    BY <1>3, <2>4
<1> QED
  BY <1>1, <1>2, <1>3 DEF Tasks

\* An error is ignored only if the service is missing, and that was to be ignored.
LEMMA ErrorIgnored ==
  ASSUME NEW p, NEW q \in Tasks, q.phase \in {"change", "poll"}, NEW missing,
         OnError(p, q, missing).result = "ok"
  PROVE  q.phase = "change" /\ missing /\ request[p].ignore
<1> DEFINE C == q.phase = "change" /\ missing /\ request[p].ignore
<1>1. ~C => OnError(p, q, missing) = [q EXCEPT !.pc = "end", !.todo = <<>>, !.result = "error"]
  BY Zenon DEF OnError
<1>2. \A t : [q EXCEPT !.pc = "end", !.todo = t, !.result = "error"].result = "error"
  BY DEF Tasks
<1>3. C
  <2> HIDE DEF C
  <2> QED
    BY <1>1, <1>2
<1> QED
  BY <1>3

\* A task whose critical section went well.
LEMMA SuccessFacts ==
  ASSUME NEW p, NEW q \in Tasks, NEW status \in Services,
         NEW e, e = OnSuccess(p, q, status)
  PROVE  /\ e \in Tasks
         /\ e.seen = q.seen
         /\ q.phase = "initial" => /\ e.pc = "lock" /\ e.phase = "change" /\ e.initial = status.pid
                                   /\ e.todo = Steps("restart") /\ e.result = q.result
         /\ q.phase = "observe" => /\ e.pc = "pause" /\ e.phase = "observe" /\ e.initial = q.initial
                                   /\ e.result = q.result
         /\ q.phase \in {"change", "poll"} =>
              /\ e.phase = q.phase /\ e.initial = q.initial
              /\ \/ e.pc = "wait" /\ e.result = q.result
                 \/ e.pc = "end" /\ e.result = "ok"
<1>0. <<>> \in Seq(Kinds) /\ Steps("restart") \in Seq(Kinds) /\ status.pid \in Int
  BY StepsFacts, ChangeFacts DEF ChangeStep, Acts, Services
<1>1. CASE q.phase = "initial"
  <2>1. e = [q EXCEPT !.pc = "lock", !.phase = "change", !.initial = status.pid, !.todo = Steps("restart")]
    BY <1>1 DEF OnSuccess
  <2> QED
    BY <1>0, <1>1, <2>1 DEF Tasks
<1>2. CASE q.phase = "observe"
  <2>1. ASSUME NEW t \in Seq(Kinds), e = [q EXCEPT !.pc = "pause", !.todo = t]
        PROVE  /\ e \in Tasks /\ e.seen = q.seen /\ e.pc = "pause" /\ e.phase = "observe"
               /\ e.initial = q.initial /\ e.result = q.result
    BY <1>2, <2>1 DEF Tasks
  <2>2. e = [q EXCEPT !.pc = "pause", !.todo = <<>>]
    BY <1>2 DEF OnSuccess
  <2> QED
    BY <1>0, <1>2, <2>1, <2>2
<1>3. CASE q.phase \in {"change", "poll"} /\ Waits(request[p])
  <2>1. ASSUME NEW t \in Seq(Kinds), e = [q EXCEPT !.pc = "wait", !.todo = t]
        PROVE  /\ e \in Tasks /\ e.seen = q.seen /\ e.pc = "wait" /\ e.phase = q.phase
               /\ e.initial = q.initial /\ e.result = q.result
    BY <1>3, <2>1 DEF Tasks
  <2>2. e = [q EXCEPT !.pc = "wait", !.todo = <<>>]
    BY <1>3 DEF OnSuccess
  <2> QED
    BY <1>0, <1>3, <2>1, <2>2
<1>4. CASE q.phase \in {"change", "poll"} /\ ~Waits(request[p])
  <2>1. ASSUME NEW t \in Seq(Kinds), e = [q EXCEPT !.pc = "end", !.todo = t, !.result = "ok"]
        PROVE  /\ e \in Tasks /\ e.seen = q.seen /\ e.pc = "end" /\ e.phase = q.phase
               /\ e.initial = q.initial /\ e.result = "ok"
    BY <1>4, <2>1 DEF Tasks
  <2>2. e = [q EXCEPT !.pc = "end", !.todo = <<>>, !.result = "ok"]
    BY <1>4 DEF OnSuccess
  <2> QED
    BY <1>0, <1>4, <2>1, <2>2
<1> QED
  BY <1>1, <1>2, <1>3, <1>4 DEF Tasks

\* Who waits goes on waiting, and only who does not reports at once.
LEMMA SuccessWaits ==
  ASSUME NEW p, NEW q \in Tasks, q.phase \in {"change", "poll"}, NEW status
  PROVE  OnSuccess(p, q, status).pc = "wait" <=> Waits(request[p])
<1> DEFINE C == Waits(request[p])
<1>1. C => OnSuccess(p, q, status) = [q EXCEPT !.pc = "wait", !.todo = <<>>]
  BY Zenon DEF OnSuccess
<1>2. ~C => OnSuccess(p, q, status) = [q EXCEPT !.pc = "end", !.todo = <<>>, !.result = "ok"]
  BY Zenon DEF OnSuccess
<1>3. \A t : /\ [q EXCEPT !.pc = "wait", !.todo = t].pc = "wait"
            /\ [q EXCEPT !.pc = "end", !.todo = t, !.result = "ok"].pc = "end"
  BY DEF Tasks
<1>4. OnSuccess(p, q, status).pc = "wait" <=> C
  <2> HIDE DEF C
  <2> QED
    BY <1>1, <1>2, <1>3
<1> QED
  BY <1>4

-----------------------------------------------------------------------------
(* TypeOK, LockSound and TaskSound, which need no others. *)

Base == TypeOK /\ LockSound /\ TaskSound

LEMMA BaseInit == Init => Base
<1> SUFFICES ASSUME Init PROVE Base
  OBVIOUS
<1> USE DEF Init
<1>1. Fresh \in Links
  BY DinitAssumption DEF Fresh, Links
<1>2. Idle \in Tasks
  BY DEF Idle, Tasks
<1>3. \A x \in {"pause", "end"} : [Idle EXCEPT !.phase = "observe", !.pc = x] \in Tasks
  BY <1>2 DEF Tasks
<1>4. proc \in [Procs -> Tasks]
  BY <1>2, <1>3
<1>5. svc \in Services
  BY DEF Services
<1>6. TypeOK
  <2>1. faults \in 0 .. MaxFaults
    BY DinitAssumption
  <2> QED
    BY <1>1, <1>4, <1>5, <2>1 DEF TypeOK
<1>7. \A p \in Procs : IF p = Observer THEN proc[p].phase = "observe" /\ proc[p].pc \in {"pause", "end"}
                                            /\ (~plane => proc[p].pc = "end")
                      ELSE proc[p].phase = "change" /\ proc[p].pc = "idle"
  BY <1>2 DEF Idle, Tasks
<1>8. LockSound
  BY <1>7, DinitAssumption DEF LockSound, Held
<1>9. TaskSound
  BY <1>7 DEF TaskSound, TaskFor
<1> QED
  BY <1>6, <1>8, <1>9 DEF Base

\* Dinit, the reader of a connection, and what breaks it.
LinkStep == Progress \/ ServiceEnds \/ \E c \in Conns : Serve(c) \/ ReadLoop(c) \/ Break(c) \/ AfterFunc(c)

LEMMA AfterTypes ==
  ASSUME TypeOK, NEW kind \in Kinds
  PROVE  After(kind) \in Services
BY DEF TypeOK, After, Services

LEMMA LinkTypeOK == TypeOK /\ LinkStep => TypeOK'
<1> SUFFICES ASSUME TypeOK, LinkStep PROVE TypeOK'
  OBVIOUS
<1> USE DEF rigid, dinitVars, obsVars
<1>1. ASSUME NEW s \in Services, Becomes(s)
      PROVE  svc' \in Services /\ conn' \in [Conns -> Links]
  <2>1. ASSUME NEW k \in Links
        PROVE  [k EXCEPT !.wire = Append(@, Event)] \in Links
    <3>1. Event \in Wired /\ k.wire \in Seq(Wired)
      BY LinkFields DEF Wired
    <3>2. Append(k.wire, Event) \in Seq(Wired)
      BY <3>1, SequenceTypes
    <3> QED
      BY <3>2, LinkFields
  <2>2. svc' = s /\ conn' = [c \in Conns |-> IF conn[c].granted THEN [conn[c] EXCEPT !.wire = Append(@, Event)]
                                            ELSE conn[c]]
    BY <1>1 DEF Becomes
  <2>3. conn \in [Conns -> Links]
    BY DEF TypeOK
  <2> QED
    BY <2>1, <2>2, <2>3
<1>2. CASE Progress
  <2>1. svc \in Services /\ pids \in Nat
    BY DEF TypeOK
  <2>2. PICK s \in Services : Becomes(s) /\ pids' \in {pids, pids + 1}
    <3>1. CASE svc.state = "starting" /\ Becomes([svc EXCEPT !.state = "started", !.pid = pids + 1])
               /\ pids' = pids + 1
      <4>1. \A n \in Nat : [svc EXCEPT !.state = "started", !.pid = n] \in Services
        BY <2>1 DEF Services
      <4>2. pids + 1 \in Nat
        BY <2>1
      <4> QED
        BY <3>1, <4>1, <4>2
    <3>2. CASE Becomes([svc EXCEPT !.state = "stopped", !.target = "stopped"]) /\ pids' = pids
      <4>1. [svc EXCEPT !.state = "stopped", !.target = "stopped"] \in Services
        BY <2>1 DEF Services
      <4> QED
        BY <3>2, <4>1
    <3>3. CASE Becomes([svc EXCEPT !.state = "stopping"]) /\ pids' = pids
      <4>1. [svc EXCEPT !.state = "stopping"] \in Services
        BY <2>1 DEF Services
      <4> QED
        BY <3>3, <4>1
    <3>4. CASE Becomes([svc EXCEPT !.state = IF svc.again THEN "starting" ELSE "stopped",
                                   !.target = IF svc.again THEN "started" ELSE "stopped",
                                   !.pid = 0, !.again = FALSE]) /\ pids' = pids
      <4>1. [svc EXCEPT !.state = IF svc.again THEN "starting" ELSE "stopped",
                        !.target = IF svc.again THEN "started" ELSE "stopped",
                        !.pid = 0, !.again = FALSE] \in Services
        BY <2>1 DEF Services
      <4> QED
        BY <3>4, <4>1
    <3> QED
      BY <1>2, <3>1, <3>2, <3>3, <3>4 DEF Progress
  <2> QED
    BY <1>1, <1>2, <2>1, <2>2 DEF Progress, TypeOK
<1>3. CASE ServiceEnds
  <2>1. svc \in Services /\ faults \in 0 .. MaxFaults /\ faults < MaxFaults
    BY <1>3 DEF TypeOK, ServiceEnds
  <2>2. PICK s \in Services : Becomes(s)
    BY <1>3, <2>1 DEF ServiceEnds, Services
  <2>3. faults' \in 0 .. MaxFaults
    BY <1>3, <2>1, DinitAssumption DEF ServiceEnds
  <2> QED
    BY <1>1, <1>3, <2>2, <2>3 DEF ServiceEnds, TypeOK
<1>4. ASSUME NEW c \in Conns, Serve(c) PROVE TypeOK'
  <2> DEFINE k == conn[c]
             m == Head(k.sent)
             Reply(a) == [kind |-> m.kind, from |-> m.from, answer |-> a, svc |-> svc]
  <2>1. k \in Links /\ svc \in Services
    BY DEF TypeOK
  <2>2. k.sent # <<>> /\ k.sent \in Seq(Asks)
    BY <1>4, <2>1, LinkFields DEF Serve
  <2>3. m \in Asks /\ Tail(k.sent) \in Seq(Asks) /\ m.kind \in Kinds /\ m.from \in Procs
    <3>1. m \in Asks /\ Tail(k.sent) \in Seq(Asks)
      BY <2>2, SequenceTypes
    <3> QED
      BY <3>1 DEF Asks
  <2>4. PICK answer \in Answers(c, m.kind) :
          /\ conn' = [conn EXCEPT ![c].sent = Tail(@),
                        ![c].wire = IF answer = "row" THEN Append(Append(@, Reply("row")), Reply("end"))
                                    ELSE Append(@, Reply(answer)),
                        ![c].granted = IF answer = "ok" /\ m.kind \in {"find", "load"} THEN TRUE
                                       ELSE IF answer = "ok" /\ m.kind \in {"reload", "unload"} THEN FALSE ELSE @]
          /\ svc' = IF answer = "ok" THEN After(m.kind) ELSE svc
          /\ applied' = IF answer = "ok" /\ m.kind \notin {"find", "load", "status"}
                        THEN [applied EXCEPT ![m.from] = @ + 1] ELSE applied
    BY <1>4 DEF Serve
  <2>5. answer \in {"ok", "missing", "rejected", "row", "end"}
    BY DEF Answers
  <2>6. \A a \in {"ok", "missing", "rejected", "row", "end"} : Reply(a) \in Replies
    BY <2>1, <2>3 DEF Replies
  <2> DEFINE w == IF answer = "row" THEN Append(Append(k.wire, Reply("row")), Reply("end"))
                                    ELSE Append(k.wire, Reply(answer))
             g == IF answer = "ok" /\ m.kind \in {"find", "load"} THEN TRUE
                  ELSE IF answer = "ok" /\ m.kind \in {"reload", "unload"} THEN FALSE ELSE k.granted
             t == Tail(k.sent)
  <2>7. w \in Seq(Wired) /\ g \in BOOLEAN
    <3>1. k.wire \in Seq(Wired) /\ k.granted \in BOOLEAN
      BY <2>1, LinkFields
    <3> HIDE DEF Reply
    <3>2. \A a \in {"ok", "missing", "rejected", "row", "end"} : Reply(a) \in Wired
      BY <2>6 DEF Wired
    <3>3. Append(k.wire, Reply(answer)) \in Seq(Wired) /\ Append(k.wire, Reply("row")) \in Seq(Wired)
      BY <2>5, <3>1, <3>2, SequenceTypes
    <3>4. Append(Append(k.wire, Reply("row")), Reply("end")) \in Seq(Wired)
      BY <3>2, <3>3, SequenceTypes
    <3> QED
      BY <3>1, <3>3, <3>4
  <2>8. conn' = [conn EXCEPT ![c] = [k EXCEPT !.sent = t, !.wire = w, !.granted = g]]
    BY <2>4
  <2> HIDE DEF w, g, t
  <2>9. [k EXCEPT !.sent = t, !.wire = w, !.granted = g] \in Links
    BY <2>1, <2>3, <2>7, LinkFields DEF t
  <2>10. conn' \in [Conns -> Links]
    BY <2>8, <2>9 DEF TypeOK
  <2>11. svc' \in Services
    BY <2>1, <2>3, <2>4, AfterTypes
  <2>12. applied' \in [Callers -> Nat]
    <3> HIDE DEF m
    <3>1. applied \in [Callers -> Nat]
      BY DEF TypeOK
    <3>2. \A x : [applied EXCEPT ![x] = @ + 1] \in [Callers -> Nat]
      <4> TAKE x
      <4>1. \A y \in Callers : applied[y] \in Nat /\ applied[y] + 1 \in Nat
        BY <3>1
      <4> QED
        BY <3>1, <4>1, Zenon
    <3> QED
      BY <2>4, <3>1, <3>2
  <2> QED
    BY <1>4, <2>10, <2>11, <2>12 DEF Serve, TypeOK
<1>5. ASSUME NEW c \in Conns, ReadLoop(c) PROVE TypeOK'
  <2> DEFINE k == conn[c]
             m == Head(k.wire)
  <2>1. k \in Links /\ k.wire # <<>> /\ k.wire \in Seq(Wired)
    BY <1>5, LinkFields DEF TypeOK, ReadLoop
  <2>2. Tail(k.wire) \in Seq(Wired) /\ m \in Wired
    BY <2>1, SequenceTypes
  <2> DEFINE l == IF m # Event THEN [k EXCEPT !.wire = Tail(@), !.replies = Append(@, m)]
                   ELSE IF k.events < EventCap THEN [k EXCEPT !.wire = Tail(@), !.events = @ + 1]
                   ELSE Failed(k)
  <2>3. l \in Links
    <3> HIDE DEF m, k
    <3>1. CASE m # Event
      <4>1. m \in Replies /\ k.replies \in Seq(Replies)
        BY <2>1, <2>2, <3>1, LinkFields DEF Wired
      <4>2. Append(k.replies, m) \in Seq(Replies)
        BY <4>1
      <4> QED
        BY <2>1, <2>2, <3>1, <4>2, LinkFields
    <3>2. CASE m = Event /\ k.events < EventCap
      <4>1. k.events + 1 \in 0 .. EventCap
        <5>1. k.events \in 0 .. EventCap /\ EventCap \in Nat
          BY <2>1, LinkFields, DinitAssumption
        <5> QED
          BY <3>2, <5>1
      <4> QED
        BY <2>1, <2>2, <3>2, <4>1, LinkFields
    <3>3. CASE m = Event /\ ~(k.events < EventCap)
      BY <2>1, <3>3, LinkTypes
    <3> QED
      BY <3>1, <3>2, <3>3
  <2>4. conn' = [conn EXCEPT ![c] = l]
    BY <1>5 DEF ReadLoop
  <2> HIDE DEF l
  <2> QED
    BY <1>5, <2>3, <2>4 DEF ReadLoop, TypeOK
<1>6. ASSUME NEW c \in Conns, Break(c) PROVE TypeOK'
  <2>1. conn \in [Conns -> Links] /\ Failed(conn[c]) \in Links
    BY LinkTypes DEF TypeOK
  <2>2. faults' \in 0 .. MaxFaults
    BY <1>6, DinitAssumption DEF Break, TypeOK
  <2> QED
    BY <1>6, <2>1, <2>2 DEF Break, TypeOK
<1>7. ASSUME NEW c \in Conns, AfterFunc(c) PROVE TypeOK'
  <2>1. conn \in [Conns -> Links] /\ Failed(conn[c]) \in Links
    BY LinkTypes DEF TypeOK
  <2> QED
    BY <1>7, <2>1 DEF AfterFunc, TypeOK
<1> QED
  BY <1>2, <1>3, <1>4, <1>5, <1>6, <1>7 DEF LinkStep

\* One task moves on; it takes the lock, keeps it or gives it back.
LEMMA TaskMoves ==
  ASSUME Base, NEW p \in Procs, NEW e \in Tasks, TaskFor(p, e),
         proc' = [proc EXCEPT ![p] = e], UNCHANGED rigid,
         \/ holder' = holder /\ (e.pc \in {"send", "await"} <=> Held(p))
         \/ /\ holder[Conn(p)] = "nobody" /\ holder' = [holder EXCEPT ![Conn(p)] = p]
            /\ e.pc \in {"send", "await"} /\ Conn(p) \in Conns
         \/ /\ Held(p) /\ holder' = [holder EXCEPT ![Conn(p)] = "nobody"]
            /\ e.pc \notin {"send", "await"}
  PROVE  /\ LockSound' /\ TaskSound'
         /\ proc' \in [Procs -> Tasks] /\ holder' \in [Conns -> Procs \cup {"nobody"}]
<1>1. proc \in [Procs -> Tasks] /\ holder \in [Conns -> Procs \cup {"nobody"}]
  BY DEF Base, TypeOK
<1>2. proc' \in [Procs -> Tasks] /\ holder' \in [Conns -> Procs \cup {"nobody"}]
  BY <1>1
<1>3. plane' = plane /\ request' = request
  BY DEF rigid
<1>4. proc'[p] = e /\ \A o \in Procs : o # p => proc'[o] = proc[o]
  BY <1>1
<1>5. TaskSound'
  <2>1. ASSUME NEW o \in Procs PROVE TaskFor(o, proc'[o])
    BY <1>4 DEF Base, TaskSound
  <2>2. ASSUME NEW o \in Procs PROVE TaskFor(o, proc[o])'
    BY <1>3, <2>1 DEF TaskFor, Todos
  <2> QED
    BY <2>2 DEF TaskSound
<1>6. \A o : Conn(o)' = Conn(o)
  BY <1>3 DEF Conn
<1>7. \A o \in Procs : Held(o)' <=> IF o = p THEN e.pc \in {"send", "await"} ELSE Held(o)
  BY <1>4 DEF Held
<1>8. "nobody" \notin Procs
  BY DinitAssumption
<1>9. LockSound'
  <2> SUFFICES ASSUME NEW c \in Conns, NEW o \in Procs
               PROVE  holder'[c] = o <=> Held(o)' /\ Conn(o)' = c
    BY DEF LockSound
  <2>0. /\ holder[c] = o <=> Held(o) /\ Conn(o) = c
        /\ holder[c] = p <=> Held(p) /\ Conn(p) = c
    BY DEF Base, LockSound
  <2>1. CASE holder' = holder /\ (e.pc \in {"send", "await"} <=> Held(p))
    BY <1>6, <1>7, <2>0, <2>1
  <2>2. CASE /\ holder[Conn(p)] = "nobody" /\ holder' = [holder EXCEPT ![Conn(p)] = p]
             /\ e.pc \in {"send", "await"} /\ Conn(p) \in Conns
    <3>1. holder'[c] = IF c = Conn(p) THEN p ELSE holder[c]
      BY <1>1, <2>2
    <3> QED
      BY <1>6, <1>7, <1>8, <2>0, <2>2, <3>1
  <2>3. CASE /\ Held(p) /\ holder' = [holder EXCEPT ![Conn(p)] = "nobody"]
             /\ e.pc \notin {"send", "await"}
    <3>1. holder'[c] = IF c = Conn(p) THEN "nobody" ELSE holder[c]
      BY <1>1, <2>3
    <3> QED
      BY <1>6, <1>7, <1>8, <2>0, <2>3, <3>1
  <2> QED
    BY <2>1, <2>2, <2>3
<1> QED
  BY <1>2, <1>5, <1>9

\* Who is at a step has a connection and something to ask.
LEMMA AtStep ==
  ASSUME Base, NEW p \in Procs, proc[p].pc \in {"lock", "send", "await"}
  PROVE  /\ Conn(p) \in Conns /\ conn[Conn(p)] \in Links
         /\ proc[p] \in Tasks /\ TaskFor(p, proc[p])
         /\ p \in Callers <=> p # Observer
         /\ LET t == proc[p].todo
                phase == proc[p].phase
            IN /\ phase \in {"initial", "change", "poll", "observe"}
               /\ phase = "observe" <=> p = Observer
               /\ t \in Todos(p, phase)
               /\ t \in Seq(Kinds) /\ t # <<>> /\ Head(t) \in Kinds /\ Tail(t) \in Seq(Kinds)
               /\ Tail(t) = <<>> \/ Tail(t) \in Todos(p, phase)
               /\ Head(t) \in {"find", "load"} => Tail(t) # <<>>
               /\ Head(t) = "list" => phase = "observe"
               /\ phase \in {"initial", "poll"} => Head(t) \in {"find", "status"}
               /\ phase = "observe" => Head(t) \in {"list", "find", "status"}
<1>1. proc[p] \in Tasks /\ TaskFor(p, proc[p]) /\ TypeOK
  BY DEF Base, TypeOK, TaskSound
<1>2. p \in Callers <=> p # Observer
  BY DinitAssumption DEF Procs
<1>3. Conn(p) \in Conns
  BY <1>1, <1>2 DEF TaskFor, Conn, Conns
<1>4. conn[Conn(p)] \in Links
  BY <1>1, <1>3 DEF TypeOK
<1>5. /\ proc[p].phase \in {"initial", "change", "poll", "observe"}
      /\ proc[p].phase = "observe" <=> p = Observer
      /\ proc[p].todo \in Todos(p, proc[p].phase)
  BY <1>1 DEF TaskFor, Tasks
<1> HIDE DEF Base
<1> QED
  BY <1>1, <1>2, <1>3, <1>4, <1>5, TodoFacts

\* A critical section that went wrong.
LEMMA ErrorTask ==
  ASSUME Base, NEW p \in Procs, proc[p].pc \in {"lock", "send", "await"}, NEW missing,
         NEW e, e = OnError(p, proc[p], missing)
  PROVE  e \in Tasks /\ TaskFor(p, e) /\ e.pc \notin {"send", "await"}
<1>1. /\ proc[p] \in Tasks /\ TaskFor(p, proc[p]) /\ (p \in Callers <=> p # Observer)
      /\ proc[p].phase \in {"initial", "change", "poll", "observe"}
      /\ proc[p].phase = "observe" <=> p = Observer
  BY AtStep
<1> DEFINE q == proc[p]
<1>2. /\ e \in Tasks
      /\ q.phase = "initial" => e.pc = "lock" /\ e.phase = "change" /\ e.todo = Steps("restart")
      /\ q.phase = "observe" => e.pc = "close" /\ e.phase = "observe"
      /\ q.phase \in {"change", "poll"} => e.pc = "end" /\ e.phase = q.phase
  <2> HIDE DEF q
  <2>1. q \in Tasks /\ e = OnError(p, q, missing)
    BY <1>1 DEF q
  <2> QED
    BY <2>1, ErrorFacts
<1>3. q.phase = "initial" => e.todo \in Todos(p, e.phase)
  <2>1. Steps("restart") \in Changes("restart")
    BY StepsFacts DEF Acts
  <2> QED
    BY <1>1, <1>2, <2>1 DEF TaskFor, Todos
<1>4. p = Observer => plane
  BY <1>1 DEF TaskFor
<1> HIDE DEF q
<1>5. q = proc[p]
  BY DEF q
<1> QED
  BY <1>1, <1>2, <1>3, <1>4, <1>5 DEF TaskFor

\* A critical section that went well.
LEMMA SuccessTask ==
  ASSUME Base, NEW p \in Procs, proc[p].pc \in {"lock", "send", "await"}, NEW status \in Services,
         NEW q \in Tasks, q.phase = proc[p].phase,
         NEW e, e = OnSuccess(p, q, status)
  PROVE  e \in Tasks /\ TaskFor(p, e) /\ e.pc \notin {"send", "await"}
<1>1. /\ proc[p] \in Tasks /\ TaskFor(p, proc[p]) /\ (p \in Callers <=> p # Observer)
      /\ proc[p].phase \in {"initial", "change", "poll", "observe"}
      /\ proc[p].phase = "observe" <=> p = Observer
  BY AtStep
<1>2. /\ e \in Tasks
      /\ q.phase = "initial" => e.pc = "lock" /\ e.phase = "change" /\ e.todo = Steps("restart")
      /\ q.phase = "observe" => e.pc = "pause" /\ e.phase = "observe"
      /\ q.phase \in {"change", "poll"} => e.pc \in {"wait", "end"} /\ e.phase = q.phase
  BY SuccessFacts
<1>3. q.phase = "initial" => e.todo \in Todos(p, e.phase)
  <2>1. Steps("restart") \in Changes("restart")
    BY StepsFacts DEF Acts
  <2> QED
    BY <1>1, <1>2, <2>1 DEF TaskFor, Todos
<1>4. p = Observer => plane
  BY <1>1 DEF TaskFor
<1> QED
  BY <1>1, <1>2, <1>3, <1>4 DEF TaskFor

LEMMA AcquireBase ==
  ASSUME Base, NEW p \in Procs, Acquire(p)
  PROVE  Base'
<1> DEFINE c == Conn(p)
<1>0. proc[p].pc = "lock" /\ holder[c] = "nobody" /\ UNCHANGED rigid /\ UNCHANGED dinitVars
  BY DEF Acquire
<1>1. c \in Conns /\ conn[c] \in Links /\ proc[p] \in Tasks /\ TaskFor(p, proc[p]) /\ ~Held(p)
  BY <1>0, AtStep DEF Held
<1>2. Fresh \in Links /\ [Fresh EXCEPT !.status = "open"] \in Links
  <2>1. Fresh \in Links
    BY <1>1, LinkTypes
  <2> QED
    BY <2>1, LinkFields
<1>3. conn \in [Conns -> Links]
  BY DEF Base, TypeOK
<1>4. conn' \in [Conns -> Links]
  BY <1>2, <1>3 DEF Acquire
<1>5. CASE /\ holder' = [holder EXCEPT ![c] = p] /\ proc' = [proc EXCEPT ![p].pc = "send"]
           /\ UNCHANGED <<faults, obsVars>>
  <2> DEFINE e == [proc[p] EXCEPT !.pc = "send"]
  <2>1. e \in Tasks /\ e.pc = "send" /\ TaskFor(p, e)
    <3>1. e \in Tasks /\ e.pc = "send" /\ e.phase = proc[p].phase /\ e.todo = proc[p].todo
      BY <1>1 DEF Tasks
    <3> HIDE DEF e
    <3> QED
      BY <1>0, <1>1, <3>1 DEF TaskFor
  <2>2. proc' = [proc EXCEPT ![p] = e]
    BY <1>5
  <2> HIDE DEF e
  <2>3. LockSound' /\ TaskSound' /\ proc' \in [Procs -> Tasks] /\ holder' \in [Conns -> Procs \cup {"nobody"}]
    BY <1>0, <1>1, <1>5, <2>1, <2>2, TaskMoves
  <2> QED
    BY <1>0, <1>4, <1>5, <2>3 DEF Base, TypeOK, rigid, dinitVars, obsVars
<1>6. CASE /\ proc' = [proc EXCEPT ![p] = OnError(p, @, FALSE)] /\ TellError(p) /\ UNCHANGED holder
           /\ faults' = IF proc[p].ended THEN faults ELSE faults + 1
           /\ proc[p].ended \/ faults < MaxFaults
  <2> DEFINE e == OnError(p, proc[p], FALSE)
  <2>1. e \in Tasks /\ TaskFor(p, e) /\ e.pc \notin {"send", "await"}
    BY <1>0, ErrorTask
  <2>2. proc' = [proc EXCEPT ![p] = e]
    BY <1>6
  <2> HIDE DEF e
  <2>3. LockSound' /\ TaskSound' /\ proc' \in [Procs -> Tasks] /\ holder' \in [Conns -> Procs \cup {"nobody"}]
    BY <1>0, <1>1, <1>6, <2>1, <2>2, TaskMoves
  <2>4. faults' \in 0 .. MaxFaults
    BY <1>6, DinitAssumption DEF Base, TypeOK
  <2> QED
    BY <1>0, <1>4, <1>6, <2>3, <2>4 DEF Base, TypeOK, TellError, rigid, dinitVars, obsVars
<1> QED
  BY <1>5, <1>6 DEF Acquire

LEMMA SendBase ==
  ASSUME Base, NEW p \in Procs, Send(p)
  PROVE  Base'
<1> DEFINE c == Conn(p)
           t == proc[p].todo
<1>0. proc[p].pc = "send" /\ UNCHANGED <<rigid, dinitVars, faults>>
  BY DEF Send
<1>1. /\ c \in Conns /\ conn[c] \in Links /\ proc[p] \in Tasks /\ TaskFor(p, proc[p]) /\ Held(p)
      /\ t \in Seq(Kinds) /\ t # <<>> /\ Head(t) \in Kinds /\ Tail(t) \in Seq(Kinds)
      /\ Tail(t) = <<>> \/ Tail(t) \in Todos(p, proc[p].phase)
      /\ Head(t) \in {"find", "load"} => Tail(t) # <<>>
  BY <1>0, AtStep DEF Held
<1>2. conn \in [Conns -> Links]
  BY DEF Base, TypeOK
<1>3. CASE /\ Head(t) \in {"find", "load"}
           /\ proc' = [proc EXCEPT ![p].todo = Tail(@)] /\ UNCHANGED <<conn, holder, obsVars>>
  <2> DEFINE u == Tail(t)
             e == [proc[p] EXCEPT !.todo = u]
  <2>1. e \in Tasks /\ e.pc = "send" /\ TaskFor(p, e)
    <3>0. u \in Seq(Kinds) /\ u \in Todos(p, proc[p].phase)
      BY <1>1, <1>3
    <3> HIDE DEF u
    <3>1. e \in Tasks /\ e.pc = "send" /\ e.phase = proc[p].phase /\ e.todo = u
      BY <1>0, <1>1, <3>0 DEF Tasks
    <3> HIDE DEF e
    <3> QED
      BY <1>0, <1>1, <3>0, <3>1 DEF TaskFor
  <2>2. proc' = [proc EXCEPT ![p] = e]
    BY <1>3
  <2> HIDE DEF e
  <2>3. LockSound' /\ TaskSound' /\ proc' \in [Procs -> Tasks] /\ holder' \in [Conns -> Procs \cup {"nobody"}]
    BY <1>0, <1>1, <1>3, <2>1, <2>2, TaskMoves
  <2> QED
    BY <1>0, <1>3, <2>3 DEF Base, TypeOK, rigid, dinitVars, obsVars
<1>4. CASE /\ conn' = [conn EXCEPT ![c].sent = Append(@, [kind |-> Head(t), from |-> p])]
           /\ proc' = [proc EXCEPT ![p].pc = "await"] /\ UNCHANGED <<holder, obsVars>>
  <2> DEFINE e == [proc[p] EXCEPT !.pc = "await"]
             a == [kind |-> Head(t), from |-> p]
             u == Append(conn[c].sent, a)
  <2>1. e \in Tasks /\ e.pc = "await" /\ TaskFor(p, e)
    <3>1. e \in Tasks /\ e.pc = "await" /\ e.phase = proc[p].phase /\ e.todo = proc[p].todo
      BY <1>1 DEF Tasks
    <3> HIDE DEF e
    <3> QED
      BY <1>0, <1>1, <3>1 DEF TaskFor
  <2>2. proc' = [proc EXCEPT ![p] = e]
    BY <1>4
  <2> HIDE DEF e
  <2>3. LockSound' /\ TaskSound' /\ proc' \in [Procs -> Tasks] /\ holder' \in [Conns -> Procs \cup {"nobody"}]
    BY <1>0, <1>1, <1>4, <2>1, <2>2, TaskMoves
  <2>4. u \in Seq(Asks)
    <3>1. a \in Asks
      BY <1>1 DEF Asks
    <3> HIDE DEF a
    <3> QED
      BY <1>1, <3>1, LinkFields, SequenceTypes
  <2>5. conn' = [conn EXCEPT ![c] = [conn[c] EXCEPT !.sent = u]]
    BY <1>4
  <2> HIDE DEF u
  <2>6. conn' \in [Conns -> Links]
    BY <1>1, <1>2, <2>4, <2>5, LinkFields
  <2> QED
    BY <1>0, <1>4, <2>3, <2>6 DEF Base, TypeOK, rigid, dinitVars, obsVars
<1>5. CASE /\ conn' = [conn EXCEPT ![c] = Settled(p, Forgets(@, Head(t)))]
           /\ proc' = [proc EXCEPT ![p] = OnError(p, @, FALSE)]
           /\ holder' = [holder EXCEPT ![c] = "nobody"]
           /\ TellError(p)
  <2> DEFINE e == OnError(p, proc[p], FALSE)
             l == Settled(p, Forgets(conn[c], Head(t)))
  <2>1. e \in Tasks /\ TaskFor(p, e) /\ e.pc \notin {"send", "await"}
    BY <1>0, ErrorTask
  <2>2. proc' = [proc EXCEPT ![p] = e]
    BY <1>5
  <2> HIDE DEF e
  <2>3. LockSound' /\ TaskSound' /\ proc' \in [Procs -> Tasks] /\ holder' \in [Conns -> Procs \cup {"nobody"}]
    BY <1>0, <1>1, <1>5, <2>1, <2>2, TaskMoves
  <2>4. conn' = [conn EXCEPT ![c] = l]
    BY <1>5
  <2>6. l \in Links
    BY <1>1, LinkTypes
  <2> HIDE DEF l
  <2>7. conn' \in [Conns -> Links]
    BY <1>2, <2>4, <2>6
  <2> QED
    BY <1>0, <1>5, <2>3, <2>7 DEF Base, TypeOK, TellError, rigid, dinitVars, obsVars
<1> QED
  BY <1>3, <1>4, <1>5 DEF Send

\* The next reply is read, a cell of Replies.
LEMMA NextReply ==
  ASSUME NEW k \in Links, k.replies # <<>>
  PROVE  /\ Head(k.replies) \in Replies /\ Head(k.replies).svc \in Services
         /\ Head(k.replies).kind \in Kinds /\ Head(k.replies).from \in Procs
         /\ Head(k.replies).answer \in {"ok", "missing", "rejected", "row", "end"}
<1>1. Head(k.replies) \in Replies
  BY LinkFields, SequenceTypes
<1> QED
  BY <1>1 DEF Replies

LEMMA ReceiveBase ==
  ASSUME Base, NEW p \in Procs, Receive(p)
  PROVE  Base'
<1> DEFINE c == Conn(p)
           t == proc[p].todo
           k == Head(t)
           m == Head(conn[c].replies)
           bad == m.answer \in {"missing", "rejected"}
           rest == IF m.answer = "row" THEN t
                   ELSE IF m.answer = "end" /\ proc[p].phase = "observe" /\ proc[p].seen # None
                        THEN Steps("status") ELSE Tail(t)
           seen == IF m.answer = "row" \/ (k = "status" /\ proc[p].phase # "observe") THEN m.svc
                   ELSE proc[p].seen
           pc == IF m.answer = "row" THEN "await" ELSE "send"
           next == [proc[p] EXCEPT !.todo = rest, !.seen = seen, !.pc = pc]
           rows == IF seen = None THEN [rows |-> "empty"] ELSE seen
<1>0. proc[p].pc = "await" /\ conn[c].replies # <<>> /\ UNCHANGED <<rigid, dinitVars, faults>>
  BY DEF Receive
<1>1. /\ c \in Conns /\ conn[c] \in Links /\ proc[p] \in Tasks /\ TaskFor(p, proc[p]) /\ Held(p)
      /\ proc[p].phase \in {"initial", "change", "poll", "observe"}
      /\ proc[p].phase = "observe" <=> p = Observer
      /\ t \in Todos(p, proc[p].phase)
      /\ t \in Seq(Kinds) /\ t # <<>> /\ Head(t) \in Kinds /\ Tail(t) \in Seq(Kinds)
      /\ Tail(t) = <<>> \/ Tail(t) \in Todos(p, proc[p].phase)
  BY <1>0, AtStep DEF Held
<1>2. conn \in [Conns -> Links]
  BY DEF Base, TypeOK
<1>3. /\ m.svc \in Services
      /\ m.answer \in {"ok", "missing", "rejected", "row", "end"}
  BY <1>0, <1>1, NextReply
<1>4. \A ok \in BOOLEAN : Taken(conn[c], k, ok) \in Links /\ Settled(p, Taken(conn[c], k, ok)) \in Links
  <2>1. \A ok \in BOOLEAN : Taken(conn[c], k, ok) \in Links
    BY <1>0, <1>1, LinkTypes
  <2> QED
    BY <2>1, LinkTypes
<1>5. rest \in Seq(Kinds) /\ (rest = <<>> \/ rest \in Todos(p, proc[p].phase))
  <2>1. Steps("status") \in Seq(Kinds) /\ Steps("status") \in Queries
    BY StepsFacts, QueryFacts
  <2>2. proc[p].phase = "observe" => Queries \subseteq Todos(p, proc[p].phase)
    BY DEF Todos
  <2> QED
    BY <1>1, <2>1, <2>2
<1>6. seen \in Services \cup {None} /\ pc \in {"await", "send"}
  BY <1>1, <1>3 DEF Tasks
<1>7. next \in Tasks /\ next.phase = proc[p].phase /\ next.todo = rest /\ next.pc = pc
  <2> HIDE DEF rest, seen, pc
  <2> QED
    BY <1>1, <1>5, <1>6 DEF Tasks
<1>8. CASE /\ conn' = [conn EXCEPT ![c] = Settled(p, Taken(@, k, FALSE))]
           /\ proc' = [proc EXCEPT ![p] = OnError(p, @, m.answer = "missing")]
           /\ holder' = [holder EXCEPT ![c] = "nobody"]
           /\ TellError(p)
  <2> DEFINE e == OnError(p, proc[p], m.answer = "missing")
  <2>1. e \in Tasks /\ TaskFor(p, e) /\ e.pc \notin {"send", "await"}
    BY <1>0, ErrorTask
  <2>2. proc' = [proc EXCEPT ![p] = e]
    BY <1>8
  <2> HIDE DEF e
  <2>3. LockSound' /\ TaskSound' /\ proc' \in [Procs -> Tasks] /\ holder' \in [Conns -> Procs \cup {"nobody"}]
    BY <1>0, <1>1, <1>8, <2>1, <2>2, TaskMoves
  <2>4. conn' \in [Conns -> Links]
    BY <1>2, <1>4, <1>8
  <2> HIDE DEF c, t, k, m, rest, seen, pc, next
  <2> QED
    BY <1>0, <1>8, <2>3, <2>4 DEF Base, TypeOK, TellError, rigid, dinitVars, obsVars
<1>9. CASE /\ conn' = [conn EXCEPT ![c] = Taken(@, k, TRUE)]
           /\ rest # <<>> /\ proc' = [proc EXCEPT ![p] = next] /\ UNCHANGED <<holder, obsVars>>
  <2>1. TaskFor(p, next) /\ next.pc \in {"send", "await"}
    <3> HIDE DEF next, rest
    <3> QED
      BY <1>0, <1>1, <1>5, <1>6, <1>7, <1>9 DEF TaskFor
  <2> HIDE DEF next
  <2>2. LockSound' /\ TaskSound' /\ proc' \in [Procs -> Tasks] /\ holder' \in [Conns -> Procs \cup {"nobody"}]
    BY <1>0, <1>1, <1>7, <1>9, <2>1, TaskMoves
  <2>3. conn' \in [Conns -> Links]
    BY <1>2, <1>4, <1>9
  <2> HIDE DEF c, t, k, m, rest, seen, pc
  <2> QED
    BY <1>0, <1>9, <2>2, <2>3 DEF Base, TypeOK, rigid, dinitVars, obsVars
<1>10. CASE /\ conn' = [conn EXCEPT ![c] = Taken(@, k, TRUE)]
            /\ proc' = [proc EXCEPT ![p] = OnSuccess(p, next, m.svc)]
            /\ holder' = [holder EXCEPT ![c] = "nobody"]
            /\ previous' \in {previous, rows} /\ published' \in {published, rows}
  <2> DEFINE e == OnSuccess(p, next, m.svc)
  <2>1. e \in Tasks /\ TaskFor(p, e) /\ e.pc \notin {"send", "await"}
    <3> HIDE DEF next, m
    <3> QED
      BY <1>0, <1>3, <1>7, SuccessTask
  <2>2. proc' = [proc EXCEPT ![p] = e]
    BY <1>10
  <2> HIDE DEF e
  <2>3. LockSound' /\ TaskSound' /\ proc' \in [Procs -> Tasks] /\ holder' \in [Conns -> Procs \cup {"nobody"}]
    BY <1>0, <1>1, <1>10, <2>1, <2>2, TaskMoves
  <2>4. conn' \in [Conns -> Links]
    BY <1>2, <1>4, <1>10
  <2> HIDE DEF c, t, k, m, rest, pc, next, seen
  <2>5. rows \in Services \cup {None, [rows |-> "empty"]}
    BY <1>6
  <2> HIDE DEF rows
  <2> QED
    BY <1>0, <1>10, <2>3, <2>4, <2>5 DEF Base, TypeOK, rigid, dinitVars, obsVars
<1>11. \/ /\ bad
          /\ conn' = [conn EXCEPT ![c] = Settled(p, Taken(@, k, ~bad))]
          /\ proc' = [proc EXCEPT ![p] = OnError(p, @, m.answer = "missing")]
          /\ holder' = [holder EXCEPT ![c] = "nobody"]
          /\ TellError(p)
       \/ /\ conn' = [conn EXCEPT ![c] = Taken(@, k, TRUE)]
          /\ \/ /\ rest # <<>>
                /\ proc' = [proc EXCEPT ![p] = next]
                /\ UNCHANGED <<holder, obsVars>>
             \/ /\ rest = <<>>
                /\ proc' = [proc EXCEPT ![p] = OnSuccess(p, next, m.svc)]
                /\ holder' = [holder EXCEPT ![c] = "nobody"]
                /\ IF p = Observer /\ previous # rows
                   THEN previous' = rows /\ published' = rows
                   ELSE UNCHANGED obsVars
  BY Zenon DEF Receive
<1>12. bad => (~bad) = FALSE
  OBVIOUS
<1> HIDE DEF c, t, k, m, bad, rest, seen, pc, next, rows
<1> QED
  BY <1>8, <1>9, <1>10, <1>11, <1>12 DEF obsVars

LEMMA AwaitFailsBase ==
  ASSUME Base, NEW p \in Procs, AwaitFails(p)
  PROVE  Base'
<1> DEFINE c == Conn(p)
           e == OnError(p, proc[p], FALSE)
           l == Settled(p, Forgets(Failed(conn[c]), Head(proc[p].todo)))
<1>1. /\ proc[p].pc = "await" /\ UNCHANGED <<rigid, dinitVars, faults>>
      /\ conn' = [conn EXCEPT ![c] = l] /\ proc' = [proc EXCEPT ![p] = e]
      /\ holder' = [holder EXCEPT ![c] = "nobody"] /\ TellError(p)
  BY DEF AwaitFails
<1>2. conn[c] \in Links /\ Held(p) /\ conn \in [Conns -> Links]
  BY <1>1, AtStep DEF Held, Base, TypeOK
<1>3. Failed(conn[c]) \in Links
  BY <1>2, LinkTypes
<1>4. Forgets(Failed(conn[c]), Head(proc[p].todo)) \in Links
  BY <1>3, LinkTypes
<1>5. l \in Links
  BY <1>4, LinkTypes
<1>6. e \in Tasks /\ TaskFor(p, e) /\ e.pc \notin {"send", "await"}
  BY <1>1, ErrorTask
<1> HIDE DEF e, l
<1>7. LockSound' /\ TaskSound' /\ proc' \in [Procs -> Tasks] /\ holder' \in [Conns -> Procs \cup {"nobody"}]
  BY <1>1, <1>2, <1>6, TaskMoves
<1>8. conn' \in [Conns -> Links]
  BY <1>1, <1>2, <1>5
<1> QED
  BY <1>1, <1>7, <1>8 DEF Base, TypeOK, TellError, rigid, dinitVars, obsVars

LEMMA ContextEndsBase ==
  ASSUME Base, NEW p \in Procs, ContextEnds(p)
  PROVE  Base'
<1> DEFINE c == Conn(p)
           e == [proc[p] EXCEPT !.ended = TRUE]
           d == IF proc[p].pc = "await" /\ conn[c].status = "open" THEN TRUE ELSE conn[c].doomed
<1>1. /\ proc[p].pc \in {"lock", "send", "await", "wait"} /\ UNCHANGED <<rigid, dinitVars, holder, obsVars>>
      /\ faults < MaxFaults /\ faults' = faults + 1
      /\ conn' = [conn EXCEPT ![c].doomed = d] /\ proc' = [proc EXCEPT ![p] = e]
  BY DEF ContextEnds
<1>2. proc[p] \in Tasks /\ TaskFor(p, proc[p]) /\ conn \in [Conns -> Links]
  BY DEF Base, TypeOK, TaskSound
<1>3. /\ e \in Tasks /\ e.pc = proc[p].pc /\ e.phase = proc[p].phase /\ e.todo = proc[p].todo
  BY <1>2 DEF Tasks
<1>4. c \in Conns => conn[c] \in Links /\ d \in BOOLEAN
  BY <1>2, LinkFields
<1> HIDE DEF e, d
<1>5. TaskFor(p, e)
  BY <1>2, <1>3 DEF TaskFor
<1>6. LockSound' /\ TaskSound' /\ proc' \in [Procs -> Tasks] /\ holder' \in [Conns -> Procs \cup {"nobody"}]
  BY <1>1, <1>3, <1>5, TaskMoves DEF Held
<1>7. c \in Conns => [conn[c] EXCEPT !.doomed = d] \in Links
  BY <1>4, LinkFields
<1>8. conn' \in [Conns -> Links]
  BY <1>1, <1>2, <1>7
<1>9. faults' \in 0 .. MaxFaults
  BY <1>1, DinitAssumption DEF Base, TypeOK
<1> QED
  BY <1>1, <1>6, <1>8, <1>9 DEF Base, TypeOK, rigid, dinitVars, obsVars

LEMMA ExecuteBase ==
  ASSUME Base, NEW p \in Callers, Execute(p)
  PROVE  Base'
<1> DEFINE restart == request[p].act = "restart"
           phase == IF restart THEN "initial" ELSE "change"
           todo == Steps(IF restart THEN "status" ELSE request[p].act)
           e == [proc[p] EXCEPT !.pc = "lock", !.phase = phase, !.todo = todo]
<1>1. /\ proc[p].pc = "idle" /\ UNCHANGED <<rigid, dinitVars, faults, conn, holder, obsVars>>
      /\ proc' = [proc EXCEPT ![p] = e]
  BY DEF Execute
<1>2. p \in Procs /\ p # Observer /\ proc[p] \in Tasks /\ TaskFor(p, proc[p]) /\ ~Held(p)
  BY <1>1, DinitAssumption DEF Base, TypeOK, TaskSound, Procs, Held
<1>3. /\ phase \in {"initial", "change"} /\ (phase = "initial" => restart)
      /\ todo \in Todos(p, phase) /\ todo \in Seq(Kinds)
  <2>1. request[p].act \in Acts
    BY RequestFacts DEF Base
  <2>2. CASE restart
    BY <2>2, StepsFacts, QueryFacts DEF Todos
  <2>3. CASE ~restart
    BY <2>1, <2>3, StepsFacts, ChangeFacts DEF Todos, ChangeStep
  <2> QED
    BY <2>2, <2>3
<1> HIDE DEF phase, todo
<1>4. e \in Tasks /\ e.pc = "lock" /\ e.phase = phase /\ e.todo = todo
  BY <1>2, <1>3 DEF Tasks
<1> HIDE DEF e
<1>5. TaskFor(p, e)
  BY <1>2, <1>3, <1>4 DEF TaskFor
<1>6. LockSound' /\ TaskSound' /\ proc' \in [Procs -> Tasks] /\ holder' \in [Conns -> Procs \cup {"nobody"}]
  BY <1>1, <1>2, <1>4, <1>5, TaskMoves
<1> QED
  BY <1>1, <1>6 DEF Base, TypeOK, rigid, dinitVars, obsVars

\* What Wait makes of a task.
LEMMA WaitCases ==
  ASSUME NEW p, Wait(p)
  PROVE  \/ Reached(p) /\ proc' = [proc EXCEPT ![p] = [proc[p] EXCEPT !.pc = "end", !.result = "ok"]]
         \/ proc' = [proc EXCEPT ![p] = [proc[p] EXCEPT !.pc = "end", !.result = "error"]]
         \/ proc' = [proc EXCEPT ![p] = [proc[p] EXCEPT !.pc = "lock", !.phase = "poll", !.todo = Steps("status")]]
<1>1. \/ Reached(p) /\ proc' = [proc EXCEPT ![p].pc = "end", ![p].result = "ok"]
      \/ proc' = [proc EXCEPT ![p].pc = "end", ![p].result = "error"]
      \/ proc' = [proc EXCEPT ![p].pc = "lock", ![p].phase = "poll", ![p].todo = Steps("status")]
  BY Zenon DEF Wait
<1>2. /\ [proc EXCEPT ![p].pc = "end", ![p].result = "ok"]
           = [proc EXCEPT ![p] = [proc[p] EXCEPT !.pc = "end", !.result = "ok"]]
      /\ [proc EXCEPT ![p].pc = "end", ![p].result = "error"]
           = [proc EXCEPT ![p] = [proc[p] EXCEPT !.pc = "end", !.result = "error"]]
      /\ [proc EXCEPT ![p].pc = "lock", ![p].phase = "poll", ![p].todo = Steps("status")]
           = [proc EXCEPT ![p] = [proc[p] EXCEPT !.pc = "lock", !.phase = "poll", !.todo = Steps("status")]]
  OBVIOUS
<1> HIDE DEF Reached
<1> QED
  BY <1>1, <1>2, Zenon

LEMMA WaitBase ==
  ASSUME Base, NEW p \in Callers, Wait(p)
  PROVE  Base'
<1>1. proc[p].pc = "wait" /\ UNCHANGED <<rigid, dinitVars, faults, conn, holder, obsVars>>
  BY DEF Wait
<1>2. p \in Procs /\ p # Observer /\ proc[p] \in Tasks /\ TaskFor(p, proc[p]) /\ ~Held(p)
  BY <1>1, DinitAssumption DEF Base, TypeOK, TaskSound, Procs, Held
<1>3. ASSUME NEW e \in Tasks, TaskFor(p, e), e.pc \notin {"send", "await"}, proc' = [proc EXCEPT ![p] = e]
      PROVE  Base'
  <2>1. LockSound' /\ TaskSound' /\ proc' \in [Procs -> Tasks] /\ holder' \in [Conns -> Procs \cup {"nobody"}]
    BY <1>1, <1>2, <1>3, TaskMoves
  <2> QED
    BY <1>1, <2>1 DEF Base, TypeOK, rigid, dinitVars, obsVars
<1>4. ASSUME NEW r \in {"ok", "error"}
      PROVE  LET e == [proc[p] EXCEPT !.pc = "end", !.result = r] IN e \in Tasks /\ e.pc = "end" /\ TaskFor(p, e)
  <2> DEFINE e == [proc[p] EXCEPT !.pc = "end", !.result = r]
  <2>1. e \in Tasks /\ e.pc = "end" /\ e.phase = proc[p].phase
    BY <1>2, <1>4 DEF Tasks
  <2> HIDE DEF e
  <2>2. TaskFor(p, e)
    BY <1>2, <2>1 DEF TaskFor
  <2> QED
    BY <2>1, <2>2 DEF e
<1> DEFINE polls == [proc[p] EXCEPT !.pc = "lock", !.phase = "poll", !.todo = Steps("status")]
<1>5. polls \in Tasks /\ polls.pc = "lock" /\ TaskFor(p, polls)
  <2>0. Steps("status") \in Queries /\ Steps("status") \in Seq(Kinds)
    BY StepsFacts, QueryFacts
  <2>1. polls \in Tasks /\ polls.pc = "lock" /\ polls.phase = "poll" /\ polls.todo = Steps("status")
    BY <1>2, <2>0 DEF Tasks
  <2> HIDE DEF polls
  <2> QED
    BY <1>2, <2>0, <2>1 DEF TaskFor, Todos
<1>6. CASE proc' = [proc EXCEPT ![p] = [proc[p] EXCEPT !.pc = "end", !.result = "ok"]]
  BY <1>3, <1>4, <1>6
<1>7. CASE proc' = [proc EXCEPT ![p] = [proc[p] EXCEPT !.pc = "end", !.result = "error"]]
  BY <1>3, <1>4, <1>7
<1>8. CASE proc' = [proc EXCEPT ![p] = polls]
  <2> HIDE DEF polls
  <2> QED
    BY <1>3, <1>5, <1>8
<1> QED
  BY <1>6, <1>7, <1>8, WaitCases, Zenon

LEMMA ObserverBase ==
  ASSUME Base, ObserveClose \/ ObserveAgain
  PROVE  Base'
<1> DEFINE p == Observer
           q == proc[p]
<1>1. p \in Procs /\ q \in Tasks /\ TaskFor(p, q) /\ conn \in [Conns -> Links]
      /\ conn["plane"] \in Links /\ Fresh \in Links /\ "plane" \in Conns
  <2>1. "plane" \in Conns /\ p \in Procs
    BY DEF Conns, Procs
  <2> QED
    BY <2>1, LinkTypes DEF Base, TypeOK, TaskSound
<1>2. CASE ObserveClose
  <2> DEFINE e == [q EXCEPT !.pc = "pause"]
  <2>1. /\ q.pc = "close" /\ proc' = [proc EXCEPT ![p] = e] /\ conn' = [conn EXCEPT !["plane"] = Fresh]
        /\ previous' = None /\ UNCHANGED <<rigid, dinitVars, faults, holder, published>>
    BY <1>2 DEF ObserveClose
  <2>2. e \in Tasks /\ e.pc = "pause" /\ e.phase = q.phase
    BY <1>1 DEF Tasks
  <2> HIDE DEF e
  <2>3. TaskFor(p, e)
    BY <1>1, <2>1, <2>2, DinitAssumption DEF TaskFor
  <2>4. LockSound' /\ TaskSound' /\ proc' \in [Procs -> Tasks] /\ holder' \in [Conns -> Procs \cup {"nobody"}]
    BY <1>1, <2>1, <2>2, <2>3, TaskMoves DEF Held
  <2>5. conn' \in [Conns -> Links]
    BY <1>1, <2>1
  <2> QED
    BY <2>1, <2>4, <2>5 DEF Base, TypeOK, rigid, dinitVars
<1>3. CASE ObserveAgain
  <2> DEFINE todo == Steps("list")
             e == [q EXCEPT !.pc = "lock", !.todo = todo, !.seen = None, !.ended = FALSE]
  <2>1. /\ q.pc = "pause" /\ proc' = [proc EXCEPT ![p] = e]
        /\ UNCHANGED <<rigid, dinitVars, faults, holder, published>>
        /\ \/ UNCHANGED <<conn, previous>>
           \/ conn["plane"].events > 0 /\ conn' = [conn EXCEPT !["plane"].events = @ - 1] /\ previous' = None
    BY <1>3 DEF ObserveAgain
  <2>2. e \in Tasks /\ e.pc = "lock" /\ e.phase = q.phase /\ e.todo = todo
    <3>1. todo \in Seq(Kinds)
      BY StepsFacts
    <3> HIDE DEF todo
    <3> QED
      BY <1>1, <3>1 DEF Tasks
  <2> HIDE DEF e
  <2>3. TaskFor(p, e)
    <3>1. todo \in Todos(p, "observe")
      BY StepsFacts DEF Todos
    <3> QED
      BY <1>1, <2>1, <2>2, <3>1, DinitAssumption DEF TaskFor
  <2>4. LockSound' /\ TaskSound' /\ proc' \in [Procs -> Tasks] /\ holder' \in [Conns -> Procs \cup {"nobody"}]
    BY <1>1, <2>1, <2>2, <2>3, TaskMoves DEF Held
  <2>5. conn' \in [Conns -> Links]
    <3>1. conn["plane"].events \in 0 .. EventCap /\ EventCap \in Nat
      BY <1>1, LinkFields, DinitAssumption
    <3>2. conn["plane"].events > 0 => conn["plane"].events - 1 \in 0 .. EventCap
      BY <3>1
    <3>3. \A n \in 0 .. EventCap : [conn["plane"] EXCEPT !.events = n] \in Links
      BY <1>1, LinkFields
    <3>4. conn["plane"].events > 0 => [conn["plane"] EXCEPT !.events = @ - 1] \in Links
      BY <3>2, <3>3
    <3> QED
      BY <1>1, <2>1, <3>4
  <2> QED
    BY <2>1, <2>4, <2>5 DEF Base, TypeOK, rigid, dinitVars
<1> QED
  BY <1>2, <1>3

LEMMA BaseNext == Base /\ [Next]_vars => Base'
<1> SUFFICES ASSUME Base, [Next]_vars PROVE Base'
  OBVIOUS
<1>1. CASE LinkStep
  <2>1. TypeOK'
    BY <1>1, LinkTypeOK DEF Base
  <2>2. UNCHANGED <<rigid, holder, proc>>
    BY <1>1 DEF LinkStep, Progress, ServiceEnds, Serve, ReadLoop, Break, AfterFunc
  <2>3. LockSound' /\ TaskSound'
    BY <2>2 DEF Base, LockSound, TaskSound, TaskFor, Todos, Conn, Held, rigid
  <2> QED
    BY <2>1, <2>3 DEF Base
<1>2. ASSUME NEW p \in Procs, Step(p) PROVE Base'
  BY <1>2, AcquireBase, SendBase, ReceiveBase, AwaitFailsBase DEF Step
<1>3. ASSUME NEW p \in Procs, ContextEnds(p) PROVE Base'
  BY <1>3, ContextEndsBase
<1>4. ASSUME NEW p \in Callers, Execute(p) \/ Wait(p) PROVE Base'
  BY <1>4, ExecuteBase, WaitBase
<1>5. CASE ObserveClose \/ ObserveAgain
  BY <1>5, ObserverBase
<1>6. CASE UNCHANGED vars
  BY <1>6 DEF vars, Base, TypeOK, LockSound, TaskSound, TaskFor, Todos, Conn, Held,
              rigid, dinitVars, obsVars
<1> QED
  BY <1>1, <1>2, <1>3, <1>4, <1>5, <1>6 DEF Next, LinkStep

(* Every field keeps its type, the events channel its capacity, and the lock *)
(* of a controller is held by the goroutine that is in its critical section. *)
THEOREM TypeCorrect == Spec => [](TypeOK /\ LockSound)
<1>1. Spec => []Base
  BY BaseInit, BaseNext, PTL DEF Spec
<1>2. Base => TypeOK /\ LockSound
  BY DEF Base
<1> QED
  BY <1>1, <1>2, PTL

-----------------------------------------------------------------------------
(* What is under way on a connection, as its queues change. *)

\* Nothing is under way.
Quiet(k) == k.sent = <<>> /\ \A m \in Replies : ~Carried(k, m)

LEMMA ReplyIsNoEvent == Event \notin Replies
<1>1. \A m \in Replies : m.kind # "event"
  BY DEF Replies, Kinds
<1> QED
  BY <1>1 DEF Event

\* The elements of a sequence that grows or shrinks by one.
LEMMA SequenceElements ==
  ASSUME NEW S, NEW s \in Seq(S)
  PROVE  /\ \A x \in S : /\ Len(Append(s, x)) = Len(s) + 1 /\ Append(s, x)[Len(s) + 1] = x
                         /\ \A i \in 1 .. Len(s) : Append(s, x)[i] = s[i]
                         /\ DOMAIN Append(s, x) = 1 .. Len(s) + 1
         /\ Len(s) \in Nat /\ DOMAIN s = 1 .. Len(s)
         /\ s = <<>> <=> Len(s) = 0
         /\ s # <<>> => /\ Len(Tail(s)) = Len(s) - 1 /\ DOMAIN Tail(s) = 1 .. Len(s) - 1
                        /\ Head(s) = s[1]
                        /\ \A i \in 1 .. Len(s) - 1 : Tail(s)[i] = s[i + 1]
OBVIOUS

LEMMA QuietOrdered ==
  ASSUME NEW k \in Links, Quiet(k)
  PROVE  Ordered(k)
<1>1. k.wire \in Seq(Wired) /\ k.replies \in Seq(Replies)
  BY LinkFields
<1>2. \A i \in DOMAIN k.wire : k.wire[i] = Event
  <2>1. \A i \in DOMAIN k.wire : k.wire[i] \in Wired
    BY <1>1
  <2> QED
    BY <2>1 DEF Quiet, Carried, Wired
<1>3. DOMAIN k.replies = {}
  <2>1. \A i \in DOMAIN k.replies : k.replies[i] \in Replies
    BY <1>1
  <2> QED
    BY <2>1, ReplyIsNoEvent DEF Quiet, Carried
<1>4. Len(k.sent) <= 1
  BY DEF Quiet
<1> QED
  BY <1>2, <1>3, <1>4 DEF Ordered, Quiet

\* An event is written.
LEMMA EventFlow ==
  ASSUME NEW k \in Links, NEW l \in Links,
         l.wire = Append(k.wire, Event), l.sent = k.sent, l.replies = k.replies
  PROVE  /\ \A m : Carried(l, m) <=> Carried(k, m)
         /\ Ordered(k) => Ordered(l)
<1>1. k.wire \in Seq(Wired) /\ Event \in Wired
  BY LinkFields DEF Wired
<1> DEFINE n == Len(k.wire)
<1>2. /\ n \in Nat /\ DOMAIN k.wire = 1 .. n /\ DOMAIN l.wire = 1 .. n + 1
      /\ l.wire[n + 1] = Event
      /\ \A i \in 1 .. n : l.wire[i] = k.wire[i]
  BY <1>1, SequenceElements
<1> HIDE DEF n
<1>3. \A m : Carried(l, m) <=> Carried(k, m)
  BY <1>2 DEF Carried
<1>4. Ordered(k) => Ordered(l)
  <2> SUFFICES ASSUME Ordered(k) PROVE Ordered(l)
    OBVIOUS
  <2>1. \A i, j \in DOMAIN l.wire :
          i < j /\ l.wire[i] # Event /\ l.wire[j] # Event => l.wire[i].answer = "row"
    BY <1>2 DEF Ordered
  <2>2. \A i \in DOMAIN l.replies, j \in DOMAIN l.wire : l.wire[j] # Event => l.replies[i].answer = "row"
    BY <1>2 DEF Ordered
  <2> QED
    BY <1>3, <2>1, <2>2 DEF Ordered
<1> QED
  BY <1>3, <1>4

\* An event is read.
LEMMA EventReadFlow ==
  ASSUME NEW k \in Links, NEW l \in Links, k.wire # <<>>, Head(k.wire) = Event,
         l.wire = Tail(k.wire), l.sent = k.sent, l.replies = k.replies
  PROVE  /\ \A m : Carried(l, m) <=> Carried(k, m)
         /\ Ordered(k) => Ordered(l)
<1>1. k.wire \in Seq(Wired)
  BY LinkFields
<1> DEFINE n == Len(k.wire)
<1>2. /\ n \in Nat /\ n > 0 /\ DOMAIN k.wire = 1 .. n /\ DOMAIN l.wire = 1 .. n - 1
      /\ k.wire[1] = Event
      /\ \A i \in 1 .. n - 1 : l.wire[i] = k.wire[i + 1]
  BY <1>1, SequenceElements
<1> HIDE DEF n
<1>3. ASSUME NEW m PROVE Carried(l, m) <=> Carried(k, m)
  <2>1. ASSUME m # Event, NEW i \in DOMAIN k.wire, k.wire[i] = m
        PROVE  \E j \in DOMAIN l.wire : l.wire[j] = m
    <3>1. i - 1 \in 1 .. n - 1 /\ l.wire[i - 1] = m
      BY <1>2, <2>1
    <3> QED
      BY <1>2, <3>1
  <2>2. ASSUME m # Event, NEW i \in DOMAIN l.wire, l.wire[i] = m
        PROVE  \E j \in DOMAIN k.wire : k.wire[j] = m
    BY <1>2, <2>2
  <2> QED
    BY <2>1, <2>2 DEF Carried
<1>4. Ordered(k) => Ordered(l)
  <2> SUFFICES ASSUME Ordered(k) PROVE Ordered(l)
    OBVIOUS
  <2>1. ASSUME NEW i \in DOMAIN l.wire, NEW j \in DOMAIN l.wire,
               i < j, l.wire[i] # Event, l.wire[j] # Event
        PROVE  l.wire[i].answer = "row"
    <3>1. /\ i + 1 \in DOMAIN k.wire /\ j + 1 \in DOMAIN k.wire /\ i + 1 < j + 1
          /\ l.wire[i] = k.wire[i + 1] /\ l.wire[j] = k.wire[j + 1]
      BY <1>2, <2>1
    <3> QED
      BY <2>1, <3>1 DEF Ordered
  <2>2. \A i \in DOMAIN l.replies, j \in DOMAIN l.wire : l.wire[j] # Event => l.replies[i].answer = "row"
    BY <1>2 DEF Ordered
  <2> QED
    BY <1>3, <2>1, <2>2 DEF Ordered
<1> QED
  BY <1>3, <1>4

\* A reply is read.
LEMMA ReplyReadFlow ==
  ASSUME NEW k \in Links, NEW l \in Links, k.wire # <<>>, Head(k.wire) # Event,
         l.wire = Tail(k.wire), l.sent = k.sent, l.replies = Append(k.replies, Head(k.wire))
  PROVE  /\ \A m : Carried(l, m) <=> Carried(k, m)
         /\ Ordered(k) => Ordered(l)
<1>1. k.wire \in Seq(Wired) /\ k.replies \in Seq(Replies) /\ Head(k.wire) \in Wired
  BY LinkFields, SequenceTypes
<1>2. Head(k.wire) \in Replies
  BY <1>1 DEF Wired
<1> DEFINE n == Len(k.wire)
           r == Len(k.replies)
<1>3. /\ n \in Nat /\ n > 0 /\ DOMAIN k.wire = 1 .. n /\ DOMAIN l.wire = 1 .. n - 1
      /\ \A i \in 1 .. n - 1 : l.wire[i] = k.wire[i + 1]
      /\ Head(k.wire) = k.wire[1]
  BY <1>1, SequenceElements
<1>4. /\ r \in Nat /\ DOMAIN k.replies = 1 .. r /\ DOMAIN l.replies = 1 .. r + 1
      /\ l.replies[r + 1] = k.wire[1]
      /\ \A i \in 1 .. r : l.replies[i] = k.replies[i]
  BY <1>1, <1>2, <1>3, SequenceElements
<1> HIDE DEF n, r
<1>5. ASSUME NEW m PROVE Carried(l, m) <=> Carried(k, m)
  <2>1. ASSUME NEW i \in DOMAIN k.wire, k.wire[i] = m
        PROVE  (\E j \in DOMAIN l.wire : l.wire[j] = m) \/ (\E j \in DOMAIN l.replies : l.replies[j] = m)
    <3>1. CASE i = 1
      <4>1. r + 1 \in DOMAIN l.replies /\ l.replies[r + 1] = m
        BY <1>4, <2>1, <3>1
      <4> QED
        BY <4>1
    <3>2. CASE i # 1
      <4>1. i - 1 \in 1 .. n - 1 /\ l.wire[i - 1] = m
        BY <1>3, <2>1, <3>2
      <4> QED
        BY <1>3, <4>1
    <3> QED
      BY <3>1, <3>2
  <2>2. ASSUME NEW i \in DOMAIN l.wire, l.wire[i] = m
        PROVE  \E j \in DOMAIN k.wire : k.wire[j] = m
    BY <1>3, <2>2
  <2>3. ASSUME NEW i \in DOMAIN l.replies, l.replies[i] = m
        PROVE  (\E j \in DOMAIN k.wire : k.wire[j] = m) \/ (\E j \in DOMAIN k.replies : k.replies[j] = m)
    BY <1>3, <1>4, <2>3
  <2>4. ASSUME NEW i \in DOMAIN k.replies, k.replies[i] = m
        PROVE  \E j \in DOMAIN l.replies : l.replies[j] = m
    BY <1>4, <2>4
  <2> QED
    BY <2>1, <2>2, <2>3, <2>4 DEF Carried
<1>6. Ordered(k) => Ordered(l)
  <2> SUFFICES ASSUME Ordered(k) PROVE Ordered(l)
    OBVIOUS
  <2>1. ASSUME NEW i \in DOMAIN l.wire, NEW j \in DOMAIN l.wire,
               i < j, l.wire[i] # Event, l.wire[j] # Event
        PROVE  l.wire[i].answer = "row"
    <3>1. /\ i + 1 \in DOMAIN k.wire /\ j + 1 \in DOMAIN k.wire /\ i + 1 < j + 1
          /\ l.wire[i] = k.wire[i + 1] /\ l.wire[j] = k.wire[j + 1]
      <4>1. i \in 1 .. n - 1 /\ j \in 1 .. n - 1
        BY <1>3
      <4>2. n \in Nat /\ i < j
        BY <1>3, <2>1
      <4>3. i + 1 \in 1 .. n /\ j + 1 \in 1 .. n /\ i + 1 < j + 1
        BY <4>1, <4>2
      <4> QED
        BY <1>3, <4>1, <4>3
    <3> QED
      BY <2>1, <3>1 DEF Ordered
  <2>2. \A i, j \in DOMAIN l.replies : i < j => l.replies[i].answer = "row"
    <3>1. ASSUME NEW i \in DOMAIN l.replies, NEW j \in DOMAIN l.replies, i < j
          PROVE  l.replies[i].answer = "row"
      <4>1. i \in 1 .. r /\ l.replies[i] = k.replies[i]
        BY <1>4, <3>1
      <4>2. CASE j = r + 1
        BY <1>3, <1>4, <4>1, <4>2 DEF Ordered
      <4>3. CASE j # r + 1
        BY <1>4, <3>1, <4>1, <4>3 DEF Ordered
      <4> QED
        BY <4>2, <4>3
    <3> QED
      BY <3>1
  <2>3. \A i \in DOMAIN l.replies, j \in DOMAIN l.wire : l.wire[j] # Event => l.replies[i].answer = "row"
    <3>1. ASSUME NEW i \in DOMAIN l.replies, NEW j \in DOMAIN l.wire, l.wire[j] # Event
          PROVE  l.replies[i].answer = "row"
      <4>1. j + 1 \in DOMAIN k.wire /\ 1 \in DOMAIN k.wire /\ 1 < j + 1 /\ k.wire[j + 1] # Event
        BY <1>3, <3>1
      <4>2. CASE i = r + 1
        BY <1>3, <1>4, <4>1, <4>2 DEF Ordered
      <4>3. CASE i # r + 1
        BY <1>4, <4>1, <4>3 DEF Ordered
      <4> QED
        BY <4>2, <4>3
    <3> QED
      BY <3>1
  <2> QED
    BY <1>5, <2>1, <2>2, <2>3 DEF Ordered
<1> QED
  BY <1>5, <1>6

\* What was written and not read is lost, what was sent too.
LEMMA LostFlow ==
  ASSUME NEW k \in Links, NEW l, l.wire = <<>>, l.sent = <<>>, l.replies = k.replies
  PROVE  /\ \A m : Carried(l, m) => Carried(k, m)
         /\ Ordered(k) => Ordered(l)
<1>1. DOMAIN l.wire = {} /\ Len(l.sent) = 0
  OBVIOUS
<1>2. \A m : Carried(l, m) => Carried(k, m)
  BY <1>1 DEF Carried
<1> QED
  BY <1>1, <1>2 DEF Ordered

\* The next reply is taken; the last reply is the last.
LEMMA TakenFlow ==
  ASSUME NEW k \in Links, k.replies # <<>>, Ordered(k),
         NEW l \in Links, l.wire = k.wire, l.sent = k.sent, l.replies = Tail(k.replies)
  PROVE  /\ \A m : Carried(l, m) => Carried(k, m)
         /\ Carried(k, Head(k.replies))
         /\ Ordered(l)
         /\ Head(k.replies).answer # "row" => Quiet(l)
<1>1. k.replies \in Seq(Replies) /\ Head(k.replies) \in Replies
  BY LinkFields, NextReply
<1> DEFINE r == Len(k.replies)
<1>2. /\ r \in Nat /\ r > 0 /\ DOMAIN k.replies = 1 .. r /\ DOMAIN l.replies = 1 .. r - 1
      /\ \A i \in 1 .. r - 1 : l.replies[i] = k.replies[i + 1]
      /\ Head(k.replies) = k.replies[1]
  BY <1>1, SequenceElements
<1> HIDE DEF r
<1>3. \A i \in DOMAIN l.replies : i + 1 \in DOMAIN k.replies /\ l.replies[i] = k.replies[i + 1]
  BY <1>2
<1>4. \A m : Carried(l, m) => Carried(k, m)
  BY <1>3 DEF Carried
<1>5. Carried(k, Head(k.replies))
  BY <1>1, <1>2, ReplyIsNoEvent DEF Carried
<1>6. k.sent = <<>>
  BY <1>1, <1>5 DEF Ordered
<1>7. Ordered(l)
  <2>1. \A i, j \in DOMAIN l.replies : i < j => l.replies[i].answer = "row"
    <3>1. ASSUME NEW i \in DOMAIN l.replies, NEW j \in DOMAIN l.replies, i < j
          PROVE  l.replies[i].answer = "row"
      <4>1. i + 1 < j + 1
        BY <1>2, <3>1
      <4> QED
        BY <1>3, <4>1 DEF Ordered
    <3> QED
      BY <3>1
  <2>2. \A i \in DOMAIN l.replies, j \in DOMAIN l.wire : l.wire[j] # Event => l.replies[i].answer = "row"
    BY <1>3 DEF Ordered
  <2>3. Len(l.sent) <= 1
    BY DEF Ordered
  <2> QED
    BY <1>6, <2>1, <2>2, <2>3 DEF Ordered
<1>8. Head(k.replies).answer # "row" => Quiet(l)
  <2> SUFFICES ASSUME Head(k.replies).answer # "row" PROVE Quiet(l)
    OBVIOUS
  <2>1. DOMAIN l.replies = {}
    <3>1. \A j \in DOMAIN k.replies : ~(1 < j)
      BY <1>2 DEF Ordered
    <3> QED
      BY <1>2, <3>1
  <2>2. \A j \in DOMAIN l.wire : l.wire[j] = Event
    BY <1>2 DEF Ordered
  <2> QED
    BY <1>6, <2>1, <2>2 DEF Quiet, Carried
<1> QED
  BY <1>4, <1>5, <1>7, <1>8

\* A request is sent when nothing is under way.
LEMMA SentFlow ==
  ASSUME NEW k \in Links, Quiet(k), NEW a \in Asks,
         NEW l \in Links, l.wire = k.wire, l.sent = Append(k.sent, a), l.replies = k.replies
  PROVE  /\ Ordered(l) /\ \A m \in Replies : ~Carried(l, m)
         /\ DOMAIN l.sent = {1} /\ l.sent[1] = a /\ l.sent # <<>>
<1>1. Ordered(k)
  BY QuietOrdered
<1>2. k.sent \in Seq(Asks) /\ Len(k.sent) = 0
  BY LinkFields DEF Quiet
<1>3. DOMAIN l.sent = {1} /\ l.sent[1] = a /\ Len(l.sent) = 1 /\ l.sent # <<>>
  BY <1>2
<1>4. \A m \in Replies : ~Carried(l, m)
  BY DEF Quiet, Carried
<1> QED
  BY <1>1, <1>3, <1>4 DEF Ordered

\* A request is answered, by one reply or by a row and the end of the list.
LEMMA ServedFlow ==
  ASSUME NEW k \in Links, Ordered(k), k.sent # <<>>,
         NEW x \in Replies, NEW y \in Replies, x.answer = "row",
         NEW l \in Links, l.sent = Tail(k.sent), l.replies = k.replies,
         NEW z \in Replies,
         l.wire = Append(k.wire, z) \/ l.wire = Append(Append(k.wire, x), y)
  PROVE  /\ Ordered(l) /\ l.sent = <<>>
         /\ l.wire = Append(k.wire, z) => \A m \in Replies : Carried(l, m) => m = z
         /\ l.wire = Append(Append(k.wire, x), y) => \A m \in Replies : Carried(l, m) => m \in {x, y}
<1>1. k.wire \in Seq(Wired) /\ k.replies \in Seq(Replies) /\ k.sent \in Seq(Asks)
      /\ {x, y, z} \subseteq Wired
  BY LinkFields DEF Wired
<1>2. l.sent = <<>> /\ Len(l.sent) = 0
  <2>1. Len(k.sent) \in Nat /\ Len(k.sent) # 0 /\ Len(k.sent) <= 1
    BY <1>1, SequenceElements DEF Ordered
  <2>2. Len(l.sent) = 0 /\ l.sent \in Seq(Asks)
    <3>1. Len(Tail(k.sent)) = Len(k.sent) - 1
      BY <1>1, SequenceElements
    <3>2. Tail(k.sent) \in Seq(Asks)
      BY <1>1, SequenceTypes
    <3>3. \A n \in Nat : n # 0 /\ n <= 1 => n - 1 = 0
      OBVIOUS
    <3>4. Len(k.sent) - 1 = 0
      BY <2>1, <3>3, Zenon
    <3>5. Len(Tail(k.sent)) = 0
      BY <3>1, <3>4, Zenon
    <3>6. l.sent = Tail(k.sent)
      OBVIOUS
    <3> QED
      BY <3>2, <3>5, <3>6, Zenon
  <2> QED
    BY <2>2, SequenceElements
<1>3. \A m \in Replies : ~Carried(k, m)
  BY DEF Ordered
<1>4. DOMAIN k.replies = {}
  <2>1. \A i \in DOMAIN k.replies : k.replies[i] \in Replies
    BY <1>1
  <2> QED
    BY <1>3, <2>1, ReplyIsNoEvent DEF Carried
<1>5. \A i \in DOMAIN k.wire : k.wire[i] = Event
  <2>1. \A i \in DOMAIN k.wire : k.wire[i] \in Wired
    BY <1>1
  <2> QED
    BY <1>3, <2>1 DEF Carried, Wired
<1> DEFINE n == Len(k.wire)
<1>6. n \in Nat /\ DOMAIN k.wire = 1 .. n
  BY <1>1, SequenceElements
<1>7. CASE l.wire = Append(k.wire, z)
  <2>1. DOMAIN l.wire = 1 .. n + 1 /\ l.wire[n + 1] = z /\ \A i \in 1 .. n : l.wire[i] = Event
    BY <1>1, <1>5, <1>6, <1>7, SequenceElements
  <2> HIDE DEF n
  <2>2. \A i \in DOMAIN l.wire : l.wire[i] # Event => i = n + 1 /\ l.wire[i] = z
    BY <1>6, <2>1
  <2>3. \A m \in Replies : Carried(l, m) => m = z
    BY <1>4, <2>2 DEF Carried
  <2>4. \A i, j \in DOMAIN l.wire :
          i < j /\ l.wire[i] # Event /\ l.wire[j] # Event => l.wire[i].answer = "row"
    BY <1>6, <2>2
  <2>5. k.wire # l.wire /\ Append(Append(k.wire, x), y) # l.wire
    <3>1. Len(Append(k.wire, x)) = n + 1 /\ Append(k.wire, x) \in Seq(Wired)
      BY <1>1, SequenceElements, SequenceTypes DEF n
    <3>2. Len(Append(Append(k.wire, x), y)) = n + 2
      BY <1>1, <1>6, <3>1, SequenceElements
    <3>3. Len(l.wire) = n + 1
      BY <1>1, <1>7, SequenceElements DEF n
    <3> QED
      BY <1>6, <3>2, <3>3 DEF n
  <2> QED
    BY <1>2, <1>4, <2>3, <2>4, <2>5 DEF Ordered
<1>8. CASE l.wire = Append(Append(k.wire, x), y)
  <2> DEFINE w == Append(k.wire, x)
  <2>1. /\ w \in Seq(Wired) /\ Len(w) = n + 1 /\ w[n + 1] = x
        /\ \A i \in 1 .. n : w[i] = Event
    <3>1. w \in Seq(Wired)
      BY <1>1, SequenceTypes
    <3>2. Len(w) = n + 1 /\ w[n + 1] = x /\ \A i \in 1 .. n : w[i] = k.wire[i]
      BY <1>1, <1>6, SequenceElements
    <3> QED
      BY <1>5, <1>6, <3>1, <3>2
  <2>2. l.wire = Append(w, y)
    BY <1>8
  <2> HIDE DEF w
  <2>3. DOMAIN l.wire = 1 .. n + 2 /\ l.wire[n + 2] = y /\ \A i \in 1 .. n + 1 : l.wire[i] = w[i]
        /\ Len(l.wire) = n + 2
    <3> HIDE DEF n
    <3>1. n + 1 + 1 = n + 2
      BY <1>6
    <3> QED
      BY <1>1, <2>1, <2>2, <3>1, SequenceElements
  <2>4. Len(Append(k.wire, z)) = n + 1
    BY <1>1, SequenceElements
  <2> HIDE DEF n
  <2>5. \A i \in DOMAIN l.wire : l.wire[i] # Event =>
          (i = n + 1 /\ l.wire[i] = x) \/ (i = n + 2 /\ l.wire[i] = y)
    BY <1>6, <2>1, <2>3
  <2>6. \A m \in Replies : Carried(l, m) => m \in {x, y}
    BY <1>4, <2>5 DEF Carried
  <2>7. \A i, j \in DOMAIN l.wire :
          i < j /\ l.wire[i] # Event /\ l.wire[j] # Event => l.wire[i].answer = "row"
    BY <1>6, <2>5
  <2>8. l.wire # Append(k.wire, z)
    BY <1>6, <2>3, <2>4
  <2> QED
    BY <1>2, <1>4, <2>6, <2>7, <2>8 DEF Ordered
<1> QED
  BY <1>7, <1>8

-----------------------------------------------------------------------------
(* FlowSound. *)

\* Nothing new has been added to what is under way on c.
NoNews(c) ==
  \A m \in Replies : (Live(c) /\ Carried(conn[c], m))' => Live(c) /\ Carried(conn[c], m)

\* c, and who uses it, stay as they are, but for a context or the events.
Same(c) ==
  /\ conn'[c].status = conn[c].status /\ conn'[c].granted = conn[c].granted
  /\ conn'[c].sent = conn[c].sent /\ conn'[c].wire = conn[c].wire
  /\ conn'[c].replies = conn[c].replies /\ conn'[c].handle = conn[c].handle
  /\ holder'[c] = holder[c]
  /\ \A p \in Procs : holder[c] = p => proc'[p].pc = proc[p].pc /\ proc'[p].todo = proc[p].todo

LEMMA SameFlow ==
  ASSUME Base, NEW c \in Conns, FlowFor(c), Same(c)
  PROVE  FlowFor(c)' /\ NoNews(c)
<1>1. holder[c] \in Procs \cup {"nobody"}
  BY DEF Base, TypeOK
<1>2. Live(c)' <=> Live(c)
  BY <1>1 DEF Live, Same
<1>3. \A m : Carried(conn[c], m)' <=> Carried(conn[c], m)
  BY DEF Carried, Same
<1>4. Ordered(conn[c])' <=> Ordered(conn[c])
  BY <1>3 DEF Ordered, Same
<1>5. ASSUME NEW m, m.from \in Procs, Awaited(c, m) PROVE Awaited(c, m)'
  BY <1>5 DEF Awaited, Same
<1>6. /\ \A m \in Replies : m.from \in Procs
      /\ \A i \in DOMAIN conn[c].sent : conn[c].sent[i].from \in Procs
  <2>1. conn[c].sent \in Seq(Asks)
    BY LinkFields DEF Base, TypeOK
  <2>2. \A i \in DOMAIN conn[c].sent : conn[c].sent[i] \in Asks
    BY <2>1
  <2> QED
    BY <2>2 DEF Replies, Asks
<1> QED
  BY <1>2, <1>3, <1>4, <1>5, <1>6 DEF FlowFor, NoNews, Same

\* What one task does in or outside its critical section does not concern other connections.
LEMMA Elsewhere ==
  ASSUME Base, NEW p \in Procs, NEW c \in Conns, c # Conn(p) \/ ~Held(p),
         \A o \in Procs \ {p} : proc'[o] = proc[o],
         conn'[c] = conn[c], holder'[c] = holder[c]
  PROVE  Same(c)
<1>1. holder[c] # p
  BY DEF Base, LockSound
<1> QED
  BY <1>1 DEF Same

\* Nobody could take what has no connection and no waiter.
LEMMA DeadFlow ==
  ASSUME NEW c \in Conns, ~Live(c)', (conn[c].sent = <<>> /\ conn[c].wire = <<>> /\ ~conn[c].granted)'
  PROVE  FlowFor(c)' /\ NoNews(c)
BY DEF FlowFor, NoNews

\* Nothing is under way.
LEMMA QuietFlow ==
  ASSUME NEW c \in Conns, (conn[c] \in Links)', Quiet(conn[c])',
         (conn[c].status # "open" => conn[c].wire = <<>> /\ ~conn[c].granted)'
  PROVE  FlowFor(c)' /\ NoNews(c)
<1>1. \A k \in Links : Quiet(k) => Ordered(k) /\ \A m \in Replies : ~Carried(k, m)
  BY QuietOrdered DEF Quiet
<1>2. Ordered(conn[c])' /\ \A m \in Replies : ~Carried(conn[c], m)'
  <2>1. Quiet(conn'[c]) /\ conn'[c] \in Links
    BY DEF Quiet, Carried
  <2>2. Ordered(conn'[c]) /\ \A m \in Replies : ~Carried(conn'[c], m)
    BY <1>1, <2>1
  <2> QED
    BY <2>2 DEF Ordered, Carried
<1>3. DOMAIN conn'[c].sent = {}
  BY DEF Quiet
<1> QED
  BY <1>2, <1>3 DEF FlowFor, NoNews, Quiet

\* Nothing is under way unless the holder of the lock waits for it.
LEMMA UnheldQuiet ==
  ASSUME Base, NEW c \in Conns, FlowFor(c), conn[c].status = "open",
         holder[c] = "nobody" \/ proc[holder[c]].pc # "await"
  PROVE  Quiet(conn[c])
<1>1. Live(c) /\ conn[c] \in Links /\ conn[c].sent \in Seq(Asks)
  <2>1. conn[c] \in Links
    BY DEF Base, TypeOK
  <2> QED
    BY <2>1, LinkFields DEF Live
<1>2. \A m \in Replies \cup Asks : ~Awaited(c, m)
  <2>1. \A m \in Replies \cup Asks : m.from \in Procs
    BY DEF Replies, Asks
  <2> QED
    BY <2>1, DinitAssumption DEF Awaited
<1>3. \A i \in DOMAIN conn[c].sent : conn[c].sent[i] \in Asks
  BY <1>1
<1>4. DOMAIN conn[c].sent = {}
  BY <1>1, <1>2, <1>3 DEF FlowFor
<1>5. conn[c].sent = <<>>
  <2>1. 1 .. Len(conn[c].sent) = {} /\ Len(conn[c].sent) \in Nat
    BY <1>1, <1>4, SequenceElements
  <2>2. \A n \in Nat : 1 .. n = {} => n = 0
    <3>1. \A n \in Nat : n # 0 => 1 \in 1 .. n
      OBVIOUS
    <3> QED
      BY <3>1
  <2>3. Len(conn[c].sent) = 0
    BY <2>1, <2>2, Zenon
  <2> QED
    BY <1>1, <2>3, SequenceElements
<1> QED
  BY <1>1, <1>2, <1>5 DEF FlowFor, Quiet

LEMMA FreshFacts ==
  /\ Quiet(Fresh) /\ Fresh.status = "none" /\ Fresh.wire = <<>> /\ Fresh.sent = <<>> /\ ~Fresh.granted
  /\ LET k == [Fresh EXCEPT !.status = "open"] IN
       Quiet(k) /\ k.status = "open" /\ k.wire = <<>> /\ k.sent = <<>> /\ ~k.granted /\ ~k.handle
BY DEF Fresh, Quiet, Carried

LEMMA FailedFacts ==
  ASSUME NEW k \in Links
  PROVE  /\ Failed(k).status = "failed" /\ ~Failed(k).granted
         /\ Failed(k).wire = <<>> /\ Failed(k).sent = <<>> /\ Failed(k).replies = k.replies
         /\ Failed(k).handle = k.handle
BY DEF Failed, Links

\* What a failed critical section leaves of a connection: nothing, or what was there.
LEMMA SettledFacts ==
  ASSUME NEW p, NEW k \in Links, NEW kind, NEW l, l = Settled(p, Forgets(k, kind))
  PROVE  \/ l = Fresh
         \/ /\ l.status = k.status /\ l.sent = k.sent /\ l.wire = k.wire /\ l.replies = k.replies
            /\ l.granted = k.granted /\ (l.handle => k.handle) /\ (kind = "reload" => ~l.handle)
<1>1. LET f == Forgets(k, kind) IN
      /\ f.status = k.status /\ f.sent = k.sent /\ f.wire = k.wire /\ f.replies = k.replies
      /\ f.granted = k.granted /\ (f.handle => k.handle) /\ (kind = "reload" => ~f.handle)
  BY DEF Forgets, Links
<1>2. l = Fresh \/ l = Forgets(k, kind)
  BY DEF Settled
<1> QED
  BY <1>1, <1>2

LEMMA TakenFacts ==
  ASSUME NEW k \in Links, NEW kind, NEW ok, NEW l, l = Taken(k, kind, ok)
  PROVE  /\ l.status = k.status /\ l.sent = k.sent /\ l.wire = k.wire /\ l.replies = Tail(k.replies)
         /\ l.granted = k.granted /\ l.handle = HandleAfter(kind, k.handle, ok)
BY DEF Taken, Links

LEMMA AcquireFlow ==
  ASSUME Base, Base', FlowSound, NEW p \in Procs, Acquire(p), NEW c \in Conns
  PROVE  FlowFor(c)' /\ NoNews(c)
<1>0. /\ proc[p].pc = "lock" /\ holder[Conn(p)] = "nobody" /\ ~Held(p) /\ Conn(p) \in Conns
      /\ conn[c] \in Links /\ conn[Conn(p)] \in Links /\ (conn[c] \in Links)' /\ FlowFor(c)
  <2>1. proc[p].pc = "lock" /\ holder[Conn(p)] = "nobody"
    BY DEF Acquire
  <2> QED
    BY <2>1, AtStep DEF Held, Base, TypeOK, FlowSound
<1>1. \A o \in Procs \ {p} : proc'[o] = proc[o]
  BY DEF Acquire, Base, TypeOK
<1>2. CASE c # Conn(p)
  <2>1. conn'[c] = conn[c] /\ holder'[c] = holder[c]
    BY <1>2 DEF Acquire, Base, TypeOK
  <2> QED
    BY <1>0, <1>1, <1>2, <2>1, Elsewhere, SameFlow
<1>3. CASE c = Conn(p)
  <2>1. (conn'[c] = conn[c] /\ conn[c].status = "open") \/ conn'[c] \in {Fresh, [Fresh EXCEPT !.status = "open"]}
    BY <1>3 DEF Acquire, Base, TypeOK
  <2>2. CASE conn'[c] = conn[c] /\ conn[c].status = "open"
    <3>1. Quiet(conn[c])
      BY <1>0, <1>3, <2>2, UnheldQuiet
    <3>2. Quiet(conn[c])'
      BY <2>2, <3>1 DEF Quiet, Carried
    <3> QED
      BY <1>0, <2>2, <3>2, QuietFlow
  <2>3. CASE conn'[c] \in {Fresh, [Fresh EXCEPT !.status = "open"]}
    <3>1. Quiet(conn'[c]) /\ conn'[c].wire = <<>> /\ ~conn'[c].granted
      BY <2>3, FreshFacts
    <3>2. Quiet(conn[c])'
      BY <3>1 DEF Quiet, Carried
    <3> QED
      BY <1>0, <3>1, <3>2, QuietFlow
  <2> QED
    BY <2>1, <2>2, <2>3
<1> QED
  BY <1>2, <1>3

LEMMA SendFlow ==
  ASSUME Base, Base', FlowSound, NEW p \in Procs, Send(p), NEW c \in Conns
  PROVE  FlowFor(c)' /\ NoNews(c)
<1> DEFINE k == Head(proc[p].todo)
<1>0. /\ proc[p].pc = "send" /\ Held(p) /\ Conn(p) \in Conns /\ holder[Conn(p)] = p /\ k \in Kinds
      /\ conn[c] \in Links /\ conn[Conn(p)] \in Links /\ (conn[c] \in Links)' /\ FlowFor(c)
  <2>1. proc[p].pc = "send" /\ Held(p)
    BY DEF Send, Held
  <2>2. Conn(p) \in Conns /\ conn[Conn(p)] \in Links /\ k \in Kinds
    BY <2>1, AtStep
  <2> QED
    BY <2>1, <2>2 DEF Base, TypeOK, FlowSound, LockSound
<1>1. \A o \in Procs \ {p} : proc'[o] = proc[o]
  BY DEF Send, Base, TypeOK
<1>2. CASE c # Conn(p)
  <2>1. conn'[c] = conn[c] /\ holder'[c] = holder[c]
    BY <1>2 DEF Send, Base, TypeOK
  <2> QED
    BY <1>0, <1>1, <1>2, <2>1, Elsewhere, SameFlow
<1>3. CASE c = Conn(p)
  <2>0. conn[c].status = "open" => Quiet(conn[c])
    BY <1>0, <1>3, UnheldQuiet
  <2>1. CASE UNCHANGED conn /\ proc'[p].pc = "send" /\ UNCHANGED holder
    <3>1. CASE conn[c].status = "open"
      <4>1. Quiet(conn[c])'
        BY <2>0, <2>1, <3>1 DEF Quiet, Carried
      <4> QED
        BY <1>0, <2>1, <3>1, <4>1, QuietFlow
    <3>2. CASE conn[c].status # "open"
      <4>1. ~Live(c)'
        BY <1>0, <1>3, <2>1, <3>2 DEF Live
      <4> QED
        BY <1>0, <2>1, <3>2, <4>1, DeadFlow DEF FlowFor
    <3> QED
      BY <3>1, <3>2
  <2>2. CASE /\ conn[c].status = "open" /\ proc'[p].pc = "await" /\ proc'[p].todo = proc[p].todo
             /\ conn' = [conn EXCEPT ![c].sent = Append(@, [kind |-> k, from |-> p])] /\ UNCHANGED holder
    <3>1. PICK a \in Asks : a = [kind |-> k, from |-> p]
      BY <1>0 DEF Asks
    <3>2. a.kind = k /\ a.from = p
      BY <3>1
    <3>3. PICK l \in Links : l = conn'[c]
      BY <1>0
    <3>4. l.wire = conn[c].wire /\ l.sent = Append(conn[c].sent, a) /\ l.replies = conn[c].replies
          /\ l.status = "open"
      <4>1. l = [conn[c] EXCEPT !.sent = Append(@, a)]
        BY <1>0, <2>2, <3>1, <3>3 DEF Base, TypeOK
      <4> QED
        BY <1>0, <2>2, <4>1 DEF Links
    <3>5. /\ Ordered(l) /\ \A m \in Replies : ~Carried(l, m)
          /\ DOMAIN l.sent = {1} /\ l.sent[1] = a
      BY <1>0, <2>0, <2>2, <3>4, SentFlow
    <3>6. holder'[c] = a.from /\ proc'[a.from].pc = "await" /\ Head(proc'[a.from].todo) = a.kind
      BY <1>0, <1>3, <2>2, <3>2
    <3>7. Ordered(conn[c])' /\ \A m \in Replies : ~Carried(conn[c], m)'
      BY <3>3, <3>5 DEF Ordered, Carried
    <3>8. \A i \in DOMAIN conn'[c].sent : conn'[c].sent[i] = a
      BY <3>3, <3>5
    <3>9. \A i \in (DOMAIN conn[c].sent)' : Awaited(c, conn[c].sent[i])'
      BY <3>6, <3>8 DEF Awaited
    <3> QED
      BY <2>2, <3>3, <3>4, <3>7, <3>9 DEF FlowFor, NoNews
  <2>3. CASE /\ conn' = [conn EXCEPT ![c] = Settled(p, Forgets(@, k))] /\ holder' = [holder EXCEPT ![c] = "nobody"]
    <3>1. conn'[c] = Settled(p, Forgets(conn[c], k)) /\ holder'[c] = "nobody"
      BY <1>0, <2>3 DEF Base, TypeOK
    <3>2. CASE conn'[c] = Fresh
      <4>1. Quiet(conn'[c]) /\ conn'[c].wire = <<>> /\ ~conn'[c].granted
        BY <3>2, FreshFacts
      <4>2. Quiet(conn[c])'
        BY <4>1 DEF Quiet, Carried
      <4> QED
        BY <1>0, <4>1, <4>2, QuietFlow
    <3>3. CASE /\ conn'[c].status = conn[c].status /\ conn'[c].sent = conn[c].sent
               /\ conn'[c].wire = conn[c].wire /\ conn'[c].replies = conn[c].replies
               /\ conn'[c].granted = conn[c].granted
      <4>1. CASE conn[c].status = "open"
        <5>1. Quiet(conn[c])'
          BY <2>0, <3>3, <4>1 DEF Quiet, Carried
        <5> QED
          BY <1>0, <3>3, <4>1, <5>1, QuietFlow
      <4>2. CASE conn[c].status # "open"
        <5>1. ~Live(c)'
          BY <3>1, <3>3, <4>2 DEF Live
        <5> QED
          BY <1>0, <3>3, <4>2, <5>1, DeadFlow DEF FlowFor
      <4> QED
        BY <4>1, <4>2
    <3> QED
      BY <1>0, <3>1, <3>2, <3>3, SettledFacts
  <2>4. \/ UNCHANGED <<conn, holder>> /\ proc' = [proc EXCEPT ![p].todo = Tail(@)]
        \/ /\ conn[c].status = "open" /\ proc' = [proc EXCEPT ![p].pc = "await"]
           /\ conn' = [conn EXCEPT ![c].sent = Append(@, [kind |-> k, from |-> p])] /\ UNCHANGED holder
        \/ /\ conn' = [conn EXCEPT ![c] = Settled(p, Forgets(@, k))] /\ holder' = [holder EXCEPT ![c] = "nobody"]
    BY <1>3 DEF Send
  <2>5. proc[p] \in Tasks /\ proc \in [Procs -> Tasks]
    BY DEF Base, TypeOK
  <2>6. proc' = [proc EXCEPT ![p].todo = Tail(@)] => proc'[p].pc = "send"
    BY <1>0, <2>5 DEF Tasks
  <2>7. proc' = [proc EXCEPT ![p].pc = "await"] => proc'[p].pc = "await" /\ proc'[p].todo = proc[p].todo
    BY <1>0, <2>5 DEF Tasks
  <2> QED
    BY <2>1, <2>2, <2>3, <2>4, <2>6, <2>7
<1> QED
  BY <1>2, <1>3

\* A step of p concerns its own task, its controller and its connection.
LEMMA StepFrame ==
  ASSUME Base, NEW p \in Procs, Step(p)
  PROVE  /\ \A o \in Procs \ {p} : proc'[o] = proc[o]
         /\ \A c \in Conns \ {Conn(p)} : conn'[c] = conn[c] /\ holder'[c] = holder[c]
         /\ UNCHANGED <<plane, request, svc, pids, applied>>
<1>1. \A o \in Procs \ {p} : proc'[o] = proc[o]
  BY DEF Step, Acquire, Send, Receive, AwaitFails, Base, TypeOK
<1>2. \A c \in Conns \ {Conn(p)} : conn'[c] = conn[c] /\ holder'[c] = holder[c]
  BY DEF Step, Acquire, Send, Receive, AwaitFails, Base, TypeOK
<1> QED
  BY <1>1, <1>2 DEF Step, Acquire, Send, Receive, AwaitFails, rigid, dinitVars

\* What Receive makes of the task, n before the critical section ends, and of the connection.
Received(p, c, m, k, n) ==
  /\ n.phase = proc[p].phase /\ n.initial = proc[p].initial /\ n.result = proc[p].result
  /\ m.answer = "row" => n.pc = "await" /\ n.todo = proc[p].todo
  /\ m.answer # "row" => n.pc = "send" /\ (p # Observer => n.todo = Tail(proc[p].todo))
  /\ p # Observer /\ k = "status" => n.seen = m.svc
  /\ \/ /\ m.answer \in {"missing", "rejected"}
        /\ conn'[c] = Settled(p, Taken(conn[c], k, FALSE))
        /\ proc'[p] = OnError(p, proc[p], m.answer = "missing")
        /\ holder'[c] = "nobody"
     \/ /\ m.answer \notin {"missing", "rejected"}
        /\ conn'[c] = Taken(conn[c], k, TRUE)
        /\ n.todo # <<>> /\ proc'[p] = n /\ holder' = holder
     \/ /\ m.answer \notin {"missing", "rejected"}
        /\ conn'[c] = Taken(conn[c], k, TRUE)
        /\ n.todo = <<>> /\ proc'[p] = OnSuccess(p, n, m.svc) /\ holder'[c] = "nobody"

LEMMA ReceiveCases ==
  ASSUME Base, NEW p \in Procs, Receive(p), NEW c, c = Conn(p),
         NEW m, m = Head(conn[c].replies), NEW k, k = Head(proc[p].todo)
  PROVE  \E n \in Tasks : Received(p, c, m, k, n)
<1> DEFINE t == proc[p].todo
           bad == m.answer \in {"missing", "rejected"}
           rest == IF m.answer = "row" THEN t
                   ELSE IF m.answer = "end" /\ proc[p].phase = "observe" /\ proc[p].seen # None
                        THEN Steps("status") ELSE Tail(t)
           seen == IF m.answer = "row" \/ (k = "status" /\ proc[p].phase # "observe") THEN m.svc
                   ELSE proc[p].seen
           pc == IF m.answer = "row" THEN "await" ELSE "send"
           next == [proc[p] EXCEPT !.todo = rest, !.seen = seen, !.pc = pc]
<1>1. proc[p].pc = "await" /\ conn[c].replies # <<>>
  BY DEF Receive
<1>2. /\ c \in Conns /\ conn[c] \in Links /\ proc[p] \in Tasks
      /\ proc[p].phase = "observe" <=> p = Observer
      /\ t \in Seq(Kinds) /\ Tail(t) \in Seq(Kinds)
  BY <1>1, AtStep
<1>3. conn \in [Conns -> Links] /\ proc \in [Procs -> Tasks] /\ holder \in [Conns -> Procs \cup {"nobody"}]
  BY DEF Base, TypeOK
<1>4. m.svc \in Services
  BY <1>1, <1>2, NextReply
<1>5. rest \in Seq(Kinds)
  BY <1>2, StepsFacts, QueryFacts
<1>6. seen \in Services \cup {None} /\ pc \in {"await", "send"}
  BY <1>2, <1>4 DEF Tasks
<1>7. /\ next \in Tasks /\ next.phase = proc[p].phase /\ next.todo = rest /\ next.pc = pc
      /\ next.initial = proc[p].initial /\ next.result = proc[p].result /\ next.seen = seen
  <2> HIDE DEF rest, seen, pc
  <2> QED
    BY <1>2, <1>5, <1>6 DEF Tasks
<1>8. \/ /\ bad
         /\ conn' = [conn EXCEPT ![c] = Settled(p, Taken(@, k, ~bad))]
         /\ proc' = [proc EXCEPT ![p] = OnError(p, @, m.answer = "missing")]
         /\ holder' = [holder EXCEPT ![c] = "nobody"]
      \/ /\ ~bad
         /\ conn' = [conn EXCEPT ![c] = Taken(@, k, TRUE)]
         /\ rest # <<>> /\ proc' = [proc EXCEPT ![p] = next] /\ holder' = holder
      \/ /\ ~bad
         /\ conn' = [conn EXCEPT ![c] = Taken(@, k, TRUE)]
         /\ rest = <<>> /\ proc' = [proc EXCEPT ![p] = OnSuccess(p, next, m.svc)]
         /\ holder' = [holder EXCEPT ![c] = "nobody"]
  BY Zenon DEF Receive
<1>9. bad => (~bad) = FALSE
  OBVIOUS
<1>10. /\ m.answer = "row" => pc = "await" /\ rest = t
       /\ m.answer # "row" => pc = "send" /\ (p # Observer => rest = Tail(t))
       /\ p # Observer /\ k = "status" => seen = m.svc
  BY <1>2
<1> HIDE DEF rest, seen, pc, next
<1>11. \/ /\ bad
          /\ conn'[c] = Settled(p, Taken(conn[c], k, FALSE))
          /\ proc'[p] = OnError(p, proc[p], m.answer = "missing")
          /\ holder'[c] = "nobody"
       \/ /\ ~bad /\ conn'[c] = Taken(conn[c], k, TRUE)
          /\ rest # <<>> /\ proc'[p] = next /\ holder' = holder
       \/ /\ ~bad /\ conn'[c] = Taken(conn[c], k, TRUE)
          /\ rest = <<>> /\ proc'[p] = OnSuccess(p, next, m.svc) /\ holder'[c] = "nobody"
  <2> HIDE DEF bad
  <2>1. CASE /\ bad
             /\ conn' = [conn EXCEPT ![c] = Settled(p, Taken(@, k, ~bad))]
             /\ proc' = [proc EXCEPT ![p] = OnError(p, @, m.answer = "missing")]
             /\ holder' = [holder EXCEPT ![c] = "nobody"]
    BY <1>2, <1>3, <1>9, <2>1
  <2>2. CASE /\ ~bad
             /\ conn' = [conn EXCEPT ![c] = Taken(@, k, TRUE)]
             /\ rest # <<>> /\ proc' = [proc EXCEPT ![p] = next] /\ holder' = holder
    BY <1>2, <1>3, <2>2
  <2>3. CASE /\ ~bad
             /\ conn' = [conn EXCEPT ![c] = Taken(@, k, TRUE)]
             /\ rest = <<>> /\ proc' = [proc EXCEPT ![p] = OnSuccess(p, next, m.svc)]
             /\ holder' = [holder EXCEPT ![c] = "nobody"]
    BY <1>2, <1>3, <2>3
  <2> QED
    BY <1>8, <2>1, <2>2, <2>3
<1>12. Received(p, c, m, k, next)
  BY <1>7, <1>10, <1>11 DEF Received
<1> QED
  BY <1>7, <1>12

LEMMA ReceiveFlow ==
  ASSUME Base, Base', FlowSound, NEW p \in Procs, Receive(p), NEW c \in Conns
  PROVE  FlowFor(c)' /\ NoNews(c)
<1>0. /\ proc[p].pc = "await" /\ Held(p) /\ Conn(p) \in Conns /\ holder[Conn(p)] = p
      /\ conn[Conn(p)].replies # <<>>
      /\ conn[c] \in Links /\ conn'[c] \in Links /\ FlowFor(c)
  <2>1. proc[p].pc = "await" /\ Held(p) /\ conn[Conn(p)].replies # <<>>
    BY DEF Receive, Held
  <2>2. Conn(p) \in Conns
    BY <2>1, AtStep
  <2> QED
    BY <2>1, <2>2 DEF Base, TypeOK, FlowSound, LockSound
<1>1. CASE c # Conn(p)
  <2>1. Same(c)
    BY <1>1, StepFrame, Elsewhere DEF Step
  <2> QED
    BY <1>0, <2>1, SameFlow
<1>2. CASE c = Conn(p)
  <2>1. PICK m \in Replies : m = Head(conn[c].replies)
    BY <1>0, <1>2, NextReply
  <2>2. /\ Live(c) /\ Ordered(conn[c])
        /\ \A i \in DOMAIN conn[c].sent : Awaited(c, conn[c].sent[i])
        /\ \A r \in Replies : Carried(conn[c], r) =>
             /\ Awaited(c, r)
             /\ r.answer \in {"row", "end"} <=> r.kind = "list"
    BY <1>0, <1>2, DinitAssumption DEF Live, FlowFor
  <2> DEFINE k == Head(proc[p].todo)
  <2>3. ASSUME NEW l \in Links, NEW ok, l = Taken(conn[c], k, ok)
        PROVE  /\ l.status = conn[c].status /\ l.wire = conn[c].wire /\ l.granted = conn[c].granted
               /\ Ordered(l) /\ (\A r : Carried(l, r) => Carried(conn[c], r))
               /\ m.answer # "row" => Quiet(l)
               /\ l.sent = conn[c].sent
    <3>1. /\ l.status = conn[c].status /\ l.wire = conn[c].wire /\ l.granted = conn[c].granted
          /\ l.sent = conn[c].sent /\ l.replies = Tail(conn[c].replies)
      BY <1>0, <2>3, TakenFacts
    <3> QED
      BY <1>0, <1>2, <2>1, <2>2, <3>1, TakenFlow
  <2>4. ASSUME NEW ok \in BOOLEAN PROVE Taken(conn[c], k, ok) \in Links
    BY <1>0, <1>2, LinkTypes
  <2>5. ASSUME conn'[c] = Fresh \/ \E ok \in BOOLEAN : m.answer # "row" /\ conn'[c] = Taken(conn[c], k, ok)
        PROVE  FlowFor(c)' /\ NoNews(c)
    <3>1. /\ Quiet(conn'[c])
          /\ conn'[c].status # "open" => conn'[c].wire = <<>> /\ ~conn'[c].granted
      BY <1>0, <2>3, <2>4, <2>5, FreshFacts DEF FlowFor
    <3>2. Quiet(conn[c])'
      BY <3>1 DEF Quiet, Carried
    <3> QED
      BY <1>0, <3>1, <3>2, QuietFlow
  <2> HIDE DEF k
  <2>6. PICK n \in Tasks : Received(p, c, m, k, n)
    <3>1. k = Head(proc[p].todo)
      BY DEF k
    <3> QED
      BY <1>2, <2>1, <3>1, ReceiveCases
  <2>7. CASE m.answer \in {"missing", "rejected"} /\ conn'[c] = Settled(p, Taken(conn[c], k, FALSE))
    BY <2>5, <2>7 DEF Settled
  <2>8. CASE m.answer # "row" /\ conn'[c] = Taken(conn[c], k, TRUE)
    BY <2>5, <2>8
  <2>9. CASE m.answer = "row" /\ conn'[c] = Taken(conn[c], k, TRUE) /\ proc'[p] = n /\ holder' = holder
    <3>1. n.pc = "await" /\ n.todo = proc[p].todo
      BY <2>6, <2>9 DEF Received
    <3>2. PICK l \in Links : l = conn'[c] /\ l = Taken(conn[c], k, TRUE)
      BY <1>0, <2>9
    <3>3. /\ l.status = conn[c].status /\ l.wire = conn[c].wire /\ l.granted = conn[c].granted
          /\ Ordered(l) /\ (\A r : Carried(l, r) => Carried(conn[c], r))
          /\ l.sent = conn[c].sent
      BY <2>3, <3>2
    <3>4. \A r : r.from \in Procs /\ Awaited(c, r) => Awaited(c, r)'
      BY <1>0, <1>2, <2>9, <3>1, DinitAssumption DEF Awaited
    <3>5. \A r \in Replies : r.from \in Procs
      BY DEF Replies
    <3>6. \A i \in DOMAIN conn[c].sent : conn[c].sent[i].from \in Procs
      <4>1. conn[c].sent \in Seq(Asks)
        BY <1>0, LinkFields
      <4>2. \A i \in DOMAIN conn[c].sent : conn[c].sent[i] \in Asks
        BY <4>1
      <4> QED
        BY <4>2 DEF Asks
    <3>7. Ordered(conn[c])' /\ \A r : Carried(conn[c], r)' => Carried(conn[c], r)
      <4>1. \A r : Carried(conn[c], r)' <=> Carried(l, r)
        BY <3>2 DEF Carried
      <4>2. Ordered(conn[c])'
        BY <3>2, <3>3, ZenonT(40) DEF Ordered, Carried
      <4> QED
        BY <3>3, <4>1, <4>2
    <3>8. \A i \in (DOMAIN conn[c].sent)' : Awaited(c, conn[c].sent[i])'
      <4>1. \A i \in DOMAIN conn'[c].sent : Awaited(c, conn[c].sent[i])' /\ conn'[c].sent[i] = conn[c].sent[i]
        <5>1. conn'[c].sent = conn[c].sent
          BY <3>2, <3>3
        <5>2. ASSUME NEW i \in DOMAIN conn[c].sent PROVE Awaited(c, conn[c].sent[i])'
          <6>1. PICK r : r = conn[c].sent[i]
            OBVIOUS
          <6>2. r.from \in Procs /\ Awaited(c, r)
            BY <2>2, <3>6, <6>1
          <6>3. Awaited(c, r)'
            BY <3>4, <6>2, Zenon
          <6>4. conn'[c].sent[i] = r
            BY <5>1, <6>1
          <6> QED
            BY <6>3, <6>4, Zenon
        <5> QED
          BY <5>1, <5>2
      <4> QED
        BY <4>1, <3>2, <3>3 DEF Awaited
    <3>9. \A r \in Replies : Carried(conn[c], r)' =>
             /\ Awaited(c, r)'
             /\ r.answer \in {"row", "end"} <=> r.kind = "list"
      BY <2>2, <3>4, <3>5, <3>7
    <3> QED
      BY <1>0, <2>2, <3>2, <3>3, <3>7, <3>8, <3>9 DEF FlowFor, NoNews
  <2>10. m.answer = "row" => n.todo # <<>>
    BY <1>0, <2>6, AtStep DEF Received
  <2> QED
    BY <2>6, <2>7, <2>8, <2>9, <2>10 DEF Received
<1> QED
  BY <1>1, <1>2

LEMMA AwaitFailsFlow ==
  ASSUME Base, Base', FlowSound, NEW p \in Procs, AwaitFails(p), NEW c \in Conns
  PROVE  FlowFor(c)' /\ NoNews(c)
<1>0. /\ proc[p].pc = "await" /\ Held(p) /\ Conn(p) \in Conns /\ holder[Conn(p)] = p
      /\ conn[c] \in Links /\ conn'[c] \in Links /\ FlowFor(c)
  <2>1. proc[p].pc = "await" /\ Held(p)
    BY DEF AwaitFails, Held
  <2>2. Conn(p) \in Conns
    BY <2>1, AtStep
  <2> QED
    BY <2>1, <2>2 DEF Base, TypeOK, FlowSound, LockSound
<1>1. CASE c # Conn(p)
  <2>1. Same(c)
    BY <1>1, StepFrame, Elsewhere DEF Step
  <2> QED
    BY <1>0, <2>1, SameFlow
<1>2. CASE c = Conn(p)
  <2>1. /\ conn'[c] = Settled(p, Forgets(Failed(conn[c]), Head(proc[p].todo)))
        /\ holder'[c] = "nobody"
    BY <1>0, <1>2 DEF AwaitFails, Base, TypeOK
  <2>2. Failed(conn[c]) \in Links
    BY <1>0, LinkTypes
  <2>3. conn'[c].status # "open" /\ conn'[c].sent = <<>> /\ conn'[c].wire = <<>> /\ ~conn'[c].granted
    BY <1>0, <2>1, <2>2, SettledFacts, FailedFacts, FreshFacts
  <2>4. ~Live(c)'
    BY <2>1, <2>3 DEF Live
  <2> QED
    BY <2>3, <2>4, DeadFlow
<1> QED
  BY <1>1, <1>2

\* A task that holds no lock moves on, or its context ends.
LEMMA OutsideFlow ==
  ASSUME Base, FlowSound, NEW c \in Conns,
         \/ \E p \in Callers : Execute(p) \/ Wait(p)
         \/ \E p \in Procs : ContextEnds(p)
         \/ ObserveAgain
         \/ UNCHANGED vars
  PROVE  Same(c) /\ FlowFor(c)' /\ NoNews(c)
<1>0. /\ FlowFor(c) /\ conn[c] \in Links /\ conn \in [Conns -> Links]
      /\ proc \in [Procs -> Tasks] /\ Callers \subseteq Procs
  BY DEF FlowSound, Base, TypeOK, Procs
<1>1. ASSUME NEW p \in Callers, Execute(p) \/ Wait(p) PROVE Same(c)
  <2>1. p \in Procs /\ ~Held(p) /\ conn' = conn /\ holder' = holder
    BY <1>0, <1>1 DEF Execute, Wait, Held
  <2>2. \A o \in Procs \ {p} : proc'[o] = proc[o]
    BY <1>0, <1>1 DEF Execute, Wait
  <2> QED
    BY <2>1, <2>2, Elsewhere
<1>2. ASSUME NEW p \in Procs, ContextEnds(p) PROVE Same(c)
  <2>1. /\ holder' = holder
        /\ \A o \in Procs : proc'[o].pc = proc[o].pc /\ proc'[o].todo = proc[o].todo
    <3>1. \A o \in Procs : proc'[o] = proc[o] \/ proc'[o] = [proc[o] EXCEPT !.ended = TRUE]
      BY <1>0, <1>2 DEF ContextEnds
    <3>2. \A q \in Tasks : [q EXCEPT !.ended = TRUE].pc = q.pc /\ [q EXCEPT !.ended = TRUE].todo = q.todo
      BY DEF Tasks
    <3> QED
      BY <1>0, <1>2, <3>1, <3>2 DEF ContextEnds
  <2>2. \E d : conn'[c] = conn[c] \/ conn'[c] = [conn[c] EXCEPT !.doomed = d]
    BY <1>0, <1>2 DEF ContextEnds
  <2>3. /\ conn'[c].status = conn[c].status /\ conn'[c].granted = conn[c].granted
        /\ conn'[c].sent = conn[c].sent /\ conn'[c].wire = conn[c].wire
        /\ conn'[c].replies = conn[c].replies /\ conn'[c].handle = conn[c].handle
    BY <1>0, <2>2 DEF Links
  <2> QED
    BY <2>1, <2>3 DEF Same
<1>3. ASSUME ObserveAgain PROVE Same(c)
  <2>1. /\ holder' = holder
        /\ \A o \in Procs : holder[c] = o => proc'[o].pc = proc[o].pc /\ proc'[o].todo = proc[o].todo
    <3>1. ~Held(Observer) /\ Observer \in Procs
      BY <1>3 DEF ObserveAgain, Held, Procs
    <3>2. holder[c] # Observer
      BY <3>1 DEF Base, LockSound
    <3> QED
      BY <1>0, <1>3, <3>2 DEF ObserveAgain
  <2>2. \E d : conn'[c] = conn[c] \/ conn'[c] = [conn[c] EXCEPT !.events = d]
    <3>1. conn' = conn \/ conn' = [conn EXCEPT !["plane"].events = @ - 1]
      BY <1>3 DEF ObserveAgain
    <3>2. "plane" \in Conns
      BY DEF Conns
    <3>3. conn'[c] = conn[c] \/ conn'[c] = [conn[c] EXCEPT !.events = conn[c].events - 1]
      BY <1>0, <3>1, <3>2
    <3> QED
      BY <3>3, Zenon
  <2>3. /\ conn'[c].status = conn[c].status /\ conn'[c].granted = conn[c].granted
        /\ conn'[c].sent = conn[c].sent /\ conn'[c].wire = conn[c].wire
        /\ conn'[c].replies = conn[c].replies /\ conn'[c].handle = conn[c].handle
    BY <1>0, <2>2 DEF Links
  <2> QED
    BY <2>1, <2>3 DEF Same
<1>4. ASSUME UNCHANGED vars PROVE Same(c)
  BY <1>4 DEF vars, Same
<1>5. Same(c)
  BY <1>1, <1>2, <1>3, <1>4
<1> QED
  BY <1>0, <1>5, SameFlow

LEMMA ObserveCloseFlow ==
  ASSUME Base, Base', FlowSound, ObserveClose, NEW c \in Conns
  PROVE  FlowFor(c)' /\ NoNews(c)
<1>0. /\ FlowFor(c) /\ conn \in [Conns -> Links] /\ proc \in [Procs -> Tasks]
      /\ (conn[c] \in Links)'
  BY DEF FlowSound, Base, TypeOK
<1>1. CASE c = "plane"
  <2>1. conn'[c] = Fresh
    BY <1>0, <1>1 DEF ObserveClose
  <2>2. Quiet(conn[c])' /\ conn'[c].wire = <<>> /\ ~conn'[c].granted
    BY <2>1, FreshFacts DEF Quiet, Carried
  <2> QED
    BY <1>0, <2>2, QuietFlow
<1>2. CASE c # "plane"
  <2>1. Observer \in Procs /\ ~Held(Observer) /\ holder' = holder /\ conn'[c] = conn[c]
    BY <1>0, <1>2 DEF ObserveClose, Held, Procs
  <2>2. \A o \in Procs \ {Observer} : proc'[o] = proc[o]
    BY <1>0 DEF ObserveClose
  <2>3. Same(c)
    BY <2>1, <2>2, Elsewhere
  <2> QED
    BY <1>0, <2>3, SameFlow
<1> QED
  BY <1>1, <1>2

\* What is under way shrinks or stays, for the same waiter.
LEMMA LinkFlow ==
  ASSUME Base, NEW c \in Conns, FlowFor(c), holder' = holder, proc' = proc,
         NEW l \in Links, l = conn'[c],
         l.status = conn[c].status \/ l.status = "failed",
         l.status # "open" => l.sent = <<>> /\ l.wire = <<>> /\ ~l.granted,
         l.sent = conn[c].sent \/ l.sent = <<>>,
         \A m : Carried(l, m) => Carried(conn[c], m),
         Ordered(conn[c]) => Ordered(l)
  PROVE  FlowFor(c)' /\ NoNews(c)
<1>1. Live(c)' => Live(c)
  BY DEF Live
<1>2. /\ \A m : Carried(conn[c], m)' <=> Carried(l, m)
      /\ Ordered(conn[c])' <=> Ordered(l)
  BY DEF Carried, Ordered
<1>3. \A m : Awaited(c, m)' <=> Awaited(c, m)
  BY DEF Awaited
<1>4. Live(c)' => \A i \in (DOMAIN conn[c].sent)' : Awaited(c, conn[c].sent[i])'
  <2> SUFFICES ASSUME Live(c)', NEW i \in DOMAIN conn'[c].sent
               PROVE  Awaited(c, conn'[c].sent[i])
    BY DEF Awaited
  <2>1. l.sent # <<>>
    OBVIOUS
  <2> QED
    BY <1>1, <2>1 DEF FlowFor
<1> QED
  BY <1>1, <1>2, <1>3, <1>4 DEF FlowFor, NoNews

LEMMA BecomesFlow ==
  ASSUME Base, Base', FlowSound, holder' = holder, proc' = proc, NEW s, Becomes(s), NEW c \in Conns
  PROVE  /\ FlowFor(c)' /\ NoNews(c)
         /\ conn'[c].status = conn[c].status /\ conn'[c].granted = conn[c].granted
         /\ conn'[c].handle = conn[c].handle /\ conn'[c].sent = conn[c].sent
<1>1. conn[c] \in Links /\ FlowFor(c)
  BY DEF Base, TypeOK, FlowSound
<1>2. PICK l \in Links : l = conn'[c]
  BY DEF Base, TypeOK
<1>3. l = conn[c] \/ (conn[c].granted /\ l = [conn[c] EXCEPT !.wire = Append(@, Event)])
  BY <1>2 DEF Becomes
<1>4. CASE l = conn[c]
  <2>1. Same(c)
    BY <1>2, <1>4 DEF Same
  <2> QED
    BY <1>1, <1>2, <1>4, <2>1, SameFlow
<1>5. CASE conn[c].granted /\ l = [conn[c] EXCEPT !.wire = Append(@, Event)]
  <2>1. /\ l.wire = Append(conn[c].wire, Event) /\ l.sent = conn[c].sent /\ l.replies = conn[c].replies
        /\ l.status = conn[c].status /\ l.granted = conn[c].granted /\ l.handle = conn[c].handle
    BY <1>1, <1>5 DEF Links
  <2>2. l.status = "open"
    BY <1>1, <1>5, <2>1 DEF FlowFor
  <2>3. (\A m : Carried(l, m) => Carried(conn[c], m)) /\ (Ordered(conn[c]) => Ordered(l))
    BY <1>1, <2>1, EventFlow
  <2> QED
    BY <1>1, <1>2, <2>1, <2>2, <2>3, LinkFlow
<1> QED
  BY <1>3, <1>4, <1>5

\* A connection fails.
LEMMA FailFlow ==
  ASSUME Base, FlowSound, holder' = holder, proc' = proc, NEW c \in Conns, conn'[c] = Failed(conn[c])
  PROVE  FlowFor(c)' /\ NoNews(c) /\ conn'[c].status # "open" /\ conn'[c].sent = <<>>
<1>1. conn[c] \in Links /\ FlowFor(c)
  BY DEF Base, TypeOK, FlowSound
<1>2. PICK l \in Links : l = conn'[c]
  BY <1>1, LinkTypes
<1>3. /\ l.status = "failed" /\ ~l.granted /\ l.wire = <<>> /\ l.sent = <<>>
      /\ l.replies = conn[c].replies
  BY <1>1, <1>2, FailedFacts
<1>4. (\A m : Carried(l, m) => Carried(conn[c], m)) /\ (Ordered(conn[c]) => Ordered(l))
  BY <1>1, <1>3, LostFlow
<1> QED
  BY <1>1, <1>2, <1>3, <1>4, LinkFlow

LEMMA ReadLoopFlow ==
  ASSUME Base, Base', FlowSound, NEW c \in Conns, ReadLoop(c)
  PROVE  /\ FlowFor(c)' /\ NoNews(c)
         /\ conn'[c].sent = conn[c].sent \/ conn'[c].sent = <<>>
         /\ conn'[c].status = "open" => /\ conn[c].status = "open" /\ conn'[c].granted = conn[c].granted
                                        /\ conn'[c].handle = conn[c].handle /\ conn'[c].sent = conn[c].sent
<1> DEFINE k == conn[c]
           m == Head(k.wire)
<1>1. /\ k \in Links /\ FlowFor(c) /\ k.wire # <<>> /\ holder' = holder /\ proc' = proc
      /\ conn \in [Conns -> Links]
  BY DEF Base, TypeOK, FlowSound, ReadLoop
<1>2. PICK l \in Links : l = conn'[c]
  BY DEF Base, TypeOK
<1>3. k.status = "open"
  BY <1>1 DEF FlowFor
<1>4. l = IF m # Event THEN [k EXCEPT !.wire = Tail(@), !.replies = Append(@, m)]
          ELSE IF k.events < EventCap THEN [k EXCEPT !.wire = Tail(@), !.events = @ + 1]
          ELSE Failed(k)
  BY <1>1, <1>2 DEF ReadLoop
<1> HIDE DEF m
<1>5. CASE m # Event
  <2>1. /\ l.wire = Tail(k.wire) /\ l.sent = k.sent /\ l.replies = Append(k.replies, m)
        /\ l.status = k.status /\ l.granted = k.granted /\ l.handle = k.handle
    <3>1. l = [k EXCEPT !.wire = Tail(@), !.replies = Append(@, m)]
      BY <1>4, <1>5
    <3> QED
      BY <1>1, <3>1 DEF Links
  <2>2. (\A r : Carried(l, r) => Carried(k, r)) /\ (Ordered(k) => Ordered(l))
    BY <1>1, <1>5, <2>1, ReplyReadFlow DEF m
  <2> QED
    BY <1>1, <1>2, <1>3, <2>1, <2>2, LinkFlow
<1>6. CASE m = Event /\ k.events < EventCap
  <2>1. /\ l.wire = Tail(k.wire) /\ l.sent = k.sent /\ l.replies = k.replies
        /\ l.status = k.status /\ l.granted = k.granted /\ l.handle = k.handle
    <3>1. l = [k EXCEPT !.wire = Tail(@), !.events = @ + 1]
      BY <1>4, <1>6
    <3> QED
      BY <1>1, <3>1 DEF Links
  <2>2. (\A r : Carried(l, r) => Carried(k, r)) /\ (Ordered(k) => Ordered(l))
    BY <1>1, <1>6, <2>1, EventReadFlow DEF m
  <2> QED
    BY <1>1, <1>2, <1>3, <2>1, <2>2, LinkFlow
<1>7. CASE m = Event /\ ~(k.events < EventCap)
  <2>1. conn'[c] = Failed(k)
    BY <1>2, <1>4, <1>7
  <2> QED
    BY <1>1, <2>1, FailFlow
<1> QED
  BY <1>5, <1>6, <1>7

\* Dinit answers the request that is waited for, by replies of its kind.
Served(c, m, answer) ==
  /\ m \in Asks /\ Awaited(c, m) /\ conn[c].status = "open" /\ conn[c].sent # <<>>
  /\ conn'[c].status = "open" /\ conn'[c].handle = conn[c].handle /\ conn'[c].sent = <<>>
  /\ Ordered(conn'[c])
  /\ \A r \in Replies : Carried(conn'[c], r) =>
       /\ r.kind = m.kind /\ r.from = m.from /\ r.svc = svc
       /\ r.answer = answer \/ (answer = "row" /\ r.answer = "end")
  /\ conn'[c].granted <=> IF answer = "ok" /\ m.kind \in {"find", "load"} THEN TRUE
                          ELSE IF answer = "ok" /\ m.kind \in {"reload", "unload"} THEN FALSE
                          ELSE conn[c].granted
  /\ svc' = IF answer = "ok" THEN After(m.kind) ELSE svc
  /\ applied' = IF answer = "ok" /\ m.kind \notin {"find", "load", "status"}
                THEN [applied EXCEPT ![m.from] = @ + 1] ELSE applied

LEMMA ServeFacts ==
  ASSUME Base, Base', FlowSound, NEW c \in Conns, Serve(c), NEW m, m = Head(conn[c].sent)
  PROVE  \E answer \in Answers(c, m.kind) : Served(c, m, answer)
<1> DEFINE k == conn[c]
           Reply(a) == [kind |-> m.kind, from |-> m.from, answer |-> a, svc |-> svc]
<1>1. k \in Links /\ svc \in Services /\ FlowFor(c) /\ conn \in [Conns -> Links]
  BY DEF Base, TypeOK, FlowSound
<1>2. k.sent # <<>> /\ k.sent \in Seq(Asks)
  BY <1>1, LinkFields DEF Serve
<1>3. m \in Asks /\ m.kind \in Kinds /\ m.from \in Procs /\ 1 \in DOMAIN k.sent /\ m = k.sent[1]
  <2>1. m \in Asks /\ 1 \in DOMAIN k.sent /\ m = k.sent[1]
    BY <1>2
  <2> QED
    BY <2>1 DEF Asks
<1>4. k.status = "open" /\ Ordered(k) /\ Awaited(c, m)
  BY <1>1, <1>2, <1>3 DEF FlowFor, Live
<1>5. PICK answer \in Answers(c, m.kind) :
        /\ conn' = [conn EXCEPT ![c].sent = Tail(@),
                      ![c].wire = IF answer = "row" THEN Append(Append(@, Reply("row")), Reply("end"))
                                  ELSE Append(@, Reply(answer)),
                      ![c].granted = IF answer = "ok" /\ m.kind \in {"find", "load"} THEN TRUE
                                     ELSE IF answer = "ok" /\ m.kind \in {"reload", "unload"} THEN FALSE ELSE @]
        /\ svc' = IF answer = "ok" THEN After(m.kind) ELSE svc
        /\ applied' = IF answer = "ok" /\ m.kind \notin {"find", "load", "status"}
                      THEN [applied EXCEPT ![m.from] = @ + 1] ELSE applied
  BY DEF Serve
<1>6. answer \in {"ok", "missing", "rejected", "row", "end"}
  BY DEF Answers
<1>7. \A a \in {"ok", "missing", "rejected", "row", "end"} :
        /\ Reply(a) \in Replies /\ Reply(a).kind = m.kind /\ Reply(a).from = m.from
        /\ Reply(a).svc = svc /\ Reply(a).answer = a
  BY <1>1, <1>3 DEF Replies
<1> DEFINE w == IF answer = "row" THEN Append(Append(k.wire, Reply("row")), Reply("end"))
                                  ELSE Append(k.wire, Reply(answer))
           g == IF answer = "ok" /\ m.kind \in {"find", "load"} THEN TRUE
                ELSE IF answer = "ok" /\ m.kind \in {"reload", "unload"} THEN FALSE ELSE k.granted
           t == Tail(k.sent)
<1>8. conn' = [conn EXCEPT ![c] = [k EXCEPT !.sent = t, !.wire = w, !.granted = g]]
  BY <1>5
<1> HIDE DEF Reply
<1>9. w = Append(k.wire, Reply(answer)) \/ w = Append(Append(k.wire, Reply("row")), Reply("end"))
  OBVIOUS
<1>10. PICK l \in Links : l = conn'[c]
  BY DEF Base, TypeOK
<1>11. l.status = "open" /\ l.handle = k.handle /\ l.sent = t /\ l.wire = w /\ l.replies = k.replies
       /\ l.granted = g
  <2> HIDE DEF w, g, t
  <2> QED
    BY <1>1, <1>4, <1>8, <1>10 DEF Links
<1>12. /\ Ordered(l) /\ l.sent = <<>>
       /\ l.wire = Append(k.wire, Reply(answer)) => \A r \in Replies : Carried(l, r) => r = Reply(answer)
       /\ l.wire = Append(Append(k.wire, Reply("row")), Reply("end"))
            => \A r \in Replies : Carried(l, r) => r \in {Reply("row"), Reply("end")}
  <2>1. PICK x \in Replies, y \in Replies, z \in Replies :
          x = Reply("row") /\ y = Reply("end") /\ z = Reply(answer) /\ x.answer = "row"
    BY <1>6, <1>7
  <2>2. l.wire = Append(k.wire, z) \/ l.wire = Append(Append(k.wire, x), y)
    BY <1>9, <1>11, <2>1
  <2> HIDE DEF w, g
  <2>3. /\ Ordered(l) /\ l.sent = <<>>
        /\ l.wire = Append(k.wire, z) => \A r \in Replies : Carried(l, r) => r = z
        /\ l.wire = Append(Append(k.wire, x), y) => \A r \in Replies : Carried(l, r) => r \in {x, y}
    <3>1. k \in Links /\ Ordered(k) /\ k.sent # <<>> /\ l.sent = Tail(k.sent) /\ l.replies = k.replies
      BY <1>1, <1>2, <1>4, <1>11
    <3> HIDE DEF k
    <3>2. x.answer = "row"
      BY <2>1
    <3> QED
      BY <2>2, <3>1, <3>2, ServedFlow, Zenon
  <2> QED
    BY <2>1, <2>3, Zenon
<1>13. \A r \in Replies : Carried(l, r) =>
         r = Reply(answer) \/ (answer = "row" /\ r \in {Reply("row"), Reply("end")})
  BY <1>11, <1>12
<1>14. \A r \in Replies : Carried(l, r) =>
         /\ r.kind = m.kind /\ r.from = m.from /\ r.svc = svc
         /\ r.answer = answer \/ (answer = "row" /\ r.answer = "end")
  BY <1>6, <1>7, <1>13
<1>15. conn'[c].granted <=> g
  BY <1>10, <1>11
<1>16. Served(c, m, answer)
  BY <1>2, <1>3, <1>4, <1>5, <1>10, <1>11, <1>12, <1>14, <1>15 DEF Served
<1> QED
  BY <1>16

LEMMA ServeFlow ==
  ASSUME Base, Base', FlowSound, NEW c \in Conns, Serve(c)
  PROVE  FlowFor(c)'
<1>1. PICK m : m = Head(conn[c].sent)
  OBVIOUS
<1>2. PICK answer \in Answers(c, m.kind) : Served(c, m, answer)
  BY <1>1, ServeFacts
<1>3. holder' = holder /\ proc' = proc
  BY DEF Serve
<1>4. answer \in {"row", "end"} <=> m.kind = "list"
  BY DEF Answers
<1>5. \A r \in Replies : Carried(conn'[c], r) =>
        /\ r.kind = m.kind /\ r.from = m.from
        /\ r.answer \in {"row", "end"} <=> r.kind = "list"
  BY <1>2, <1>4 DEF Served
<1>6. \A r \in Replies : Carried(conn[c], r)' =>
        /\ Awaited(c, r)'
        /\ r.answer \in {"row", "end"} <=> r.kind = "list"
  <2>1. \A r : Carried(conn[c], r)' <=> Carried(conn'[c], r)
    BY DEF Carried
  <2>2. \A r : r.kind = m.kind /\ r.from = m.from => Awaited(c, r)'
    BY <1>2, <1>3 DEF Awaited, Served
  <2> QED
    BY <1>5, <2>1, <2>2
<1>7. Ordered(conn[c])' /\ conn'[c].sent = <<>> /\ conn'[c].status = "open"
  BY <1>2 DEF Ordered, Carried, Served
<1> QED
  BY <1>6, <1>7 DEF FlowFor

LEMMA LinkStepFlow ==
  ASSUME Base, Base', FlowSound, LinkStep, NEW c \in Conns
  PROVE  FlowFor(c)' /\ (NoNews(c) \/ Serve(c))
<1>1. FlowFor(c) /\ conn \in [Conns -> Links] /\ holder' = holder /\ proc' = proc
  BY DEF FlowSound, Base, TypeOK, LinkStep, Progress, ServiceEnds, Serve, ReadLoop, Break, AfterFunc
<1>2. CASE Progress \/ ServiceEnds
  <2>1. PICK s : Becomes(s)
    BY <1>2 DEF Progress, ServiceEnds
  <2> QED
    BY <1>1, <2>1, BecomesFlow
<1>3. ASSUME NEW d \in Conns, Serve(d) \/ ReadLoop(d) \/ Break(d) \/ AfterFunc(d), c # d
      PROVE  FlowFor(c)' /\ NoNews(c)
  <2>1. conn'[c] = conn[c]
    BY <1>1, <1>3 DEF Serve, ReadLoop, Break, AfterFunc
  <2>2. Same(c)
    BY <1>1, <2>1 DEF Same
  <2> QED
    BY <1>1, <2>2, SameFlow
<1>4. CASE Serve(c)
  BY <1>4, ServeFlow
<1>5. CASE ReadLoop(c)
  BY <1>5, ReadLoopFlow
<1>6. CASE Break(c) \/ AfterFunc(c)
  <2>1. conn'[c] = Failed(conn[c])
    BY <1>1, <1>6 DEF Break, AfterFunc
  <2> QED
    BY <1>1, <2>1, FailFlow
<1> QED
  BY <1>2, <1>3, <1>4, <1>5, <1>6 DEF LinkStep

\* Every step keeps FlowSound, and only Dinit adds a reply.
LEMMA FlowNext ==
  ASSUME Base, Base', FlowSound, [Next]_vars
  PROVE  FlowSound' /\ \A c \in Conns : NoNews(c) \/ Serve(c)
<1> SUFFICES ASSUME NEW c \in Conns PROVE FlowFor(c)' /\ (NoNews(c) \/ Serve(c))
  BY DEF FlowSound
<1>1. CASE LinkStep
  BY <1>1, LinkStepFlow
<1>2. ASSUME NEW p \in Procs, Step(p) PROVE FlowFor(c)' /\ NoNews(c)
  BY <1>2, AcquireFlow, SendFlow, ReceiveFlow, AwaitFailsFlow DEF Step
<1>3. CASE \/ \E p \in Callers : Execute(p) \/ Wait(p)
           \/ \E p \in Procs : ContextEnds(p)
           \/ ObserveAgain
           \/ UNCHANGED vars
  BY <1>3, OutsideFlow
<1>4. CASE ObserveClose
  BY <1>4, ObserveCloseFlow
<1> QED
  BY <1>1, <1>2, <1>3, <1>4 DEF Next, LinkStep

LEMMA FlowInit == Init => FlowSound
<1> SUFFICES ASSUME Init, NEW c \in Conns PROVE FlowFor(c)
  BY DEF FlowSound
<1>1. conn[c] = Fresh /\ holder[c] = "nobody"
  BY DEF Init
<1>2. conn[c].sent = <<>> /\ conn[c].wire = <<>> /\ ~conn[c].granted /\ conn[c].status = "none"
  BY <1>1, FreshFacts
<1> QED
  BY <1>1, <1>2 DEF FlowFor, Live

-----------------------------------------------------------------------------
(* HandleSound. *)

LEMMA SameHandle ==
  ASSUME Base, NEW c \in Conns, HandleFor(c), Same(c)
  PROVE  HandleFor(c)'
<1>1. holder[c] \in Procs \cup {"nobody"}
  BY DEF Base, TypeOK
<1>2. \A m : Carried(conn[c], m)' <=> Carried(conn[c], m)
  BY DEF Carried, Same
<1>3. conn[c].status = "open" /\ conn[c].handle /\ ~conn[c].granted =>
        holder[c] \in Procs /\ holder'[c] = holder[c] /\ proc'[holder[c]].pc = proc[holder[c]].pc
        /\ proc'[holder[c]].todo = proc[holder[c]].todo
  BY <1>1 DEF Same, HandleFor
<1> QED
  BY <1>2, <1>3 DEF HandleFor, Same

\* On a usable connection what matters is which handles are granted.
LEMMA GrantedHandle ==
  ASSUME NEW c \in Conns,
         conn'[c].status = "open" =>
           /\ \A m \in Replies : Carried(conn'[c], m) /\ m.kind \in {"find", "load"} /\ m.answer = "ok"
                                   => conn'[c].granted
           /\ conn'[c].handle => conn'[c].granted
  PROVE  HandleFor(c)'
BY DEF HandleFor, Carried

\* Nothing is under way, and the handle is no other than before.
LEMMA IdleHandle ==
  ASSUME Base, FlowSound, NEW c \in Conns, HandleFor(c), conn[c].status = "open",
         holder[c] = "nobody" \/ proc[holder[c]].pc # "await"
  PROVE  (conn[c].handle => conn[c].granted) /\ \A m \in Replies : ~Carried(conn[c], m)
<1>1. Quiet(conn[c])
  BY UnheldQuiet DEF FlowSound
<1> QED
  BY <1>1 DEF HandleFor, Quiet

LEMMA AcquireHandle ==
  ASSUME Base, FlowSound, NEW p \in Procs, Acquire(p), NEW c \in Conns, c = Conn(p), HandleFor(c)
  PROVE  HandleFor(c)'
<1>1. holder[c] = "nobody" /\ conn \in [Conns -> Links]
  BY DEF Acquire, Base, TypeOK
<1>2. conn'[c] = conn[c] \/ conn'[c] \in {Fresh, [Fresh EXCEPT !.status = "open"]}
  BY <1>1 DEF Acquire
<1>3. CASE conn'[c] = conn[c]
  BY <1>1, <1>3, IdleHandle, GrantedHandle
<1>4. CASE conn'[c] \in {Fresh, [Fresh EXCEPT !.status = "open"]}
  <2>1. conn'[c].status = "open" => ~conn'[c].handle /\ Quiet(conn'[c])
    BY <1>4, FreshFacts
  <2> QED
    BY <2>1, GrantedHandle DEF Quiet
<1> QED
  BY <1>2, <1>3, <1>4

LEMMA SendHandle ==
  ASSUME Base, FlowSound, NEW p \in Procs, Send(p), NEW c \in Conns, c = Conn(p), HandleFor(c)
  PROVE  HandleFor(c)'
<1> DEFINE k == Head(proc[p].todo)
<1>1. /\ proc[p].pc = "send" /\ holder[c] = p /\ conn \in [Conns -> Links] /\ conn[c] \in Links
      /\ FlowFor(c)
  BY DEF Send, Held, Base, TypeOK, LockSound, FlowSound
<1>2. conn[c].status = "open" =>
        (conn[c].handle => conn[c].granted) /\ \A m \in Replies : ~Carried(conn[c], m)
  BY <1>1, IdleHandle
<1>3. \/ conn'[c] = conn[c]
      \/ conn'[c] = [conn[c] EXCEPT !.sent = Append(@, [kind |-> k, from |-> p])]
      \/ conn'[c] = Settled(p, Forgets(conn[c], k))
  BY <1>1 DEF Send
<1>4. ASSUME NEW l, l = conn'[c],
             \/ l.status # "open"
             \/ /\ l.status = conn[c].status /\ l.wire = conn[c].wire /\ l.replies = conn[c].replies
                /\ l.granted = conn[c].granted /\ (l.handle => conn[c].handle)
      PROVE  HandleFor(c)'
  <2>1. l.status = "open" => \A m \in Replies : ~Carried(l, m)
    BY <1>2, <1>4 DEF Carried
  <2> QED
    BY <1>2, <1>4, <2>1, GrantedHandle
<1>5. CASE conn'[c] = conn[c]
  BY <1>4, <1>5
<1>6. CASE conn'[c] = [conn[c] EXCEPT !.sent = Append(@, [kind |-> k, from |-> p])]
  <2>1. PICK u : conn'[c] = [conn[c] EXCEPT !.sent = u]
    BY <1>6
  <2>2. /\ conn'[c].status = conn[c].status /\ conn'[c].wire = conn[c].wire
        /\ conn'[c].replies = conn[c].replies /\ conn'[c].granted = conn[c].granted
        /\ conn'[c].handle = conn[c].handle
    BY <1>1, <2>1 DEF Links
  <2> QED
    BY <1>4, <2>2
<1>7. CASE conn'[c] = Settled(p, Forgets(conn[c], k))
  <2> HIDE DEF k
  <2> QED
    BY <1>1, <1>4, <1>7, SettledFacts, FreshFacts
<1> QED
  BY <1>3, <1>5, <1>6, <1>7

LEMMA ReceiveHandle ==
  ASSUME Base, FlowSound, NEW p \in Procs, Receive(p), NEW c \in Conns, c = Conn(p), HandleFor(c)
  PROVE  HandleFor(c)'
<1>1. /\ proc[p].pc = "await" /\ holder[c] = p /\ conn \in [Conns -> Links] /\ conn[c] \in Links
      /\ FlowFor(c) /\ conn[c].replies # <<>> /\ p # "nobody"
  BY DinitAssumption DEF Receive, Held, Base, TypeOK, LockSound, FlowSound
<1>2. PICK k \in Kinds : k = Head(proc[p].todo)
  BY <1>1, AtStep
<1>3. PICK m \in Replies : m = Head(conn[c].replies)
  BY <1>1, NextReply
<1>4. Live(c) /\ Ordered(conn[c])
  BY <1>1 DEF Live, FlowFor
<1>5. ASSUME NEW l \in Links, NEW ok, l = Taken(conn[c], k, ok)
      PROVE  /\ l.status = conn[c].status /\ l.granted = conn[c].granted
             /\ l.handle = HandleAfter(k, conn[c].handle, ok)
             /\ (\A r : Carried(l, r) => Carried(conn[c], r))
             /\ Carried(conn[c], m)
             /\ m.answer # "row" => Quiet(l)
  <2>1. /\ l.status = conn[c].status /\ l.wire = conn[c].wire /\ l.granted = conn[c].granted
        /\ l.sent = conn[c].sent /\ l.replies = Tail(conn[c].replies)
        /\ l.handle = HandleAfter(k, conn[c].handle, ok)
    BY <1>1, <1>5, TakenFacts
  <2> QED
    BY <1>1, <1>3, <1>4, <2>1, TakenFlow
<1>6. \A ok \in BOOLEAN : Taken(conn[c], k, ok) \in Links
  BY <1>1, LinkTypes
<1>7. Carried(conn[c], m) /\ m.kind = k /\ (m.answer \in {"row", "end"} <=> m.kind = "list")
  <2>1. Carried(conn[c], m)
    BY <1>5, <1>6
  <2>2. Awaited(c, m) /\ (m.answer \in {"row", "end"} <=> m.kind = "list")
    BY <1>1, <1>4, <2>1 DEF FlowFor
  <2> QED
    BY <1>1, <1>2, <2>1, <2>2 DEF Awaited
<1>8. PICK n \in Tasks : Received(p, c, m, k, n)
  BY <1>2, <1>3, ReceiveCases
<1>9. CASE m.answer \in {"missing", "rejected"} /\ conn'[c] = Settled(p, Taken(conn[c], k, FALSE))
  <2>1. CASE conn'[c] = Fresh
    BY <2>1, FreshFacts, GrantedHandle
  <2>2. CASE conn'[c] = Taken(conn[c], k, FALSE)
    <3>1. PICK l \in Links : l = Taken(conn[c], k, FALSE)
      BY <1>6
    <3>2. /\ l.status = conn[c].status /\ l.granted = conn[c].granted /\ Quiet(l)
          /\ l.handle = HandleAfter(k, conn[c].handle, FALSE)
      BY <1>5, <1>9, <3>1
    <3>3. conn[c].status = "open" /\ conn[c].handle => conn[c].granted
      BY <1>7, <1>9 DEF HandleFor
    <3>4. l.handle => conn[c].handle
      BY <1>2, <3>2 DEF HandleAfter
    <3> QED
      BY <2>2, <3>1, <3>2, <3>3, <3>4, GrantedHandle DEF Quiet
  <2> QED
    BY <1>9, <2>1, <2>2 DEF Settled
<1>10. CASE m.answer \notin {"missing", "rejected"} /\ conn'[c] = Taken(conn[c], k, TRUE)
  <2>1. PICK l \in Links : l = conn'[c] /\ l = Taken(conn[c], k, TRUE)
    BY <1>6, <1>10
  <2>2. /\ l.status = conn[c].status /\ l.granted = conn[c].granted
        /\ l.handle = HandleAfter(k, conn[c].handle, TRUE)
        /\ (\A r : Carried(l, r) => Carried(conn[c], r))
    BY <1>5, <2>1
  <2>3. k \in {"find", "load"} => m.answer = "ok"
    BY <1>7, <1>10 DEF Replies
  <2>4. l.status = "open" /\ l.handle => l.granted
    <3>1. k \in {"reload", "unload"} => ~l.handle
      BY <2>2 DEF HandleAfter
    <3>2. conn[c].status = "open" /\ k \in {"find", "load"} => l.granted
      BY <1>7, <2>2, <2>3 DEF HandleFor
    <3>3. k \notin {"reload", "unload", "find", "load"} => l.handle = conn[c].handle
      BY <2>2 DEF HandleAfter
    <3>4. conn[c].status = "open" /\ conn[c].handle /\ ~conn[c].granted => k \in {"reload", "unload"}
      BY <1>1, <1>2 DEF HandleFor
    <3> QED
      BY <2>2, <3>1, <3>2, <3>3, <3>4
  <2>5. l.status = "open" => \A r \in Replies :
          Carried(l, r) /\ r.kind \in {"find", "load"} /\ r.answer = "ok" => l.granted
    BY <2>2 DEF HandleFor
  <2> QED
    BY <2>1, <2>4, <2>5, GrantedHandle
<1> QED
  BY <1>8, <1>9, <1>10 DEF Received

LEMMA AwaitFailsHandle ==
  ASSUME Base, NEW p \in Procs, AwaitFails(p), NEW c \in Conns, c = Conn(p)
  PROVE  HandleFor(c)'
<1>1. conn[c] \in Links /\ conn'[c] = Settled(p, Forgets(Failed(conn[c]), Head(proc[p].todo)))
  BY DEF AwaitFails, Base, TypeOK
<1>2. Failed(conn[c]) \in Links
  BY <1>1, LinkTypes
<1>3. conn'[c].status # "open"
  BY <1>1, <1>2, SettledFacts, FailedFacts, FreshFacts
<1> QED
  BY <1>3, GrantedHandle

LEMMA ServeHandle ==
  ASSUME Base, Base', FlowSound, NEW c \in Conns, Serve(c), HandleFor(c)
  PROVE  HandleFor(c)'
<1>1. PICK m : m = Head(conn[c].sent)
  OBVIOUS
<1>2. PICK answer \in Answers(c, m.kind) : Served(c, m, answer)
  BY <1>1, ServeFacts
<1>3. holder' = holder /\ proc' = proc
  BY DEF Serve
<1>4. \A r : Carried(conn[c], r)' <=> Carried(conn'[c], r)
  BY DEF Carried
<1>5. \A r \in Replies : Carried(conn'[c], r) =>
        /\ r.kind = m.kind
        /\ r.answer = answer \/ (answer = "row" /\ r.answer = "end")
  BY <1>2 DEF Served
<1>6. conn[c].handle => conn[c].granted
  BY <1>2 DEF Served, HandleFor
<1>7. CASE answer = "ok" /\ m.kind \in {"reload", "unload"}
  <2>1. m.from \in Procs /\ m.from # "nobody"
    BY <1>2, DinitAssumption DEF Served, Asks
  <2>2. holder'[c] # "nobody" /\ proc'[holder'[c]].pc = "await" /\ Head(proc'[holder'[c]].todo) = m.kind
    BY <1>2, <1>3, <2>1 DEF Served, Awaited
  <2>3. conn'[c].sent = <<>> /\ \A r \in Replies : Carried(conn'[c], r) => r.answer = "ok" /\ r.kind = m.kind
    BY <1>2, <1>5, <1>7 DEF Served
  <2> QED
    BY <1>4, <1>7, <2>2, <2>3 DEF HandleFor
<1>8. CASE ~(answer = "ok" /\ m.kind \in {"reload", "unload"})
  <2>1. conn'[c].handle => conn'[c].granted
    BY <1>2, <1>6, <1>8 DEF Served
  <2>2. answer = "ok" /\ m.kind \in {"find", "load"} => conn'[c].granted
    BY <1>2 DEF Served
  <2> QED
    BY <1>5, <2>1, <2>2, GrantedHandle
<1> QED
  BY <1>7, <1>8

LEMMA LinkStepHandle ==
  ASSUME Base, Base', FlowSound, LinkStep, NEW c \in Conns, HandleFor(c)
  PROVE  HandleFor(c)'
<1>1. conn \in [Conns -> Links] /\ holder' = holder /\ proc' = proc
  BY DEF Base, TypeOK, LinkStep, Progress, ServiceEnds, Serve, ReadLoop, Break, AfterFunc
<1>2. ASSUME NoNews(c), FlowFor(c)',
             conn'[c].status = "open" =>
               /\ conn[c].status = "open" /\ conn'[c].granted = conn[c].granted
               /\ conn'[c].handle = conn[c].handle /\ conn'[c].sent = conn[c].sent
      PROVE  HandleFor(c)'
  <2>1. conn'[c].status = "open" => \A m \in Replies : Carried(conn[c], m)' => Carried(conn[c], m)
    BY <1>2 DEF NoNews, Live
  <2> QED
    BY <1>1, <1>2, <2>1 DEF HandleFor
<1>3. CASE Progress \/ ServiceEnds
  <2>1. PICK s : Becomes(s)
    BY <1>3 DEF Progress, ServiceEnds
  <2> QED
    BY <1>1, <1>2, <2>1, BecomesFlow
<1>4. ASSUME NEW d \in Conns, Serve(d) \/ ReadLoop(d) \/ Break(d) \/ AfterFunc(d), c # d
      PROVE  HandleFor(c)'
  <2>1. conn'[c] = conn[c]
    BY <1>1, <1>4 DEF Serve, ReadLoop, Break, AfterFunc
  <2>2. Same(c)
    BY <1>1, <2>1 DEF Same
  <2> QED
    BY <2>2, SameHandle
<1>5. CASE Serve(c)
  BY <1>5, ServeHandle
<1>6. CASE ReadLoop(c)
  BY <1>2, <1>6, ReadLoopFlow
<1>7. CASE Break(c) \/ AfterFunc(c)
  <2>1. conn'[c] = Failed(conn[c])
    BY <1>1, <1>7 DEF Break, AfterFunc
  <2> QED
    BY <1>1, <1>2, <2>1, FailFlow
<1> QED
  BY <1>3, <1>4, <1>5, <1>6, <1>7 DEF LinkStep

LEMMA HandleNext ==
  ASSUME Base, Base', FlowSound, HandleSound, [Next]_vars
  PROVE  HandleSound'
<1> SUFFICES ASSUME NEW c \in Conns PROVE HandleFor(c)'
  BY DEF HandleSound
<1>0. HandleFor(c) /\ conn \in [Conns -> Links] /\ proc \in [Procs -> Tasks]
  BY DEF HandleSound, Base, TypeOK
<1>1. CASE LinkStep
  BY <1>0, <1>1, LinkStepHandle
<1>2. ASSUME NEW p \in Procs, Step(p) PROVE HandleFor(c)'
  <2>1. CASE c = Conn(p)
    BY <1>0, <1>2, <2>1, AcquireHandle, SendHandle, ReceiveHandle, AwaitFailsHandle DEF Step
  <2>2. CASE c # Conn(p)
    <3>1. Same(c)
      BY <1>2, <2>2, StepFrame, Elsewhere
    <3> QED
      BY <1>0, <3>1, SameHandle
  <2> QED
    BY <2>1, <2>2
<1>3. CASE \/ \E p \in Callers : Execute(p) \/ Wait(p)
           \/ \E p \in Procs : ContextEnds(p)
           \/ ObserveAgain
           \/ UNCHANGED vars
  BY <1>0, <1>3, OutsideFlow, SameHandle
<1>4. CASE ObserveClose
  <2>1. CASE c = "plane"
    <3>1. conn'[c] = Fresh
      BY <1>0, <1>4, <2>1 DEF ObserveClose
    <3> QED
      BY <3>1, FreshFacts, GrantedHandle
  <2>2. CASE c # "plane"
    <3>1. Observer \in Procs /\ ~Held(Observer) /\ holder' = holder /\ conn'[c] = conn[c]
      BY <1>0, <1>4, <2>2 DEF ObserveClose, Held, Procs
    <3>2. \A o \in Procs \ {Observer} : proc'[o] = proc[o]
      BY <1>0, <1>4 DEF ObserveClose
    <3>3. Same(c)
      BY <3>1, <3>2, Elsewhere
    <3> QED
      BY <1>0, <3>3, SameHandle
  <2> QED
    BY <2>1, <2>2
<1> QED
  BY <1>1, <1>2, <1>3, <1>4 DEF Next, LinkStep

LEMMA HandleInit == Init => HandleSound
<1> SUFFICES ASSUME Init, NEW c \in Conns PROVE HandleFor(c)
  BY DEF HandleSound
<1>1. conn[c] = Fresh
  BY DEF Init
<1>2. conn[c].status = "none"
  BY <1>1, FreshFacts
<1> QED
  BY <1>2 DEF HandleFor

\* What is under way on a usable connection, element by element.
LEMMA ConnectionImplied ==
  ASSUME Base, FlowSound, HandleSound
  PROVE  ConnectionSound
<1>1. ASSUME NEW c \in Conns, conn[c].status = "open"
      PROVE  /\ \A i \in DOMAIN conn[c].sent : Awaited(c, conn[c].sent[i])
             /\ \A i \in DOMAIN conn[c].wire : conn[c].wire[i] # Event => Awaited(c, conn[c].wire[i])
             /\ \A i \in DOMAIN conn[c].replies : Awaited(c, conn[c].replies[i])
  <2>1. conn[c] \in Links /\ FlowFor(c) /\ Live(c)
    BY <1>1 DEF Base, TypeOK, FlowSound, Live
  <2>2. conn[c].wire \in Seq(Wired) /\ conn[c].replies \in Seq(Replies)
    BY <2>1, LinkFields
  <2>3. \A i \in DOMAIN conn[c].wire : conn[c].wire[i] # Event =>
          conn[c].wire[i] \in Replies /\ Carried(conn[c], conn[c].wire[i])
    <3>1. \A i \in DOMAIN conn[c].wire : conn[c].wire[i] \in Wired
      BY <2>2
    <3> QED
      BY <3>1 DEF Wired, Carried
  <2>4. \A i \in DOMAIN conn[c].replies :
          conn[c].replies[i] \in Replies /\ Carried(conn[c], conn[c].replies[i])
    <3>1. \A i \in DOMAIN conn[c].replies : conn[c].replies[i] \in Replies
      BY <2>2
    <3> QED
      BY <3>1, ReplyIsNoEvent DEF Carried
  <2> QED
    BY <2>1, <2>3, <2>4 DEF FlowFor
<1>2. Paired
  BY <1>1 DEF Paired
<1>3. HandlesValid
  BY DEF HandlesValid, HandleSound, HandleFor
<1> QED
  BY <1>2, <1>3 DEF ConnectionSound

(* A late reply is never taken for the reply to another request: whatever is *)
(* under way on a usable connection belongs to the request its holder waits  *)
(* for, and a cached handle is one Dinit honours (client.go request,         *)
(* controller.go handle), through any sequence of cancellations, errors,     *)
(* full queues, redials, reloads and unloads.                                *)
THEOREM ConnectionCorrect == Spec => []ConnectionSound
<1> DEFINE IInv == Base /\ FlowSound /\ HandleSound
<1>1. Init => IInv
  BY BaseInit, FlowInit, HandleInit
<1>2. IInv /\ [Next]_vars => IInv'
  <2> SUFFICES ASSUME IInv, [Next]_vars PROVE IInv'
    OBVIOUS
  <2>1. Base'
    BY BaseNext
  <2>2. FlowSound'
    BY <2>1, FlowNext
  <2>3. HandleSound'
    BY <2>1, HandleNext
  <2> QED
    BY <2>1, <2>2, <2>3
<1>3. IInv => ConnectionSound
  BY ConnectionImplied
<1> HIDE DEF IInv
<1> QED
  BY <1>1, <1>2, <1>3, PTL DEF Spec

-----------------------------------------------------------------------------
(* OnceSound. *)

\* What a caller asks next, and what is left then.
LEMMA CallerStep ==
  ASSUME Base, NEW p \in Callers, proc[p].pc \in {"lock", "send", "await"},
         NEW k, k = Head(proc[p].todo), NEW u, u = Tail(proc[p].todo)
  PROVE  /\ p \in Procs /\ p # Observer /\ proc[p] \in Tasks
         /\ proc[p].phase \in {"initial", "change", "poll"}
         /\ proc[p].phase = "initial" => request[p].act = "restart"
         /\ k \in Kinds /\ k # "list" /\ request[p].act \in Acts
         /\ proc[p].phase # "change" => k \in {"find", "status"}
         /\ k \in {"find", "load"} => u # <<>>
         /\ k = "status" => u = <<>>
         /\ proc[p].phase = "change" =>
              /\ k \in {"find", "load", "status", request[p].act}
              /\ k \in {"find", "load"} => Head(u) = request[p].act
              /\ k = request[p].act => u = <<>> \/ Head(u) = "status"
              /\ k = request[p].act /\ request[p].act \in {"start", "stop", "restart"} => u # <<>>
<1>1. p \in Procs /\ p # Observer
  BY DinitAssumption DEF Procs
<1>2. /\ proc[p] \in Tasks /\ TaskFor(p, proc[p])
      /\ proc[p].phase \in {"initial", "change", "poll", "observe"}
      /\ proc[p].phase = "observe" <=> p = Observer
      /\ proc[p].todo \in Todos(p, proc[p].phase)
      /\ k \in Kinds /\ (k = "list" => proc[p].phase = "observe")
      /\ k \in {"find", "load"} => u # <<>>
  BY <1>1, AtStep
<1>3. request[p].act \in Acts
  BY RequestFacts DEF Base
<1>4. proc[p].phase # "change" => k \in {"find", "status"} /\ (k = "status" => u = <<>>)
  <2>1. proc[p].phase # "change" => proc[p].todo \in Queries
    BY <1>1, <1>2 DEF Todos
  <2> QED
    BY <2>1, QueryFacts
<1>5. proc[p].phase = "change" =>
        /\ k \in {"find", "load", "status", request[p].act}
        /\ k \in {"find", "load"} => Head(u) = request[p].act
        /\ k = request[p].act => u = <<>> \/ Head(u) = "status"
        /\ k = request[p].act /\ request[p].act \in {"start", "stop", "restart"} => u # <<>>
        /\ k = "status" => u = <<>>
  <2> SUFFICES ASSUME proc[p].phase = "change"
               PROVE  /\ k \in {"find", "load", "status", request[p].act}
                      /\ k \in {"find", "load"} => Head(u) = request[p].act
                      /\ k = request[p].act => u = <<>> \/ Head(u) = "status"
                      /\ k = request[p].act /\ request[p].act \in {"start", "stop", "restart"} => u # <<>>
                      /\ k = "status" => u = <<>>
    OBVIOUS
  <2>1. proc[p].todo \in Changes(request[p].act)
    BY <1>2 DEF Todos
  <2>2. PICK act \in Acts : act = request[p].act
    BY <1>3
  <2>3. PICK t : t = proc[p].todo
    OBVIOUS
  <2>4. /\ Head(t) \in {"find", "load", "status", act}
        /\ Head(t) \in {"find", "load"} => Tail(t) \in Changes(act) /\ Head(Tail(t)) = act
        /\ Head(t) = act => Tail(t) = <<>> \/ (Tail(t) \in Changes(act) /\ Head(Tail(t)) = "status")
        /\ Head(t) = act /\ act \in {"start", "stop", "restart"} => Tail(t) # <<>>
        /\ Head(t) = "status" => Tail(t) = <<>>
    <3>1. t \in Changes(act)
      BY <2>1, <2>2, <2>3
    <3>2. ChangeStep(act, t)
      BY <3>1, ChangeFacts, Zenon
    <3> QED
      BY <3>2, Zenon DEF ChangeStep
  <2>5. k = Head(t) /\ u = Tail(t)
    BY <2>3
  <2> QED
    BY <2>2, <2>4, <2>5
<1>6. proc[p].phase = "initial" => request[p].act = "restart"
  BY <1>1, <1>2 DEF TaskFor
<1> QED
  BY <1>1, <1>2, <1>3, <1>4, <1>5, <1>6

\* Changes have names of their own.
LEMMA ActsAreChanges ==
  ASSUME NEW act \in Acts
  PROVE  act \notin {"find", "load", "status", "list"}
BY DEF Acts

LEMMA CountTypes ==
  ASSUME TypeOK, NEW p \in Callers
  PROVE  applied[p] \in Nat /\ Conn(p) \in Conns /\ p \in Procs /\ p # Observer /\ proc[p] \in Tasks
BY DinitAssumption DEF TypeOK, Conn, Conns, Procs

\* The parts of OnceFor a step relies on.
LEMMA AtOnce ==
  ASSUME Base, NEW p \in Callers, OnceFor(p), proc[p].pc \in {"lock", "send", "await"}
  PROVE  /\ proc[p].result = "none" /\ applied[p] \in {0, 1}
         /\ proc[p].phase = "initial" => applied[p] = 0
         /\ proc[p].phase = "poll" => applied[p] = 1
         /\ proc[p].phase = "change" /\ Head(proc[p].todo) = "status" => applied[p] = 1
         /\ proc[p].phase = "change" /\ Head(proc[p].todo) \in {"find", "load"} => applied[p] = 0
         /\ proc[p].phase = "change" /\ proc[p].pc \in {"lock", "send"} /\ Head(proc[p].todo) # "status"
              => applied[p] = 0
<1>1. applied[p] \in Nat
  BY CountTypes DEF Base
<1>2. applied[p] <= 1 => applied[p] \in {0, 1}
  BY <1>1
<1> QED
  BY <1>2 DEF OnceFor, OnceAs, Unasked, Told

\* A critical section that went wrong.
LEMMA ErrorOnce ==
  ASSUME Base, NEW p \in Callers, OnceFor(p), proc[p].pc \in {"lock", "send", "await"}, NEW missing,
         NEW e, e = OnError(p, proc[p], missing), NEW sent
  PROVE  OnceAs(p, e, sent, applied[p])
<1>1. proc[p].result = "none" /\ (proc[p].phase = "initial" => applied[p] = 0)
  BY AtOnce
<1>2. proc[p] \in Tasks /\ proc[p].phase \in {"initial", "change", "poll"}
  BY CallerStep
<1>3. CASE proc[p].phase = "initial"
  <2>1. e.pc = "lock" /\ e.phase = "change" /\ e.todo = Steps("restart") /\ e.result = "none"
    BY <1>1, <1>2, <1>3, ErrorFacts
  <2>2. Head(e.todo) # "status"
    BY <2>1, StepsFacts DEF Acts
  <2>3. applied[p] = 0
    BY AtOnce, <1>3
  <2> QED
    BY <2>1, <2>2, <2>3 DEF OnceAs, Told
<1>4. CASE proc[p].phase \in {"change", "poll"}
  <2>1. e.pc = "end" /\ e.phase # "initial"
    BY <1>2, <1>4, ErrorFacts
  <2>2. e.result = "ok" => request[p].ignore
    BY <1>2, <1>4, ErrorIgnored
  <2>3. applied[p] <= 1 /\ ~Told(e) /\ ~Unasked(e, sent)
    BY <2>1, AtOnce DEF Told, Unasked
  <2> QED
    BY <2>1, <2>2, <2>3 DEF OnceAs
<1> QED
  BY <1>2, <1>3, <1>4

\* A critical section that went well; n is the task before it ends.
LEMMA SuccessOnce ==
  ASSUME Base, NEW p \in Callers, OnceFor(p), proc[p].pc \in {"lock", "send", "await"},
         proc[p].phase # "initial" => applied[p] = 1,
         NEW status \in Services, NEW n \in Tasks, n.phase = proc[p].phase, n.result = proc[p].result,
         NEW e, e = OnSuccess(p, n, status), NEW sent
  PROVE  OnceAs(p, e, sent, applied[p])
<1>1. proc[p].result = "none" /\ (proc[p].phase = "initial" => applied[p] = 0)
  BY AtOnce
<1>2. proc[p].phase \in {"initial", "change", "poll"}
  BY CallerStep
<1>3. CASE n.phase = "initial"
  <2>1. e.pc = "lock" /\ e.phase = "change" /\ e.todo = Steps("restart") /\ e.result = "none"
    BY <1>1, <1>3, SuccessFacts
  <2>2. Head(e.todo) # "status"
    BY <2>1, StepsFacts DEF Acts
  <2> QED
    BY <1>1, <1>3, <2>1, <2>2 DEF OnceAs, Told
<1>4. CASE n.phase \in {"change", "poll"}
  <2>1. e.phase # "initial" /\ ((e.pc = "wait" /\ e.result = "none") \/ (e.pc = "end" /\ e.result = "ok"))
    BY <1>1, <1>4, SuccessFacts
  <2>2. applied[p] = 1 /\ applied[p] <= 1
    BY <1>4
  <2>3. ~Unasked(e, sent)
    BY <2>1 DEF Unasked
  <2> QED
    BY <2>1, <2>2, <2>3 DEF OnceAs
<1> QED
  BY <1>2, <1>3, <1>4

\* A task that is where it was, with no more under way for it.
LEMMA SameOnce ==
  ASSUME Base, NEW p \in Callers, OnceFor(p), UNCHANGED rigid, applied'[p] = applied[p],
         /\ proc'[p].pc = proc[p].pc /\ proc'[p].phase = proc[p].phase
         /\ proc'[p].todo = proc[p].todo /\ proc'[p].result = proc[p].result,
         proc[p].pc = "await" =>
           conn'[Conn(p)].sent = conn[Conn(p)].sent \/ conn'[Conn(p)].sent = <<>>
  PROVE  OnceFor(p)'
<1>1. Conn(p)' = Conn(p) /\ request' = request
  BY DEF Conn, rigid
<1> DEFINE s == conn[Conn(p)].sent
           t == conn'[Conn(p)].sent
<1>2. OnceFor(p)' <=> OnceAs(p, proc'[p], t, applied[p])
  BY <1>1 DEF OnceFor, OnceAs, Unasked, Told
<1>3. Told(proc'[p]) => Told(proc[p])
  BY DEF Told
<1>4. Unasked(proc'[p], t) => Unasked(proc[p], s)
  BY DEF Unasked
<1> HIDE DEF s, t
<1>5. OnceAs(p, proc[p], s, applied[p])
  BY DEF OnceFor, s
<1> QED
  BY <1>2, <1>3, <1>4, <1>5 DEF OnceAs

\* A task that has moved on, in terms of what it is now.
LEMMA MovedOnce ==
  ASSUME NEW p \in Callers, UNCHANGED rigid, applied'[p] = applied[p],
         OnceAs(p, proc'[p], conn'[Conn(p)].sent, applied[p])
  PROVE  OnceFor(p)'
<1>1. Conn(p)' = Conn(p) /\ request' = request
  BY DEF Conn, rigid
<1> QED
  BY <1>1 DEF OnceFor, OnceAs, Unasked, Told

LEMMA AcquireOnce ==
  ASSUME Base, NEW p \in Callers, OnceFor(p), Acquire(p)
  PROVE  OnceFor(p)'
<1>1. proc[p].pc = "lock" /\ UNCHANGED rigid /\ applied' = applied /\ proc \in [Procs -> Tasks] /\ p \in Procs
  BY CountTypes DEF Acquire, dinitVars, Base, TypeOK
<1>2. CASE proc' = [proc EXCEPT ![p].pc = "send"]
  <2>1. proc'[p].pc = "send" /\ proc'[p].phase = proc[p].phase /\ proc'[p].todo = proc[p].todo
        /\ proc'[p].result = proc[p].result
    BY <1>1, <1>2 DEF Tasks
  <2>2. Told(proc'[p]) => Told(proc[p])
    BY <1>1, <2>1 DEF Told
  <2>3. Unasked(proc'[p], conn'[Conn(p)].sent) => Unasked(proc[p], conn[Conn(p)].sent)
    BY <1>1, <2>1 DEF Unasked
  <2>4. proc'[p].result = "none"
    BY <1>1, <2>1, AtOnce
  <2>5. OnceAs(p, proc'[p], conn'[Conn(p)].sent, applied[p])
    BY <2>2, <2>3, <2>4 DEF OnceFor, OnceAs
  <2> QED
    BY <1>1, <2>5, MovedOnce
<1>3. CASE proc' = [proc EXCEPT ![p] = OnError(p, @, FALSE)]
  <2>1. proc'[p] = OnError(p, proc[p], FALSE)
    BY <1>1, <1>3
  <2>2. OnceAs(p, proc'[p], conn'[Conn(p)].sent, applied[p])
    BY <1>1, <2>1, ErrorOnce
  <2> QED
    BY <1>1, <2>2, MovedOnce
<1> QED
  BY <1>2, <1>3 DEF Acquire

LEMMA SendOnce ==
  ASSUME Base, NEW p \in Callers, OnceFor(p), Send(p)
  PROVE  OnceFor(p)'
<1>1. proc[p].pc = "send" /\ UNCHANGED rigid /\ applied' = applied /\ proc \in [Procs -> Tasks] /\ p \in Procs
  BY CountTypes DEF Send, dinitVars, Base, TypeOK
<1> DEFINE k == Head(proc[p].todo)
           u == Tail(proc[p].todo)
<1>2. CASE k \in {"find", "load"} /\ proc' = [proc EXCEPT ![p].todo = Tail(@)]
  <2>1. proc'[p].pc = "send" /\ proc'[p].phase = proc[p].phase /\ proc'[p].todo = u
        /\ proc'[p].result = proc[p].result
    BY <1>1, <1>2 DEF Tasks
  <2>2. proc[p].phase = "change" => Head(u) \notin {"find", "load", "status"}
    <3>1. request[p].act \in Acts
          /\ (proc[p].phase = "change" => (k \in {"find", "load"} => Head(u) = request[p].act))
      BY <1>1, CallerStep
    <3> QED
      BY <1>2, <3>1, ActsAreChanges
  <2>3. Told(proc'[p]) => proc[p].phase = "poll"
    BY <2>1, <2>2 DEF Told
  <2>4. Unasked(proc'[p], conn'[Conn(p)].sent) => proc[p].phase \in {"initial", "change"}
    BY <2>1 DEF Unasked
  <2>5. /\ proc[p].phase \in {"initial", "change"} => applied[p] = 0
        /\ proc[p].phase = "poll" => applied[p] = 1
        /\ proc[p].result = "none" /\ applied[p] <= 1
    <3>1. applied[p] \in {0, 1}
      BY <1>1, AtOnce
    <3> QED
      BY <1>1, <1>2, <3>1, AtOnce
  <2>6. OnceAs(p, proc'[p], conn'[Conn(p)].sent, applied[p])
    BY <2>1, <2>3, <2>4, <2>5 DEF OnceAs
  <2> QED
    BY <1>1, <2>6, MovedOnce
<1>3. CASE proc' = [proc EXCEPT ![p].pc = "await"]
  <2>1. proc'[p].pc = "await" /\ proc'[p].phase = proc[p].phase /\ proc'[p].todo = proc[p].todo
        /\ proc'[p].result = proc[p].result
    BY <1>1, <1>3 DEF Tasks
  <2>2. Told(proc'[p]) => Told(proc[p])
    BY <1>1, <2>1 DEF Told
  <2>3. Unasked(proc'[p], conn'[Conn(p)].sent) => Unasked(proc[p], conn[Conn(p)].sent)
    BY <1>1, <2>1 DEF Unasked
  <2>4. proc'[p].result = "none"
    BY <1>1, <2>1, AtOnce
  <2>5. OnceAs(p, proc'[p], conn'[Conn(p)].sent, applied[p])
    BY <2>2, <2>3, <2>4 DEF OnceFor, OnceAs
  <2> QED
    BY <1>1, <2>5, MovedOnce
<1>4. CASE proc' = [proc EXCEPT ![p] = OnError(p, @, FALSE)]
  <2>1. proc'[p] = OnError(p, proc[p], FALSE)
    BY <1>1, <1>4
  <2>2. OnceAs(p, proc'[p], conn'[Conn(p)].sent, applied[p])
    BY <1>1, <2>1, ErrorOnce
  <2> QED
    BY <1>1, <2>2, MovedOnce
<1> QED
  BY <1>2, <1>3, <1>4 DEF Send

LEMMA AwaitFailsOnce ==
  ASSUME Base, NEW p \in Callers, OnceFor(p), AwaitFails(p)
  PROVE  OnceFor(p)'
<1>1. /\ proc[p].pc = "await" /\ UNCHANGED rigid /\ applied' = applied
      /\ proc'[p] = OnError(p, proc[p], FALSE)
  BY CountTypes DEF AwaitFails, dinitVars, Base, TypeOK
<1>2. OnceAs(p, proc'[p], conn'[Conn(p)].sent, applied[p])
  BY <1>1, ErrorOnce
<1> QED
  BY <1>1, <1>2, MovedOnce

\* The reply that is taken answers the request that is waited for.
LEMMA ReceiveReply ==
  ASSUME Base, FlowSound, NEW p \in Procs, Receive(p), NEW c \in Conns, c = Conn(p)
  PROVE  \E m \in Replies :
           /\ m = Head(conn[c].replies) /\ Live(c) /\ Carried(conn[c], m)
           /\ m.kind = Head(proc[p].todo) /\ m.from = p
           /\ m.answer \in {"row", "end"} <=> m.kind = "list"
<1>1. /\ proc[p].pc = "await" /\ holder[c] = p /\ conn[c] \in Links
      /\ FlowFor(c) /\ conn[c].replies # <<>> /\ p # "nobody"
  BY DinitAssumption DEF Receive, Held, Base, TypeOK, LockSound, FlowSound
<1>2. PICK m \in Replies : m = Head(conn[c].replies) /\ m.from \in Procs
  BY <1>1, NextReply
<1>3. Live(c) /\ Ordered(conn[c])
  BY <1>1 DEF Live, FlowFor
<1>4. Carried(conn[c], m)
  <2>1. conn[c].replies \in Seq(Replies)
    BY <1>1, LinkFields
  <2>2. 1 \in DOMAIN conn[c].replies /\ m = conn[c].replies[1]
    BY <1>1, <1>2, <2>1
  <2> QED
    BY <1>2, <2>2, ReplyIsNoEvent DEF Carried
<1>5. Awaited(c, m) /\ (m.answer \in {"row", "end"} <=> m.kind = "list")
  BY <1>1, <1>3, <1>4 DEF FlowFor
<1>6. m.kind = Head(proc[p].todo) /\ m.from = p
  BY <1>1, <1>5 DEF Awaited
<1> QED
  BY <1>2, <1>3, <1>4, <1>5, <1>6

LEMMA ReceiveOnce ==
  ASSUME Base, FlowSound, NEW p \in Callers, OnceFor(p), Receive(p), AnsweredFor(Conn(p))
  PROVE  OnceFor(p)'
<1>1. /\ proc[p].pc = "await" /\ UNCHANGED rigid /\ applied' = applied /\ p \in Procs /\ p # Observer
      /\ Conn(p) \in Conns /\ proc[p] \in Tasks
  BY CountTypes DEF Receive, dinitVars, Base
<1>2. PICK c \in Conns : c = Conn(p)
  BY <1>1
<1>3. PICK m \in Replies :
        /\ m = Head(conn[c].replies) /\ Live(c) /\ Carried(conn[c], m)
        /\ m.kind = Head(proc[p].todo) /\ m.from = p
        /\ m.answer \in {"row", "end"} <=> m.kind = "list"
  BY <1>1, <1>2, ReceiveReply
<1>4. PICK k \in Kinds : k = Head(proc[p].todo)
  BY <1>1, CallerStep
<1>5. PICK u : u = Tail(proc[p].todo)
  OBVIOUS
<1>6. /\ proc[p].phase \in {"initial", "change", "poll"}
      /\ k # "list"
      /\ k \in {"find", "load"} => u # <<>>
      /\ k = "status" => u = <<>>
      /\ proc[p].phase # "change" => k \in {"find", "status"}
      /\ proc[p].phase = "change" =>
           /\ k \in {"find", "load", "status", request[p].act}
           /\ k \in {"find", "load"} => Head(u) = request[p].act
           /\ k = request[p].act => u = <<>> \/ Head(u) = "status"
      /\ request[p].act \in Acts
  BY <1>1, <1>4, <1>5, CallerStep
<1>7. m.answer \in {"ok", "missing", "rejected"} /\ m.svc \in Services
  BY <1>3, <1>4, <1>6 DEF Replies
<1>8. PICK n \in Tasks : Received(p, c, m, k, n)
  BY <1>1, <1>2, <1>3, <1>4, ReceiveCases
<1>9. /\ n.phase = proc[p].phase /\ n.result = proc[p].result
      /\ n.pc = "send" /\ n.todo = u
  BY <1>1, <1>5, <1>7, <1>8 DEF Received
<1>10. proc[p].phase = "change" /\ k = request[p].act /\ m.answer = "ok" => applied[p] = 1
  <2>1. proc[p].phase = "change" /\ k = request[p].act => m.kind \notin {"find", "load", "status"}
    BY <1>3, <1>4, <1>6, ActsAreChanges
  <2> QED
    BY <1>2, <1>3, <2>1 DEF AnsweredFor
<1>11. /\ proc[p].result = "none" /\ applied[p] \in {0, 1}
       /\ proc[p].phase = "initial" => applied[p] = 0
       /\ proc[p].phase = "poll" => applied[p] = 1
       /\ proc[p].phase = "change" /\ k = "status" => applied[p] = 1
       /\ proc[p].phase = "change" /\ k \in {"find", "load"} => applied[p] = 0
  BY <1>1, <1>4, AtOnce
<1>12. CASE proc'[p] = OnError(p, proc[p], m.answer = "missing")
  <2>1. OnceAs(p, proc'[p], conn'[Conn(p)].sent, applied[p])
    BY <1>1, <1>12, ErrorOnce
  <2> QED
    BY <1>1, <2>1, MovedOnce
<1>13. CASE m.answer = "ok" /\ n.todo # <<>> /\ proc'[p] = n
  <2>1. Told(n) => applied[p] = 1
    <3>1. Told(n) => proc[p].phase = "poll" \/ (proc[p].phase = "change" /\ Head(u) = "status")
      BY <1>9 DEF Told
    <3>2. proc[p].phase = "change" /\ Head(u) = "status" => k = request[p].act
      BY <1>6, <1>9, <1>13, ActsAreChanges
    <3> QED
      BY <1>10, <1>11, <1>13, <3>1, <3>2
  <2>2. Unasked(n, conn'[Conn(p)].sent) => applied[p] = 0
    <3>1. Unasked(n, conn'[Conn(p)].sent) =>
            proc[p].phase = "initial" \/ (proc[p].phase = "change" /\ Head(u) # "status")
      BY <1>9 DEF Unasked
    <3>2. proc[p].phase = "change" /\ Head(u) # "status" => k \in {"find", "load"}
      BY <1>6, <1>9, <1>13
    <3> QED
      BY <1>11, <3>1, <3>2
  <2>3. OnceAs(p, proc'[p], conn'[Conn(p)].sent, applied[p])
    BY <1>9, <1>11, <1>13, <2>1, <2>2 DEF OnceAs
  <2> QED
    BY <1>1, <2>3, MovedOnce
<1>14. CASE m.answer = "ok" /\ n.todo = <<>> /\ proc'[p] = OnSuccess(p, n, m.svc)
  <2>1. proc[p].phase # "initial" => applied[p] = 1
    BY <1>6, <1>9, <1>10, <1>11, <1>14
  <2>2. OnceAs(p, proc'[p], conn'[Conn(p)].sent, applied[p])
    BY <1>1, <1>7, <1>9, <1>14, <2>1, SuccessOnce
  <2> QED
    BY <1>1, <2>2, MovedOnce
<1> QED
  BY <1>7, <1>8, <1>12, <1>13, <1>14 DEF Received

LEMMA ExecuteOnce ==
  ASSUME Base, NEW p \in Callers, OnceFor(p), Execute(p)
  PROVE  OnceFor(p)'
<1>1. /\ proc[p].pc = "idle" /\ UNCHANGED rigid /\ applied' = applied /\ p \in Procs
      /\ proc \in [Procs -> Tasks] /\ proc[p] \in Tasks
  BY CountTypes DEF Execute, dinitVars, Base, TypeOK
<1>2. PICK phase, todo :
        /\ proc'[p] = [proc[p] EXCEPT !.pc = "lock", !.phase = phase, !.todo = todo]
        /\ phase = IF request[p].act = "restart" THEN "initial" ELSE "change"
        /\ todo = Steps(IF request[p].act = "restart" THEN "status" ELSE request[p].act)
  BY <1>1 DEF Execute
<1>3. proc'[p].pc = "lock" /\ proc'[p].phase = phase /\ proc'[p].todo = todo
      /\ proc'[p].result = proc[p].result
  BY <1>1, <1>2 DEF Tasks
<1>4. phase = "change" => Head(todo) # "status"
  <2>1. request[p].act \in Acts
    BY RequestFacts DEF Base
  <2> QED
    BY <1>2, <2>1, StepsFacts
<1>5. applied[p] = 0 /\ proc[p].result = "none" /\ applied[p] <= 1
  <2>1. Unasked(proc[p], conn[Conn(p)].sent)
    BY <1>1 DEF Unasked
  <2> QED
    BY <1>1, <2>1 DEF OnceFor, OnceAs
<1>6. ~Told(proc'[p])
  BY <1>2, <1>3, <1>4 DEF Told
<1>7. OnceAs(p, proc'[p], conn'[Conn(p)].sent, applied[p])
  BY <1>3, <1>5, <1>6 DEF OnceAs
<1> QED
  BY <1>1, <1>7, MovedOnce

LEMMA WaitOnce ==
  ASSUME Base, NEW p \in Callers, OnceFor(p), Wait(p)
  PROVE  OnceFor(p)'
<1>1. /\ proc[p].pc = "wait" /\ UNCHANGED rigid /\ applied' = applied /\ p \in Procs
      /\ proc \in [Procs -> Tasks] /\ proc[p] \in Tasks
  BY CountTypes DEF Wait, dinitVars, Base, TypeOK
<1>2. applied[p] = 1 /\ proc[p].result = "none" /\ applied[p] <= 1 /\ proc[p].phase # "initial"
  <2>1. Told(proc[p])
    BY <1>1 DEF Told
  <2>2. applied[p] = 1
    BY <2>1 DEF OnceFor, OnceAs
  <2>3. proc[p].phase # "initial"
    BY <2>2 DEF OnceFor, OnceAs, Unasked
  <2> QED
    BY <1>1, <2>2, <2>3 DEF OnceFor, OnceAs
<1>3. ASSUME NEW r \in {"ok", "error"}, proc'[p] = [proc[p] EXCEPT !.pc = "end", !.result = r]
      PROVE  proc'[p].pc = "end" /\ proc'[p].phase # "initial"
  BY <1>1, <1>2, <1>3 DEF Tasks
<1>4. ASSUME proc'[p] = [proc[p] EXCEPT !.pc = "lock", !.phase = "poll", !.todo = Steps("status")]
      PROVE  proc'[p].pc = "lock" /\ proc'[p].phase = "poll" /\ proc'[p].result = "none"
  BY <1>1, <1>2, <1>4 DEF Tasks
<1>5. \/ \E r \in {"ok", "error"} : proc'[p] = [proc[p] EXCEPT !.pc = "end", !.result = r]
      \/ proc'[p] = [proc[p] EXCEPT !.pc = "lock", !.phase = "poll", !.todo = Steps("status")]
  BY <1>1, WaitCases, ZenonT(40) DEF Reached
<1>6. \/ proc'[p].pc = "end" /\ proc'[p].phase # "initial"
      \/ proc'[p].pc = "lock" /\ proc'[p].phase = "poll" /\ proc'[p].result = "none"
  BY <1>3, <1>4, <1>5, Zenon
<1>7. ~Unasked(proc'[p], conn'[Conn(p)].sent)
  BY <1>6 DEF Unasked
<1>8. OnceAs(p, proc'[p], conn'[Conn(p)].sent, applied[p])
  BY <1>2, <1>6, <1>7 DEF OnceAs
<1> QED
  BY <1>1, <1>8, MovedOnce

\* Only the request that is waited for is executed, and by nobody twice.
LEMMA ServeOnce ==
  ASSUME Base, Base', FlowSound, NEW c \in Conns, Serve(c), OnceSound
  PROVE  /\ \A p \in Callers : OnceFor(p)' /\ (applied[p] = 1 => applied'[p] = 1)
         /\ AnsweredFor(c)'
<1>0. holder' = holder /\ proc' = proc /\ UNCHANGED rigid
  BY DEF Serve
<1>1. PICK m : m = Head(conn[c].sent)
  OBVIOUS
<1>2. PICK answer \in Answers(c, m.kind) : Served(c, m, answer)
  BY <1>1, ServeFacts
<1>3. m \in Asks /\ m.kind \in Kinds /\ m.from \in Procs /\ m.from # "nobody"
  BY <1>2, DinitAssumption DEF Served, Asks
<1> DEFINE o == m.from
<1>4. holder[c] = o /\ proc[o].pc = "await" /\ Head(proc[o].todo) = m.kind /\ Conn(o) = c
  BY <1>2, <1>3 DEF Served, Awaited, Base, LockSound
<1>5. \A r \in Replies : Carried(conn[c], r)' => r.from = o /\ r.kind = m.kind /\ (r.answer = "ok" => answer = "ok")
  BY <1>2 DEF Served, Carried
<1>6. ASSUME NEW p \in Callers, applied'[p] = applied[p]
      PROVE  OnceFor(p)'
  <2>1. Conn(p) \in Conns /\ OnceFor(p) /\ p \in Procs
    BY CountTypes DEF Base, OnceSound
  <2>2. conn'[Conn(p)].sent = conn[Conn(p)].sent \/ conn'[Conn(p)].sent = <<>>
    <3>1. CASE Conn(p) = c
      BY <1>2, <3>1 DEF Served
    <3>2. CASE Conn(p) # c
      BY <2>1, <3>2 DEF Serve, Base, TypeOK
    <3> QED
      BY <3>1, <3>2
  <2> QED
    BY <1>0, <1>6, <2>1, <2>2, SameOnce
<1>7. CASE answer = "ok" /\ m.kind \notin {"find", "load", "status"}
  <2>1. o \in Callers
    <3>1. o = Observer => m.kind \in {"list", "find", "status"}
      BY <1>3, <1>4, AtStep
    <3>2. m.kind # "list"
      BY <1>7 DEF Answers
    <3> QED
      BY <1>3, <1>7, <3>1, <3>2 DEF Procs
  <2>2. OnceFor(o) /\ proc[o].phase = "change"
    BY <1>4, <1>7, <2>1, CallerStep DEF OnceSound
  <2>3. applied[o] = 0 /\ proc[o].result = "none"
    <3>1. Unasked(proc[o], conn[Conn(o)].sent)
      BY <1>2, <1>4, <1>7, <2>2 DEF Unasked, Served
    <3> QED
      BY <1>4, <2>2, <3>1 DEF OnceFor, OnceAs
  <2>4. applied' = [applied EXCEPT ![o] = @ + 1] /\ applied \in [Callers -> Nat]
    BY <1>2, <1>7 DEF Served, Base, TypeOK
  <2>5. applied'[o] = 1 /\ \A p \in Callers : p # o => applied'[p] = applied[p]
    BY <2>1, <2>3, <2>4
  <2>6. OnceFor(o)'
    <3>1. Conn(o)' = Conn(o) /\ request' = request
      BY <1>0 DEF Conn, rigid
    <3>2. ~Unasked(proc[o], conn'[Conn(o)].sent)
      BY <1>2, <1>4, <1>7, <2>2 DEF Unasked, Served
    <3>3. OnceAs(o, proc[o], conn'[Conn(o)].sent, applied'[o])
      BY <1>4, <2>3, <2>5, <3>2 DEF OnceAs
    <3> QED
      BY <1>0, <3>1, <3>3 DEF OnceFor, OnceAs, Unasked, Told
  <2>7. \A p \in Callers : OnceFor(p)' /\ (applied[p] = 1 => applied'[p] = 1)
    BY <1>6, <2>5, <2>6
  <2>8. AnsweredFor(c)'
    BY <1>5, <2>5 DEF AnsweredFor
  <2> QED
    BY <2>7, <2>8
<1>8. CASE ~(answer = "ok" /\ m.kind \notin {"find", "load", "status"})
  <2>1. applied' = applied
    BY <1>2, <1>8 DEF Served
  <2>2. AnsweredFor(c)'
    BY <1>5, <1>8 DEF AnsweredFor
  <2> QED
    BY <1>6, <2>1, <2>2
<1> QED
  BY <1>7, <1>8

\* A caller that is not the one to move, nor answered.
LEMMA IdleOnce ==
  ASSUME Base, NEW p \in Callers, OnceFor(p), UNCHANGED rigid, applied' = applied, proc'[p] = proc[p],
         proc[p].pc = "await" =>
           conn'[Conn(p)].sent = conn[Conn(p)].sent \/ conn'[Conn(p)].sent = <<>>
  PROVE  OnceFor(p)'
BY SameOnce

\* Who reports a change is a caller.
LEMMA AnsweredCallers ==
  ASSUME Base, FlowSound, NEW c \in Conns, NEW m \in Replies, Live(c), Carried(conn[c], m),
         m.kind \notin {"find", "load", "status"}, m.answer = "ok"
  PROVE  m.from \in Callers
<1>1. Awaited(c, m) /\ m.kind # "list" /\ m.from \in Procs
  BY DEF FlowSound, FlowFor, Replies
<1>2. proc[m.from].pc = "await" /\ Head(proc[m.from].todo) = m.kind
  BY <1>1 DEF Awaited
<1>3. m.from # Observer
  BY <1>1, <1>2, AtStep
<1> QED
  BY <1>1, <1>3 DEF Procs

LEMMA LinkStepOnce ==
  ASSUME Base, Base', FlowSound, OnceSound, LinkStep, NEW p \in Callers
  PROVE  OnceFor(p)' /\ (applied[p] = 1 => applied'[p] = 1)
<1>0. /\ conn \in [Conns -> Links] /\ holder' = holder /\ proc' = proc /\ UNCHANGED rigid
      /\ OnceFor(p) /\ Conn(p) \in Conns
  BY CountTypes DEF Base, TypeOK, OnceSound, LinkStep, Progress, ServiceEnds, Serve, ReadLoop, Break, AfterFunc
<1>1. CASE \E c \in Conns : Serve(c)
  BY <1>1, ServeOnce
<1>2. ASSUME applied' = applied, conn'[Conn(p)].sent = conn[Conn(p)].sent \/ conn'[Conn(p)].sent = <<>>
      PROVE  OnceFor(p)' /\ (applied[p] = 1 => applied'[p] = 1)
  BY <1>0, <1>2, IdleOnce
<1>3. CASE Progress \/ ServiceEnds
  <2>1. (\E s : Becomes(s)) /\ applied' = applied
    BY <1>3 DEF Progress, ServiceEnds
  <2> QED
    BY <1>0, <1>2, <2>1, BecomesFlow
<1>4. ASSUME NEW c \in Conns, ReadLoop(c) \/ Break(c) \/ AfterFunc(c)
      PROVE  OnceFor(p)' /\ (applied[p] = 1 => applied'[p] = 1)
  <2>1. applied' = applied
    BY <1>4 DEF ReadLoop, Break, AfterFunc, dinitVars
  <2>2. CASE c # Conn(p)
    <3>1. conn'[Conn(p)] = conn[Conn(p)]
      BY <1>0, <1>4, <2>2 DEF ReadLoop, Break, AfterFunc
    <3> QED
      BY <1>2, <2>1, <3>1
  <2>3. CASE c = Conn(p) /\ ReadLoop(c)
    BY <1>0, <1>2, <2>1, <2>3, ReadLoopFlow
  <2>4. CASE c = Conn(p) /\ (Break(c) \/ AfterFunc(c))
    <3>1. conn'[c] = Failed(conn[c])
      BY <1>0, <2>4 DEF Break, AfterFunc
    <3> QED
      BY <1>0, <1>2, <2>1, <2>4, <3>1, FailFlow
  <2> QED
    BY <1>4, <2>2, <2>3, <2>4
<1> QED
  BY <1>1, <1>3, <1>4 DEF LinkStep

LEMMA StepOnce ==
  ASSUME Base, FlowSound, OnceSound, NEW o \in Procs, Step(o), NEW p \in Callers
  PROVE  OnceFor(p)' /\ (applied[p] = 1 => applied'[p] = 1)
<1>1. OnceFor(p) /\ p \in Procs /\ Conn(p) \in Conns /\ AnsweredFor(Conn(p))
  BY CountTypes DEF OnceSound, Base
<1>2. applied' = applied /\ UNCHANGED rigid
  BY StepFrame DEF rigid
<1>3. CASE p = o
  BY <1>1, <1>2, <1>3, AcquireOnce, SendOnce, ReceiveOnce, AwaitFailsOnce DEF Step
<1>4. CASE p # o
  <2>1. proc'[p] = proc[p]
    BY <1>1, <1>4, StepFrame
  <2>2. proc[p].pc = "await" => conn'[Conn(p)] = conn[Conn(p)]
    <3>1. proc[p].pc = "await" => holder[Conn(p)] = p
      BY <1>1 DEF Base, LockSound, Held
    <3>2. holder[Conn(o)] \in {"nobody", o} \/ Conn(o) \notin Conns
      BY DEF Step, Acquire, Send, Receive, AwaitFails, Base, LockSound, Held
    <3>3. p # "nobody"
      BY <1>1, DinitAssumption
    <3> QED
      BY <1>1, <1>4, <3>1, <3>2, <3>3, StepFrame
  <2> QED
    BY <1>1, <1>2, <2>1, <2>2, IdleOnce
<1> QED
  BY <1>3, <1>4

LEMMA OnceNext ==
  ASSUME Base, Base', FlowSound, FlowSound', OnceSound, [Next]_vars
  PROVE  OnceSound'
<1>1. \A p \in Callers : OnceFor(p)' /\ (applied[p] = 1 => applied'[p] = 1)
  <2> SUFFICES ASSUME NEW p \in Callers PROVE OnceFor(p)' /\ (applied[p] = 1 => applied'[p] = 1)
    OBVIOUS
  <2>0. /\ OnceFor(p) /\ p \in Procs /\ Conn(p) \in Conns
        /\ conn \in [Conns -> Links] /\ proc \in [Procs -> Tasks]
    BY CountTypes DEF OnceSound, Base, TypeOK
  <2>1. CASE LinkStep
    BY <2>1, LinkStepOnce
  <2>2. CASE \E o \in Procs : Step(o)
    BY <2>2, StepOnce
  <2>3. ASSUME NEW o \in Callers, Execute(o) \/ Wait(o)
        PROVE  OnceFor(p)' /\ (applied[p] = 1 => applied'[p] = 1)
    <3>1. applied' = applied /\ UNCHANGED rigid /\ conn' = conn
      BY <2>3 DEF Execute, Wait, dinitVars
    <3>2. CASE p = o
      BY <2>0, <2>3, <3>1, <3>2, ExecuteOnce, WaitOnce
    <3>3. CASE p # o
      <4>1. proc'[p] = proc[p]
        BY <2>0, <2>3, <3>3 DEF Execute, Wait
      <4> QED
        BY <2>0, <3>1, <4>1, IdleOnce
    <3> QED
      BY <3>2, <3>3
  <2>4. ASSUME NEW o \in Procs, ContextEnds(o)
        PROVE  OnceFor(p)' /\ (applied[p] = 1 => applied'[p] = 1)
    <3>1. applied' = applied /\ UNCHANGED rigid
      BY <2>4 DEF ContextEnds, dinitVars
    <3>2. proc'[p] = proc[p] \/ proc'[p] = [proc[p] EXCEPT !.ended = TRUE]
      BY <2>0, <2>4 DEF ContextEnds
    <3>3. /\ proc'[p].pc = proc[p].pc /\ proc'[p].phase = proc[p].phase
          /\ proc'[p].todo = proc[p].todo /\ proc'[p].result = proc[p].result
      BY <2>0, <3>2 DEF Tasks
    <3>4. Same(Conn(p))
      BY <2>0, <2>4, OutsideFlow
    <3> QED
      BY <2>0, <3>1, <3>3, <3>4, SameOnce DEF Same
  <2>5. CASE ObserveClose \/ ObserveAgain
    <3>1. applied' = applied /\ UNCHANGED rigid
      BY <2>5 DEF ObserveClose, ObserveAgain, dinitVars
    <3>2. proc'[p] = proc[p]
      BY <2>0, <2>5, CountTypes DEF ObserveClose, ObserveAgain, Base
    <3>3. conn'[Conn(p)].sent = conn[Conn(p)].sent \/ conn'[Conn(p)].sent = <<>>
      <4>1. CASE ObserveClose
        BY <2>0, <4>1, FreshFacts DEF ObserveClose
      <4>2. CASE ObserveAgain
        BY <2>0, <4>2, OutsideFlow DEF Same
      <4> QED
        BY <2>5, <4>1, <4>2
    <3> QED
      BY <2>0, <3>1, <3>2, <3>3, IdleOnce
  <2>6. CASE UNCHANGED vars
    <3>1. applied' = applied /\ UNCHANGED rigid /\ proc' = proc /\ conn' = conn
      BY <2>6 DEF vars, dinitVars
    <3> QED
      BY <2>0, <3>1, IdleOnce
  <2> QED
    BY <2>1, <2>2, <2>3, <2>4, <2>5, <2>6 DEF Next, LinkStep
<1>2. ASSUME NEW c \in Conns, NoNews(c)
      PROVE  AnsweredFor(c)'
  <2> SUFFICES ASSUME NEW m \in Replies, (Live(c) /\ Carried(conn[c], m))',
                      m.kind \notin {"find", "load", "status"}, m.answer = "ok"
               PROVE  applied'[m.from] = 1
    BY DEF AnsweredFor
  <2>1. Live(c) /\ Carried(conn[c], m)
    BY <1>2 DEF NoNews
  <2>2. applied[m.from] = 1
    BY <2>1 DEF OnceSound, AnsweredFor
  <2>3. m.from \in Callers
    BY <2>1, AnsweredCallers
  <2> QED
    BY <1>1, <2>2, <2>3
<1>3. \A c \in Conns : AnsweredFor(c)'
  BY <1>2, FlowNext, ServeOnce
<1> QED
  BY <1>1, <1>3 DEF OnceSound

LEMMA OnceInit == Init => OnceSound
<1> SUFFICES ASSUME Init PROVE OnceSound
  OBVIOUS
<1>0. Base /\ FlowSound
  BY BaseInit, FlowInit
<1>1. ASSUME NEW p \in Callers PROVE OnceFor(p)
  <2>1. proc[p] = Idle /\ applied[p] = 0
    <3>1. p \in Procs /\ p # Observer
      BY <1>0, CountTypes DEF Base
    <3> QED
      BY <3>1 DEF Init
  <2>2. proc[p].pc = "idle" /\ proc[p].result = "none"
    BY <2>1 DEF Idle
  <2>3. ~Told(proc[p])
    BY <2>2 DEF Told
  <2> QED
    BY <2>1, <2>2, <2>3 DEF OnceFor, OnceAs
<1>2. ASSUME NEW c \in Conns PROVE AnsweredFor(c)
  <2>1. conn[c] = Fresh
    BY DEF Init
  <2> QED
    BY <2>1, FreshFacts DEF AnsweredFor, Quiet
<1> QED
  BY <1>1, <1>2 DEF OnceSound

-----------------------------------------------------------------------------
(* RestartSound. *)

LEMMA PidNext ==
  ASSUME Base, Base', PidSound, [Next]_vars
  PROVE  PidSound' /\ pids' >= pids /\ pids \in Nat /\ pids' \in Nat
<1>1. svc \in Services /\ pids \in Nat /\ svc' \in Services /\ pids' \in Nat
  BY DEF Base, TypeOK
<1>2. svc.pid \in Nat
  BY <1>1 DEF Services
<1>3. ASSUME pids' = pids, svc'.pid = svc.pid, svc'.state = "started" => svc.state = "started"
      PROVE  PidSound' /\ pids' >= pids
  BY <1>1, <1>2, <1>3 DEF PidSound
<1>4. CASE Progress
  <2>1. CASE Becomes([svc EXCEPT !.state = "started", !.pid = pids + 1]) /\ pids' = pids + 1
    <3>1. svc'.pid = pids + 1
      BY <1>1, <2>1 DEF Becomes, Services
    <3> QED
      BY <1>1, <2>1, <3>1 DEF PidSound
  <2>2. CASE Becomes([svc EXCEPT !.state = "stopped", !.target = "stopped"]) /\ pids' = pids
    <3>1. svc'.pid = svc.pid /\ svc'.state = "stopped"
      BY <1>1, <2>2 DEF Becomes, Services
    <3> QED
      BY <1>1, <1>3, <2>2, <3>1
  <2>3. CASE Becomes([svc EXCEPT !.state = "stopping"]) /\ pids' = pids
    <3>1. svc'.pid = svc.pid /\ svc'.state = "stopping"
      BY <1>1, <2>3 DEF Becomes, Services
    <3> QED
      BY <1>1, <1>3, <2>3, <3>1
  <2>4. CASE Becomes([svc EXCEPT !.state = IF svc.again THEN "starting" ELSE "stopped",
                                 !.target = IF svc.again THEN "started" ELSE "stopped",
                                 !.pid = 0, !.again = FALSE]) /\ pids' = pids
    <3>1. svc'.pid = 0 /\ svc'.state # "started"
      BY <1>1, <2>4 DEF Becomes, Services
    <3> QED
      BY <1>1, <2>4, <3>1 DEF PidSound
  <2> QED
    BY <1>4, <2>1, <2>2, <2>3, <2>4 DEF Progress
<1>5. CASE ServiceEnds
  <2>1. pids' = pids /\ svc'.pid = 0 /\ svc'.state = "stopped"
    BY <1>1, <1>5 DEF ServiceEnds, Becomes, Services
  <2> QED
    BY <1>1, <2>1 DEF PidSound
<1>6. ASSUME NEW c \in Conns, Serve(c) PROVE PidSound' /\ pids' >= pids
  <2>1. pids' = pids
    BY <1>6 DEF Serve
  <2>2. PICK kind : svc' = svc \/ svc' = After(kind)
    BY <1>6 DEF Serve
  <2>3. After(kind).pid = svc.pid /\ (After(kind).state = "started" => svc.state = "started")
    BY <1>1 DEF After, Services
  <2> QED
    BY <1>3, <2>1, <2>2, <2>3
<1>7. CASE UNCHANGED <<svc, pids>>
  BY <1>1, <1>3, <1>7
<1>8. ASSUME NEW c \in Conns, ReadLoop(c) \/ Break(c) \/ AfterFunc(c) PROVE UNCHANGED <<svc, pids>>
  BY <1>8 DEF ReadLoop, Break, AfterFunc, dinitVars
<1>9. ASSUME NEW p \in Procs, ContextEnds(p) PROVE UNCHANGED <<svc, pids>>
  BY <1>9 DEF ContextEnds, dinitVars
<1>10. ASSUME NEW p \in Procs, Step(p) PROVE UNCHANGED <<svc, pids>>
  BY <1>10, StepFrame
<1>11. ASSUME NEW p \in Callers, Execute(p) \/ Wait(p) PROVE UNCHANGED <<svc, pids>>
  BY <1>11 DEF Execute, Wait, dinitVars
<1>12. ASSUME ObserveClose \/ ObserveAgain \/ UNCHANGED vars PROVE UNCHANGED <<svc, pids>>
  BY <1>12 DEF ObserveClose, ObserveAgain, vars, dinitVars
<1>13. PidSound' /\ pids' >= pids
  BY <1>4, <1>5, <1>6, <1>7, <1>8, <1>9, <1>10, <1>11, <1>12 DEF Next
<1> QED
  BY <1>1, <1>13

\* What was no older stays so.
LEMMA NotBeforeKept ==
  ASSUME pids \in Nat, pids' \in Nat, pids' >= pids, NEW s, NEW n, NotBefore(s, n)
  PROVE  /\ s \in Services /\ s.pid <= pids'
         /\ s.state = "started" => s.pid >= n /\ s.pid >= 1
<1>1. s \in Services /\ s.pid \in Nat
  BY DEF NotBefore, Services
<1> QED
  BY <1>1 DEF NotBefore

\* A task that has seen nothing new and does not wait, or report, as it did not before.
LEMMA KeptRestart ==
  ASSUME NEW p \in Callers, RestartFor(p), UNCHANGED rigid,
         pids \in Nat, pids' \in Nat, pids' >= pids, proc[p] \in Tasks,
         proc'[p].initial = proc[p].initial, proc'[p].seen = proc[p].seen,
         proc'[p].pc = "wait" => proc[p].pc = "wait",
         proc'[p].result = "ok" => proc[p].result = "ok"
  PROVE  RestartFor(p)'
<1>1. request' = request
  BY DEF rigid
<1>2. Restarted(p)' => Restarted(p)
  BY <1>1 DEF Restarted, Waits
<1>3. proc'[p].initial <= pids'
  <2>1. proc[p].initial \in Int /\ proc[p].initial <= pids
    BY DEF Tasks, RestartFor
  <2> QED
    BY <2>1
<1>4. proc'[p].pc = "wait" \/ Restarted(p)' => NotBefore(proc[p].seen, proc[p].initial)
  BY <1>2 DEF RestartFor
<1>5. NotBefore(proc[p].seen, proc[p].initial) => NotBefore(proc[p].seen, proc[p].initial)'
  BY NotBeforeKept DEF NotBefore
<1>6. Reached(p)' <=> Reached(p)
  BY <1>1 DEF Reached, Target
<1>7. Restarted(p)' => Reached(p)'
  BY <1>2, <1>6 DEF RestartFor
<1> QED
  BY <1>3, <1>4, <1>5, <1>7 DEF RestartFor

\* A task that neither waits nor reports a restart.
LEMMA FreeRestart ==
  ASSUME NEW p \in Callers, UNCHANGED rigid,
         proc'[p].initial <= pids', proc'[p].pc # "wait",
         proc'[p].result = "ok" => ~(request[p].act = "restart" /\ Waits(request[p]))
  PROVE  RestartFor(p)'
<1>1. ~Restarted(p)'
  BY DEF rigid, Restarted, Waits
<1> QED
  BY <1>1 DEF RestartFor

LEMMA ErrorRestart ==
  ASSUME Base, Base', NEW p \in Callers, OnceFor(p), RestartFor(p), UNCHANGED rigid, pids' = pids, PidSound,
         proc[p].pc \in {"lock", "send", "await"}, NEW missing, proc'[p] = OnError(p, proc[p], missing)
  PROVE  RestartFor(p)'
<1>1. proc[p] \in Tasks /\ proc[p].phase \in {"initial", "change", "poll"} /\ proc[p].result = "none"
  BY CallerStep, AtOnce
<1>2. pids \in Nat /\ proc[p].initial <= pids
  BY DEF Base, TypeOK, RestartFor
<1>3. CASE proc[p].phase = "initial"
  <2>1. proc'[p].pc = "lock" /\ proc'[p].initial = -1 /\ proc'[p].result = "none"
    BY <1>1, <1>3, ErrorFacts
  <2>2. -1 <= pids'
    BY <1>2
  <2> QED
    BY <2>1, <2>2, FreeRestart
<1>4. CASE proc[p].phase \in {"change", "poll"}
  <2>1. proc'[p].pc = "end" /\ proc'[p].initial = proc[p].initial
    BY <1>1, <1>4, ErrorFacts
  <2>2. proc'[p].result = "ok" => request[p].ignore
    BY <1>1, <1>4, ErrorIgnored
  <2>3. request[p].ignore => request[p].act # "restart"
    BY RequestFacts DEF Base
  <2> QED
    BY <1>2, <2>1, <2>2, <2>3, FreeRestart
<1> QED
  BY <1>1, <1>3, <1>4

LEMMA ReceiveRestart ==
  ASSUME Base, Base', FlowSound, NEW p \in Callers, OnceFor(p), RestartFor(p), PidSound,
         ReportsFor(Conn(p)), Receive(p)
  PROVE  RestartFor(p)'
<1>1. /\ proc[p].pc = "await" /\ UNCHANGED rigid /\ pids' = pids /\ p \in Procs /\ p # Observer
      /\ Conn(p) \in Conns /\ proc[p] \in Tasks /\ pids \in Nat
  BY CountTypes DEF Receive, dinitVars, Base, TypeOK
<1>2. PICK c \in Conns : c = Conn(p)
  BY <1>1
<1>3. PICK m \in Replies :
        /\ m = Head(conn[c].replies) /\ Live(c) /\ Carried(conn[c], m)
        /\ m.kind = Head(proc[p].todo) /\ m.from = p
        /\ m.answer \in {"row", "end"} <=> m.kind = "list"
  BY <1>1, <1>2, ReceiveReply
<1>4. PICK k \in Kinds : k = Head(proc[p].todo)
  BY <1>1, CallerStep
<1>5. PICK u : u = Tail(proc[p].todo)
  OBVIOUS
<1>6. /\ proc[p].phase \in {"initial", "change", "poll"}
      /\ k # "list"
      /\ k \in {"find", "load"} => u # <<>>
      /\ proc[p].phase # "change" => k \in {"find", "status"}
      /\ proc[p].phase = "change" =>
           /\ k \in {"find", "load", "status", request[p].act}
           /\ k = request[p].act /\ request[p].act \in {"start", "stop", "restart"} => u # <<>>
  BY <1>1, <1>4, <1>5, CallerStep
<1>7. m.answer \in {"ok", "missing", "rejected"} /\ m.svc \in Services
  BY <1>3, <1>4, <1>6 DEF Replies
<1>8. PICK n \in Tasks : Received(p, c, m, k, n)
  BY <1>1, <1>2, <1>3, <1>4, ReceiveCases
<1>9. /\ n.phase = proc[p].phase /\ n.result = proc[p].result /\ n.initial = proc[p].initial
      /\ n.pc = "send" /\ n.todo = u /\ (k = "status" => n.seen = m.svc)
  BY <1>1, <1>5, <1>7, <1>8 DEF Received
<1>10. proc[p].result = "none" /\ proc[p].initial <= pids
  BY <1>1, AtOnce DEF RestartFor
<1>11. NotBefore(m.svc, proc[p].initial)
  BY <1>2, <1>3 DEF ReportsFor
<1>12. CASE proc'[p] = OnError(p, proc[p], m.answer = "missing")
  BY <1>1, <1>12, ErrorRestart
<1>13. CASE proc'[p] = n
  BY <1>1, <1>9, <1>10, <1>13, FreeRestart
<1>14. CASE n.todo = <<>> /\ proc'[p] = OnSuccess(p, n, m.svc)
  <2>1. CASE n.phase = "initial"
    <3>1. proc'[p].pc = "lock" /\ proc'[p].initial = m.svc.pid /\ proc'[p].result = "none"
      BY <1>7, <1>9, <1>10, <1>14, <2>1, SuccessFacts
    <3>2. m.svc.pid <= pids'
      BY <1>1, <1>11 DEF NotBefore
    <3> QED
      BY <1>1, <3>1, <3>2, FreeRestart
  <2>2. CASE n.phase \in {"change", "poll"}
    <3>1. /\ proc'[p].seen = n.seen /\ proc'[p].initial = proc[p].initial
          /\ (proc'[p].pc = "wait" /\ proc'[p].result = "none") \/ proc'[p].pc = "end"
      BY <1>7, <1>9, <1>10, <1>14, <2>2, SuccessFacts
    <3>2. proc'[p].pc = "wait" <=> Waits(request[p])
      <4>1. OnSuccess(p, n, m.svc).pc = "wait" <=> Waits(request[p])
        BY <2>2, SuccessWaits, Zenon
      <4> QED
        BY <1>14, <4>1, Zenon
    <3>3. CASE proc'[p].pc = "wait"
      <4>1. request[p].act \in {"start", "stop", "restart"}
        BY <3>2, <3>3 DEF Waits
      <4>2. k = "status"
        BY <1>6, <1>9, <1>14, <2>2, <4>1
      <4>3. NotBefore(proc'[p].seen, proc'[p].initial)
        BY <1>9, <1>11, <3>1, <4>2
      <4>4. ~Restarted(p)'
        BY <3>1, <3>3 DEF Restarted
      <4> QED
        BY <1>1, <1>10, <3>1, <4>3, <4>4 DEF RestartFor, NotBefore
    <3>4. CASE proc'[p].pc = "end"
      BY <1>1, <1>10, <3>1, <3>2, <3>4, FreeRestart
    <3> QED
      BY <3>1, <3>3, <3>4
  <2> QED
    BY <1>6, <1>9, <2>1, <2>2
<1> QED
  BY <1>8, <1>12, <1>13, <1>14 DEF Received

\* While p awaits a reply, the process it found initially is settled.
LEMMA InitialKept ==
  ASSUME Base, NEW p \in Callers, [Next]_vars, proc'[p].pc = "await"
  PROVE  proc'[p].initial = proc[p].initial
<1>1. proc \in [Procs -> Tasks] /\ p \in Procs /\ p # Observer /\ proc[p] \in Tasks
  BY CountTypes DEF Base, TypeOK
<1>2. CASE proc'[p] = proc[p]
  BY <1>2
<1>3. ASSUME NEW o \in Procs, Step(o), o # p PROVE proc'[p] = proc[p]
  BY <1>1, <1>3, StepFrame
<1>4. ASSUME proc[p].pc \in {"lock", "send", "await"}, NEW missing, proc'[p] = OnError(p, proc[p], missing)
      PROVE  FALSE
  BY <1>1, <1>4, ErrorTask
<1>5. CASE Acquire(p)
  <2>1. proc[p].pc = "lock" /\ (proc'[p] = [proc[p] EXCEPT !.pc = "send"] \/ proc'[p] = OnError(p, proc[p], FALSE))
    BY <1>1, <1>5 DEF Acquire
  <2> QED
    BY <1>1, <1>4, <2>1 DEF Tasks
<1>6. CASE Send(p)
  <2>1. /\ proc[p].pc = "send"
        /\ \/ \E t : proc'[p] = [proc[p] EXCEPT !.todo = t]
           \/ proc'[p] = [proc[p] EXCEPT !.pc = "await"] \/ proc'[p] = OnError(p, proc[p], FALSE)
    BY <1>1, <1>6 DEF Send
  <2> QED
    BY <1>1, <1>4, <2>1 DEF Tasks
<1>7. CASE Receive(p)
  <2>1. proc[p].pc = "await" /\ Conn(p) \in Conns /\ conn[Conn(p)] \in Links /\ conn[Conn(p)].replies # <<>>
    BY <1>1, <1>7, CountTypes DEF Receive, Base, TypeOK
  <2>2. PICK c \in Conns : c = Conn(p)
    BY <2>1
  <2>3. PICK m \in Replies : m = Head(conn[c].replies) /\ m.svc \in Services
    BY <2>1, <2>2, NextReply
  <2>4. PICK k : k = Head(proc[p].todo)
    OBVIOUS
  <2>5. PICK n \in Tasks : Received(p, c, m, k, n)
    BY <1>1, <1>7, <2>2, <2>3, <2>4, ReceiveCases
  <2>6. n.phase = proc[p].phase /\ n.initial = proc[p].initial
    BY <2>5 DEF Received
  <2>7. CASE proc'[p] = n
    BY <2>6, <2>7
  <2>8. CASE proc'[p] = OnError(p, proc[p], m.answer = "missing")
    BY <1>4, <2>1, <2>8
  <2>9. CASE proc'[p] = OnSuccess(p, n, m.svc)
    BY <1>1, <2>1, <2>3, <2>6, <2>9, SuccessTask
  <2> QED
    BY <2>5, <2>7, <2>8, <2>9 DEF Received
<1>8. CASE AwaitFails(p)
  <2>1. proc[p].pc = "await" /\ proc'[p] = OnError(p, proc[p], FALSE)
    BY <1>1, <1>8 DEF AwaitFails
  <2> QED
    BY <1>4, <2>1
<1>9. ASSUME NEW o \in Callers, Execute(o) \/ Wait(o)
      PROVE  proc'[p].initial = proc[p].initial
  <2>1. CASE o # p
    BY <1>1, <1>9, <2>1 DEF Execute, Wait
  <2>2. CASE o = p /\ Execute(p)
    <3>1. PICK phase, todo : proc'[p] = [proc[p] EXCEPT !.pc = "lock", !.phase = phase, !.todo = todo]
      BY <1>1, <2>2 DEF Execute
    <3> QED
      BY <1>1, <3>1 DEF Tasks
  <2>3. CASE o = p /\ Wait(p)
    <3>1. \A e : proc' = [proc EXCEPT ![p] = e] => proc'[p] = e
      BY <1>1
    <3>2. \/ proc'[p] = [proc[p] EXCEPT !.pc = "end", !.result = "ok"]
          \/ proc'[p] = [proc[p] EXCEPT !.pc = "end", !.result = "error"]
          \/ proc'[p] = [proc[p] EXCEPT !.pc = "lock", !.phase = "poll", !.todo = Steps("status")]
      <4> HIDE DEF Reached
      <4> QED
        BY <2>3, <3>1, WaitCases, Zenon
    <3> QED
      BY <1>1, <3>2 DEF Tasks
  <2> QED
    BY <1>9, <2>1, <2>2, <2>3
<1>10. ASSUME NEW o \in Procs, ContextEnds(o) PROVE proc'[p].initial = proc[p].initial
  <2>1. proc'[p] = proc[p] \/ proc'[p] = [proc[p] EXCEPT !.ended = TRUE]
    BY <1>1, <1>10 DEF ContextEnds
  <2> QED
    BY <1>1, <2>1 DEF Tasks
<1>11. CASE ObserveClose \/ ObserveAgain
  BY <1>1, <1>11 DEF ObserveClose, ObserveAgain
<1>12. CASE LinkStep
  BY <1>12 DEF LinkStep, Progress, ServiceEnds, Serve, ReadLoop, Break, AfterFunc
<1>13. CASE UNCHANGED vars
  BY <1>13 DEF vars
<1>14. ASSUME NEW o \in Procs, Step(o) PROVE proc'[p].initial = proc[p].initial
  BY <1>3, <1>5, <1>6, <1>7, <1>8, <1>14 DEF Step
<1> QED
  BY <1>9, <1>10, <1>11, <1>12, <1>13, <1>14 DEF Next, LinkStep

LEMMA ReportsNext ==
  ASSUME Base, Base', FlowSound, FlowSound', RestartSound, [Next]_vars, NEW c \in Conns
  PROVE  ReportsFor(c)'
<1>1. pids \in Nat /\ pids' \in Nat /\ pids' >= pids
  BY PidNext DEF RestartSound
<1> SUFFICES ASSUME NEW m \in Replies, (Live(c) /\ Carried(conn[c], m))', m.from \in Callers
             PROVE  /\ m.svc \in Services /\ m.svc.pid <= pids'
                    /\ m.svc.state = "started" => m.svc.pid >= proc'[m.from].initial /\ m.svc.pid >= 1
  BY DEF ReportsFor, NotBefore
<1> DEFINE p == m.from
<1>2. p \in Procs /\ p # "nobody" /\ proc[p] \in Tasks /\ RestartFor(p)
  BY CountTypes, DinitAssumption DEF Base, RestartSound
<1>3. proc'[p].pc = "await"
  BY <1>2 DEF FlowSound, FlowFor, Awaited
<1>4. proc'[p].initial = proc[p].initial
  BY <1>3, InitialKept
<1>5. NotBefore(m.svc, proc[p].initial)
  <2>1. CASE NoNews(c)
    BY <2>1 DEF NoNews, RestartSound, ReportsFor
  <2>2. CASE Serve(c)
    <3>1. PICK h : h = Head(conn[c].sent)
      OBVIOUS
    <3>2. PICK answer \in Answers(c, h.kind) : Served(c, h, answer)
      BY <2>2, <3>1, ServeFacts
    <3>3. m.svc = svc
      BY <3>2 DEF Served, Carried
    <3>4. svc \in Services /\ svc.pid \in Nat /\ proc[p].initial \in Int /\ proc[p].initial <= pids
      BY <1>2 DEF Base, TypeOK, Services, Tasks, RestartFor
    <3> QED
      BY <1>1, <3>3, <3>4 DEF NotBefore, RestartSound, PidSound
  <2> QED
    BY <2>1, <2>2, FlowNext
<1>6. /\ m.svc \in Services /\ m.svc.pid <= pids'
      /\ m.svc.state = "started" => m.svc.pid >= proc[p].initial /\ m.svc.pid >= 1
  BY <1>1, <1>5, NotBeforeKept
<1> QED
  BY <1>4, <1>6

LEMMA StepRestart ==
  ASSUME Base, Base', FlowSound, OnceSound, RestartSound, NEW p \in Callers, Step(p)
  PROVE  RestartFor(p)'
<1>1. /\ OnceFor(p) /\ RestartFor(p) /\ PidSound /\ p \in Procs /\ proc[p] \in Tasks /\ proc \in [Procs -> Tasks]
      /\ Conn(p) \in Conns /\ ReportsFor(Conn(p)) /\ pids \in Nat
  BY CountTypes DEF OnceSound, RestartSound, Base, TypeOK
<1>2. UNCHANGED rigid /\ pids' = pids /\ pids' \in Nat /\ pids' >= pids
  BY <1>1, StepFrame DEF rigid
<1>3. ASSUME proc[p].pc \in {"lock", "send", "await"}, proc'[p] = OnError(p, proc[p], FALSE)
      PROVE  RestartFor(p)'
  BY <1>1, <1>2, <1>3, ErrorRestart
<1>4. ASSUME NEW x \in {"send", "await"}, NEW t,
             proc'[p] = [proc[p] EXCEPT !.pc = x] \/ proc'[p] = [proc[p] EXCEPT !.todo = t],
             proc[p].pc # "wait"
      PROVE  RestartFor(p)'
  <2>1. /\ proc'[p].initial = proc[p].initial /\ proc'[p].seen = proc[p].seen
        /\ proc'[p].result = proc[p].result /\ proc'[p].pc # "wait"
    BY <1>1, <1>4 DEF Tasks
  <2> QED
    BY <1>1, <1>2, <2>1, KeptRestart
<1>5. CASE Acquire(p)
  <2>1. proc[p].pc = "lock" /\ (proc'[p] = [proc[p] EXCEPT !.pc = "send"] \/ proc'[p] = OnError(p, proc[p], FALSE))
    BY <1>1, <1>5 DEF Acquire
  <2> QED
    BY <1>3, <1>4, <2>1
<1>6. CASE Send(p)
  <2>1. /\ proc[p].pc = "send"
        /\ \/ \E t : proc'[p] = [proc[p] EXCEPT !.todo = t]
           \/ proc'[p] = [proc[p] EXCEPT !.pc = "await"] \/ proc'[p] = OnError(p, proc[p], FALSE)
    BY <1>1, <1>6 DEF Send
  <2> QED
    BY <1>3, <1>4, <2>1
<1>7. CASE Receive(p)
  BY <1>1, <1>7, ReceiveRestart
<1>8. CASE AwaitFails(p)
  <2>1. proc[p].pc = "await" /\ proc'[p] = OnError(p, proc[p], FALSE)
    BY <1>1, <1>8 DEF AwaitFails
  <2> QED
    BY <1>3, <2>1
<1> QED
  BY <1>5, <1>6, <1>7, <1>8 DEF Step

LEMMA WaitRestart ==
  ASSUME Base, Base', OnceSound, RestartSound, NEW p \in Callers, Wait(p)
  PROVE  RestartFor(p)'
<1>1. /\ RestartFor(p) /\ p \in Procs /\ proc[p] \in Tasks /\ proc \in [Procs -> Tasks] /\ pids \in Nat
  BY CountTypes DEF RestartSound, Base, TypeOK
<1>2. UNCHANGED rigid /\ pids' = pids /\ pids' \in Nat /\ pids' >= pids /\ proc[p].pc = "wait"
  BY <1>1 DEF Wait, dinitVars
<1>3. CASE Reached(p) /\ proc'[p] = [proc[p] EXCEPT !.pc = "end", !.result = "ok"]
  <2>1. proc'[p].initial = proc[p].initial /\ proc'[p].seen = proc[p].seen
    BY <1>1, <1>3 DEF Tasks
  <2>2. NotBefore(proc[p].seen, proc[p].initial) /\ proc[p].initial <= pids
    BY <1>1, <1>2 DEF RestartFor
  <2>3. Reached(p)'
    BY <1>2, <1>3, <2>1 DEF Reached, Target, rigid
  <2> QED
    BY <1>2, <2>1, <2>2, <2>3 DEF RestartFor, NotBefore
<1>4. CASE proc'[p] = [proc[p] EXCEPT !.pc = "end", !.result = "error"]
  <2>1. /\ proc'[p].initial = proc[p].initial /\ proc'[p].seen = proc[p].seen
        /\ proc'[p].result = "error" /\ proc'[p].pc = "end"
    BY <1>1, <1>4 DEF Tasks
  <2> QED
    BY <1>1, <1>2, <2>1, KeptRestart
<1>5. CASE proc'[p] = [proc[p] EXCEPT !.pc = "lock", !.phase = "poll", !.todo = Steps("status")]
  <2>1. /\ proc'[p].initial = proc[p].initial /\ proc'[p].seen = proc[p].seen
        /\ proc'[p].result = proc[p].result /\ proc'[p].pc = "lock"
    BY <1>1, <1>5 DEF Tasks
  <2> QED
    BY <1>1, <1>2, <2>1, KeptRestart
<1>6. \/ Reached(p) /\ proc'[p] = [proc[p] EXCEPT !.pc = "end", !.result = "ok"]
      \/ proc'[p] = [proc[p] EXCEPT !.pc = "end", !.result = "error"]
      \/ proc'[p] = [proc[p] EXCEPT !.pc = "lock", !.phase = "poll", !.todo = Steps("status")]
  <2>1. \A e : proc' = [proc EXCEPT ![p] = e] => proc'[p] = e
    BY <1>1
  <2> HIDE DEF Reached
  <2> QED
    BY <2>1, WaitCases, Zenon
<1> QED
  BY <1>3, <1>4, <1>5, <1>6

LEMMA RestartNext ==
  ASSUME Base, Base', FlowSound, FlowSound', OnceSound, RestartSound, [Next]_vars
  PROVE  RestartSound'
<1>1. PidSound' /\ pids' >= pids /\ pids \in Nat /\ pids' \in Nat
  BY PidNext DEF RestartSound
<1>2. \A c \in Conns : ReportsFor(c)'
  BY ReportsNext
<1>3. ASSUME NEW p \in Callers PROVE RestartFor(p)'
  <2>0. RestartFor(p) /\ p \in Procs /\ p # Observer /\ proc[p] \in Tasks /\ proc \in [Procs -> Tasks]
    BY CountTypes DEF RestartSound, Base, TypeOK
  <2>1. ASSUME UNCHANGED rigid, proc'[p] = proc[p] PROVE RestartFor(p)'
    BY <1>1, <2>0, <2>1, KeptRestart
  <2>2. ASSUME NEW o \in Procs, Step(o) PROVE RestartFor(p)'
    <3>1. CASE o = p
      BY <2>2, <3>1, StepRestart
    <3>2. CASE o # p
      <4>1. proc'[p] = proc[p] /\ UNCHANGED rigid
        BY <2>0, <2>2, <3>2, StepFrame DEF rigid
      <4> QED
        BY <2>1, <4>1
    <3> QED
      BY <3>1, <3>2
  <2>3. ASSUME NEW o \in Callers, Wait(o) PROVE RestartFor(p)'
    <3>1. CASE o = p
      BY <2>3, <3>1, WaitRestart
    <3>2. CASE o # p
      <4>1. proc'[p] = proc[p] /\ UNCHANGED rigid
        BY <2>0, <2>3, <3>2 DEF Wait
      <4> QED
        BY <2>1, <4>1
    <3> QED
      BY <3>1, <3>2
  <2>4. ASSUME NEW o \in Callers, Execute(o) PROVE RestartFor(p)'
    <3>1. UNCHANGED rigid
      BY <2>4 DEF Execute
    <3>2. CASE o = p
      <4>1. PICK phase, todo : proc'[p] = [proc[p] EXCEPT !.pc = "lock", !.phase = phase, !.todo = todo]
        BY <2>0, <2>4, <3>2 DEF Execute
      <4>2. /\ proc'[p].initial = proc[p].initial /\ proc'[p].seen = proc[p].seen
            /\ proc'[p].result = proc[p].result /\ proc'[p].pc = "lock"
        BY <2>0, <4>1 DEF Tasks
      <4> QED
        BY <1>1, <2>0, <3>1, <4>2, KeptRestart
    <3>3. CASE o # p
      BY <2>0, <2>1, <2>4, <3>1, <3>3 DEF Execute
    <3> QED
      BY <3>2, <3>3
  <2>5. ASSUME NEW o \in Procs, ContextEnds(o) PROVE RestartFor(p)'
    <3>1. proc'[p] = proc[p] \/ proc'[p] = [proc[p] EXCEPT !.ended = TRUE]
      BY <2>0, <2>5 DEF ContextEnds
    <3>2. /\ proc'[p].initial = proc[p].initial /\ proc'[p].seen = proc[p].seen
          /\ proc'[p].result = proc[p].result /\ proc'[p].pc = proc[p].pc
      BY <2>0, <3>1 DEF Tasks
    <3>3. UNCHANGED rigid
      BY <2>5 DEF ContextEnds
    <3> QED
      BY <1>1, <2>0, <3>2, <3>3, KeptRestart
  <2>6. CASE ObserveClose \/ ObserveAgain
    BY <2>0, <2>1, <2>6 DEF ObserveClose, ObserveAgain
  <2>7. CASE LinkStep
    BY <2>1, <2>7 DEF LinkStep, Progress, ServiceEnds, Serve, ReadLoop, Break, AfterFunc
  <2>8. CASE UNCHANGED vars
    BY <2>1, <2>8 DEF vars
  <2> QED
    BY <2>2, <2>3, <2>4, <2>5, <2>6, <2>7, <2>8 DEF Next, LinkStep
<1> QED
  BY <1>1, <1>2, <1>3 DEF RestartSound

LEMMA RestartInit == Init => RestartSound
<1> SUFFICES ASSUME Init PROVE RestartSound
  OBVIOUS
<1>0. Base
  BY BaseInit
<1>1. PidSound
  BY DEF Init, PidSound
<1>2. ASSUME NEW c \in Conns PROVE ReportsFor(c)
  <2>1. conn[c] = Fresh
    BY DEF Init
  <2> QED
    BY <2>1, FreshFacts DEF ReportsFor, Quiet
<1>3. ASSUME NEW p \in Callers PROVE RestartFor(p)
  <2>1. p \in Procs /\ p # Observer
    BY <1>0, CountTypes DEF Base
  <2>2. proc[p] = Idle
    BY <2>1 DEF Init
  <2>3. proc[p].pc = "idle" /\ proc[p].result = "none" /\ proc[p].initial = 0
    BY <2>2 DEF Idle
  <2> QED
    BY <2>3 DEF RestartFor, Restarted, Init
<1> QED
  BY <1>1, <1>2, <1>3 DEF RestartSound

\* Another process than the one that was found is a later one.
LEMMA OutcomesImplied ==
  ASSUME Base, OnceSound, RestartSound
  PROVE  OutcomesTrue
<1>1. MutationOnce
  BY DEF MutationOnce, OnceSound, OnceFor, OnceAs
<1>2. ASSUME NEW p \in Callers, proc[p].result = "ok", request[p].act = "restart", Waits(request[p]),
             proc[p].initial > 0
      PROVE  proc[p].seen.state = "started" /\ proc[p].seen.pid > proc[p].initial
  <2>1. Restarted(p) /\ RestartFor(p)
    BY <1>2 DEF Restarted, RestartSound
  <2>2. Reached(p) /\ NotBefore(proc[p].seen, proc[p].initial) /\ proc[p].initial \in Int
    BY <2>1, CountTypes DEF RestartFor, Base, Tasks
  <2>3. proc[p].seen.state = "started"
    BY <1>2, <2>2 DEF Reached, Target
  <2>4. proc[p].seen.pid \in Nat /\ proc[p].seen.pid >= proc[p].initial /\ proc[p].seen.pid >= 1
    BY <2>2, <2>3 DEF NotBefore, Services
  <2>5. proc[p].seen.pid # proc[p].initial
    BY <1>2, <2>2, <2>4 DEF Reached
  <2> QED
    BY <2>2, <2>3, <2>4, <2>5
<1>3. RestartReplaces
  BY <1>2 DEF RestartReplaces
<1> QED
  BY <1>1, <1>3 DEF OutcomesTrue

(* What a command reports is true: Dinit executed the change it asked for    *)
(* once, or the service was missing and that was to be ignored, and a        *)
(* restart that was waited for has left another process than the one it      *)
(* found (controller.go Execute, client.go request, api.go Call).            *)
THEOREM OutcomesCorrect == Spec => []OutcomesTrue
<1> DEFINE IInv == Base /\ FlowSound /\ OnceSound /\ RestartSound
<1>1. Init => IInv
  BY BaseInit, FlowInit, OnceInit, RestartInit
<1>2. IInv /\ [Next]_vars => IInv'
  <2> SUFFICES ASSUME IInv, [Next]_vars PROVE IInv'
    OBVIOUS
  <2>1. Base'
    BY BaseNext
  <2>2. FlowSound'
    BY <2>1, FlowNext
  <2>3. OnceSound' /\ RestartSound'
    BY <2>1, <2>2, OnceNext, RestartNext
  <2> QED
    BY <2>1, <2>2, <2>3
<1>3. IInv => OutcomesTrue
  BY OutcomesImplied
<1> HIDE DEF IInv
<1> QED
  BY <1>1, <1>2, <1>3, PTL DEF Spec
=============================================================================
