------------------------------ MODULE UnitStart -----------------------------
(***************************************************************************)
(* servicectl start and restart (main.go, deps.go, dinit_gen.go,           *)
(* external_management*.go): definitions are installed and units started   *)
(* depth first, dependencies before dependents; a restart stops the        *)
(* dependents that are up, restarts the unit and restores them.            *)
(*                                                                         *)
(* hard holds Requires, BindsTo and PartOf, soft Wants and After.  Dinit   *)
(* is external: a start brings up what the definition depends on, a stop   *)
(* is refused while a dependent is up.                                     *)
(***************************************************************************)
EXTENDS Integers, Sequences, FiniteSets, SequencesExt

CONSTANTS
  N,          \* units 1 .. N, in the order of their names
  Target,     \* the unit of the command
  External,   \* units that persist.external-managed may mark
  Oneshot,    \* units with Type=oneshot and RemainAfterExit
  MaxEdges,   \* bound: dependencies
  MaxFaults   \* bound: failing installations and starts, crashes

AllUnits == 1 .. N

\* What the parameters are: a command is given a unit that servicectl manages.
Parameters ==
  /\ N \in Nat /\ Target \in AllUnits
  /\ External \subseteq AllUnits \ {Target} /\ Oneshot \subseteq AllUnits
  /\ MaxEdges \in Nat /\ MaxFaults \in Nat

VARIABLES
  hard, soft, external,  \* the unit files, persist.external-managed
  up, known,   \* Dinit: what is started, what is loaded
  defs,        \* generated definitions
  action, before,
  visits, met, \* calls of reverseRestartClosure's visit, and its visited
  stops,       \* units still to be stopped
  work,        \* units to install and start, one after the other
  inst, seen,  \* calls of recursiveInstall, and its visited
  stack, visited, \* calls of recursiveStart, and its visited
  pc,
  faults, culprits, \* units at which something failed or ended
  refused      \* ghost: Dinit has refused a stop

graph == <<hard, soft, external>>
dinit == <<up, known>>
closure == <<visits, met>>
calls == <<inst, seen, stack, visited>>
ghosts == <<before, faults, culprits, refused>>
vars == <<graph, dinit, defs, action, closure, stops, work, calls, pc, ghosts>>

Pairs == {e \in AllUnits \X AllUnits : e[1] # e[2]}
Deps(rel, u) == {e[2] : e \in {f \in rel : f[1] = u}}
\* What is reached from S: the least set that holds S and what its members lead to.
Closure(rel, S) ==
  {u \in AllUnits : \A C \in SUBSET AllUnits :
     S \subseteq C /\ (\A v \in C : Deps(rel, v) \subseteq C) => u \in C}

\* depends-on in the generated definitions.
DependsOn == {e \in hard : e[2] \notin external}
Needs(u) == Deps(DependsOn, u)
Below(u) == Closure(DependsOn, {u})
Above(u) == {v \in AllUnits : u \in Below(v)}
Dependents(u) == {v \in AllUnits : u \in Deps(hard, v)}
Cyclic(rel, u) == u \in Closure(rel, Deps(rel, u))
Acyclic == \A u \in AllUnits : ~Cyclic(hard, u)

Init ==
  /\ hard \in SUBSET Pairs /\ soft \in SUBSET Pairs
  /\ hard \cap soft = {} /\ Cardinality(hard \cup soft) <= MaxEdges
  /\ external \in SUBSET External
  /\ up \in SUBSET (AllUnits \ external) /\ \A u \in up : Needs(u) \subseteq up
  /\ known \in {up, AllUnits} /\ defs = up
  /\ action \in {"start", "restart"} /\ before = up
  /\ visits = <<>> /\ met = {} /\ stops = <<>> /\ work = <<>> /\ inst = <<>> /\ seen = {} /\ stack = <<>> /\ visited = {}
  /\ pc = "begin" /\ faults = 0 /\ culprits = {} /\ refused = FALSE

-----------------------------------------------------------------------------
(* reverseRestartClosure *)

Visit(u) == [unit |-> u, todo |-> Dependents(u) \ {Target}]
Visiting == Last(visits)

\* A start stops nothing, a restart looks for what is to be stopped first.
Begin ==
  /\ pc = "begin"
  /\ IF action = "restart"
     THEN pc' = "visit" /\ visits' = <<Visit(Target)>> /\ UNCHANGED work
     ELSE pc' = "stop" /\ work' = <<Target>> /\ UNCHANGED visits
  /\ UNCHANGED <<graph, dinit, defs, action, met, stops, calls, ghosts>>

\* Depth first over the dependents that are up, in the order of their names.
VisitDependent(d) ==
  /\ pc = "visit" /\ d \in Visiting.todo /\ \A x \in Visiting.todo : d <= x
  /\ LET rest == Append(Front(visits), [Visiting EXCEPT !.todo = @ \ {d}])
     IN  IF d \in met \/ d \notin up
         THEN visits' = rest /\ UNCHANGED met
         ELSE visits' = Append(rest, Visit(d)) /\ met' = met \cup {d}
  /\ UNCHANGED <<graph, dinit, defs, action, stops, work, calls, pc, ghosts>>

VisitReturnsFirst ==   \* faulty variant: a unit precedes its dependents
  /\ pc = "visit" /\ Visiting.todo = {}
  /\ visits' = Front(visits) /\ stops' = <<Visiting.unit>> \o stops
  /\ IF Len(visits) = 1
     THEN pc' = "stop" /\ work' = Reverse(stops')
     ELSE UNCHANGED <<pc, work>>
  /\ UNCHANGED <<graph, dinit, defs, action, met, calls, ghosts>>

\* A unit is stopped after its dependents, and started again before them.
VisitReturns ==
  /\ pc = "visit" /\ Visiting.todo = {}
  /\ visits' = Front(visits) /\ stops' = Append(stops, Visiting.unit)
  /\ IF Len(visits) = 1
     THEN pc' = "stop" /\ work' = Reverse(stops')
     ELSE UNCHANGED <<pc, work>>
  /\ UNCHANGED <<graph, dinit, defs, action, met, calls, ghosts>>

\* stopBackendIfKnown
StopNext ==
  /\ pc = "stop" /\ stops # <<>>
  /\ LET u == Head(stops)
     IN  IF u \notin known
         THEN stops' = Tail(stops) /\ UNCHANGED <<up, pc, refused>>
         ELSE IF \E v \in up : u \in Needs(v)
         THEN pc' = "fail" /\ refused' = TRUE /\ UNCHANGED <<up, stops>>
         ELSE up' = up \ {u} /\ stops' = Tail(stops) /\ UNCHANGED <<pc, refused>>
  /\ UNCHANGED <<graph, known, defs, action, closure, work, calls, before, faults, culprits>>

\* The next of the units to install and start, each with maps of its own.
NextUnit ==
  /\ pc = "stop" /\ stops = <<>>
  /\ IF work = <<>> THEN pc' = "ok" /\ UNCHANGED <<inst, seen>>
     ELSE pc' = "install" /\ inst' = <<[unit |-> Head(work), todo |-> Deps(hard, Head(work))]>> /\ seen' = {Head(work)}
  /\ UNCHANGED <<graph, dinit, defs, action, closure, stops, work, stack, visited, ghosts>>

-----------------------------------------------------------------------------
(* recursiveInstall *)

Top == Last(inst)

\* An externally managed dependency gets a placeholder, the others are installed first.
InstallDependency(d) ==
  /\ pc = "install" /\ d \in Top.todo
  /\ LET rest == Append(Front(inst), [Top EXCEPT !.todo = @ \ {d}])
     IN  IF d \in external \/ d \in seen
         THEN inst' = rest /\ UNCHANGED seen
         ELSE inst' = Append(rest, [unit |-> d, todo |-> Deps(hard, d)]) /\ seen' = seen \cup {d}
  /\ UNCHANGED <<graph, dinit, defs, action, closure, stops, work, stack, visited, pc, ghosts>>

InstallSelf ==
  /\ pc = "install" /\ Top.todo = {}
  /\ defs' = defs \cup {Top.unit}
  /\ inst' = Front(inst) /\ pc' = IF Len(inst) = 1 THEN "start" ELSE pc
  /\ UNCHANGED <<graph, dinit, action, closure, stops, work, seen, stack, visited, ghosts>>

-----------------------------------------------------------------------------
(* recursiveStart *)

Frame(u) == [unit |-> u, hard |-> Deps(hard, u), soft |-> Deps(soft, u), dep |-> 0, via |-> "none"]
Call == Last(stack)
With(f) == Append(Front(stack), f)
Done(c) == [c EXCEPT !.dep = 0, !.via = "none"]
SkipFailed(u) == u \in Oneshot /\ u \in known /\ u \notin up

\* A call that fails ends its callers, up to one that can do without it.
Failed(s) == stack' = s /\ pc' = "unwind"

Unwind ==
  /\ pc = "unwind"
  /\ IF stack = <<>> THEN pc' = "fail" /\ UNCHANGED stack
     ELSE IF Call.via = "soft" THEN pc' = "start" /\ stack' = With(Done(Call))
     ELSE stack' = Front(stack) /\ UNCHANGED pc
  /\ UNCHANGED <<graph, dinit, defs, action, closure, stops, work, inst, seen, visited, ghosts>>

\* A dependency has been installed, or the unit of the command has.
AfterInstall ==
  /\ pc = "start" /\ (stack # <<>> => Call.dep # 0)
  /\ IF stack = <<>>
     THEN stack' = <<Frame(Head(work))>> /\ visited' = {Head(work)}
     ELSE LET d == Call.dep
          IN  IF SkipFailed(d) \/ d \in visited
              THEN stack' = With(Done(Call)) /\ UNCHANGED visited
              ELSE stack' = Append(stack, Frame(d)) /\ visited' = visited \cup {d}
  /\ UNCHANGED <<graph, dinit, defs, action, closure, stops, work, inst, seen, pc, ghosts>>

\* Hard dependencies come first; each is installed again before it is started.
NextDependency(d) ==
  /\ pc = "start" /\ stack # <<>> /\ Call.dep = 0
  /\ d \in Call.hard \/ (Call.hard = {} /\ d \in Call.soft)
  /\ LET rest == [Call EXCEPT !.hard = @ \ {d}, !.soft = @ \ {d}]
     IN  IF d \in external THEN stack' = With(rest) /\ UNCHANGED <<inst, seen, pc>>
         ELSE /\ stack' = With([rest EXCEPT !.dep = d, !.via = IF d \in Call.hard THEN "hard" ELSE "soft"])
              /\ inst' = <<[unit |-> d, todo |-> Deps(hard, d)]>> /\ seen' = {d} /\ pc' = "install"
  /\ UNCHANGED <<graph, dinit, defs, action, closure, stops, work, visited, ghosts>>

InstallFails ==
  /\ pc = "install" /\ faults < MaxFaults
  /\ faults' = faults + 1 /\ culprits' = culprits \cup {Top.unit}
  /\ inst' = <<>> /\ Failed(stack)
  /\ UNCHANGED <<graph, dinit, defs, action, closure, stops, work, seen, visited, before, refused>>

\* The caller goes on; the call of the command's unit ends this unit's turn.
Return ==
  IF Len(stack) = 1
  THEN stack' = <<>> /\ visited' = {} /\ work' = Tail(work) /\ pc' = "stop"
  ELSE /\ stack' = LET c == Front(stack)
                   IN  Append(Front(c), Done(Last(c)))
       /\ UNCHANGED <<visited, work, pc>>

StartSelf ==
  /\ pc = "start" /\ stack # <<>> /\ Call.dep = 0 /\ Call.hard = {} /\ Call.soft = {}
  /\ LET u == Call.unit
         loads == \A v \in Below(u) : ~Cyclic(DependsOn, v)
     IN  IF u \in up THEN Return /\ UNCHANGED dinit
         ELSE IF loads
         THEN Return /\ up' = up \cup Below(u) /\ known' = known \cup Below(u)
         ELSE Failed(Front(stack)) /\ UNCHANGED <<dinit, visited, work>>   \* Dinit finds the cycle
  /\ UNCHANGED <<graph, defs, action, closure, stops, inst, seen, ghosts>>

\* Dinit gives up at v, the unit or something it needs.
StartFails(v) ==
  /\ pc = "start" /\ stack # <<>> /\ Call.dep = 0 /\ Call.hard = {} /\ Call.soft = {}
  /\ Call.unit \notin up /\ v \in Below(Call.unit) \ up /\ faults < MaxFaults
  /\ faults' = faults + 1 /\ culprits' = culprits \cup {v}
  /\ up' = up \cup (Below(v) \ {v}) /\ known' = known \cup Below(Call.unit)
  /\ Failed(Front(stack))
  /\ UNCHANGED <<graph, defs, action, closure, stops, work, inst, seen, visited, before, refused>>

\* A unit ends by itself, and Dinit stops what needs it.
Crash(u) ==
  /\ u \in up /\ faults < MaxFaults /\ pc \notin {"begin", "ok", "fail"}
  /\ faults' = faults + 1 /\ culprits' = culprits \cup Above(u)
  /\ up' = up \ Above(u)
  /\ UNCHANGED <<graph, known, defs, action, closure, stops, work, calls, pc, before, refused>>

Next ==
  \/ Begin \/ VisitReturns \/ StopNext \/ NextUnit \/ InstallSelf \/ InstallFails
  \/ AfterInstall \/ Unwind \/ StartSelf
  \/ \E u \in AllUnits : \/ VisitDependent(u) \/ InstallDependency(u) \/ NextDependency(u)
                         \/ StartFails(u) \/ Crash(u)

Spec == Init /\ [][Next]_vars

-----------------------------------------------------------------------------
(* The recursion is bounded on every graph, cycles included.                 *)
RecursionBounded == Len(stack) <= N /\ Len(inst) <= N

(* A definition is written after those it depends on: Dinit, which loads     *)
(* what a definition names, never meets a missing one.  Without cycles.      *)
DependenciesInstalledFirst == Acyclic => \A u \in defs : Needs(u) \subseteq defs

(* A restart asks Dinit for its stops in an order Dinit accepts, whatever    *)
(* the graph and whatever ends meanwhile.                                    *)
StopsAccepted == Acyclic => ~refused

(* After a restart that succeeds, everything is up that was up before, but   *)
(* for what has crashed.                                                     *)
RestartRestores == pc = "ok" => before \ culprits \subseteq up

(* A command fails only because of a unit that it needs: a degradable        *)
(* dependency that cannot be installed or started does not fail it.          *)
FailureHasCause ==
  pc = "fail" /\ Acyclic /\ ~refused =>
    \E u \in Range(work) \cup {Target} : culprits \cap Below(u) # {}
=============================================================================
