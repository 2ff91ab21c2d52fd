---------------------------- MODULE StatusModel ----------------------------
(***************************************************************************)
(* "servicectl status UNIT": the command resolves the unit, queries its    *)
(* snapshot, asks servicectl-api for the manifest of the components that   *)
(* take part in running the unit (or builds that manifest itself when the  *)
(* answer is missing or not valid), probes every component under one       *)
(* deadline and derives the health and the exit status.  Meanwhile other   *)
(* commands enable and disable the unit and its groups.                    *)
(***************************************************************************)
EXTENDS Integers, FiniteSets

CONSTANTS Holders,     \* the groups that hold the unit, ordered as their names
          Snapshots,   \* the unit snapshots sysvisiond may answer
          MaxChanges,  \* bound: enablement changes while the command runs
          MaxBad       \* bound: probes that do not report a healthy component

VARIABLES
  unit,      \* the unit's configuration and the mode of the command
  own, on,   \* sys-propertyd: the unit is enabled; its enabled groups
  runner,    \* sys-propertyd: the unit is in the runner list
  changes,   \* enablement changes so far
  pc,        \* the step the command takes next
  via,       \* who builds the manifest: servicectl-api or the command
  lists,     \* the unit lists that builder has read
  snap,      \* the snapshot
  manifest,  \* the participation manifest the command uses
  results,   \* the result of each component's probe
  verdict    \* [runtime, orchestration, aggregate, exit]

Parameters == Holders \subseteq Nat \ {0} /\ MaxChanges \in Nat /\ MaxBad \in Nat

vars == <<unit, own, on, runner, changes, pc, via, lists, snap, manifest,
          results, verdict>>

Nobody == -1     \* nothing enables the unit: it takes no orchestration
Itself == 0      \* the unit's own orchestrator; a group's is its number
Namespaces == {"accounting", "bus", "control", "observation"}
None == [none |-> TRUE]

-----------------------------------------------------------------------------
(* The manifest.  A component is named by its type: its key is made of the *)
(* type, the scope and an identity, and a manifest has one of each type.   *)

Relationship(ns, from, to, relation, primary) ==
  [ns |-> ns, from |-> from, to |-> to, relation |-> relation,
   primary |-> primary]
Turned(r) == Relationship(r.ns, r.to, r.from, r.relation, r.primary)

BuildControl(u) ==
  LET Step(a, relation, b) == Relationship("control", a, b, relation, TRUE)
  IN  {Step("servicectl-api", "controls", "s6"),
       Step("s6", "supervises", "sys-orchestrd"),
       Step("sys-orchestrd", "controls", "dinit")}
      \cup (IF u.helper
              THEN {Step("dinit", "supervises", "sys-notifyd"),
                    Step("sys-notifyd", "supervises", "service")}
              ELSE {Step("dinit", "supervises", "service")})

BuildAround(u) ==
  {Relationship("bus", "sys-orchestrd", "sysvbus", "observes", FALSE),
   Relationship("observation", "sysvisiond", "service", "observes", FALSE),
   Relationship("accounting", "sys-cgroupd", "service", "accounts", FALSE)}
  \cup (IF u.bus
          THEN {Relationship("bus", "dbus", "service", "activates", FALSE)}
          ELSE {})

Components(u) ==
  {"servicectl-api", "s6", "sys-orchestrd", "dinit", "service", "sysvbus",
   "sysvisiond", "sys-cgroupd"}
  \cup (IF u.helper THEN {"sys-notifyd"} ELSE {})
  \cup (IF u.bus THEN {"dbus"} ELSE {})

BuildStatusParticipationManifest(u, owner) ==
  LET enabled == owner # Nobody
      comps == IF enabled THEN Components(u) ELSE {"service"}
  IN  [complete |-> TRUE, unit |-> u.name, mode |-> u.mode, owner |-> owner,
       applicable |-> IF enabled THEN Namespaces ELSE {},
       scope |-> [c \in comps |->
                    IF c = "sys-cgroupd" THEN "system" ELSE u.mode],
       rels |-> IF enabled THEN BuildControl(u) \cup BuildAround(u) ELSE {}]

RelationUsesNamespace(r) ==
  CASE r.relation \in {"controls", "supervises"} -> r.ns = "control"
    [] r.relation = "activates" -> r.ns = "bus"
    [] r.relation = "accounts" -> r.ns = "accounting"
    [] r.relation = "observes" -> r.ns \in {"bus", "observation"}

Primary(rels) == {r \in rels : r.primary}
Ends(rels) == {r.from : r \in rels} \cup {r.to : r \in rels}

\* What a walk along edges reaches among nodes: all but the sets that no edge
\* enters.
Reached(nodes, edges, root) ==
  nodes \ UNION {S \in SUBSET (nodes \ {root}) : \A e \in edges : e.to \in S => e.from \in S}

\* The loop over primaryNext, from the root until no edge leaves.
Walk(edges, root) == Reached(Ends(edges), edges, root)

Roots(edges) == {n \in Ends(edges) : \A e \in edges : e.to # n}
Terminals(edges) == {n \in Ends(edges) : \A e \in edges : e.from # n}

PrimaryPathTerminal(rels) == Terminals(Primary(rels)) = {"service"}

\* One branch-free path over all its nodes, with one root, ending at the
\* service.
PrimaryPath(rels) ==
  LET edges == Primary(rels)
  IN  /\ \A d, e \in edges : d.from = e.from \/ d.to = e.to => d = e
      /\ Cardinality(Roots(edges)) = 1
      /\ Terminals(edges) = {"service"}
      /\ \A root \in Roots(edges) : Walk(edges, root) = Ends(edges)

\* validateStatusManifestConnectivity: breadth first from the service over
\* the relationships in both directions.
Connected(comps, rels) ==
  Reached(comps, rels \cup {Turned(r) : r \in rels}, "service") = comps

ValidateStatusParticipationManifest(m) ==
  LET comps == DOMAIN m.scope
      edges == Primary(m.rels)
  IN  /\ m.complete
      /\ \A c \in comps : \/ m.scope[c] = m.mode
                          \/ c = "sys-cgroupd" /\ m.scope[c] = "system"
      /\ "service" \in comps
      /\ \A r \in m.rels : /\ r.from \in comps /\ r.to \in comps
                           /\ r.primary => r.ns = "control"
                           /\ r.ns \in m.applicable
                           /\ RelationUsesNamespace(r)
      /\ IF edges = {} THEN "control" \notin m.applicable
                       ELSE PrimaryPath(m.rels)
      /\ Connected(comps, m.rels)

\* statusview's own check of the topology before it is finalized.
ValidateGraph(m) == Primary(m.rels) = {} \/ PrimaryPath(m.rels)

ValidateManifestIdentity(m) ==
  /\ ValidateStatusParticipationManifest(m)
  /\ m.unit = unit.name /\ m.mode = unit.mode

-----------------------------------------------------------------------------
(* Who orchestrates the unit.                                              *)

\* The answer of /v1/unit-lists.
UnitLists ==
  [own |-> own, groups |-> on, runner |-> runner,
   effective |-> own \/ on # {} \/ runner]

ListsDecide(l) == l.own \/ ~l.effective \/ l.groups = {}

OwnerFromGroups(l, enabledNow) ==
  LET owners == l.groups \cap enabledNow
  IN  IF owners = {} THEN Nobody ELSE CHOOSE g \in owners : \A h \in owners : g <= h

OwnershipIncomplete(l, enabledNow) ==
  l.groups \cap enabledNow = {} /\ ~l.runner

-----------------------------------------------------------------------------
(* Evidence and health.                                                    *)

CanonicalRuntimeState(s) ==
  CASE s.failure \/ s.lifecycle = "failed" \/ s.state = "EXITED" -> "failed"
    [] s.lifecycle = "activating" \/ s.child = "starting" -> "activating"
    [] s.lifecycle = "deactivating" \/ s.child = "stopping" -> "deactivating"
    [] s.lifecycle = "active" \/ s.state = "STARTED" -> "active"
    [] s.lifecycle = "inactive" \/ s.state = "STOPPED" -> "inactive"
    [] OTHER -> "unknown"

ProbeService(s) ==
  IF s.stale THEN "stale"
  ELSE IF s.state = "EXITED" THEN "unhealthy" ELSE "healthy"

ProbeHelper(s) ==
  IF s.failure \/ s.child \in {"failed", "stopped"} THEN "unhealthy"
  ELSE IF s.child = "" THEN "error" ELSE "healthy"

\* What the query of a component can answer: s6-svstat, Dinit's status, the
\* bus connection and sys-cgroupd's state are up or not; a bus name has an
\* owner or none.  Each query may fail, or find nothing.
ProbeOutcomes(c) ==
  CASE c = "service" -> {ProbeService(snap)}
    [] c = "sys-notifyd" -> {ProbeHelper(snap)}
    [] c = "dbus" -> {"healthy", "notfound", "error", "timeout"}
    [] c = "sysvbus" -> {"healthy", "unhealthy", "error", "timeout"}
    [] OTHER -> {"healthy", "unhealthy", "notfound", "error", "timeout"}

HealthRank(h) ==
  CASE h = "failed" -> 3 [] h = "degraded" -> 2 [] h = "unknown" -> 1
    [] OTHER -> 0

HealthFromEvidence(c, result) ==
  CASE c = "service" -> "healthy"
    [] result \in {"notfound", "unhealthy"} -> "degraded"
    [] result \in {"timeout", "stale", "error"} -> "unknown"
    [] OTHER -> "healthy"

\* The diagnostics of a component, as the healths they declare.
Diagnostics(c, result) ==
  IF c = "service"
    THEN IF result \in {"timeout", "stale", "error"} THEN {"unknown"} ELSE {}
    ELSE {HealthFromEvidence(c, result)} \ {"healthy"}

DeriveNodeHealth(c, result, runtime) ==
  IF c = "service"
    THEN IF runtime \in {"failed", "unknown"} THEN runtime ELSE "healthy"
    ELSE HealthFromEvidence(c, result)

\* aggregateHealth: the severest of the healths of nodes and diagnostics.
AggregateHealth(healths) ==
  CHOOSE h \in healths \cup {"healthy"} : \A g \in healths : HealthRank(g) <= HealthRank(h)

Finalize(res) ==
  LET runtime == CanonicalRuntimeState(snap)
      nodes(cs) == {DeriveNodeHealth(c, res[c], runtime) : c \in cs}
      diags(cs) == UNION {Diagnostics(c, res[c]) : c \in cs}
      parts == DOMAIN res \ {"service"}
      aggregate == AggregateHealth(nodes(DOMAIN res) \cup diags(DOMAIN res))
  IN  [runtime |-> runtime, aggregate |-> aggregate,
       orchestration |-> AggregateHealth(nodes(parts) \cup diags(parts)),
       exit |-> IF aggregate = "healthy" THEN 0 ELSE 3]

-----------------------------------------------------------------------------
TypeOK ==
  /\ unit.mode \in {"system", "user"} /\ unit.helper \in BOOLEAN
  /\ own \in BOOLEAN /\ on \subseteq Holders /\ runner \in BOOLEAN
  /\ changes \in 0 .. MaxChanges
  /\ pc \in {"resolve", "snapshot", "lists", "groups", "answer", "probe",
             "done"}
  /\ via \in {"manager", "configuration"}
  /\ snap \in Snapshots \cup {None}

Init ==
  /\ unit \in [name : {"u"}, mode : {"system", "user"}, helper : BOOLEAN,
               bus : BOOLEAN]
  /\ own \in BOOLEAN /\ on \in SUBSET Holders /\ runner \in BOOLEAN
  /\ changes = 0 /\ pc = "resolve" /\ via = "manager" /\ lists = None
  /\ snap = None /\ manifest = None /\ results = <<>> /\ verdict = None

command == <<pc, via, lists, snap, manifest, results, verdict>>
plane == <<unit, own, on, runner, changes>>

\* Another command changes what enables the unit, between two reads of the
\* builders (a change before the first is another initial state, one after
\* the last is not seen).
Change ==
  /\ \/ pc = "groups"
     \/ pc = "lists" /\ via = "configuration"
  /\ changes < MaxChanges
  /\ changes' = changes + 1
  /\ \/ own' = ~own /\ UNCHANGED <<on, runner>>
     \/ /\ \E g \in Holders : on' = IF g \in on THEN on \ {g} ELSE on \cup {g}
        /\ UNCHANGED <<own, runner>>
     \/ runner' = ~runner /\ UNCHANGED <<own, on>>
  /\ UNCHANGED <<unit, command>>

\* runStatusDisplay: exit status 4 for a unit that is not there, 1 for a
\* mandatory collector that failed.
End(code) ==
  /\ pc' = "done"
  /\ verdict' = [runtime |-> "", aggregate |-> "", orchestration |-> "",
                 exit |-> code]

Resolve ==
  /\ pc = "resolve"
  /\ \/ pc' = "snapshot" /\ UNCHANGED verdict
     \/ End(4)
     \/ End(1)
  /\ UNCHANGED <<plane, via, lists, snap, manifest, results>>

\* The snapshot comes from sysvisiond or, when that fails, from this process;
\* without one, or with one of another unit, the command fails.
QuerySnapshot ==
  /\ pc = "snapshot"
  /\ \/ snap' \in Snapshots /\ pc' = "lists" /\ UNCHANGED verdict
     \/ End(1) /\ UNCHANGED snap
  /\ UNCHANGED <<plane, via, lists, manifest, results>>

\* A builder that fails: the command builds the manifest itself, once.
BuilderFails ==
  /\ IF via = "manager"
       THEN via' = "configuration" /\ pc' = "lists" /\ UNCHANGED verdict
       ELSE End(1) /\ UNCHANGED via
  /\ lists' = None /\ manifest' = None

Built(owner) ==
  LET m == BuildStatusParticipationManifest(unit, owner)
  IN  IF ValidateStatusParticipationManifest(m)
        THEN /\ pc' = "answer" /\ manifest' = m
             /\ UNCHANGED <<via, lists, verdict>>
        ELSE BuilderFails

\* The builder reads the lists; they may settle who orchestrates the unit.
ReadLists ==
  /\ pc = "lists"
  /\ \/ ListsDecide(UnitLists) /\ Built(IF own THEN Itself ELSE Nobody)
     \/ /\ ~ListsDecide(UnitLists)
        /\ lists' = UnitLists /\ pc' = "groups"
        /\ UNCHANGED <<via, manifest, verdict>>
     \/ BuilderFails
  /\ UNCHANGED <<plane, snap, results>>

\* Then it asks for the groups of the unit, which may have changed since.
ReadGroups ==
  /\ pc = "groups"
  /\ \/ ~OwnershipIncomplete(lists, on) /\ Built(OwnerFromGroups(lists, on))
     \/ BuilderFails
  /\ UNCHANGED <<plane, snap, results>>

\* What servicectl-api may send for the manifest m: it may be of another
\* version, for another unit or mode, or lack, turn or add something.
Redrawn(m) ==
  {m.rels \ {r} : r \in m.rels}
  \cup {(m.rels \ {r}) \cup {Turned(r)} : r \in m.rels}
  \cup {m.rels \cup {r} : r \in [ns : {"control"}, from : DOMAIN m.scope, to : DOMAIN m.scope,
                              relation : {"controls"}, primary : {TRUE}]}

Answers(m) ==
  {m, [m EXCEPT !.complete = FALSE], [m EXCEPT !.unit = "other"],
   [m EXCEPT !.mode = IF @ = "user" THEN "system" ELSE "user"],
   [m EXCEPT !.applicable = Namespaces \ @]}
  \cup {[m EXCEPT !.rels = rels] : rels \in Redrawn(m)}
  \cup {[m EXCEPT !.scope = [c \in DOMAIN @ \ {d} |-> @[c]]] : d \in DOMAIN m.scope}

\* queryCompleteStatusManifest: the answer is used when it is valid and about
\* this unit; the command's own manifest is checked in the same way.
Answer ==
  /\ pc = "answer"
  /\ \E m \in IF via = "manager" THEN Answers(manifest) ELSE {manifest} :
       IF ValidateManifestIdentity(m)
         THEN pc' = "probe" /\ manifest' = m /\ UNCHANGED <<via, lists, verdict>>
         ELSE BuilderFails
  /\ UNCHANGED <<plane, snap, results>>

\* All probes run at once and their results are kept by component; those that
\* are not there at the deadline count as timed out.  Then the model is made
\* and finalized, and the command ends with its exit status.
Probe ==
  /\ pc = "probe"
  /\ \E bad \in {S \in SUBSET DOMAIN manifest.scope : Cardinality(S) <= MaxBad} :
       \E res \in [bad -> {"unhealthy", "notfound", "error", "timeout"}] :
         /\ \A c \in bad : res[c] \in ProbeOutcomes(c) \cup {"timeout"}
         /\ results' =
              [c \in DOMAIN manifest.scope |->
                 IF c \in bad THEN res[c]
                 ELSE IF c \in {"service", "sys-notifyd"}
                        THEN CHOOSE o \in ProbeOutcomes(c) : TRUE
                        ELSE "healthy"]
  /\ pc' = "done"
  /\ verdict' = IF ValidateGraph(manifest)
                  THEN Finalize(results')
                  ELSE [runtime |-> "", aggregate |-> "",
                        orchestration |-> "", exit |-> 1]
  /\ UNCHANGED <<plane, via, lists, snap, manifest>>

Next ==
  \/ Change \/ Resolve \/ QuerySnapshot \/ ReadLists \/ ReadGroups
  \/ Answer \/ Probe

Spec == Init /\ [][Next]_vars

-----------------------------------------------------------------------------
(* Properties.                                                             *)

\* Every manifest buildStatusParticipationManifest makes, for every kind of
\* unit and owner, passes ValidateStatusParticipationManifest: the command
\* can always fall back on a manifest of its own.
BuiltManifestsValidate ==
  pc = "resolve" => \A owner \in {Nobody, Itself} \cup Holders :
    ValidateManifestIdentity(BuildStatusParticipationManifest(unit, owner))

\* A manifest the command goes on with, whoever sent it, is about the unit
\* asked for and drawn as one topology: no set of components is cut off from
\* the rest, and the primary relationships, if any, are a chain that ends at
\* the service (a connected graph with one edge fewer than nodes in which no
\* node has two edges in or two out).
AcceptedIsSound ==
  pc = "probe" =>
    LET comps == DOMAIN manifest.scope
        edges == Primary(manifest.rels)
        Whole(nodes, es) ==
          \A cut \in SUBSET nodes :
            cut # {} /\ cut # nodes =>
              \E e \in es : (e.from \in cut) # (e.to \in cut)
    IN  /\ manifest.unit = unit.name /\ manifest.mode = unit.mode
        /\ Whole(comps, manifest.rels)
        /\ edges # {} =>
             /\ Cardinality(edges) = Cardinality(Ends(edges)) - 1
             /\ Whole(Ends(edges), edges)
             /\ \A d, e \in edges : d.from = e.from \/ d.to = e.to => d = e
             /\ "service" \in Ends(edges)
             /\ \A e \in edges : e.from # "service"

\* The aggregate health and the exit status follow from what the probes and
\* the snapshot said, by severity (failed, degraded, unknown, healthy) and
\* whatever the order and the number of the findings: only the service can be
\* failed, and exit status 0 means that every component of the manifest was
\* seen in good health.
HealthFollowsEvidence ==
  pc = "done" /\ results # <<>> =>
    LET runtime == CanonicalRuntimeState(snap)
        parts == DOMAIN results \ {"service"}
        Seen(cs, rs) == \E c \in cs : results[c] \in rs
        silent == {"timeout", "stale", "error"}
    IN  /\ verdict.aggregate =
             IF runtime = "failed" THEN "failed"
             ELSE IF Seen(parts, {"notfound", "unhealthy"}) THEN "degraded"
             ELSE IF runtime = "unknown" \/ Seen(DOMAIN results, silent)
                    THEN "unknown" ELSE "healthy"
        /\ verdict.orchestration # "failed"
        /\ verdict.exit = 0 => /\ runtime \notin {"failed", "unknown"}
                               /\ \A c \in parts : results[c] = "healthy"
                               /\ DOMAIN results = DOMAIN manifest.scope
=============================================================================
