---------------------------- MODULE EnablePlane -----------------------------
(***************************************************************************)
(* Enabling and disabling of units and groups (main.go, group_cli.go,      *)
(* s6_backend.go, s6_backend_group.go, enabled_dag.go) and the first       *)
(* filling of the enabled list by servicectl-api.                          *)
(*                                                                         *)
(* What is enabled is recorded several times: in the s6-rc sources (a      *)
(* directory for each orchestrator, its dependencies, and the contents of  *)
(* the bundle), in the compiled and in the live database, and in the       *)
(* enabled list of sys-propertyd.  A command changes them one after the    *)
(* other, without a lock, and leaves them as they are when a step fails.   *)
(*                                                                         *)
(* One mode is modelled.  An orchestrator is named by its unit or group.   *)
(* s6-rc and Dinit are external; sys-propertyd is SysPropertyd.            *)
(***************************************************************************)
EXTENDS Integers, FiniteSets

CONSTANTS
  Units, Groups,
  Wants,       \* looseDependencies of each unit
  Members,     \* the units of each group
  Rank,        \* sort.Strings of the groups
  Legacy,      \* units that may be in the bundle before sys-propertyd has a list
  Commands,    \* running servicectl processes: 1, 2, ...
  MaxCommands, \* bound
  MaxFaults    \* bound

Owners == Units \cup Groups

Parameters ==
  /\ Units \cap Groups = {} /\ "none" \notin Owners /\ Legacy \subseteq Units
  /\ Wants \in [Units -> SUBSET Units] /\ Members \in [Groups -> SUBSET Units]

VARIABLES
  core,      \* the bundles and the sources of the core services
  dirs,      \* source directory of each orchestrator
  deps,      \* its file dependencies, without the core services
  bundle,    \* servicectl-enabled/contents
  compiled,  \* the database of the last compilation
  live,      \* the live database
  up,        \* orchestrators that s6-rc has started
  running,   \* units
  enabled,   \* sys-propertyd: enabled units and groups
  initialized,
  cmd,       \* see Idle
  api,       \* servicectl-api, on its way through refreshPropertyLists
  begun,     \* number of commands
  faults,
  spoilt,    \* ghost: see Spoils
  overlap,   \* ghost: two commands have run at once
  last,      \* ghost: the owner of the last command, once it has succeeded
  acked      \* ghost: what the last command on an owner has announced

sources == <<core, dirs, deps, bundle>>
s6 == <<compiled, live, up, running>>
propertyd == <<enabled, initialized>>
announced == <<last, acked>>
ghosts == <<spoilt, overlap, announced>>
vars == <<sources, s6, propertyd, cmd, api, begun, faults, ghosts>>

NoRoots == [units |-> {}, groups |-> {}]
Idle == [pc |-> "idle", action |-> "none", owner |-> "none", live |-> FALSE, read |-> {}, roots |-> NoRoots]
Off == [pc |-> "off", read |-> {}]
NoDatabase == [owners |-> {}, deps |-> [o \in Owners |-> {}], ok |-> FALSE]

Init ==
  \E old \in SUBSET Legacy :
    /\ core = IF old = {} THEN "none" ELSE "done"
    /\ dirs = [o \in Owners |-> IF o \in old THEN "done" ELSE "none"]
    /\ deps = [o \in Owners |-> IF o \in old THEN Wants[o] \cap old ELSE {}]
    /\ bundle = old /\ up = old /\ running = old
    /\ compiled = NoDatabase /\ live = [owners |-> old, deps |-> deps, ok |-> TRUE]
    /\ enabled = {} /\ initialized = FALSE
    /\ cmd = [c \in Commands |-> Idle] /\ api = Off /\ begun = 0 /\ faults = 0
    /\ spoilt = FALSE /\ overlap = FALSE /\ last = "none" /\ acked = [o \in Owners |-> "none"]

Done == {o \in Owners : dirs[o] = "done"}
UnitsOf(o) == IF o \in Units THEN {o} ELSE Members[o]

\* What o needs, directly or not; and what needs o.
Below(d, o) ==
  LET Closed == {S \in SUBSET Owners : d[o] \subseteq S /\ \A p \in S : d[p] \subseteq S}
  IN  {p \in Owners : \A S \in Closed : p \in S}
Above(d, o) == {p \in Owners : o \in Below(d, p)}

-----------------------------------------------------------------------------
(* enabledRootSet, buildEnabledServiceDAG, ProjectOrchestrdDependencies *)

\* enabledStandaloneServicesFromS6Bundle: entries with a script that can be read.
StandaloneUnits == bundle \cap Units \cap Done

\* enabledRootSetFromCurrentState; the groups are those sys-propertyd has enabled.
EnabledRoots == [units |-> StandaloneUnits, groups |-> enabled \cap Groups]

\* ownerByUnit: the orchestrator of its own comes first, then the first group.
OwnersOf(roots, u) ==
  IF u \in roots.units THEN {u}
  ELSE {g \in roots.groups : /\ u \in Members[g]
                             /\ \A h \in roots.groups : u \in Members[h] => Rank[g] <= Rank[h]}

ProjectDependencies(roots, o) ==
  UNION {UNION {OwnersOf(roots, d) : d \in Wants[u]} : u \in {v \in Units : o \in OwnersOf(roots, v)}} \ {o}

ProjectedOwners(roots) == UNION {OwnersOf(roots, u) : u \in Units}

-----------------------------------------------------------------------------
(* A command begins, goes on to its next step, and ends. *)

Fault == faults < MaxFaults /\ faults' = faults + 1

Begin(c, action, o, first) ==
  /\ cmd[c] = Idle /\ begun < MaxCommands
  /\ \A b \in Commands : b < c => cmd[b] # Idle   \* processes have no identity: the least free number
  /\ begun' = begun + 1
  /\ \E l \in BOOLEAN :   \* SERVICECTL_S6_LIVE
       cmd' = [cmd EXCEPT ![c] = [Idle EXCEPT !.pc = IF first = "down" /\ ~l THEN "read" ELSE first,
                                              !.action = action, !.owner = o, !.live = l]]
  /\ acked' = [acked EXCEPT ![o] = "none"]
  /\ last' = "none"
  /\ overlap' = (overlap \/ \E b \in Commands : cmd[b] # Idle)
  /\ spoilt' = (spoilt \/ \E b \in Commands : cmd[b] # Idle /\ cmd[b].owner = o)
  /\ UNCHANGED <<sources, s6, propertyd, api, faults>>

EnableUnit(c, u) == Begin(c, "enable", u, "ensure")
DisableUnit(c, u) == Begin(c, "disable", u, "down")
EnableGroup(c, g) == Begin(c, "enable", g, "ensure")
DisableGroup(c, g) == Begin(c, "disable", g, "down")

At(c, pc) == cmd[c].pc = pc
Goto(c, pc) == cmd' = [cmd EXCEPT ![c].pc = pc]
End(c) == cmd' = [cmd EXCEPT ![c] = Idle]

\* A step fails, or the process is killed before it: nothing is undone.
Abort(c) ==
  /\ cmd[c] # Idle /\ Fault
  /\ End(c)
  /\ UNCHANGED <<sources, s6, propertyd, api, begun, ghosts>>

\* ensureS6Bundle: the contents of default come first, then the sources of the services in it.
EnsureS6Bundle(c) ==
  /\ At(c, "ensure")
  /\ \/ core' = "done" /\ Goto(c, "source") /\ UNCHANGED faults
     \/ core' = (IF core = "none" THEN "partial" ELSE core) /\ End(c) /\ Fault
  /\ UNCHANGED <<dirs, deps, bundle, s6, propertyd, api, begun, ghosts>>

\* The source directory of the orchestrator, with the dependencies all of them have.
WriteSource(c) ==
  /\ At(c, "source")
  /\ LET o == cmd[c].owner
     IN  \/ /\ dirs' = [dirs EXCEPT ![o] = "done"] /\ deps' = [deps EXCEPT ![o] = {}]
            /\ Goto(c, "read") /\ UNCHANGED <<faults, spoilt>>
         \/ /\ dirs' = [dirs EXCEPT ![o] = "partial"] /\ spoilt' = (spoilt \/ o \in bundle)
            /\ End(c) /\ Fault /\ UNCHANGED deps
  /\ UNCHANGED <<core, bundle, s6, propertyd, api, begun, overlap, announced>>

ReadBundleRemoves(c) ==   \* faulty variant: disabling removes the source before it rewrites the bundle
  /\ At(c, "read")
  /\ cmd' = [cmd EXCEPT ![c].pc = "write", ![c].read = bundle]
  /\ dirs' = IF cmd[c].action = "disable" THEN [dirs EXCEPT ![cmd[c].owner] = "none"] ELSE dirs
  /\ UNCHANGED <<core, deps, bundle, s6, propertyd, api, begun, faults, ghosts>>

ReadBundle(c) ==
  /\ At(c, "read")
  /\ cmd' = [cmd EXCEPT ![c].pc = "write", ![c].read = bundle]
  /\ UNCHANGED <<sources, s6, propertyd, api, begun, faults, ghosts>>

\* writeLineFile empties the file first.
WriteBundle(c) ==
  /\ At(c, "write")
  /\ LET o == cmd[c].owner
         add == cmd[c].action = "enable"
     IN  \/ /\ core # "none"
            /\ bundle' = IF add THEN cmd[c].read \cup {o} ELSE cmd[c].read \ {o}
            /\ cmd' = [cmd EXCEPT ![c].pc = IF add THEN "roots" ELSE "remove", ![c].read = {}]
            /\ spoilt' = (spoilt \/ bundle # cmd[c].read) /\ UNCHANGED faults
         \/ core = "none" /\ End(c) /\ UNCHANGED <<bundle, spoilt, faults>>
         \/ core # "none" /\ bundle' = {} /\ spoilt' = TRUE /\ End(c) /\ Fault
  /\ UNCHANGED <<core, dirs, deps, s6, propertyd, api, begun, overlap, announced>>

RemoveSource(c) ==
  /\ At(c, "remove")
  /\ dirs' = [dirs EXCEPT ![cmd[c].owner] = "none"]
  /\ deps' = [deps EXCEPT ![cmd[c].owner] = {}]
  /\ Goto(c, "roots")
  /\ UNCHANGED <<core, bundle, s6, propertyd, api, begun, faults, ghosts>>

\* refreshS6OrchestrdDependencies: what is enabled is read, ...
ReadRoots(c) ==
  /\ At(c, "roots")
  /\ cmd' = [cmd EXCEPT ![c].pc = "deps", ![c].roots = EnabledRoots]
  /\ UNCHANGED <<sources, s6, propertyd, api, begun, faults, ghosts>>

\* ... and the dependencies of every orchestrator with a source are written.
WriteDeps(c) ==
  /\ At(c, "deps")
  /\ deps' = [o \in Owners |-> IF o \in ProjectedOwners(cmd[c].roots) \cap Done
                               THEN ProjectDependencies(cmd[c].roots, o) ELSE deps[o]]
  /\ cmd' = [cmd EXCEPT ![c].pc = "validate", ![c].roots = NoRoots]
  /\ UNCHANGED <<core, dirs, bundle, s6, propertyd, api, begun, faults, ghosts>>

\* s6-rc-compile: everything named exists and can be ordered.
Compiles ==
  /\ core # "partial" /\ \A o \in Owners : dirs[o] # "partial"
  /\ bundle \subseteq Done
  /\ \A o \in Done : deps[o] \subseteq Done /\ o \notin Below(deps, o)

ValidateS6Sources(c) ==
  /\ At(c, "validate")
  /\ IF Compiles
     THEN /\ compiled' = [owners |-> Done, deps |-> deps, ok |-> TRUE]
          /\ Goto(c, IF cmd[c].live THEN "update" ELSE "persist")
     ELSE compiled' = NoDatabase /\ End(c)
  /\ UNCHANGED <<sources, live, up, running, propertyd, api, begun, faults, ghosts>>

\* s6-rc-update stops what is no longer there.
LiveUpdateS6(c) ==
  /\ At(c, "update")
  /\ IF compiled.ok
     THEN /\ live' = compiled /\ up' = up \cap compiled.owners
          /\ Goto(c, IF cmd[c].action = "enable" THEN "up" ELSE "persist")
     ELSE End(c) /\ UNCHANGED <<live, up>>
  /\ UNCHANGED <<sources, compiled, running, propertyd, api, begun, faults, ghosts>>

\* s6-rc -u change: with all it depends on.
LiveStartS6(c) ==
  /\ At(c, "up")
  /\ IF cmd[c].owner \in live.owners
     THEN /\ up' = up \cup {cmd[c].owner} \cup Below(live.deps, cmd[c].owner)
          /\ Goto(c, "persist")
     ELSE End(c) /\ UNCHANGED up
  /\ UNCHANGED <<sources, compiled, live, running, propertyd, api, begun, faults, ghosts>>

\* s6-rc -d change: with all that depends on it.
LiveStopS6(c) ==
  /\ At(c, "down")
  /\ IF cmd[c].owner \in live.owners
     THEN /\ up' = up \ ({cmd[c].owner} \cup Above(live.deps, cmd[c].owner))
          /\ Goto(c, "read")
     ELSE End(c) /\ UNCHANGED up
  /\ UNCHANGED <<sources, compiled, live, running, propertyd, api, begun, faults, ghosts>>

Announce(c) ==
  /\ last' = cmd[c].owner
  /\ acked' = [acked EXCEPT ![cmd[c].owner] =
               IF \E b \in Commands \ {c} : cmd[b].owner = cmd[c].owner THEN "none"
             ELSE IF cmd[c].action = "enable" THEN "enabled"
             ELSE IF cmd[c].live THEN "stopped" ELSE "disabled"]

\* propertySetEnabledUnit, propertySetEnabledGroup
SetEnabled(c) ==
  /\ enabled' = IF cmd[c].action = "enable" THEN enabled \cup {cmd[c].owner} ELSE enabled \ {cmd[c].owner}
  /\ initialized' = TRUE

\* sys-propertyd is told, and the command is done or goes on to stop the units.
Persist(c) ==
  /\ At(c, "persist")
  /\ SetEnabled(c)
  /\ IF cmd[c].action = "enable" THEN End(c) /\ Announce(c) ELSE Goto(c, "stop") /\ UNCHANGED announced
  /\ UNCHANGED <<sources, s6, api, begun, faults, spoilt, overlap>>

\* A unit that cannot be stopped is passed over.
StopUnits(c) ==
  /\ At(c, "stop")
  /\ running' = running \ UnitsOf(cmd[c].owner)
  /\ End(c) /\ Announce(c)
  /\ UNCHANGED <<sources, compiled, live, up, propertyd, api, begun, faults, spoilt, overlap>>

\* sys-orchestrd starts its units.
OrchestratorStarts(o) ==
  /\ o \in up /\ ~(UnitsOf(o) \subseteq running)
  /\ running' = running \cup UnitsOf(o)
  /\ UNCHANGED <<sources, compiled, live, up, propertyd, cmd, api, begun, faults, ghosts>>

-----------------------------------------------------------------------------
(* refreshPropertyLists of servicectl-api, as far as it fills the enabled list. *)

ApiQueryLists ==
  /\ api.pc = "off"
  /\ api' = [api EXCEPT !.pc = IF initialized THEN "done" ELSE "bundle"]
  /\ UNCHANGED <<sources, s6, propertyd, cmd, begun, faults, ghosts>>

ApiReadBundle ==
  /\ api.pc = "bundle"
  /\ api' = [pc |-> "replace", read |-> StandaloneUnits]
  /\ UNCHANGED <<sources, s6, propertyd, cmd, begun, faults, ghosts>>

ApiReplaceList ==
  /\ api.pc = "replace"
  /\ \/ /\ enabled' = (enabled \cap Groups) \cup api.read /\ initialized' = TRUE
        /\ api' = [pc |-> "done", read |-> {}]
        /\ spoilt' = (spoilt \/ initialized \/ api.read # StandaloneUnits) /\ UNCHANGED faults
     \/ /\ api' = Off /\ Fault   \* an error ends servicectl-api; it is started again
        /\ UNCHANGED <<propertyd, spoilt>>
  /\ UNCHANGED <<sources, s6, cmd, begun, overlap, announced>>

-----------------------------------------------------------------------------
CommandStep(c) ==
  \/ EnsureS6Bundle(c) \/ WriteSource(c) \/ ReadBundle(c) \/ WriteBundle(c) \/ RemoveSource(c)
  \/ ReadRoots(c) \/ WriteDeps(c) \/ ValidateS6Sources(c)
  \/ LiveUpdateS6(c) \/ LiveStartS6(c) \/ LiveStopS6(c) \/ Persist(c) \/ StopUnits(c)

Next ==
  \/ \E c \in Commands :
       \/ \E u \in Units : EnableUnit(c, u) \/ DisableUnit(c, u)
       \/ \E g \in Groups : EnableGroup(c, g) \/ DisableGroup(c, g)
       \/ CommandStep(c) \/ Abort(c)
  \/ \E o \in Owners : OrchestratorStarts(o)
  \/ ApiQueryLists \/ ApiReadBundle \/ ApiReplaceList

Spec == Init /\ [][Next]_vars

-----------------------------------------------------------------------------
TypeOK ==
  /\ core \in {"none", "partial", "done"} /\ dirs \in [Owners -> {"none", "partial", "done"}]
  /\ deps \in [Owners -> SUBSET Owners] /\ bundle \subseteq Owners /\ up \subseteq Owners
  /\ running \subseteq Units /\ enabled \subseteq Owners

(* Whatever fails and wherever a command is cut off, every entry of the      *)
(* bundle has its source directory: a single dangling entry would make every *)
(* later compilation fail.  It may dangle only after two commands have       *)
(* changed the bundle or an owner at once, or a write was cut short.         *)
BundleIsBacked == ~spoilt => bundle \subseteq Done

(* What a command has announced holds in the sources and in sys-propertyd,   *)
(* and after a live command no orchestrator of a disabled owner is up, until *)
(* the next command on that owner: other commands, failed ones included, and *)
(* the first filling of the list do not undo it.                             *)
AckedIsRealised ==
  ~spoilt =>
    \A o \in Owners :
      /\ acked[o] = "enabled" => o \in bundle /\ o \in enabled
      /\ acked[o] \in {"disabled", "stopped"} => o \notin bundle /\ o \notin enabled
      /\ acked[o] = "stopped" => o \notin up

(* Without overlaps, when the last command was on a unit and has succeeded,  *)
(* the orchestrators that have a source depend on each other as the enabled  *)
(* units do, and the sources compile, whatever failed before.                *)
DependenciesMatch ==
  last \in Units /\ ~overlap =>
    Compiles /\ \A o \in ProjectedOwners(EnabledRoots) \cap Done :
                  deps[o] = ProjectDependencies(EnabledRoots, o)

(* What the commands keep, whatever the units, groups and dependencies are.  *)
EnablementSound == TypeOK /\ BundleIsBacked /\ AckedIsRealised /\ DependenciesMatch

(* README.md:139: persistent enablement is stored by the property/group      *)
(* control plane and realized by the s6 backend.  Commands that neither      *)
(* overlap nor meet a fault leave the two in agreement.                      *)
EnablementRealised ==
  ~overlap /\ ~spoilt /\ faults = 0 /\ (\A c \in Commands : cmd[c] = Idle) => enabled = bundle
=============================================================================
