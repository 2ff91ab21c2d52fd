----------------------------- MODULE CommandParts ----------------------------
(***************************************************************************)
(* What servicectl's commands change, each kind on its own: a behaviour is *)
(* one of enablement (EnablePlane), of a start or restart (UnitStart), of  *)
(* the removal of stale sockets (SocketHolders), of the D-Bus activation   *)
(* configuration (ActivationConfig), of a migration into a cgroup          *)
(* (CgroupMigrate) or of a status command (StatusModel); or else of        *)
(* reloads of the definitions that the commands ask sys-propertyd for      *)
(* (PropertyDefinitions).  CommandProofs proves what each keeps, and       *)
(* MCCommands checks it.                                                   *)
(***************************************************************************)
EXTENDS EnablePlane

CONSTANTS
  N, Target,       \* of UnitStart, as the next two lines
  External, Oneshot,
  MaxEdges, StartFaults,
  Pids,            \* of the holders of sockets, and of the processes to migrate
  Owner, MaxReuse, \* of SocketHolders
  MaxEdits,        \* of ActivationConfig, as the next two
  ConfigCommands, ConfigFaults,
  MaxStarts, MaxRounds,  \* of CgroupMigrate
  Holders, Snapshots, MaxChanges, MaxBad,  \* of StatusModel
  TargetNames, Services, Sections, DefEdits  \* of PropertyDefinitions

VARIABLES
  part,   \* the kind of command
  hard, soft, external, known, defs, action, before, visits, met, stops, work,
  inst, seen, stack, visited, culprits, refused,
  alive, holds, since, tracked, path, force, adaptive, todo, found, targets,
  pc, reused, killed, file, manifest, prev, result, commands, edits, admin,
  spoiled, proc, starts, mpc, cur, snapshot, moved, round, state,
  unit, own, on, runner, changes, via, lists, snap, results, verdict,
  sections, aliases, phase, imported, walk, read

Start == INSTANCE UnitStart WITH MaxFaults <- StartFaults
Sockets == INSTANCE SocketHolders
Config == INSTANCE ActivationConfig WITH MaxCommands <- ConfigCommands, MaxFaults <- ConfigFaults
Migrate == INSTANCE CgroupMigrate
Status == INSTANCE StatusModel
Defs == INSTANCE PropertyDefinitions WITH MaxEdits <- DefEdits

ASSUME PartsAssumption ==
  /\ Parameters /\ Start!Parameters /\ Migrate!Parameters /\ Status!Parameters
  /\ Defs!Parameters

partVars ==
  <<part, vars, Start!vars, Sockets!vars, Config!vars, Migrate!vars, Status!vars,
    Defs!vars>>

PlaneInit == part = "plane" /\ Init
StartInit == part = "start" /\ Start!Init
SocketsInit == part = "sockets" /\ Sockets!Init
ConfigInit == part = "config" /\ Config!Init
MigrateInit == part = "migrate" /\ Migrate!Init
StatusInit == part = "status" /\ Status!Init
DefsInit == part = "defs" /\ Defs!Init
PartInit ==
  \/ PlaneInit \/ StartInit \/ SocketsInit \/ ConfigInit \/ MigrateInit
  \/ StatusInit \/ DefsInit

PlaneNext == part = "plane" /\ Next /\ UNCHANGED part
StartNext == part = "start" /\ Start!Next /\ UNCHANGED part
SocketsNext == part = "sockets" /\ Sockets!Next /\ UNCHANGED part
ConfigNext == part = "config" /\ Config!Next /\ UNCHANGED part
MigrateNext == part = "migrate" /\ Migrate!Next /\ UNCHANGED part
StatusNext == part = "status" /\ Status!Next /\ UNCHANGED part
DefsNext == part = "defs" /\ Defs!Next /\ UNCHANGED part
PartNext ==
  \/ PlaneNext \/ StartNext \/ SocketsNext \/ ConfigNext \/ MigrateNext
  \/ StatusNext \/ DefsNext

PartSpec == PartInit /\ [][PartNext]_partVars

-----------------------------------------------------------------------------
(* Enablement: although commands end anywhere, what the bundle lists has a   *)
(* complete source, what a command announced holds in the sources and in     *)
(* sys-propertyd, and after a unit's command the dependencies of the sources *)
(* agree with the enabled owners (main.go, group_cli.go, s6_backend.go).     *)
EnablementKept == part = "plane" => EnablementSound

(* Start and restart: on every graph the recursion is bounded, definitions   *)
(* are written after those they depend on, stops come in an order Dinit      *)
(* accepts, a restart restores what ran, and a failure has a cause that the  *)
(* command could not do without (main.go, deps.go, dinit_gen.go).            *)
StartSound ==
  part = "start" => /\ Start!RecursionBounded /\ Start!DependenciesInstalledFirst
                    /\ Start!StopsAccepted /\ Start!RestartRestores /\ Start!FailureHasCause

(* Stale sockets: a path is removed only when its holders have ended, and    *)
(* only processes that the policy allows are killed                          *)
(* (cleanupSocketActivationState).                                           *)
HoldersSound == part = "sockets" => Sockets!HoldersSound

(* Activation configuration: what the administrator left there is kept       *)
(* (enableDaemonActivation, disableDBusActivation).                          *)
AdminContentKept == part = "config" => Config!AdminContentKept

(* Migration: "tracked" means that no descendant is outside of the cgroup    *)
(* (internal/cgrouptrack/migrate.go).                                        *)
TrackedIsComplete == part = "migrate" => Migrate!TypeOK /\ Migrate!TrackedIsComplete

(* Status: a manifest that was built passes the validation, an accepted one  *)
(* has the shape the renderer relies on, and the health that is shown        *)
(* follows from what the probes saw (status_collect.go, status_manifest.go,  *)
(* internal/statusview/model.go).                                            *)
StatusSound ==
  part = "status" => /\ Status!TypeOK /\ Status!BuiltManifestsValidate
                     /\ Status!AcceptedIsSound /\ Status!HealthFollowsEvidence

(* Definitions: whatever is edited between the reads of a reload, a target   *)
(* that is in use has a group that is in use, and the group imported from a  *)
(* target holds the services that the target reaches (sys-propertyd's        *)
(* main.go, target_import.go).                                               *)
DefinitionsSound ==
  part = "defs" => Defs!TypeOK /\ Defs!QueriesAgree /\ Defs!ImportIsReachable
=============================================================================
