----------------------------- MODULE MCCommands -----------------------------
(***************************************************************************)
(* What servicectl's commands do, each kind on its own, as in CommandParts *)
(* (plane: two enablement commands, one after the other from an older      *)
(* bundle or at once; start, sockets, config, migrate, status and defs).   *)
(***************************************************************************)
EXTENDS CommandParts

CONSTANT Void   \* a model value: what the variables of the other components are

\* Two units, of which the first wants the second, and a group that holds the
\* second.
UnitWants == [u |-> {"v"}, v |-> {}]
GroupMembers == [g |-> {"v"}]
GroupRank == [g |-> 1]

\* Unit snapshots: a running unit, one with a failure, with outdated data or
\* with a child that is not reported, and units without a lifecycle.
RunningSnapshot ==
  [failure |-> FALSE, lifecycle |-> "active", state |-> "STARTED",
   child |-> "running", stale |-> FALSE]
SeenSnapshots ==
  {RunningSnapshot, [RunningSnapshot EXCEPT !.failure = TRUE],
   [RunningSnapshot EXCEPT !.stale = TRUE], [RunningSnapshot EXCEPT !.child = ""]}
  \cup {[RunningSnapshot EXCEPT !.lifecycle = "", !.child = "", !.state = x] : x \in {"", "EXITED"}}

\* Sections of groups.d: a group of its own, one that is also a target's, and
\* one without a name.
GroupSections ==
  {[name |-> "g", units |-> {"s"}, targets |-> {"a"}],
   [name |-> "b", units |-> {"s"}, targets |-> {}],
   [name |-> "", units |-> {"s"}, targets |-> {"c"}]}

NotPlane == <<hard, soft, external, known, defs, action, before, visits, met,
               stops, work, inst, seen, stack, visited, pc, culprits, refused,
               alive, holds, since, tracked, path, force, adaptive, todo,
               found, targets, reused, killed, file, manifest, prev, result,
               commands, edits, admin, spoiled, proc, starts, mpc, cur,
               snapshot, moved, round, state, unit, own, on, runner, changes,
               via, lists, snap, results, verdict, sections, aliases, phase,
               imported, walk, read>>
NotStart == <<core, dirs, deps, bundle, compiled, live, running, enabled,
               initialized, cmd, api, begun, spoilt, overlap, last, acked,
               alive, holds, since, tracked, path, force, adaptive, todo,
               found, targets, reused, killed, file, manifest, prev, result,
               commands, edits, admin, spoiled, proc, starts, mpc, cur,
               snapshot, moved, round, state, unit, own, on, runner, changes,
               via, lists, snap, results, verdict, sections, aliases, phase,
               imported, walk, read>>
NotSockets == <<core, dirs, deps, bundle, compiled, live, up, running,
                 initialized, cmd, api, begun, faults, spoilt, overlap, last,
                 acked, hard, soft, external, known, defs, action, before,
                 visits, met, stops, work, inst, seen, stack, visited,
                 culprits, refused, file, manifest, prev, result, commands,
                 edits, admin, spoiled, proc, starts, mpc, cur, snapshot,
                 moved, round, state, unit, own, on, runner, changes, via,
                 lists, snap, results, verdict, sections, aliases, phase,
                 imported, walk, read>>
NotConfig == <<core, dirs, deps, bundle, compiled, live, up, running, enabled,
                initialized, cmd, api, begun, spoilt, overlap, last, acked,
                hard, soft, external, known, defs, action, before, visits,
                met, stops, work, inst, seen, stack, visited, culprits,
                refused, alive, holds, since, tracked, path, force, adaptive,
                todo, found, targets, reused, killed, proc, starts, mpc, cur,
                snapshot, moved, round, state, unit, own, on, runner, changes,
                via, lists, snap, results, verdict, sections, aliases, phase,
                imported, walk, read>>
NotMigrate == <<core, dirs, deps, bundle, compiled, live, up, running,
                 enabled, initialized, cmd, api, begun, faults, spoilt,
                 overlap, last, acked, hard, soft, external, known, defs,
                 action, before, visits, met, stops, work, inst, seen, stack,
                 visited, pc, culprits, refused, alive, holds, since, tracked,
                 path, force, adaptive, found, targets, killed, file,
                 manifest, prev, result, commands, edits, admin, spoiled,
                 unit, own, on, runner, changes, via, lists, snap, results,
                 verdict, sections, aliases, phase, imported, walk, read>>
NotStatus == <<core, dirs, deps, bundle, compiled, live, up, running, enabled,
                initialized, cmd, api, begun, faults, spoilt, overlap, last,
                acked, hard, soft, external, known, defs, action, before,
                visits, met, stops, work, inst, seen, stack, visited,
                culprits, refused, alive, holds, since, tracked, path, force,
                adaptive, todo, found, targets, reused, killed, file, prev,
                result, commands, edits, admin, spoiled, proc, starts, mpc,
                cur, snapshot, moved, round, state, sections, aliases, phase,
                imported, walk, read>>
NotDefs == <<core, dirs, bundle, compiled, live, up, running, enabled,
              initialized, cmd, api, begun, faults, spoilt, overlap, last,
              acked, hard, soft, external, known, action, before, visits, met,
              stops, work, inst, seen, stack, visited, pc, culprits, refused,
              alive, holds, since, tracked, path, force, adaptive, todo,
              found, targets, reused, killed, file, manifest, prev, result,
              commands, admin, spoiled, proc, starts, mpc, cur, snapshot,
              moved, round, state, unit, own, on, runner, changes, via, lists,
              snap, results, verdict>>

MCInit ==
  \/ /\ PlaneInit
     /\ hard = Void /\ soft = Void /\ external = Void /\ known = Void
     /\ defs = Void /\ action = Void /\ before = Void /\ visits = Void
     /\ met = Void /\ stops = Void /\ work = Void /\ inst = Void /\ seen = Void
     /\ stack = Void /\ visited = Void /\ pc = Void /\ culprits = Void
     /\ refused = Void /\ alive = Void /\ holds = Void /\ since = Void
     /\ tracked = Void /\ path = Void /\ force = Void /\ adaptive = Void
     /\ todo = Void /\ found = Void /\ targets = Void /\ reused = Void
     /\ killed = Void /\ file = Void /\ manifest = Void /\ prev = Void
     /\ result = Void /\ commands = Void /\ edits = Void /\ admin = Void
     /\ spoiled = Void /\ proc = Void /\ starts = Void /\ mpc = Void
     /\ cur = Void /\ snapshot = Void /\ moved = Void /\ round = Void
     /\ state = Void /\ unit = Void /\ own = Void /\ on = Void /\ runner = Void
     /\ changes = Void /\ via = Void /\ lists = Void /\ snap = Void
     /\ results = Void /\ verdict = Void /\ sections = Void /\ aliases = Void
     /\ phase = Void /\ imported = Void /\ walk = Void
     /\ read = Void
  \/ /\ StartInit
     /\ core = Void /\ dirs = Void /\ deps = Void /\ bundle = Void
     /\ compiled = Void /\ live = Void /\ running = Void /\ enabled = Void
     /\ initialized = Void /\ cmd = Void /\ api = Void /\ begun = Void
     /\ spoilt = Void /\ overlap = Void /\ last = Void /\ acked = Void
     /\ alive = Void /\ holds = Void /\ since = Void /\ tracked = Void
     /\ path = Void /\ force = Void /\ adaptive = Void /\ todo = Void
     /\ found = Void /\ targets = Void /\ reused = Void /\ killed = Void
     /\ file = Void /\ manifest = Void /\ prev = Void /\ result = Void
     /\ commands = Void /\ edits = Void /\ admin = Void /\ spoiled = Void
     /\ proc = Void /\ starts = Void /\ mpc = Void /\ cur = Void
     /\ snapshot = Void /\ moved = Void /\ round = Void /\ state = Void
     /\ unit = Void /\ own = Void /\ on = Void /\ runner = Void
     /\ changes = Void /\ via = Void /\ lists = Void /\ snap = Void
     /\ results = Void /\ verdict = Void /\ sections = Void /\ aliases = Void
     /\ phase = Void /\ imported = Void /\ walk = Void
     /\ read = Void
  \/ /\ SocketsInit
     /\ core = Void /\ dirs = Void /\ deps = Void /\ bundle = Void
     /\ compiled = Void /\ live = Void /\ up = Void /\ running = Void
     /\ initialized = Void /\ cmd = Void /\ api = Void /\ begun = Void
     /\ faults = Void /\ spoilt = Void /\ overlap = Void /\ last = Void
     /\ acked = Void /\ hard = Void /\ soft = Void /\ external = Void
     /\ known = Void /\ defs = Void /\ action = Void /\ before = Void
     /\ visits = Void /\ met = Void /\ stops = Void /\ work = Void
     /\ inst = Void /\ seen = Void /\ stack = Void /\ visited = Void
     /\ culprits = Void /\ refused = Void /\ file = Void /\ manifest = Void
     /\ prev = Void /\ result = Void /\ commands = Void /\ edits = Void
     /\ admin = Void /\ spoiled = Void /\ proc = Void /\ starts = Void
     /\ mpc = Void /\ cur = Void /\ snapshot = Void /\ moved = Void
     /\ round = Void /\ state = Void /\ unit = Void /\ own = Void /\ on = Void
     /\ runner = Void /\ changes = Void /\ via = Void /\ lists = Void
     /\ snap = Void /\ results = Void /\ verdict = Void /\ sections = Void
     /\ aliases = Void /\ phase = Void /\ imported = Void /\ walk = Void
     /\ read = Void
  \/ /\ ConfigInit
     /\ core = Void /\ dirs = Void /\ deps = Void /\ bundle = Void
     /\ compiled = Void /\ live = Void /\ up = Void /\ running = Void
     /\ enabled = Void /\ initialized = Void /\ cmd = Void /\ api = Void
     /\ begun = Void /\ spoilt = Void /\ overlap = Void /\ last = Void
     /\ acked = Void /\ hard = Void /\ soft = Void /\ external = Void
     /\ known = Void /\ defs = Void /\ action = Void /\ before = Void
     /\ visits = Void /\ met = Void /\ stops = Void /\ work = Void
     /\ inst = Void /\ seen = Void /\ stack = Void /\ visited = Void
     /\ culprits = Void /\ refused = Void /\ alive = Void /\ holds = Void
     /\ since = Void /\ tracked = Void /\ path = Void /\ force = Void
     /\ adaptive = Void /\ todo = Void /\ found = Void /\ targets = Void
     /\ reused = Void /\ killed = Void /\ proc = Void /\ starts = Void
     /\ mpc = Void /\ cur = Void /\ snapshot = Void /\ moved = Void
     /\ round = Void /\ state = Void /\ unit = Void /\ own = Void /\ on = Void
     /\ runner = Void /\ changes = Void /\ via = Void /\ lists = Void
     /\ snap = Void /\ results = Void /\ verdict = Void /\ sections = Void
     /\ aliases = Void /\ phase = Void /\ imported = Void /\ walk = Void
     /\ read = Void
  \/ /\ MigrateInit
     /\ core = Void /\ dirs = Void /\ deps = Void /\ bundle = Void
     /\ compiled = Void /\ live = Void /\ up = Void /\ running = Void
     /\ enabled = Void /\ initialized = Void /\ cmd = Void /\ api = Void
     /\ begun = Void /\ faults = Void /\ spoilt = Void /\ overlap = Void
     /\ last = Void /\ acked = Void /\ hard = Void /\ soft = Void
     /\ external = Void /\ known = Void /\ defs = Void /\ action = Void
     /\ before = Void /\ visits = Void /\ met = Void /\ stops = Void
     /\ work = Void /\ inst = Void /\ seen = Void /\ stack = Void
     /\ visited = Void /\ pc = Void /\ culprits = Void /\ refused = Void
     /\ alive = Void /\ holds = Void /\ since = Void /\ tracked = Void
     /\ path = Void /\ force = Void /\ adaptive = Void /\ found = Void
     /\ targets = Void /\ killed = Void /\ file = Void /\ manifest = Void
     /\ prev = Void /\ result = Void /\ commands = Void /\ edits = Void
     /\ admin = Void /\ spoiled = Void /\ unit = Void /\ own = Void /\ on = Void
     /\ runner = Void /\ changes = Void /\ via = Void /\ lists = Void
     /\ snap = Void /\ results = Void /\ verdict = Void /\ sections = Void
     /\ aliases = Void /\ phase = Void /\ imported = Void /\ walk = Void
     /\ read = Void
  \/ /\ StatusInit
     /\ core = Void /\ dirs = Void /\ deps = Void /\ bundle = Void
     /\ compiled = Void /\ live = Void /\ up = Void /\ running = Void
     /\ enabled = Void /\ initialized = Void /\ cmd = Void /\ api = Void
     /\ begun = Void /\ faults = Void /\ spoilt = Void /\ overlap = Void
     /\ last = Void /\ acked = Void /\ hard = Void /\ soft = Void
     /\ external = Void /\ known = Void /\ defs = Void /\ action = Void
     /\ before = Void /\ visits = Void /\ met = Void /\ stops = Void
     /\ work = Void /\ inst = Void /\ seen = Void /\ stack = Void
     /\ visited = Void /\ culprits = Void /\ refused = Void /\ alive = Void
     /\ holds = Void /\ since = Void /\ tracked = Void /\ path = Void
     /\ force = Void /\ adaptive = Void /\ todo = Void /\ found = Void
     /\ targets = Void /\ reused = Void /\ killed = Void /\ file = Void
     /\ prev = Void /\ result = Void /\ commands = Void /\ edits = Void
     /\ admin = Void /\ spoiled = Void /\ proc = Void /\ starts = Void
     /\ mpc = Void /\ cur = Void /\ snapshot = Void /\ moved = Void
     /\ round = Void /\ state = Void /\ sections = Void /\ aliases = Void
     /\ phase = Void /\ imported = Void /\ walk = Void
     /\ read = Void
  \/ /\ DefsInit
     /\ core = Void /\ dirs = Void /\ bundle = Void /\ compiled = Void
     /\ live = Void /\ up = Void /\ running = Void /\ enabled = Void
     /\ initialized = Void /\ cmd = Void /\ api = Void /\ begun = Void
     /\ faults = Void /\ spoilt = Void /\ overlap = Void /\ last = Void
     /\ acked = Void /\ hard = Void /\ soft = Void /\ external = Void
     /\ known = Void /\ action = Void /\ before = Void /\ visits = Void
     /\ met = Void /\ stops = Void /\ work = Void /\ inst = Void /\ seen = Void
     /\ stack = Void /\ visited = Void /\ pc = Void /\ culprits = Void
     /\ refused = Void /\ alive = Void /\ holds = Void /\ since = Void
     /\ tracked = Void /\ path = Void /\ force = Void /\ adaptive = Void
     /\ todo = Void /\ found = Void /\ targets = Void /\ reused = Void
     /\ killed = Void /\ file = Void /\ manifest = Void /\ prev = Void
     /\ result = Void /\ commands = Void /\ admin = Void /\ spoiled = Void
     /\ proc = Void /\ starts = Void /\ mpc = Void /\ cur = Void
     /\ snapshot = Void /\ moved = Void /\ round = Void /\ state = Void
     /\ unit = Void /\ own = Void /\ on = Void /\ runner = Void
     /\ changes = Void /\ via = Void /\ lists = Void /\ snap = Void
     /\ results = Void /\ verdict = Void

MCNext ==
  \/ PlaneNext /\ UNCHANGED NotPlane
  \/ StartNext /\ UNCHANGED NotStart
  \/ SocketsNext /\ UNCHANGED NotSockets
  \/ ConfigNext /\ UNCHANGED NotConfig
  \/ MigrateNext /\ UNCHANGED NotMigrate
  \/ StatusNext /\ UNCHANGED NotStatus
  \/ DefsNext /\ UNCHANGED NotDefs

MCSpec == MCInit /\ [][MCNext]_partVars
=============================================================================
