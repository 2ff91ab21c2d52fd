------------------------ MODULE PropertyDefinitions ------------------------
(***************************************************************************)
(* sys-propertyd's group and target definitions: imported from systemd's   *)
(* .target units, overridden by groups.d and targets.d, checked as a whole *)
(* and swapped in by a reload.  Files are edited at any time, also between *)
(* two reads of one reload.  A target and the group imported from it have  *)
(* the same name here ("a.target" and "a").                                *)
(***************************************************************************)
EXTENDS Integers, Sequences

CONSTANTS TargetNames,   \* names of targets, and of the groups made of them
          Services,      \* names of services
          Sections,      \* the [Group] sections that occur in groups.d
          MaxEdits       \* bound: edits of the files

Parameters == "" \notin TargetNames

VARIABLES
  deps,      \* .target files, .wants and .requires: what a target pulls in
  sections,  \* groups.d: the sections in reading order
  aliases,   \* targets.d: a function from targets to group names
  phase,     \* what the reload does next, or "idle", "down"
  imported,  \* what it has read of the .target files (loadTargetDefinitions)
  walk,      \* the target whose services it collects, and the targets left
  read,      \* what the reload has read so far
  defs,      \* the definitions in use
  edits

vars == <<deps, sections, aliases, phase, imported, walk, read, defs, edits>>

GroupNames == (TargetNames \cup {s.name : s \in Sections}) \ {""}
NoEntries == [n \in {} |-> n]
Nothing == [groups |-> NoEntries, targets |-> NoEntries]
Unloaded == [groups |-> NoEntries, targets |-> NoEntries, loaded |-> FALSE]
NoImport == [t \in TargetNames |-> {}]
NoWalk == [left |-> {}, of |-> "", visited |-> {}, pending |-> {}, units |-> {}]

-----------------------------------------------------------------------------
Override(base, overrides) ==
  [n \in DOMAIN base \cup DOMAIN overrides |->
     IF n \in DOMAIN overrides THEN overrides[n] ELSE base[n]]

\* flush: a section without a name is not a group, and what it listed stays
\* in "current" for the section that follows.
Flushed(ss) == {i \in DOMAIN ss : ss[i].name # ""}
Current(ss, i) ==
  LET gathered == {j \in 1 .. i : \A k \in j .. i - 1 : ss[k].name = ""}
  IN  [units |-> UNION {ss[j].units : j \in gathered},
       targets |-> UNION {ss[j].targets : j \in gathered}]

\* Of two sections for a group, or a target, the later one counts.
Last(is) == CHOOSE i \in is : \A j \in is : j <= i
ParseGroupConfig(ss) ==
  [groups |-> [g \in {ss[i].name : i \in Flushed(ss)} |->
                 Current(ss, Last({i \in Flushed(ss) : ss[i].name = g})).units],
   targets |-> [t \in UNION {Current(ss, i).targets : i \in Flushed(ss)} |->
                  ss[Last({i \in Flushed(ss) : t \in Current(ss, i).targets})].name]]

ValidateTargetGroups(groups, targets) ==
  \A t \in DOMAIN targets : targets[t] \in DOMAIN groups

-----------------------------------------------------------------------------
(* The queries.                                                            *)

ResolveVirtual(target) ==
  IF target \in DOMAIN defs.targets THEN {defs.targets[target]} ELSE {}
Group(g) == IF g \in DOMAIN defs.groups THEN {defs.groups[g]} ELSE {}
UnitGroups(u) == {g \in DOMAIN defs.groups : u \in defs.groups[g]}

-----------------------------------------------------------------------------
TypeOK ==
  /\ deps \in [TargetNames -> SUBSET (TargetNames \cup Services)]
  /\ phase \in {"import", "resolve", "groups", "targets", "idle", "down"}
  /\ DOMAIN defs.groups \subseteq GroupNames

Init ==
  /\ deps = NoImport /\ sections = <<>> /\ aliases = NoEntries /\ edits = 0
  /\ phase = "import" /\ imported = NoImport /\ walk = NoWalk
  /\ read = Nothing /\ defs = Unloaded

\* Someone edits a file.
Edit ==
  /\ edits < MaxEdits /\ edits' = edits + 1
  /\ \/ /\ \E t \in TargetNames : \E d \in (TargetNames \ {t}) \cup Services :
             deps' = [deps EXCEPT ![t] =
                        IF d \in @ THEN @ \ {d} ELSE @ \cup {d}]
        /\ UNCHANGED <<sections, aliases>>
     \/ /\ \E s \in Sections : sections' = Append(sections, s)
        /\ UNCHANGED <<deps, aliases>>
     \/ /\ sections # <<>> /\ sections' = Tail(sections)
        /\ UNCHANGED <<deps, aliases>>
     \/ /\ \E t \in TargetNames, g \in GroupNames : 
          aliases' = Override(aliases, [n \in {t} |-> g])
        /\ UNCHANGED <<deps, sections>>
     \/ aliases # NoEntries /\ aliases' = NoEntries /\ UNCHANGED <<deps, sections>>
  /\ UNCHANGED <<phase, imported, walk, read, defs>>

\* handleReload, and run at startup: under the lock.
Reload ==
  /\ phase = "idle" /\ phase' = "import"
  /\ UNCHANGED <<deps, sections, aliases, imported, walk, read, defs, edits>>

\* importSystemdTargets: the targets one after the other, each with a set of
\* visited ones of its own.
Resolve(left) ==
  IF left = {} THEN phase' = "groups" /\ walk' = NoWalk
  ELSE LET t == CHOOSE n \in left : TRUE
       IN  /\ phase' = "resolve"
           /\ walk' = [left |-> left \ {t}, of |-> t, visited |-> {},
                       pending |-> {t}, units |-> {}]

ReloadImport ==
  /\ phase = "import" /\ Resolve(TargetNames)
  /\ imported' = deps
  /\ UNCHANGED <<deps, sections, aliases, read, defs, edits>>

\* One call of resolveTargetServices, which calls itself for the targets
\* pulled in; a call for a visited one returns at once.
VisitNear(t) ==
  /\ phase = "resolve" /\ t \in walk.pending
  /\ walk' = [walk EXCEPT
       !.visited = @ \cup {t}, !.units = @ \cup (imported[t] \cap Services),
       !.pending = IF t = walk.of THEN (imported[t] \cap TargetNames) \ {t}
                   ELSE @ \ {t}]
  /\ UNCHANGED <<deps, sections, aliases, phase, imported, read, defs, edits>>

Visit(t) ==
  /\ phase = "resolve" /\ t \in walk.pending
  /\ LET visited == walk.visited \cup {t}
     IN  walk' = [walk EXCEPT
           !.visited = visited, !.units = @ \cup (imported[t] \cap Services),
           !.pending = (@ \cup (imported[t] \cap TargetNames)) \ visited]
  /\ UNCHANGED <<deps, sections, aliases, phase, imported, read, defs, edits>>

\* A target without services makes no group.
TargetResolved ==
  /\ phase = "resolve" /\ walk.pending = {} /\ Resolve(walk.left)
  /\ LET named == {t \in {walk.of} : walk.units # {}}
     IN  read' = [groups |-> Override(read.groups, [t \in named |-> walk.units]),
                  targets |-> Override(read.targets, [t \in named |-> t])]
  /\ UNCHANGED <<deps, sections, aliases, imported, defs, edits>>

ReloadGroups ==
  /\ phase = "groups" /\ phase' = "targets"
  /\ LET parsed == ParseGroupConfig(sections)
     IN  read' = [groups |-> Override(read.groups, parsed.groups),
                  targets |-> Override(read.targets, parsed.targets)]
  /\ imported' = NoImport
  /\ UNCHANGED <<deps, sections, aliases, walk, defs, edits>>

\* A reload that does not validate, or cannot read a file, leaves the
\* definitions in use alone; the first one ends the daemon.
ReloadFails ==
  /\ phase' = IF defs.loaded THEN "idle" ELSE "down"
  /\ read' = Nothing /\ imported' = NoImport /\ UNCHANGED <<walk, defs>>

ReloadTargets ==
  /\ phase = "targets"
  /\ LET targets == Override(read.targets, aliases)
     IN  IF ValidateTargetGroups(read.groups, targets)
           THEN /\ defs' = [groups |-> read.groups, targets |-> targets,
                           loaded |-> TRUE]
                /\ phase' = "idle" /\ read' = Nothing
                /\ UNCHANGED <<imported, walk>>
           ELSE ReloadFails
  /\ UNCHANGED <<deps, sections, aliases, edits>>

FileError ==
  /\ phase \in {"import", "groups", "targets"}
  /\ ReloadFails
  /\ UNCHANGED <<deps, sections, aliases, edits>>

Next ==
  \/ Edit \/ Reload \/ ReloadImport \/ (\E t \in TargetNames : Visit(t))
  \/ TargetResolved \/ ReloadGroups \/ ReloadTargets \/ FileError

Spec == Init /\ [][Next]_vars

-----------------------------------------------------------------------------
\* The queries agree whatever files a reload has met, in whatever states of
\* an edit: the group a target resolves to is one /v1/group/ knows, and each
\* of its units finds it again through /v1/unit-groups/.
QueriesAgree ==
  \A t \in TargetNames : \A g \in ResolveVirtual(t) :
    /\ Group(g) # {}
    /\ \A units \in Group(g) : \A u \in units : g \in UnitGroups(u)

\* A group imported from a target holds exactly the services that can be
\* reached from the target through any number of other targets, although
\* targets may pull in each other in cycles and the walk enters each once.
Reached(t) ==
  {s \in Services : \A S \in SUBSET TargetNames :
     (t \in S /\ \A x \in S : imported[x] \cap TargetNames \subseteq S)
       => \E x \in S : s \in imported[x]}
ImportIsReachable ==
  phase = "groups" => \A t \in TargetNames :
    (IF t \in DOMAIN read.groups THEN read.groups[t] ELSE {}) = Reached(t)
=============================================================================
