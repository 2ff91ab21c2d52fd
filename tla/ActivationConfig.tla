-------------------------- MODULE ActivationConfig --------------------------
(***************************************************************************)
(* servicectl dbus-activation (dbus_activation_cli.go): enable puts a file *)
(* of its own in the place of the administrator's D-Bus configuration and  *)
(* keeps what was there in a manifest; disable puts it back.  A file is    *)
(* written by renaming a temporary one and syncing the directory, and each *)
(* of these may fail; a command may be killed between two steps.           *)
(***************************************************************************)
EXTENDS Integers

CONSTANTS
  MaxEdits,   \* bound: changes the administrator makes
  MaxFaults,  \* bound: failing writes, removals and syncs, kills
  MaxCommands \* bound: commands

Absent == 0            \* no file
Managed == -1          \* the file that enable writes
Contents == -1 .. MaxEdits \* the others are the administrator's versions
None == [ok |-> FALSE, prev |-> Absent]

VARIABLES
  file, manifest,      \* on disk
  pc, prev,            \* the running command, and what it has read
  result, commands, edits, faults,
  admin,               \* ghost: what the administrator last left there
  spoiled              \* ghost: a failure has happened that the command does not undo

disk == <<file, manifest>>
vars == <<disk, pc, prev, result, commands, edits, faults, admin, spoiled>>

Init ==
  /\ file \in {Absent, 1} /\ admin = file /\ edits = file /\ manifest = None
  /\ pc = "idle" /\ prev = Absent /\ result = "none" /\ commands = 0 /\ faults = 0 /\ spoiled = FALSE

End(r) == pc' = "idle" /\ result' = r
Fault == faults < MaxFaults /\ faults' = faults + 1

Edit(v) ==   \* the administrator changes or removes the file
  /\ edits < MaxEdits /\ edits' = edits + 1 /\ v \in {Absent, edits + 1} /\ v # file
  /\ file' = v /\ admin' = v /\ spoiled' = (spoiled \/ pc # "idle")
  /\ UNCHANGED <<manifest, pc, prev, result, commands, faults>>

\* Either command refuses to start: the preflight fails, or a file cannot be
\* read or is not the regular file expected there.
ReadFails ==
  /\ pc = "idle" /\ commands < MaxCommands /\ commands' = commands + 1
  /\ Fault /\ End("error")
  /\ UNCHANGED <<disk, prev, edits, admin, spoiled>>

-----------------------------------------------------------------------------
(* enableDaemonActivation *)

Enable ==
  /\ pc = "idle" /\ commands < MaxCommands /\ commands' = commands + 1
  /\ IF manifest.ok THEN End("error") /\ UNCHANGED prev
     ELSE prev' = file /\ pc' = "config" /\ result' = "none"
  /\ UNCHANGED <<disk, edits, faults, admin, spoiled>>

WriteConfig ==
  /\ pc = "config" /\ file' = Managed /\ pc' = "manifest"
  /\ UNCHANGED <<manifest, prev, result, commands, edits, faults, admin, spoiled>>

\* The rename is done or not when atomicWriteFile returns an error; nothing is undone.
WriteConfigFails(renamed) ==
  /\ pc = "config" /\ Fault /\ End("error")
  /\ file' = IF renamed THEN Managed ELSE file
  /\ spoiled' = (spoiled \/ renamed)
  /\ UNCHANGED <<manifest, prev, commands, edits, admin>>

WriteManifest ==
  /\ pc = "manifest" /\ manifest' = [ok |-> TRUE, prev |-> prev] /\ End("enabled")
  /\ UNCHANGED <<file, prev, commands, edits, faults, admin, spoiled>>

WriteManifestFails(renamed) ==
  /\ pc = "manifest" /\ Fault /\ pc' = "rollback"
  /\ manifest' = IF renamed THEN [ok |-> TRUE, prev |-> prev] ELSE manifest
  /\ UNCHANGED <<file, prev, result, commands, edits, admin, spoiled>>

\* rollbackDaemonConfig, whose own errors are ignored.
Rollback ==
  /\ pc = "rollback" /\ file' = prev /\ End("error")
  /\ UNCHANGED <<manifest, prev, commands, edits, faults, admin, spoiled>>

RollbackFails ==
  /\ pc = "rollback" /\ Fault /\ End("error") /\ spoiled' = TRUE
  /\ UNCHANGED <<disk, prev, commands, edits, admin>>

-----------------------------------------------------------------------------
(* disableDBusActivation *)

DisableBlind ==   \* faulty variant: a changed file is overwritten
  /\ pc = "idle" /\ commands < MaxCommands /\ commands' = commands + 1
  /\ IF ~manifest.ok THEN End("error") ELSE pc' = "restore" /\ result' = "none"
  /\ UNCHANGED <<disk, prev, edits, faults, admin, spoiled>>

Disable ==
  /\ pc = "idle" /\ commands < MaxCommands /\ commands' = commands + 1
  /\ IF ~manifest.ok \/ file = Absent THEN End("error")
     ELSE IF file # Managed THEN End("changed")
     ELSE pc' = "restore" /\ result' = "none"
  /\ UNCHANGED <<disk, prev, edits, faults, admin, spoiled>>

Restore ==
  /\ pc = "restore" /\ file' = manifest.prev /\ pc' = "forget"
  /\ UNCHANGED <<manifest, prev, result, commands, edits, faults, admin, spoiled>>

RestoreFails(renamed) ==
  /\ pc = "restore" /\ Fault /\ End("error")
  /\ renamed => manifest.prev # Absent   \* a removal is done or not
  /\ file' = IF renamed THEN manifest.prev ELSE file
  /\ UNCHANGED <<manifest, prev, commands, edits, admin, spoiled>>

Forget ==
  /\ pc = "forget" /\ manifest' = None /\ End("disabled")
  /\ UNCHANGED <<file, prev, commands, edits, faults, admin, spoiled>>

\* The manifest cannot be removed: the managed file comes back, if it can.
ForgetFails(restored) ==
  /\ pc = "forget" /\ Fault /\ End("error")
  /\ file' = IF restored THEN Managed ELSE file
  /\ UNCHANGED <<manifest, prev, commands, edits, admin, spoiled>>

\* A kill leaves the disk as it is; between the two writes of enable the
\* previous content is in no file.
Crash ==
  /\ pc # "idle" /\ Fault /\ End("killed") /\ spoiled' = (spoiled \/ pc \in {"manifest", "rollback"})
  /\ UNCHANGED <<disk, prev, commands, edits, admin>>

Next ==
  \/ ReadFails \/ Enable \/ WriteConfig \/ WriteManifest \/ Rollback \/ RollbackFails
  \/ Disable \/ Restore \/ Forget \/ Crash
  \/ \E v \in Contents : Edit(v)
  \/ \E b \in BOOLEAN : WriteConfigFails(b) \/ WriteManifestFails(b) \/ RestoreFails(b) \/ ForgetFails(b)

Spec == Init /\ [][Next]_vars

-----------------------------------------------------------------------------
\* printDBusActivationStatus: what the files say.
Status ==
  IF ~manifest.ok THEN IF file = Absent THEN "disabled" ELSE "unmanaged"
  ELSE IF file = Managed THEN "enabled" ELSE "changed"

(* Between commands the administrator's content is in place, or status says  *)
(* enabled and the manifest has it, whatever write, sync or removal failed   *)
(* and whatever was changed between two commands.  Excepted are a kill       *)
(* between the two writes of enable, a sync that fails after the rename, a   *)
(* rollback that fails and a change made while a command runs.               *)
AdminContentKept ==
  pc = "idle" /\ ~spoiled => admin = IF Status = "enabled" THEN manifest.prev ELSE file
=============================================================================
