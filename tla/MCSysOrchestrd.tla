--------------------------- MODULE MCSysOrchestrd ---------------------------
(* Finite instances of SysOrchestrd for TLC: the units of the group. *)
EXTENDS SysOrchestrd

OneUnit == <<"a">>
=============================================================================
