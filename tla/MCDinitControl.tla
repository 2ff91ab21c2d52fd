-------------------------- MODULE MCDinitControl ---------------------------
EXTENDS DinitControl
MCRequests == {[act |-> "start", nowait |-> FALSE, ignore |-> FALSE],
               [act |-> "restart", nowait |-> FALSE, ignore |-> FALSE],
               [act |-> "stop", nowait |-> FALSE, ignore |-> TRUE],
               [act |-> "setenv", nowait |-> FALSE, ignore |-> FALSE],
               [act |-> "unload", nowait |-> TRUE, ignore |-> FALSE],
               [act |-> "reload", nowait |-> TRUE, ignore |-> FALSE]}
=============================================================================
