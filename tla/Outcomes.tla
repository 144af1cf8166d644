------------------------------ MODULE Outcomes ------------------------------
(***************************************************************************)
(* What executing a command can lead to (dmcp_command_executor_fn of       *)
(* adapters/common/include/dmcp/adapters/common/queue.h): whether it is    *)
(* reported as executed, which thing it damaged (0 for none), and the      *)
(* world it leaves behind.                                                 *)
(***************************************************************************)
Done(w) == {[ok |-> TRUE, hit |-> 0, world |-> w]}
Failed(w) == {[ok |-> FALSE, hit |-> 0, world |-> w]}
=============================================================================
