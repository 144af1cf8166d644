-------------------------- MODULE MCCommandPipeline -------------------------
(***************************************************************************)
(* Small instances of CommandPipeline for TLC.                             *)
(***************************************************************************)
EXTENDS CommandPipeline, TLC

CONSTANTS
  w1, w2,          \* worker threads
  give, pause,     \* a plain and a coalescible command type
  health,          \* a coalescible type that the permissions refuse
  input            \* DMCP_CMD_PLAYER_INPUT

TwoWorkers == {w1, w2}
AllTypes   == {give, pause, health}
Coalesced  == {pause, health}
Denied     == {health}
WorkerSymmetry == Permutations(TwoWorkers)
=============================================================================
