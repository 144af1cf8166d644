--------------------------- MODULE CommandIntake ---------------------------
(***************************************************************************)
(* From a call of a command tool to a queued command (common.cpp and       *)
(* execute_batch.cpp): parse, validate against the snapshot that is        *)
(* published at that moment, and push, which asks for the permissions.     *)
(* Each operator answers with the set of commands that can be queued, {}   *)
(* for a refusal.  Of a snapshot only the version and the maps matter.     *)
(***************************************************************************)
EXTENDS CommandParsing, Content, Permissions

(* Every name of the tables fits the buffers of a command. *)
ASSUME NamesAssumption == TooLong \notin AllWeapons \cup AllItems \cup AllEnemies

(* A snapshot copied before the first publication. *)
Empty == [version |-> "", maps |-> {}, enemies |-> << >>, entities |-> << >>,
          inventory |-> << >>]

(* validate_command_for_mode *)
ValidForMode(snap, c) ==
  LET mode == ResolveGameMode(snap.version, "")
  IN CASE c.type = "spawn_entity" -> c.entity_class \in EnemiesOf(mode) \cup ItemsOf(mode)
       [] c.type = "give_item"    -> c.item_class \in ItemsOf(mode)
       [] c.type = "change_level" -> MapIsAvailable(c.map_name, snap.maps, mode)
       [] OTHER                   -> TRUE

(* queue_command_from_json *)
Queued(config, snap, type, args) ==
  {c \in ParseCommand(type, args) : ValidForMode(snap, c) /\ CommandAllowed(config, c)}

(* A call of its own: the dispatcher has asked for the tool's permission. *)
SingleCall(config, snap, tool, args) ==
  IF ToolAllowed(config, tool) THEN Queued(config, snap, tool, args) ELSE {}

(* One call of a batch, which nobody has asked for the tool's permission. *)
BatchCall(config, snap, tool, args) ==
  IF tool \in CommandTypes \ {"change_level"} THEN Queued(config, snap, tool, args) ELSE {}
=============================================================================
