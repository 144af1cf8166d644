------------------------------- MODULE MCPlay -------------------------------
EXTENDS Play

IntValue(n) == <<"int", n>>
Text(s) == <<"string", s>>

MCRequests ==
  {<<"spawn_entity", [entity_class |-> Text("DoomImp"), x |-> IntValue(0), y |-> IntValue(0),
                      tid |-> IntValue(100)]>>,
   <<"change_level", [map_name |-> <<"map", <<0, 2>>>>, skill_level |-> IntValue(5)]>>,
   <<"give_item", [item_class |-> Text("Clip"), amount |-> IntValue(16)]>>,
   <<"give_item", [item_class |-> Text("Backpack"), amount |-> IntValue(2)]>>,
   <<"set_player_health", [health |-> IntValue(500)]>>,
   <<"set_player_position", [x |-> <<"real", 2 * FloatMax>>, y |-> IntValue(1), angle |-> IntValue(-4)]>>,
   <<"pause_game", [paused |-> <<"bool", TRUE>>]>>,
   <<"execute_console", [command |-> <<"text", <<<<"killall", FALSE>>>>>>]>>}

MCInputs == {[action |-> Text("attack")], [action |-> Text("aim"), value |-> IntValue(4)]}

MCThings == <<"PainElemental", "Clip", "Zombieman">>
MCBlockMap == {0}

(* The hypotheses of the theorems hold of this instance. *)
ASSUME HypothesesHold == IdsCanBeNamed /\ KillsSuffice
=============================================================================
