------------------------------ MODULE MCTools ------------------------------
EXTENDS Tools, TLC

IntValue(n) == <<"int", n>>
Text(s) == <<"string", s>>
Half == <<"real", 1>>
Third == <<"real", 6>>
OffTheStep == <<"real", FloatExact + 3>>
BeforeFullTurn == <<"real", 2 * FullTurn - 1>>
TooLarge == <<"real", -2 * FloatMax>>
TwoTo63 == <<"real", 2 * (Int64Max + 1)>>
Words(words) == <<"text", [i \in 1..Len(words) |-> <<words[i], FALSE>>]>>

(* Around every boundary of a number. *)
Numbers ==
  {IntValue(n) : n \in {-Int32Max - 1, -1, 0, 1, 7, AmountMax + 1, TidMax + 1, Int32Max,
                        Int32Max + 1, 2 * (Int32Max + 1) + 5, Int64Max,
                        Int64Max + 1}}
    \cup {Half, Third, TwoTo63, OffTheStep, BeforeFullTurn, TooLarge}
Oddities == {<<"bool", TRUE>>, <<"null", 0>>, Text(""), Text(TooLong)}

Without(args, f) == [g \in DOMAIN args \ {f} |-> args[g]]

(* A call that is right, and those that differ from it in a field. *)
Around(tool, args, fields, values) ==
  {<<tool, args>>, <<tool, [extra |-> IntValue(1)] @@ args>>, <<tool, NoArguments>>}
    \cup {<<tool, Without(args, f)>> : f \in DOMAIN args}
    \cup {<<tool, [args EXCEPT ![f] = v]>> : f \in fields, v \in values}

At == [x |-> IntValue(10), y |-> Half]

Consoles ==
  {<<"execute_console", [command |-> c]>> :
     c \in {<<"text", <<<<"god", TRUE>>>>>>, <<"text", <<<<"noclip", TRUE>>, Blank, <<"off", FALSE>>, Blank>>>>,
            <<"text", <<<<"give", FALSE>>, Blank, <<"all", FALSE>>>>>>,
            Words(<<"iddqd">>), Words(<<"killall">>), Words(<<"idspispopd">>), Words(<<"pause">>),
            <<"text", <<<<"map", FALSE>>, Blank, <<"map01", FALSE>>>>>>, Text(TooLong)}}

CommandCalls ==
  Around("spawn_entity", [entity_class |-> Text("Cyberdemon"), angle |-> IntValue(90), tid |-> IntValue(4)] @@ At,
         {"tid", "x"}, Numbers \cup Oddities)
    \cup Around("change_level", [map_name |-> <<"map", <<1, 1>>>>, skill_level |-> IntValue(5),
                                 reset_inventory |-> <<"bool", TRUE>>],
                {"skill_level"}, Numbers)
    \cup Around("change_level", [map_name |-> <<"map", <<0, 1>>>>], {"map_name"}, Oddities)
    \cup Around("give_item", [item_class |-> Text("Cell"), amount |-> IntValue(2)], {"amount"}, Numbers)
    \cup Around("set_player_health", [health |-> IntValue(200)], {"health"}, Numbers \cup Oddities)
    \cup Around("set_player_position", At, {"y"}, Numbers)
    \cup Around("pause_game", [paused |-> <<"bool", FALSE>>], {"paused"}, {IntValue(1)})
    \cup Around("damage_entity", [target_tid |-> IntValue(3), damage |-> IntValue(10)],
                {"target_tid", "damage"}, Numbers)
    \cup Around("kill_entity", [target_tid |-> IntValue(3)], {"target_tid"}, Numbers)
    \cup Consoles

InputCalls ==
  Around("player_input", [action |-> Text("aim"), value |-> IntValue(7)], {"value"}, Numbers)
    \cup Around("player_input", [action |-> Text("weapon"), value |-> IntValue(7)],
                {"value"}, Numbers)
    \cup Around("player_input", [action |-> Text("use")], {"action"}, Oddities)

Windowed(args) ==
  {args} \cup {[offset |-> o, limit |-> l] @@ args :
                 o \in {IntValue(n) : n \in {-1, 0, 1, 3}} \cup {Half},
                 l \in {IntValue(n) : n \in {-1, 0, 1, 2, 5, SizeModulus - 1}}}

StateCalls ==
  {<<t, NoArguments>> : t \in DOMAIN SectionTools}
    \cup {<<"get_enemies", a>> : a \in UNION {Windowed([status |-> Text(s)]) : s \in {"dead", "all", "odd"}}}
    \cup {<<"get_entities", a>> :
            a \in UNION {Windowed([status |-> Text("alive"), kind |-> Text(k)]) : k \in {"all", "item"}}}
    \cup {<<"get_items", [kind |-> Text(k)]>> : k \in {"ammo", "world", "odd"}}
    \cup {<<"get_inventory", a>> : a \in Windowed(NoArguments)}
    \cup {<<"get_state", [section |-> Text(s)]>> : s \in {"enemies", "player", "odd"}}
    \cup {<<"get_state", NoArguments>>, <<"get_state", [section |-> IntValue(1)]>>}
    \cup {<<"get_state_batch", [requests |-> <<"array", r>>]>> :
            r \in {<< >>, <<IntValue(1)>>,
                   <<<<"object", [section |-> Text("player")]>>,
                     <<"object", [section |-> Text("enemies"), status |-> Text("alive"), limit |-> IntValue(-1),
                                  offset |-> IntValue(1)]>>,
                     <<"object", [section |-> Text("odd")]>>>>}}

BatchItems ==
  {<<"object", [name |-> Text(call[1]), arguments |-> <<"object", call[2]>>]>> :
     call \in {<<"kill_entity", [target_tid |-> IntValue(3)]>>,
               <<"give_item", GiveExample("Cell", 20)>>,
               <<"execute_console", [command |-> <<"text", <<<<"god", TRUE>>>>>>]>>,
               <<"execute_console", [command |-> Words(<<"pause">>)]>>,
               <<"change_level", [map_name |-> <<"map", <<1, 1>>>>]>>,
               <<"player_input", [action |-> Text("use")]>>}}
    \cup {<<"object", [name |-> Text("give_item")]>>, IntValue(1)}

Batches ==
  {<<"execute_batch", [calls |-> <<"array", items>>]>> :
     items \in {<< >>} \cup (BatchItems \X BatchItems)}
    \cup {<<"execute_batch", NoArguments>>}

ResultCalls ==
  {<<"get_command_result", a>> :
     a \in {NoArguments, [sequence |-> IntValue(1)], [sequence |-> IntValue(-1)],
            [sequence |-> IntValue(0)], [sequence |-> Half],
            [sequences |-> <<"array", << >>>>],
            [sequences |-> <<"array", <<IntValue(2), IntValue(-2), IntValue(1)>>>>]}}

CatalogCalls ==
  {<<t, a>> : t \in DOMAIN CatalogScopes,
              a \in {NoArguments, [game_mode |-> Text("commercial")], [game_mode |-> IntValue(1)]}}

MCCalls ==
  CommandCalls \cup InputCalls \cup StateCalls \cup Batches \cup ResultCalls \cup CatalogCalls
    \cup {<<t, NoArguments>> : t \in {"get_screenshot", "get_command_examples", "no_such_tool", ""}}

MCConfigs == [game : BOOLEAN, input : BOOLEAN, console : BOOLEAN, cheats : BOOLEAN, screenshot : BOOLEAN]

MCGames ==
  {[version |-> m, maps |-> MapsOf(m)] : m \in {"shareware", "registered", "commercial"}}
    \cup {[version |-> "ultimate", maps |-> {}], [version |-> "fake-1.0", maps |-> {<<0, 1>>, <<0, 2>>}]}

MCScenes ==
  {[enemies |-> << >>, entities |-> <<"Clip">>, inventory |-> << >>],
   [enemies |-> <<60, 0, 20, 5>>, entities |-> <<"Barrel", "Shells", "Medikit", "Lamp", "Shotgun">>,
    inventory |-> <<"Fist", "Clip", "Cell">>]}

MCBlockMap == {0}
=============================================================================
