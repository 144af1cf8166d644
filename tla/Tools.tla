------------------------------- MODULE Tools -------------------------------
(***************************************************************************)
(* The tools of a server: tools/list, and the dispatch of tools/call       *)
(* (tools_list.cpp) to the handlers of handlers/tools/.  One call is under *)
(* way at a time, while the game thread publishes whenever it likes.  A    *)
(* handler copies the published snapshot once, at its start; only the      *)
(* batch copies it again for every command, so its steps are separate.     *)
(* A call is <<tool, arguments>>; arguments that are missing or are not an *)
(* object read like an empty object.  What becomes of the commands that    *)
(* are queued is the matter of CommandPipeline and Play.                   *)
(***************************************************************************)
EXTENDS StateQueries, CommandIntake, CrispyWorld, FakeWorld

CONSTANTS
  Configs,  \* configurations [game, input, console, cheats, screenshot |-> BOOLEAN]
  Games,    \* what engines publish of themselves: [version, maps]
  Scenes,   \* what they publish of a level: [enemies, entities, inventory]
  Calls,    \* the calls agents make
  KnownResults  \* sequence numbers that may have a result

(* What a field holds that should be a list. *)
Elements(args, f) ==
  IF Required(args, f, LAMBDA v : v[1] = "array")
  THEN {args[f][2][i] : i \in 1..Len(args[f][2])} ELSE {}

(* The calls of a batch, where a call has any, are a sequence. *)
ASSUME CallsAssumption ==
  \A call \in Calls :
    Required(call[2], "calls", LAMBDA v : v[1] = "array") =>
      call[2]["calls"][2] \in Seq(Elements(call[2], "calls"))

(* A snapshot's lists have an end that is far from the width of a size. *)
ASSUME ScenesAssumption ==
  \A scene \in Scenes :
    /\ Len(scene.enemies) \in Nat /\ Len(scene.entities) \in Nat /\ Len(scene.inventory) \in Nat
    /\ Len(scene.enemies) + Len(scene.entities) <= Int64Max
    /\ Len(scene.inventory) <= Int64Max

(* The numbers of the examples below are legal, and the games of Doom have the map
   they name. *)
ASSUME ExamplesAssumption ==
  /\ 50 <= AmountMax /\ TooLong # "custom" /\ 1 \in Episodes /\ 2 \in Levels
  /\ \A g \in Games :
       ModeOf(g.version) \in {"registered", "retail"} /\ g.maps # {} => <<1, 2>> \in g.maps

VARIABLES
  config, game,
  snapshot, \* the latest published snapshot
  pending,  \* the calls of a batch that are still to be queued
  answer    \* the answer to the last call, or to the part of it that is done

vars == <<config, game, snapshot, pending, answer>>

-----------------------------------------------------------------------------
(* Which tools there are.                                                  *)

CatalogScopes ==
  [get_available_content |-> "all", get_available_enemies |-> "enemies",
   get_available_entities |-> "entities", get_available_items |-> "items",
   get_available_weapons |-> "weapons", get_available_ammo |-> "ammo",
   get_available_keys |-> "keys", get_available_maps |-> "maps",
   get_available_giveable |-> "giveable"]

StateTools == DOMAIN SectionTools \cup {"get_state", "get_state_batch"}

(* infer_tool_annotation_hints *)
ReadOnlyTools == StateTools \cup DOMAIN CatalogScopes
                   \cup {"get_screenshot", "get_command_result", "get_command_examples"}

GameTools == ReadOnlyTools \cup {"execute_batch"}

(* Faulty variant: the permissions are not asked for. *)
ListedUnfiltered(c) ==
  (IF c.game THEN (GameTools \ (IF c.screenshot THEN {} ELSE {"get_screenshot"})) \cup CommandTypes
   ELSE {})
    \cup (IF c.input THEN {"player_input"} ELSE {})

(* handle_tools_list *)
Listed(c) ==
  (IF c.game THEN (GameTools \ (IF c.screenshot THEN {} ELSE {"get_screenshot"}))
                    \cup {t \in CommandTypes : ToolAllowed(c, t)}
   ELSE {})
    \cup (IF c.input THEN {"player_input"} ELSE {})

(* handle_tools_call: whether a tool's handler runs, and why not. *)
Dispatch(c, tool) ==
  CASE tool = ""              -> "nameless"
    [] tool = "player_input"  -> IF c.input THEN "handled" ELSE "disabled"
    [] tool \in GameTools     -> IF c.game THEN "handled" ELSE "disabled"
    [] tool \in CommandTypes  -> IF ~c.game THEN "disabled"
                                 ELSE IF ~ToolAllowed(c, tool) THEN "denied" ELSE "handled"
    [] OTHER                  -> "unknown"

(* The fields the schemas of the mutating tools ask for. *)
CommandSchemas ==
  [spawn_entity |-> {"entity_class"}, change_level |-> {"map_name"}, give_item |-> {"item_class"},
   set_player_health |-> {"health"}, set_player_position |-> {"x", "y"},
   execute_console |-> {"command"}, pause_game |-> {"paused"},
   damage_entity |-> {"target_tid", "damage"}, kill_entity |-> {"target_tid"},
   player_input |-> {"action"}]

-----------------------------------------------------------------------------
(* The handlers that are not in StateQueries or CommandIntake.             *)

(* A game mode that is not a string counts as none. *)
RequestedMode(args) ==
  IF Required(args, "game_mode", IsString) THEN args["game_mode"][2] ELSE ""

Catalogue(snap, tool, args) ==
  [status |-> "ok",
   names |-> Catalog(CatalogScopes[tool], snap.maps,
                     ResolveGameMode(snap.version, RequestedMode(args)))]

(* parse_sequences_request: one list of sequence numbers, or none. *)
AskedSequences(args) ==
  IF Required(args, "sequences", LAMBDA v : v[1] = "array")
  THEN LET values == args["sequences"][2]
       IN  IF values # << >> /\ \A i \in 1..Len(values) : Sequences(values[i]) # {}
           THEN {[i \in 1..Len(values) |-> CHOOSE n \in Sequences(values[i]) : TRUE]} ELSE {}
  ELSE IF "sequence" \in DOMAIN args THEN {<<n>> : n \in Sequences(args["sequence"])}
  ELSE {}

Found(asked, known) == SelectSeq(asked, LAMBDA n : n \in known)
Missing(asked, known) == SelectSeq(asked, LAMBDA n : n \notin known)

(* One number without a result is an error, one of several is only listed. *)
CommandResults(known, asked) ==
  LET found == Found(asked, known)
  IN  IF Len(asked) = 1 /\ found = << >> THEN [status |-> "error"]
      ELSE [status |-> "ok", found |-> found,
            missing |-> Missing(asked, known), known |-> known]

GetCommandResult(known, args) ==
  IF AskedSequences(args) = {} THEN Refusal
  ELSE CommandResults(known, CHOOSE asked \in AskedSequences(args) : TRUE)

IsObject(v) == v[1] = "object"

(* parse_batch_call: the call an item of a batch makes, or none. *)
ParseBatchCall(item) ==
  IF /\ IsObject(item) /\ Required(item[2], "name", IsString)
     /\ Required(item[2], "arguments", IsObject)
  THEN {<<item[2]["name"][2], item[2]["arguments"][2]>>} ELSE {}

(* Wherever a handler reads a number there is a JSON value. *)
ASSUME ValuesAssumption ==
  \A call \in Calls :
    /\ AreValues(call[2])
    /\ \A v \in Elements(call[2], "sequences") : IsValue(v)
    /\ \A v \in Elements(call[2], "requests") : IsObject(v) => AreValues(v[2])
    /\ \A v \in Elements(call[2], "calls") : \A c \in ParseBatchCall(v) : AreValues(c[2])

(* The examples of get_command_examples that are calls of command tools, and of
   player_input. *)
SpawnExample(name, angle) ==
  [entity_class |-> <<"string", name>>, x |-> <<"int", 1000>>, y |-> <<"int", -500>>,
   angle |-> <<"int", angle>>]
GiveExample(name, amount) == [item_class |-> <<"string", name>>, amount |-> <<"int", amount>>]

SpawnExamples ==
  {<<"spawn_entity", SpawnExample("DoomImp", 90)>>, <<"spawn_entity", SpawnExample("Medikit", 0)>>}

GiveExamples ==
  {<<"give_item", GiveExample(gift[1], gift[2])>> :
     gift \in {<<"Shotgun", 1>>, <<"Medikit", 1>>, <<"BlueArmor", 1>>, <<"Invulnerability", 1>>,
               <<"Clip", 50>>, <<"RocketAmmo", 10>>, <<"Shells", 20>>, <<"Cell", 20>>}}

CommandExamples ==
  SpawnExamples \cup GiveExamples \cup
    {<<"damage_entity", [target_tid |-> <<"int", 42>>, damage |-> <<"int", 50>>,
                         damage_type |-> <<"string", "custom">>]>>,
     <<"kill_entity", [target_tid |-> <<"int", 42>>]>>,
     <<"change_level", [map_name |-> <<"map", <<1, 2>>>>, skill_level |-> <<"int", 3>>,
                        reset_inventory |-> <<"bool", FALSE>>]>>,
     <<"set_player_health", [health |-> <<"int", 100>>]>>,
     <<"set_player_position", [x |-> <<"int", 1000>>, y |-> <<"int", -500>>,
                               angle |-> <<"int", 0>>]>>,
     <<"execute_console", [command |-> <<"text", <<<<"god", FALSE>>>>>>]>>,
     <<"pause_game", [paused |-> <<"bool", TRUE>>]>>}

InputExamples ==
  {[action |-> <<"string", a>>] : a \in Moves}
    \cup {[action |-> <<"string", "aim">>, value |-> <<"int", 90>>],
          [action |-> <<"string", "weapon">>, value |-> <<"int", 3>>]}

-----------------------------------------------------------------------------
Idle == [call |-> <<"", NoArguments>>, status |-> "none", seen |-> Empty, result |-> Refusal,
         queued |-> << >>, refused |-> << >>]

Init ==
  /\ config \in Configs /\ game \in Games
  /\ snapshot = Empty
  /\ pending = << >> /\ answer = Idle

(* What is published of a level. *)
Captured(g, scene) ==
  [version |-> g.version, maps |-> g.maps, enemies |-> scene.enemies,
   entities |-> scene.entities, inventory |-> scene.inventory]

Publish ==
  /\ \E scene \in Scenes : snapshot' = Captured(game, scene)
  /\ UNCHANGED <<config, game, pending, answer>>

(* A call arrives.  The actions below are its handlers. *)
Called(tools) ==
  IF answer.status # "none" THEN {}
  ELSE {call \in Calls : call[1] \in tools /\ Dispatch(config, call[1]) = "handled"}

Answered(call, status, result) ==
  /\ answer' = [Idle EXCEPT !.call = call, !.status = status, !.seen = snapshot, !.result = result]
  /\ UNCHANGED <<config, game, snapshot, pending>>

Unserved ==
  /\ answer.status = "none"
  /\ \E call \in Calls :
       /\ Dispatch(config, call[1]) # "handled"
       /\ Answered(call, Dispatch(config, call[1]), Refusal)

GetScreenshot ==
  \E call \in Called({"get_screenshot"}) :
    Answered(call, IF config.screenshot THEN "ok" ELSE "disabled", Refusal)

Reading(snap, call) ==
  CASE call[1] = "get_state"       -> GetState(snap, call[2])
    [] call[1] = "get_state_batch" -> GetStateBatch(snap, call[2])
    [] OTHER                       -> GetSection(snap, call[1], call[2])

ReadState ==
  \E call \in Called(StateTools) :
    LET result == Reading(snapshot, call) IN Answered(call, result.status, result)

ReadCatalogue ==
  \E call \in Called(DOMAIN CatalogScopes) :
    Answered(call, "ok", Catalogue(snapshot, call[1], call[2]))

ReadResults ==
  \E call \in Called({"get_command_result"}), known \in SUBSET KnownResults :
    LET result == GetCommandResult(known, call[2]) IN Answered(call, result.status, result)

ReadExamples == \E call \in Called({"get_command_examples"}) : Answered(call, "ok", Refusal)

(* Queueing notes which call a command comes from and what it was checked against. *)
Item(call, command) == [call |-> call, seen |-> snapshot, command |-> command]

Queues(call, commands) ==
  /\ \/ \E c \in commands :
          answer' = [Idle EXCEPT !.call = call, !.status = "queued", !.seen = snapshot,
                                 !.queued = <<Item(call, c)>>]
     \/ commands = {} /\ answer' = [Idle EXCEPT !.call = call, !.status = "refused",
                                                !.seen = snapshot]
  /\ UNCHANGED <<config, game, snapshot, pending>>

CallCommand ==
  \E call \in Called(CommandTypes) : Queues(call, SingleCall(config, snapshot, call[1], call[2]))

CallInput ==
  \E call \in Called({"player_input"}) : Queues(call, ParsePlayerInput(call[2]))

StartBatch ==
  \E call \in Called({"execute_batch"}) :
    IF Required(call[2], "calls", LAMBDA v : v[1] = "array")
    THEN /\ pending' = call[2]["calls"][2]
         /\ answer' = [Idle EXCEPT !.call = call, !.status = "batch"]
         /\ UNCHANGED <<config, game, snapshot>>
    ELSE Answered(call, "refused", Refusal)

(* Faulty variant: an item that is no call leaves no trace in the answer. *)
QueueNextSilently ==
  /\ pending # << >>
  /\ pending' = Tail(pending)
  /\ LET calls    == ParseBatchCall(Head(pending))
         commands == UNION {BatchCall(config, snapshot, call[1], call[2]) : call \in calls}
     IN  \/ \E call \in calls, c \in commands :
              answer' = [answer EXCEPT !.queued = Append(@, Item(call, c))]
         \/ commands = {} /\ UNCHANGED answer
  /\ UNCHANGED <<config, game, snapshot>>

(* queue_command_from_json, against a fresh copy of the snapshot. *)
QueueNext ==
  /\ pending # << >>
  /\ pending' = Tail(pending)
  /\ LET calls    == ParseBatchCall(Head(pending))
         commands == UNION {BatchCall(config, snapshot, call[1], call[2]) : call \in calls}
     IN  \/ \E call \in calls, c \in commands :
              answer' = [answer EXCEPT !.queued = Append(@, Item(call, c))]
         \/ /\ commands = {}
            /\ answer' = [answer EXCEPT !.refused = Append(@, [call |-> calls, seen |-> snapshot])]
  /\ UNCHANGED <<config, game, snapshot>>

EndBatch ==
  /\ answer.status = "batch" /\ pending = << >>
  /\ answer' = [answer EXCEPT !.status = IF answer.queued = << >> THEN "error" ELSE "queued"]
  /\ UNCHANGED <<config, game, snapshot, pending>>

(* The agent has read the answer. *)
Take ==
  /\ answer.status \notin {"none", "batch"}
  /\ answer' = Idle
  /\ UNCHANGED <<config, game, snapshot, pending>>

Next ==
  \/ Publish \/ Unserved \/ GetScreenshot \/ ReadState \/ ReadCatalogue \/ ReadResults
  \/ ReadExamples \/ CallCommand \/ CallInput \/ StartBatch \/ QueueNext \/ EndBatch \/ Take

Spec == Init /\ [][Next]_vars
-----------------------------------------------------------------------------
(* Properties.                                                             *)

AnswerKinds == {"none", "ok", "queued", "refused", "error", "batch",
              "nameless", "unknown", "disabled", "denied"}

QueuedCommands == {answer.queued[i] : i \in 1..Len(answer.queued)}
RefusedItems == {answer.refused[i] : i \in 1..Len(answer.refused)}

(* Type correctness; the snapshot is the engine's, or none has been published,
   and every item of a batch is queued, refused or still to come. *)
TypeOK ==
  /\ config \in Configs /\ game \in Games
  /\ snapshot \in {Empty} \cup {Captured(game, scene) : scene \in Scenes}
  /\ answer.status \in AnswerKinds
  /\ pending # << >> => answer.status = "batch"
  /\ answer.call[1] = "execute_batch" /\ answer.status \in {"batch", "queued", "error"} =>
       Len(answer.queued) + Len(answer.refused) + Len(pending) = Len(answer.call[2]["calls"][2])

NotServed == {"nameless", "unknown", "disabled", "denied"}

SchemaOf(tool) ==
  IF tool \in DOMAIN StateSchemas THEN StateSchemas[tool]
  ELSE IF tool \in DOMAIN CommandSchemas THEN [required |-> CommandSchemas[tool], enums |-> NoArguments]
  ELSE [required |-> {}, enums |-> NoArguments]

MeetsSchema(tool, args) ==
  /\ SchemaOf(tool).required \subseteq DOMAIN args
  /\ \A f \in DOMAIN SchemaOf(tool).enums :
       f \in DOMAIN args => \E value \in SchemaOf(tool).enums[f] : args[f] = <<"string", value>>

(* tools/list and tools/call, which are written separately, agree: a tool is
   listed exactly when a call of it is not turned away for its group, a permission
   or a feature that is off; a tool that says it only reads queues nothing; and a
   call that breaks what its schema asks for changes nothing and shows nothing. *)
AdvertisedIsServed ==
  answer.status \notin {"none", "batch"} =>
    /\ answer.call[1] \in Listed(config) <=> answer.status \notin NotServed
    /\ answer.call[1] \in ReadOnlyTools => answer.queued = << >>
    /\ \A item \in QueuedCommands : MeetsSchema(item.call[1], item.call[2])
    /\ answer.status = "ok" /\ answer.call[1] \in DOMAIN SectionTools =>
         MeetsSchema(answer.call[1], answer.call[2])

AllPermissions == [console |-> TRUE, cheats |-> TRUE]

Naming(tool, name) ==
  CASE tool = "spawn_entity" -> SpawnExample(name, 0)
    [] tool = "give_item"    -> [item_class |-> <<"string", name>>]
    [] tool = "change_level" -> [map_name |-> <<"map", name>>]

NamedIn(scope) ==
  CASE scope \in {"enemies", "entities"} -> "spawn_entity"
    [] scope = "maps"                    -> "change_level"
    [] OTHER                             -> "give_item"

(* A catalogue answers for the engine when a snapshot was published, and its mode
   was not the agent's own. *)
FromEngine ==
  /\ answer.seen # Empty
  /\ ModeOf(answer.seen.version) # "" \/ ModeOf(RequestedMode(answer.call[2])) = ""

(* What the catalogue of the running game offers is accepted by the command tools,
   whatever has been published since; and so are the examples, in the games that
   have all they name. *)
OfferedIsAccepted ==
  /\ answer.status = "ok" /\ answer.call[1] \in DOMAIN CatalogScopes /\ FromEngine =>
       \A scope \in DOMAIN answer.result.names : \A name \in answer.result.names[scope] :
         SingleCall(AllPermissions, snapshot, NamedIn(scope), Naming(NamedIn(scope), name)) # {}
  /\ answer.status = "ok" /\ answer.call[1] = "get_command_examples" =>
       /\ \A args \in InputExamples : ParsePlayerInput(args) # {}
       /\ ModeOf(snapshot.version) \in {"registered", "retail"} =>
            \A example \in CommandExamples :
              SingleCall(AllPermissions, snapshot, example[1], example[2]) # {}

(* In halves. *)
Exact(v) == IF v[1] = "int" THEN 2 * v[2] ELSE v[2]

(* The double that is nearest: only the largest integer has none of its own. *)
Nearest(v) == IF v[1] = "int" /\ v[2] = Int64Max THEN 2 * (Int64Max + 1) ELSE Exact(v)

(* The rows from an offset on, as many as the limit allows, in true integers. *)
RowsAsked(rows, args) ==
  LET offset == IF "offset" \in DOMAIN args THEN args["offset"][2] ELSE 0
      limit  == IF "limit" \in DOMAIN args THEN args["limit"][2] ELSE DefaultLimit
  IN  SubSeq(rows, offset + 1, Least(offset + limit, Len(rows)))

Unsigned(args) == \A f \in {"offset", "limit"} \cap DOMAIN args : args[f][2] >= 0
Paged(section) == section \notin {"player", "map", "game"}

AllRows(snap, section, args) == (CHOOSE sel \in Selections(snap, section, args) : TRUE).rows

PageCovers(page, section, args) ==
  Paged(section) /\ Unsigned(args) =>
    /\ page.rows = RowsAsked(AllRows(answer.seen, section, args), args)
    /\ page.returned = Len(page.rows)
    /\ page.total = Len(AllRows(answer.seen, section, args))

(* A page of a section shows the rows that were asked for and no others: all that
   pass the filter from the offset on, up to the limit, for every offset and limit
   that is not negative.  The window is clamped to the snapshot, not to the rows that
   pass, and its end is computed in the width of a size. *)
PagesCover ==
  answer.status = "ok" =>
    /\ answer.call[1] \in DOMAIN SectionTools =>
         PageCovers(answer.result, SectionTools[answer.call[1]], answer.call[2])
    /\ answer.call[1] = "get_state" =>
         PageCovers(answer.result, answer.call[2]["section"][2], answer.call[2])
    /\ answer.call[1] = "get_state_batch" =>
         LET requests == answer.call[2]["requests"][2]
         IN  \A i \in 1..Len(requests) :
               answer.result.results[i] # Refusal =>
                 PageCovers(answer.result.results[i], requests[i][2]["section"][2], requests[i][2])

(* A batch is as good as its calls one by one: a call in it is queued exactly when
   it would be on its own, with the snapshot of that moment, although nobody asks
   for the permission of its tool.  Only change_level is never queued. *)
BatchAgreesWithSingle ==
  answer.call[1] = "execute_batch" =>
    /\ \A item \in QueuedCommands :
         item.command \in SingleCall(config, item.seen, item.call[1], item.call[2])
    /\ \A item \in RefusedItems : \A call \in item.call :
         call[1] \in CommandTypes \ {"change_level"} =>
           SingleCall(config, item.seen, call[1], call[2]) = {}

Kept(args, field, value) == field \in DOMAIN args => 2 * value = Exact(args[field])
Saturated(args, field, value, low, high) == value = Clamp(Exact(args[field]) \div 2, low, high)

(* A coordinate is the number itself where a single has it, else one that is at most half
   a step away, and infinite only beyond the range. *)
Rounded(args, field, value) ==
  LET number == Nearest(args[field])
  IN  field \in DOMAIN args =>
        /\ number \in -FloatExact..FloatExact => value = number
        /\ number \in -FloatMax..FloatMax => 2 * (value - number) \in -FloatStep..FloatStep
        /\ number \notin -FloatMax..FloatMax => value \in {-Infinity, Infinity}

Placed(c, args) ==
  Rounded(args, "x", c.x) /\ Rounded(args, "y", c.y) /\ Rounded(args, "angle", c.angle)

Means(c, args) ==
  CASE c.type = "spawn_entity"        -> Placed(c, args) /\ Kept(args, "tid", c.tid)
    [] c.type = "set_player_position" -> Placed(c, args)
    [] c.type = "change_level"        -> Kept(args, "skill_level", c.skill_level)
    [] c.type = "give_item"           -> Kept(args, "amount", c.amount)
    [] c.type = "set_player_health"   -> Saturated(args, "health", c.health, 1, MaxHealth)
    [] c.type = "kill_entity"         -> Kept(args, "target_tid", c.target_tid)
    [] c.type = "damage_entity"       ->
         /\ Saturated(args, "damage", c.damage, 1, DamageMax)
         /\ Exact(args["target_tid"]) <= 2 * Int32Max =>
              Saturated(args, "target_tid", c.target_tid, 0, TidMax)
    [] c.type = "player_input" /\ c.action = "aim" ->
         \E error \in -FloatStep..FloatStep :
           /\ 2 * error \in -FloatStep..FloatStep
           /\ (Nearest(args["value"]) - c.angle + error) % (2 * FullTurn) = 0
    [] c.type = "player_input" /\ c.action = "weapon" -> Kept(args, "value", c.slot)
    [] OTHER -> TRUE

AskedFor(args) ==
  IF Required(args, "sequences", LAMBDA v : v[1] = "array") THEN args["sequences"][2]
  ELSE <<args["sequence"]>>

(* The numbers of a command that is queued are the ones its caller wrote: integers and
   amounts exactly or at the end of their range, coordinates and angles as near as a
   single comes; never what a wrap or a cut has made of them.  A result is only shown
   for a number that was asked for.  Not claimed of two kinds of numbers, for
   which the code breaks it: a target of damage_entity beyond 32 bits is cut before it is
   clamped, and a negative sequence number becomes a large one. *)
NumbersMeanWhatTheySay ==
  /\ \A item \in QueuedCommands : Means(item.command, item.call[2])
  /\ answer.status = "ok" /\ answer.call[1] = "get_command_result" =>
       LET values == AskedFor(answer.call[2])
       IN  (\A i \in 1..Len(values) : values[i][2] > 0) =>
             answer.result.found =
               Found([i \in 1..Len(values) |-> values[i][2]], answer.result.known)

(* What a console line does to the player or to the monsters of either game. *)
Cheats(text) ==
  \/ ConsoleEffect(text) \cap {"god", "ungod", "noclip", "clip"} # {}
  \/ FakeConsole(FakeStart, [command |-> text]) # Done(FakeStart)

(* Without the permission to cheat nothing is queued that cheats, alone or in a
   batch: the tools by their name, and a console line by what the adapters make of
   it, each of which reads it in its own way. *)
CheatsNeedPermission ==
  \A item \in QueuedCommands :
    /\ item.command.type \in CheatTools => config.cheats
    /\ item.command.type = "execute_console" =>
         config.console /\ (Cheats(item.command.command) => config.cheats)
=============================================================================
