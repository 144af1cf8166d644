--------------------------- MODULE CommandParsing ---------------------------
(***************************************************************************)
(* What one JSON object of arguments becomes: no command, or one.  The     *)
(* readers of commands/parsers.cpp, the parsers of commands/types/ and the *)
(* dispatch of dmcp_parse_command_json.                                    *)
(*                                                                         *)
(* Arguments are a function from field names to values, a value a pair of  *)
(* a tag and a payload: <<"int", n>>, <<"real", h>> for h/2, <<"bool", b>>,*)
(* <<"string", s>>, <<"map", <<episode, map>>>> for a string that has the  *)
(* shape of a map name in any case, <<"text", words>> for a console line,  *)
(* and <<"null", 0>>.  Widths are scaled: the constants keep their order.  *)
(* A parser answers with the set of commands it can produce, {} when it    *)
(* refuses.                                                                *)
(***************************************************************************)
EXTENDS Integers

CONSTANTS
  Int32Max, Int64Max,  \* the largest signed integers of 32 and of 64 bits
  SizeModulus,         \* one more than the largest unsigned one of 64 bits
  FloatExact,  \* up to here a single has every half,
  FloatStep,   \* and from there the multiples of this (one step for all the real ones)
  FloatMax,    \* up to here; these three are in halves
  TidMax, DamageMax, MaxHealth, AmountMax,  \* DMCP_TID_MAX, ... and give_item's 1000
  FullTurn,            \* 360 degrees
  TooLong              \* a string no buffer of a command holds

ASSUME WidthsAssumption ==
  /\ {Int32Max, Int64Max, SizeModulus, TidMax, DamageMax, MaxHealth, AmountMax, FullTurn}
       \subseteq Nat \ {0}
  /\ TidMax < Int32Max /\ DamageMax < Int32Max /\ MaxHealth < Int32Max /\ AmountMax < Int32Max
  /\ 7 < Int32Max  \* no skill level or weapon slot is greater
  /\ Int32Max < Int64Max /\ SizeModulus = 2 * (Int64Max + 1)
  /\ {FloatExact, FloatStep, FloatMax} \subseteq Nat \ {0} /\ FloatExact <= FloatMax
  /\ 2 * SizeModulus <= FloatMax /\ 2 * FullTurn <= FloatMax

Clamp(n, low, high) == IF n < low THEN low ELSE IF n > high THEN high ELSE n

(* A cast to 32 bits keeps the low bits. *)
Truncated(n) == ((n + Int32Max + 1) % (2 * (Int32Max + 1))) - (Int32Max + 1)

-----------------------------------------------------------------------------
(* Readers of one value.                                                   *)

(* A JSON integer has 64 bits, signed or not; any other number is a double. *)
IsValue(v) ==
  /\ v[1] = "int" => v[2] \in (-Int64Max - 1)..(SizeModulus - 1)
  /\ v[1] = "real" => v[2] \in Int

AreValues(args) == \A f \in DOMAIN args : IsValue(args[f])

IsNumber(v) == v[1] \in {"int", "real"}

(* A double has no room for the largest integer of 64 bits: it is rounded
   to the next power of two, which is out of range. *)
AsDouble(n) == IF n = Int64Max THEN Int64Max + 1 ELSE n

(* In halves. *)
Number(v) == IF v[1] = "int" THEN 2 * AsDouble(v[2]) ELSE v[2]

(* What a finite double (in halves) becomes as a single: itself, the nearest one, or
   an infinite one. *)
Infinity == FloatMax + FloatStep
AsFloat(h) ==
  IF h > FloatMax THEN Infinity
  ELSE IF h < -FloatMax THEN -Infinity
  ELSE IF -FloatExact <= h /\ h <= FloatExact THEN h
  ELSE LET up == h + FloatStep \div 2 IN up - (up % FloatStep)

(* The range test compares with the rounded limit and lets it pass; the cast
   that follows is undefined, and gives the smallest or the largest integer. *)
Integers64(v) ==
  IF ~IsNumber(v) \/ Number(v) % 2 # 0 THEN {}
  ELSE LET n == Number(v) \div 2
       IN  IF n < -Int64Max - 1 \/ n > Int64Max + 1 THEN {}
           ELSE IF n = Int64Max + 1 THEN {-Int64Max - 1, Int64Max}
           ELSE {n}

(* strtoull over the text of the number: a sign negates modulo the width, a
   point is refused. *)
Sizes(v) == IF v[1] = "int" THEN {v[2] % SizeModulus} ELSE {}
Sequences(v) == Sizes(v) \ {0}

IsString(v) == v[1] \in {"string", "map", "text"}
IsFilled(v) == IsString(v) /\ v # <<"string", "">>
Fits(v) == IsFilled(v) /\ v # <<"string", TooLong>>

-----------------------------------------------------------------------------
(* Readers of a field.                                                     *)

OnlyFields(args, allowed) == DOMAIN args \subseteq allowed
Required(args, f, Reads(_)) == f \in DOMAIN args /\ Reads(args[f])
Optional(args, f, Reads(_)) == f \in DOMAIN args => Reads(args[f])
RequiredInt(args, f) == IF f \in DOMAIN args THEN Integers64(args[f]) ELSE {}
OptionalInt(args, f, default) == IF f \in DOMAIN args THEN Integers64(args[f]) ELSE {default}

Coordinates(args) ==
  /\ "position" \notin DOMAIN args
  /\ Required(args, "x", IsNumber) /\ Required(args, "y", IsNumber)
  /\ Optional(args, "angle", IsNumber)
Single(v) == AsFloat(Number(v))
Angle(args) == IF "angle" \in DOMAIN args THEN Single(args["angle"]) ELSE 0

-----------------------------------------------------------------------------
(* The parsers, one per command.                                           *)

ParseSpawn(args) ==
  IF /\ OnlyFields(args, {"entity_class", "x", "y", "angle", "tid"})
     /\ Required(args, "entity_class", Fits)
     /\ Coordinates(args)
  THEN {[type |-> "spawn_entity", entity_class |-> args["entity_class"][2],
         x |-> Single(args["x"]), y |-> Single(args["y"]), angle |-> Angle(args), tid |-> t] :
          t \in OptionalInt(args, "tid", 0) \cap 0..Int32Max}
  ELSE {}

IsMapName(v) == v[1] = "map"

ParseChangeLevel(args) ==
  IF /\ OnlyFields(args, {"map_name", "skill_level", "reset_inventory"})
     /\ Required(args, "map_name", IsMapName)
     /\ Optional(args, "reset_inventory", LAMBDA v : v[1] = "bool")
  THEN {[type |-> "change_level", map_name |-> args["map_name"][2], skill_level |-> s,
         reset_inventory |-> "reset_inventory" \in DOMAIN args /\ args["reset_inventory"][2]] :
          s \in OptionalInt(args, "skill_level", 3) \cap 1..5}
  ELSE {}

ParseGiveItem(args) ==
  IF OnlyFields(args, {"item_class", "amount"}) /\ Required(args, "item_class", Fits)
  THEN {[type |-> "give_item", item_class |-> args["item_class"][2], amount |-> a] :
          a \in OptionalInt(args, "amount", 1) \cap 1..AmountMax}
  ELSE {}

ParseSetHealth(args) ==
  IF /\ OnlyFields(args, {"health"})
     /\ Required(args, "health", LAMBDA v : IsNumber(v) /\ Number(v) > 0)
  THEN {[type |-> "set_player_health",
         health |-> Clamp(Number(args["health"]) \div 2, 1, MaxHealth)]}
  ELSE {}

ParseSetPosition(args) ==
  IF OnlyFields(args, {"x", "y", "angle"}) /\ Coordinates(args)
  THEN {[type |-> "set_player_position", x |-> Single(args["x"]), y |-> Single(args["y"]),
         angle |-> Angle(args)]}
  ELSE {}

ParseConsole(args) ==
  IF OnlyFields(args, {"command"}) /\ Required(args, "command", Fits)
  THEN {[type |-> "execute_console", command |-> args["command"][2]]}
  ELSE {}

ParsePause(args) ==
  IF OnlyFields(args, {"paused"}) /\ Required(args, "paused", LAMBDA v : v[1] = "bool")
  THEN {[type |-> "pause_game", paused |-> args["paused"][2]]}
  ELSE {}

(* The target is cut to 32 bits before it is clamped. *)
DamageTarget(n) == Clamp(Truncated(n), 0, TidMax)

ParseDamage(args) ==
  IF /\ OnlyFields(args, {"target_tid", "damage", "damage_type"})
     /\ Required(args, "damage", LAMBDA v : IsNumber(v) /\ Number(v) >= 2)
     /\ Optional(args, "damage_type", Fits)
  THEN {[type |-> "damage_entity", target_tid |-> DamageTarget(n),
         damage |-> Clamp(Number(args["damage"]) \div 2, 1, DamageMax)] :
          n \in {n \in RequiredInt(args, "target_tid") : n >= 0}}
  ELSE {}

(* Faulty variant: the target is cut to 32 bits here as well. *)
KillTargetCast(args) ==
  {[type |-> "kill_entity", target_tid |-> Truncated(n)] :
     n \in {n \in RequiredInt(args, "target_tid") : n >= 0}}

KillTarget(args) ==
  {[type |-> "kill_entity", target_tid |-> n] :
     n \in RequiredInt(args, "target_tid") \cap 0..Int32Max}

ParseKill(args) == IF OnlyFields(args, {"target_tid"}) THEN KillTarget(args) ELSE {}

Moves == {"forward", "backward", "strafe_left", "strafe_right", "turn_left", "turn_right",
          "attack", "use"}

(* A value that comes with an action that takes none is not looked at. *)
ParsePlayerInput(args) ==
  IF ~OnlyFields(args, {"action", "value"}) \/ "action" \notin DOMAIN args THEN {}
  ELSE LET action == args["action"]
       IN CASE action \in {<<"string", a>> : a \in Moves} ->
                 {[type |-> "player_input", action |-> action[2]]}
            [] action = <<"string", "aim">> /\ Required(args, "value", IsNumber) ->
                 {[type |-> "player_input", action |-> "aim",
                   angle |-> AsFloat(Number(args["value"]) % (2 * FullTurn))]}
            [] action = <<"string", "weapon">> ->
                 {[type |-> "player_input", action |-> "weapon", slot |-> s] :
                    s \in RequiredInt(args, "value") \cap 1..7}
            [] OTHER -> {}

CommandTypes == {"spawn_entity", "change_level", "give_item", "set_player_health",
                 "set_player_position", "execute_console", "pause_game", "damage_entity",
                 "kill_entity"}

(* The object around the arguments is always built from a tool's own type, so
   only the parameters can be refused, and no flags come with them. *)
ParseCommand(type, args) ==
  CASE type = "spawn_entity"        -> ParseSpawn(args)
    [] type = "change_level"        -> ParseChangeLevel(args)
    [] type = "give_item"           -> ParseGiveItem(args)
    [] type = "set_player_health"   -> ParseSetHealth(args)
    [] type = "set_player_position" -> ParseSetPosition(args)
    [] type = "execute_console"     -> ParseConsole(args)
    [] type = "pause_game"          -> ParsePause(args)
    [] type = "damage_entity"       -> ParseDamage(args)
    [] type = "kill_entity"         -> ParseKill(args)
=============================================================================
