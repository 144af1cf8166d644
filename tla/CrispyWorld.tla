---------------------------- MODULE CrispyWorld ----------------------------
(***************************************************************************)
(* The Crispy Doom adapter: what a command does to the game                *)
(* (command_exec.c), what an input does to the player's next tick command  *)
(* (input.c), and what a snapshot shows of the game (state_enemies.c,      *)
(* state_player.c, snapshot_callback).  The engine is not in this          *)
(* repository: its thinker list is the sequence mobjs, and what it decides *)
(* about a position, a sound or a sprite is any outcome.                   *)
(***************************************************************************)
EXTENDS CommandParsing, Content, Permissions, Outcomes, SequencesExt

CONSTANTS BlockMap,     \* the coordinates that are inside the current map
          FixedLimit,   \* the first coordinate that is too large for fixed point
          MaxEnemies,   \* DMCP_MAX_ENEMIES
          SpawnHealth,  \* the hit points a monster starts with
          TurnSpeed     \* the engine's slowest turn, in halves of a degree

-----------------------------------------------------------------------------
(* The engine's things.  A monster that is killed stays in the list, with  *)
(* no hit points left and still counted; only the death of a Pain          *)
(* Elemental ends with its removal (the steps of Play).                    *)

CountsAsKill(type) == type \in AllEnemies \ {"LostSoul", "BossBrain"}

Mobj(uid, type) == [uid |-> uid, type |-> type, hp |-> SpawnHealth]

(* The places of the things that count as a kill, and how many come before one. *)
Counted(w) == {i \in 1..Len(w.mobjs) : CountsAsKill(w.mobjs[i].type)}
EnemyId(w, i) == Cardinality({j \in Counted(w) : j < i})

(* P_DamageMobj leaves alone what is dead already. *)
DamageMobj(w, uid, damage) ==
  LET Hurt(m) == IF m.uid # uid \/ m.hp <= 0 THEN m ELSE [m EXCEPT !.hp = m.hp - damage]
      mobjs == [i \in 1..Len(w.mobjs) |-> Hurt(w.mobjs[i])]
      deaths == {i \in 1..Len(mobjs) : w.mobjs[i].hp > 0 /\ mobjs[i].hp <= 0}
  IN  [w EXCEPT !.mobjs = mobjs, !.kills = w.kills + (IF deaths = {} THEN 0 ELSE 1)]

-----------------------------------------------------------------------------
(* Spawning.                                                               *)

SpawnMappings == AllEnemies \cup SpawnableWeapons \cup (AllItems \ {"HealthBonus", "ArmorBonus"})

MobjType(name) == IF name = "MegaArmor" THEN "BlueArmor" ELSE name

(* dmcp_float_to_fixed_checked refuses what a fixed-point number does not hold, and the
   adapter what is outside of the map. *)
PositionInMap(c) == {c.x, c.y} \subseteq BlockMap \cap (-FixedLimit..(FixedLimit - 1))

Spawnable(w, c) ==
  /\ w.inLevel /\ PositionInMap(c)
  /\ c.entity_class \in
       SpawnMappings \cap (IF c.entity_class \in AllEnemies THEN EnemiesOf(w.mode) ELSE ItemsOf(w.mode))

(* P_SpawnMobj links a new thing into the list, at its end; P_RemoveMobj takes one out. *)
SpawnMobj(w, type) ==
  [w EXCEPT !.mobjs = Append(@, Mobj(w.nextUid, type)), !.nextUid = @ + 1]
RemoveMobj(w, i) == [w EXCEPT !.mobjs = RemoveAt(@, i)]

(* Faulty variant: a thing that turns out to be blocked is left where it is. *)
CrispySpawnLeft(w, c) ==
  LET spawned == SpawnMobj(w, MobjType(c.entity_class))
  IN  IF ~Spawnable(w, c) THEN Failed(w)
      ELSE Failed(w) \cup Done(spawned) \cup Failed(spawned)

(* Sprites or sounds may be missing.  What is in the way is only known once the thing
   is in the level, where P_CheckPosition looks at it; a thing in a blocked place is
   taken out again.  Which way it faces is left out, and its tid is never read. *)
CrispySpawn(w, c) ==
  LET spawned == SpawnMobj(w, MobjType(c.entity_class))
  IN  IF ~Spawnable(w, c) THEN Failed(w)
      ELSE Failed(w) \cup Done(spawned) \cup Failed(RemoveMobj(spawned, Len(spawned.mobjs)))

-----------------------------------------------------------------------------
(* Giving.                                                                 *)

CrispyGiveable == (AllWeapons \cup AllItems) \ {"Fist", "HealthBonus", "ArmorBonus"}

(* Which ammunition an item is, and how much of it. *)
AmmoGiven ==
  [Clip |-> <<"clip", 10>>, BoxOfBullets |-> <<"clip", 50>>,
   Shells |-> <<"shell", 4>>, BoxOfShells |-> <<"shell", 20>>,
   RocketAmmo |-> <<"misl", 1>>, BoxOfRockets |-> <<"misl", 5>>,
   Cell |-> <<"cell", 20>>, CellPack |-> <<"cell", 100>>]

HealthGiven == [Stimpack |-> 10, Medikit |-> 25, SoulSphere |-> 100]

(* Faulty variant: what is given is added to what is there, whatever the limit. *)
GivenUnbounded(p, item, amount) ==
  CASE item \in DOMAIN AmmoGiven ->
         [p EXCEPT !.ammo[AmmoGiven[item][1]] = @ + AmmoGiven[item][2] * amount]
    [] item = "Backpack" -> [p EXCEPT !.owned = @ \cup {item}]
    [] OTHER -> p

Given(p, item, amount) ==
  CASE item \in DOMAIN AmmoGiven ->
         LET kind == AmmoGiven[item][1]
         IN  [p EXCEPT !.ammo[kind] = Clamp(@ + AmmoGiven[item][2] * amount, 0, p.maxammo[kind])]
    [] item \in DOMAIN HealthGiven ->
         [p EXCEPT !.hp = Clamp(@ + HealthGiven[item] * amount, 1, MaxHealth)]
    [] item = "MegaSphere" -> [p EXCEPT !.hp = MaxHealth, !.armor = 200]
    [] item = "GreenArmor" -> [p EXCEPT !.armor = 100]
    [] item \in {"BlueArmor", "MegaArmor"} -> [p EXCEPT !.armor = 200]
    [] item = "Backpack" ->
         IF "Backpack" \in p.owned THEN p
         ELSE [p EXCEPT !.maxammo = [k \in DOMAIN @ |-> 2 * @[k]], !.owned = @ \cup {item}]
    [] OTHER -> [p EXCEPT !.owned = @ \cup {item}]

(* Berserk also changes to the fist, and the engine heals up to 100. *)
GivenPower(p, item) ==
  IF item = "Berserk"
  THEN [Given(p, item, 1) EXCEPT !.hp = IF @ < 100 THEN 100 ELSE @, !.pending = "Fist"]
  ELSE Given(p, item, 1)

CrispyGive(w, c) ==
  IF c.item_class \notin ItemsOf(w.mode) \cap CrispyGiveable
  THEN Failed(w)
  ELSE Done([w EXCEPT !.player =
               IF c.item_class \in PowerupItems \ {"ComputerMap"} THEN GivenPower(@, c.item_class)
               ELSE Given(@, c.item_class, Clamp(c.amount, 1, AmountMax))])

-----------------------------------------------------------------------------
(* The other commands.                                                     *)

(* The level is only replaced by the engine's next step; reset_inventory is
   not looked at. *)
CrispyMaps == ((1..4) \X (1..9)) \cup ({0} \X (1..32))

CrispyChangeLevel(w, c) ==
  IF c.map_name \notin CrispyMaps THEN Failed(w)
  ELSE Done([w EXCEPT !.deferred = {<<c.map_name, Clamp(c.skill_level, 1, 5)>>}])

(* Faulty variant: the health of a new player is taken for the largest one. *)
HealthPointsOfNew(requested) == Clamp(requested, 1, 100)

(* A health of 1 is taken for a share of the whole. *)
HealthPoints(requested) == Clamp(IF requested = 1 THEN 100 ELSE requested, 1, MaxHealth)

CrispySetHealth(w, c) == Done([w EXCEPT !.player.hp = HealthPoints(c.health)])

(* A single as a coordinate in fixed point, or as an angle: cut at the ends of the range
   (the largest one is shown cut to halves), an infinite one is 0; the number just above
   the range passes the test, and casting it is undefined. *)
ToFixed(f) ==
  CASE f \in {-Infinity, Infinity} -> {0}
    [] f = FixedLimit              -> {-FixedLimit, FixedLimit - 1}
    [] OTHER                       -> {Clamp(f, -FixedLimit, FixedLimit - 1)}
ToAngle(f) ==
  CASE f \in {-Infinity, Infinity} -> {0}
    [] f = 2 * FullTurn            -> {0, 2 * FullTurn - 1}
    [] OTHER                       -> {Clamp(f, 0, 2 * FullTurn - 1)}

PutAt(p, x, y, angle) == [p EXCEPT !.x = x, !.y = y, !.angle = angle]

Placements(p, c) ==
  {PutAt(p, x, y, angle) : x \in ToFixed(c.x), y \in ToFixed(c.y), angle \in ToAngle(c.angle)}

(* P_TeleportMove refuses a position that is blocked. *)
CrispySetPosition(w, c) ==
  Failed(w) \cup UNION {Done([w EXCEPT !.player = p]) : p \in Placements(w.player, c)}

ConsoleEffects ==
  [god    |-> {<<"god">>, <<"godmode">>, <<"iddqd">>, <<"god", "on">>, <<"godmode", "on">>},
   ungod  |-> {<<"ungod">>, <<"god", "off">>, <<"godmode", "off">>},
   noclip |-> {<<"noclip">>, <<"noclip", "on">>, <<"idspispopd">>},
   clip   |-> {<<"clip">>, <<"noclip", "off">>},
   pause  |-> {<<"pause">>},
   resume |-> {<<"resume">>, <<"unpause">>}]

(* A second copy of what the server does before it asks for permissions. *)
NormalizeCommand(text) ==
  [k \in 1..Cardinality(WordsUpTo(text, Len(text))) |-> Word(text, k)[1]]

ConsoleEffect(text) == {e \in DOMAIN ConsoleEffects : NormalizeCommand(text) \in ConsoleEffects[e]}

CrispyConsole(w, c) ==
  LET effect == ConsoleEffect(c.command)
  IN CASE effect = {"god"}    -> Done([w EXCEPT !.player.cheats = @ \cup {"god"}])
       [] effect = {"ungod"}  -> Done([w EXCEPT !.player.cheats = @ \ {"god"}])
       [] effect = {"noclip"} -> Done([w EXCEPT !.player.cheats = @ \cup {"noclip"}])
       [] effect = {"clip"}   -> Done([w EXCEPT !.player.cheats = @ \ {"noclip"}])
       [] effect = {"pause"}  -> Done([w EXCEPT !.paused = TRUE])
       [] effect = {"resume"} -> Done([w EXCEPT !.paused = FALSE])
       [] OTHER               -> Failed(w)

(* Faulty variant: the dead are passed over. *)
FindEnemyAlive(w, id) ==
  LET alive == {i \in Counted(w) : w.mobjs[i].hp > 0}
  IN  {w.mobjs[i] : i \in {i \in alive : Cardinality({j \in alive : j < i}) = id}}

(* The id of an enemy is its place among the things that count as a kill. *)
FindEnemy(w, id) == {w.mobjs[i] : i \in {i \in Counted(w) : EnemyId(w, i) = id}}

Struck(w, target, damage) ==
  {[ok |-> TRUE, hit |-> m.uid, world |-> DamageMobj(w, m.uid, damage)] : m \in target}

CrispyDamage(w, c) ==
  IF c.damage \notin 1..DamageMax \/ FindEnemy(w, c.target_tid) = {} THEN Failed(w)
  ELSE Struck(w, FindEnemy(w, c.target_tid), c.damage)

(* DMCP_OVERKILL_BONUS is 1024. *)
CrispyKill(w, c) ==
  LET target == FindEnemy(w, c.target_tid)
  IN  IF target = {} THEN Failed(w)
      ELSE UNION {Struck(w, {m}, Clamp(m.hp + 1024, 1, 32000)) : m \in target}

CrispyExecute(w, c) ==
  IF ~w.inGame /\ c.type \in {"give_item", "set_player_health", "set_player_position",
                              "execute_console"}
  THEN Failed(w)
  ELSE CASE c.type = "spawn_entity"        -> CrispySpawn(w, c)
         [] c.type = "change_level"        -> CrispyChangeLevel(w, c)
         [] c.type = "give_item"           -> CrispyGive(w, c)
         [] c.type = "set_player_health"   -> CrispySetHealth(w, c)
         [] c.type = "set_player_position" -> CrispySetPosition(w, c)
         [] c.type = "execute_console"     -> CrispyConsole(w, c)
         [] c.type = "pause_game"          -> Done([w EXCEPT !.paused = c.paused])
         [] c.type = "damage_entity"       -> CrispyDamage(w, c)
         [] c.type = "kill_entity"         -> CrispyKill(w, c)

(* The way round from one angle to another, at most half a turn (angles are in
   halves of a degree). *)
AngleDelta(from, to) ==
  LET delta == (to - from) % (2 * FullTurn)
  IN  IF delta > FullTurn THEN delta - 2 * FullTurn ELSE delta

(* A target that is far away is turned from: turning left is a positive turn. *)
AimTurn(angle, target) ==
  LET delta == AngleDelta(angle, target)
  IN  IF delta > TurnSpeed THEN -TurnSpeed ELSE IF delta < -TurnSpeed THEN TurnSpeed ELSE delta

(* An input writes into the tick command the engine has built. *)
CrispyInput(w, c) ==
  LET cmd == w.ticcmd
      written ==
        CASE c.action \in {"forward", "backward"}         -> [cmd EXCEPT !.forward = c.action]
          [] c.action \in {"strafe_left", "strafe_right"} -> [cmd EXCEPT !.side = c.action]
          [] c.action = "turn_left"  -> [cmd EXCEPT !.turn = TurnSpeed]
          [] c.action = "turn_right" -> [cmd EXCEPT !.turn = -TurnSpeed]
          [] c.action = "aim"        -> [cmd EXCEPT !.turn = AimTurn(w.player.angle, c.angle)]
          [] c.action \in {"attack", "use"} -> [cmd EXCEPT !.buttons = @ \cup {<<c.action, 0>>}]
          [] c.action = "weapon"     -> [cmd EXCEPT !.buttons = @ \cup {<<"weapon", c.slot>>}]
  IN  IF w.inGame THEN Done([w EXCEPT !.ticcmd = written]) ELSE Failed(w)

-----------------------------------------------------------------------------
(* What a snapshot shows.                                                  *)

WorldTypeName(type) ==
  CASE type = "Shells"     -> "Shell"
    [] type = "RocketAmmo" -> "Rocket"
    [] type \in KeyItems   -> "Pickup"
    [] OTHER               -> type

(* The rows stand at the places of the things; the list is cut at its capacity, the
   numbering is that of FindEnemy. *)
CrispyEnemies(w) ==
  [i \in {i \in Counted(w) : EnemyId(w, i) < MaxEnemies} |->
     LET m == w.mobjs[i]
     IN  [id |-> EnemyId(w, i), uid |-> m.uid, hp |-> IF m.hp > 0 THEN m.hp ELSE 0]]

CrispyEntities(w) ==
  LET shown == SelectSeq(w.mobjs, LAMBDA m : m.type \notin AllEnemies)
  IN  [i \in 1..Len(shown) |-> [uid |-> shown[i].uid, type |-> WorldTypeName(shown[i].type)]]

CrispyView(w) ==
  IF w.inLevel
  THEN [enemies |-> CrispyEnemies(w), entities |-> CrispyEntities(w), hp |-> w.player.hp]
  ELSE [enemies |-> << >>, entities |-> << >>, hp |-> 0]
=============================================================================
