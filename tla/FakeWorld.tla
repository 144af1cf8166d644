----------------------------- MODULE FakeWorld -----------------------------
(***************************************************************************)
(* The fake adapter's in-memory game (adapters/fake/src/adapter.cpp): its  *)
(* first state, what inputs and commands do to it, and how it advances.    *)
(* Its enemies are a sequence of [uid, id, type, hp]; uid tells apart      *)
(* enemies the program only knows by an id that need not be unique.        *)
(* Enemies' positions are not kept: which one is the nearest and which     *)
(* touch the player is any choice.  The player's are in halves.            *)
(***************************************************************************)
EXTENDS CommandParsing, Permissions, Outcomes, FiniteSets

CONSTANTS EnemyCapacity,      \* the smaller of config.max_enemies and DMCP_MAX_ENEMIES
          InventoryCapacity,  \* the slots of a snapshot's inventory
          Touching            \* how many enemies may be near enough to hurt at once

EnemyHealth(type) ==
  CASE type = "Demon"       -> 150
    [] type = "ShotgunGuy"  -> 30
    [] type = "BaronOfHell" -> 1000
    [] OTHER                -> 60

FakeEnemy(uid, id, type) == [uid |-> uid, id |-> id, type |-> type, hp |-> EnemyHealth(type)]

MaxAmmo == <<200, 50, 300, 50>>

(* initialize_snapshot fills the world up to its capacity, and numbers three
   enemies whether or not they all fit. *)
FakeStart ==
  [enemies   |-> [i \in {i \in 1..3 : i <= EnemyCapacity} |->
                    FakeEnemy(i, 99 + i, <<"DoomImp", "ShotgunGuy", "Demon">>[i])],
   nextId    |-> 103, nextUid |-> 4,
   inventory |-> <<[name |-> "Bullets", amount |-> 50], [name |-> "Shells", amount |-> 8]>>,
   player    |-> [hp |-> 100, god |-> FALSE, ammo |-> <<50, 8, 0, 0>>, weapon |-> 2,
                  x |-> 512, y |-> 256, angle |-> 360],
   level     |-> <<0, 1>>, kills |-> 0, used |-> 0, paused |-> FALSE]

(* find_enemy: the first with the id, dead or alive. *)
FakeIndexes(w, id) == {i \in 1..Len(w.enemies) : w.enemies[i].id = id}
FakeFind(w, id) == {i \in FakeIndexes(w, id) : \A j \in FakeIndexes(w, id) : i <= j}

Alive(w) == {i \in 1..Len(w.enemies) : w.enemies[i].hp > 0}

(* Faulty variant: the dead are damaged like the living. *)
FakeDamagedAgain(w, i, damage) ==
  LET left == w.enemies[i].hp - damage
  IN  [w EXCEPT !.enemies[i].hp = IF left > 0 THEN left ELSE 0,
                !.kills = IF left <= 0 THEN @ + 1 ELSE @]

(* apply_damage_to_enemy leaves the dead alone and counts a death once. *)
FakeDamaged(w, i, damage) ==
  LET left == w.enemies[i].hp - damage
  IN  IF damage <= 0 \/ i \notin Alive(w) THEN w
      ELSE [w EXCEPT !.enemies[i].hp = IF left > 0 THEN left ELSE 0,
                     !.kills = IF left <= 0 THEN @ + 1 ELSE @]

FakeStruck(w, targets, Damage(_)) ==
  {[ok |-> TRUE, hit |-> w.enemies[i].uid, world |-> FakeDamaged(w, i, Damage(w.enemies[i]))] :
     i \in targets}

-----------------------------------------------------------------------------
(* Inputs.  Attacking is the only one that can fail.                       *)

Step == [forward |-> <<0, 32>>, backward |-> <<0, -32>>,
         strafe_left |-> <<-32, 0>>, strafe_right |-> <<32, 0>>]

FakeInput(w, c) ==
  CASE c.action \in DOMAIN Step ->
         Done([w EXCEPT !.player.x = @ + Step[c.action][1], !.player.y = @ + Step[c.action][2]])
    [] c.action = "turn_left"  -> Done([w EXCEPT !.player.angle = @ - 48])
    [] c.action = "turn_right" -> Done([w EXCEPT !.player.angle = @ + 48])
    [] c.action = "aim"        -> Done([w EXCEPT !.player.angle = c.angle])
    [] c.action = "use"        -> Done([w EXCEPT !.used = @ + 1])
    [] c.action = "weapon"     -> Done([w EXCEPT !.player.weapon = c.slot])
    [] c.action = "attack"     -> IF Alive(w) = {} THEN Failed(w)
                                  ELSE FakeStruck(w, Alive(w), LAMBDA e : 20)

-----------------------------------------------------------------------------
(* Commands.                                                               *)

(* A requested id is taken as it is, and the next own id is used up even when
   there is no room. *)
FakeSpawn(w, c) ==
  LET id       == IF c.tid > 0 THEN c.tid ELSE w.nextId
      numbered == IF c.tid > 0 THEN w ELSE [w EXCEPT !.nextId = @ + 1]
  IN  IF Len(w.enemies) >= EnemyCapacity THEN Failed(numbered)
      ELSE Done([numbered EXCEPT !.enemies = Append(@, FakeEnemy(w.nextUid, id, c.entity_class)),
                                 !.nextUid = @ + 1])

(* The counters start again, the enemies stay. *)
FakeChangeLevel(w, c) == Done([w EXCEPT !.level = c.map_name, !.kills = 0, !.used = 0])

FakeGive(w, c) ==
  LET amount == IF c.amount > 1 THEN c.amount ELSE 1
      slots == {i \in 1..Len(w.inventory) : w.inventory[i].name = c.item_class}
      first == CHOOSE i \in slots : \A j \in slots : i <= j
  IN  CASE slots # {} -> Done([w EXCEPT !.inventory[first].amount = @ + amount])
        [] slots = {} /\ Len(w.inventory) < InventoryCapacity ->
             Done([w EXCEPT !.inventory = Append(@, [name |-> c.item_class, amount |-> amount])])
        [] OTHER -> Failed(w)

(* Three lines are understood, as they are written here and no other way,
   and every other one succeeds as well. *)
FakeConsole(w, c) ==
  LET killed == [i \in 1..Len(w.enemies) |-> [w.enemies[i] EXCEPT !.hp = 0]]
  IN CASE c.command = <<<<"iddqd", FALSE>>>> ->
            Done([w EXCEPT !.player.god = TRUE, !.player.hp = 100])
       [] c.command = <<<<"give", FALSE>>, Blank, <<"all", FALSE>>>> ->
            Done([w EXCEPT !.player.ammo = MaxAmmo])
       [] c.command = <<<<"killall", FALSE>>>> ->
            Done([w EXCEPT !.enemies = killed, !.kills = @ + Cardinality(Alive(w))])
       [] OTHER -> Done(w)

FakeTarget(w, c, Damage(_)) ==
  IF FakeFind(w, c.target_tid) = {} THEN Failed(w)
  ELSE FakeStruck(w, FakeFind(w, c.target_tid), Damage)

FakeExecute(w, c) ==
  CASE c.type = "spawn_entity"        -> FakeSpawn(w, c)
    [] c.type = "change_level"        -> FakeChangeLevel(w, c)
    [] c.type = "give_item"           -> FakeGive(w, c)
    [] c.type = "set_player_health"   ->
         Done([w EXCEPT !.player.hp = Clamp(c.health, 1, MaxHealth)])
    [] c.type = "set_player_position" ->
         Done([w EXCEPT !.player.x = c.x, !.player.y = c.y, !.player.angle = c.angle])
    [] c.type = "execute_console"     -> FakeConsole(w, c)
    [] c.type = "pause_game"          -> Done([w EXCEPT !.paused = c.paused])
    [] c.type = "damage_entity"       -> FakeTarget(w, c, LAMBDA e : c.damage)
    [] c.type = "kill_entity"         -> FakeTarget(w, c, LAMBDA e : e.hp)

-----------------------------------------------------------------------------
(* The tick advances the simulation unless it is paused: every enemy that is
   alive comes nearer, or hurts the player when it is near enough. *)
FakeAdvance(w) ==
  IF w.paused THEN {w}
  ELSE {[w EXCEPT !.player.hp = IF @ > 5 * touching THEN @ - 5 * touching ELSE 0] :
          touching \in Touching \cap 0..Cardinality(Alive(w))}

(* The snapshot is a copy of the world. *)
FakeView(w) ==
  [enemies  |-> [i \in 1..Len(w.enemies) |->
                   [id |-> w.enemies[i].id, uid |-> w.enemies[i].uid, hp |-> w.enemies[i].hp]],
   entities |-> << >>, hp |-> w.player.hp]
=============================================================================
