-------------------------------- MODULE Play --------------------------------
(***************************************************************************)
(* An agent plays against an adapter.  It reads the published view, picks  *)
(* what to do, and its command reaches the game ticks later: other         *)
(* commands, the engine and a change of level may come in between.  The    *)
(* module composes the intake of commands (CommandIntake) with the tick    *)
(* and the world of the Crispy Doom adapter (publish, commands, one input, *)
(* then the engine itself) or of the fake adapter (inputs, commands,       *)
(* advance, publish).  The queues of CommandPipeline are plain sequences   *)
(* here: nothing is evicted, superseded or cleared within the bounds.      *)
(***************************************************************************)
EXTENDS CommandIntake, CrispyWorld, FakeWorld

CONSTANTS
  Requests,    \* calls <<command tool, arguments>> that name no enemy
  InputCalls,  \* the arguments of player_input calls
  Mode,        \* the game mode of the Crispy engine
  LevelThings, \* the types of the things a level starts with
  MaxSent,     \* how many calls the agent makes
  MaxTicks     \* how many ticks the adapter makes

ASSUME PlayAssumption ==
  /\ {MaxSent, MaxTicks, EnemyCapacity, MaxEnemies, FixedLimit} \subseteq Nat
  /\ SpawnHealth \in Nat \ {0} /\ 100 <= MaxHealth
  /\ LevelThings \in Seq(STRING)

(* Calls are of the command tools, and values are what their tags say. *)
ASSUME RequestsAssumption ==
  \A call \in Requests :
    /\ call[1] \in CommandTypes
    /\ \A f \in DOMAIN call[2] : LET value == call[2][f]
                                IN  /\ IsNumber(value) => value[2] \in Int
                                    /\ value[1] = "bool" => value[2] \in BOOLEAN

VARIABLES
  engine,    \* "crispy" or "fake"
  world,     \* the game
  view,      \* the last published snapshot, with the epoch it was taken in
  commands,  \* queued commands, oldest first
  inputs,    \* queued inputs, oldest first
  phase,     \* what the tick does next
  last,      \* the last execution
  executed,  \* how many executions there were
  epoch,     \* how often what happened in the engine has changed the places of enemies
  buried,    \* the dead the kill counter has forgotten, less the risen it still counts
  sent, ticks

vars == <<engine, world, view, commands, inputs, phase, last, executed, epoch, buried,
          sent, ticks>>
agentVars == <<commands, inputs, sent>>

-----------------------------------------------------------------------------
(* The two worlds.                                                         *)

IdleCmd == [forward |-> "", side |-> "", turn |-> 0, buttons |-> {}]

NewPlayer ==
  [hp |-> 100, armor |-> 0, ammo |-> [clip |-> 50, shell |-> 0, misl |-> 0, cell |-> 0],
   maxammo |-> [clip |-> 200, shell |-> 50, misl |-> 50, cell |-> 300],
   owned |-> {"Fist", "Pistol"}, cheats |-> {}, pending |-> "", x |-> 0, y |-> 0, angle |-> 0]

(* A game that shows its title: no level, nobody playing. *)
CrispyStart ==
  [mobjs |-> << >>, nextUid |-> 1, mode |-> Mode, inLevel |-> FALSE, inGame |-> FALSE,
   deferred |-> {}, paused |-> FALSE, kills |-> 0, skill |-> 3, ticcmd |-> IdleCmd,
   player |-> NewPlayer]

(* The engine starts a new game on a level: things, player and counters are new. *)
Loaded(w, skill) ==
  [w EXCEPT !.mobjs = [i \in 1..Len(LevelThings) |-> Mobj(w.nextUid + i - 1, LevelThings[i])],
            !.nextUid = @ + Len(LevelThings), !.inLevel = TRUE, !.inGame = TRUE,
            !.deferred = {}, !.paused = FALSE, !.kills = 0, !.skill = skill,
            !.ticcmd = IdleCmd, !.player = NewPlayer]

View(e, w) == IF e = "crispy" THEN CrispyView(w) ELSE FakeView(w)

(* What the intake sees of the published snapshot. *)
Published ==
  CASE view.epoch < 0      -> Empty
    [] engine = "crispy"   -> [Empty EXCEPT !.version = Mode, !.maps = MapsOf(Mode)]
    [] OTHER               -> [Empty EXCEPT !.version = "fake-1.0", !.maps = {<<0, 1>>, <<0, 2>>}]

(* All dead enemies of the world. *)
Dead(e, w) ==
  IF e = "crispy" THEN {m \in {w.mobjs[i] : i \in 1..Len(w.mobjs)} : m.hp <= 0}
  ELSE {m \in {w.enemies[i] : i \in 1..Len(w.enemies)} : m.hp <= 0}

NoExecution ==
  [call |-> << >>, meant |-> 0, alone |-> FALSE, current |-> FALSE, ok |-> FALSE, hit |-> 0]

Init ==
  /\ engine \in {"crispy", "fake"}
  /\ world \in IF engine = "fake" THEN {FakeStart} ELSE {CrispyStart, Loaded(CrispyStart, 3)}
  /\ view = [epoch |-> -1, enemies |-> << >>, entities |-> << >>, hp |-> 0]
  /\ commands = << >> /\ inputs = << >>
  /\ phase = IF engine = "crispy" THEN "publish" ELSE "inputs"
  /\ last = NoExecution /\ executed = 0 /\ epoch = 0 /\ buried = 0
  /\ sent = 0 /\ ticks = 0

-----------------------------------------------------------------------------
(* The agent.  It means one enemy of its view, and can only name it by its *)
(* id, whether or not it is alone in the view with it.                     *)

AllAllowed == [console |-> TRUE, cheats |-> TRUE]

Push(call, meant, alone) ==
  \E c \in SingleCall(AllAllowed, Published, call[1], call[2]) :
    commands' = Append(commands, [command |-> c, call |-> call, meant |-> meant, alone |-> alone,
                                  epoch |-> view.epoch])

Sends == sent < MaxSent /\ sent' = sent + 1
NotTheGame == UNCHANGED <<engine, world, view, phase, last, executed, epoch, buried, ticks>>

SendRequest ==
  /\ Sends /\ NotTheGame /\ UNCHANGED inputs
  /\ \E call \in Requests : Push(call, 0, FALSE)

SendTarget ==
  /\ Sends /\ NotTheGame /\ UNCHANGED inputs
  /\ \E i \in DOMAIN view.enemies :
       LET row    == view.enemies[i]
           alone  == \A j \in DOMAIN view.enemies \ {i} : view.enemies[j].id # row.id
           target == [target_tid |-> <<"int", row.id>>]
           hurt   == [target_tid |-> <<"int", row.id>>, damage |-> <<"int", 20>>]
       IN  \/ Push(<<"kill_entity", target>>, row.uid, alone)
           \/ Push(<<"damage_entity", hurt>>, row.uid, alone)

SendInput ==
  /\ Sends /\ NotTheGame /\ UNCHANGED commands
  /\ \E args \in InputCalls : \E c \in ParsePlayerInput(args) : inputs' = Append(inputs, c)

-----------------------------------------------------------------------------
(* The tick.                                                               *)

TickVars == <<view, epoch, buried, executed, last>>

Publish ==
  /\ phase = "publish"
  /\ LET shown == View(engine, world)
     IN  view' = [epoch |-> epoch, enemies |-> shown.enemies, entities |-> shown.entities,
                  hp |-> shown.hp]
  /\ phase' = IF engine = "crispy" THEN "commands" ELSE "inputs"
  /\ ticks' = IF engine = "fake" THEN ticks + 1 ELSE ticks
  /\ engine = "fake" => ticks < MaxTicks
  /\ UNCHANGED <<engine, world, last, executed, epoch, buried, agentVars>>

Execute(w, c) == IF engine = "crispy" THEN CrispyExecute(w, c) ELSE FakeExecute(w, c)

(* The dead a change of level takes out of the counter of the fake game. *)
Buried(entry, w) ==
  IF engine = "fake" /\ entry.command.type = "change_level" THEN Cardinality(Dead(engine, w))
  ELSE buried

Command ==
  /\ phase = "commands" /\ commands # << >>
  /\ LET entry == Head(commands)
     IN  \E outcome \in Execute(world, entry.command) :
           /\ world' = outcome.world
           /\ last' = [call |-> entry.call, meant |-> entry.meant, alone |-> entry.alone,
                       current |-> entry.epoch = epoch, ok |-> outcome.ok, hit |-> outcome.hit]
           /\ buried' = Buried(entry, world)
  /\ commands' = Tail(commands)
  /\ executed' = executed + 1
  /\ UNCHANGED <<engine, view, inputs, phase, epoch, sent, ticks>>

CommandsDone ==
  /\ phase = "commands" /\ commands = << >>
  /\ phase' = IF engine = "crispy" THEN "inputs" ELSE "advance"
  /\ UNCHANGED <<engine, world, ticks, TickVars, agentVars>>

(* The Crispy adapter takes one input a tick, the fake one all there are. *)
Input ==
  /\ phase = "inputs" /\ inputs # << >>
  /\ \E outcome \in IF engine = "crispy" THEN CrispyInput(world, Head(inputs))
                    ELSE FakeInput(world, Head(inputs)) : world' = outcome.world
  /\ inputs' = Tail(inputs)
  /\ phase' = IF engine = "crispy" THEN "engine" ELSE "inputs"
  /\ UNCHANGED <<engine, commands, sent, ticks, TickVars>>

InputsDone ==
  /\ phase = "inputs" /\ inputs = << >>
  /\ phase' = IF engine = "crispy" THEN "engine" ELSE "commands"
  /\ UNCHANGED <<engine, world, ticks, TickVars, agentVars>>

Advance ==
  /\ phase = "advance"
  /\ world' \in FakeAdvance(world)
  /\ phase' = "publish"
  /\ UNCHANGED <<engine, ticks, TickVars, agentVars>>

-----------------------------------------------------------------------------
(* The Crispy engine's own step, as far as the adapter depends on it.      *)

EngineStep ==
  /\ phase = "engine" /\ ticks < MaxTicks
  /\ phase' = "publish" /\ ticks' = ticks + 1
  /\ UNCHANGED <<engine, view, executed, last, agentVars>>

Running == world.deferred = {} /\ world.inLevel /\ ~world.paused

(* The tick command turns the player, then the next one is built. *)
Turned ==
  [world EXCEPT !.player.angle = IF Running THEN (@ + world.ticcmd.turn) % (2 * FullTurn) ELSE @,
                !.ticcmd = IdleCmd]

(* A new game that was asked for, or the next level after an intermission. *)
Loads ==
  IF world.deferred # {} THEN {Loaded(world, d[2]) : d \in world.deferred}
  ELSE IF world.inGame /\ ~world.inLevel
       THEN {[Loaded(world, world.skill) EXCEPT !.player = world.player]}
       ELSE {}

LoadLevel ==
  /\ EngineStep
  /\ world' \in Loads
  /\ epoch' = epoch + 1 /\ buried' = 0

(* Nothing happens, or the game itself kills a monster. *)
RunLevel ==
  /\ EngineStep /\ world.deferred = {}
  /\ \/ world' = Turned
     \/ /\ Running
        /\ \E m \in {world.mobjs[i] : i \in Counted(world)} :
             m.hp > 0 /\ world' = DamageMobj(Turned, m.uid, m.hp)
  /\ UNCHANGED <<epoch, buried>>

(* All behind a thing that leaves the list move up by a place. *)
Gone(i) == RemoveMobj(Turned, i)
LeavesNoCorpse(type) == type = "PainElemental"
Corpses == {i \in Counted(world) : world.mobjs[i].hp <= 0}

(* The last state of a Pain Elemental's death is none at all. *)
Vanish ==
  /\ EngineStep /\ Running
  /\ \E i \in Corpses : LeavesNoCorpse(world.mobjs[i].type) /\ world' = Gone(i)
  /\ epoch' = epoch + 1 /\ buried' = buried - 1

(* On the highest skill a dead monster is replaced by a new one. *)
Respawn ==
  /\ EngineStep /\ Running /\ world.skill = 5
  /\ \E i \in Corpses :
       /\ ~LeavesNoCorpse(world.mobjs[i].type)
       /\ world' = SpawnMobj(Gone(i), world.mobjs[i].type)
  /\ epoch' = epoch + 1 /\ buried' = buried - 1

(* The player leaves for the intermission: the things stay, unseen. *)
LeaveLevel ==
  /\ EngineStep /\ Running
  /\ world' = [Turned EXCEPT !.inLevel = FALSE]
  /\ UNCHANGED <<epoch, buried>>

Next ==
  \/ SendRequest \/ SendTarget \/ SendInput
  \/ Publish \/ Command \/ CommandsDone \/ Input \/ InputsDone \/ Advance
  \/ LoadLevel \/ RunLevel \/ Vanish \/ Respawn \/ LeaveLevel

Spec == Init /\ [][Next]_vars
-----------------------------------------------------------------------------
(* Properties.                                                             *)

UidsOf(e, w) ==
  IF e = "crispy" THEN [i \in 1..Len(w.mobjs) |-> w.mobjs[i].uid]
  ELSE [i \in 1..Len(w.enemies) |-> w.enemies[i].uid]

(* Type correctness, with the limits of the player's state: health stays in its
   range whatever is asked for, and no ammunition exceeds what can be carried. *)
TypeOK ==
  /\ engine \in {"crispy", "fake"}
  /\ phase \in {"publish", "commands", "inputs", "engine", "advance"}
  /\ sent \in 0..MaxSent /\ ticks \in 0..MaxTicks
  /\ executed \in Nat /\ buried \in Int /\ epoch \in Nat /\ view.epoch \in -1..epoch
  /\ world.player.hp \in 0..MaxHealth /\ world.paused \in BOOLEAN /\ world.kills \in Nat
  /\ \A k \in DOMAIN world.player.ammo :
       world.player.ammo[k] \in
         0..(IF engine = "crispy" THEN world.player.maxammo[k] ELSE MaxAmmo[k])
  /\ \A i \in 1..Len(UidsOf(engine, world)) : UidsOf(engine, world)[i] \in 1..(world.nextUid - 1)
  /\ last.ok \in BOOLEAN /\ last.hit \in 0..world.nextUid

(* Nothing else misleads: a command that names an enemy by its id is carried out and hits
   the enemy that was seen under it, whatever commands, inputs, spawns, blocked spawns,
   console lines and deaths that leave a corpse came in between, unless the view showed
   the id twice (the fake game takes any id that is asked for), or since then a level was
   loaded, a monster respawned or a corpse left the list. *)
OnlyRenumberingMisleads ==
  last.meant # 0 /\ last.alone /\ last.current => last.ok /\ last.hit = last.meant

(* What the one before depends on: no enemy has an id that damage_entity cuts off
   (it clamps what it is asked for at TidMax), neither as a place in a list of a
   snapshot, nor as a number of the fake game, nor because a spawn asks for it. *)
IdsCanBeNamed ==
  /\ MaxEnemies <= TidMax + 1 /\ 103 + MaxSent <= TidMax
  /\ \A call \in Requests :
       call[1] = "spawn_entity" => \A tid \in OptionalInt(call[2], "tid", 0) : tid <= TidMax

(* The kill counter is the number of the dead: no way of killing counts twice
   or not at all, whether it was a command, an input, the console or the game,
   except for those a change of level of the fake game forgets. *)
KillsAddUp == world.kills + buried = Cardinality(Dead(engine, world))

Asked(call, field) == call[2][field]

(* A fraction of a point is dropped, and at least one is left. *)
HealthSet(asked, hp) == hp = Clamp(asked, 1, MaxHealth)

(* Giving takes nothing away (but that a green armor replaces a better one), and what
   was given is there; in the fake game in the one slot that has its name. *)
GivenTo(item, amounts, before, after) ==
  IF engine = "crispy"
  THEN /\ after.player.hp >= before.player.hp
       /\ item # "GreenArmor" => after.player.armor >= before.player.armor
       /\ before.player.owned \subseteq after.player.owned
       /\ \A k \in DOMAIN before.player.ammo : after.player.ammo[k] >= before.player.ammo[k]
       /\ item \in AllWeapons \cup {"Backpack"} => item \in after.player.owned
       /\ item = "Backpack" => after.player.maxammo["clip"] = 400
  ELSE LET old == before.inventory
           new == after.inventory
       IN  /\ \A i, j \in 1..Len(new) : new[i].name = new[j].name => i = j
           /\ \E i \in 1..Len(new) : \E amount \in amounts :
                /\ new[i] = [name   |-> item,
                             amount |-> (IF i <= Len(old) THEN old[i].amount ELSE 0) + amount]
                /\ i <= Len(old) => old[i].name = item
                /\ \A j \in 1..Len(old) : j # i => new[j] = old[j]

Beings(w) == IF engine = "crispy" THEN w.mobjs ELSE w.enemies

(* The thing is new, is the last one, and nothing else has changed; in the fake game it
   has the id that was asked for. *)
SpawnedIn(name, tids, before, after) ==
  /\ Len(Beings(after)) = Len(Beings(before)) + 1
  /\ \A i \in 1..Len(Beings(before)) : Beings(after)[i] = Beings(before)[i]
  /\ LET new == Beings(after)[Len(Beings(after))]
     IN  IF engine = "crispy" THEN new.type = MobjType(name)
         ELSE new.type = name /\ \E tid \in tids : tid # 0 => new.id = tid

(* The player stands where it was asked to, and faces the angle that was asked for when
   that is within one turn; numbers that have no exact place are left out. *)
Standing(args, player) ==
  LET Stands(f, low, high) ==
        Number(args[f]) \in (-FloatExact..FloatExact) \cap (low..high) => player[f] = Number(args[f])
  IN  /\ Stands("x", -FixedLimit, FixedLimit - 1) /\ Stands("y", -FixedLimit, FixedLimit - 1)
      /\ "angle" \in DOMAIN args => Stands("angle", 0, 2 * FullTurn - 1)

(* The one that is hit is weaker than before or was dead, and nobody else is hurt. *)
HurtAlone(hit, before, after) ==
  /\ \A i \in 1..Len(Beings(before)) :
       Beings(before)[i].uid # hit => Beings(after)[i] = Beings(before)[i]
  /\ \E i \in 1..Len(Beings(before)) :
       /\ Beings(before)[i].uid = hit
       /\ Beings(before)[i].hp <= 0 \/ Beings(after)[i].hp < Beings(before)[i].hp

Effect(call, hit, before, after) ==
  CASE call[1] = "kill_entity" ->
         HurtAlone(hit, before, after) /\ \E m \in Dead(engine, after) : m.uid = hit
    [] call[1] = "damage_entity" -> HurtAlone(hit, before, after)
    [] call[1] = "set_player_health" ->
         LET asked == Number(Asked(call, "health")) \div 2
         IN  (engine = "crispy" /\ asked <= 1) \/ HealthSet(asked, after.player.hp)
    [] call[1] = "set_player_position" -> Standing(call[2], after.player)
    [] call[1] = "pause_game" -> after.paused = Asked(call, "paused")[2]
    [] call[1] = "give_item" ->
         GivenTo(Asked(call, "item_class")[2], OptionalInt(call[2], "amount", 1), before, after)
    [] call[1] = "spawn_entity" ->
         SpawnedIn(Asked(call, "entity_class")[2], OptionalInt(call[2], "tid", 0), before, after)
    [] call[1] = "change_level" ->
         IF engine = "crispy" THEN \E d \in after.deferred : d[1] = Asked(call, "map_name")[2]
         ELSE after.level = Asked(call, "map_name")[2]
    [] OTHER -> TRUE

(* A command that is reported as executed has had the effect that the call asked for, as
   the parser, the intake and the adapter together understand it: the enemy that is hit
   is weaker or dead and no other one is; health is what was asked for within its limits
   (one point on Crispy Doom aside, which it takes for a hundred); a gift is there and has
   taken nothing away but a better armor for a green one; a spawned thing is there beside
   all the others (in the fake game under its id; Crispy Doom never reads the id); the
   player stands where it should; the level and the pause are the ones asked for.  Of
   console lines nothing is claimed: the fake game reports every line as executed. *)
DoneMeansDone ==
  [][executed' > executed /\ last'.ok => Effect(last'.call, last'.hit, world, world')]_vars

(* What the one before depends on: a kill takes no more than 32000 points, and no
   monster of the engine has more (the strongest one has 4000). *)
KillsSuffice == SpawnHealth <= 32000

(* A command that is reported as failed has left the game alone, also when it stopped half
   way: a thing that is in the level before its place turns out to be blocked is taken out
   again, itself and no other one.  Numbers are used up by it: the next id of the fake
   game, and the uid that tells apart the engine's things here. *)
FailureLeavesNoTrace ==
  [][executed' > executed /\ ~last'.ok =>
       world' = IF engine = "fake" THEN [world EXCEPT !.nextId = world'.nextId]
                ELSE [world EXCEPT !.nextUid = world'.nextUid]]_vars

Distance(from, to) == IF AngleDelta(from, to) < 0 THEN -AngleDelta(from, to) ELSE AngleDelta(from, to)

(* "Aim toward specific angle" (get_command_examples.cpp): the turn that an aim
   writes into the tick command does not take the player farther from the angle. *)
AimComesNearer ==
  [][engine = "crispy" /\ phase = "inputs" /\ phase' = "engine" /\ inputs # << >> =>
       (Head(inputs).action = "aim" =>
          Distance(world.player.angle + world'.ticcmd.turn, Head(inputs).angle)
            <= Distance(world.player.angle, Head(inputs).angle))]_vars
=============================================================================
