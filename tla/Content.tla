------------------------------ MODULE Content ------------------------------
(***************************************************************************)
(* Which names a game mode knows (content.cpp), how they are grouped       *)
(* (content_categories.hpp), and the catalogue an agent is offered         *)
(* (content_catalog.cpp).  A map is <<episode, map>>, with episode 0 for   *)
(* the MAPnn of Doom II.  The catalogue's order carries no information, so *)
(* its lists are sets.                                                     *)
(***************************************************************************)
EXTENDS Integers

CONSTANT Episodes,  \* the episodes of dmcp_all_maps_doom1 that are enumerated
         Levels     \* the maps of an episode, or of Doom II, that are enumerated

ASSUME EpisodesAssumption == Episodes \subseteq 1..4
ASSUME LevelsAssumption == Levels \subseteq 1..32

Modes == {"shareware", "registered", "commercial", "retail"}

AllWeapons == {"Fist", "Chainsaw", "Pistol", "Shotgun", "SuperShotgun", "Chaingun",
               "RocketLauncher", "PlasmaRifle", "BFG9000"}

AmmoItems == {"Clip", "BoxOfBullets", "Shells", "BoxOfShells",
              "RocketAmmo", "BoxOfRockets", "Cell", "CellPack"}
KeyItems == {"BlueKeycard", "YellowKeycard", "RedKeycard",
             "BlueSkullKey", "YellowSkullKey", "RedSkullKey"}
HealthItems == {"HealthBonus", "Stimpack", "Medikit", "SoulSphere", "MegaSphere"}
ArmorItems == {"ArmorBonus", "GreenArmor", "BlueArmor", "MegaArmor", "Backpack"}
PowerupItems == {"Invulnerability", "Berserk", "Invisibility", "RadiationSuit",
                 "ComputerMap", "LightAmp"}
SpawnableWeapons == {"Chainsaw", "Shotgun", "SuperShotgun", "Chaingun", "RocketLauncher",
                     "PlasmaRifle", "BFG9000"}

AllItems == {"HealthBonus", "Stimpack", "Medikit", "SoulSphere", "MegaSphere",
             "ArmorBonus", "GreenArmor", "BlueArmor",
             "Clip", "BoxOfBullets", "Shells", "BoxOfShells", "RocketAmmo", "BoxOfRockets",
             "Cell", "CellPack",
             "BlueKeycard", "YellowKeycard", "RedKeycard",
             "BlueSkullKey", "YellowSkullKey", "RedSkullKey",
             "Backpack", "Invulnerability", "Berserk", "Invisibility", "RadiationSuit",
             "ComputerMap", "LightAmp", "MegaArmor"}

Doom2Enemies == {"ChaingunGuy", "HellKnight", "Arachnotron", "PainElemental", "Revenant",
                 "Mancubus", "Archvile", "BossBrain"}
AllEnemies == Doom2Enemies \cup
              {"Zombieman", "ShotgunGuy", "DoomImp", "Demon", "Spectre", "LostSoul",
               "Cacodemon", "BaronOfHell", "SpiderMastermind", "Cyberdemon"}

Doom1Maps == Episodes \X (Levels \cap 1..9)
Doom2Maps == {0} \X Levels

-----------------------------------------------------------------------------
(* The restrictions of a mode.                                             *)

RestrictedWeapons(mode) ==
  CASE mode = "shareware" -> {"PlasmaRifle", "BFG9000", "SuperShotgun"}
    [] mode \in {"registered", "retail"} -> {"SuperShotgun"}
    [] OTHER -> {}

RestrictedEnemies(mode) ==
  CASE mode = "shareware" -> Doom2Enemies \cup
                             {"SpiderMastermind", "Cyberdemon", "Cacodemon", "LostSoul"}
    [] mode \in {"registered", "retail"} -> Doom2Enemies
    [] OTHER -> {}

RestrictedItems(mode) ==
  RestrictedWeapons(mode)
    \cup (IF mode = "shareware" THEN {"Cell", "CellPack", "MegaSphere"} ELSE {})
    \cup (IF mode # "commercial" THEN {"MegaSphere"} ELSE {})

RestrictedMaps(mode) ==
  CASE mode = "commercial" -> Doom1Maps
    [] mode = "shareware"  -> Doom2Maps \cup {m \in Doom1Maps : m[1] > 1}
    [] mode = "registered" -> Doom2Maps \cup {m \in Doom1Maps : m[1] = 4}
    [] OTHER               -> Doom2Maps

WeaponsOf(mode) == AllWeapons \ RestrictedWeapons(mode)
EnemiesOf(mode) == AllEnemies \ RestrictedEnemies(mode)
ItemsOf(mode) == (AllItems \cup AllWeapons) \ RestrictedItems(mode)
MapsOf(mode) == (Doom1Maps \cup Doom2Maps) \ RestrictedMaps(mode)

Kind(name) ==
  CASE name \in SpawnableWeapons -> "weapon"
    [] name \in AmmoItems        -> "ammo"
    [] name \in KeyItems         -> "key"
    [] name \in HealthItems      -> "health"
    [] name \in ArmorItems       -> "armor"
    [] name \in PowerupItems     -> "powerup"
    [] OTHER                     -> "item"

-----------------------------------------------------------------------------
(* The mode is the one the engine published, else the one that was asked   *)
(* for, else retail.  "" stands for an absent or unknown mode name.        *)

ModeOf(version) ==
  CASE version = "doom2"    -> "commercial"
    [] version = "ultimate" -> "retail"
    [] version \in Modes    -> version
    [] OTHER                -> ""

ResolveGameMode(version, requested) ==
  IF ModeOf(version) # "" THEN ModeOf(version)
  ELSE IF ModeOf(requested) # "" THEN ModeOf(requested) ELSE "retail"

Scopes == {"all", "enemies", "entities", "items", "weapons", "ammo", "keys", "maps", "giveable"}

(* The maps are the engine's when it published any.  A base map is listed  *)
(* without asking the filter in commercial mode, and with it otherwise.    *)
CatalogMaps(maps, mode) ==
  IF maps # {} THEN maps
  ELSE IF mode = "commercial" THEN Doom2Maps
  ELSE Doom1Maps \cap MapsOf(mode)

ScopeNames(scope, maps, mode) ==
  CASE scope = "enemies"  -> EnemiesOf(mode)
    [] scope = "weapons"  -> WeaponsOf(mode)
    [] scope = "items"    -> AllItems \cap ItemsOf(mode)
    [] scope = "ammo"     -> AmmoItems \cap ItemsOf(mode)
    [] scope = "keys"     -> KeyItems \cap ItemsOf(mode)
    [] scope = "maps"     -> CatalogMaps(maps, mode)
    [] scope = "giveable" -> WeaponsOf(mode) \cup (AllItems \cap ItemsOf(mode))
    [] scope = "entities" -> EnemiesOf(mode) \cup (SpawnableWeapons \cap WeaponsOf(mode))
                               \cup (AllItems \cap ItemsOf(mode))

Catalog(scope, maps, mode) ==
  [s \in IF scope = "all" THEN Scopes \ {"all"} ELSE {scope} |-> ScopeNames(s, maps, mode)]

(* Faulty variant: the maps the engine has published are not looked at. *)
MapIsAvailableInMode(map, maps, mode) == map \in MapsOf(mode)

MapIsAvailable(map, maps, mode) ==
  IF maps # {} THEN map \in maps ELSE map \in MapsOf(mode)
=============================================================================
