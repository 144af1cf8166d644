---------------------------- MODULE StateQueries ----------------------------
(***************************************************************************)
(* The sections of one copied snapshot (state_json.cpp) and the tools that *)
(* read them (get_state_sections.cpp).  A snapshot is a record with the    *)
(* sequences enemies (their hit points), entities (their type names) and   *)
(* inventory; a row of an answer is a kind and an index into one of them.  *)
(* Arguments are those of CommandParsing, with two more tags of values:    *)
(* <<"array", values>> and <<"object", args>>.                             *)
(***************************************************************************)
EXTENDS CommandParsing, Content, Sequences, FiniteSets

CONSTANT DefaultLimit  \* k_default_limit

ASSUME LimitAssumption == DefaultLimit \in Nat \ {0}

NoArguments == [f \in {} |-> <<"null", 0>>]
Refusal == [status |-> "refused"]

-----------------------------------------------------------------------------
(* Which rows a filter lets through.                                       *)

Statuses == {"alive", "dead", "all"}
Kinds == {"all", "enemy", "item", "weapon", "ammo", "key", "health", "armor", "powerup", "world"}

EnemyMatches(hp, status) == (status = "alive" => hp > 0) /\ (status = "dead" => hp <= 0)

EntityKind(type) == IF Kind(type) = "item" THEN "world" ELSE Kind(type)

EntityMatches(type, kind) ==
  CASE kind = "all"  -> TRUE
    [] kind = "item" -> EntityKind(type) # "world"
    [] OTHER         -> EntityKind(type) = kind

(* A set of indexes as a sequence: the k-th has k of them up to itself. *)
InOrder(S) ==
  [k \in 1..Cardinality(S) |-> CHOOSE i \in S : Cardinality({j \in S : j <= i}) = k]

(* The indexes of a sequence that pass a test, in order. *)
Matching(seq, Passes(_)) == InOrder({i \in 1..Len(seq) : Passes(seq[i])})

EnemyRows(snap, status) ==
  LET found == Matching(snap.enemies, LAMBDA hp : EnemyMatches(hp, status))
  IN  [i \in 1..Len(found) |-> <<"enemy", found[i]>>]

EntityRows(snap, kind) ==
  LET found == Matching(snap.entities, LAMBDA type : EntityMatches(type, kind))
  IN  [i \in 1..Len(found) |-> <<EntityKind(snap.entities[found[i]]), found[i]>>]

WorldRows(snap, kind, status) ==
  (IF kind \in {"all", "enemy"} THEN EnemyRows(snap, status) ELSE << >>)
    \o (IF kind # "enemy" THEN EntityRows(snap, kind) ELSE << >>)

InventoryRows(snap) == [i \in 1..Len(snap.inventory) |-> <<"slot", i>>]

-----------------------------------------------------------------------------
(* The window of rows an answer shows.                                     *)

Least(a, b) == IF a < b THEN a ELSE b

(* Faulty variant: a window is what the caller asked for. *)
WindowsUnclamped(args, count) ==
  {[offset |-> o, limit |-> l] :
     o \in IF "offset" \in DOMAIN args THEN Sizes(args["offset"]) ELSE {0},
     l \in IF "limit" \in DOMAIN args THEN Sizes(args["limit"]) \ {0} ELSE {DefaultLimit}}

(* Every window the arguments can mean: none when they are refused, and the
   clamped one otherwise.  It is clamped to everything the snapshot holds,
   not to what the filter lets through. *)
Windows(args, count) ==
  LET Limited(l) == IF l > count /\ count > 0 THEN count ELSE l
      offsets    == IF "offset" \in DOMAIN args THEN Sizes(args["offset"]) ELSE {0}
      limits     == IF "limit" \in DOMAIN args THEN Sizes(args["limit"]) \ {0} ELSE {DefaultLimit}
  IN  {[offset |-> Least(o, count), limit |-> Limited(l)] : o \in offsets, l \in limits}

(* The end of the window is computed in the width of a size. *)
Page(rows, window) ==
  LET start == Least(window.offset, Len(rows))
      end   == Least((start + window.limit) % SizeModulus, Len(rows))
  IN  [status |-> "ok", total |-> Len(rows), offset |-> start, limit |-> window.limit,
       returned |-> end - start, rows |-> SubSeq(rows, start + 1, end)]

(* The filter a field names, none when it names something else. *)
Filters(args, field, default, names) ==
  IF field \notin DOMAIN args THEN {default} ELSE {n \in names : args[field] = <<"string", n>>}

StatusFilters(args, default) == Filters(args, "status", default, Statuses)
KindFilters(args, default) == Filters(args, "kind", default, Kinds)

-----------------------------------------------------------------------------
(* The sections: the rows a request selects, and how many the window is    *)
(* clamped to.                                                             *)

Selections(snap, section, args) ==
  CASE section = "enemies" ->
         {[rows |-> EnemyRows(snap, s), count |-> Len(snap.enemies)] :
            s \in StatusFilters(args, "alive")}
    [] section = "entities" ->
         {[rows |-> WorldRows(snap, k, s), count |-> Len(snap.enemies) + Len(snap.entities)] :
            k \in KindFilters(args, "all"), s \in StatusFilters(args, "all")}
    [] section = "items" ->
         {[rows |-> EntityRows(snap, k), count |-> Len(snap.entities)] :
            k \in KindFilters(args, "item") \ {"all", "enemy", "world"}}
    [] section = "inventory" ->
         {[rows |-> InventoryRows(snap), count |-> Len(snap.inventory)]}
    [] OTHER -> {}

(* build_state_section_payload: an answer, or a refusal when the section is
   unknown or an argument of a paged one is not what it should be. *)
Section(snap, section, args) ==
  IF section \in {"player", "map", "game"} THEN [status |-> "ok", section |-> section]
  ELSE LET pages == UNION {{Page(sel.rows, w) : w \in Windows(args, sel.count)} :
                             sel \in Selections(snap, section, args)}
       IN  IF pages = {} THEN Refusal ELSE CHOOSE p \in pages : TRUE

-----------------------------------------------------------------------------
(* The tools.                                                              *)

SectionTools == [get_player |-> "player", get_map |-> "map", get_game_info |-> "game",
                 get_enemies |-> "enemies", get_entities |-> "entities",
                 get_items |-> "items", get_inventory |-> "inventory"]

GetSection(snap, tool, args) == Section(snap, SectionTools[tool], args)

GetState(snap, args) ==
  IF Required(args, "section", IsString) THEN Section(snap, args["section"][2], args) ELSE Refusal

(* One snapshot serves all requests, and a request that fails leaves the
   others alone. *)
GetStateBatch(snap, args) ==
  IF ~Required(args, "requests", LAMBDA v : v[1] = "array" /\ v[2] # << >>) THEN Refusal
  ELSE LET requests == args["requests"][2]
           Answer(r) == IF r[1] = "object" THEN GetState(snap, r[2]) ELSE Refusal
           results == [i \in 1..Len(requests) |-> Answer(requests[i])]
       IN  [status |-> IF \E i \in DOMAIN results : results[i] # Refusal THEN "ok" ELSE "error",
            results |-> results]

(* What the input schemas of the tools tell an agent: the required fields,
   and the values of the fields that are enumerations. *)
PagedSchema == [required |-> {}, enums |-> NoArguments]
StateSchemas ==
  [get_player |-> PagedSchema, get_map |-> PagedSchema, get_game_info |-> PagedSchema,
   get_inventory |-> PagedSchema,
   get_enemies  |-> [required |-> {}, enums |-> [status |-> Statuses]],
   get_entities |-> [required |-> {}, enums |-> [status |-> Statuses, kind |-> Kinds]],
   get_items    |-> [required |-> {}, enums |-> [kind |-> Kinds \ {"all", "enemy", "world"}]],
   get_state    |-> [required |-> {"section"},
                     enums |-> [section |-> {SectionTools[t] : t \in DOMAIN SectionTools},
                                status |-> Statuses, kind |-> Kinds]]]
=============================================================================
