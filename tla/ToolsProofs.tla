----------------------------- MODULE ToolsProofs -----------------------------
(***************************************************************************)
(* Proofs about Tools, for any set of calls, any configurations, games and *)
(* snapshots: what is listed is what is served, nothing that cheats is     *)
(* queued without the permission, and a batch queues what its calls would  *)
(* queue one by one.                                                       *)
(***************************************************************************)
EXTENDS Tools, FiniteSetTheorems, SequenceTheorems, TLAPS

-----------------------------------------------------------------------------
(* Sequences of whatever they hold.                                        *)

Members(s) == {s[i] : i \in 1..Len(s)}
IsSequence(s) == s \in Seq(Members(s))

(* A sequence over some set is one over what it holds. *)
LEMMA OverItsMembers ==
  ASSUME NEW T, NEW s \in Seq(T) PROVE IsSequence(s) /\ Len(s) \in Nat
<1>1. Len(s) \in Nat /\ s \in [1..Len(s) -> T]
  OBVIOUS
<1>2. s \in [1..Len(s) -> Members(s)]
  BY <1>1 DEF Members
<1> QED
  BY <1>1, <1>2 DEF IsSequence

LEMMA NoMembers == IsSequence(<< >>) /\ Len(<< >>) = 0 /\ Members(<< >>) = {}
<1>1. << >> \in Seq({}) /\ Len(<< >>) = 0
  OBVIOUS
<1>2. IsSequence(<< >>)
  BY <1>1, OverItsMembers
<1>3. Members(<< >>) = {}
  BY <1>1, 1..0 = {} DEF Members
<1> QED
  BY <1>1, <1>2, <1>3

(* What appending does to a sequence. *)
LEMMA OneMore ==
  ASSUME NEW s, IsSequence(s), NEW x
  PROVE  /\ IsSequence(Append(s, x))
         /\ Len(s) \in Nat /\ Len(Append(s, x)) = Len(s) + 1
         /\ Members(Append(s, x)) = Members(s) \cup {x}
<1> DEFINE T == Members(s) \cup {x}
<1>1. s \in Seq(T) /\ x \in T
  BY DEF IsSequence
<1> HIDE DEF T
<1>2. /\ Append(s, x) \in Seq(T) /\ Len(s) \in Nat /\ Len(Append(s, x)) = Len(s) + 1
      /\ \A i \in 1..Len(s) : Append(s, x)[i] = s[i]
      /\ Append(s, x)[Len(s) + 1] = x
  BY <1>1
<1>3. Members(Append(s, x)) = Members(s) \cup {x}
  BY <1>2 DEF Members
<1> QED
  BY <1>2, <1>3, OverItsMembers

(* What taking the head off does to one. *)
LEMMA OneLess ==
  ASSUME NEW s, IsSequence(s), s # << >>
  PROVE  IsSequence(Tail(s)) /\ Len(s) \in Nat /\ Len(Tail(s)) = Len(s) - 1
<1> DEFINE T == Members(s)
<1>1. s \in Seq(T)
  BY DEF IsSequence
<1> HIDE DEF T
<1>2. Tail(s) \in Seq(T) /\ Len(s) \in Nat /\ Len(Tail(s)) = Len(s) - 1
  BY <1>1
<1> QED
  BY <1>2, OverItsMembers

(* Only the empty sequence has no members. *)
LEMMA LenZero ==
  ASSUME NEW s, IsSequence(s) PROVE s = << >> <=> Len(s) = 0
<1> DEFINE T == Members(s)
<1>1. s \in Seq(T)
  BY DEF IsSequence
<1> HIDE DEF T
<1> QED
  BY <1>1
-----------------------------------------------------------------------------
(* Console lines.                                                          *)

(* A line of one word is that word. *)
LEMMA OneWord ==
  ASSUME NEW w, w # Blank PROVE Normalized(<<w>>) = <<w[1]>>
<1> DEFINE text == <<w>>
<1>1. Len(text) = 1 /\ text[1] = w
  OBVIOUS
<1>2. WordsUpTo(text, 1) = {1}
  BY <1>1 DEF WordsUpTo
<1>3. Cardinality(WordsUpTo(text, 1)) = 1
  BY <1>2, FS_Singleton
<1>4. Word(text, 1) = w
  BY <1>1, <1>2, <1>3 DEF Word
<1> HIDE DEF text
<1>5. Normalized(text) = [k \in 1..1 |-> w[1]]
  BY <1>1, <1>3, <1>4 DEF Normalized
<1> QED
  BY <1>5 DEF text

(* A line of two words with a blank between them is the two. *)
LEMMA TwoWords ==
  ASSUME NEW v, NEW w, v # Blank, w # Blank
  PROVE  Normalized(<<v, Blank, w>>) = <<v[1], w[1]>>
<1> DEFINE text == <<v, Blank, w>>
<1>1. Len(text) = 3 /\ text[1] = v /\ text[2] = Blank /\ text[3] = w
  OBVIOUS
<1>2. WordsUpTo(text, 1) = {1} /\ WordsUpTo(text, 3) = {1, 3}
  BY <1>1 DEF WordsUpTo
<1>3. Cardinality(WordsUpTo(text, 1)) = 1 /\ Cardinality(WordsUpTo(text, 3)) = 2
  <2>1. Cardinality({1}) = 1 /\ IsFiniteSet({1})
    BY FS_Singleton
  <2>2. Cardinality({1} \cup {3}) = 2
    BY <2>1, FS_AddElement
  <2> QED
    BY <1>2, <2>1, <2>2
<1>4. Word(text, 1) = v
  <2>1. \A i \in {1, 3} : Cardinality(WordsUpTo(text, i)) = 1 <=> i = 1
    BY <1>3
  <2> QED
    BY <1>1, <1>2, <2>1 DEF Word
<1>5. Word(text, 2) = w
  <2>1. \A i \in {1, 3} : Cardinality(WordsUpTo(text, i)) = 2 <=> i = 3
    BY <1>3
  <2> QED
    BY <1>1, <1>2, <2>1 DEF Word
<1> HIDE DEF text
<1>6. Normalized(text) = [k \in 1..2 |-> Word(text, k)[1]]
  BY <1>1, <1>3 DEF Normalized
<1>7. Normalized(text) = <<v[1], w[1]>>
  BY <1>4, <1>5, <1>6
<1> QED
  BY <1>7 DEF text

(* Whatever either adapter takes for a cheat is one of the lines the server knows
   for cheats, although the three read a line in different ways. *)
LEMMA CheatsAreKnown ==
  ASSUME NEW text, Cheats(text) PROVE IsKnownConsoleCheat(Normalized(text))
<1>1. CASE ConsoleEffect(text) \cap {"god", "ungod", "noclip", "clip"} # {}
  <2>1. PICK e \in {"god", "ungod", "noclip", "clip"} : NormalizeCommand(text) \in ConsoleEffects[e]
    BY <1>1 DEF ConsoleEffect
  <2>2. NormalizeCommand(text) = Normalized(text)
    BY DEF NormalizeCommand, Normalized
  <2> QED
    BY <2>1, <2>2 DEF ConsoleEffects, IsKnownConsoleCheat
<1>2. CASE FakeConsole(FakeStart, [command |-> text]) # Done(FakeStart)
  <2>1. \/ text = <<<<"iddqd", FALSE>>>>
        \/ text = <<<<"give", FALSE>>, Blank, <<"all", FALSE>>>>
        \/ text = <<<<"killall", FALSE>>>>
    BY <1>2 DEF FakeConsole
  <2>2. CASE text = <<<<"iddqd", FALSE>>>>
    <3> DEFINE w == <<"iddqd", FALSE>>
    <3>1. w # Blank /\ w[1] = "iddqd"
      BY DEF Blank
    <3>2. text = <<w>>
      BY <2>2
    <3> HIDE DEF w
    <3>3. Normalized(text) = <<"iddqd">>
      BY <3>1, <3>2, OneWord
    <3> QED
      BY <3>3 DEF IsKnownConsoleCheat
  <2>3. CASE text = <<<<"give", FALSE>>, Blank, <<"all", FALSE>>>>
    <3> DEFINE v == <<"give", FALSE>>  w == <<"all", FALSE>>
    <3>1. v # Blank /\ v[1] = "give" /\ w # Blank /\ w[1] = "all"
      BY DEF Blank
    <3>2. text = <<v, Blank, w>>
      BY <2>3
    <3> HIDE DEF v, w
    <3>3. Normalized(text) = <<"give", "all">>
      BY <3>1, <3>2, TwoWords
    <3> QED
      BY <3>3 DEF IsKnownConsoleCheat
  <2>4. CASE text = <<<<"killall", FALSE>>>>
    <3> DEFINE w == <<"killall", FALSE>>
    <3>1. w # Blank /\ w[1] = "killall"
      BY DEF Blank
    <3>2. text = <<w>>
      BY <2>4
    <3> HIDE DEF w
    <3>3. Normalized(text) = <<"killall">>
      BY <3>1, <3>2, OneWord
    <3> QED
      BY <3>3 DEF IsKnownConsoleCheat
  <2> QED
    BY <2>1, <2>2, <2>3, <2>4
<1> QED
  BY <1>1, <1>2 DEF Cheats
-----------------------------------------------------------------------------
(* Commands.                                                               *)

(* A parser makes commands of its own type, and of nothing that lacks a field the
   schema of the tool asks for. *)
LEMMA ParsedAsCalled ==
  ASSUME NEW type \in CommandTypes, NEW args, NEW c \in ParseCommand(type, args)
  PROVE  c.type = type /\ MeetsSchema(type, args)
<1>1. CASE type = "spawn_entity"
  <2>1. c \in ParseSpawn(args)
    BY <1>1 DEF ParseCommand
  <2>2. c.type = "spawn_entity" /\ {"entity_class"} \subseteq DOMAIN args
    BY <2>1 DEF ParseSpawn, Required
  <2> QED
    BY <1>1, <2>2 DEF MeetsSchema, SchemaOf, StateSchemas, CommandSchemas, NoArguments
<1>2. CASE type = "change_level"
  <2>1. c \in ParseChangeLevel(args)
    BY <1>2 DEF ParseCommand
  <2>2. c.type = "change_level" /\ {"map_name"} \subseteq DOMAIN args
    BY <2>1 DEF ParseChangeLevel, Required
  <2> QED
    BY <1>2, <2>2 DEF MeetsSchema, SchemaOf, StateSchemas, CommandSchemas, NoArguments
<1>3. CASE type = "give_item"
  <2>1. c \in ParseGiveItem(args)
    BY <1>3 DEF ParseCommand
  <2>2. c.type = "give_item" /\ {"item_class"} \subseteq DOMAIN args
    BY <2>1 DEF ParseGiveItem, Required
  <2> QED
    BY <1>3, <2>2 DEF MeetsSchema, SchemaOf, StateSchemas, CommandSchemas, NoArguments
<1>4. CASE type = "set_player_health"
  <2>1. c \in ParseSetHealth(args)
    BY <1>4 DEF ParseCommand
  <2>2. c.type = "set_player_health" /\ {"health"} \subseteq DOMAIN args
    BY <2>1 DEF ParseSetHealth, Required
  <2> QED
    BY <1>4, <2>2 DEF MeetsSchema, SchemaOf, StateSchemas, CommandSchemas, NoArguments
<1>5. CASE type = "set_player_position"
  <2>1. c \in ParseSetPosition(args)
    BY <1>5 DEF ParseCommand
  <2>2. Coordinates(args) /\ c.type = "set_player_position"
    BY <2>1 DEF ParseSetPosition
  <2>3. {"x", "y"} \subseteq DOMAIN args
    BY <2>2 DEF Coordinates, Required
  <2> QED
    BY <1>5, <2>2, <2>3 DEF MeetsSchema, SchemaOf, StateSchemas, CommandSchemas, NoArguments
<1>6. CASE type = "execute_console"
  <2>1. c \in ParseConsole(args)
    BY <1>6 DEF ParseCommand
  <2>2. c.type = "execute_console" /\ {"command"} \subseteq DOMAIN args
    BY <2>1 DEF ParseConsole, Required
  <2> QED
    BY <1>6, <2>2 DEF MeetsSchema, SchemaOf, StateSchemas, CommandSchemas, NoArguments
<1>7. CASE type = "pause_game"
  <2>1. c \in ParsePause(args)
    BY <1>7 DEF ParseCommand
  <2>2. c.type = "pause_game" /\ {"paused"} \subseteq DOMAIN args
    BY <2>1 DEF ParsePause, Required
  <2> QED
    BY <1>7, <2>2 DEF MeetsSchema, SchemaOf, StateSchemas, CommandSchemas, NoArguments
<1>8. CASE type = "damage_entity"
  <2>1. c \in ParseDamage(args)
    BY <1>8 DEF ParseCommand
  <2>2. c.type = "damage_entity" /\ {"target_tid", "damage"} \subseteq DOMAIN args
    BY <2>1 DEF ParseDamage, Required, RequiredInt
  <2> QED
    BY <1>8, <2>2 DEF MeetsSchema, SchemaOf, StateSchemas, CommandSchemas, NoArguments
<1>9. CASE type = "kill_entity"
  <2>1. c \in ParseKill(args)
    BY <1>9 DEF ParseCommand
  <2>2. c.type = "kill_entity" /\ {"target_tid"} \subseteq DOMAIN args
    BY <2>1 DEF ParseKill, KillTarget, RequiredInt
  <2> QED
    BY <1>9, <2>2 DEF MeetsSchema, SchemaOf, StateSchemas, CommandSchemas, NoArguments
<1> QED
  BY <1>1, <1>2, <1>3, <1>4, <1>5, <1>6, <1>7, <1>8, <1>9 DEF CommandTypes

(* So does the parser of inputs. *)
LEMMA InputsAreInputs ==
  ASSUME NEW args, NEW c \in ParsePlayerInput(args)
  PROVE  c.type = "player_input" /\ MeetsSchema("player_input", args)
<1>1. "action" \in DOMAIN args
  BY DEF ParsePlayerInput
<1>2. c.type = "player_input"
  BY DEF ParsePlayerInput
<1> QED
  BY <1>1, <1>2 DEF MeetsSchema, SchemaOf, StateSchemas, CommandSchemas, NoArguments

(* A section answers with a page or refuses, and it is refused when no selection of
   rows is what the arguments ask for. *)
LEMMA SectionAnswers ==
  ASSUME NEW snap, NEW section, NEW args
  PROVE  /\ Section(snap, section, args).status \in {"ok", "refused"}
         /\ section \notin {"player", "map", "game"} /\ Selections(snap, section, args) = {} =>
              Section(snap, section, args).status = "refused"
<1> DEFINE pages == UNION {{Page(sel.rows, w) : w \in Windows(args, sel.count)} :
                             sel \in Selections(snap, section, args)}
<1>1. CASE section \in {"player", "map", "game"}
  BY <1>1 DEF Section
<1>2. CASE section \notin {"player", "map", "game"}
  <2>1. Section(snap, section, args) =
          IF pages = {} THEN Refusal ELSE CHOOSE p \in pages : TRUE
    BY <1>2 DEF Section
  <2>2. \A p \in pages : p.status = "ok"
    BY DEF Page
  <2>3. Selections(snap, section, args) = {} => pages = {}
    OBVIOUS
  <2> HIDE DEF pages
  <2> QED
    BY <1>2, <2>1, <2>2, <2>3 DEF Refusal
<1> QED
  BY <1>1, <1>2

(* What a tool of a section shows was asked for as its schema says. *)
LEMMA SectionsMeetSchemas ==
  ASSUME NEW snap, NEW tool \in DOMAIN SectionTools, NEW args,
         GetSection(snap, tool, args).status = "ok"
  PROVE  MeetsSchema(tool, args)
<1>1. CASE tool \in {"get_player", "get_map", "get_game_info", "get_inventory"}
  BY <1>1 DEF MeetsSchema, SchemaOf, StateSchemas, PagedSchema, NoArguments
<1>2. CASE tool = "get_enemies"
  <2>1. Selections(snap, "enemies", args) # {}
    BY <1>2, SectionAnswers DEF GetSection, SectionTools
  <2>2. StatusFilters(args, "alive") # {}
    BY <2>1 DEF Selections
  <2> QED
    BY <1>2, <2>2 DEF StatusFilters, Filters, MeetsSchema, SchemaOf, StateSchemas
<1>3. CASE tool = "get_entities"
  <2>1. Selections(snap, "entities", args) # {}
    BY <1>3, SectionAnswers DEF GetSection, SectionTools
  <2>2. PICK k \in KindFilters(args, "all"), s \in StatusFilters(args, "all") : TRUE
    <3> DEFINE Selected(k, s) == [rows |-> WorldRows(snap, k, s),
                                  count |-> Len(snap.enemies) + Len(snap.entities)]
    <3>1. Selections(snap, "entities", args) =
            {Selected(k, s) : k \in KindFilters(args, "all"), s \in StatusFilters(args, "all")}
      BY DEF Selections
    <3> HIDE DEF Selected
    <3> QED
      BY <2>1, <3>1
  <2>3. "status" \in DOMAIN args => \E value \in Statuses : args["status"] = <<"string", value>>
    BY <2>2 DEF StatusFilters, Filters
  <2>4. "kind" \in DOMAIN args => \E value \in Kinds : args["kind"] = <<"string", value>>
    BY <2>2 DEF KindFilters, Filters
  <2>5. SchemaOf("get_entities") = [required |-> {}, enums |-> [status |-> Statuses, kind |-> Kinds]]
    BY DEF SchemaOf, StateSchemas
  <2> QED
    BY <1>3, <2>3, <2>4, <2>5 DEF MeetsSchema
<1>4. CASE tool = "get_items"
  <2>1. Selections(snap, "items", args) # {}
    BY <1>4, SectionAnswers DEF GetSection, SectionTools
  <2>2. KindFilters(args, "item") \ {"all", "enemy", "world"} # {}
    BY <2>1 DEF Selections
  <2> QED
    BY <1>4, <2>2, SMTT(30) DEF KindFilters, Filters, MeetsSchema, SchemaOf, StateSchemas
<1> QED
  BY <1>1, <1>2, <1>3, <1>4 DEF SectionTools

(* The other reads answer or refuse as well. *)
LEMMA ReadsAnswer ==
  ASSUME NEW snap, NEW args
  PROVE  /\ GetState(snap, args).status \in {"ok", "refused"}
         /\ GetStateBatch(snap, args).status \in {"ok", "refused", "error"}
         /\ \A tool : GetSection(snap, tool, args).status \in {"ok", "refused"}
         /\ \A known : GetCommandResult(known, args).status \in {"ok", "refused", "error"}
<1>1. GetState(snap, args).status \in {"ok", "refused"}
  BY SectionAnswers DEF GetState, Refusal
<1>2. GetStateBatch(snap, args).status \in {"ok", "refused", "error"}
  BY DEF GetStateBatch, Refusal
<1>3. \A tool : GetSection(snap, tool, args).status \in {"ok", "refused"}
  BY SectionAnswers DEF GetSection
<1>4. \A known : GetCommandResult(known, args).status \in {"ok", "refused", "error"}
  BY DEF GetCommandResult, CommandResults, Refusal
<1> QED
  BY <1>1, <1>2, <1>3, <1>4

(* What the dispatch says of a tool, and that it is listed when its handler runs. *)
LEMMA DispatchOutcome ==
  ASSUME NEW c, NEW tool
  PROVE  /\ Dispatch(c, tool) \in NotServed \cup {"handled"}
         /\ tool # "get_screenshot" => (tool \in Listed(c) <=> Dispatch(c, tool) = "handled")
         /\ "get_screenshot" \in Listed(c) <=>
              Dispatch(c, "get_screenshot") = "handled" /\ c.screenshot
<1> DEFINE Groups == {""} \cup {"player_input"} \cup GameTools \cup CommandTypes
<1>1. /\ "" \notin GameTools \cup CommandTypes
      /\ "player_input" \notin GameTools \cup CommandTypes
      /\ GameTools \cap CommandTypes = {}
      /\ "get_screenshot" \in GameTools
  BY DEF GameTools, ReadOnlyTools, StateTools, SectionTools, CatalogScopes, CommandTypes
<1>2. CASE tool = ""
  BY <1>1, <1>2 DEF Dispatch, Listed, NotServed
<1>3. CASE tool = "player_input"
  BY <1>1, <1>3 DEF Dispatch, Listed, NotServed
<1>4. CASE tool \in GameTools
  <2>1. Dispatch(c, tool) = IF c.game THEN "handled" ELSE "disabled"
    BY <1>1, <1>4 DEF Dispatch
  <2>2. tool \in Listed(c) <=> c.game /\ (tool = "get_screenshot" => c.screenshot)
    BY <1>1, <1>4 DEF Listed
  <2>3. "get_screenshot" \in Listed(c) <=> c.game /\ c.screenshot
    BY <1>1 DEF Listed
  <2>4. Dispatch(c, "get_screenshot") = IF c.game THEN "handled" ELSE "disabled"
    BY <1>1 DEF Dispatch
  <2> QED
    BY <2>1, <2>2, <2>3, <2>4 DEF NotServed
<1>5. CASE tool \in CommandTypes
  BY <1>1, <1>5 DEF Dispatch, Listed, NotServed
<1>6. CASE tool \notin {"", "player_input"} \cup GameTools \cup CommandTypes
  BY <1>1, <1>6 DEF Dispatch, Listed, NotServed
<1> QED
  BY <1>2, <1>3, <1>4, <1>5, <1>6

-----------------------------------------------------------------------------
(* The inductive invariant.                                                *)

(* An answer is a record, and its lists and the calls to come are sequences. *)
WellFormed ==
  /\ answer = [call |-> answer.call, status |-> answer.status, seen |-> answer.seen,
               result |-> answer.result, queued |-> answer.queued, refused |-> answer.refused]
  /\ IsSequence(answer.queued) /\ IsSequence(answer.refused) /\ IsSequence(pending)

(* The status a call may have after the dispatch. *)
StatusFits(call, status) ==
  LET outcome == Dispatch(config, call[1])
  IN  IF outcome # "handled" THEN status = outcome
      ELSE IF call[1] = "get_screenshot"
      THEN status = IF config.screenshot THEN "ok" ELSE "disabled"
      ELSE status \in AnswerKinds \ NotServed

Dispatched == answer.status # "none" => StatusFits(answer.call, answer.status)

(* Only batches take more than a step, and only batches, commands and inputs queue. *)
OnlyBatches ==
  /\ answer.status = "batch" => answer.call[1] = "execute_batch"
  /\ answer.call[1] \in ReadOnlyTools => answer.queued = << >>

(* A command that is queued was parsed from its call, and allowed. *)
Comes(item) ==
  \/ /\ item.call[1] \in CommandTypes
     /\ item.command \in Queued(config, item.seen, item.call[1], item.call[2])
  \/ /\ answer.call[1] = "player_input" /\ item.call[1] = "player_input"
     /\ item.command \in ParsePlayerInput(item.call[2])

Vetted == \A item \in Members(answer.queued) : Comes(item)

(* A call of a batch that is refused is one that nothing could be queued for. *)
Hopeless(item) == \A call \in item.call : BatchCall(config, item.seen, call[1], call[2]) = {}

Turned == \A item \in Members(answer.refused) : Hopeless(item)

(* What a section's tool shows was asked for as its schema says. *)
ShownByTheSchema(call, status) ==
  status = "ok" /\ call[1] \in DOMAIN SectionTools => MeetsSchema(call[1], call[2])

Shown == ShownByTheSchema(answer.call, answer.status)

Inv == TypeOK /\ WellFormed /\ Dispatched /\ OnlyBatches /\ Vetted /\ Turned /\ Shown

LEMMA InitInv == Init => Inv
<1> SUFFICES ASSUME Init PROVE Inv
  OBVIOUS
<1>1. /\ answer = [call |-> <<"", NoArguments>>, status |-> "none", seen |-> Empty,
                   result |-> Refusal, queued |-> << >>, refused |-> << >>]
      /\ pending = << >> /\ snapshot = Empty /\ config \in Configs /\ game \in Games
  BY DEF Init, Idle
<1>2. TypeOK
  BY <1>1 DEF TypeOK, AnswerKinds
<1>3. WellFormed
  BY <1>1, NoMembers DEF WellFormed
<1>4. Dispatched /\ OnlyBatches /\ Shown
  BY <1>1 DEF Dispatched, OnlyBatches, Shown, ShownByTheSchema
<1>5. Vetted /\ Turned
  BY <1>1, NoMembers DEF Vetted, Turned
<1> QED
  BY <1>2, <1>3, <1>4, <1>5 DEF Inv

(* An answer that queues nothing, and those that queue one command, keep the
   invariant when their status fits the dispatch. *)
LEMMA AnswerKeeps ==
  ASSUME Inv, UNCHANGED <<config, game, snapshot, pending>>, answer.status = "none",
         NEW call, NEW status \in AnswerKinds \ {"none", "batch"}, NEW result, NEW queued,
         answer' = [call |-> call, status |-> status, seen |-> snapshot, result |-> result,
                    queued |-> queued, refused |-> << >>],
         StatusFits(call, status), ShownByTheSchema(call, status),
         call[1] = "execute_batch" => status \notin {"queued", "error"},
         \/ queued = << >>
         \/ /\ call[1] \notin ReadOnlyTools
            /\ \E command :
                 /\ queued = <<Item(call, command)>>
                 /\ \/ /\ call[1] \in CommandTypes
                       /\ command \in Queued(config, snapshot, call[1], call[2])
                    \/ call[1] = "player_input" /\ command \in ParsePlayerInput(call[2])
  PROVE  Inv'
<1>1. pending = << >>
  BY DEF Inv, TypeOK
<1>2. TypeOK'
  BY <1>1 DEF Inv, TypeOK
<1>3. IsSequence(queued) /\ (\A item \in Members(queued) :
                               \E command : queued = <<item>> /\ item = Item(call, command))
  <2>1. CASE queued = << >>
    BY <2>1, NoMembers
  <2>2. ASSUME NEW command, queued = <<Item(call, command)>>
        PROVE  IsSequence(queued) /\ Members(queued) = {Item(call, command)}
    <3> DEFINE item == Item(call, command)
    <3> HIDE DEF item
    <3>1. queued \in Seq({item}) /\ Len(queued) = 1 /\ queued[1] = item
      BY <2>2 DEF item
    <3>2. Members(queued) = {item}
      BY <3>1, 1..1 = {1} DEF Members
    <3> QED
      BY <3>1, <3>2, OverItsMembers DEF item
  <2> QED
    BY <2>1, <2>2
<1>4. WellFormed'
  BY <1>1, <1>3, NoMembers DEF WellFormed
<1>5. Dispatched' /\ Shown'
  BY DEF Dispatched, StatusFits, Shown, ShownByTheSchema
<1>6. OnlyBatches'
  BY DEF OnlyBatches
<1>7. Vetted'
  <2> SUFFICES ASSUME NEW item \in Members(queued) PROVE Comes(item)'
    BY DEF Vetted
  <2>1. PICK command : queued = <<item>> /\ item = Item(call, command)
    BY <1>3
  <2>2. \A other : queued = <<Item(call, other)>> => other = command
    BY <2>1 DEF Item
  <2>3. item.call = call /\ item.seen = snapshot /\ item.command = command
    BY <2>1 DEF Item
  <2> QED
    BY <2>1, <2>2, <2>3 DEF Comes
<1>8. Turned'
  BY NoMembers DEF Turned
<1> QED
  BY <1>2, <1>4, <1>5, <1>6, <1>7, <1>8 DEF Inv

(* The calls of the actions below have passed the dispatch. *)
LEMMA CalledPassed ==
  ASSUME NEW tools, NEW call \in Called(tools)
  PROVE  /\ call \in Calls /\ answer.status = "none" /\ call[1] \in tools
         /\ Dispatch(config, call[1]) = "handled"
  BY DEF Called

(* Which tools are which. *)
LEMMA ToolGroups ==
  /\ "execute_batch" \notin ReadOnlyTools \cup CommandTypes \cup DOMAIN SectionTools
  /\ StateTools \subseteq ReadOnlyTools /\ DOMAIN SectionTools \subseteq StateTools
  /\ ReadOnlyTools \cap CommandTypes = {} /\ "get_screenshot" \notin StateTools
  /\ {"get_screenshot", "get_command_result", "get_command_examples"} \cap DOMAIN SectionTools = {}
  /\ "player_input" \notin ReadOnlyTools \cup CommandTypes
  /\ DOMAIN CatalogScopes \cap (DOMAIN SectionTools \cup {"get_screenshot", "execute_batch"}) = {}
  /\ "get_screenshot" \notin CommandTypes
  /\ NotServed \subseteq AnswerKinds \ {"none", "batch", "ok"}
  BY DEF ReadOnlyTools, StateTools, SectionTools, CatalogScopes, CommandTypes, NotServed, AnswerKinds

(* What an answer without a command is. *)
LEMMA AnsweredRecord ==
  ASSUME NEW call, NEW status, NEW result, Answered(call, status, result)
  PROVE  /\ answer' = [call |-> call, status |-> status, seen |-> snapshot, result |-> result,
                       queued |-> << >>, refused |-> << >>]
         /\ UNCHANGED <<config, game, snapshot, pending>>
  BY DEF Answered, Idle

LEMMA PublishInv == Inv /\ Publish => Inv'
<1> SUFFICES ASSUME Inv, Publish PROVE Inv'
  OBVIOUS
<1>1. /\ UNCHANGED <<config, game, pending, answer>>
      /\ snapshot' \in {Captured(game, scene) : scene \in Scenes}
  BY DEF Publish
<1>2. TypeOK'
  BY <1>1 DEF Inv, TypeOK
<1>3. WellFormed' /\ Dispatched' /\ OnlyBatches' /\ Shown'
  BY <1>1 DEF Inv, WellFormed, Dispatched, StatusFits, OnlyBatches, Shown
<1>4. Vetted' /\ Turned'
  BY <1>1 DEF Inv, Vetted, Comes, Turned, Hopeless
<1> QED
  BY <1>2, <1>3, <1>4 DEF Inv

LEMMA UnservedInv == Inv /\ Unserved => Inv'
<1> SUFFICES ASSUME Inv, Unserved PROVE Inv'
  OBVIOUS
<1>1. PICK call \in Calls : /\ Dispatch(config, call[1]) # "handled"
                            /\ Answered(call, Dispatch(config, call[1]), Refusal)
  BY DEF Unserved
<1> DEFINE status == Dispatch(config, call[1])
<1>2. status \in NotServed
  BY <1>1, DispatchOutcome
<1>3. StatusFits(call, status) /\ ShownByTheSchema(call, status)
  BY <1>1, <1>2, ToolGroups DEF StatusFits, ShownByTheSchema
<1>4. status \in AnswerKinds \ {"none", "batch"} /\ status \notin {"queued", "error"}
  BY <1>2 DEF NotServed, AnswerKinds
<1>5. answer.status = "none"
  BY DEF Unserved
<1>6. Answered(call, status, Refusal)
  BY <1>1
<1> HIDE DEF status
<1> QED
  BY <1>3, <1>4, <1>5, <1>6, AnsweredRecord, AnswerKeeps

LEMMA GetScreenshotInv == Inv /\ GetScreenshot => Inv'
<1> SUFFICES ASSUME Inv, GetScreenshot PROVE Inv'
  OBVIOUS
<1> DEFINE status == IF config.screenshot THEN "ok" ELSE "disabled"
<1>1. PICK call \in Called({"get_screenshot"}) : Answered(call, status, Refusal)
  BY DEF GetScreenshot
<1>2. StatusFits(call, status) /\ ShownByTheSchema(call, status)
  BY CalledPassed, ToolGroups DEF StatusFits, ShownByTheSchema
<1>3. status \in AnswerKinds \ {"none", "batch"} /\ status \notin {"queued", "error"}
  BY DEF AnswerKinds
<1> HIDE DEF status
<1> QED
  BY <1>1, <1>2, <1>3, CalledPassed, AnsweredRecord, AnswerKeeps

LEMMA ReadStateInv == Inv /\ ReadState => Inv'
<1> SUFFICES ASSUME Inv, ReadState PROVE Inv'
  OBVIOUS
<1> DEFINE Result(call) == Reading(snapshot, call)
<1>1. PICK call \in Called(StateTools) : Answered(call, Result(call).status, Result(call))
  BY DEF ReadState
<1>2. Result(call).status \in {"ok", "refused", "error"}
  <2>1. GetState(snapshot, call[2]).status \in {"ok", "refused"}
    BY ReadsAnswer
  <2>2. GetStateBatch(snapshot, call[2]).status \in {"ok", "refused", "error"}
    BY ReadsAnswer
  <2>3. \A tool : GetSection(snapshot, tool, call[2]).status \in {"ok", "refused"}
    BY ReadsAnswer, Zenon
  <2> QED
    BY <2>1, <2>2, <2>3 DEF Reading
<1>3. call[1] \in DOMAIN SectionTools => Result(call) = GetSection(snapshot, call[1], call[2])
  BY DEF SectionTools, Reading
<1> DEFINE result == Result(call)
<1> HIDE DEF Result
<1>4. ShownByTheSchema(call, result.status)
  BY <1>3, SectionsMeetSchemas DEF ShownByTheSchema
<1>5. StatusFits(call, result.status)
  BY <1>2, CalledPassed, ToolGroups DEF StatusFits, AnswerKinds, NotServed
<1>6. result.status \in AnswerKinds \ {"none", "batch"}
  BY <1>2 DEF AnswerKinds
<1>7. call[1] # "execute_batch"
  BY CalledPassed, ToolGroups
<1>8. Answered(call, result.status, result)
  BY <1>1
<1> HIDE DEF result
<1> QED
  BY <1>4, <1>5, <1>6, <1>7, <1>8, CalledPassed, AnsweredRecord, AnswerKeeps

LEMMA ReadCatalogueInv == Inv /\ ReadCatalogue => Inv'
<1> SUFFICES ASSUME Inv, ReadCatalogue PROVE Inv'
  OBVIOUS
<1>1. PICK call \in Called(DOMAIN CatalogScopes) :
        Answered(call, "ok", Catalogue(snapshot, call[1], call[2]))
  BY DEF ReadCatalogue
<1>2. StatusFits(call, "ok") /\ ShownByTheSchema(call, "ok")
  BY CalledPassed, ToolGroups DEF StatusFits, ShownByTheSchema, AnswerKinds, NotServed
<1>3. "ok" \in AnswerKinds \ {"none", "batch"}
  BY DEF AnswerKinds
<1> QED
  BY <1>1, <1>2, <1>3, CalledPassed, AnsweredRecord, AnswerKeeps

LEMMA ReadResultsInv == Inv /\ ReadResults => Inv'
<1> SUFFICES ASSUME Inv, ReadResults PROVE Inv'
  OBVIOUS
<1>1. PICK call \in Called({"get_command_result"}), known \in SUBSET KnownResults :
        Answered(call, GetCommandResult(known, call[2]).status, GetCommandResult(known, call[2]))
  BY DEF ReadResults
<1> DEFINE result == GetCommandResult(known, call[2])
<1>2. result.status \in {"ok", "refused", "error"}
  BY ReadsAnswer
<1>3. Answered(call, result.status, result)
  BY <1>1
<1> HIDE DEF result
<1>4. StatusFits(call, result.status) /\ ShownByTheSchema(call, result.status)
  BY <1>2, CalledPassed, ToolGroups DEF StatusFits, ShownByTheSchema, AnswerKinds, NotServed
<1>5. result.status \in AnswerKinds \ {"none", "batch"}
  BY <1>2 DEF AnswerKinds
<1> QED
  BY <1>3, <1>4, <1>5, CalledPassed, AnsweredRecord, AnswerKeeps

LEMMA ReadExamplesInv == Inv /\ ReadExamples => Inv'
<1> SUFFICES ASSUME Inv, ReadExamples PROVE Inv'
  OBVIOUS
<1>1. PICK call \in Called({"get_command_examples"}) : Answered(call, "ok", Refusal)
  BY DEF ReadExamples
<1>2. StatusFits(call, "ok") /\ ShownByTheSchema(call, "ok")
  BY CalledPassed, ToolGroups DEF StatusFits, ShownByTheSchema, AnswerKinds, NotServed
<1>3. "ok" \in AnswerKinds \ {"none", "batch"}
  BY DEF AnswerKinds
<1> QED
  BY <1>1, <1>2, <1>3, CalledPassed, AnsweredRecord, AnswerKeeps

(* The call of a command, or of an input, that is queued alone. *)
LEMMA QueuesInv ==
  ASSUME Inv, NEW call, answer.status = "none", NEW commands, Queues(call, commands),
         Dispatch(config, call[1]) = "handled",
         \/ /\ call[1] \in CommandTypes
            /\ commands = SingleCall(config, snapshot, call[1], call[2])
         \/ call[1] = "player_input" /\ commands = ParsePlayerInput(call[2])
  PROVE  Inv'
<1>1. UNCHANGED <<config, game, snapshot, pending>>
  BY DEF Queues
<1>2. /\ call[1] \notin ReadOnlyTools /\ call[1] \notin DOMAIN SectionTools
      /\ call[1] # "execute_batch" /\ call[1] # "get_screenshot"
  BY ToolGroups
<1>3. \A status \in {"queued", "refused"} :
        /\ StatusFits(call, status) /\ ShownByTheSchema(call, status)
        /\ status \in AnswerKinds \ {"none", "batch"}
  BY <1>2 DEF StatusFits, ShownByTheSchema, AnswerKinds, NotServed
<1>4. CASE commands = {} /\ answer' = [Idle EXCEPT !.call = call, !.status = "refused",
                                                   !.seen = snapshot]
  <2>1. answer' = [call |-> call, status |-> "refused", seen |-> snapshot, result |-> Refusal,
                   queued |-> << >>, refused |-> << >>]
    BY <1>4 DEF Idle
  <2> QED
    BY <1>1, <1>2, <1>3, <2>1, AnswerKeeps
<1>5. ASSUME NEW c \in commands,
             answer' = [Idle EXCEPT !.call = call, !.status = "queued", !.seen = snapshot,
                                    !.queued = <<Item(call, c)>>]
      PROVE  Inv'
  <2>1. answer' = [call |-> call, status |-> "queued", seen |-> snapshot, result |-> Refusal,
                   queued |-> <<Item(call, c)>>, refused |-> << >>]
    BY <1>5 DEF Idle
  <2>2. \/ call[1] \in CommandTypes /\ c \in Queued(config, snapshot, call[1], call[2])
        \/ call[1] = "player_input" /\ c \in ParsePlayerInput(call[2])
    BY DEF SingleCall
  <2> DEFINE queued == <<Item(call, c)>>
  <2>3. /\ queued = <<Item(call, c)>>
        /\ answer' = [call |-> call, status |-> "queued", seen |-> snapshot, result |-> Refusal,
                      queued |-> queued, refused |-> << >>]
    BY <2>1
  <2> HIDE DEF queued
  <2> QED
    BY <1>1, <1>2, <1>3, <2>2, <2>3, AnswerKeeps
<1> QED
  BY <1>4, <1>5 DEF Queues

LEMMA CallCommandInv == Inv /\ CallCommand => Inv'
<1> SUFFICES ASSUME Inv, CallCommand PROVE Inv'
  OBVIOUS
<1>1. PICK call \in Called(CommandTypes) :
        Queues(call, SingleCall(config, snapshot, call[1], call[2]))
  BY DEF CallCommand
<1> QED
  BY <1>1, CalledPassed, QueuesInv

LEMMA CallInputInv == Inv /\ CallInput => Inv'
<1> SUFFICES ASSUME Inv, CallInput PROVE Inv'
  OBVIOUS
<1>1. PICK call \in Called({"player_input"}) : Queues(call, ParsePlayerInput(call[2]))
  BY DEF CallInput
<1> QED
  BY <1>1, CalledPassed, QueuesInv

LEMMA StartBatchInv == Inv /\ StartBatch => Inv'
<1> SUFFICES ASSUME Inv, StartBatch PROVE Inv'
  OBVIOUS
<1>1. PICK call \in Called({"execute_batch"}) :
        IF Required(call[2], "calls", LAMBDA v : v[1] = "array")
        THEN /\ pending' = call[2]["calls"][2]
             /\ answer' = [Idle EXCEPT !.call = call, !.status = "batch"]
             /\ UNCHANGED <<config, game, snapshot>>
        ELSE Answered(call, "refused", Refusal)
  BY DEF StartBatch
<1>2. call[1] = "execute_batch" /\ Dispatch(config, call[1]) = "handled" /\ answer.status = "none"
      /\ call \in Calls
  BY CalledPassed
<1>3. \A status \in {"batch", "refused"} :
        StatusFits(call, status) /\ ShownByTheSchema(call, status)
  BY <1>2, ToolGroups DEF StatusFits, ShownByTheSchema, AnswerKinds, NotServed
<1>4. CASE Required(call[2], "calls", LAMBDA v : v[1] = "array")
  <2>1. /\ answer' = [call |-> call, status |-> "batch", seen |-> Empty, result |-> Refusal,
                      queued |-> << >>, refused |-> << >>]
        /\ pending' = call[2]["calls"][2] /\ UNCHANGED <<config, game, snapshot>>
    BY <1>1, <1>4 DEF Idle
  <2>2. IsSequence(pending') /\ Len(pending') \in Nat
    <3>1. pending' \in Seq(Elements(call[2], "calls"))
      BY <1>2, <1>4, <2>1, CallsAssumption
    <3> QED
      BY <3>1, OverItsMembers
  <2>3. TypeOK'
    BY <2>1, <2>2 DEF Inv, TypeOK, AnswerKinds
  <2>4. WellFormed'
    BY <2>1, <2>2, NoMembers DEF WellFormed
  <2>5. Dispatched' /\ Shown'
    BY <1>3, <2>1 DEF Dispatched, StatusFits, Shown, ShownByTheSchema
  <2>6. OnlyBatches'
    BY <1>2, <2>1 DEF OnlyBatches
  <2>7. Vetted' /\ Turned'
    BY <2>1, NoMembers DEF Vetted, Turned
  <2> QED
    BY <2>3, <2>4, <2>5, <2>6, <2>7 DEF Inv
<1>5. CASE ~Required(call[2], "calls", LAMBDA v : v[1] = "array")
  <2>1. Answered(call, "refused", Refusal)
    BY <1>1, <1>5
  <2>2. "refused" \in AnswerKinds \ {"none", "batch"}
    BY DEF AnswerKinds
  <2> QED
    BY <1>2, <1>3, <2>1, <2>2, AnsweredRecord, AnswerKeeps
<1> QED
  BY <1>4, <1>5

LEMMA QueueNextInv == Inv /\ QueueNext => Inv'
<1> SUFFICES ASSUME Inv, QueueNext PROVE Inv'
  OBVIOUS
<1> DEFINE calls == ParseBatchCall(Head(pending))
           commands == UNION {BatchCall(config, snapshot, call[1], call[2]) : call \in calls}
<1>1. /\ pending # << >> /\ pending' = Tail(pending)
      /\ UNCHANGED <<config, game, snapshot>>
      /\ \/ \E call \in calls, c \in commands :
              answer' = [answer EXCEPT !.queued = Append(@, Item(call, c))]
         \/ /\ commands = {}
            /\ answer' = [answer EXCEPT !.refused = Append(@, [call |-> calls, seen |-> snapshot])]
  BY DEF QueueNext
<1>2. answer.status = "batch" /\ answer.call[1] = "execute_batch"
  BY <1>1 DEF Inv, TypeOK, OnlyBatches
<1>3. /\ IsSequence(pending') /\ Len(pending) \in Nat /\ Len(pending') = Len(pending) - 1
      /\ IsSequence(answer.queued) /\ IsSequence(answer.refused)
      /\ Len(answer.queued) \in Nat /\ Len(answer.refused) \in Nat
  <2>1. IsSequence(pending) /\ IsSequence(answer.queued) /\ IsSequence(answer.refused)
    BY DEF Inv, WellFormed
  <2> QED
    BY <1>1, <2>1, OneLess, OneMore
<1>4. \A call \in calls : calls = {call}
  BY DEF ParseBatchCall
<1>5. ASSUME NEW call \in calls, NEW c \in commands,
             answer' = [answer EXCEPT !.queued = Append(@, Item(call, c))]
      PROVE  Inv'
  <2> DEFINE item == Item(call, c)
  <2>1. c \in BatchCall(config, snapshot, call[1], call[2])
    BY <1>4
  <2>2. Comes(item)
    BY <2>1 DEF BatchCall, Comes, Item
  <2>3. answer' = [call |-> answer.call, status |-> answer.status, seen |-> answer.seen,
                   result |-> answer.result, queued |-> Append(answer.queued, item),
                   refused |-> answer.refused]
    BY <1>5 DEF Inv, WellFormed
  <2> HIDE DEF item, calls, commands
  <2>4. /\ IsSequence(Append(answer.queued, item))
        /\ Len(Append(answer.queued, item)) = Len(answer.queued) + 1
        /\ Members(Append(answer.queued, item)) = Members(answer.queued) \cup {item}
    BY <1>3, OneMore
  <2>5. TypeOK'
    <3> DEFINE all == Len(answer.call[2]["calls"][2])
    <3>1. Len(answer.queued) + Len(answer.refused) + Len(pending) = all
      BY <1>2 DEF Inv, TypeOK
    <3>2. Len(answer.queued') + Len(answer.refused') + Len(pending') = all
      <4>1. /\ Len(answer.queued') = Len(answer.queued) + 1
            /\ Len(answer.refused') = Len(answer.refused)
        BY <2>3, <2>4
      <4> DEFINE q == Len(answer.queued)  r == Len(answer.refused)  p == Len(pending)
                 q1 == Len(answer.queued')  r1 == Len(answer.refused')  p1 == Len(pending')
      <4>2. /\ q \in Nat /\ r \in Nat /\ p \in Nat /\ q + r + p = all /\ p1 = p - 1
            /\ q1 = q + 1 /\ r1 = r
        BY <1>3, <3>1, <4>1
      <4> HIDE DEF all, q, r, p, q1, r1, p1
      <4>3. q1 + r1 + p1 = all
        BY <4>2
      <4> QED
        BY <4>3 DEF q1, r1, p1
    <3>3. /\ answer'.call = answer.call /\ answer'.status = answer.status
          /\ answer'.queued = answer.queued' /\ answer'.refused = answer.refused'
      BY <2>3
    <3> QED
      BY <1>1, <1>2, <3>2, <3>3 DEF Inv, TypeOK
  <2>6. WellFormed'
    BY <1>3, <2>3, <2>4 DEF WellFormed
  <2>7. Dispatched' /\ Shown'
    BY <1>1, <2>3 DEF Inv, Dispatched, StatusFits, Shown
  <2>8. OnlyBatches'
    BY <1>2, <2>3, ToolGroups DEF OnlyBatches
  <2>9. Vetted'
    BY <1>1, <2>2, <2>3, <2>4 DEF Inv, Vetted, Comes
  <2>10. Turned'
    BY <1>1, <2>3 DEF Inv, Turned, Hopeless
  <2> QED
    BY <2>5, <2>6, <2>7, <2>8, <2>9, <2>10 DEF Inv
<1>6. ASSUME commands = {},
             answer' = [answer EXCEPT !.refused = Append(@, [call |-> calls, seen |-> snapshot])]
      PROVE  Inv'
  <2> DEFINE item == [call |-> calls, seen |-> snapshot]
  <2>1. \A call \in calls : BatchCall(config, snapshot, call[1], call[2]) = {}
    BY <1>6
  <2>2. Hopeless(item)
    BY <2>1 DEF Hopeless
  <2>3. answer' = [call |-> answer.call, status |-> answer.status, seen |-> answer.seen,
                   result |-> answer.result, queued |-> answer.queued,
                   refused |-> Append(answer.refused, item)]
    BY <1>6 DEF Inv, WellFormed
  <2> HIDE DEF item, calls, commands
  <2>4. /\ IsSequence(Append(answer.refused, item))
        /\ Len(Append(answer.refused, item)) = Len(answer.refused) + 1
        /\ Members(Append(answer.refused, item)) = Members(answer.refused) \cup {item}
    BY <1>3, OneMore
  <2>5. TypeOK'
    <3> DEFINE all == Len(answer.call[2]["calls"][2])
    <3>1. Len(answer.queued) + Len(answer.refused) + Len(pending) = all
      BY <1>2 DEF Inv, TypeOK
    <3>2. Len(answer.queued') + Len(answer.refused') + Len(pending') = all
      <4>1. /\ Len(answer.refused') = Len(answer.refused) + 1
            /\ Len(answer.queued') = Len(answer.queued)
        BY <2>3, <2>4
      <4> DEFINE q == Len(answer.queued)  r == Len(answer.refused)  p == Len(pending)
                 q1 == Len(answer.queued')  r1 == Len(answer.refused')  p1 == Len(pending')
      <4>2. /\ q \in Nat /\ r \in Nat /\ p \in Nat /\ q + r + p = all /\ p1 = p - 1
            /\ r1 = r + 1 /\ q1 = q
        BY <1>3, <3>1, <4>1
      <4> HIDE DEF all, q, r, p, q1, r1, p1
      <4>3. q1 + r1 + p1 = all
        BY <4>2
      <4> QED
        BY <4>3 DEF q1, r1, p1
    <3>3. /\ answer'.call = answer.call /\ answer'.status = answer.status
          /\ answer'.queued = answer.queued' /\ answer'.refused = answer.refused'
      BY <2>3
    <3> QED
      BY <1>1, <1>2, <3>2, <3>3 DEF Inv, TypeOK
  <2>6. WellFormed'
    BY <1>3, <2>3, <2>4 DEF WellFormed
  <2>7. Dispatched' /\ Shown'
    BY <1>1, <2>3 DEF Inv, Dispatched, StatusFits, Shown
  <2>8. OnlyBatches'
    BY <1>2, <2>3, ToolGroups DEF OnlyBatches
  <2>9. Vetted'
    BY <1>1, <2>3 DEF Inv, Vetted, Comes
  <2>10. Turned'
    BY <1>1, <2>2, <2>3, <2>4 DEF Inv, Turned, Hopeless
  <2> QED
    BY <2>5, <2>6, <2>7, <2>8, <2>9, <2>10 DEF Inv
<1> QED
  BY <1>1, <1>5, <1>6

LEMMA EndBatchInv == Inv /\ EndBatch => Inv'
<1> SUFFICES ASSUME Inv, EndBatch PROVE Inv'
  OBVIOUS
<1> DEFINE status == IF answer.queued = << >> THEN "error" ELSE "queued"
<1>1. /\ answer.status = "batch" /\ pending = << >> /\ UNCHANGED <<config, game, snapshot, pending>>
      /\ answer' = [call |-> answer.call, status |-> status, seen |-> answer.seen,
                    result |-> answer.result, queued |-> answer.queued,
                    refused |-> answer.refused]
  BY DEF EndBatch, Inv, WellFormed
<1>2. status \in {"error", "queued"}
  OBVIOUS
<1> HIDE DEF status
<1>3. answer.call[1] = "execute_batch"
  BY <1>1 DEF Inv, OnlyBatches
<1>4. TypeOK'
  BY <1>1, <1>2, <1>3 DEF Inv, TypeOK, AnswerKinds
<1>5. WellFormed' /\ OnlyBatches'
  BY <1>1, <1>2 DEF Inv, WellFormed, OnlyBatches
<1>6. Dispatched' /\ Shown'
  <2>1. StatusFits(answer.call, "batch")
    BY <1>1 DEF Inv, Dispatched
  <2>2. Dispatch(config, "execute_batch") = "handled"
    BY <1>3, <2>1, DispatchOutcome DEF StatusFits, NotServed
  <2>3. status \in AnswerKinds \ NotServed
    BY <1>2 DEF AnswerKinds, NotServed
  <2> QED
    BY <1>1, <1>2, <1>3, <2>2, <2>3 DEF Dispatched, StatusFits, Shown, ShownByTheSchema
<1>7. Vetted' /\ Turned'
  BY <1>1 DEF Inv, Vetted, Comes, Turned, Hopeless
<1> QED
  BY <1>4, <1>5, <1>6, <1>7 DEF Inv

LEMMA TakeInv == Inv /\ Take => Inv'
<1> SUFFICES ASSUME Inv, Take PROVE Inv'
  OBVIOUS
<1>1. /\ answer' = [call |-> <<"", NoArguments>>, status |-> "none", seen |-> Empty,
                    result |-> Refusal, queued |-> << >>, refused |-> << >>]
      /\ UNCHANGED <<config, game, snapshot, pending>> /\ answer.status \notin {"none", "batch"}
  BY DEF Take, Idle
<1>2. pending = << >>
  BY <1>1 DEF Inv, TypeOK
<1>3. TypeOK'
  BY <1>1, <1>2 DEF Inv, TypeOK, AnswerKinds
<1>4. WellFormed'
  BY <1>1, <1>2, NoMembers DEF WellFormed
<1>5. Dispatched' /\ OnlyBatches' /\ Shown'
  BY <1>1 DEF Dispatched, OnlyBatches, Shown, ShownByTheSchema
<1>6. Vetted' /\ Turned'
  BY <1>1, NoMembers DEF Vetted, Turned
<1> QED
  BY <1>3, <1>4, <1>5, <1>6 DEF Inv

LEMMA NextInv == Inv /\ [Next]_vars => Inv'
<1>1. Inv /\ UNCHANGED vars => Inv'
  BY DEF vars, Inv, TypeOK, WellFormed, Dispatched, StatusFits, OnlyBatches, Vetted, Comes, Turned,
         Hopeless, Shown
<1> QED
  BY <1>1, PublishInv, UnservedInv, GetScreenshotInv, ReadStateInv, ReadCatalogueInv,
     ReadResultsInv, ReadExamplesInv, CallCommandInv, CallInputInv, StartBatchInv, QueueNextInv,
     EndBatchInv, TakeInv DEF Next

LEMMA Invariance == Spec => []Inv
  BY InitInv, NextInv, PTL DEF Spec

-----------------------------------------------------------------------------
(* Theorems.                                                               *)

(* Type correctness of the tools: the snapshot is the engine's, and every call of a
   batch is queued, refused or still to come. *)
THEOREM Typing == Spec => []TypeOK
  BY Invariance, PTL DEF Inv

(* A command that was queued as a command, alone or in a batch, would be queued by a
   call of its own: whoever parsed it has asked for the permission of the command,
   and that is the permission of the tool. *)
LEMMA AllowedAlone ==
  ASSUME NEW c, NEW snap, NEW type \in CommandTypes, NEW args, NEW command \in Queued(c, snap, type, args)
  PROVE  command \in SingleCall(c, snap, type, args)
<1>1. command.type = type /\ CommandAllowed(c, command)
  BY ParsedAsCalled DEF Queued
<1>2. ToolAllowed(c, type)
  BY <1>1 DEF ToolAllowed, CommandAllowed, CommandRequiresCheats
<1> QED
  BY <1>2 DEF SingleCall

(* For any calls and snapshots, a batch queues what its calls would queue one by one,
   and refuses what they would be refused, but for change_level. *)
THEOREM BatchesAgree == Spec => []BatchAgreesWithSingle
<1>1. Inv => BatchAgreesWithSingle
  <2> SUFFICES ASSUME Inv, answer.call[1] = "execute_batch"
               PROVE  /\ \A item \in QueuedCommands :
                           item.command \in SingleCall(config, item.seen, item.call[1], item.call[2])
                      /\ \A item \in RefusedItems : \A call \in item.call :
                           call[1] \in CommandTypes \ {"change_level"} =>
                             SingleCall(config, item.seen, call[1], call[2]) = {}
    BY DEF BatchAgreesWithSingle
  <2>1. ASSUME NEW item \in QueuedCommands
        PROVE  item.command \in SingleCall(config, item.seen, item.call[1], item.call[2])
    <3>1. Comes(item) /\ answer.call[1] # "player_input"
      BY DEF Inv, Vetted, Members, QueuedCommands
    <3> QED
      BY <3>1, AllowedAlone DEF Comes
  <2>2. ASSUME NEW item \in RefusedItems, NEW call \in item.call,
               call[1] \in CommandTypes \ {"change_level"}
        PROVE  SingleCall(config, item.seen, call[1], call[2]) = {}
    <3>1. Hopeless(item)
      BY DEF Inv, Turned, Members, RefusedItems
    <3> QED
      BY <2>2, <3>1 DEF Hopeless, BatchCall, SingleCall
  <2> QED
    BY <2>1, <2>2
<1> QED
  BY <1>1, Invariance, PTL

(* Without the permission to cheat, nothing that cheats is ever queued, alone or in a
   batch, whatever is typed at the console. *)
THEOREM NothingCheatsUnallowed == Spec => []CheatsNeedPermission
<1>1. Inv => CheatsNeedPermission
  <2> SUFFICES ASSUME Inv, NEW item \in QueuedCommands
               PROVE  /\ item.command.type \in CheatTools => config.cheats
                      /\ item.command.type = "execute_console" =>
                           config.console /\ (Cheats(item.command.command) => config.cheats)
    BY DEF CheatsNeedPermission
  <2>1. Comes(item)
    BY DEF Inv, Vetted, Members, QueuedCommands
  <2>2. CASE item.command \in Queued(config, item.seen, item.call[1], item.call[2])
    <3>1. CommandAllowed(config, item.command)
      BY <2>2 DEF Queued
    <3> QED
      BY <3>1, CheatsAreKnown DEF CommandAllowed, CommandRequiresCheats
  <2>3. CASE item.command \in ParsePlayerInput(item.call[2])
    BY <2>3, InputsAreInputs DEF CheatTools
  <2> QED
    BY <2>1, <2>2, <2>3 DEF Comes
<1> QED
  BY <1>1, Invariance, PTL

(* For any calls, tools/list and tools/call agree, a tool that says it only reads queues
   nothing, and what breaks its schema does and shows nothing. *)
THEOREM ServedAsAdvertised == Spec => []AdvertisedIsServed
<1>1. Inv => AdvertisedIsServed
  <2> SUFFICES ASSUME Inv, answer.status \notin {"none", "batch"}
               PROVE  /\ answer.call[1] \in Listed(config) <=> answer.status \notin NotServed
                      /\ answer.call[1] \in ReadOnlyTools => answer.queued = << >>
                      /\ \A item \in QueuedCommands : MeetsSchema(item.call[1], item.call[2])
                      /\ answer.status = "ok" /\ answer.call[1] \in DOMAIN SectionTools =>
                           MeetsSchema(answer.call[1], answer.call[2])
    BY DEF AdvertisedIsServed
  <2>1. answer.call[1] \in Listed(config) <=> answer.status \notin NotServed
    <3>1. StatusFits(answer.call, answer.status)
      BY DEF Inv, Dispatched
    <3> DEFINE tool == answer.call[1]
    <3>2. /\ Dispatch(config, tool) \in NotServed \cup {"handled"}
          /\ tool # "get_screenshot" => (tool \in Listed(config) <=> Dispatch(config, tool) = "handled")
          /\ tool = "get_screenshot" => (tool \in Listed(config) <=>
                                           Dispatch(config, tool) = "handled" /\ config.screenshot)
      BY DispatchOutcome
    <3> QED
      BY <3>1, <3>2 DEF StatusFits, NotServed
  <2>2. answer.call[1] \in ReadOnlyTools => answer.queued = << >>
    BY DEF Inv, OnlyBatches
  <2>3. ASSUME NEW item \in QueuedCommands PROVE MeetsSchema(item.call[1], item.call[2])
    <3>1. Comes(item)
      BY DEF Inv, Vetted, Members, QueuedCommands
    <3> QED
      BY <3>1, ParsedAsCalled, InputsAreInputs DEF Comes, Queued
  <2>4. answer.status = "ok" /\ answer.call[1] \in DOMAIN SectionTools =>
          MeetsSchema(answer.call[1], answer.call[2])
    BY DEF Inv, Shown, ShownByTheSchema
  <2> QED
    BY <2>1, <2>2, <2>3, <2>4
<1> QED
  BY <1>1, Invariance, PTL
-----------------------------------------------------------------------------
(* What is remembered of a call until its answer is taken.                 *)

Snapshots == {Captured(game, scene) : scene \in Scenes}

(* What was shown is what the snapshot, the results or the tables said. *)
TrueTo(call, status, seen, result) ==
  status = "ok" =>
    /\ call[1] \in StateTools \cup {"get_command_result"} => result.status = "ok"
    /\ call[1] \in StateTools => result = Reading(seen, call)
    /\ call[1] \in DOMAIN CatalogScopes => result = Catalogue(seen, call[1], call[2])
    /\ call[1] = "get_command_result" =>
         \E known : result = GetCommandResult(known, call[2])

(* The numbers of a call are JSON's, those of the calls of a batch as well. *)
Numeric ==
  /\ \A item \in Members(pending) : \A call \in ParseBatchCall(item) : AreValues(call[2])
  /\ \A item \in Members(answer.queued) : AreValues(item.call[2])

Remembered ==
  /\ answer.status # "none" => answer.call \in Calls
  /\ answer.seen \in {Empty} \cup Snapshots
  /\ answer.seen # Empty => snapshot \in Snapshots
  /\ TrueTo(answer.call, answer.status, answer.seen, answer.result)
  /\ Numeric

LEMMA TailMembers ==
  ASSUME NEW s, IsSequence(s), s # << >>
  PROVE  Head(s) \in Members(s) /\ Members(Tail(s)) \subseteq Members(s)
<1> DEFINE T == Members(s)
<1>1. s \in Seq(T) /\ Len(s) \in Nat \ {0}
  BY LenZero, OverItsMembers DEF IsSequence
<1> HIDE DEF T
<1>2. Head(s) = s[1] /\ Len(Tail(s)) = Len(s) - 1 /\ \A i \in 1..(Len(s) - 1) : Tail(s)[i] = s[i + 1]
  BY <1>1
<1>3. 1 \in 1..Len(s) /\ \A i \in 1..(Len(s) - 1) : i + 1 \in 1..Len(s)
  BY <1>1
<1> QED
  BY <1>1, <1>2, <1>3 DEF Members

LEMMA InitRemembered == Init => Remembered
<1> SUFFICES ASSUME Init PROVE Remembered
  OBVIOUS
<1>1. /\ answer = [call |-> <<"", NoArguments>>, status |-> "none", seen |-> Empty,
                   result |-> Refusal, queued |-> << >>, refused |-> << >>]
      /\ pending = << >>
  BY DEF Init, Idle
<1>2. Members(pending) = {} /\ Members(answer.queued) = {}
  BY <1>1, NoMembers
<1> QED
  BY <1>1, <1>2 DEF Remembered, TrueTo, Numeric

(* A call that is answered at once. *)
LEMMA AnsweredRemembered ==
  ASSUME Inv, Remembered, NEW call \in Calls, answer.status = "none", NEW status, NEW result,
         Answered(call, status, result), TrueTo(call, status, snapshot, result)
  PROVE  Remembered'
<1>1. /\ answer' = [call |-> call, status |-> status, seen |-> snapshot, result |-> result,
                    queued |-> << >>, refused |-> << >>]
      /\ UNCHANGED <<config, game, snapshot, pending>>
  BY AnsweredRecord
<1>2. snapshot \in {Empty} \cup Snapshots
  BY DEF Inv, TypeOK, Snapshots
<1>3. Numeric'
  BY <1>1, NoMembers DEF Remembered, Numeric
<1> QED
  BY <1>1, <1>2, <1>3 DEF Remembered, TrueTo, Snapshots

(* A command that is queued by a call of its own, or not. *)
LEMMA QueuesRemembered ==
  ASSUME Inv, Remembered, NEW call \in Calls, answer.status = "none", NEW commands,
         Queues(call, commands)
  PROVE  Remembered'
<1>1. UNCHANGED <<config, game, snapshot, pending>>
  BY DEF Queues
<1> DEFINE Becomes(status, queued) ==
             answer' = [call |-> call, status |-> status, seen |-> snapshot, result |-> Refusal,
                        queued |-> queued, refused |-> << >>]
<1>2. \/ \E c : Becomes("queued", <<Item(call, c)>>)
      \/ Becomes("refused", << >>)
  BY DEF Queues, Idle
<1> HIDE DEF Becomes
<1>3. PICK status, queued :
        /\ status \in {"queued", "refused"} /\ Becomes(status, queued)
        /\ queued = << >> \/ \E c : queued = <<Item(call, c)>>
  BY <1>2, Zenon
<1> USE DEF Becomes
<1>4. \A item \in Members(queued) : item.call = call
  <2>1. CASE queued = << >>
    BY <2>1, NoMembers
  <2>2. ASSUME NEW c, queued = <<Item(call, c)>> PROVE \A item \in Members(queued) : item.call = call
    <3>1. Item(call, c).call = call
      BY DEF Item
    <3> DEFINE item == Item(call, c)
    <3> HIDE DEF item
    <3>2. Len(queued) = 1 /\ queued[1] = item
      BY <2>2 DEF item
    <3> QED
      BY <3>1, <3>2 DEF Members, item
  <2> QED
    BY <1>3, <2>1, <2>2
<1>5. Numeric'
  BY <1>1, <1>3, <1>4, ValuesAssumption DEF Remembered, Numeric
<1>6. snapshot \in {Empty} \cup Snapshots
  BY DEF Inv, TypeOK, Snapshots
<1> QED
  BY <1>1, <1>3, <1>5, <1>6 DEF Remembered, TrueTo, Snapshots

LEMMA PublishRemembered == Inv /\ Remembered /\ Publish => Remembered'
<1> SUFFICES ASSUME Inv, Remembered, Publish PROVE Remembered'
  OBVIOUS
<1>1. snapshot' \in Snapshots /\ UNCHANGED <<config, game, pending, answer>>
  BY DEF Publish, Snapshots
<1>2. Snapshots' = Snapshots
  BY <1>1 DEF Snapshots
<1> QED
  BY <1>1, <1>2 DEF Remembered, TrueTo, Numeric

LEMMA ReadsRemembered ==
  ASSUME Inv, Remembered, ReadState \/ ReadCatalogue \/ ReadResults \/ ReadExamples
  PROVE  Remembered'
<1>1. /\ StateTools \cap DOMAIN CatalogScopes = {}
      /\ "get_command_result" \notin StateTools \cup DOMAIN CatalogScopes
      /\ "get_command_examples" \notin StateTools \cup DOMAIN CatalogScopes \cup {"get_command_result"}
  BY DEF StateTools, SectionTools, CatalogScopes
<1>2. CASE ReadState
  <2>1. PICK call \in Called(StateTools) :
          Answered(call, Reading(snapshot, call).status, Reading(snapshot, call))
    BY <1>2 DEF ReadState
  <2>2. TrueTo(call, Reading(snapshot, call).status, snapshot, Reading(snapshot, call))
    BY <1>1, CalledPassed DEF TrueTo
  <2> QED
    BY <2>1, <2>2, CalledPassed, AnsweredRemembered
<1>3. CASE ReadCatalogue
  <2>1. PICK call \in Called(DOMAIN CatalogScopes) :
          Answered(call, "ok", Catalogue(snapshot, call[1], call[2]))
    BY <1>3 DEF ReadCatalogue
  <2>2. TrueTo(call, "ok", snapshot, Catalogue(snapshot, call[1], call[2]))
    BY <1>1, CalledPassed DEF TrueTo
  <2> QED
    BY <2>1, <2>2, CalledPassed, AnsweredRemembered
<1>4. CASE ReadResults
  <2>1. PICK call \in Called({"get_command_result"}), known \in SUBSET KnownResults :
          Answered(call, GetCommandResult(known, call[2]).status, GetCommandResult(known, call[2]))
    BY <1>4 DEF ReadResults
  <2>2. TrueTo(call, GetCommandResult(known, call[2]).status, snapshot, GetCommandResult(known, call[2]))
    BY <1>1, CalledPassed DEF TrueTo
  <2> QED
    BY <2>1, <2>2, CalledPassed, AnsweredRemembered
<1>5. CASE ReadExamples
  <2>1. PICK call \in Called({"get_command_examples"}) : Answered(call, "ok", Refusal)
    BY <1>5 DEF ReadExamples
  <2>2. TrueTo(call, "ok", snapshot, Refusal)
    BY <1>1, CalledPassed DEF TrueTo
  <2> QED
    BY <2>1, <2>2, CalledPassed, AnsweredRemembered
<1> QED
  BY <1>2, <1>3, <1>4, <1>5

LEMMA StartBatchRemembered == Inv /\ Remembered /\ StartBatch => Remembered'
<1> SUFFICES ASSUME Inv, Remembered, StartBatch PROVE Remembered'
  OBVIOUS
<1>1. PICK call \in Called({"execute_batch"}) :
        IF Required(call[2], "calls", LAMBDA v : v[1] = "array")
        THEN /\ pending' = call[2]["calls"][2]
             /\ answer' = [Idle EXCEPT !.call = call, !.status = "batch"]
             /\ UNCHANGED <<config, game, snapshot>>
        ELSE Answered(call, "refused", Refusal)
  BY DEF StartBatch
<1>2. call \in Calls /\ answer.status = "none"
  BY CalledPassed
<1>3. CASE Required(call[2], "calls", LAMBDA v : v[1] = "array")
  <2>1. /\ answer' = [call |-> call, status |-> "batch", seen |-> Empty, result |-> Refusal,
                      queued |-> << >>, refused |-> << >>]
        /\ pending' = call[2]["calls"][2] /\ UNCHANGED <<config, game, snapshot>>
    BY <1>1, <1>3 DEF Idle
  <2>2. Members(pending') = Elements(call[2], "calls")
    BY <1>3, <2>1 DEF Members, Elements
  <2>3. Numeric'
    BY <1>2, <2>1, <2>2, NoMembers, ValuesAssumption DEF Numeric
  <2> QED
    BY <1>2, <2>1, <2>3 DEF Remembered, TrueTo
<1>4. CASE ~Required(call[2], "calls", LAMBDA v : v[1] = "array")
  BY <1>1, <1>2, <1>4, AnsweredRemembered DEF TrueTo
<1> QED
  BY <1>3, <1>4

LEMMA QueueNextRemembered == Inv /\ Remembered /\ QueueNext => Remembered'
<1> SUFFICES ASSUME Inv, Remembered, QueueNext PROVE Remembered'
  OBVIOUS
<1> DEFINE calls == ParseBatchCall(Head(pending))
           commands == UNION {BatchCall(config, snapshot, call[1], call[2]) : call \in calls}
<1>1. /\ pending # << >> /\ pending' = Tail(pending)
      /\ UNCHANGED <<config, game, snapshot>>
      /\ \/ \E call \in calls, c \in commands :
              answer' = [answer EXCEPT !.queued = Append(@, Item(call, c))]
         \/ answer' = [answer EXCEPT !.refused = Append(@, [call |-> calls, seen |-> snapshot])]
  BY DEF QueueNext
<1>2. Head(pending) \in Members(pending) /\ Members(pending') \subseteq Members(pending)
  BY <1>1, TailMembers DEF Inv, WellFormed
<1>3. \A call \in calls : AreValues(call[2])
  BY <1>2 DEF Remembered, Numeric
<1>4. answer.status = "batch"
  BY <1>1 DEF Inv, TypeOK
<1>5. ASSUME NEW queued, NEW refused,
             answer' = [call |-> answer.call, status |-> answer.status, seen |-> answer.seen,
                        result |-> answer.result, queued |-> queued, refused |-> refused],
             \A item \in Members(queued) : AreValues(item.call[2])
      PROVE  Remembered'
  BY <1>1, <1>2, <1>4, <1>5 DEF Remembered, Numeric, TrueTo, Snapshots
<1>6. ASSUME NEW call \in calls, NEW c,
             answer' = [answer EXCEPT !.queued = Append(@, Item(call, c))]
      PROVE  Remembered'
  <2> DEFINE item == Item(call, c)
  <2>1. item.call = call
    BY DEF Item
  <2>2. answer' = [call |-> answer.call, status |-> answer.status, seen |-> answer.seen,
                   result |-> answer.result, queued |-> Append(answer.queued, item),
                   refused |-> answer.refused]
    BY <1>6 DEF Inv, WellFormed
  <2> HIDE DEF item, calls, commands
  <2>3. Members(Append(answer.queued, item)) = Members(answer.queued) \cup {item}
    BY OneMore DEF Inv, WellFormed
  <2>4. \A other \in Members(Append(answer.queued, item)) : AreValues(other.call[2])
    BY <1>3, <2>1, <2>3 DEF Remembered, Numeric
  <2> QED
    BY <1>5, <2>2, <2>4
<1>7. ASSUME NEW item, answer' = [answer EXCEPT !.refused = Append(@, item)]
      PROVE  Remembered'
  <2>1. answer' = [call |-> answer.call, status |-> answer.status, seen |-> answer.seen,
                   result |-> answer.result, queued |-> answer.queued,
                   refused |-> Append(answer.refused, item)]
    BY <1>7 DEF Inv, WellFormed
  <2> QED
    BY <1>5, <2>1 DEF Remembered, Numeric
<1> QED
  BY <1>1, <1>6, <1>7

LEMMA EndsRemembered ==
  ASSUME Inv, Remembered, EndBatch \/ Take
  PROVE  Remembered'
<1>1. CASE EndBatch
  <2>1. PICK status \in {"error", "queued"} :
          answer' = [call |-> answer.call, status |-> status, seen |-> answer.seen,
                     result |-> answer.result, queued |-> answer.queued,
                     refused |-> answer.refused]
    BY <1>1 DEF EndBatch, Inv, WellFormed
  <2>2. UNCHANGED <<config, game, snapshot, pending>> /\ answer.status = "batch"
    BY <1>1 DEF EndBatch
  <2> QED
    BY <2>1, <2>2 DEF Remembered, Numeric, TrueTo, Snapshots
<1>2. CASE Take
  <2>1. /\ answer' = [call |-> <<"", NoArguments>>, status |-> "none", seen |-> Empty,
                      result |-> Refusal, queued |-> << >>, refused |-> << >>]
        /\ UNCHANGED <<config, game, snapshot, pending>>
    BY <1>2 DEF Take, Idle
  <2> QED
    BY <2>1, NoMembers DEF Remembered, Numeric, TrueTo
<1> QED
  BY <1>1, <1>2

LEMMA NextRemembered == Inv /\ Remembered /\ [Next]_vars => Remembered'
<1> SUFFICES ASSUME Inv, Remembered, [Next]_vars PROVE Remembered'
  OBVIOUS
<1>1. CASE Unserved
  <2>1. PICK call \in Calls : Answered(call, Dispatch(config, call[1]), Refusal)
    BY <1>1 DEF Unserved
  <2>2. answer.status = "none" /\ Dispatch(config, call[1]) # "ok"
    BY <1>1, DispatchOutcome DEF Unserved, NotServed
  <2> QED
    BY <2>1, <2>2, AnsweredRemembered DEF TrueTo
<1>2. CASE GetScreenshot
  <2>1. PICK call \in Called({"get_screenshot"}) :
          Answered(call, IF config.screenshot THEN "ok" ELSE "disabled", Refusal)
    BY <1>2 DEF GetScreenshot
  <2>2. call[1] \notin StateTools \cup DOMAIN CatalogScopes \cup {"get_command_result"}
    BY CalledPassed, ToolGroups
  <2> QED
    BY <2>1, <2>2, CalledPassed, AnsweredRemembered DEF TrueTo
<1>3. CASE CallCommand \/ CallInput
  BY <1>3, CalledPassed, QueuesRemembered DEF CallCommand, CallInput
<1>4. CASE UNCHANGED vars
  BY <1>4 DEF vars, Remembered, Numeric, TrueTo, Snapshots
<1> QED
  BY <1>1, <1>2, <1>3, <1>4, PublishRemembered, ReadsRemembered, StartBatchRemembered,
     QueueNextRemembered, EndsRemembered DEF Next

LEMMA Memory == Spec => [](Inv /\ Remembered)
  BY InitInv, NextInv, InitRemembered, NextRemembered, PTL DEF Spec
-----------------------------------------------------------------------------
(* Numbers.                                                                *)

LEMMA Widths ==
  /\ Int32Max \in Nat /\ Int64Max \in Nat /\ SizeModulus \in Nat /\ FullTurn \in Nat
  /\ TidMax \in Nat /\ DamageMax \in Nat /\ MaxHealth \in Nat /\ AmountMax \in Nat
  /\ FullTurn > 0 /\ TidMax > 0 /\ DamageMax > 0 /\ MaxHealth > 0 /\ AmountMax > 0
  /\ TidMax < Int32Max /\ DamageMax < Int32Max /\ MaxHealth < Int32Max /\ AmountMax < Int32Max
  /\ 7 < Int32Max /\ Int32Max < Int64Max /\ SizeModulus = 2 * (Int64Max + 1)
  /\ FloatExact \in Nat /\ FloatMax \in Nat /\ FloatStep \in Nat \ {0}
  /\ FloatExact <= FloatMax /\ 2 * FullTurn <= FloatMax
  BY WidthsAssumption

LEMMA Halving ==
  ASSUME NEW h \in Int PROVE h \div 2 \in Int /\ (h % 2 = 0 => 2 * (h \div 2) = h)
                             /\ (2 * h) \div 2 = h /\ (2 * h) % 2 = 0
  OBVIOUS

(* What is left of a number when its remainder is taken off is a multiple. *)
LEMMA Multiple ==
  ASSUME NEW b \in Nat \ {0}, NEW q \in Int PROVE (b * q) % b = 0
<1> DEFINE x == b * q  d == x \div b  r == x % b
<1>1. x \in Int
  OBVIOUS
<1>2. x = b * d + r /\ d \in Int /\ r \in 0..(b - 1)
  BY <1>1
<1> DEFINE e == q - d
<1>3. b * e = r /\ e \in Int
  BY <1>2
<1>4. ASSUME e >= 1 PROVE FALSE
  <2>1. b * e >= b
    BY <1>3, <1>4
  <2> QED
    BY <2>1, <1>2, <1>3
<1>5. ASSUME e <= -1 PROVE FALSE
  <2>1. b * e <= -b
    BY <1>3, <1>5
  <2> QED
    BY <2>1, <1>2, <1>3
<1>6. e = 0
  BY <1>3, <1>4, <1>5
<1> QED
  BY <1>2, <1>3, <1>6

LEMMA WithoutRemainder ==
  ASSUME NEW b \in Nat \ {0}, NEW a \in Int PROVE (a - (a % b)) % b = 0
<1>1. a - (a % b) = b * (a \div b) /\ a \div b \in Int
  OBVIOUS
<1> QED
  BY <1>1, Multiple

(* What a number is as a double, in halves. *)
LEMMA NumberIsNearest ==
  ASSUME NEW v, IsValue(v), IsNumber(v)
  PROVE  /\ Exact(v) \in Int /\ Number(v) = Nearest(v)
         /\ Number(v) # Exact(v) => Exact(v) = 2 * Int64Max /\ Number(v) = 2 * (Int64Max + 1)
<1>1. CASE v[1] = "int"
  <2>1. v[2] \in Int /\ Exact(v) = 2 * v[2] /\ Number(v) = 2 * AsDouble(v[2])
    BY <1>1, Widths DEF IsValue, Exact, Number
  <2> QED
    BY <1>1, <2>1, Widths DEF AsDouble, Nearest
<1>2. CASE v[1] = "real"
  BY <1>2 DEF IsValue, Exact, Number, Nearest
<1> QED
  BY <1>1, <1>2 DEF IsNumber

(* An integer that fits 32 bits is read as it is written. *)
LEMMA IntegersAreExact ==
  ASSUME NEW v, IsValue(v), NEW n \in Integers64(v), n >= 0, n < Int64Max
  PROVE  n \in Int /\ 2 * n = Exact(v)
<1>1. IsNumber(v) /\ Number(v) % 2 = 0
  BY DEF Integers64
<1>2. Number(v) \in Int /\ Exact(v) \in Int
  BY <1>1, NumberIsNearest, Widths DEF Nearest
<1> DEFINE m == Number(v) \div 2
<1>3. m \in Int /\ 2 * m = Number(v)
  BY <1>1, <1>2, Halving
<1>4. n = m /\ m # Int64Max + 1
  <2>1. Integers64(v) = IF m < -Int64Max - 1 \/ m > Int64Max + 1 THEN {}
                        ELSE IF m = Int64Max + 1 THEN {-Int64Max - 1, Int64Max} ELSE {m}
    BY <1>1 DEF Integers64
  <2> HIDE DEF m
  <2> QED
    BY <1>3, <2>1, Widths
<1> HIDE DEF m
<1>5. Number(v) # 2 * (Int64Max + 1)
  BY <1>3, <1>4, Widths
<1>6. Number(v) = Exact(v)
  BY <1>1, <1>5, NumberIsNearest
<1> QED
  BY <1>3, <1>4, <1>6

(* A number that is cut at both ends does not show how it was rounded. *)
LEMMA ClampingHidesRounding ==
  ASSUME NEW v, IsValue(v), IsNumber(v), NEW high \in Nat, 1 <= high, high < Int64Max
  PROVE  Clamp(Number(v) \div 2, 1, high) = Clamp(Exact(v) \div 2, 1, high)
<1>1. CASE Number(v) = Exact(v)
  BY <1>1
<1>2. CASE Number(v) # Exact(v)
  <2>1. Exact(v) = 2 * Int64Max /\ Number(v) = 2 * (Int64Max + 1)
    BY <1>2, NumberIsNearest
  <2>2. Exact(v) \div 2 = Int64Max /\ Number(v) \div 2 = Int64Max + 1
    BY <2>1, Widths, Halving
  <2> QED
    BY <2>2, Widths DEF Clamp
<1> QED
  BY <1>1, <1>2

(* The cast to a single changes a number by at most half a step, and one that a single
   has not at all. *)
LEMMA CastRounds ==
  ASSUME NEW h \in Int
  PROVE  /\ AsFloat(h) \in Int
         /\ h \in -FloatExact..FloatExact => AsFloat(h) = h
         /\ h \in -FloatMax..FloatMax => 2 * (AsFloat(h) - h) \in -FloatStep..FloatStep
         /\ h \notin -FloatMax..FloatMax => AsFloat(h) \in {-Infinity, Infinity}
<1>1. CASE h \notin -FloatMax..FloatMax
  BY <1>1, Widths DEF AsFloat, Infinity
<1>2. CASE h \in -FloatExact..FloatExact
  BY <1>2, Widths DEF AsFloat
<1>3. CASE h \in -FloatMax..FloatMax /\ h \notin -FloatExact..FloatExact
  <2> DEFINE half == FloatStep \div 2  up == h + half  rest == up % FloatStep
  <2>1. half \in Int /\ 2 * half <= FloatStep /\ FloatStep <= 2 * half + 1
    <3>1. FloatStep \in Nat
      BY Widths
    <3> QED
      BY <3>1
  <2>2. up \in Int
    BY <2>1
  <2> HIDE DEF up
  <2>3. rest \in 0..(FloatStep - 1)
    BY <2>2, Widths
  <2>4. AsFloat(h) = up - rest
    BY <1>3, Widths DEF AsFloat, up
  <2> HIDE DEF rest, half
  <2>5. up = h + half
    BY DEF up, half
  <2> QED
    BY <1>3, <2>1, <2>2, <2>3, <2>4, <2>5, Widths
<1> QED
  BY <1>1, <1>2, <1>3

(* Coordinates are the numbers that were written, as near as a single comes. *)
LEMMA CoordinatesAreNearest ==
  ASSUME NEW args, AreValues(args), Coordinates(args), NEW c,
         c.x = Single(args["x"]), c.y = Single(args["y"]), c.angle = Angle(args)
  PROVE  Placed(c, args)
<1>1. /\ "x" \in DOMAIN args /\ "y" \in DOMAIN args /\ IsNumber(args["x"]) /\ IsNumber(args["y"])
      /\ "angle" \in DOMAIN args => IsNumber(args["angle"])
  BY DEF Coordinates, Required, Optional
<1>2. \A f \in DOMAIN args : IsValue(args[f])
  BY DEF AreValues
<1>3. ASSUME NEW f \in DOMAIN args, IsNumber(args[f]) PROVE Rounded(args, f, Single(args[f]))
  <2>1. Number(args[f]) = Nearest(args[f]) /\ Number(args[f]) \in Int
    BY <1>2, <1>3, NumberIsNearest, Widths DEF Nearest
  <2> QED
    BY <2>1, CastRounds DEF Rounded, Single
<1> QED
  BY <1>1, <1>3 DEF Placed, Angle, Rounded

(* The target of damage_entity, as far as 32 bits hold it. *)
LEMMA TargetsAreClamped ==
  ASSUME NEW v, IsValue(v), NEW n \in Integers64(v), n >= 0, Exact(v) <= 2 * Int32Max
  PROVE  DamageTarget(n) = Clamp(Exact(v) \div 2, 0, TidMax)
<1>1. IsNumber(v) /\ Number(v) % 2 = 0
  BY DEF Integers64
<1>2. Exact(v) \in Int /\ Number(v) = Exact(v)
  BY <1>1, NumberIsNearest, Widths
<1> DEFINE m == Exact(v) \div 2
<1>3. m \in Int /\ 2 * m = Exact(v)
  BY <1>1, <1>2, Halving
<1>4. n = m
  <2>1. Integers64(v) = IF m < -Int64Max - 1 \/ m > Int64Max + 1 THEN {}
                        ELSE IF m = Int64Max + 1 THEN {-Int64Max - 1, Int64Max} ELSE {m}
    BY <1>1, <1>2 DEF Integers64
  <2> HIDE DEF m
  <2> QED
    BY <1>3, <2>1, Widths
<1> HIDE DEF m
<1>5. n \in Int /\ 0 <= n /\ n <= Int32Max
  BY <1>3, <1>4, Widths
<1>6. Truncated(n) = n
  <2> DEFINE w == Int32Max + 1
  <2>1. n + w \in 0..(2 * w - 1) /\ w \in Nat
    BY <1>5, Widths
  <2>2. (n + w) % (2 * w) = n + w
    <3> DEFINE a == n + w  b == 2 * w
    <3>1. a \in Nat /\ b \in Nat \ {0} /\ a < b
      BY <2>1, Widths
    <3> HIDE DEF a, b
    <3>2. a % b = a
      BY <3>1
    <3> QED
      BY <3>2 DEF a, b
  <2>3. Truncated(n) = ((n + w) % (2 * w)) - w
    BY <1>5, Widths DEF Truncated
  <2> HIDE DEF w
  <2> QED
    BY <1>5, <2>1, <2>2, <2>3
<1> QED
  BY <1>4, <1>6 DEF DamageTarget, m

(* The numbers of a command are those of the call it was parsed from. *)
LEMMA ParsedAsWritten ==
  ASSUME NEW type \in CommandTypes, NEW args, AreValues(args), NEW c \in ParseCommand(type, args)
  PROVE  Means(c, args)
<1>1. \A f \in DOMAIN args : IsValue(args[f])
  BY DEF AreValues
<1>2. CASE type = "spawn_entity"
  <2>1. c \in ParseSpawn(args)
    BY <1>2 DEF ParseCommand
  <2>2. PICK t \in OptionalInt(args, "tid", 0) \cap 0..Int32Max :
          c = [type |-> "spawn_entity", entity_class |-> args["entity_class"][2],
               x |-> Single(args["x"]), y |-> Single(args["y"]), angle |-> Angle(args), tid |-> t]
    BY <2>1 DEF ParseSpawn
  <2>3. Coordinates(args)
    BY <2>1 DEF ParseSpawn
  <2>4. Placed(c, args)
    BY <2>2, <2>3, CoordinatesAreNearest
  <2>5. Kept(args, "tid", t)
    BY <1>1, <2>2, Widths, IntegersAreExact DEF Kept, OptionalInt
  <2> QED
    BY <2>2, <2>4, <2>5 DEF Means
<1>3. CASE type = "change_level"
  <2>1. PICK s \in OptionalInt(args, "skill_level", 3) \cap 1..5 :
          /\ c.type = "change_level" /\ c.skill_level = s
    BY <1>3 DEF ParseCommand, ParseChangeLevel
  <2>2. Kept(args, "skill_level", s)
    BY <1>1, <2>1, Widths, IntegersAreExact DEF Kept, OptionalInt
  <2> QED
    BY <2>1, <2>2 DEF Means
<1>4. CASE type = "give_item"
  <2>1. PICK a \in OptionalInt(args, "amount", 1) \cap 1..AmountMax :
          /\ c.type = "give_item" /\ c.amount = a
    BY <1>4 DEF ParseCommand, ParseGiveItem
  <2>2. Kept(args, "amount", a)
    BY <1>1, <2>1, Widths, IntegersAreExact DEF Kept, OptionalInt
  <2> QED
    BY <2>1, <2>2 DEF Means
<1>5. CASE type = "set_player_health"
  <2>1. /\ "health" \in DOMAIN args /\ IsNumber(args["health"])
        /\ c.type = "set_player_health"
        /\ c.health = Clamp(Number(args["health"]) \div 2, 1, MaxHealth)
    BY <1>5 DEF ParseCommand, ParseSetHealth, Required
  <2>2. Clamp(Number(args["health"]) \div 2, 1, MaxHealth)
          = Clamp(Exact(args["health"]) \div 2, 1, MaxHealth)
    BY <1>1, <2>1, Widths, ClampingHidesRounding
  <2> QED
    BY <2>1, <2>2 DEF Means, Saturated
<1>6. CASE type = "set_player_position"
  <2>1. /\ Coordinates(args) /\ c.type = "set_player_position"
        /\ c.x = Single(args["x"]) /\ c.y = Single(args["y"]) /\ c.angle = Angle(args)
    BY <1>6 DEF ParseCommand, ParseSetPosition
  <2> QED
    BY <2>1, CoordinatesAreNearest DEF Means
<1>7. CASE type = "execute_console"
  BY <1>7, ParsedAsCalled DEF Means
<1>8. CASE type = "pause_game"
  BY <1>8, ParsedAsCalled DEF Means
<1>9. CASE type = "damage_entity"
  <2>1. PICK n \in RequiredInt(args, "target_tid") :
          /\ n >= 0
          /\ c = [type |-> "damage_entity", target_tid |-> DamageTarget(n),
                  damage |-> Clamp(Number(args["damage"]) \div 2, 1, DamageMax)]
    BY <1>9 DEF ParseCommand, ParseDamage
  <2>2. "damage" \in DOMAIN args /\ IsNumber(args["damage"])
    BY <1>9 DEF ParseCommand, ParseDamage, Required
  <2>3. "target_tid" \in DOMAIN args /\ n \in Integers64(args["target_tid"])
    BY <2>1 DEF RequiredInt
  <2>4. Clamp(Number(args["damage"]) \div 2, 1, DamageMax)
          = Clamp(Exact(args["damage"]) \div 2, 1, DamageMax)
    BY <1>1, <2>2, Widths, ClampingHidesRounding
  <2>5. Exact(args["target_tid"]) <= 2 * Int32Max =>
          DamageTarget(n) = Clamp(Exact(args["target_tid"]) \div 2, 0, TidMax)
    BY <1>1, <2>1, <2>3, TargetsAreClamped
  <2> QED
    BY <2>1, <2>4, <2>5 DEF Means, Saturated
<1>10. CASE type = "kill_entity"
  <2>1. PICK n \in RequiredInt(args, "target_tid") \cap 0..Int32Max :
          c.type = "kill_entity" /\ c.target_tid = n
    BY <1>10 DEF ParseCommand, ParseKill, KillTarget
  <2>2. Kept(args, "target_tid", n)
    BY <1>1, <2>1, Widths, IntegersAreExact DEF Kept, RequiredInt
  <2> QED
    BY <2>1, <2>2 DEF Means
<1> QED
  BY <1>2, <1>3, <1>4, <1>5, <1>6, <1>7, <1>8, <1>9, <1>10 DEF CommandTypes

(* An angle is what was asked for, but for full turns; a slot is the one asked for. *)
LEMMA InputsAsWritten ==
  ASSUME NEW args, AreValues(args), NEW c \in ParsePlayerInput(args)
  PROVE  Means(c, args)
<1>1. c.type = "player_input"
  BY InputsAreInputs
<1>2. \A f \in DOMAIN args : IsValue(args[f])
  BY DEF AreValues
<1>3. ASSUME c.action = "aim"
      PROVE  \E error \in -FloatStep..FloatStep :
               /\ 2 * error \in -FloatStep..FloatStep
               /\ (Nearest(args["value"]) - c.angle + error) % (2 * FullTurn) = 0
  <2>1. /\ Required(args, "value", IsNumber)
        /\ c.angle = AsFloat(Number(args["value"]) % (2 * FullTurn))
    BY <1>3 DEF ParsePlayerInput, Moves
  <2> DEFINE a == Nearest(args["value"])  b == 2 * FullTurn  r == a % b  error == c.angle - r
  <2>2. "value" \in DOMAIN args /\ IsNumber(args["value"])
    BY <2>1 DEF Required
  <2>3. a \in Int /\ Number(args["value"]) = a
    BY <1>2, <2>2, NumberIsNearest, Widths DEF Nearest
  <2>4. c.angle = AsFloat(r) /\ b \in Nat \ {0} /\ b <= FloatMax
    BY <2>1, <2>3, Widths
  <2> HIDE DEF a, b
  <2>5. (a - r) % b = 0 /\ r \in 0..(b - 1)
    BY <2>3, <2>4, WithoutRemainder
  <2> HIDE DEF r
  <2>6. c.angle \in Int /\ 2 * error \in -FloatStep..FloatStep
    BY <2>4, <2>5, CastRounds, Widths
  <2>7. a - c.angle + error = a - r
    BY <2>3, <2>5, <2>6
  <2>8. error \in -FloatStep..FloatStep /\ (a - c.angle + error) % b = 0
    BY <2>5, <2>6, <2>7, Widths
  <2> QED
    BY <2>6, <2>8 DEF a, b
<1>4. ASSUME c.action = "weapon" PROVE Kept(args, "value", c.slot)
  <2>1. c.slot \in RequiredInt(args, "value") \cap 1..7
    BY <1>4 DEF ParsePlayerInput, Moves
  <2> QED
    BY <1>2, <2>1, Widths, IntegersAreExact DEF Kept, RequiredInt
<1> QED
  BY <1>1, <1>3, <1>4 DEF Means

(* A size is the number that was written, a negative one the large one it wraps to. *)
Size(v) == IF v[2] > 0 THEN v[2] ELSE IF v[2] = 0 THEN 0 ELSE SizeModulus + v[2]

LEMMA SizesAreRead ==
  ASSUME NEW v, IsValue(v), NEW n \in Sizes(v)
  PROVE  n = Size(v) /\ n \in 0..(SizeModulus - 1) /\ (v[2] >= 0 => n = v[2])
<1>1. v[1] = "int" /\ v[2] \in (-Int64Max - 1)..(SizeModulus - 1) /\ n = v[2] % SizeModulus
  BY DEF Sizes, IsValue
<1> DEFINE k == v[2]  M == SizeModulus
<1>2. k \in Int /\ M \in Nat \ {0} /\ -M < k /\ k < M
  BY <1>1, Widths
<1>3. Size(v) = IF k > 0 THEN k ELSE IF k = 0 THEN 0 ELSE M + k
  BY DEF Size
<1>4. n = k % M
  BY <1>1
<1> HIDE DEF k, M
<1>5. k % M = (IF k < 0 THEN M + k ELSE k) /\ k % M \in 0..(M - 1)
  BY <1>2
<1>6. k % M = (IF k > 0 THEN k ELSE IF k = 0 THEN 0 ELSE M + k)
  BY <1>2, <1>5
<1> QED
  BY <1>2, <1>3, <1>4, <1>5, <1>6 DEF k, M

(* Results are looked up by the numbers that were asked for. *)
LEMMA SequencesAreSizes ==
  ASSUME NEW v, IsValue(v), Sequences(v) # {}
  PROVE  Size(v) = CHOOSE n \in Sequences(v) : TRUE
<1>1. \A n \in Sequences(v) : n = Size(v)
  BY SizesAreRead DEF Sequences
<1> QED
  BY <1>1

LEMMA FoundAsAsked ==
  ASSUME NEW args, AreValues(args), \A v \in Elements(args, "sequences") : IsValue(v),
         NEW known, NEW result, result = GetCommandResult(known, args), result.status = "ok"
  PROVE  LET values == AskedFor(args)
         IN  (\A i \in 1..Len(values) : values[i][2] > 0) =>
               result.found = Found([i \in 1..Len(values) |-> values[i][2]], result.known)
<1> DEFINE values == AskedFor(args)
           asked == [i \in 1..Len(values) |-> Size(values[i])]
<1>1. AskedSequences(args) # {}
  BY DEF GetCommandResult, Refusal
<1>2. AskedSequences(args) = {asked}
  <2>1. CASE Required(args, "sequences", LAMBDA v : v[1] = "array")
    <3>1. values = args["sequences"][2] /\ Elements(args, "sequences") = {values[i] : i \in 1..Len(values)}
      BY <2>1 DEF AskedFor, Elements
    <3>2. /\ \A i \in 1..Len(values) : Sequences(values[i]) # {}
          /\ AskedSequences(args) = {[i \in 1..Len(values) |-> CHOOSE n \in Sequences(values[i]) : TRUE]}
      BY <1>1, <2>1, <3>1 DEF AskedSequences
    <3> HIDE DEF values
    <3>3. \A i \in 1..Len(values) : Size(values[i]) = CHOOSE n \in Sequences(values[i]) : TRUE
      BY <3>1, <3>2, SequencesAreSizes
    <3> QED
      BY <3>2, <3>3
  <2>2. CASE ~Required(args, "sequences", LAMBDA v : v[1] = "array")
    <3> DEFINE v == args["sequence"]
    <3>1. "sequence" \in DOMAIN args /\ AskedSequences(args) = {<<n>> : n \in Sequences(v)}
      BY <1>1, <2>2 DEF AskedSequences
    <3>2. IsValue(v) /\ Sequences(v) # {}
      BY <1>1, <3>1 DEF AreValues
    <3>3. values = <<v>>
      BY <2>2 DEF AskedFor
    <3> HIDE DEF v
    <3>4. Sequences(v) = {Size(v)}
      <4>1. Size(v) = CHOOSE n \in Sequences(v) : TRUE
        BY <3>2, SequencesAreSizes
      <4>2. \A m, n \in Sequences(v) : m = n
        BY DEF Sequences, Sizes
      <4> QED
        BY <3>2, <4>1, <4>2
    <3>5. asked = <<Size(v)>>
      <4>1. Len(<<v>>) = 1 /\ <<v>>[1] = v
        OBVIOUS
      <4> QED
        BY <3>3, <4>1
    <3> HIDE DEF asked
    <3> QED
      BY <3>1, <3>4, <3>5
  <2> QED
    BY <2>1, <2>2
<1> HIDE DEF asked, values
<1>3. result = CommandResults(known, asked)
  BY <1>1, <1>2 DEF GetCommandResult
<1>4. result.found = Found(asked, known) /\ result.known = known
  BY <1>3 DEF CommandResults
<1>5. ASSUME \A i \in 1..Len(values) : values[i][2] > 0
      PROVE  asked = [i \in 1..Len(values) |-> values[i][2]]
  <2>1. \A i \in 1..Len(values) : Size(values[i]) = values[i][2]
    BY <1>5 DEF Size
  <2> QED
    BY <2>1 DEF asked
<1> QED
  BY <1>4, <1>5 DEF values

(* For any calls of any tools, alone or in a batch: a number of a queued command is the
   one that was written, the end of its range, or within half a step of a single; and
   only results that were asked for are shown.  Not claimed of a damage target beyond 32
   bits and of negative sequence numbers, which the code does not keep. *)
THEOREM NumbersAreKept == Spec => []NumbersMeanWhatTheySay
<1>1. Inv /\ Remembered => NumbersMeanWhatTheySay
  <2> SUFFICES ASSUME Inv, Remembered PROVE NumbersMeanWhatTheySay
    OBVIOUS
  <2>1. ASSUME NEW item \in QueuedCommands PROVE Means(item.command, item.call[2])
    <3>1. Comes(item) /\ AreValues(item.call[2])
      BY DEF Inv, Vetted, Remembered, Numeric, Members, QueuedCommands
    <3> QED
      BY <3>1, ParsedAsWritten, InputsAsWritten DEF Comes, Queued
  <2>2. ASSUME answer.status = "ok", answer.call[1] = "get_command_result"
        PROVE  LET values == AskedFor(answer.call[2])
               IN  (\A i \in 1..Len(values) : values[i][2] > 0) =>
                     answer.result.found =
                       Found([i \in 1..Len(values) |-> values[i][2]], answer.result.known)
    <3>1. PICK known : answer.result = GetCommandResult(known, answer.call[2])
      BY <2>2 DEF Remembered, TrueTo
    <3>2. /\ AreValues(answer.call[2])
          /\ \A v \in Elements(answer.call[2], "sequences") : IsValue(v)
      BY <2>2, ValuesAssumption DEF Remembered
    <3>3. answer.result.status = "ok"
      BY <2>2 DEF Remembered, TrueTo
    <3> QED
      BY <3>1, <3>2, <3>3, FoundAsAsked
  <2> QED
    BY <2>1, <2>2 DEF NumbersMeanWhatTheySay
<1> QED
  BY <1>1, Memory, PTL
-----------------------------------------------------------------------------
(* Pages.                                                                  *)

(* The lists of a snapshot that an engine publishes, and of the empty one. *)
LEMMA ListsAreShort ==
  ASSUME NEW g, NEW snap \in {Empty} \cup {Captured(g, scene) : scene \in Scenes}
  PROVE  /\ Len(snap.enemies) \in Nat /\ Len(snap.entities) \in Nat /\ Len(snap.inventory) \in Nat
         /\ Len(snap.enemies) + Len(snap.entities) <= Int64Max
         /\ Len(snap.inventory) <= Int64Max
<1>1. CASE snap = Empty
  <2>1. snap.enemies = << >> /\ snap.entities = << >> /\ snap.inventory = << >>
    BY <1>1 DEF Empty
  <2> QED
    BY <2>1, NoMembers, Widths
<1>2. CASE snap \in {Captured(g, scene) : scene \in Scenes}
  <2>1. PICK scene \in Scenes : snap = Captured(g, scene)
    BY <1>2
  <2>2. /\ snap.enemies = scene.enemies /\ snap.entities = scene.entities
        /\ snap.inventory = scene.inventory
    BY <2>1 DEF Captured
  <2> QED
    BY <2>2, ScenesAssumption
<1> QED
  BY <1>1, <1>2

(* What passes a filter is no longer than the list. *)
LEMMA InOrderIsShort ==
  ASSUME NEW n \in Nat, NEW S \in SUBSET (1..n)
  PROVE  IsFiniteSet(S) /\ Cardinality(S) \in 0..n /\ Len(InOrder(S)) = Cardinality(S)
<1>1. IsFiniteSet(1..n) /\ Cardinality(1..n) = n
  BY FS_Interval
<1>2. IsFiniteSet(S) /\ Cardinality(S) <= n
  BY <1>1, FS_Subset
<1>3. Cardinality(S) \in 0..n
  BY <1>2, FS_CardinalityType
<1>4. Len(InOrder(S)) = Cardinality(S)
  BY <1>3 DEF InOrder
<1> QED
  BY <1>2, <1>3, <1>4

(* How many of a set there are up to one of them tells them apart. *)
LEMMA PlacesGrow ==
  ASSUME NEW n \in Nat, NEW S \in SUBSET (1..n), NEW x \in S, NEW y \in S, x < y
  PROVE  LET Place(i) == Cardinality({j \in S : j <= i})
         IN  Place(x) \in Nat /\ Place(y) \in Nat /\ Place(x) < Place(y)
<1> DEFINE A == {j \in S : j <= x}  B == {j \in S : j <= y}
<1>1. IsFiniteSet(S)
  BY InOrderIsShort
<1>2. A \in SUBSET B /\ B \in SUBSET S /\ y \in B /\ y \notin A
  <2>1. \A j \in S : j \in Int
    OBVIOUS
  <2>2. x \in Int /\ y \in Int /\ x < y
    BY <2>1
  <2>3. y <= y /\ ~(y <= x) /\ \A j \in S : j <= x => j <= y
    BY <2>1, <2>2
  <2> QED
    BY <2>3
<1> HIDE DEF A, B
<1>3. IsFiniteSet(B) /\ IsFiniteSet(A)
  BY <1>1, <1>2, FS_Subset
<1>4. Cardinality(A) <= Cardinality(B) /\ Cardinality(A) # Cardinality(B)
  BY <1>2, <1>3, FS_Subset
<1>5. Cardinality(A) \in Nat /\ Cardinality(B) \in Nat
  BY <1>3, FS_CardinalityType
<1>6. Cardinality(A) < Cardinality(B)
  BY <1>4, <1>5
<1> QED
  BY <1>5, <1>6 DEF A, B

(* What passes a filter is listed in order, each once and none left out. *)
THEOREM InOrderEnumerates ==
  ASSUME NEW n \in Nat, NEW S \in SUBSET (1..n)
  PROVE  /\ InOrder(S) \in [1..Cardinality(S) -> S]
         /\ \A k, l \in 1..Cardinality(S) : k < l => InOrder(S)[k] < InOrder(S)[l]
         /\ \A i \in S : \E k \in 1..Cardinality(S) : InOrder(S)[k] = i
<1> DEFINE c == Cardinality(S)
           Place(i) == Cardinality({j \in S : j <= i})
<1>1. c \in Nat /\ IsFiniteSet(S)
  BY InOrderIsShort
<1>2. ASSUME NEW x \in S, NEW y \in S, x < y
      PROVE  Place(x) \in Nat /\ Place(y) \in Nat /\ Place(x) < Place(y)
  BY <1>2, PlacesGrow
<1>3. ASSUME NEW x \in S PROVE Place(x) \in 1..c
  <2> DEFINE A == {j \in S : j <= x}
  <2>1. A \in SUBSET S /\ x \in A
    OBVIOUS
  <2> HIDE DEF A
  <2>2. IsFiniteSet(A) /\ Cardinality(A) <= c
    BY <1>1, <2>1, FS_Subset
  <2>3. Cardinality(A) \in Nat /\ Cardinality(A) # 0
    BY <2>1, <2>2, FS_CardinalityType, FS_EmptySet
  <2> HIDE DEF c
  <2>4. Cardinality(A) \in 1..c
    BY <1>1, <2>2, <2>3
  <2> QED
    BY <2>4 DEF A
<1> HIDE DEF Place, c
<1>4. ASSUME NEW x \in S, NEW y \in S, x # y PROVE Place(x) # Place(y)
  <2>1. x \in Int /\ y \in Int
    OBVIOUS
  <2>2. x < y \/ y < x
    BY <1>4, <2>1
  <2> QED
    BY <1>2, <2>2
<1>5. ASSUME NEW k \in 1..c PROVE \E x \in S : Place(x) = k
  <2> SUFFICES ASSUME \A x \in S : Place(x) # k PROVE FALSE
    OBVIOUS
  <2> DEFINE T == (1..c) \ {k}
             f == [x \in S |-> Place(x)]
  <2>1. IsFiniteSet(1..c) /\ Cardinality(1..c) = c
    BY <1>1, FS_Interval
  <2>2. IsFiniteSet(T) /\ Cardinality(T) = c - 1
    BY <1>5, <2>1, FS_RemoveElement
  <2>3. f \in [S -> T]
    BY <1>3
  <2>4. Cardinality(T) < Cardinality(S)
    BY <1>1, <2>2 DEF c
  <2> HIDE DEF T
  <2>5. PICK x \in S, y \in S : x # y /\ f[x] = f[y]
    <3> HIDE DEF f
    <3> QED
      BY <1>1, <2>2, <2>3, <2>4, FS_PigeonHole
  <2> QED
    BY <1>4, <2>5
<1>6. InOrder(S) = [k \in 1..c |-> CHOOSE i \in S : Place(i) = k]
  BY DEF InOrder, Place, c
<1>7. ASSUME NEW k \in 1..c PROVE InOrder(S)[k] \in S /\ Place(InOrder(S)[k]) = k
  BY <1>5, <1>6
<1>8. ASSUME NEW k \in 1..c, NEW l \in 1..c, k < l PROVE InOrder(S)[k] < InOrder(S)[l]
  <2> DEFINE x == InOrder(S)[k]  y == InOrder(S)[l]
  <2>1. x \in S /\ y \in S /\ Place(x) = k /\ Place(y) = l
    BY <1>7
  <2> HIDE DEF x, y
  <2>2. x \in Int /\ y \in Int /\ k \in Int /\ l \in Int
    BY <2>1
  <2>3. x # y /\ ~(y < x)
    BY <1>2, <1>8, <2>1, <2>2
  <2>4. x < y
    BY <2>2, <2>3
  <2> QED
    BY <2>4 DEF x, y
<1>9. ASSUME NEW i \in S PROVE \E k \in 1..c : InOrder(S)[k] = i
  <2>1. Place(i) \in 1..c
    BY <1>3 DEF Place, c
  <2> QED
    BY <1>4, <1>7, <2>1
<1> QED
  BY <1>6, <1>7, <1>8, <1>9 DEF c

(* Rows are a sequence, no longer than what they are taken from. *)
Holds(rows, n) == IsSequence(rows) /\ Len(rows) \in 0..n

LEMMA EnemyRowsFit ==
  ASSUME NEW snap, NEW status, Len(snap.enemies) \in Nat
  PROVE  Holds(EnemyRows(snap, status), Len(snap.enemies))
<1> DEFINE S == {i \in 1..Len(snap.enemies) : EnemyMatches(snap.enemies[i], status)}
           found == InOrder(S)
<1>1. Len(found) \in 0..Len(snap.enemies)
  BY InOrderIsShort
<1>2. EnemyRows(snap, status) = [i \in 1..Len(found) |-> <<"enemy", found[i]>>]
  BY DEF EnemyRows, Matching
<1> HIDE DEF found
<1> DEFINE rows == [i \in 1..Len(found) |-> <<"enemy", found[i]>>]
           T == {<<"enemy", found[i]>> : i \in 1..Len(found)}
<1>3. rows \in Seq(T) /\ Len(rows) = Len(found)
  BY <1>1
<1> QED
  BY <1>1, <1>2, <1>3, OverItsMembers DEF Holds

LEMMA EntityRowsFit ==
  ASSUME NEW snap, NEW kind, Len(snap.entities) \in Nat
  PROVE  Holds(EntityRows(snap, kind), Len(snap.entities))
<1> DEFINE S == {i \in 1..Len(snap.entities) : EntityMatches(snap.entities[i], kind)}
           found == InOrder(S)
<1>1. Len(found) \in 0..Len(snap.entities)
  BY InOrderIsShort
<1>2. EntityRows(snap, kind)
        = [i \in 1..Len(found) |-> <<EntityKind(snap.entities[found[i]]), found[i]>>]
  BY DEF EntityRows, Matching
<1> HIDE DEF found
<1> DEFINE Row(i) == <<EntityKind(snap.entities[found[i]]), found[i]>>
<1> HIDE DEF Row
<1> DEFINE rows == [i \in 1..Len(found) |-> Row(i)]
           T == {Row(i) : i \in 1..Len(found)}
<1>3. rows \in Seq(T) /\ Len(rows) = Len(found)
  BY <1>1
<1>4. Holds(rows, Len(snap.entities))
  BY <1>1, <1>3, OverItsMembers DEF Holds
<1> QED
  BY <1>2, <1>4 DEF Row

LEMMA OneAfterTheOther ==
  ASSUME NEW m \in Nat, NEW n \in Nat, NEW a, NEW b, Holds(a, m), Holds(b, n)
  PROVE  Holds(a \o b, m + n)
<1> DEFINE T == Members(a) \cup Members(b)
<1>1. a \in Seq(Members(a)) /\ b \in Seq(Members(b)) /\ Len(a) \in 0..m /\ Len(b) \in 0..n
  BY DEF Holds, IsSequence
<1>2. Members(a) \subseteq T /\ Members(b) \subseteq T
  OBVIOUS
<1> HIDE DEF T
<1>3. a \in Seq(T) /\ b \in Seq(T)
  BY <1>1, <1>2
<1> DEFINE c == a \o b
<1>4. c \in Seq(T) /\ Len(c) = Len(a) + Len(b)
  BY <1>3
<1> HIDE DEF c
<1>5. IsSequence(c)
  BY <1>4, OverItsMembers
<1>6. Len(c) \in 0..(m + n)
  BY <1>1, <1>4
<1> QED
  BY <1>5, <1>6 DEF Holds, c

(* What a section selects, section by section. *)
LEMMA Selects ==
  ASSUME NEW snap, NEW section, NEW args, NEW sel \in Selections(snap, section, args)
  PROVE  \/ /\ section = "enemies"
            /\ \E s \in StatusFilters(args, "alive") :
                 sel = [rows |-> EnemyRows(snap, s), count |-> Len(snap.enemies)]
         \/ /\ section = "entities"
            /\ \E k \in KindFilters(args, "all") : \E s \in StatusFilters(args, "all") :
                 sel = [rows |-> WorldRows(snap, k, s),
                        count |-> Len(snap.enemies) + Len(snap.entities)]
         \/ /\ section = "items"
            /\ \E k \in KindFilters(args, "item") \ {"all", "enemy", "world"} :
                 sel = [rows |-> EntityRows(snap, k), count |-> Len(snap.entities)]
         \/ /\ section = "inventory"
            /\ sel = [rows |-> InventoryRows(snap), count |-> Len(snap.inventory)]
<1> DEFINE enemies ==
             {[rows |-> EnemyRows(snap, s), count |-> Len(snap.enemies)] :
                s \in StatusFilters(args, "alive")}
           World(k, s) ==
             [rows |-> WorldRows(snap, k, s), count |-> Len(snap.enemies) + Len(snap.entities)]
           kinds == KindFilters(args, "all")
           statuses == StatusFilters(args, "all")
           entities == {World(k, s) : k \in kinds, s \in statuses}
           items ==
             {[rows |-> EntityRows(snap, k), count |-> Len(snap.entities)] :
                k \in KindFilters(args, "item") \ {"all", "enemy", "world"}}
           inventory == {[rows |-> InventoryRows(snap), count |-> Len(snap.inventory)]}
<1>1. Selections(snap, section, args)
        = CASE section = "enemies"   -> enemies
            [] section = "entities"  -> entities
            [] section = "items"     -> items
            [] section = "inventory" -> inventory
            [] OTHER                 -> {}
  BY DEF Selections
<1> HIDE DEF enemies, entities, items, inventory
<1>2. \/ section = "enemies" /\ sel \in enemies
      \/ section = "entities" /\ sel \in entities
      \/ section = "items" /\ sel \in items
      \/ section = "inventory" /\ sel \in inventory
  BY <1>1
<1>3. sel \in enemies => \E s \in StatusFilters(args, "alive") :
                           sel = [rows |-> EnemyRows(snap, s), count |-> Len(snap.enemies)]
  BY Zenon DEF enemies
<1>4. sel \in entities => \E k \in kinds : \E s \in statuses : sel = World(k, s)
  <2> HIDE DEF World, kinds, statuses
  <2> QED
    BY DEF entities
<1>5. sel \in items => \E k \in KindFilters(args, "item") \ {"all", "enemy", "world"} :
                         sel = [rows |-> EntityRows(snap, k), count |-> Len(snap.entities)]
  BY Zenon DEF items
<1>6. sel \in inventory => sel = [rows |-> InventoryRows(snap), count |-> Len(snap.inventory)]
  BY Zenon DEF inventory
<1> QED
  BY <1>2, <1>3, <1>4, <1>5, <1>6, Zenon

(* The rows of a selection are no more than its window is clamped to, which is far
   from the width of a size. *)
LEMMA SelectionsFit ==
  ASSUME NEW g, NEW snap \in {Empty} \cup {Captured(g, scene) : scene \in Scenes},
         NEW section, NEW args, NEW sel \in Selections(snap, section, args)
  PROVE  Holds(sel.rows, sel.count) /\ sel.count \in 0..Int64Max
<1> DEFINE e == Len(snap.enemies)  t == Len(snap.entities)  n == Len(snap.inventory)
<1>1. e \in Nat /\ t \in Nat /\ n \in Nat /\ Int64Max \in Nat /\ e + t <= Int64Max /\ n <= Int64Max
  BY ListsAreShort, Widths
<1> HIDE DEF e, t, n
<1>2. Holds(<< >>, 0)
  BY NoMembers DEF Holds
<1>3. ASSUME NEW s PROVE Holds(EnemyRows(snap, s), e)
  BY <1>1, EnemyRowsFit DEF e
<1>4. ASSUME NEW k PROVE Holds(EntityRows(snap, k), t)
  BY <1>1, EntityRowsFit DEF t
<1>5. ASSUME NEW k, NEW s PROVE Holds(WorldRows(snap, k, s), e + t)
  <2> DEFINE first == IF k \in {"all", "enemy"} THEN EnemyRows(snap, s) ELSE << >>
             second == IF k # "enemy" THEN EntityRows(snap, k) ELSE << >>
  <2>1. WorldRows(snap, k, s) = first \o second
    BY DEF WorldRows
  <2>2. Holds(first, e)
    BY <1>1, <1>2, <1>3 DEF Holds
  <2>3. Holds(second, t)
    BY <1>1, <1>2, <1>4 DEF Holds
  <2> HIDE DEF first, second
  <2>4. Holds(first \o second, e + t)
    BY <1>1, <2>2, <2>3, OneAfterTheOther
  <2> QED
    BY <2>1, <2>4
<1>6. Holds(InventoryRows(snap), n)
  <2> DEFINE rows == [i \in 1..n |-> <<"slot", i>>]
             T == {<<"slot", i>> : i \in 1..n}
  <2>1. InventoryRows(snap) = rows
    BY DEF InventoryRows, n
  <2>2. rows \in Seq(T) /\ Len(rows) = n
    BY <1>1
  <2> HIDE DEF rows, T
  <2> QED
    BY <1>1, <2>1, <2>2, OverItsMembers DEF Holds
<1> DEFINE Of(rows, count) == sel = [rows |-> rows, count |-> count]
<1>7. \/ \E s : Of(EnemyRows(snap, s), e)
      \/ \E k : \E s : Of(WorldRows(snap, k, s), e + t)
      \/ \E k : Of(EntityRows(snap, k), t)
      \/ Of(InventoryRows(snap), n)
  BY Selects, Zenon DEF e, t, n
<1>8. ASSUME NEW rows, NEW count, Of(rows, count), Holds(rows, count), count \in 0..Int64Max
      PROVE  Holds(sel.rows, sel.count) /\ sel.count \in 0..Int64Max
  BY <1>8
<1> HIDE DEF Of
<1>9. e \in 0..Int64Max /\ t \in 0..Int64Max /\ n \in 0..Int64Max /\ e + t \in 0..Int64Max
  BY <1>1
<1> QED
  BY <1>3, <1>4, <1>5, <1>6, <1>7, <1>8, <1>9, Zenon

(* A filter that is accepted is one filter. *)
LEMMA OneFilter ==
  ASSUME NEW args, NEW field, NEW default, NEW names,
         NEW a \in Filters(args, field, default, names),
         NEW b \in Filters(args, field, default, names)
  PROVE  a = b
  BY DEF Filters

LEMMA OneSelection ==
  ASSUME NEW snap, NEW section, NEW args, NEW sel \in Selections(snap, section, args)
  PROVE  AllRows(snap, section, args) = sel.rows
<1>1. ASSUME NEW other \in Selections(snap, section, args) PROVE other = sel
  <2>1. \A d : /\ \A a, b \in StatusFilters(args, d) : a = b
               /\ \A a, b \in KindFilters(args, d) : a = b
    BY OneFilter DEF StatusFilters, KindFilters
  <2>2. CASE section = "enemies"
    <3>1. PICK s \in StatusFilters(args, "alive") :
            sel = [rows |-> EnemyRows(snap, s), count |-> Len(snap.enemies)]
      BY <2>2, Selects
    <3>2. PICK s2 \in StatusFilters(args, "alive") :
            other = [rows |-> EnemyRows(snap, s2), count |-> Len(snap.enemies)]
      BY <2>2, Selects
    <3> QED
      BY <2>1, <3>1, <3>2
  <2>3. CASE section = "entities"
    <3> DEFINE Of(k, s) == [rows |-> WorldRows(snap, k, s),
                            count |-> Len(snap.enemies) + Len(snap.entities)]
    <3>1. PICK k \in KindFilters(args, "all") : \E s \in StatusFilters(args, "all") : sel = Of(k, s)
      BY <2>3, Selects
    <3>2. PICK k2 \in KindFilters(args, "all") :
            \E s \in StatusFilters(args, "all") : other = Of(k2, s)
      BY <2>3, Selects
    <3> HIDE DEF Of
    <3> QED
      BY <2>1, <3>1, <3>2
  <2>4. CASE section = "items"
    <3>1. PICK k \in KindFilters(args, "item") :
            sel = [rows |-> EntityRows(snap, k), count |-> Len(snap.entities)]
      BY <2>4, Selects
    <3>2. PICK k2 \in KindFilters(args, "item") :
            other = [rows |-> EntityRows(snap, k2), count |-> Len(snap.entities)]
      BY <2>4, Selects
    <3> QED
      BY <2>1, <3>1, <3>2
  <2>5. CASE section = "inventory"
    <3>1. sel = [rows |-> InventoryRows(snap), count |-> Len(snap.inventory)]
      BY <2>5, Selects
    <3>2. other = [rows |-> InventoryRows(snap), count |-> Len(snap.inventory)]
      BY <2>5, Selects
    <3> QED
      BY <3>1, <3>2
  <2> QED
    BY <2>2, <2>3, <2>4, <2>5, Selects
<1> QED
  BY <1>1 DEF AllRows

(* The clamped window, whose end is computed in the width of a size, shows what the
   unclamped one asks for. *)
LEMMA PageIsAsAsked ==
  ASSUME NEW count \in 0..Int64Max, NEW rows, Holds(rows, count),
         NEW args, AreValues(args), Unsigned(args), NEW window \in Windows(args, count)
  PROVE  /\ Page(rows, window).rows = RowsAsked(rows, args)
         /\ Page(rows, window).returned = Len(Page(rows, window).rows)
         /\ Page(rows, window).total = Len(rows)
         /\ Page(rows, window).status = "ok"
<1> DEFINE N == Len(rows)
           offset == IF "offset" \in DOMAIN args THEN args["offset"][2] ELSE 0
           limit == IF "limit" \in DOMAIN args THEN args["limit"][2] ELSE DefaultLimit
           start == Least(window.offset, N)
           end == Least((start + window.limit) % SizeModulus, N)
<1>1. /\ offset \in Nat /\ limit \in Nat \ {0}
      /\ window = [offset |-> Least(offset, count),
                   limit |-> IF limit > count /\ count > 0 THEN count ELSE limit]
  <2> DEFINE offsets == IF "offset" \in DOMAIN args THEN Sizes(args["offset"]) ELSE {0}
             limits == IF "limit" \in DOMAIN args THEN Sizes(args["limit"]) \ {0} ELSE {DefaultLimit}
  <2>1. \A o \in offsets : o = offset /\ o \in Nat
    BY SizesAreRead, Widths DEF AreValues, Unsigned
  <2>2. \A l \in limits : l = limit /\ l \in Nat \ {0}
    BY SizesAreRead, LimitAssumption, Widths DEF AreValues, Unsigned
  <2> HIDE DEF offset, limit, offsets, limits
  <2>3. PICK o \in offsets, l \in limits :
          window = [offset |-> Least(o, count), limit |-> IF l > count /\ count > 0 THEN count ELSE l]
    BY DEF Windows, offsets, limits
  <2> QED
    BY <2>1, <2>2, <2>3
<1>2. N \in 0..count /\ Int64Max \in Nat /\ SizeModulus = 2 * (Int64Max + 1)
  BY Widths DEF Holds
<1>3. RowsAsked(rows, args) = SubSeq(rows, offset + 1, Least(offset + limit, N))
  BY DEF RowsAsked
<1>4. Page(rows, window) = [status |-> "ok", total |-> N, offset |-> start, limit |-> window.limit,
                            returned |-> end - start, rows |-> SubSeq(rows, start + 1, end)]
  BY DEF Page
<1>5. start = Least(offset, N) /\ start \in 0..N
  BY <1>1, <1>2 DEF Least
<1>6. end = IF offset <= N THEN Least(offset + limit, N) ELSE N
  <2>1. CASE count = 0
    <3> DEFINE past == (start + window.limit) % SizeModulus
    <3>1. N = 0 /\ start = 0 /\ window.limit = limit
      BY <1>1, <1>2, <1>5, <2>1
    <3>2. past \in Nat
      BY <1>1, <1>2, <3>1
    <3> HIDE DEF past
    <3>3. end = 0
      BY <3>1, <3>2 DEF Least, past
    <3> QED
      BY <1>1, <3>1, <3>3 DEF Least
  <2>2. CASE count > 0
    <3> DEFINE a == start + window.limit
    <3>1. window.limit \in 1..count /\ (window.limit = limit \/ (window.limit = count /\ limit > count))
      <4> HIDE DEF limit, offset
      <4>1. window.limit = IF limit > count /\ count > 0 THEN count ELSE limit
        BY <1>1
      <4>2. limit \in Nat \ {0}
        BY <1>1
      <4>3. count \in Nat
        BY <1>2
      <4> QED
        BY <2>2, <4>1, <4>2, <4>3
    <3>2. a \in 0..(SizeModulus - 1)
      BY <1>2, <1>5, <3>1
    <3> HIDE DEF a
    <3>3. a % SizeModulus = a
      BY <1>2, <3>2
    <3>4. end = Least(a, N)
      BY <3>3 DEF a
    <3> HIDE DEF end, offset, limit, N, start
    <3> QED
      BY <1>1, <1>2, <1>5, <2>2, <3>1, <3>4 DEF Least, a
  <2> QED
    BY <2>1, <2>2
<1> HIDE DEF offset, limit, start, end, N
<1>7. end \in start..N
  BY <1>1, <1>2, <1>5, <1>6 DEF Least
<1>8. SubSeq(rows, start + 1, end) = SubSeq(rows, offset + 1, Least(offset + limit, N))
  <2>1. CASE offset <= N
    BY <1>1, <1>2, <1>5, <1>6, <2>1 DEF Least
  <2>2. CASE offset > N
    <3>1. start = N /\ end = N /\ Least(offset + limit, N) = N
      BY <1>1, <1>2, <1>5, <1>6, <2>2 DEF Least
    <3>2. SubSeq(rows, N + 1, N) = << >> /\ SubSeq(rows, offset + 1, N) = << >>
      BY <1>1, <1>2, <2>2, SubSeqEmpty
    <3> QED
      BY <3>1, <3>2
  <2>3. offset <= N \/ offset > N
    BY <1>1, <1>2
  <2> QED
    BY <2>1, <2>2, <2>3, Zenon
<1>9. Len(SubSeq(rows, start + 1, end)) = end - start
  <2> DEFINE T == Members(rows)
  <2>1. rows \in Seq(T)
    BY DEF Holds, IsSequence
  <2> HIDE DEF T
  <2>2. /\ start + 1 \in 1..(Len(rows) + 1) /\ end \in (start + 1) - 1..Len(rows)
    BY <1>2, <1>5, <1>7 DEF N
  <2>3. Len(SubSeq(rows, start + 1, end)) = IF start + 1 <= end THEN end - (start + 1) + 1 ELSE 0
    BY <2>1, <2>2, SubSeqProperties
  <2> QED
    BY <1>2, <1>5, <1>7, <2>3
<1> DEFINE shown == SubSeq(rows, start + 1, end)
<1>10. Page(rows, window) = [status |-> "ok", total |-> N, offset |-> start, limit |-> window.limit,
                             returned |-> end - start, rows |-> shown]
  BY <1>4
<1> HIDE DEF shown
<1>11. /\ Page(rows, window).rows = shown /\ Page(rows, window).returned = end - start
       /\ Page(rows, window).total = N /\ Page(rows, window).status = "ok"
  BY <1>10
<1> QED
  BY <1>3, <1>8, <1>9, <1>11, Zenon DEF N, shown

(* A section that is answered is a page of its rows. *)
LEMMA SectionCovers ==
  ASSUME NEW g, NEW snap \in {Empty} \cup {Captured(g, scene) : scene \in Scenes},
         NEW section, section \notin {"player", "map", "game"},
         NEW args, AreValues(args), Unsigned(args),
         NEW page, page = Section(snap, section, args), page # Refusal
  PROVE  /\ page.rows = RowsAsked(AllRows(snap, section, args), args)
         /\ page.returned = Len(page.rows)
         /\ page.total = Len(AllRows(snap, section, args))
<1> DEFINE pages == UNION {{Page(sel.rows, w) : w \in Windows(args, sel.count)} :
                             sel \in Selections(snap, section, args)}
<1>1. page = IF pages = {} THEN Refusal ELSE CHOOSE p \in pages : TRUE
  BY DEF Section
<1>2. page \in pages
  <2> HIDE DEF pages
  <2> QED
    BY <1>1
<1>3. PICK sel \in Selections(snap, section, args) :
        \E w \in Windows(args, sel.count) : page = Page(sel.rows, w)
  BY <1>2
<1>4. PICK w \in Windows(args, sel.count) : page = Page(sel.rows, w)
  BY <1>3
<1>5. Holds(sel.rows, sel.count) /\ sel.count \in 0..Int64Max
  BY SelectionsFit
<1>6. AllRows(snap, section, args) = sel.rows
  BY OneSelection
<1> QED
  BY <1>4, <1>5, <1>6, PageIsAsAsked

(* Every page that is shown, alone or among others, holds the rows that were asked for,
   whatever the offset and the limit, unless one is negative: clamping the window to the
   snapshot cuts nothing, and its end does not wrap. *)
THEOREM PagesAreAsAsked == Spec => []PagesCover
<1>1. Inv /\ Remembered => PagesCover
  <2> SUFFICES ASSUME Inv, Remembered, answer.status = "ok"
               PROVE  LET call == answer.call
                          result == answer.result
                      IN  /\ call[1] \in DOMAIN SectionTools =>
                               PageCovers(result, SectionTools[call[1]], call[2])
                          /\ call[1] = "get_state" =>
                               PageCovers(result, call[2]["section"][2], call[2])
                          /\ call[1] = "get_state_batch" =>
                               LET requests == call[2]["requests"][2]
                               IN  \A i \in 1..Len(requests) :
                                     result.results[i] # Refusal =>
                                       PageCovers(result.results[i], requests[i][2]["section"][2],
                                                  requests[i][2])
    BY DEF PagesCover
  <2> DEFINE call == answer.call
             result == answer.result
             args == call[2]
  <2>1. /\ call \in Calls /\ answer.seen \in {Empty} \cup {Captured(game, scene) : scene \in Scenes}
        /\ call[1] \in StateTools => result = Reading(answer.seen, call) /\ result.status = "ok"
    BY DEF Remembered, TrueTo, Snapshots
  <2>2. AreValues(args)
    BY <2>1, ValuesAssumption
  <2>3. ASSUME NEW page, page # Refusal, NEW section, NEW asked, AreValues(asked),
               page = Section(answer.seen, section, asked)
        PROVE  PageCovers(page, section, asked)
    <3>1. ASSUME section \notin {"player", "map", "game"}, Unsigned(asked)
          PROVE  /\ page.rows = RowsAsked(AllRows(answer.seen, section, asked), asked)
                 /\ page.returned = Len(page.rows)
                 /\ page.total = Len(AllRows(answer.seen, section, asked))
      <4> DEFINE seen == answer.seen
      <4>1. seen \in {Empty} \cup {Captured(game, scene) : scene \in Scenes}
        BY <2>1
      <4>2. page = Section(seen, section, asked) /\ AreValues(asked) /\ page # Refusal
        BY <2>3
      <4> HIDE DEF seen
      <4>3. /\ page.rows = RowsAsked(AllRows(seen, section, asked), asked)
            /\ page.returned = Len(page.rows)
            /\ page.total = Len(AllRows(seen, section, asked))
        BY <3>1, <4>1, <4>2, SectionCovers
      <4> QED
        BY <4>3 DEF seen
    <3> QED
      BY <3>1 DEF PageCovers, Paged
  <2>4. Refusal.status # "ok"
    BY DEF Refusal
  <2>5. ASSUME call[1] \in DOMAIN SectionTools
        PROVE  PageCovers(result, SectionTools[call[1]], args)
    <3>1. call[1] \in StateTools /\ call[1] \notin {"get_state", "get_state_batch"}
      BY <2>5 DEF StateTools, SectionTools
    <3>2. result = Section(answer.seen, SectionTools[call[1]], args)
      BY <2>1, <3>1 DEF Reading, GetSection
    <3> QED
      BY <2>1, <2>2, <2>3, <2>4, <3>1, <3>2
  <2>6. ASSUME call[1] = "get_state"
        PROVE  PageCovers(result, args["section"][2], args)
    <3>1. result = GetState(answer.seen, args) /\ result # Refusal
      BY <2>1, <2>4, <2>6 DEF Reading, StateTools
    <3>2. result = Section(answer.seen, args["section"][2], args)
      BY <3>1 DEF GetState
    <3> QED
      BY <2>2, <2>3, <3>1, <3>2
  <2>7. ASSUME call[1] = "get_state_batch",
               NEW i \in 1..Len(args["requests"][2]), result.results[i] # Refusal
        PROVE  LET request == args["requests"][2][i]
               IN  PageCovers(result.results[i], request[2]["section"][2], request[2])
    <3> DEFINE requests == args["requests"][2]
               request == requests[i]
    <3>1. result = GetStateBatch(answer.seen, args) /\ result # Refusal
      BY <2>1, <2>4, <2>7 DEF Reading, StateTools
    <3>2. Required(args, "requests", LAMBDA v : v[1] = "array" /\ v[2] # << >>)
      BY <3>1 DEF GetStateBatch
    <3>3. Required(args, "requests", LAMBDA v : v[1] = "array")
      BY <3>2 DEF Required
    <3> DEFINE Answer(r) == IF r[1] = "object" THEN GetState(answer.seen, r[2]) ELSE Refusal
               results == [j \in 1..Len(requests) |-> Answer(requests[j])]
    <3>4. result.results = results
      <4>1. result = [status |-> IF \E j \in DOMAIN results : results[j] # Refusal
                                 THEN "ok" ELSE "error",
                      results |-> results]
        BY <3>1, <3>2 DEF GetStateBatch
      <4> HIDE DEF results
      <4> QED
        BY <4>1
    <3>5. request[1] = "object" /\ result.results[i] = GetState(answer.seen, request[2])
      BY <2>7, <3>4
    <3>6. result.results[i] = Section(answer.seen, request[2]["section"][2], request[2])
      BY <2>7, <3>5 DEF GetState
    <3>7. AreValues(request[2])
      <4>1. request \in Elements(args, "requests")
        BY <3>3 DEF Elements
      <4> QED
        BY <2>1, <3>5, <4>1, ValuesAssumption DEF IsObject
    <3> HIDE DEF request
    <3>8. PageCovers(result.results[i], request[2]["section"][2], request[2])
      BY <2>3, <2>7, <3>6, <3>7
    <3> QED
      BY <3>8 DEF request
  <2> QED
    BY <2>5, <2>6, <2>7
<1> QED
  BY <1>1, Memory, PTL
-----------------------------------------------------------------------------
(* What is offered.                                                        *)

(* The mode commands are checked against. *)
Running(snap) == ResolveGameMode(snap.version, "")

LEMMA ParsedIsAccepted ==
  ASSUME NEW snap, NEW type, NEW args, NEW c \in ParseCommand(type, args), ValidForMode(snap, c)
  PROVE  SingleCall(AllPermissions, snap, type, args) # {}
<1>1. AllPermissions.console /\ AllPermissions.cheats
  BY DEF AllPermissions
<1>2. ToolAllowed(AllPermissions, type) /\ CommandAllowed(AllPermissions, c)
  BY <1>1 DEF ToolAllowed, CommandAllowed
<1> QED
  BY <1>2 DEF SingleCall, Queued

(* A small integer is read as it is written. *)
LEMMA SmallIntegers ==
  ASSUME NEW n \in -Int32Max..Int32Max
  PROVE  /\ IsNumber(<<"int", n>>) /\ Number(<<"int", n>>) = 2 * n /\ n \in Int
         /\ Integers64(<<"int", n>>) = {n}
<1> DEFINE v == <<"int", n>>
<1>1. n \in Int /\ n # Int64Max /\ n >= -Int64Max /\ n < Int64Max + 1 /\ Int64Max \in Nat
  BY Widths
<1>2. v[1] = "int" /\ v[2] = n
  OBVIOUS
<1> HIDE DEF v
<1>3. IsNumber(v) /\ Number(v) = 2 * n
  BY <1>1, <1>2 DEF IsNumber, Number, AsDouble
<1>4. Number(v) % 2 = 0 /\ Number(v) \div 2 = n
  BY <1>1, <1>3, Halving
<1>5. Integers64(v) = {n}
  BY <1>1, <1>3, <1>4 DEF Integers64
<1> QED
  BY <1>1, <1>3, <1>5 DEF v

LEMMA NamesFit ==
  ASSUME NEW name \in AllWeapons \cup AllItems \cup AllEnemies
  PROVE  Fits(<<"string", name>>)
<1>1. name # "" /\ name # TooLong
  BY NamesAssumption DEF AllWeapons, AllItems, AllEnemies, Doom2Enemies
<1> QED
  BY <1>1 DEF Fits, IsFilled, IsString

LEMMA SpawnIsAccepted ==
  ASSUME NEW snap, NEW angle,
         NEW name \in EnemiesOf(Running(snap)) \cup
                      ItemsOf(Running(snap))
  PROVE  SingleCall(AllPermissions, snap, "spawn_entity", SpawnExample(name, angle)) # {}
<1> DEFINE args == SpawnExample(name, angle)
<1>1. /\ DOMAIN args = {"entity_class", "x", "y", "angle"}
      /\ args["entity_class"] = <<"string", name>>
      /\ IsNumber(args["x"]) /\ IsNumber(args["y"]) /\ IsNumber(args["angle"])
  BY DEF SpawnExample, IsNumber
<1> HIDE DEF args
<1>2. Fits(args["entity_class"])
  BY <1>1, NamesFit DEF EnemiesOf, ItemsOf
<1>3. OnlyFields(args, {"entity_class", "x", "y", "angle", "tid"}) /\ Coordinates(args)
      /\ Required(args, "entity_class", Fits)
  BY <1>1, <1>2 DEF OnlyFields, Coordinates, Required, Optional
<1>4. 0 \in OptionalInt(args, "tid", 0) \cap 0..Int32Max
  <2>1. "tid" \notin DOMAIN args
    BY <1>1
  <2> QED
    BY <2>1, Widths DEF OptionalInt
<1> DEFINE class == args["entity_class"][2]
           c == [type |-> "spawn_entity", entity_class |-> class,
                 x |-> Single(args["x"]), y |-> Single(args["y"]), angle |-> Angle(args), tid |-> 0]
<1>5. c \in ParseSpawn(args)
  BY <1>3, <1>4 DEF ParseSpawn
<1>6. c.type = "spawn_entity" /\ c.entity_class = name
  <2>1. class = name
    BY <1>1
  <2> HIDE DEF class
  <2> QED
    BY <2>1
<1> HIDE DEF c
<1>7. c \in ParseCommand("spawn_entity", args) /\ ValidForMode(snap, c)
  <2>1. ValidForMode(snap, c) <=> c.entity_class \in EnemiesOf(Running(snap)) \cup ItemsOf(Running(snap))
    BY <1>6, Zenon DEF ValidForMode, Running
  <2> QED
    BY <1>5, <1>6, <2>1 DEF ParseCommand
<1>8. SingleCall(AllPermissions, snap, "spawn_entity", args) # {}
  BY <1>7, ParsedIsAccepted
<1> QED
  BY <1>8 DEF args

LEMMA GiveIsAccepted ==
  ASSUME NEW snap, NEW name \in ItemsOf(Running(snap)), NEW args,
         DOMAIN args \subseteq {"item_class", "amount"}, "item_class" \in DOMAIN args,
         args["item_class"] = <<"string", name>>,
         NEW n \in 1..50, n \in OptionalInt(args, "amount", 1)
  PROVE  SingleCall(AllPermissions, snap, "give_item", args) # {}
<1>1. Fits(args["item_class"])
  BY NamesFit DEF ItemsOf
<1>2. n \in OptionalInt(args, "amount", 1) \cap 1..AmountMax
  <2>1. AmountMax \in Nat /\ 50 <= AmountMax /\ n \in Nat /\ 1 <= n /\ n <= 50
    BY ExamplesAssumption, Widths
  <2>2. n \in 1..AmountMax
    BY <2>1
  <2> QED
    BY <2>2
<1> DEFINE class == args["item_class"][2]
           c == [type |-> "give_item", item_class |-> class, amount |-> n]
<1>3. c \in ParseGiveItem(args)
  BY <1>1, <1>2 DEF ParseGiveItem, OnlyFields, Required
<1>4. c.type = "give_item" /\ c.item_class = name
  <2>1. class = name
    OBVIOUS
  <2> HIDE DEF class
  <2> QED
    BY <2>1
<1> HIDE DEF c
<1>5. c \in ParseCommand("give_item", args) /\ ValidForMode(snap, c)
  <2>1. ValidForMode(snap, c) <=> c.item_class \in ItemsOf(Running(snap))
    BY <1>4, Zenon DEF ValidForMode, Running
  <2> QED
    BY <1>3, <1>4, <2>1 DEF ParseCommand
<1> QED
  BY <1>5, ParsedIsAccepted

LEMMA LevelIsAccepted ==
  ASSUME NEW snap, NEW map, MapIsAvailable(map, snap.maps, Running(snap)),
         NEW args, DOMAIN args \subseteq {"map_name", "skill_level", "reset_inventory"},
         "map_name" \in DOMAIN args, args["map_name"] = <<"map", map>>,
         3 \in OptionalInt(args, "skill_level", 3),
         "reset_inventory" \in DOMAIN args => args["reset_inventory"][1] = "bool"
  PROVE  SingleCall(AllPermissions, snap, "change_level", args) # {}
<1> DEFINE level == args["map_name"][2]
           reset == "reset_inventory" \in DOMAIN args /\ args["reset_inventory"][2]
           c == [type |-> "change_level", map_name |-> level, skill_level |-> 3,
                 reset_inventory |-> reset]
<1>1. c \in ParseChangeLevel(args)
  <2>1. /\ OnlyFields(args, {"map_name", "skill_level", "reset_inventory"})
        /\ Required(args, "map_name", IsMapName)
        /\ Optional(args, "reset_inventory", LAMBDA v : v[1] = "bool")
    BY DEF OnlyFields, Required, Optional, IsMapName
  <2>2. 3 \in OptionalInt(args, "skill_level", 3) \cap 1..5
    OBVIOUS
  <2>3. ParseChangeLevel(args)
          = {[type |-> "change_level", map_name |-> level, skill_level |-> s,
              reset_inventory |-> reset] : s \in OptionalInt(args, "skill_level", 3) \cap 1..5}
    BY <2>1 DEF ParseChangeLevel
  <2> HIDE DEF level, reset
  <2> QED
    BY <2>2, <2>3
<1>2. c.type = "change_level" /\ c.map_name = map
  <2>1. level = map
    OBVIOUS
  <2> HIDE DEF level, reset
  <2> QED
    BY <2>1
<1> HIDE DEF c
<1>3. c \in ParseCommand("change_level", args) /\ ValidForMode(snap, c)
  <2>1. ValidForMode(snap, c) <=> MapIsAvailable(c.map_name, snap.maps, Running(snap))
    BY <1>2, Zenon DEF ValidForMode, Running
  <2> QED
    BY <1>1, <1>2, <2>1 DEF ParseCommand
<1> QED
  BY <1>3, ParsedIsAccepted

(* The names a catalogue lists are names the running mode accepts. *)
LEMMA CatalogueIsAccepted ==
  ASSUME NEW snap, NEW mode, mode = Running(snap),
         NEW scope \in Scopes \ {"all"}, NEW name \in ScopeNames(scope, snap.maps, mode)
  PROVE  SingleCall(AllPermissions, snap, NamedIn(scope), Naming(NamedIn(scope), name)) # {}
<1>1. CASE scope \in {"enemies", "entities"}
  <2>1. NamedIn(scope) = "spawn_entity"
    BY <1>1 DEF NamedIn
  <2>2. Naming("spawn_entity", name) = SpawnExample(name, 0)
    BY DEF Naming
  <2>3. WeaponsOf(mode) \subseteq ItemsOf(mode)
    BY DEF WeaponsOf, ItemsOf, RestrictedItems, AllWeapons
  <2>4. name \in EnemiesOf(mode) \cup ItemsOf(mode)
    BY <1>1, <2>3 DEF ScopeNames
  <2> QED
    BY <2>1, <2>2, <2>4, SpawnIsAccepted
<1>2. CASE scope = "maps"
  <2>1. NamedIn(scope) = "change_level"
    BY <1>2 DEF NamedIn
  <2> DEFINE args == Naming("change_level", name)
  <2>2. args = [map_name |-> <<"map", name>>]
    BY DEF Naming
  <2>3. DOMAIN args = {"map_name"} /\ args["map_name"] = <<"map", name>>
    <3> HIDE DEF args
    <3> QED
      BY <2>2
  <2>4. Doom1Maps \cap Doom2Maps = {}
    <3>1. 0 \notin Episodes
      BY EpisodesAssumption
    <3> QED
      BY <3>1 DEF Doom1Maps, Doom2Maps
  <2>5. MapIsAvailable(name, snap.maps, mode)
    BY <1>2, <2>4 DEF ScopeNames, CatalogMaps, MapIsAvailable, MapsOf, RestrictedMaps
  <2>6. 3 \in OptionalInt(args, "skill_level", 3)
    BY <2>3 DEF OptionalInt
  <2> HIDE DEF args
  <2>7. SingleCall(AllPermissions, snap, "change_level", args) # {}
    BY <2>3, <2>5, <2>6, LevelIsAccepted
  <2> QED
    BY <2>1, <2>7 DEF args
<1>3. CASE scope \notin {"enemies", "entities", "maps"}
  <2>1. NamedIn(scope) = "give_item"
    BY <1>3 DEF NamedIn
  <2> DEFINE args == Naming("give_item", name)
  <2>2. args = [item_class |-> <<"string", name>>]
    BY DEF Naming
  <2>3. DOMAIN args = {"item_class"} /\ args["item_class"] = <<"string", name>>
    <3> HIDE DEF args
    <3> QED
      BY <2>2
  <2>4. WeaponsOf(mode) \subseteq ItemsOf(mode)
    BY DEF WeaponsOf, ItemsOf, RestrictedItems, AllWeapons
  <2>5. name \in ItemsOf(mode)
    BY <1>3, <2>4 DEF ScopeNames, Scopes
  <2>6. 1 \in OptionalInt(args, "amount", 1)
    BY <2>3 DEF OptionalInt
  <2> HIDE DEF args
  <2>7. SingleCall(AllPermissions, snap, "give_item", args) # {}
    <3>1. 1 \in 1..50
      OBVIOUS
    <3> QED
      BY <2>3, <2>5, <2>6, <3>1, GiveIsAccepted
  <2> QED
    BY <2>1, <2>7 DEF args
<1> QED
  BY <1>1, <1>2, <1>3

(* A mode that is asked for counts only where the engine published none. *)
LEMMA PublishedModeRuns ==
  ASSUME NEW snap, NEW requested, ModeOf(snap.version) # "" \/ ModeOf(requested) = ""
  PROVE  /\ ResolveGameMode(snap.version, requested) = Running(snap)
         /\ ModeOf(snap.version) # "" => Running(snap) = ModeOf(snap.version)
<1>1. ModeOf("") = ""
  BY Zenon DEF ModeOf, Modes
<1>2. ModeOf(snap.version) # "" => Running(snap) = ModeOf(snap.version)
  BY Zenon DEF Running, ResolveGameMode
<1>3. ModeOf(snap.version) = "" => Running(snap) = "retail"
  BY <1>1, Zenon DEF Running, ResolveGameMode
<1>4. ModeOf(snap.version) # "" =>
        ResolveGameMode(snap.version, requested) = ModeOf(snap.version)
  BY Zenon DEF ResolveGameMode
<1>5. ModeOf(snap.version) = "" => ResolveGameMode(snap.version, requested) = "retail"
  BY Zenon DEF ResolveGameMode
<1> QED
  BY <1>2, <1>3, <1>4, <1>5, Zenon

(* Commands that name nothing of the game are accepted in any. *)
LEMMA NamelessIsAccepted ==
  ASSUME NEW snap, NEW type, NEW args, NEW c \in ParseCommand(type, args),
         c.type \notin {"spawn_entity", "give_item", "change_level"}
  PROVE  SingleCall(AllPermissions, snap, type, args) # {}
<1>1. ValidForMode(snap, c)
  BY Zenon DEF ValidForMode
<1> QED
  BY <1>1, ParsedIsAccepted

LEMMA SpawnExamplesAreAccepted ==
  ASSUME NEW snap, Running(snap) \in {"registered", "retail"}, NEW angle,
         NEW name \in {"DoomImp", "Medikit"}
  PROVE  SingleCall(AllPermissions, snap, "spawn_entity", SpawnExample(name, angle)) # {}
<1>1. RestrictedEnemies(Running(snap)) = Doom2Enemies
  BY DEF RestrictedEnemies
<1>2. RestrictedItems(Running(snap)) = {"SuperShotgun", "MegaSphere"}
  BY DEF RestrictedItems, RestrictedWeapons
<1>3. "DoomImp" \in EnemiesOf(Running(snap)) /\ "Medikit" \in ItemsOf(Running(snap))
  BY <1>1, <1>2 DEF EnemiesOf, AllEnemies, Doom2Enemies, ItemsOf, AllItems
<1> QED
  BY <1>3, SpawnIsAccepted

LEMMA GiveExamplesAreAccepted ==
  ASSUME NEW snap, Running(snap) \in {"registered", "retail"}, NEW n \in 1..50,
         NEW name \in {"Shotgun", "Medikit", "BlueArmor", "Invulnerability", "Clip",
                       "RocketAmmo", "Shells", "Cell"}
  PROVE  SingleCall(AllPermissions, snap, "give_item", GiveExample(name, n)) # {}
<1>1. RestrictedItems(Running(snap)) = {"SuperShotgun", "MegaSphere"}
  BY DEF RestrictedItems, RestrictedWeapons
<1>2. name \in ItemsOf(Running(snap))
  BY <1>1 DEF ItemsOf, AllItems, AllWeapons
<1> DEFINE args == GiveExample(name, n)
<1>3. args = [item_class |-> <<"string", name>>, amount |-> <<"int", n>>]
  BY DEF GiveExample
<1> HIDE DEF args
<1>4. /\ DOMAIN args = {"item_class", "amount"} /\ args["item_class"] = <<"string", name>>
      /\ args["amount"] = <<"int", n>>
  BY <1>3
<1>5. n \in -Int32Max..Int32Max
  BY ExamplesAssumption, Widths
<1>6. n \in OptionalInt(args, "amount", 1)
  BY <1>4, <1>5, SmallIntegers DEF OptionalInt
<1>7. SingleCall(AllPermissions, snap, "give_item", args) # {}
  BY <1>2, <1>4, <1>6, GiveIsAccepted
<1> QED
  BY <1>7 DEF args

LEMMA TargetExamplesAreAccepted ==
  ASSUME NEW snap
  PROVE  /\ SingleCall(AllPermissions, snap, "damage_entity",
                       [target_tid |-> <<"int", 42>>, damage |-> <<"int", 50>>,
                        damage_type |-> <<"string", "custom">>]) # {}
         /\ SingleCall(AllPermissions, snap, "kill_entity", [target_tid |-> <<"int", 42>>]) # {}
<1>1. 42 \in -Int32Max..Int32Max /\ 50 \in -Int32Max..Int32Max /\ 42 \in 0..Int32Max
  BY ExamplesAssumption, Widths
<1> DEFINE tid == <<"int", 42>>  damage == <<"int", 50>>  kind == <<"string", "custom">>
<1>2. Integers64(tid) = {42} /\ IsNumber(damage) /\ Number(damage) >= 2
  BY <1>1, SmallIntegers
<1>3. Fits(kind)
  BY ExamplesAssumption DEF Fits, IsFilled, IsString
<1> HIDE DEF tid, damage, kind
<1>4. SingleCall(AllPermissions, snap, "damage_entity",
                 [target_tid |-> tid, damage |-> damage, damage_type |-> kind]) # {}
  <2> DEFINE args == [target_tid |-> tid, damage |-> damage, damage_type |-> kind]
  <2>1. /\ DOMAIN args = {"target_tid", "damage", "damage_type"}
        /\ args["target_tid"] = tid /\ args["damage"] = damage /\ args["damage_type"] = kind
    OBVIOUS
  <2> HIDE DEF args
  <2>2. /\ OnlyFields(args, {"target_tid", "damage", "damage_type"})
        /\ Required(args, "damage", LAMBDA v : IsNumber(v) /\ Number(v) >= 2)
        /\ Optional(args, "damage_type", Fits)
    BY <1>2, <1>3, <2>1 DEF OnlyFields, Required, Optional
  <2>3. 42 \in {n \in RequiredInt(args, "target_tid") : n >= 0}
    BY <1>2, <2>1 DEF RequiredInt
  <2> DEFINE cut == Clamp(Number(args["damage"]) \div 2, 1, DamageMax)
             c == [type |-> "damage_entity", target_tid |-> DamageTarget(42), damage |-> cut]
  <2>4. c \in ParseDamage(args)
    BY <2>2, <2>3 DEF ParseDamage
  <2>5. c.type = "damage_entity"
    <3> HIDE DEF cut
    <3> QED
      OBVIOUS
  <2> HIDE DEF c
  <2>6. c \in ParseCommand("damage_entity", args)
    BY <2>4 DEF ParseCommand
  <2>7. SingleCall(AllPermissions, snap, "damage_entity", args) # {}
    BY <2>5, <2>6, NamelessIsAccepted
  <2> QED
    BY <2>7 DEF args
<1>5. SingleCall(AllPermissions, snap, "kill_entity", [target_tid |-> tid]) # {}
  <2> DEFINE args == [target_tid |-> tid]
  <2>1. DOMAIN args = {"target_tid"} /\ args["target_tid"] = tid
    OBVIOUS
  <2> HIDE DEF args
  <2> DEFINE c == [type |-> "kill_entity", target_tid |-> 42]
  <2>2. c \in ParseKill(args)
    BY <1>1, <1>2, <2>1 DEF ParseKill, OnlyFields, KillTarget, RequiredInt
  <2>3. c.type = "kill_entity"
    OBVIOUS
  <2> HIDE DEF c
  <2>4. c \in ParseCommand("kill_entity", args)
    BY <2>2 DEF ParseCommand
  <2>5. SingleCall(AllPermissions, snap, "kill_entity", args) # {}
    BY <2>3, <2>4, NamelessIsAccepted
  <2> QED
    BY <2>5 DEF args
<1> QED
  BY <1>4, <1>5 DEF tid, damage, kind

LEMMA PlayerExamplesAreAccepted ==
  ASSUME NEW snap
  PROVE  /\ SingleCall(AllPermissions, snap, "set_player_health", [health |-> <<"int", 100>>]) # {}
         /\ SingleCall(AllPermissions, snap, "set_player_position",
                       [x |-> <<"int", 1000>>, y |-> <<"int", -500>>, angle |-> <<"int", 0>>]) # {}
         /\ SingleCall(AllPermissions, snap, "execute_console",
                       [command |-> <<"text", <<<<"god", FALSE>>>>>>]) # {}
         /\ SingleCall(AllPermissions, snap, "pause_game", [paused |-> <<"bool", TRUE>>]) # {}
<1>1. SingleCall(AllPermissions, snap, "set_player_health", [health |-> <<"int", 100>>]) # {}
  <2> DEFINE v == <<"int", 100>>
  <2>1. IsNumber(v) /\ Number(v) > 0
    BY Widths DEF IsNumber, Number, AsDouble
  <2> HIDE DEF v
  <2> DEFINE args == [health |-> v]
  <2>2. DOMAIN args = {"health"} /\ args["health"] = v
    OBVIOUS
  <2> HIDE DEF args
  <2> DEFINE cut == Clamp(Number(args["health"]) \div 2, 1, MaxHealth)
             c == [type |-> "set_player_health", health |-> cut]
  <2>3. c \in ParseSetHealth(args)
    BY <2>1, <2>2 DEF ParseSetHealth, OnlyFields, Required
  <2>4. c.type = "set_player_health"
    <3> HIDE DEF cut
    <3> QED
      OBVIOUS
  <2> HIDE DEF c
  <2>5. c \in ParseCommand("set_player_health", args)
    BY <2>3 DEF ParseCommand
  <2>6. SingleCall(AllPermissions, snap, "set_player_health", args) # {}
    BY <2>4, <2>5, NamelessIsAccepted
  <2> QED
    BY <2>6 DEF args, v
<1>2. SingleCall(AllPermissions, snap, "set_player_position",
                 [x |-> <<"int", 1000>>, y |-> <<"int", -500>>, angle |-> <<"int", 0>>]) # {}
  <2> DEFINE x == <<"int", 1000>>  y == <<"int", -500>>  angle == <<"int", 0>>
  <2>1. IsNumber(x) /\ IsNumber(y) /\ IsNumber(angle)
    BY DEF IsNumber
  <2> HIDE DEF x, y, angle
  <2> DEFINE args == [x |-> x, y |-> y, angle |-> angle]
  <2>2. DOMAIN args = {"x", "y", "angle"} /\ args["x"] = x /\ args["y"] = y /\ args["angle"] = angle
    OBVIOUS
  <2> HIDE DEF args
  <2> DEFINE nx == Single(args["x"])  ny == Single(args["y"])  turn == Angle(args)
             c == [type |-> "set_player_position", x |-> nx, y |-> ny, angle |-> turn]
  <2>3. c \in ParseSetPosition(args)
    BY <2>1, <2>2 DEF ParseSetPosition, OnlyFields, Coordinates, Required, Optional
  <2>4. c.type = "set_player_position"
    <3> HIDE DEF nx, ny, turn
    <3> QED
      OBVIOUS
  <2> HIDE DEF c
  <2>5. c \in ParseCommand("set_player_position", args)
    BY <2>3 DEF ParseCommand
  <2>6. SingleCall(AllPermissions, snap, "set_player_position", args) # {}
    BY <2>4, <2>5, NamelessIsAccepted
  <2> QED
    BY <2>6 DEF args, x, y, angle
<1>3. SingleCall(AllPermissions, snap, "execute_console",
                 [command |-> <<"text", <<<<"god", FALSE>>>>>>]) # {}
  <2> DEFINE line == <<<<"god", FALSE>>>>
             v == <<"text", line>>
  <2>1. v[1] = "text" /\ v # <<"string", "">> /\ v # <<"string", TooLong>>
    <3> HIDE DEF line
    <3> QED
      BY Zenon
  <2>2. Fits(v)
    BY <2>1, Zenon DEF Fits, IsFilled, IsString
  <2> HIDE DEF v
  <2> DEFINE args == [command |-> v]
  <2>3. DOMAIN args = {"command"} /\ args["command"] = v
    OBVIOUS
  <2> HIDE DEF args
  <2> DEFINE text == args["command"][2]
             c == [type |-> "execute_console", command |-> text]
  <2>4. c \in ParseConsole(args)
    BY <2>2, <2>3 DEF ParseConsole, OnlyFields, Required
  <2>5. c.type = "execute_console"
    <3> HIDE DEF text
    <3> QED
      OBVIOUS
  <2> HIDE DEF c
  <2>6. c \in ParseCommand("execute_console", args)
    BY <2>4 DEF ParseCommand
  <2>7. SingleCall(AllPermissions, snap, "execute_console", args) # {}
    BY <2>5, <2>6, NamelessIsAccepted
  <2> QED
    BY <2>7 DEF args, v
<1>4. SingleCall(AllPermissions, snap, "pause_game", [paused |-> <<"bool", TRUE>>]) # {}
  <2> DEFINE v == <<"bool", TRUE>>
  <2>1. v[1] = "bool"
    OBVIOUS
  <2> HIDE DEF v
  <2> DEFINE args == [paused |-> v]
  <2>2. DOMAIN args = {"paused"} /\ args["paused"] = v
    OBVIOUS
  <2> HIDE DEF args
  <2> DEFINE paused == args["paused"][2]
             c == [type |-> "pause_game", paused |-> paused]
  <2>3. c \in ParsePause(args)
    BY <2>1, <2>2 DEF ParsePause, OnlyFields, Required
  <2>4. c.type = "pause_game"
    <3> HIDE DEF paused
    <3> QED
      OBVIOUS
  <2> HIDE DEF c
  <2>5. c \in ParseCommand("pause_game", args)
    BY <2>3 DEF ParseCommand
  <2>6. SingleCall(AllPermissions, snap, "pause_game", args) # {}
    BY <2>4, <2>5, NamelessIsAccepted
  <2> QED
    BY <2>6 DEF args, v
<1> QED
  BY <1>1, <1>2, <1>3, <1>4

LEMMA LevelExampleIsAccepted ==
  ASSUME NEW snap, MapIsAvailable(<<1, 2>>, snap.maps, Running(snap))
  PROVE  SingleCall(AllPermissions, snap, "change_level",
                    [map_name |-> <<"map", <<1, 2>>>>, skill_level |-> <<"int", 3>>,
                     reset_inventory |-> <<"bool", FALSE>>]) # {}
<1> DEFINE map == <<1, 2>>  named == <<"map", map>>  skill == <<"int", 3>>  reset == <<"bool", FALSE>>
           args == [map_name |-> named, skill_level |-> skill, reset_inventory |-> reset]
<1>1. 3 \in Integers64(skill)
  <2>1. 3 \in -Int32Max..Int32Max
    BY Widths
  <2> QED
    BY <2>1, SmallIntegers
<1>2. reset[1] = "bool"
  OBVIOUS
<1> HIDE DEF map, skill, reset
<1>3. /\ DOMAIN args = {"map_name", "skill_level", "reset_inventory"}
      /\ args["map_name"] = <<"map", map>> /\ args["skill_level"] = skill
      /\ args["reset_inventory"] = reset
  OBVIOUS
<1> HIDE DEF args
<1>4. 3 \in OptionalInt(args, "skill_level", 3)
  BY <1>1, <1>3 DEF OptionalInt
<1>5. MapIsAvailable(map, snap.maps, Running(snap))
  BY DEF map
<1>6. SingleCall(AllPermissions, snap, "change_level", args) # {}
  BY <1>2, <1>3, <1>4, <1>5, LevelIsAccepted
<1> QED
  BY <1>6 DEF args, map, skill, reset

(* Every example is accepted where its map is. *)
LEMMA ExamplesAreAccepted ==
  ASSUME NEW snap, Running(snap) \in {"registered", "retail"},
         MapIsAvailable(<<1, 2>>, snap.maps, Running(snap)), NEW example \in CommandExamples
  PROVE  SingleCall(AllPermissions, snap, example[1], example[2]) # {}
<1>1. CASE example \in SpawnExamples
  BY <1>1, SpawnExamplesAreAccepted DEF SpawnExamples
<1>2. CASE example \in GiveExamples
  <2>1. PICK name \in {"Shotgun", "Medikit", "BlueArmor", "Invulnerability", "Clip", "RocketAmmo",
                       "Shells", "Cell"}, n \in {1, 10, 20, 50} :
          example = <<"give_item", GiveExample(name, n)>>
    BY <1>2 DEF GiveExamples
  <2>2. n \in 1..50
    BY <2>1
  <2>3. SingleCall(AllPermissions, snap, "give_item", GiveExample(name, n)) # {}
    BY <2>2, GiveExamplesAreAccepted
  <2> QED
    BY <2>1, <2>3
<1> DEFINE damage == [target_tid |-> <<"int", 42>>, damage |-> <<"int", 50>>,
                      damage_type |-> <<"string", "custom">>]
           kill == [target_tid |-> <<"int", 42>>]
           level == [map_name |-> <<"map", <<1, 2>>>>, skill_level |-> <<"int", 3>>,
                     reset_inventory |-> <<"bool", FALSE>>]
           health == [health |-> <<"int", 100>>]
           position == [x |-> <<"int", 1000>>, y |-> <<"int", -500>>, angle |-> <<"int", 0>>]
           console == [command |-> <<"text", <<<<"god", FALSE>>>>>>]
           pause == [paused |-> <<"bool", TRUE>>]
           others == {<<"damage_entity", damage>>, <<"kill_entity", kill>>, <<"change_level", level>>,
                      <<"set_player_health", health>>, <<"set_player_position", position>>,
                      <<"execute_console", console>>, <<"pause_game", pause>>}
           Accepted(tool, args) == SingleCall(AllPermissions, snap, tool, args) # {}
<1>3. CASE example \in others
  <2>1. /\ Accepted("damage_entity", damage) /\ Accepted("kill_entity", kill)
        /\ Accepted("change_level", level) /\ Accepted("set_player_health", health)
        /\ Accepted("set_player_position", position) /\ Accepted("execute_console", console)
        /\ Accepted("pause_game", pause)
    <3>1. Accepted("damage_entity", damage) /\ Accepted("kill_entity", kill)
      BY TargetExamplesAreAccepted
    <3>2. Accepted("change_level", level)
      BY LevelExampleIsAccepted
    <3>3. Accepted("set_player_health", health) /\ Accepted("set_player_position", position)
      BY PlayerExamplesAreAccepted
    <3>4. Accepted("execute_console", console) /\ Accepted("pause_game", pause)
      BY PlayerExamplesAreAccepted
    <3> HIDE DEF damage, kill, level, health, position, console, pause, Accepted
    <3> QED
      BY <3>1, <3>2, <3>3, <3>4
  <2> HIDE DEF damage, kill, level, health, position, console, pause, Accepted
  <2>2. Accepted(example[1], example[2])
    BY <1>3, <2>1
  <2> QED
    BY <2>2 DEF Accepted
<1>4. CommandExamples = SpawnExamples \cup GiveExamples \cup others
  BY DEF CommandExamples
<1> HIDE DEF others
<1> QED
  BY <1>1, <1>2, <1>3, <1>4

LEMMA InputExamplesAreAccepted ==
  ASSUME NEW args \in InputExamples PROVE ParsePlayerInput(args) # {}
<1>1. ASSUME NEW a \in Moves, args = [action |-> <<"string", a>>] PROVE ParsePlayerInput(args) # {}
  <2>1. DOMAIN args = {"action"} /\ args["action"] = <<"string", a>>
    BY <1>1
  <2>2. args["action"] \in {<<"string", m>> : m \in Moves} /\ args["action"] # <<"string", "aim">>
        /\ args["action"] # <<"string", "weapon">>
    BY <2>1 DEF Moves
  <2> QED
    BY <2>1, <2>2 DEF ParsePlayerInput, OnlyFields
<1>2. ASSUME NEW a \in {"aim", "weapon"}, NEW v, v = <<"int", IF a = "aim" THEN 90 ELSE 3>>,
             args = [action |-> <<"string", a>>, value |-> v]
      PROVE  ParsePlayerInput(args) # {}
  <2>1. DOMAIN args = {"action", "value"} /\ args["action"] = <<"string", a>> /\ args["value"] = v
    BY <1>2
  <2>2. args["action"] \notin {<<"string", m>> : m \in Moves}
    BY <2>1 DEF Moves
  <2>3. IsNumber(v)
    BY <1>2 DEF IsNumber
  <2>4. a = "weapon" => 3 \in RequiredInt(args, "value") \cap 1..7
    <3>1. 3 \in -Int32Max..Int32Max
      BY Widths
    <3> QED
      BY <1>2, <2>1, <3>1, SmallIntegers DEF RequiredInt
  <2> DEFINE action == args["action"]
             angle == AsFloat(Number(args["value"]) % (2 * FullTurn))
             slots == RequiredInt(args, "value") \cap 1..7
  <2>5. OnlyFields(args, {"action", "value"}) /\ "action" \in DOMAIN args
        /\ Required(args, "value", IsNumber)
    BY <2>1, <2>3 DEF OnlyFields, Required
  <2>6. CASE a = "aim"
    <3>1. action = <<"string", "aim">>
      BY <2>1, <2>6
    <3> HIDE DEF action, angle
    <3>2. ParsePlayerInput(args) = {[type |-> "player_input", action |-> "aim", angle |-> angle]}
      BY <2>2, <2>5, <3>1 DEF ParsePlayerInput, action, angle
    <3> QED
      BY <3>2
  <2>7. CASE a = "weapon"
    <3>1. action = <<"string", "weapon">> /\ action # <<"string", "aim">>
      BY <2>1, <2>7
    <3> HIDE DEF action, slots
    <3>2. ParsePlayerInput(args) =
            {[type |-> "player_input", action |-> "weapon", slot |-> s] : s \in slots}
      BY <2>2, <2>5, <3>1 DEF ParsePlayerInput, action, slots
    <3>3. slots # {}
      BY <2>4, <2>7 DEF slots
    <3> QED
      BY <3>2, <3>3
  <2> QED
    BY <2>6, <2>7
<1>3. \/ \E a \in Moves : args = [action |-> <<"string", a>>]
      \/ args = [action |-> <<"string", "aim">>, value |-> <<"int", 90>>]
      \/ args = [action |-> <<"string", "weapon">>, value |-> <<"int", 3>>]
  BY Zenon DEF InputExamples
<1> QED
  BY <1>1, <1>2, <1>3

(* All snapshots of a game have its mode and its maps. *)
LEMMA SameGame ==
  ASSUME NEW snap \in Snapshots
  PROVE  snap.version = game.version /\ snap.maps = game.maps
<1>1. ASSUME NEW scene \in Scenes
      PROVE  Captured(game, scene).version = game.version /\ Captured(game, scene).maps = game.maps
  BY DEF Captured
<1> QED
  BY <1>1 DEF Snapshots

(* Whatever is published after a catalogue was read, an agent that calls what it offers
   is served, in every game and every mode; and so are the examples. *)
THEOREM OffersAreKept == Spec => []OfferedIsAccepted
<1>1. Inv /\ Remembered => OfferedIsAccepted
  <2> SUFFICES ASSUME Inv, Remembered, answer.status = "ok"
               PROVE  /\ answer.call[1] \in DOMAIN CatalogScopes /\ FromEngine =>
                           \A scope \in DOMAIN answer.result.names :
                             \A name \in answer.result.names[scope] :
                               SingleCall(AllPermissions, snapshot, NamedIn(scope),
                                          Naming(NamedIn(scope), name)) # {}
                      /\ answer.call[1] = "get_command_examples" =>
                           /\ \A args \in InputExamples : ParsePlayerInput(args) # {}
                           /\ ModeOf(snapshot.version) \in {"registered", "retail"} =>
                                \A example \in CommandExamples :
                                  SingleCall(AllPermissions, snapshot, example[1], example[2]) # {}
    BY DEF OfferedIsAccepted
  <2> DEFINE tool == answer.call[1]
             requested == RequestedMode(answer.call[2])
             mode == Running(snapshot)
  <2>1. ASSUME tool \in DOMAIN CatalogScopes, FromEngine,
               NEW scope \in DOMAIN answer.result.names, NEW name \in answer.result.names[scope]
        PROVE  SingleCall(AllPermissions, snapshot, NamedIn(scope), Naming(NamedIn(scope), name)) # {}
    <3>1. answer.seen # Empty /\ answer.seen \in Snapshots /\ snapshot \in Snapshots
      BY <2>1 DEF Remembered, FromEngine
    <3>2. answer.seen.version = snapshot.version /\ answer.seen.maps = snapshot.maps
      BY <3>1, SameGame
    <3>3. ModeOf(answer.seen.version) # "" \/ ModeOf(requested) = ""
      BY <2>1, Zenon DEF FromEngine
    <3>4. ResolveGameMode(answer.seen.version, requested) = mode
      BY <3>2, <3>3, PublishedModeRuns, Zenon DEF Running
    <3>5. answer.result = Catalogue(answer.seen, tool, answer.call[2])
      BY <2>1 DEF Remembered, TrueTo
    <3>6. answer.result.names = Catalog(CatalogScopes[tool], snapshot.maps, mode)
      BY <3>2, <3>4, <3>5 DEF Catalogue
    <3>7. CatalogScopes[tool] \in Scopes
      BY <2>1 DEF CatalogScopes, Scopes
    <3> HIDE DEF mode, tool
    <3>8. /\ scope \in Scopes \ {"all"}
          /\ answer.result.names[scope] = ScopeNames(scope, snapshot.maps, mode)
      BY <2>1, <3>6, <3>7 DEF Catalog
    <3> QED
      BY <2>1, <3>8, CatalogueIsAccepted DEF mode
  <2>2. ASSUME ModeOf(snapshot.version) \in {"registered", "retail"}, NEW example \in CommandExamples
        PROVE  SingleCall(AllPermissions, snapshot, example[1], example[2]) # {}
    <3>1. mode = ModeOf(snapshot.version)
      <4>1. ModeOf(snapshot.version) # ""
        BY <2>2, Zenon
      <4> QED
        BY <4>1, PublishedModeRuns, Zenon
    <3>2. snapshot # Empty
      <4>1. ModeOf(Empty.version) \notin {"registered", "retail"}
        BY DEF ModeOf, Modes, Empty
      <4> QED
        BY <2>2, <4>1
    <3>3. snapshot.maps = game.maps /\ snapshot.version = game.version /\ game \in Games
      <4>1. snapshot \in Snapshots /\ game \in Games
        BY <3>2 DEF Inv, TypeOK, Snapshots
      <4> QED
        BY <4>1, SameGame
    <3>4. snapshot.maps # {} => <<1, 2>> \in snapshot.maps
      BY <2>2, <3>3, ExamplesAssumption
    <3>5. <<1, 2>> \in MapsOf(mode)
      <4>1. <<1, 2>> \in Doom1Maps
        BY ExamplesAssumption DEF Doom1Maps
      <4>2. <<1, 2>> \notin Doom2Maps
        BY DEF Doom2Maps
      <4>3. <<1, 2>> \notin RestrictedMaps(mode)
        BY <2>2, <3>1, <4>2 DEF RestrictedMaps
      <4> QED
        BY <4>1, <4>3 DEF MapsOf
    <3>6. MapIsAvailable(<<1, 2>>, snapshot.maps, mode)
      BY <3>4, <3>5 DEF MapIsAvailable
    <3> QED
      BY <2>2, <3>1, <3>6, ExamplesAreAccepted
  <2> QED
    BY <2>1, <2>2, InputExamplesAreAccepted
<1> QED
  BY <1>1, Memory, PTL
=============================================================================
