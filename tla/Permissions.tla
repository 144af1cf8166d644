---------------------------- MODULE Permissions ----------------------------
(***************************************************************************)
(* What the two permissions of a server, console and cheats, let through   *)
(* (permissions.cpp): once by the name of a tool, and once more by the     *)
(* command itself when it is pushed.  A console line is a sequence of      *)
(* words and runs of blanks; a word is <<letters, capitals>>, where        *)
(* capitals says whether some of its letters are upper case.               *)
(***************************************************************************)
EXTENDS Naturals, Sequences, FiniteSets

Blank == <<"blank", FALSE>>

(* The places of the words in the first i places of a line. *)
WordsUpTo(text, i) == {j \in 1..i : text[j] # Blank}

(* The k-th word of a line. *)
Word(text, k) ==
  text[CHOOSE i \in WordsUpTo(text, Len(text)) : Cardinality(WordsUpTo(text, i)) = k]

(* Faulty variant: the words are taken as they were typed. *)
NormalizedVerbatim(text) ==
  [k \in 1..Cardinality(WordsUpTo(text, Len(text))) |->
     IF Word(text, k)[2] THEN "as typed" ELSE Word(text, k)[1]]

(* Lower case, with the blanks around and between the words forgotten. *)
Normalized(text) ==
  [k \in 1..Cardinality(WordsUpTo(text, Len(text))) |-> Word(text, k)[1]]

IsKnownConsoleCheat(words) ==
  words \in {<<"god">>, <<"godmode">>, <<"iddqd">>, <<"god", "on">>, <<"godmode", "on">>,
             <<"ungod">>, <<"god", "off">>, <<"godmode", "off">>,
             <<"noclip">>, <<"noclip", "on">>, <<"idspispopd">>,
             <<"clip">>, <<"noclip", "off">>, <<"give", "all">>, <<"killall">>}

CheatTools == {"set_player_health", "set_player_position", "damage_entity", "kill_entity"}

(* tool_requires_console_permission and tool_requires_cheat_permission *)
ToolAllowed(config, tool) ==
  /\ tool = "execute_console" => config.console
  /\ tool \in CheatTools => config.cheats

CommandRequiresCheats(command) ==
  \/ command.type \in CheatTools
  \/ command.type = "execute_console" /\ IsKnownConsoleCheat(Normalized(command.command))

(* Faulty variant: a push asks for the console alone. *)
CommandAllowedUnlessConsole(config, command) ==
  command.type = "execute_console" => config.console

(* validate_command_permissions *)
CommandAllowed(config, command) ==
  /\ command.type = "execute_console" => config.console
  /\ CommandRequiresCheats(command) => config.cheats
=============================================================================
