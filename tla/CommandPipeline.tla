--------------------------- MODULE CommandPipeline --------------------------
(***************************************************************************)
(* How a mutating tool call reaches the game.                              *)
(*                                                                         *)
(* HTTP worker threads run queue_command_from_json() (one call of a        *)
(* command tool, or one item of execute_batch): the command is checked,    *)
(* pending commands of the same coalescible type are removed and reported  *)
(* as superseded, the command is pushed, an evicted command is reported as *)
(* dropped, and the new command is marked as queued.  Each of these takes  *)
(* a mutex of its own (the queue's or the result map's) and releases it    *)
(* before the next one, so each is a step.  The input tool only pushes on  *)
(* the input queue.                                                        *)
(*                                                                         *)
(* The game thread runs the adapter's tick: it pops the commands and the   *)
(* inputs, executes each one and records its result.                       *)
(*                                                                         *)
(* The variable log is history: what became of each sequence number.  The  *)
(* program keeps only results, which is bounded.                           *)
(***************************************************************************)
EXTENDS CommandQueue

CONSTANTS
  Workers,       (* HTTP worker threads                                    *)
  Types,         (* command types                                          *)
  Coalescible,   (* the types is_coalescible_command() accepts             *)
  Refused,       (* the types validate_command_permissions() refuses       *)
  PlayerInput,   (* the type of every input: DMCP_CMD_PLAYER_INPUT         *)
  Slots,         (* config.command_queue_slots, the size of both queues    *)
  MaxResults,    (* context::max_command_results                           *)
  InputsFirst,   (* the adapter's tick processes inputs before commands    *)
  InputBudget,   (* inputs per tick; 0 drains the input queue              *)
  ClearAllowed,  (* the embedding program calls the clear functions        *)
  CommandBound,  (* model bound: commands pushed                           *)
  InputBound     (* model bound: inputs pushed                             *)

ASSUME PipelineAssumption ==
  /\ IsFiniteSet(Workers)
  /\ Coalescible \subseteq Types
  /\ Refused \subseteq Types
  /\ PlayerInput \notin Types
  /\ Slots \in Nat \ {0}
  /\ MaxResults \in Nat \ {0}
  /\ InputsFirst \in BOOLEAN
  /\ InputBudget \in Nat
  /\ ClearAllowed \in BOOLEAN
  /\ CommandBound \in Nat
  /\ InputBound \in Nat

VARIABLES
  queue,      (* cmd_queue's deque                                         *)
  next,       (* cmd_queue's next_sequence_                                *)
  inputs,     (* input_queue's deque                                       *)
  nextInput,  (* input_queue's next_sequence_: a counter of its own        *)
  results,    (* context::command_results                                  *)
  order,      (* context::command_result_order                             *)
  pc,         (* where each worker is in queue_command_from_json()         *)
  cmd,        (* each worker's local cmd; sequence 0 until it is pushed    *)
  doomed,     (* each worker's removed commands, not yet reported          *)
  phase,      (* where the game thread is in the adapter's tick            *)
  running,    (* the command or input it has popped: at most one           *)
  done,       (* inputs processed in this tick                             *)
  log,        (* history: log[s] is the type and the fate of command s     *)
  lastTaken   (* history: the last command the game thread popped          *)

queues   == <<queue, next, inputs, nextInput>>
tracking == <<results, order>>
locals   == <<pc, cmd, doomed>>
game     == <<phase, running, done>>
history  == <<log, lastTaken>>
vars     == <<queues, tracking, locals, game, history>>

Command == [sequence : Nat, type : Types \cup {PlayerInput}]
Status  == {"pending", "success", "failed", "superseded", "dropped"}
Result  == [command_type : Types \cup {PlayerInput}, status : Status]
Fates   == {"open", "executed", "superseded", "dropped", "cleared"}
Record  == [type : Types, fate : Fates]

Init ==
  /\ queue = << >> /\ next = 1
  /\ inputs = << >> /\ nextInput = 1
  /\ results = << >> /\ order = << >>
  /\ pc = [w \in Workers |-> "idle"]
  /\ cmd \in [Workers -> [sequence : {0}, type : {PlayerInput}]]
  /\ doomed = [w \in Workers |-> << >>]
  /\ phase = "idle" /\ running = {} /\ done = 0
  /\ log = << >> /\ lastTaken = 0

-----------------------------------------------------------------------------
(* The result map: insert or overwrite one entry, evicting the oldest.     *)

Overwrite(s, entry) ==
  /\ s \in DOMAIN results
  /\ results' = [results EXCEPT ![s] = entry]
  /\ UNCHANGED order

Insert(s, entry) ==
  /\ s \notin DOMAIN results
  /\ Len(order) < MaxResults
  /\ order' = Append(order, s)
  /\ results' = [x \in DOMAIN results \cup {s} |-> IF x = s THEN entry ELSE results[x]]

(* Faulty variant: the evicted entry stays in the map. *)
InsertKeepingEvicted(s, entry) ==
  /\ s \notin DOMAIN results
  /\ Len(order) >= MaxResults
  /\ order' = Append(Tail(order), s)
  /\ results' = [x \in DOMAIN results \cup {s} |-> IF x = s THEN entry ELSE results[x]]

InsertEvicting(s, entry) ==
  /\ s \notin DOMAIN results
  /\ Len(order) >= MaxResults
  /\ order' = Append(Tail(order), s)
  /\ results' = [x \in (DOMAIN results \ {Head(order)}) \cup {s} |->
                   IF x = s THEN entry ELSE results[x]]

Track(command, status) ==
  LET entry == [command_type |-> command.type, status |-> status] IN
  \/ Overwrite(command.sequence, entry)
  \/ Insert(command.sequence, entry)
  \/ InsertEvicting(command.sequence, entry)

(* Faulty variant: a status the interface does not have. *)
MarkWithUnknownStatus(command) == Track(command, "queued")

(* dmcp_command_result_mark_queued(): overwrites whatever is there. *)
MarkQueued(command) == Track(command, "pending")

(* dmcp_command_result_complete(): the status names the message too. *)
Complete(command, status) == Track(command, status)

SetFate(s, fate) == log' = [log EXCEPT ![s].fate = fate]

-----------------------------------------------------------------------------
(* A worker in queue_command_from_json() and dmcp_command_push().          *)

(* The model bound counts the pushes made and those still to come. *)
BelowBound ==
  next + Cardinality({w \in Workers : pc[w] \in {"coalesce", "discard", "push"}}) <= CommandBound

(* The call arrives; a refused command leaves no trace. *)
Submit(w, t) ==
  /\ pc[w] = "idle"
  /\ BelowBound
  /\ t \notin Refused
  /\ pc' = [pc EXCEPT ![w] = IF t \in Coalescible THEN "coalesce" ELSE "push"]
  /\ cmd' = [cmd EXCEPT ![w] = [sequence |-> 0, type |-> t]]
  /\ UNCHANGED <<queues, tracking, doomed, game, history>>

(* remove_by_type(), under the queue's mutex. *)
Coalesce(w) ==
  /\ pc[w] = "coalesce"
  /\ \E kept \in Enumerations(PositionsNotOf(queue, cmd[w].type)),
        gone \in Enumerations(PositionsOf(queue, cmd[w].type)) :
       /\ queue' = At(queue, kept)
       /\ doomed' = [doomed EXCEPT ![w] = At(queue, gone)]
  /\ pc' = [pc EXCEPT ![w] = "discard"]
  /\ UNCHANGED <<next, inputs, nextInput, tracking, cmd, game, history>>

(* The loop over the removed commands reports one of them. *)
ReportSuperseded(w) ==
  /\ pc[w] = "discard"
  /\ doomed[w] # << >>
  /\ Complete(Head(doomed[w]), "superseded")
  /\ SetFate(Head(doomed[w]).sequence, "superseded")
  /\ doomed' = [doomed EXCEPT ![w] = Tail(@)]
  /\ UNCHANGED <<queues, pc, cmd, game, lastTaken>>

CoalesceDone(w) ==
  /\ pc[w] = "discard"
  /\ doomed[w] = << >>
  /\ pc' = [pc EXCEPT ![w] = "push"]
  /\ UNCHANGED <<queues, tracking, cmd, doomed, game, history>>

(* Faulty variant: the caller ignores what push() evicted. *)
PushIgnoringEvicted(w) ==
  LET pushed == [cmd[w] EXCEPT !.sequence = next] IN
  /\ pc[w] = "push"
  /\ queue' = Pushed(queue, Slots, pushed)
  /\ next' = next + 1
  /\ cmd' = [cmd EXCEPT ![w] = pushed]
  /\ pc' = [pc EXCEPT ![w] = "mark"]
  /\ log' = Append(log, [type |-> cmd[w].type, fate |-> "open"])
  /\ UNCHANGED <<inputs, nextInput, tracking, doomed, game, lastTaken>>

(* command_queue::push(), under the queue's mutex. *)
Push(w) ==
  LET pushed == [cmd[w] EXCEPT !.sequence = next] IN
  /\ pc[w] = "push"
  /\ queue' = Pushed(queue, Slots, pushed)
  /\ doomed' = [doomed EXCEPT ![w] = Evicted(queue, Slots)]
  /\ next' = next + 1
  /\ cmd' = [cmd EXCEPT ![w] = pushed]
  /\ pc' = [pc EXCEPT ![w] = IF IsFull(queue, Slots) THEN "evict" ELSE "mark"]
  /\ log' = Append(log, [type |-> cmd[w].type, fate |-> "open"])
  /\ UNCHANGED <<inputs, nextInput, tracking, game, lastTaken>>

ReportDropped(w) ==
  /\ pc[w] = "evict"
  /\ Complete(Head(doomed[w]), "dropped")
  /\ SetFate(Head(doomed[w]).sequence, "dropped")
  /\ doomed' = [doomed EXCEPT ![w] = << >>]
  /\ pc' = [pc EXCEPT ![w] = "mark"]
  /\ UNCHANGED <<queues, cmd, game, lastTaken>>

(* The last step before the reply carries the sequence to the agent. *)
Mark(w) ==
  /\ pc[w] = "mark"
  /\ MarkQueued(cmd[w])
  /\ pc' = [pc EXCEPT ![w] = "idle"]
  /\ UNCHANGED <<queues, cmd, doomed, game, history>>

(* The input tool: dmcp_input_push() drops an evicted input silently. *)
PushInput(w) ==
  /\ pc[w] = "idle"
  /\ nextInput <= InputBound
  /\ inputs' = Pushed(inputs, Slots, [sequence |-> nextInput, type |-> PlayerInput])
  /\ nextInput' = nextInput + 1
  /\ UNCHANGED <<queue, next, tracking, locals, game, history>>

-----------------------------------------------------------------------------
(* The game thread in the adapter's tick.                                  *)

BeginTick ==
  /\ phase = "idle"
  /\ phase' = IF InputsFirst THEN "inputs" ELSE "commands"
  /\ done' = 0
  /\ UNCHANGED <<queues, tracking, locals, running, history>>

PopCommand ==
  /\ phase = "commands" /\ running = {}
  /\ queue # << >>
  /\ running' = {Head(queue)}
  /\ queue' = Tail(queue)
  /\ lastTaken' = Head(queue).sequence
  /\ UNCHANGED <<next, inputs, nextInput, tracking, locals, phase, done, log>>

(* Faulty variant: the result is recorded without leaving the command. *)
FinishAgain ==
  /\ phase = "commands"
  /\ \E c \in running, status \in {"success", "failed"} :
       /\ Complete(c, status)
       /\ SetFate(c.sequence, "executed")
  /\ UNCHANGED <<queues, locals, phase, done, lastTaken, running>>

FinishCommand ==
  /\ phase = "commands"
  /\ \E c \in running, status \in {"success", "failed"} :
       /\ Complete(c, status)
       /\ SetFate(c.sequence, "executed")
  /\ running' = {}
  /\ UNCHANGED <<queues, locals, phase, done, lastTaken>>

(* pop() found the queue empty. *)
CommandsDone ==
  /\ phase = "commands" /\ running = {}
  /\ queue = << >>
  /\ phase' = IF InputsFirst THEN "idle" ELSE "inputs"
  /\ UNCHANGED <<queues, tracking, locals, running, done, history>>

BudgetLeft == InputBudget = 0 \/ done < InputBudget

PopInput ==
  /\ phase = "inputs" /\ running = {}
  /\ BudgetLeft
  /\ inputs # << >>
  /\ running' = {Head(inputs)}
  /\ inputs' = Tail(inputs)
  /\ UNCHANGED <<queue, next, nextInput, tracking, locals, phase, done, history>>

(* The result goes into the same map, under the input's own number. *)
FinishInput ==
  /\ phase = "inputs"
  /\ \E c \in running, status \in {"success", "failed"} : Complete(c, status)
  /\ running' = {}
  /\ done' = done + 1
  /\ UNCHANGED <<queues, locals, phase, history>>

InputsDone ==
  /\ phase = "inputs" /\ running = {}
  /\ inputs = << >> \/ ~BudgetLeft
  /\ phase' = IF InputsFirst THEN "commands" ELSE "idle"
  /\ UNCHANGED <<queues, tracking, locals, running, done, history>>

-----------------------------------------------------------------------------
(* Calls of the embedding program: queued entries vanish, no result is     *)
(* recorded for them.                                                      *)

ClearCommands ==
  /\ ClearAllowed
  /\ queue # << >>
  /\ queue' = << >>
  /\ log' = [s \in DOMAIN log |->
               IF \E i \in DOMAIN queue : queue[i].sequence = s
                 THEN [log[s] EXCEPT !.fate = "cleared"] ELSE log[s]]
  /\ UNCHANGED <<next, inputs, nextInput, tracking, locals, game, lastTaken>>

ClearInputs ==
  /\ ClearAllowed
  /\ inputs # << >>
  /\ inputs' = << >>
  /\ UNCHANGED <<queue, next, nextInput, tracking, locals, game, history>>

-----------------------------------------------------------------------------
WorkerStep(w) ==
  \/ Coalesce(w) \/ ReportSuperseded(w) \/ CoalesceDone(w)
  \/ Push(w) \/ ReportDropped(w) \/ Mark(w)

GameStep ==
  \/ BeginTick \/ PopCommand \/ FinishCommand \/ CommandsDone
  \/ PopInput \/ FinishInput \/ InputsDone

Next ==
  \/ \E w \in Workers : WorkerStep(w)
  \/ \E w \in Workers, t \in Types : Submit(w, t)
  \/ \E w \in Workers : PushInput(w)
  \/ GameStep
  \/ ClearCommands \/ ClearInputs

Spec == Init /\ [][Next]_vars

(***************************************************************************)
(* The engine calls DMCP_Tick every frame and its tick never waits for a   *)
(* worker; a worker in the middle of a call is scheduled eventually.       *)
(* Nothing forces an agent to call.                                        *)
(***************************************************************************)
Fairness == WF_vars(GameStep) /\ \A w \in Workers : WF_vars(WorkerStep(w))
FairSpec == Spec /\ Fairness

-----------------------------------------------------------------------------
(* Properties.                                                             *)

(* The types of the state, and the shape of the locals at each step. *)
TypeOK ==
  /\ queue \in Seq(Command) /\ next \in Nat \ {0}
  /\ inputs \in Seq(Command) /\ nextInput \in Nat \ {0}
  /\ order \in Seq(Nat)
  /\ DOMAIN results \subseteq Nat
  /\ results \in [DOMAIN results -> Result]
  /\ pc \in [Workers -> {"idle", "coalesce", "discard", "push", "evict", "mark"}]
  /\ cmd \in [Workers -> Command]
  /\ doomed \in [Workers -> Seq(Command)]
  /\ phase \in {"idle", "commands", "inputs"}
  /\ running \in SUBSET Command
  /\ done \in Nat
  /\ log \in Seq(Record)
  /\ lastTaken \in Nat

(* Where an unreported command is: a position of the queue, a worker's list
   of removed commands, or the game thread. *)
Holders(s) ==
  {<<"queue", i>> : i \in {j \in DOMAIN queue : queue[j].sequence = s}}
  \cup {<<"game", 0>> : c \in {d \in running : phase = "commands" /\ d.sequence = s}}
  \cup UNION {{<<w, i>> : i \in {j \in DOMAIN doomed[w] : doomed[w][j].sequence = s}} :
                 w \in Workers}

(* No command is lost or duplicated between the queue, the workers that
   coalesce or evict and the game thread: one with an open fate is in exactly
   one of those places, one whose fate is settled is in none
   (dmcp_command_push, dmcp_command_pop, remove_by_type). *)
NothingLost ==
  \A s \in DOMAIN log :
    Cardinality(Holders(s)) = IF log[s].fate = "open" THEN 1 ELSE 0

(* The map and its eviction list describe the same entries, within the bound
   (context.hpp: "Results are bounded"), whichever threads interleave their
   insertions and overwrites. *)
ResultsMatchOrder ==
  /\ {order[i] : i \in DOMAIN order} = DOMAIN results
  /\ \A i, j \in DOMAIN order : order[i] = order[j] => i = j
  /\ Len(order) <= MaxResults

(* The deque is ordered by sequence number, all of them ahead of what the game
   thread took: what makes the order of execution the order of submission. *)
QueueInOrder ==
  /\ \A i, j \in DOMAIN queue : i < j => queue[i].sequence < queue[j].sequence
  /\ \A i \in DOMAIN queue : lastTaken < queue[i].sequence /\ queue[i].sequence < next

(* Coalescing drops work only in favour of newer work: a superseded command
   has a successor of its type that was pushed later, or whose worker is on
   its way to push it (dmcp_command_push, lines 146-163).  Removal and push are
   two critical sections, so what is kept is not one command per type; it is at
   most one per concurrent worker. *)
SupersededByNewer ==
  /\ \A s \in DOMAIN log : log[s].fate = "superseded" =>
       \/ \E u \in DOMAIN log : u > s /\ log[u].type = log[s].type
       \/ \E w \in Workers : pc[w] \in {"discard", "push"} /\ cmd[w].type = log[s].type
  /\ \A t \in Coalescible : Cardinality(PositionsOf(queue, t)) <= Cardinality(Workers)

(* A worker that is done with command s: the agent has its sequence number. *)
Acknowledged(s) ==
  \A w \in Workers : ~(pc[w] \in {"evict", "mark"} /\ cmd[w].sequence = s)

(* As long as no input has been pushed (inputs share the map): once the agent
   has the number of a command, a final answer to get_command_result about it
   is never replaced by another one (it can still be evicted). *)
FinalAnswersStay ==
  [][nextInput = 1 =>
       \A s \in DOMAIN results \cap DOMAIN results' :
         Acknowledged(s) /\ results[s].status # "pending" => results'[s] = results[s]]_vars

(* The game thread executes the commands in the order of their numbers:
   "execute_batch queues mutating commands in order" (docs/INTEGRATION.md). *)
TakenInOrder == [][lastTaken' # lastTaken => lastTaken' > lastTaken]_vars

(* Every pushed command meets its fate: the adapters' drain loop and the
   workers leave nothing in the queue or in their hands for ever. *)
EveryCommandSettles ==
  \A s \in 1..CommandBound : (s < next) ~> (s < next /\ log[s].fate # "open")

-----------------------------------------------------------------------------
(* What the program's documents promise and it does not keep.              *)

(* "get_command_result polls queued command completion"
   (docs/INTEGRATION.md:157): a command reported as pending has not been
   executed, superseded or dropped yet. *)
PendingMeansUnfinished ==
  \A s \in DOMAIN results \cap DOMAIN log :
    results[s].status = "pending" => log[s].fate = "open"

(* "Retrieve tracked command execution result by sequence id"
   (include/dmcp/doom/commands.h:162): the entry under a command's number is
   about that command. *)
ResultIsOfTheCommand ==
  \A s \in DOMAIN results \cap DOMAIN log : results[s].command_type = log[s].type

-----------------------------------------------------------------------------
(* The life of each command as CommandLifecycle states it.                 *)

Held(s, step) ==
  \E w \in Workers : pc[w] = step /\ \E i \in DOMAIN doomed[w] : doomed[w][i].sequence = s

StageOf(s) ==
  CASE log[s].fate # "open"                                -> log[s].fate
    [] \E i \in DOMAIN queue : queue[i].sequence = s       -> "queued"
    [] Held(s, "discard")                                   -> "superseded"
    [] Held(s, "evict")                                     -> "dropped"
    [] OTHER                                                -> "running"

Lifecycle == INSTANCE CommandLifecycle WITH stage <- [s \in DOMAIN log |-> StageOf(s)]

(* The queue, the workers and the game thread together implement the
   abstract life cycle of commands. *)
ImplementsLifecycle == Lifecycle!Spec
=============================================================================
