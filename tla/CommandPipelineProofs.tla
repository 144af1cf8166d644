------------------------ MODULE CommandPipelineProofs -----------------------
(***************************************************************************)
(* Proofs about CommandPipeline, for any number of workers, any command    *)
(* types and any queue and map sizes.                                      *)
(***************************************************************************)
EXTENDS CommandPipeline, SequenceTheorems, FiniteSetTheorems, TLAPS

USE PipelineAssumption

-----------------------------------------------------------------------------
(* What the operations of the queue return.                                *)

LEMMA EvictedType ==
  ASSUME NEW items \in Seq(Command)
  PROVE  Evicted(items, Slots) \in Seq(Command)
  BY HeadTailProperties DEF Evicted, IsFull

LEMMA PushedType ==
  ASSUME NEW items \in Seq(Command), NEW command \in Command
  PROVE  Pushed(items, Slots, command) \in Seq(Command)
  BY HeadTailProperties DEF Pushed, IsFull

LEMMA PositionsFinite ==
  ASSUME NEW items \in Seq(Command), NEW positions \in SUBSET DOMAIN items
  PROVE  Cardinality(positions) \in Nat
<1>1. DOMAIN items = 1..Len(items) /\ Len(items) \in Nat
  BY LenProperties
<1>2. IsFiniteSet(DOMAIN items)
  BY <1>1, FS_Interval
<1> QED BY <1>2, FS_Subset, FS_CardinalityType

LEMMA AtType ==
  ASSUME NEW items \in Seq(Command), NEW positions \in SUBSET DOMAIN items,
         NEW h \in Enumerations(positions)
  PROVE  /\ At(items, h) \in Seq(Command)
         /\ DOMAIN At(items, h) = DOMAIN h
         /\ \A i \in DOMAIN h : h[i] \in positions /\ At(items, h)[i] = items[h[i]]
<1>1. h \in [1..Cardinality(positions) -> positions]
  BY DEF Enumerations
<1>2. \A i \in DOMAIN h : h[i] \in positions /\ items[h[i]] \in Command
  BY <1>1, ElementOfSeq
<1>3. At(items, h) \in [1..Cardinality(positions) -> Command]
  BY <1>1, <1>2 DEF At
<1> QED BY <1>1, <1>2, <1>3, PositionsFinite, SMTT(30) DEF At

-----------------------------------------------------------------------------
(* What recording a status does to the result map.                         *)

ResultsTyped ==
  /\ order \in Seq(Nat)
  /\ DOMAIN results \subseteq Nat
  /\ results \in [DOMAIN results -> Result]

LEMMA TrackType ==
  ASSUME ResultsTyped, NEW command \in Command, NEW status \in Status, Track(command, status)
  PROVE  ResultsTyped'
<1> DEFINE entry == [command_type |-> command.type, status |-> status]
           s == command.sequence
<1>1. entry \in Result /\ s \in Nat
  BY DEF Result, Command
<1>2. CASE Overwrite(s, entry)
  BY <1>1, <1>2 DEF Overwrite, ResultsTyped
<1>3. CASE Insert(s, entry)
  BY <1>1, <1>3 DEF Insert, ResultsTyped
<1>4. CASE InsertEvicting(s, entry)
  <2>1. order # << >> /\ Tail(order) \in Seq(Nat)
    BY <1>4, HeadTailProperties, EmptySeq DEF InsertEvicting, ResultsTyped
  <2>2. DOMAIN results' \subseteq Nat /\ results' \in [DOMAIN results' -> Result]
    BY <1>1, <1>4 DEF InsertEvicting, ResultsTyped
  <2>3. order' \in Seq(Nat)
    BY <1>1, <1>4, <2>1 DEF InsertEvicting
  <2> QED BY <2>2, <2>3 DEF ResultsTyped
<1> QED BY <1>2, <1>3, <1>4 DEF Track

LEMMA SetFateType ==
  ASSUME NEW s \in Nat, NEW fate \in Fates, log \in Seq(Record), SetFate(s, fate)
  PROVE  log' \in Seq(Record)
<1>1. CASE s \in 1..Len(log)
  <2>1. log[s] \in Record
    BY <1>1, ElementOfSeq
  <2>2. [log[s] EXCEPT !.fate = fate] \in Record
    BY <2>1 DEF Record
  <2> QED BY <1>1, <2>2, ExceptSeq DEF SetFate
<1>2. CASE s \notin 1..Len(log)
  <2>1. log' = log
    BY <1>2, LenProperties DEF SetFate
  <2> QED BY <2>1
<1> QED BY <1>1, <1>2

-----------------------------------------------------------------------------
(* Types.                                                                  *)

(* A worker in the middle of a call has a command of a real type, and one that
   evicted a command holds it. *)
Submitted ==
  \A w \in Workers :
    /\ pc[w] # "idle" => cmd[w].type \in Types
    /\ pc[w] = "evict" => doomed[w] # << >>

Typed == TypeOK /\ Submitted

LEMMA TypedInit == Init => Typed
<1> SUFFICES ASSUME Init PROVE Typed
  OBVIOUS
<1>1. << >> \in Seq(Command) /\ << >> \in Seq(Nat) /\ << >> \in Seq(Record)
  BY EmptySeq
<1>2. DOMAIN results = {}
  BY DEF Init
<1>3. cmd \in [Workers -> Command]
  BY DEF Init, Command
<1> QED BY <1>1, <1>2, <1>3 DEF Init, Typed, TypeOK, Submitted

(* The queues after a push or a pop. *)
LEMMA PoppedType ==
  ASSUME NEW items \in Seq(Command), items # << >>
  PROVE  Head(items) \in Command /\ Tail(items) \in Seq(Command)
  BY HeadTailProperties

LEMMA WorkerKeepsTypes ==
  ASSUME Typed, NEW w \in Workers, WorkerStep(w)
  PROVE  Typed'
<1> USE DEF Typed, TypeOK, Submitted, queues, tracking, locals, game, history
<1>1. CASE Coalesce(w)
  <2>1. PICK kept \in Enumerations(PositionsNotOf(queue, cmd[w].type)),
             gone \in Enumerations(PositionsOf(queue, cmd[w].type)) :
          queue' = At(queue, kept) /\ doomed' = [doomed EXCEPT ![w] = At(queue, gone)]
    BY <1>1 DEF Coalesce
  <2>2. At(queue, kept) \in Seq(Command) /\ At(queue, gone) \in Seq(Command)
    BY AtType DEF PositionsOf, PositionsNotOf
  <2> QED BY <1>1, <2>1, <2>2 DEF Coalesce
<1>2. CASE ReportSuperseded(w)
  <2>1. Head(doomed[w]) \in Command /\ Tail(doomed[w]) \in Seq(Command)
    BY <1>2, PoppedType DEF ReportSuperseded
  <2>2. ResultsTyped'
    BY <1>2, <2>1, TrackType DEF ReportSuperseded, Complete, ResultsTyped, Status
  <2>3. log' \in Seq(Record)
    BY <1>2, <2>1, SetFateType DEF ReportSuperseded, Command, Fates
  <2> QED BY <1>2, <2>1, <2>2, <2>3 DEF ReportSuperseded, ResultsTyped
<1>3. CASE CoalesceDone(w)
  BY <1>3 DEF CoalesceDone
<1>4. CASE Push(w)
  <2> DEFINE pushed == [cmd[w] EXCEPT !.sequence = next]
  <2>1. pushed \in Command /\ pushed.type = cmd[w].type
    BY DEF Command
  <2>2. queue' \in Seq(Command)
    BY <1>4, <2>1, PushedType DEF Push
  <2>3. doomed'[w] \in Seq(Command) /\ (IsFull(queue, Slots) => doomed'[w] # << >>)
    BY <1>4, EvictedType DEF Push, Evicted
  <2>4. [type |-> cmd[w].type, fate |-> "open"] \in Record
    BY <1>4 DEF Push, Record, Fates
  <2>5. log' \in Seq(Record)
    BY <1>4, <2>4 DEF Push
  <2>6. cmd' \in [Workers -> Command] /\ pc' \in [Workers -> {"idle", "coalesce", "discard",
                                                             "push", "evict", "mark"}]
    BY <1>4, <2>1 DEF Push
  <2>7. doomed' \in [Workers -> Seq(Command)]
    BY <1>4, <2>3, EvictedType DEF Push
  <2>8. Submitted'
    BY <1>4, <2>1, <2>3 DEF Push
  <2>9. next' \in Nat \ {0} /\ UNCHANGED <<inputs, nextInput, tracking, game, lastTaken>>
    BY <1>4, SMTT(30) DEF Push
  <2> QED BY <2>2, <2>5, <2>6, <2>7, <2>8, <2>9
<1>5. CASE ReportDropped(w)
  <2>1. Head(doomed[w]) \in Command
    BY <1>5, PoppedType DEF ReportDropped
  <2>2. ResultsTyped'
    BY <1>5, <2>1, TrackType DEF ReportDropped, Complete, ResultsTyped, Status
  <2>3. log' \in Seq(Record)
    BY <1>5, <2>1, SetFateType DEF ReportDropped, Command, Fates
  <2>4. << >> \in Seq(Command)
    BY EmptySeq
  <2> QED BY <1>5, <2>2, <2>3, <2>4 DEF ReportDropped, ResultsTyped
<1>6. CASE Mark(w)
  <2>1. ResultsTyped'
    BY <1>6, TrackType DEF Mark, MarkQueued, ResultsTyped, Status
  <2> QED BY <1>6, <2>1 DEF Mark, ResultsTyped
<1> QED BY <1>1, <1>2, <1>3, <1>4, <1>5, <1>6 DEF WorkerStep

LEMMA GameKeepsTypes ==
  ASSUME Typed, GameStep
  PROVE  Typed'
<1> USE DEF Typed, TypeOK, Submitted, queues, tracking, locals, game, history
<1>1. CASE BeginTick
  BY <1>1 DEF BeginTick
<1>2. CASE PopCommand
  <2>1. Head(queue) \in Command /\ Tail(queue) \in Seq(Command)
    BY <1>2, PoppedType DEF PopCommand
  <2> QED BY <1>2, <2>1 DEF PopCommand, Command
<1>3. CASE FinishCommand
  <2>1. PICK c \in running, status \in {"success", "failed"} :
          Complete(c, status) /\ SetFate(c.sequence, "executed")
    BY <1>3 DEF FinishCommand
  <2>2. c \in Command
    OBVIOUS
  <2>3. ResultsTyped'
    BY <2>1, <2>2, TrackType DEF Complete, ResultsTyped, Status
  <2>4. log' \in Seq(Record)
    BY <2>1, <2>2, SetFateType DEF Command, Fates
  <2> QED BY <1>3, <2>3, <2>4 DEF FinishCommand, ResultsTyped
<1>4. CASE CommandsDone
  BY <1>4 DEF CommandsDone
<1>5. CASE PopInput
  <2>1. Head(inputs) \in Command /\ Tail(inputs) \in Seq(Command)
    BY <1>5, PoppedType DEF PopInput
  <2> QED BY <1>5, <2>1 DEF PopInput
<1>6. CASE FinishInput
  <2>1. PICK c \in running, status \in {"success", "failed"} : Complete(c, status)
    BY <1>6 DEF FinishInput
  <2>2. c \in Command
    OBVIOUS
  <2>3. ResultsTyped'
    BY <2>1, <2>2, TrackType DEF Complete, ResultsTyped, Status
  <2> QED BY <1>6, <2>3, SMTT(30) DEF FinishInput, ResultsTyped
<1>7. CASE InputsDone
  BY <1>7 DEF InputsDone
<1> QED BY <1>1, <1>2, <1>3, <1>4, <1>5, <1>6, <1>7 DEF GameStep

LEMMA CallsKeepTypes ==
  ASSUME Typed, NEW w \in Workers,
         PushInput(w) \/ \E t \in Types : Submit(w, t)
  PROVE  Typed'
<1> USE DEF Typed, TypeOK, Submitted, queues, tracking, locals, game, history
<1>1. ASSUME NEW t \in Types, Submit(w, t) PROVE Typed'
  BY <1>1 DEF Submit, Command
<1>2. CASE PushInput(w)
  <2>1. [sequence |-> nextInput, type |-> PlayerInput] \in Command
    BY DEF Command
  <2>2. inputs' \in Seq(Command)
    BY <1>2, <2>1, PushedType DEF PushInput
  <2>3. nextInput' \in Nat \ {0} /\ UNCHANGED <<queue, next, tracking, locals, game, history>>
    BY <1>2 DEF PushInput
  <2> QED BY <2>2, <2>3
<1> QED BY <1>1, <1>2

LEMMA ClearsKeepTypes ==
  ASSUME Typed, ClearCommands \/ ClearInputs
  PROVE  Typed'
<1> USE DEF Typed, TypeOK, Submitted, queues, tracking, locals, game, history
<1>1. << >> \in Seq(Command)
  BY EmptySeq
<1>2. CASE ClearCommands
  <2>1. DOMAIN log = 1..Len(log) /\ Len(log) \in Nat
    BY LenProperties
  <2>2. \A s \in DOMAIN log : log[s] \in Record
    BY <2>1, ElementOfSeq
  <2>3. \A s \in DOMAIN log : [log[s] EXCEPT !.fate = "cleared"] \in Record
    BY <2>2 DEF Record, Fates
  <2>4. log' \in [1..Len(log) -> Record]
    BY <1>2, <2>1, <2>2, <2>3 DEF ClearCommands
  <2>5. log' \in Seq(Record)
    BY <2>1, <2>4, SeqDef, SMTT(30)
  <2> QED BY <1>1, <1>2, <2>5 DEF ClearCommands
<1>3. CASE ClearInputs
  BY <1>1, <1>3 DEF ClearInputs
<1> QED BY <1>2, <1>3

LEMMA TypedNext == Typed /\ [Next]_vars => Typed'
<1> SUFFICES ASSUME Typed, [Next]_vars PROVE Typed'
  OBVIOUS
<1>1. CASE UNCHANGED vars
  BY <1>1 DEF vars, queues, tracking, locals, game, history, Typed, TypeOK, Submitted
<1> QED BY <1>1, WorkerKeepsTypes, GameKeepsTypes, CallsKeepTypes, ClearsKeepTypes DEF Next

(* Every state has its types, whatever the sizes of the queues and of the
   result map and however many workers there are. *)
THEOREM Typing == Spec => []TypeOK
<1>1. Typed => TypeOK
  BY DEF Typed
<1> QED BY <1>1, TypedInit, TypedNext, PTL DEF Spec

-----------------------------------------------------------------------------
(* The order of the queue.                                                 *)

(* The commands are sorted by sequence, strictly between two numbers. *)
Ascending(items, above, below) ==
  /\ \A i, j \in DOMAIN items : i < j => items[i].sequence < items[j].sequence
  /\ \A i \in DOMAIN items : above < items[i].sequence /\ items[i].sequence < below

LEMMA TailAscends ==
  ASSUME NEW items \in Seq(Command), items # << >>, NEW above \in Nat, NEW below \in Nat,
         Ascending(items, above, below)
  PROVE  /\ Ascending(Tail(items), above, below)
         /\ Ascending(Tail(items), Head(items).sequence, below)
         /\ above < Head(items).sequence /\ Head(items).sequence < below
<1>1. Len(items) \in Nat \ {0} /\ DOMAIN items = 1..Len(items) /\ Head(items) = items[1]
  BY LenProperties, EmptySeq
<1>2. /\ DOMAIN Tail(items) = 1..(Len(items) - 1)
      /\ \A i \in 1..(Len(items) - 1) : Tail(items)[i] = items[i + 1]
  BY HeadTailProperties, LenProperties
<1>3. \A i \in 1..(Len(items) - 1) : i + 1 \in DOMAIN items /\ 1 < i + 1
  BY <1>1
<1>4. 1 \in DOMAIN items
  BY <1>1
<1>5. \A i \in DOMAIN Tail(items) : Head(items).sequence < Tail(items)[i].sequence
  BY <1>1, <1>2, <1>3, <1>4 DEF Ascending
<1>6. \A i, j \in DOMAIN Tail(items) : i < j => Tail(items)[i].sequence < Tail(items)[j].sequence
  BY <1>1, <1>2, <1>3 DEF Ascending
<1>7. \A i \in DOMAIN Tail(items) :
        above < Tail(items)[i].sequence /\ Tail(items)[i].sequence < below
  BY <1>2, <1>3 DEF Ascending
<1> QED BY <1>1, <1>4, <1>5, <1>6, <1>7 DEF Ascending

LEMMA PushAscends ==
  ASSUME NEW items \in Seq(Command), NEW command \in Command,
         NEW above \in Nat, Ascending(items, above, command.sequence), above < command.sequence
  PROVE  Ascending(Pushed(items, Slots, command), above, command.sequence + 1)
<1> DEFINE room == IF IsFull(items, Slots) THEN Tail(items) ELSE items
<1>1. command.sequence \in Nat
  BY DEF Command
<1>2. room \in Seq(Command) /\ Ascending(room, above, command.sequence)
  BY <1>1, TailAscends, HeadTailProperties DEF IsFull
<1> HIDE DEF room
<1>3. /\ Len(room) \in Nat /\ DOMAIN room = 1..Len(room)
      /\ \A i \in DOMAIN room : room[i].sequence \in Nat
  <2>1. Len(room) \in Nat /\ DOMAIN room = 1..Len(room)
    BY <1>2, LenProperties
  <2>2. \A i \in DOMAIN room : room[i] \in Command
    BY <1>2, <2>1, ElementOfSeq
  <2> QED BY <2>1, <2>2 DEF Command
<1>4. /\ DOMAIN Append(room, command) = 1..(Len(room) + 1)
      /\ \A i \in 1..Len(room) : Append(room, command)[i] = room[i]
      /\ Append(room, command)[Len(room) + 1] = command
  BY <1>2, <1>3
<1>5. Ascending(Append(room, command), above, command.sequence + 1)
  BY <1>1, <1>2, <1>3, <1>4 DEF Ascending
<1> QED BY <1>5 DEF Pushed, room

LEMMA KeptAscends ==
  ASSUME NEW items \in Seq(Command), NEW positions \in SUBSET DOMAIN items,
         NEW h \in Enumerations(positions), NEW above, NEW below,
         Ascending(items, above, below)
  PROVE  Ascending(At(items, h), above, below)
<1>1. /\ DOMAIN At(items, h) = DOMAIN h
      /\ \A i \in DOMAIN h : h[i] \in DOMAIN items /\ At(items, h)[i] = items[h[i]]
  BY AtType
<1>2. \A i, j \in DOMAIN h : i < j => h[i] < h[j]
  BY DEF Enumerations
<1> QED BY <1>1, <1>2 DEF Ascending

(* The queue is in order, and ahead of what the game thread took. *)
InOrder == Ascending(queue, lastTaken, next) /\ lastTaken < next

LEMMA OrderNext == Typed /\ InOrder /\ [Next]_vars => InOrder'
<1> SUFFICES ASSUME Typed, InOrder, [Next]_vars PROVE InOrder'
  OBVIOUS
<1> USE DEF Typed, TypeOK, queues, game, history
<1>1. CASE UNCHANGED <<queue, next, lastTaken>>
  BY <1>1 DEF InOrder
<1>2. CASE queue' = << >> /\ UNCHANGED <<next, lastTaken>>
  BY <1>2 DEF InOrder, Ascending
<1>3. ASSUME NEW w \in Workers, Coalesce(w) PROVE InOrder'
  <2>1. PICK kept \in Enumerations(PositionsNotOf(queue, cmd[w].type)) : queue' = At(queue, kept)
    BY <1>3 DEF Coalesce
  <2>2. Ascending(queue', lastTaken, next)
    BY <2>1, KeptAscends DEF PositionsNotOf, InOrder
  <2> QED BY <1>3, <2>2 DEF Coalesce, InOrder
<1>4. ASSUME NEW w \in Workers, Push(w) PROVE InOrder'
  <2> DEFINE pushed == [cmd[w] EXCEPT !.sequence = next]
  <2>1. pushed \in Command /\ pushed.sequence = next
    BY DEF Command
  <2>2. Ascending(queue', lastTaken, next + 1)
    BY <1>4, <2>1, PushAscends DEF Push, InOrder
  <2> QED BY <1>4, <2>2, SMTT(30) DEF Push, InOrder
<1>5. CASE PopCommand
  <2>1. Ascending(queue', lastTaken', next) /\ lastTaken' < next
    BY <1>5, TailAscends DEF PopCommand, InOrder
  <2> QED BY <1>5, <2>1 DEF PopCommand, InOrder
<1>6. ASSUME NEW w \in Workers, WorkerStep(w) PROVE InOrder'
  BY <1>1, <1>3, <1>4, <1>6 DEF WorkerStep, ReportSuperseded, CoalesceDone, ReportDropped, Mark
<1>7. CASE GameStep
  BY <1>1, <1>5, <1>7 DEF GameStep, BeginTick, FinishCommand, CommandsDone, PopInput,
                          FinishInput, InputsDone
<1>8. CASE ClearCommands \/ ClearInputs
  BY <1>1, <1>2, <1>8 DEF ClearCommands, ClearInputs
<1>9. ASSUME NEW w \in Workers, PushInput(w) \/ \E t \in Types : Submit(w, t) PROVE InOrder'
  BY <1>1, <1>9 DEF PushInput, Submit
<1>10. CASE UNCHANGED vars
  BY <1>1, <1>10 DEF vars
<1> QED BY <1>6, <1>7, <1>8, <1>9, <1>10 DEF Next

LEMMA OrderInit == Init => InOrder
  BY DEF Init, InOrder, Ascending

(* The deque is ordered by sequence number and ahead of everything the game
   thread took, through every interleaving of coalescing, eviction and pops. *)
THEOREM QueueIsInOrder == Spec => []QueueInOrder
<1>1. Init => Typed /\ InOrder
  BY TypedInit, OrderInit
<1>2. Typed /\ InOrder /\ [Next]_vars => (Typed /\ InOrder)'
  BY TypedNext, OrderNext
<1>3. InOrder => QueueInOrder
  BY DEF InOrder, Ascending, QueueInOrder
<1> QED BY <1>1, <1>2, <1>3, PTL DEF Spec

(* The game thread takes the commands in the order of their numbers. *)
THEOREM CommandsTakenInOrder == Spec => TakenInOrder
<1>1. Init => Typed /\ InOrder
  BY TypedInit, OrderInit
<1>2. Typed /\ InOrder /\ [Next]_vars => (Typed /\ InOrder)'
  BY TypedNext, OrderNext
<1>3. Typed /\ InOrder /\ [Next]_vars => [lastTaken' # lastTaken => lastTaken' > lastTaken]_vars
  <2> SUFFICES ASSUME Typed, InOrder, [Next]_vars, lastTaken' # lastTaken
               PROVE  lastTaken' > lastTaken
    OBVIOUS
  <2>1. PopCommand
    BY DEF Next, WorkerStep, GameStep, Coalesce, ReportSuperseded, CoalesceDone, Push,
           ReportDropped, Mark, Submit, PushInput, BeginTick, FinishCommand, CommandsDone,
           PopInput, FinishInput, InputsDone, ClearCommands, ClearInputs, vars, game, history
  <2>2. queue \in Seq(Command) /\ queue # << >> /\ lastTaken \in Nat /\ next \in Nat
    BY <2>1 DEF PopCommand, Typed, TypeOK
  <2>3. lastTaken < Head(queue).sequence
    BY <2>2, TailAscends DEF InOrder
  <2>4. Head(queue).sequence \in Nat
    BY <2>2, PoppedType DEF Command
  <2> QED BY <2>1, <2>2, <2>3, <2>4 DEF PopCommand
<1> QED BY <1>1, <1>2, <1>3, PTL DEF Spec, TakenInOrder

-----------------------------------------------------------------------------
(* The result map and its eviction list.                                   *)

Elements(list) == {list[i] : i \in DOMAIN list}
Distinct(list) == \A i, j \in DOMAIN list : list[i] = list[j] => i = j

LEMMA AppendDistinct ==
  ASSUME NEW T, NEW list \in Seq(T), Distinct(list), NEW s \in T, s \notin Elements(list)
  PROVE  /\ Distinct(Append(list, s))
         /\ Elements(Append(list, s)) = Elements(list) \cup {s}
<1>1. DOMAIN list = 1..Len(list) /\ Len(list) \in Nat
  BY LenProperties
<1>2. /\ DOMAIN Append(list, s) = 1..(Len(list) + 1)
      /\ \A i \in 1..Len(list) : Append(list, s)[i] = list[i]
      /\ Append(list, s)[Len(list) + 1] = s
  BY <1>1
<1>3. \A i \in 1..(Len(list) + 1) : i \in 1..Len(list) \/ i = Len(list) + 1
  BY <1>1
<1>4. \A i \in 1..Len(list) : list[i] # s
  BY <1>1 DEF Elements
<1>5. Distinct(Append(list, s))
  BY <1>1, <1>2, <1>3, <1>4 DEF Distinct
<1>6. Elements(Append(list, s)) = Elements(list) \cup {s}
  BY <1>1, <1>2, <1>3 DEF Elements
<1> QED BY <1>5, <1>6

LEMMA TailDistinct ==
  ASSUME NEW T, NEW list \in Seq(T), list # << >>, Distinct(list)
  PROVE  /\ Distinct(Tail(list))
         /\ Elements(Tail(list)) = Elements(list) \ {Head(list)}
<1>1. Len(list) \in Nat \ {0} /\ DOMAIN list = 1..Len(list) /\ Head(list) = list[1]
  BY LenProperties, EmptySeq
<1>2. /\ DOMAIN Tail(list) = 1..(Len(list) - 1)
      /\ \A i \in 1..(Len(list) - 1) : Tail(list)[i] = list[i + 1]
  BY HeadTailProperties, LenProperties
<1>3. \A i \in 1..(Len(list) - 1) : i + 1 \in 2..Len(list)
  BY <1>1
<1>4. \A k \in 2..Len(list) : k - 1 \in 1..(Len(list) - 1) /\ (k - 1) + 1 = k
  BY <1>1
<1>5. \A k \in 2..Len(list) : k \in DOMAIN list /\ k # 1
  BY <1>1
<1>6. 1 \in DOMAIN list /\ \A k \in DOMAIN list : k = 1 \/ k \in 2..Len(list)
  BY <1>1
<1>7. Distinct(Tail(list))
  <2> SUFFICES ASSUME NEW i \in DOMAIN Tail(list), NEW j \in DOMAIN Tail(list),
                      Tail(list)[i] = Tail(list)[j]
               PROVE  i = j
    BY DEF Distinct
  <2>1. i + 1 = j + 1
    BY <1>2, <1>3, <1>5 DEF Distinct
  <2> QED BY <1>1, <1>2, <2>1
<1>8. Elements(Tail(list)) = {list[k] : k \in 2..Len(list)}
  <2>1. \A i \in DOMAIN Tail(list) : i + 1 \in 2..Len(list) /\ Tail(list)[i] = list[i + 1]
    BY <1>2, <1>3
  <2>2. \A k \in 2..Len(list) : k - 1 \in DOMAIN Tail(list) /\ Tail(list)[k - 1] = list[k]
    BY <1>2, <1>4
  <2>3. \A x \in Elements(Tail(list)) : x \in {list[k] : k \in 2..Len(list)}
    BY <2>1 DEF Elements
  <2>4. \A x \in {list[k] : k \in 2..Len(list)} : x \in Elements(Tail(list))
    BY <2>2 DEF Elements
  <2> QED BY <2>3, <2>4
<1>9. {list[k] : k \in 2..Len(list)} = Elements(list) \ {list[1]}
  <2>1. \A k \in 2..Len(list) : list[k] # list[1]
    BY <1>5, <1>6 DEF Distinct
  <2>2. Elements(list) = {list[1]} \cup {list[k] : k \in 2..Len(list)}
    BY <1>5, <1>6 DEF Elements
  <2> QED BY <2>1, <2>2
<1> QED BY <1>1, <1>7, <1>8, <1>9

Matched ==
  /\ Elements(order) = DOMAIN results
  /\ Distinct(order)
  /\ Len(order) <= MaxResults

LEMMA TrackKeepsMatch ==
  ASSUME ResultsTyped, Matched, NEW command \in Command, NEW status \in Status,
         Track(command, status)
  PROVE  Matched'
<1> DEFINE entry == [command_type |-> command.type, status |-> status]
           s == command.sequence
<1>1. s \in Nat /\ order \in Seq(Nat) /\ Len(order) \in Nat
  BY LenProperties DEF Command, ResultsTyped
<1> HIDE DEF entry, s
<1>2. CASE Overwrite(s, entry)
  BY <1>2 DEF Overwrite, Matched, ResultsTyped
<1>3. CASE Insert(s, entry)
  <2>1. Distinct(order') /\ Elements(order') = Elements(order) \cup {s}
    BY <1>1, <1>3, AppendDistinct DEF Insert, Matched
  <2>2. Len(order') = Len(order) + 1
    BY <1>1, <1>3 DEF Insert
  <2>3. DOMAIN results' = DOMAIN results \cup {s}
    BY <1>3 DEF Insert
  <2>4. Len(order') <= MaxResults
    BY <1>1, <1>3, <2>2 DEF Insert
  <2> QED BY <2>1, <2>3, <2>4 DEF Matched
<1>4. CASE InsertEvicting(s, entry)
  <2>1. order # << >>
    BY <1>1, <1>4, EmptySeq DEF InsertEvicting
  <2>2. Tail(order) \in Seq(Nat) /\ Len(Tail(order)) = Len(order) - 1
    BY <1>1, <2>1, HeadTailProperties
  <2>3. Distinct(Tail(order)) /\ Elements(Tail(order)) = Elements(order) \ {Head(order)}
    BY <1>1, <2>1, TailDistinct DEF Matched
  <2>4. s \notin Elements(Tail(order))
    BY <1>4, <2>3 DEF InsertEvicting, Matched
  <2>5. Distinct(order') /\ Elements(order') = (Elements(order) \ {Head(order)}) \cup {s}
    <3> DEFINE Keys == Nat
               rest == Tail(order)
    <3>1. /\ rest \in Seq(Keys) /\ s \in Keys
          /\ Distinct(rest) /\ s \notin Elements(rest)
      BY <1>1, <2>2, <2>3, <2>4
    <3>2. /\ order' = Append(rest, s)
          /\ Elements(rest) = Elements(order) \ {Head(order)}
      BY <1>4, <2>3 DEF InsertEvicting
    <3> HIDE DEF Keys, rest
    <3>3. /\ Distinct(Append(rest, s))
          /\ Elements(Append(rest, s)) = Elements(rest) \cup {s}
      BY <3>1, AppendDistinct
    <3> QED BY <3>2, <3>3
  <2>6. Len(order') = Len(order)
    BY <1>1, <1>4, <2>2 DEF InsertEvicting
  <2>7. DOMAIN results' = (DOMAIN results \ {Head(order)}) \cup {s}
    BY <1>4 DEF InsertEvicting
  <2> QED BY <2>5, <2>6, <2>7 DEF Matched
<1> QED BY <1>2, <1>3, <1>4 DEF Track, entry, s

LEMMA MatchNext == Typed /\ Matched /\ [Next]_vars => Matched'
<1> SUFFICES ASSUME Typed, Matched, [Next]_vars PROVE Matched'
  OBVIOUS
<1> USE DEF Typed, TypeOK, tracking
<1>1. ResultsTyped
  BY DEF ResultsTyped
<1>2. CASE UNCHANGED tracking
  BY <1>2 DEF Matched
<1>3. ASSUME NEW command \in Command, NEW status \in Status, Track(command, status)
      PROVE  Matched'
  BY <1>1, <1>3, TrackKeepsMatch
<1>4. ASSUME NEW w \in Workers, WorkerStep(w) PROVE Matched'
  <2>1. CASE ReportSuperseded(w)
    <3>1. Head(doomed[w]) \in Command
      BY <2>1, PoppedType DEF ReportSuperseded
    <3> QED BY <1>3, <2>1, <3>1 DEF ReportSuperseded, Complete, Status
  <2>2. CASE ReportDropped(w)
    <3>1. Head(doomed[w]) \in Command
      BY <2>2, PoppedType DEF ReportDropped, Submitted
    <3> QED BY <1>3, <2>2, <3>1 DEF ReportDropped, Complete, Status
  <2>3. CASE Mark(w)
    BY <1>3, <2>3 DEF Mark, MarkQueued, Status
  <2> QED BY <1>2, <1>4, <2>1, <2>2, <2>3 DEF WorkerStep, Coalesce, CoalesceDone, Push
<1>5. CASE GameStep
  <2>1. CASE FinishCommand
    BY <1>3, <2>1 DEF FinishCommand, Complete, Status
  <2>2. CASE FinishInput
    BY <1>3, <2>2 DEF FinishInput, Complete, Status
  <2> QED BY <1>2, <1>5, <2>1, <2>2 DEF GameStep, BeginTick, PopCommand, CommandsDone,
                                        PopInput, InputsDone
<1>6. CASE ClearCommands \/ ClearInputs
  BY <1>2, <1>6 DEF ClearCommands, ClearInputs
<1>7. ASSUME NEW w \in Workers, PushInput(w) \/ \E t \in Types : Submit(w, t) PROVE Matched'
  BY <1>2, <1>7 DEF PushInput, Submit
<1>8. CASE UNCHANGED vars
  BY <1>2, <1>8 DEF vars
<1> QED BY <1>4, <1>5, <1>6, <1>7, <1>8 DEF Next

LEMMA MatchInit == Init => Matched
  BY EmptySeq DEF Init, Matched, Elements, Distinct

(* The result map and its eviction list hold the same sequence numbers, each
   once, within the bound. *)
THEOREM MapAndListMatch == Spec => []ResultsMatchOrder
<1>1. Init => Typed /\ Matched
  BY TypedInit, MatchInit
<1>2. Typed /\ Matched /\ [Next]_vars => (Typed /\ Matched)'
  BY TypedNext, MatchNext
<1>3. Matched => ResultsMatchOrder
  BY DEF Matched, Elements, Distinct, ResultsMatchOrder
<1> QED BY <1>1, <1>2, <1>3, PTL DEF Spec
=============================================================================
