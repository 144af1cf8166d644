-------------------------- MODULE CommandFateProofs -------------------------
(***************************************************************************)
(* What becomes of each command: proofs that CommandPipeline loses and     *)
(* duplicates none of them, that it supersedes one only for a newer one,   *)
(* that final answers stay and are true, and that it implements            *)
(* CommandLifecycle, for any number of workers, any command types and any  *)
(* sizes.                                                                  *)
(***************************************************************************)
EXTENDS CommandPipelineProofs

-----------------------------------------------------------------------------
(* Where the commands are, as sets.                                        *)

CommandOf(s) == [sequence |-> s, type |-> log[s].type]
IsOpen(s)    == log[s].fate = "open"

Open    == {CommandOf(s) : s \in {u \in DOMAIN log : IsOpen(u)}}
InQueue == Elements(queue)
InHands == [w \in Workers |-> Elements(doomed[w])]
InGame  == {c \in running : phase = "commands"}

(* The open commands are those of the queue, of the game thread and of the
   workers' hands, and no two of these hold the same one. *)
Divided(all, waiting, taken, held) ==
  /\ all = waiting \cup taken \cup UNION {held[w] : w \in Workers}
  /\ waiting \cap taken = {}
  /\ \A w \in Workers : held[w] \cap waiting = {} /\ held[w] \cap taken = {}
  /\ \A v, w \in Workers : v # w => held[v] \cap held[w] = {}
Partition == Divided(Open, InQueue, InGame, InHands)

(* The history has one entry per number given out. *)
Numbered == Len(log) = next - 1

(* What a worker holds: nothing unless it is reporting, at most one command
   after an eviction, commands of its own type while it coalesces. *)
HandsInOrder ==
  \A w \in Workers :
    /\ Ascending(doomed[w], 0, next)
    /\ pc[w] \notin {"discard", "evict"} => doomed[w] = << >>
    /\ pc[w] = "evict" => Len(doomed[w]) = 1
    /\ pc[w] = "discard" => \A c \in Elements(doomed[w]) : c.type = cmd[w].type

(* The game thread holds at most one command, and none between two ticks. *)
OneAtATime ==
  /\ \A c, d \in running : c = d
  /\ phase = "idle" => running = {}

Accounted == Numbered /\ HandsInOrder /\ OneAtATime /\ Partition

-----------------------------------------------------------------------------
(* What the operations of a queue do to the set of its commands.           *)

LEMMA ElementsAreCommands ==
  ASSUME NEW items \in Seq(Command)
  PROVE  Elements(items) \subseteq Command
  BY LenProperties, ElementOfSeq DEF Elements

LEMMA AscendingIsDistinct ==
  ASSUME NEW items \in Seq(Command), NEW above, NEW below, Ascending(items, above, below)
  PROVE  Distinct(items)
<1>1. DOMAIN items \subseteq Nat /\ \A i \in DOMAIN items : items[i].sequence \in Nat
  <2>1. DOMAIN items \subseteq Nat /\ \A i \in DOMAIN items : items[i] \in Command
    BY LenProperties, ElementOfSeq
  <2> QED BY <2>1 DEF Command
<1>2. \A i, j \in DOMAIN items : i < j => items[i].sequence < items[j].sequence
  BY DEF Ascending
<1> SUFFICES ASSUME NEW i \in DOMAIN items, NEW j \in DOMAIN items, items[i] = items[j], i # j
             PROVE  FALSE
  BY DEF Distinct
<1>3. i < j \/ j < i
  BY <1>1
<1>4. items[i].sequence < items[i].sequence
  BY <1>2, <1>3
<1> QED BY <1>1, <1>4

LEMMA HeadIsElement ==
  ASSUME NEW items \in Seq(Command), items # << >>
  PROVE  Head(items) \in Elements(items)
<1>1. 1 \in DOMAIN items /\ Head(items) = items[1]
  BY LenProperties, EmptySeq
<1> QED BY <1>1 DEF Elements

LEMMA PoppedElements ==
  ASSUME NEW items \in Seq(Command), items # << >>,
         NEW above, NEW below, Ascending(items, above, below)
  PROVE  Elements(Tail(items)) = Elements(items) \ {Head(items)}
  BY AscendingIsDistinct, TailDistinct

LEMMA PushedElements ==
  ASSUME NEW items \in Seq(Command), NEW above, NEW below, Ascending(items, above, below),
         NEW command \in Command, command \notin Elements(items)
  PROVE  /\ Elements(Evicted(items, Slots)) \subseteq Elements(items)
         /\ Elements(Pushed(items, Slots, command))
              = (Elements(items) \ Elements(Evicted(items, Slots))) \cup {command}
<1>1. CASE IsFull(items, Slots)
  <2>1. items # << >> /\ Tail(items) \in Seq(Command)
    BY <1>1, HeadTailProperties DEF IsFull
  <2>2. Elements(Tail(items)) = Elements(items) \ {Head(items)} /\ Distinct(Tail(items))
    BY <2>1, AscendingIsDistinct, TailDistinct
  <2>3. Elements(Append(Tail(items), command)) = Elements(Tail(items)) \cup {command}
    <3> DEFINE rest == Tail(items)
    <3>1. rest \in Seq(Command) /\ Distinct(rest) /\ command \notin Elements(rest)
      BY <2>1, <2>2
    <3> HIDE DEF rest
    <3>2. Elements(Append(rest, command)) = Elements(rest) \cup {command}
      BY <3>1, AppendDistinct
    <3> QED BY <3>2 DEF rest
  <2>4. Elements(<<Head(items)>>) = {Head(items)}
    BY DEF Elements
  <2> QED BY <1>1, <2>1, <2>2, <2>3, <2>4, HeadIsElement DEF Pushed, Evicted
<1>2. CASE ~IsFull(items, Slots)
  <2>1. Elements(Append(items, command)) = Elements(items) \cup {command}
    BY AscendingIsDistinct, AppendDistinct
  <2>2. Elements(<< >>) = {}
    BY DEF Elements
  <2> QED BY <1>2, <2>1, <2>2 DEF Pushed, Evicted
<1> QED BY <1>1, <1>2

LEMMA AtElements ==
  ASSUME NEW items \in Seq(Command), NEW positions \in SUBSET DOMAIN items,
         NEW h \in Enumerations(positions)
  PROVE  Elements(At(items, h)) = {items[p] : p \in positions}
<1>1. /\ DOMAIN At(items, h) = DOMAIN h
      /\ \A i \in DOMAIN h : h[i] \in positions /\ At(items, h)[i] = items[h[i]]
  BY AtType
<1>2. \A p \in positions : \E i \in DOMAIN h : h[i] = p
  BY DEF Enumerations
<1> QED BY <1>1, <1>2 DEF Elements

LEMMA SplitElements ==
  ASSUME NEW items \in Seq(Command), NEW type,
         NEW kept \in Enumerations(PositionsNotOf(items, type)),
         NEW gone \in Enumerations(PositionsOf(items, type))
  PROVE  /\ Elements(At(items, kept)) = {c \in Elements(items) : c.type # type}
         /\ Elements(At(items, gone)) = {c \in Elements(items) : c.type = type}
<1>1. /\ PositionsNotOf(items, type) \subseteq DOMAIN items
      /\ PositionsOf(items, type) \subseteq DOMAIN items
  BY DEF PositionsNotOf, PositionsOf
<1>2. /\ Elements(At(items, kept)) = {items[p] : p \in PositionsNotOf(items, type)}
      /\ Elements(At(items, gone)) = {items[p] : p \in PositionsOf(items, type)}
  BY <1>1, AtElements
<1> QED BY <1>2 DEF Elements, PositionsNotOf, PositionsOf

-----------------------------------------------------------------------------
(* What the history operations do to the set of open commands.             *)

LEMMA LogShape ==
  ASSUME Typed
  PROVE  /\ DOMAIN log = 1..Len(log) /\ Len(log) \in Nat
         /\ \A s \in DOMAIN log : log[s] \in Record
  BY LenProperties, ElementOfSeq DEF Typed, TypeOK

LEMMA OpenCommands ==
  ASSUME Typed, NEW c \in Open
  PROVE  /\ c.sequence \in DOMAIN log /\ IsOpen(c.sequence) /\ c = CommandOf(c.sequence)
         /\ c \in Command
<1>1. PICK s \in DOMAIN log : IsOpen(s) /\ c = CommandOf(s)
  BY DEF Open
<1>2. s \in Nat /\ log[s].type \in Types
  BY LogShape DEF Record
<1> QED BY <1>1, <1>2 DEF CommandOf, Command

LEMMA OpenAfterFate ==
  ASSUME Typed, NEW c \in Open, NEW fate \in Fates \ {"open"}, SetFate(c.sequence, fate)
  PROVE  /\ Open' = Open \ {c}
         /\ Len(log') = Len(log) /\ DOMAIN log' = DOMAIN log
         /\ \A s \in DOMAIN log : log'[s].type = log[s].type
         /\ \A s \in DOMAIN log \ {c.sequence} : log'[s] = log[s]
         /\ log'[c.sequence].fate = fate
<1>1. c.sequence \in DOMAIN log /\ IsOpen(c.sequence) /\ c = CommandOf(c.sequence)
  BY OpenCommands
<1>2. /\ DOMAIN log' = DOMAIN log
      /\ log'[c.sequence] = [log[c.sequence] EXCEPT !.fate = fate]
      /\ \A s \in DOMAIN log \ {c.sequence} : log'[s] = log[s]
  BY <1>1 DEF SetFate
<1>3. \A s \in DOMAIN log : log[s] \in Record
  BY LogShape
<1>4. log'[c.sequence].fate = fate /\ log'[c.sequence].type = log[c.sequence].type
  BY <1>1, <1>2, <1>3 DEF Record
<1>5. \A s \in DOMAIN log : log'[s].type = log[s].type
  BY <1>2, <1>4
<1>6. \A s \in DOMAIN log : IsOpen(s)' <=> IsOpen(s) /\ s # c.sequence
  BY <1>1, <1>2, <1>4 DEF IsOpen
<1>7. \A s \in DOMAIN log : CommandOf(s)' = CommandOf(s)
  BY <1>5 DEF CommandOf
<1>8. \A s \in DOMAIN log : CommandOf(s) = c <=> s = c.sequence
  BY <1>1 DEF CommandOf
<1>9. Open' = Open \ {c}
  BY <1>2, <1>6, <1>7, <1>8 DEF Open
<1>10. log' \in Seq(Record)
  <2>1. c.sequence \in Nat /\ fate \in Fates
    BY <1>1, LogShape
  <2> QED BY <2>1, SetFateType DEF Typed, TypeOK
<1>11. Len(log') = Len(log)
  BY <1>2, <1>10, LogShape, LenProperties
<1> QED BY <1>2, <1>4, <1>5, <1>9, <1>11

LEMMA OpenAfterPush ==
  ASSUME Typed, Numbered, NEW type \in Types,
         log' = Append(log, [type |-> type, fate |-> "open"])
  PROVE  /\ [sequence |-> next, type |-> type] \notin Open
         /\ Open' = Open \cup {[sequence |-> next, type |-> type]}
         /\ Len(log') = next /\ DOMAIN log' = DOMAIN log \cup {next}
         /\ next \notin DOMAIN log
         /\ \A s \in DOMAIN log : s < next /\ log'[s] = log[s]
         /\ log'[next] = [type |-> type, fate |-> "open"]
<1>1. log \in Seq(Record) /\ DOMAIN log = 1..Len(log) /\ next = Len(log) + 1 /\ Len(log) \in Nat
  BY LogShape DEF Numbered, Typed, TypeOK
<1>2. /\ DOMAIN log' = 1..(Len(log) + 1) /\ Len(log') = Len(log) + 1
      /\ \A s \in 1..Len(log) : log'[s] = log[s]
      /\ log'[next] = [type |-> type, fate |-> "open"]
  BY <1>1
<1>3. next \notin DOMAIN log /\ DOMAIN log' = DOMAIN log \cup {next}
  BY <1>1, <1>2
<1>4. \A s \in DOMAIN log : s < next /\ (IsOpen(s)' <=> IsOpen(s)) /\ CommandOf(s)' = CommandOf(s)
  BY <1>1, <1>2 DEF IsOpen, CommandOf
<1>5. \A n \in {next} : IsOpen(n)' /\ CommandOf(n)' = [sequence |-> n, type |-> type]
  <2> DEFINE entry == [type |-> type, fate |-> "open"]
  <2>0. entry.fate = "open" /\ entry.type = type
    OBVIOUS
  <2> HIDE DEF entry
  <2>1. log'[next].fate = "open" /\ log'[next].type = type
    BY <1>2, <2>0 DEF entry
  <2> QED BY <2>1 DEF IsOpen, CommandOf
<1>6. Open' = Open \cup {[sequence |-> next, type |-> type]}
  BY <1>3, <1>4, <1>5 DEF Open
<1>7. [sequence |-> next, type |-> type] \notin Open
  BY <1>3 DEF Open, CommandOf
<1> QED BY <1>1, <1>2, <1>3, <1>4, <1>6, <1>7

-----------------------------------------------------------------------------
(* The ways in which a division into places changes.                       *)

LEMMA DividedByCoalescing ==
  ASSUME NEW all, NEW waiting, NEW taken, NEW held, DOMAIN held = Workers,
         Divided(all, waiting, taken, held),
         NEW w \in Workers, held[w] = {}, NEW gone \in SUBSET waiting
  PROVE  Divided(all, waiting \ gone, taken, [held EXCEPT ![w] = gone])
  BY DEF Divided

LEMMA DividedByReporting ==
  ASSUME NEW all, NEW waiting, NEW taken, NEW held, DOMAIN held = Workers,
         Divided(all, waiting, taken, held),
         NEW w \in Workers, NEW c \in held[w]
  PROVE  /\ c \in all
         /\ Divided(all \ {c}, waiting, taken, [held EXCEPT ![w] = @ \ {c}])
  BY DEF Divided

LEMMA DividedByPushing ==
  ASSUME NEW all, NEW waiting, NEW taken, NEW held, DOMAIN held = Workers,
         Divided(all, waiting, taken, held),
         NEW w \in Workers, held[w] = {}, NEW gone \in SUBSET waiting, NEW c, c \notin all
  PROVE  Divided(all \cup {c}, (waiting \ gone) \cup {c}, taken, [held EXCEPT ![w] = gone])
  BY DEF Divided

LEMMA DividedByTaking ==
  ASSUME NEW all, NEW waiting, NEW held, Divided(all, waiting, {}, held), NEW c \in waiting
  PROVE  Divided(all, waiting \ {c}, {c}, held)
  BY DEF Divided

LEMMA DividedByFinishing ==
  ASSUME NEW all, NEW waiting, NEW held, NEW c, Divided(all, waiting, {c}, held)
  PROVE  c \in all /\ Divided(all \ {c}, waiting, {}, held)
  BY DEF Divided

LEMMA DividedByClearing ==
  ASSUME NEW all, NEW waiting, NEW taken, NEW held, Divided(all, waiting, taken, held)
  PROVE  Divided(all \ waiting, {}, taken, held)
  BY DEF Divided

-----------------------------------------------------------------------------
(* Every step keeps the account.                                           *)

(* What the account is about. *)
account == <<queue, next, pc, cmd, doomed, phase, running, log>>

LEMMA AscendsWider ==
  ASSUME NEW items \in Seq(Command), NEW above \in Nat, NEW below \in Nat,
         Ascending(items, above, below),
         NEW from \in Nat, NEW to \in Nat, from <= above, below <= to
  PROVE  Ascending(items, from, to)
<1>1. \A i \in DOMAIN items : items[i] \in Command
  BY LenProperties, ElementOfSeq
<1>2. \A i \in DOMAIN items : items[i].sequence \in Nat
  BY <1>1 DEF Command
<1> QED BY <1>2 DEF Ascending

LEMMA AccountInit == Init => Accounted
<1> SUFFICES ASSUME Init PROVE Accounted
  OBVIOUS
<1>1. Elements(<< >>) = {} /\ Len(<< >>) = 0 /\ Ascending(<< >>, 0, next)
  BY DEF Elements, Ascending
<1>2. Open = {} /\ InQueue = {} /\ InGame = {} /\ \A w \in Workers : InHands[w] = {}
  BY <1>1 DEF Init, Open, InQueue, InGame, InHands
<1>3. Partition
  BY <1>2 DEF Partition, Divided
<1> QED BY <1>1, <1>3 DEF Init, Accounted, Numbered, HandsInOrder, OneAtATime

LEMMA CoalesceKeepsAccount ==
  ASSUME Typed, InOrder, Accounted, NEW w \in Workers, Coalesce(w)
  PROVE  /\ Accounted'
         /\ InQueue' = {c \in InQueue : c.type # cmd[w].type}
         /\ InHands' = [InHands EXCEPT ![w] = {c \in InQueue : c.type = cmd[w].type}]
         /\ InHands[w] = {} /\ InGame' = InGame
<1>1. PICK kept \in Enumerations(PositionsNotOf(queue, cmd[w].type)),
           gone \in Enumerations(PositionsOf(queue, cmd[w].type)) :
        queue' = At(queue, kept) /\ doomed' = [doomed EXCEPT ![w] = At(queue, gone)]
  BY DEF Coalesce
<1>2. queue \in Seq(Command) /\ doomed \in [Workers -> Seq(Command)] /\ DOMAIN pc = Workers
      /\ next \in Nat /\ lastTaken \in Nat
  BY DEF Typed, TypeOK
<1>3. doomed'[w] = At(queue, gone) /\ doomed'[w] \in Seq(Command)
  BY <1>1, <1>2, AtType DEF PositionsOf
<1>4. /\ Elements(queue') = {c \in Elements(queue) : c.type # cmd[w].type}
      /\ Elements(doomed'[w]) = {c \in Elements(queue) : c.type = cmd[w].type}
  BY <1>1, <1>2, <1>3, SplitElements
<1>5. Ascending(doomed'[w], 0, next)
  <2>1. Ascending(doomed'[w], lastTaken, next)
    BY <1>2, <1>3, KeptAscends DEF PositionsOf, InOrder
  <2>2. 0 \in Nat /\ 0 <= lastTaken /\ next <= next
    BY <1>2
  <2> HIDE DEF Typed, TypeOK
  <2> QED BY <1>2, <1>3, <2>1, <2>2, AscendsWider
<1>6. pc[w] = "coalesce" /\ doomed[w] = << >> /\ pc' = [pc EXCEPT ![w] = "discard"]
      /\ UNCHANGED <<next, cmd, phase, running, log>>
  BY DEF Coalesce, Accounted, HandsInOrder, game, history
<1>7. HandsInOrder'
  BY <1>1, <1>2, <1>4, <1>5, <1>6 DEF Accounted, HandsInOrder
<1>8. Elements(doomed[w]) = {}
  BY <1>6 DEF Elements
<1>9. /\ InHands' = [InHands EXCEPT ![w] = Elements(doomed'[w])]
      /\ InQueue' = InQueue \ Elements(doomed'[w])
      /\ InGame' = InGame /\ Open' = Open
  BY <1>1, <1>2, <1>4, <1>6 DEF InHands, InQueue, InGame, Open, IsOpen, CommandOf
<1>10. Partition'
  <2>1. Elements(doomed'[w]) \subseteq InQueue /\ InHands[w] = {} /\ DOMAIN InHands = Workers
    BY <1>4, <1>8 DEF InQueue, InHands
  <2>2. Divided(Open, InQueue, InGame, InHands)
    BY DEF Accounted, Partition
  <2> QED BY <1>9, <2>1, <2>2, DividedByCoalescing DEF Partition
<1>11. Accounted'
  BY <1>6, <1>7, <1>10 DEF Accounted, Numbered, OneAtATime
<1>12. InHands[w] = {}
  BY <1>8 DEF InHands
<1> QED BY <1>4, <1>9, <1>11, <1>12 DEF InQueue

LEMMA ReportKeepsAccount ==
  ASSUME Typed, InOrder, Accounted, NEW w \in Workers, ReportSuperseded(w) \/ ReportDropped(w)
  PROVE  /\ Accounted'
         /\ Head(doomed[w]) \in InHands[w] /\ Head(doomed[w]) \in Open
         /\ InHands' = [InHands EXCEPT ![w] = @ \ {Head(doomed[w])}]
         /\ InQueue' = InQueue /\ InGame' = InGame
<1> DEFINE c == Head(doomed[w])
<1>1. doomed[w] # << >> /\ doomed[w] \in Seq(Command) /\ Ascending(doomed[w], 0, next)
      /\ next \in Nat
  BY DEF ReportSuperseded, ReportDropped, Typed, TypeOK, Submitted, Accounted, HandsInOrder
<1>2. c \in Elements(doomed[w]) /\ Elements(Tail(doomed[w])) = Elements(doomed[w]) \ {c}
  BY <1>1, HeadIsElement, PoppedElements
<1>3. doomed' = [doomed EXCEPT ![w] = Tail(@)]
  <2>1. CASE ReportSuperseded(w)
    BY <2>1 DEF ReportSuperseded
  <2>2. CASE ReportDropped(w)
    <3>1. Len(doomed[w]) = 1
      BY <2>2 DEF ReportDropped, Accounted, HandsInOrder
    <3>2. Tail(doomed[w]) = << >>
      <4>1. Tail(doomed[w]) \in Seq(Command) /\ Len(Tail(doomed[w])) = 0
        BY <1>1, <3>1, HeadTailProperties
      <4> QED BY <4>1, EmptySeq
    <3> QED BY <2>2, <3>2 DEF ReportDropped
  <2> QED BY <2>1, <2>2
<1>4. /\ InHands' = [InHands EXCEPT ![w] = @ \ {c}]
      /\ InQueue' = InQueue /\ InGame' = InGame
  BY <1>2, <1>3 DEF ReportSuperseded, ReportDropped, InHands, InQueue, InGame, queues, game,
                    Typed, TypeOK
<1>5. c \in InHands[w] /\ DOMAIN InHands = Workers /\ Divided(Open, InQueue, InGame, InHands)
  BY <1>2 DEF InHands, Accounted, Partition
<1>6. c \in Open /\ Divided(Open \ {c}, InQueue, InGame, InHands')
  BY <1>4, <1>5, DividedByReporting
<1>7. Open' = Open \ {c} /\ Len(log') = Len(log)
  <2>1. PICK fate \in {"superseded", "dropped"} : SetFate(c.sequence, fate)
    BY DEF ReportSuperseded, ReportDropped
  <2>2. fate \in Fates \ {"open"}
    BY DEF Fates
  <2> QED BY <1>6, <2>1, <2>2, OpenAfterFate
<1>8. Ascending(doomed'[w], 0, next)
  BY <1>1, <1>3, TailAscends DEF Typed, TypeOK
<1>9. HandsInOrder'
  <2>1. CASE ReportSuperseded(w)
    <3>1. pc[w] = "discard" /\ UNCHANGED <<pc, cmd, next>>
      BY <2>1 DEF ReportSuperseded, queues
    <3>2. \A d \in Elements(doomed'[w]) : d.type = cmd[w].type
      BY <1>2, <1>3, <3>1 DEF Accounted, HandsInOrder, Typed, TypeOK
    <3> QED BY <1>3, <1>8, <3>1, <3>2 DEF Accounted, HandsInOrder, Typed, TypeOK
  <2>2. CASE ReportDropped(w)
    <3>1. doomed' = [doomed EXCEPT ![w] = << >>] /\ pc' = [pc EXCEPT ![w] = "mark"]
          /\ UNCHANGED <<cmd, next>>
      BY <2>2 DEF ReportDropped, queues
    <3> QED BY <1>8, <3>1 DEF Accounted, HandsInOrder, Typed, TypeOK
  <2> QED BY <2>1, <2>2
<1>10. Numbered' /\ OneAtATime'
  BY <1>7 DEF ReportSuperseded, ReportDropped, queues, game, Accounted, Numbered, OneAtATime
<1> QED BY <1>4, <1>5, <1>6, <1>7, <1>9, <1>10 DEF Accounted, Partition

LEMMA PushKeepsAccount ==
  ASSUME Typed, InOrder, Accounted, NEW w \in Workers, Push(w)
  PROVE  /\ Accounted'
         /\ InQueue' = (InQueue \ Elements(Evicted(queue, Slots)))
                         \cup {[sequence |-> next, type |-> cmd[w].type]}
         /\ InHands' = [InHands EXCEPT ![w] = Elements(Evicted(queue, Slots))]
         /\ InHands[w] = {} /\ InGame' = InGame
<1> DEFINE pushed == [cmd[w] EXCEPT !.sequence = next]
           gone == Evicted(queue, Slots)
<1>1. pushed = [sequence |-> next, type |-> cmd[w].type] /\ pushed \in Command
      /\ cmd[w].type \in Types
  BY DEF Push, Typed, TypeOK, Submitted, Command
<1>2. /\ queue' = Pushed(queue, Slots, pushed) /\ doomed' = [doomed EXCEPT ![w] = gone]
      /\ next' = next + 1 /\ cmd' = [cmd EXCEPT ![w] = pushed]
      /\ pc[w] = "push" /\ pc' = [pc EXCEPT ![w] = IF IsFull(queue, Slots) THEN "evict" ELSE "mark"]
      /\ log' = Append(log, [type |-> cmd[w].type, fate |-> "open"])
      /\ UNCHANGED <<phase, running>>
  BY DEF Push, game
<1>3. queue \in Seq(Command) /\ doomed \in [Workers -> Seq(Command)] /\ next \in Nat
      /\ DOMAIN pc = Workers /\ lastTaken \in Nat /\ doomed[w] = << >>
      /\ cmd \in [Workers -> Command]
  BY <1>2 DEF Typed, TypeOK, Accounted, HandsInOrder
<1> HIDE DEF pushed
<1>4. pushed \notin Open /\ Open' = Open \cup {pushed} /\ Len(log') = next
  BY <1>1, <1>2, OpenAfterPush DEF Accounted
<1>5. pushed \notin InQueue /\ DOMAIN InHands = Workers /\ Divided(Open, InQueue, InGame, InHands)
  BY <1>4 DEF Accounted, Partition, Divided, InHands
<1>6. /\ Elements(gone) \subseteq InQueue
      /\ InQueue' = (InQueue \ Elements(gone)) \cup {pushed}
  BY <1>1, <1>2, <1>3, <1>5, PushedElements DEF InQueue, InOrder
<1>7. InHands' = [InHands EXCEPT ![w] = Elements(gone)] /\ InHands[w] = {} /\ InGame' = InGame
  <2>1. Elements(doomed[w]) = {}
    BY <1>3 DEF Elements
  <2> QED BY <1>2, <1>3, <2>1 DEF InHands, InGame
<1>8. Partition'
  BY <1>4, <1>5, <1>6, <1>7, DividedByPushing DEF Partition
<1>9. /\ gone \in Seq(Command) /\ Ascending(gone, 0, next + 1)
      /\ IF IsFull(queue, Slots) THEN Len(gone) = 1 ELSE gone = << >>
  <2>1. CASE IsFull(queue, Slots)
    <3>1. gone = <<Head(queue)>> /\ Head(queue) \in Command
          /\ lastTaken < Head(queue).sequence /\ Head(queue).sequence < next
      BY <1>3, <2>1, TailAscends, HeadTailProperties DEF Evicted, IsFull, InOrder
    <3>2. Head(queue).sequence \in Nat
      BY <3>1 DEF Command
    <3> QED BY <1>3, <2>1, <3>1, <3>2 DEF Ascending
  <2>2. CASE ~IsFull(queue, Slots)
    BY <2>2, EmptySeq DEF Evicted, Ascending
  <2> QED BY <2>1, <2>2
<1> HIDE DEF gone
<1>10. \A v \in Workers : Ascending(doomed[v], 0, next + 1)
  BY <1>3, AscendsWider DEF Accounted, HandsInOrder
<1>11. HandsInOrder'
  <2> SUFFICES ASSUME NEW v \in Workers
               PROVE  (/\ Ascending(doomed[v], 0, next)
                       /\ pc[v] \notin {"discard", "evict"} => doomed[v] = << >>
                       /\ pc[v] = "evict" => Len(doomed[v]) = 1
                       /\ pc[v] = "discard" =>
                            \A c \in Elements(doomed[v]) : c.type = cmd[v].type)'
    BY DEF HandsInOrder
  <2>1. CASE v = w
    BY <1>2, <1>3, <1>9, <2>1
  <2>2. CASE v # w
    <3>1. doomed'[v] = doomed[v] /\ pc'[v] = pc[v] /\ cmd'[v] = cmd[v]
      BY <1>2, <1>3, <2>2
    <3> QED BY <1>2, <1>10, <3>1 DEF Accounted, HandsInOrder
  <2> QED BY <2>1, <2>2
<1>12. Accounted'
  BY <1>2, <1>3, <1>4, <1>8, <1>11 DEF Accounted, Numbered, OneAtATime
<1> QED BY <1>1, <1>6, <1>7, <1>12 DEF gone

LEMMA PopKeepsAccount ==
  ASSUME Typed, InOrder, Accounted, PopCommand
  PROVE  /\ Accounted'
         /\ Head(queue) \in InQueue
         /\ InGame = {} /\ InGame' = {Head(queue)} /\ InQueue' = InQueue \ {Head(queue)}
         /\ InHands' = InHands
<1> DEFINE c == Head(queue)
<1>1. /\ queue \in Seq(Command) /\ queue # << >> /\ queue' = Tail(queue)
      /\ phase = "commands" /\ running = {} /\ running' = {c}
      /\ UNCHANGED <<next, pc, cmd, doomed, phase, log>>
  BY DEF PopCommand, Typed, TypeOK, locals
<1>2. c \in InQueue /\ InQueue' = InQueue \ {c}
  BY <1>1, HeadIsElement, PoppedElements DEF InQueue, InOrder
<1>3. InGame = {} /\ InGame' = {c} /\ InHands' = InHands /\ Open' = Open
  BY <1>1 DEF InGame, InHands, Open, IsOpen, CommandOf
<1>4. Partition'
  BY <1>2, <1>3, DividedByTaking DEF Accounted, Partition
<1>5. HandsInOrder' /\ OneAtATime' /\ Numbered'
  BY <1>1 DEF Accounted, HandsInOrder, OneAtATime, Numbered
<1> QED BY <1>2, <1>3, <1>4, <1>5 DEF Accounted

LEMMA FinishKeepsAccount ==
  ASSUME Typed, Accounted, NEW c \in running, phase = "commands",
         SetFate(c.sequence, "executed"), running' = {},
         UNCHANGED <<queues, locals, phase>>
  PROVE  /\ Accounted'
         /\ InGame = {c} /\ InGame' = {} /\ c \in Open
         /\ InQueue' = InQueue /\ InHands' = InHands
<1>1. running = {c}
  BY DEF Accounted, OneAtATime
<1>2. InGame = {c} /\ InGame' = {} /\ InHands' = InHands /\ InQueue' = InQueue
  BY <1>1 DEF InGame, InHands, InQueue, queues, locals
<1>3. c \in Open /\ Divided(Open \ {c}, InQueue, {}, InHands)
  BY <1>2, DividedByFinishing DEF Accounted, Partition
<1>4. Open' = Open \ {c} /\ Len(log') = Len(log)
  BY <1>3, OpenAfterFate DEF Fates
<1>5. Partition'
  BY <1>2, <1>3, <1>4 DEF Partition
<1>6. HandsInOrder' /\ OneAtATime' /\ Numbered'
  BY <1>4 DEF Accounted, HandsInOrder, OneAtATime, Numbered, locals, queues
<1> QED BY <1>2, <1>3, <1>5, <1>6 DEF Accounted

(* A number of the queue or of a worker's hands is an open command's. *)
LEMMA PlaceBySequence ==
  ASSUME Typed, Accounted, NEW list \in Seq(Command), Elements(list) \subseteq Open,
         NEW s \in DOMAIN log
  PROVE  (\E i \in DOMAIN list : list[i].sequence = s) <=> CommandOf(s) \in Elements(list)
<1>1. \A c \in Elements(list) : c = CommandOf(c.sequence)
  BY OpenCommands
<1>2. CommandOf(s).sequence = s
  BY DEF CommandOf
<1> QED BY <1>1, <1>2 DEF Elements

LEMMA PlacesAreOpen ==
  ASSUME Accounted
  PROVE  /\ InQueue \subseteq Open /\ InGame \subseteq Open
         /\ \A w \in Workers : InHands[w] = Elements(doomed[w]) /\ InHands[w] \subseteq Open
  BY DEF Accounted, Partition, Divided, InHands

LEMMA ClearKeepsAccount ==
  ASSUME Typed, Accounted, ClearCommands
  PROVE  /\ Accounted' /\ Open' = Open \ InQueue
         /\ InQueue' = {} /\ InGame' = InGame /\ InHands' = InHands
<1>1. /\ queue' = << >> /\ DOMAIN log' = DOMAIN log
      /\ \A s \in DOMAIN log :
           log'[s] = IF \E i \in DOMAIN queue : queue[i].sequence = s
                       THEN [log[s] EXCEPT !.fate = "cleared"] ELSE log[s]
      /\ UNCHANGED <<next, pc, cmd, doomed, phase, running>>
  BY DEF ClearCommands, locals, game
<1>2. \A s \in DOMAIN log :
        (\E i \in DOMAIN queue : queue[i].sequence = s) <=> CommandOf(s) \in InQueue
  BY PlaceBySequence, PlacesAreOpen DEF InQueue, Typed, TypeOK
<1>3. \A s \in DOMAIN log : log[s] \in Record
  BY LogShape
<1>4. \A s \in DOMAIN log : /\ log'[s].type = log[s].type
                            /\ log'[s].fate = IF CommandOf(s) \in InQueue THEN "cleared"
                                                                          ELSE log[s].fate
  BY <1>1, <1>2, <1>3 DEF Record
<1>5. \A s \in DOMAIN log : /\ CommandOf(s)' = CommandOf(s)
                            /\ IsOpen(s)' <=> IsOpen(s) /\ CommandOf(s) \notin InQueue
  BY <1>4 DEF CommandOf, IsOpen
<1>6. Open' = Open \ InQueue
  BY <1>1, <1>5 DEF Open
<1>7. InQueue' = {} /\ InGame' = InGame /\ InHands' = InHands
  BY <1>1 DEF InQueue, InGame, InHands, Elements
<1>8. Partition'
  BY <1>6, <1>7, DividedByClearing DEF Accounted, Partition
<1>9. HandsInOrder' /\ OneAtATime'
  BY <1>1 DEF Accounted, HandsInOrder, OneAtATime
<1>10. Numbered'
  <2>1. log \in Seq(Record) /\ log' \in Seq(Record)
    BY ClearsKeepTypes DEF Typed, TypeOK
  <2>2. Len(log') = Len(log)
    BY <1>1, <2>1, LenProperties
  <2> QED BY <1>1, <2>2 DEF Accounted, Numbered
<1> QED BY <1>6, <1>7, <1>8, <1>9, <1>10 DEF Accounted

(* The steps that move no command. *)
LEMMA OthersKeepAccount ==
  ASSUME Typed, Accounted,
         UNCHANGED <<queue, next, cmd, doomed, log>>,
         \/ UNCHANGED <<pc, phase, running>>
         \/ /\ UNCHANGED <<phase, running>>
            /\ \E w \in Workers : CoalesceDone(w) \/ Mark(w)
         \/ /\ BeginTick \/ CommandsDone \/ PopInput \/ FinishInput \/ InputsDone
            /\ UNCHANGED pc
  PROVE  Accounted'
<1>1. InQueue' = InQueue /\ InHands' = InHands /\ Open' = Open
  BY DEF InQueue, InHands, Open, IsOpen, CommandOf
<1>2. InGame' = InGame /\ OneAtATime'
  <2>1. CASE UNCHANGED <<phase, running>>
    BY <2>1 DEF InGame, OneAtATime, Accounted
  <2>2. CASE BeginTick \/ CommandsDone \/ InputsDone
    <3>1. running = {} /\ running' = {}
      BY <2>2 DEF BeginTick, CommandsDone, InputsDone, OneAtATime, Accounted
    <3> QED BY <3>1 DEF InGame, OneAtATime
  <2>3. CASE PopInput \/ FinishInput
    BY <2>3 DEF PopInput, FinishInput, InGame, OneAtATime
  <2> QED BY <2>1, <2>2, <2>3
<1>3. HandsInOrder'
  BY DEF CoalesceDone, Mark, HandsInOrder, Accounted, Typed, TypeOK
<1> QED BY <1>1, <1>2, <1>3 DEF Accounted, Numbered, Partition

LEMMA SubmitKeepsAccount ==
  ASSUME Typed, Accounted, NEW w \in Workers, NEW t \in Types, Submit(w, t)
  PROVE  Accounted'
<1>1. UNCHANGED <<queue, next, doomed, phase, running, log>>
  BY DEF Submit, queues, game, history
<1>2. InQueue' = InQueue /\ InHands' = InHands /\ Open' = Open /\ InGame' = InGame
  BY <1>1 DEF InQueue, InHands, Open, IsOpen, CommandOf, InGame
<1>3. HandsInOrder'
  BY <1>1 DEF Submit, HandsInOrder, Accounted, Typed, TypeOK
<1> QED BY <1>1, <1>2, <1>3 DEF Accounted, Numbered, OneAtATime, Partition

LEMMA AccountNext == Typed /\ InOrder /\ Accounted /\ [Next]_vars => Accounted'
<1> SUFFICES ASSUME Typed, InOrder, Accounted, [Next]_vars PROVE Accounted'
  OBVIOUS
<1> USE DEF queues, locals, game, history
<1>1. CASE UNCHANGED account
  BY <1>1, OthersKeepAccount DEF account
<1>2. ASSUME NEW w \in Workers, WorkerStep(w) PROVE Accounted'
  <2>1. CASE CoalesceDone(w)
    BY <2>1, OthersKeepAccount DEF CoalesceDone
  <2>2. CASE Mark(w)
    BY <2>2, OthersKeepAccount DEF Mark
  <2> QED BY <1>2, <2>1, <2>2, CoalesceKeepsAccount, ReportKeepsAccount, PushKeepsAccount
          DEF WorkerStep
<1>3. CASE GameStep
  <2>1. CASE FinishCommand
    <3>1. PICK c \in running : SetFate(c.sequence, "executed")
      BY <2>1 DEF FinishCommand
    <3> QED BY <2>1, <3>1, FinishKeepsAccount DEF FinishCommand
  <2>2. CASE BeginTick \/ CommandsDone \/ PopInput \/ FinishInput \/ InputsDone
    BY <2>2, OthersKeepAccount DEF BeginTick, CommandsDone, PopInput, FinishInput, InputsDone
  <2> QED BY <1>3, <2>1, <2>2, PopKeepsAccount DEF GameStep
<1>4. ASSUME NEW w \in Workers, NEW t \in Types, Submit(w, t) PROVE Accounted'
  BY <1>4, SubmitKeepsAccount
<1>5. CASE ClearInputs \/ \E w \in Workers : PushInput(w)
  BY <1>1, <1>5 DEF ClearInputs, PushInput, account
<1>6. CASE UNCHANGED vars
  BY <1>1, <1>6 DEF vars, account
<1> QED BY <1>2, <1>3, <1>4, <1>5, <1>6, ClearKeepsAccount DEF Next

(* Whatever the interleaving, the commands whose fate is open are exactly those
   in the queue, in the hands of the workers and in the game thread. *)
THEOREM CommandsAreAccounted == Spec => [](Typed /\ InOrder /\ Accounted)
<1>1. Init => Typed /\ InOrder /\ Accounted
  BY TypedInit, OrderInit, AccountInit
<1>2. Typed /\ InOrder /\ Accounted /\ [Next]_vars => (Typed /\ InOrder /\ Accounted)'
  BY TypedNext, OrderNext, AccountNext
<1> QED BY <1>1, <1>2, PTL DEF Spec

-----------------------------------------------------------------------------
(* Nothing is lost: each open command has one holder.                      *)

LEMMA OnePosition ==
  ASSUME NEW list \in Seq(Command), NEW above, NEW below, Ascending(list, above, below),
         NEW c \in Elements(list)
  PROVE  \E i \in DOMAIN list : \A j \in DOMAIN list : list[j].sequence = c.sequence <=> j = i
<1>1. PICK i \in DOMAIN list : list[i] = c
  BY DEF Elements
<1>2. DOMAIN list \subseteq Nat /\ \A j \in DOMAIN list : list[j] \in Command
  BY LenProperties, ElementOfSeq
<1>3. \A j \in DOMAIN list : list[j].sequence \in Nat
  BY <1>2 DEF Command
<1>4. \A j, k \in DOMAIN list : j < k => list[j].sequence < list[k].sequence
  BY DEF Ascending
<1>5. ASSUME NEW j \in DOMAIN list, list[j].sequence = c.sequence PROVE j = i
  <2>1. ~(j < i) /\ ~(i < j)
    BY <1>1, <1>3, <1>4, <1>5
  <2> QED BY <1>2, <2>1
<1> QED BY <1>1, <1>5

LEMMA NoPosition ==
  ASSUME Typed, Accounted, NEW list \in Seq(Command), Elements(list) \subseteq Open,
         NEW s \in DOMAIN log, CommandOf(s) \notin Elements(list)
  PROVE  {j \in DOMAIN list : list[j].sequence = s} = {}
  BY PlaceBySequence

LEMMA OpenByNumber ==
  ASSUME Typed, NEW s \in DOMAIN log
  PROVE  CommandOf(s) \in Open <=> IsOpen(s)
  BY DEF Open, CommandOf

LEMMA OneHolder ==
  ASSUME Typed, InOrder, Accounted, NEW s \in DOMAIN log
  PROVE  IF IsOpen(s) THEN \E h : Holders(s) = {h} ELSE Holders(s) = {}
<1> DEFINE c == CommandOf(s)
           Sites(list) == {j \in DOMAIN list : list[j].sequence = s}
           InG == {d \in running : phase = "commands" /\ d.sequence = s}
<1>1. /\ queue \in Seq(Command) /\ \A w \in Workers : doomed[w] \in Seq(Command)
      /\ Ascending(queue, lastTaken, next) /\ \A w \in Workers : Ascending(doomed[w], 0, next)
  BY DEF Typed, TypeOK, InOrder, Accounted, HandsInOrder
<1>2. /\ InQueue = Elements(queue) /\ InQueue \subseteq Open /\ InGame \subseteq Open
      /\ \A w \in Workers : InHands[w] \subseteq Open /\ InHands[w] = Elements(doomed[w])
  BY PlacesAreOpen DEF InQueue
<1>3. c.sequence = s
  BY DEF CommandOf
<1> HIDE DEF c
<1>4. c \in InQueue => \E i : Sites(queue) = {i}
  <2> SUFFICES ASSUME c \in Elements(queue) PROVE \E i : Sites(queue) = {i}
    BY <1>2
  <2>1. queue \in Seq(Command) /\ Ascending(queue, lastTaken, next)
    BY <1>1
  <2>2. \E i \in DOMAIN queue : \A j \in DOMAIN queue : queue[j].sequence = c.sequence <=> j = i
    BY <2>1, OnePosition
  <2> QED BY <1>3, <2>2
<1>5. c \notin InQueue => Sites(queue) = {}
  BY <1>1, <1>2, NoPosition DEF c
<1>6. ASSUME NEW w \in Workers, c \in InHands[w] PROVE \E i : Sites(doomed[w]) = {i}
  <2>1. \E i \in DOMAIN doomed[w] : \A j \in DOMAIN doomed[w] :
          doomed[w][j].sequence = c.sequence <=> j = i
    BY <1>1, <1>2, <1>6, OnePosition
  <2> QED BY <1>3, <2>1
<1>7. \A w \in Workers : c \notin InHands[w] => Sites(doomed[w]) = {}
  BY <1>1, <1>2, NoPosition DEF c
<1>8. InG = IF c \in InGame THEN {c} ELSE {}
  <2>1. \A d \in InGame : d = CommandOf(d.sequence)
    BY <1>2, OpenCommands
  <2>2. InG = {d \in InGame : d.sequence = s}
    BY DEF InGame
  <2> QED BY <1>3, <2>1, <2>2 DEF c
<1>9. ASSUME NEW h
      PROVE  h \in Holders(s) <=> \/ \E i \in Sites(queue) : h = <<"queue", i>>
                                  \/ \E w \in Workers : \E i \in Sites(doomed[w]) : h = <<w, i>>
                                  \/ c \in InGame /\ h = <<"game", 0>>
  <2> DEFINE Q == {<<"queue", i>> : i \in Sites(queue)}
             D(w) == {<<w, i>> : i \in Sites(doomed[w])}
             G == {<<"game", 0>> : d \in InG}
             H == UNION {D(w) : w \in Workers}
  <2>1. Holders(s) = Q \cup G \cup H
    BY DEF Holders
  <2> HIDE DEF Sites, InG
  <2>2. /\ h \in Q <=> \E i \in Sites(queue) : h = <<"queue", i>>
        /\ \A w \in Workers : h \in D(w) <=> \E i \in Sites(doomed[w]) : h = <<w, i>>
    OBVIOUS
  <2>3. h \in G <=> c \in InGame /\ h = <<"game", 0>>
    BY <1>8
  <2> HIDE DEF Q, D, G
  <2>4. h \in H <=> \E w \in Workers : h \in D(w)
    OBVIOUS
  <2> HIDE DEF H
  <2>5. h \in Holders(s) <=> h \in Q \/ h \in H \/ h \in G
    BY <2>1
  <2>6. h \in H <=> \E w \in Workers : \E i \in Sites(doomed[w]) : h = <<w, i>>
    BY <2>2, <2>4
  <2> QED BY <2>2, <2>3, <2>5, <2>6
<1> HIDE DEF Sites, InG
<1>10. c \in Open <=> IsOpen(s)
  BY OpenByNumber DEF c
<1>11. Divided(Open, InQueue, InGame, InHands)
  BY DEF Accounted, Partition
<1>12. CASE c \in InQueue
  <2>1. /\ c \in Open /\ c \notin InGame /\ \A w \in Workers : c \notin InHands[w]
    BY <1>11, <1>12 DEF Divided
  <2>2. PICK i : Sites(queue) = {i}
    BY <1>4, <1>12
  <2>3. Holders(s) = {<<"queue", i>>}
    BY <1>7, <1>9, <2>1, <2>2
  <2> QED BY <1>10, <2>1, <2>3
<1>13. ASSUME NEW w \in Workers, c \in InHands[w] PROVE IsOpen(s) /\ \E h : Holders(s) = {h}
  <2>1. /\ c \in Open /\ c \notin InGame /\ c \notin InQueue
        /\ \A v \in Workers \ {w} : c \notin InHands[v]
    BY <1>11, <1>13 DEF Divided
  <2>2. PICK i : Sites(doomed[w]) = {i}
    BY <1>6, <1>13
  <2>3. Holders(s) = {<<w, i>>}
    BY <1>5, <1>7, <1>9, <1>13, <2>1, <2>2
  <2> QED BY <1>10, <2>1, <2>3
<1>14. CASE c \in InGame
  <2>1. /\ c \in Open /\ c \notin InQueue /\ \A w \in Workers : c \notin InHands[w]
    BY <1>11, <1>14 DEF Divided
  <2>2. Holders(s) = {<<"game", 0>>}
    BY <1>5, <1>7, <1>9, <1>14, <2>1
  <2> QED BY <1>10, <2>1, <2>2
<1>15. CASE c \notin Open
  <2>1. c \notin InGame /\ c \notin InQueue /\ \A w \in Workers : c \notin InHands[w]
    BY <1>2, <1>15
  <2>2. Holders(s) = {}
    BY <1>5, <1>7, <1>9, <2>1
  <2> QED BY <1>10, <1>15, <2>2
<1> QED BY <1>10, <1>11, <1>12, <1>13, <1>14, <1>15 DEF Divided

(* No command is lost or duplicated between the queue, the workers that
   coalesce or evict and the game thread. *)
THEOREM NothingIsLost == Spec => []NothingLost
<1>1. Typed /\ InOrder /\ Accounted => NothingLost
  BY OneHolder, FS_EmptySet, FS_Singleton DEF NothingLost, IsOpen
<1> QED BY <1>1, CommandsAreAccounted, PTL

-----------------------------------------------------------------------------
(* A command is superseded only in favour of a newer one.                  *)

(* The workers that have removed the commands of a type and have one of that
   type still to push; the queue's commands of a type. *)
Heirs(t) == {w \in Workers : pc[w] \in {"discard", "push"} /\ cmd[w].type = t}
Kept(t)  == {c \in InQueue : c.type = t}

HasHeir(s) ==
  \/ \E u \in DOMAIN log : u > s /\ log[u].type = log[s].type
  \/ Heirs(log[s].type) # {}

Inherited == \A s \in DOMAIN log : log[s].fate = "superseded" => HasHeir(s)

(* Each command of a coalescible type in the queue was pushed by a worker that
   removed all those before it, so the commands kept and the workers about to
   add one are together no more than the workers. *)
Rationed ==
  \A t \in Coalescible : Cardinality(Kept(t)) + Cardinality(Heirs(t)) <= Cardinality(Workers)

LEMMA HeirsFinite ==
  ASSUME NEW t
  PROVE  /\ IsFiniteSet(Heirs(t)) /\ Cardinality(Heirs(t)) \in Nat
         /\ Cardinality(Heirs(t)) <= Cardinality(Workers) /\ Cardinality(Workers) \in Nat
<1>1. Heirs(t) \subseteq Workers
  BY DEF Heirs
<1>2. IsFiniteSet(Workers) /\ Cardinality(Workers) \in Nat
  BY PipelineAssumption, FS_CardinalityType
<1>3. IsFiniteSet(Heirs(t)) /\ Cardinality(Heirs(t)) <= Cardinality(Workers)
  BY <1>1, <1>2, FS_Subset
<1> QED BY <1>2, <1>3, FS_CardinalityType

LEMMA ElementsFinite ==
  ASSUME NEW items \in Seq(Command)
  PROVE  IsFiniteSet(Elements(items))
<1> DEFINE f == [i \in DOMAIN items |-> items[i]]
<1>1. DOMAIN items = 1..Len(items) /\ Len(items) \in Nat
  BY LenProperties
<1>2. IsFiniteSet(DOMAIN items)
  BY <1>1, FS_Interval
<1>3. f \in Surjection(DOMAIN items, Elements(items))
  BY DEF Surjection, Elements
<1> QED BY <1>2, <1>3, FS_Surjection

LEMMA PositionsBound ==
  ASSUME NEW items \in Seq(Command), NEW above, NEW below, Ascending(items, above, below), NEW t
  PROVE  /\ Cardinality(PositionsOf(items, t)) \in Nat
         /\ Cardinality(PositionsOf(items, t))
              <= Cardinality({c \in Elements(items) : c.type = t})
<1> DEFINE S == PositionsOf(items, t)
           T == {c \in Elements(items) : c.type = t}
           f == [i \in S |-> items[i]]
<1>1. Distinct(items)
  BY AscendingIsDistinct
<1>2. S \subseteq DOMAIN items
  BY DEF PositionsOf
<1>3. f \in [S -> T]
  BY DEF PositionsOf, Elements
<1>4. f \in Injection(S, T)
  BY <1>1, <1>2, <1>3 DEF Injection, IsInjective, Distinct
<1>5. IsFiniteSet(T)
  BY ElementsFinite, FS_Subset
<1> HIDE DEF f, S, T
<1>6. Cardinality(S) <= Cardinality(T)
  BY <1>4, <1>5, FS_Injection
<1> QED BY <1>2, <1>6, PositionsFinite DEF S, T

LEMMA KeptFinite ==
  ASSUME Typed, NEW t
  PROVE  IsFiniteSet(Kept(t)) /\ Cardinality(Kept(t)) \in Nat
<1>1. IsFiniteSet(InQueue)
  BY ElementsFinite DEF InQueue, Typed, TypeOK
<1>2. Kept(t) \subseteq InQueue
  BY DEF Kept
<1> QED BY <1>1, <1>2, FS_Subset, FS_CardinalityType

(* Which steps change the heirs of a type. *)
LEMMA HeirsStep ==
  ASSUME Typed, [Next]_vars, NEW t
  PROVE  \/ Heirs(t)' = Heirs(t)
         \/ t \notin Coalescible /\ Heirs(t) \subseteq Heirs(t)'
         \/ \E w \in Workers : Coalesce(w) /\ cmd[w].type = t /\ Heirs(t)' = Heirs(t) \cup {w}
         \/ \E w \in Workers : Push(w) /\ cmd[w].type = t /\ w \in Heirs(t)
                                /\ Heirs(t)' = Heirs(t) \ {w}
<1> USE DEF Typed, TypeOK, queues, tracking, locals, game, history
<1>1. CASE UNCHANGED <<pc, cmd>>
  BY <1>1 DEF Heirs
<1>2. ASSUME NEW w \in Workers, WorkerStep(w) PROVE Heirs(t)' = Heirs(t) \/ Coalesce(w) \/ Push(w)
  BY <1>1, <1>2 DEF WorkerStep, ReportSuperseded, CoalesceDone, ReportDropped, Mark, Heirs
<1>3. ASSUME NEW w \in Workers, Coalesce(w)
      PROVE  Heirs(t)' = IF cmd[w].type = t THEN Heirs(t) \cup {w} ELSE Heirs(t)
  BY <1>3 DEF Coalesce, Heirs
<1>4. ASSUME NEW w \in Workers, Push(w)
      PROVE  /\ Heirs(t)' = Heirs(t) \ {w}
             /\ w \in Heirs(t) <=> cmd[w].type = t
  BY <1>4 DEF Push, Heirs
<1>5. ASSUME NEW w \in Workers, NEW u \in Types, Submit(w, u)
      PROVE  Heirs(t)' = Heirs(t) \/ (t \notin Coalescible /\ Heirs(t) \subseteq Heirs(t)')
  BY <1>5 DEF Submit, Heirs
<1>6. CASE GameStep
  BY <1>1, <1>6 DEF GameStep, BeginTick, PopCommand, FinishCommand, CommandsDone, PopInput,
                    FinishInput, InputsDone
<1>7. CASE ClearCommands \/ ClearInputs \/ \E w \in Workers : PushInput(w)
  BY <1>1, <1>7 DEF ClearCommands, ClearInputs, PushInput
<1>8. CASE UNCHANGED vars
  BY <1>1, <1>8 DEF vars
<1> HIDE DEF Typed, TypeOK, queues, tracking, locals, game, history
<1>9. ASSUME NEW w \in Workers, WorkerStep(w)
      PROVE  \/ Heirs(t)' = Heirs(t)
             \/ Coalesce(w) /\ cmd[w].type = t /\ Heirs(t)' = Heirs(t) \cup {w}
             \/ Push(w) /\ cmd[w].type = t /\ w \in Heirs(t) /\ Heirs(t)' = Heirs(t) \ {w}
  <2>1. CASE Push(w)
    BY <1>4, <2>1
  <2> QED BY <1>2, <1>3, <1>9, <2>1
<1> QED BY <1>5, <1>6, <1>7, <1>8, <1>9 DEF Next

(* Which steps change the commands of a type that are kept. *)
LEMMA KeptStep ==
  ASSUME Typed, InOrder, Accounted, [Next]_vars, NEW t
  PROVE  \/ Kept(t)' \subseteq Kept(t)
         \/ \E w \in Workers : \E c : Push(w) /\ cmd[w].type = t /\ Kept(t)' \subseteq Kept(t) \cup {c}
<1>1. CASE InQueue' \subseteq InQueue
  BY <1>1 DEF Kept
<1>2. CASE UNCHANGED queue
  BY <1>2 DEF Kept, InQueue
<1>3. ASSUME NEW w \in Workers, Push(w)
      PROVE  IF cmd[w].type = t THEN \E c : Kept(t)' \subseteq Kept(t) \cup {c}
                                ELSE Kept(t)' \subseteq Kept(t)
  <2> DEFINE c == [sequence |-> next, type |-> cmd[w].type]
  <2>1. InQueue' \subseteq InQueue \cup {c} /\ c.type = cmd[w].type
    BY <1>3, PushKeepsAccount
  <2> HIDE DEF c
  <2> QED BY <2>1 DEF Kept
<1>4. ASSUME NEW w \in Workers, WorkerStep(w) PROVE InQueue' \subseteq InQueue \/ Push(w) \/ UNCHANGED queue
  BY <1>4, CoalesceKeepsAccount
     DEF WorkerStep, ReportSuperseded, CoalesceDone, ReportDropped, Mark, queues
<1>5. CASE GameStep
  BY <1>1, <1>2, <1>5, PopKeepsAccount
     DEF GameStep, BeginTick, FinishCommand, CommandsDone, PopInput, FinishInput, InputsDone, queues
<1>6. CASE ClearCommands
  BY <1>1, <1>6, ClearKeepsAccount
<1>7. CASE ClearInputs \/ UNCHANGED vars
  BY <1>2, <1>7 DEF ClearInputs, vars, queues
<1>8. ASSUME NEW w \in Workers, PushInput(w) PROVE UNCHANGED queue
  BY <1>8 DEF PushInput
<1>9. ASSUME NEW w \in Workers, NEW u \in Types, Submit(w, u) PROVE UNCHANGED queue
  BY <1>9 DEF Submit, queues
<1> QED BY <1>1, <1>2, <1>3, <1>4, <1>5, <1>6, <1>7, <1>8, <1>9 DEF Next

LEMMA RationedNext ==
  ASSUME Typed, InOrder, Accounted, Rationed, [Next]_vars
  PROVE  Rationed'
<1> SUFFICES ASSUME NEW t \in Coalescible
             PROVE  Cardinality(Kept(t)') + Cardinality(Heirs(t)') <= Cardinality(Workers)
  BY DEF Rationed
<1>1. Cardinality(Kept(t)) + Cardinality(Heirs(t)) <= Cardinality(Workers)
  BY DEF Rationed
<1>2. /\ IsFiniteSet(Kept(t)) /\ Cardinality(Kept(t)) \in Nat
      /\ IsFiniteSet(Heirs(t)) /\ Cardinality(Heirs(t)) \in Nat /\ Cardinality(Workers) \in Nat
  BY KeptFinite, HeirsFinite
<1>3. /\ Cardinality(Heirs(t)') \in Nat /\ Cardinality(Heirs(t)') <= Cardinality(Workers)
  <2>1. Heirs(t)' \subseteq Workers
    BY DEF Heirs
  <2>2. IsFiniteSet(Workers)
    BY PipelineAssumption
  <2> QED BY <2>1, <2>2, FS_Subset, FS_CardinalityType
<1>4. ASSUME Heirs(t)' = Heirs(t), Kept(t)' \subseteq Kept(t)
      PROVE  Cardinality(Kept(t)') + Cardinality(Heirs(t)') <= Cardinality(Workers)
  <2>1. Cardinality(Kept(t)') <= Cardinality(Kept(t)) /\ Cardinality(Kept(t)') \in Nat
    BY <1>2, <1>4, FS_Subset, FS_CardinalityType
  <2> QED BY <1>1, <1>2, <1>4, <2>1
<1>5. ASSUME NEW w \in Workers, Coalesce(w), cmd[w].type = t
      PROVE  Cardinality(Kept(t)') + Cardinality(Heirs(t)') <= Cardinality(Workers)
  <2>1. Kept(t)' = {}
    BY <1>5, CoalesceKeepsAccount DEF Kept
  <2>2. Cardinality(Kept(t)') = 0
    BY <2>1, FS_EmptySet
  <2> QED BY <1>3, <2>2
<1>6. ASSUME NEW w \in Workers, NEW c, w \in Heirs(t), Heirs(t)' = Heirs(t) \ {w},
             Kept(t)' \subseteq Kept(t) \cup {c}
      PROVE  Cardinality(Kept(t)') + Cardinality(Heirs(t)') <= Cardinality(Workers)
  <2>1. Cardinality(Heirs(t)') = Cardinality(Heirs(t)) - 1
    BY <1>2, <1>6, FS_RemoveElement
  <2>2. /\ IsFiniteSet(Kept(t) \cup {c})
        /\ Cardinality(Kept(t) \cup {c}) <= Cardinality(Kept(t)) + 1
        /\ Cardinality(Kept(t) \cup {c}) \in Nat
    BY <1>2, FS_AddElement, SMTT(30)
  <2>3. Cardinality(Kept(t)') <= Cardinality(Kept(t) \cup {c}) /\ Cardinality(Kept(t)') \in Nat
    BY <1>6, <2>2, FS_Subset, FS_CardinalityType
  <2> QED BY <1>1, <1>2, <1>3, <2>1, <2>2, <2>3
<1>7. CASE \E w \in Workers : Push(w) /\ cmd[w].type = t
  <2>1. PICK w \in Workers : Push(w) /\ cmd[w].type = t
    BY <1>7
  <2>2. w \in Heirs(t) /\ Heirs(t)' = Heirs(t) \ {w}
    BY <2>1 DEF Push, Heirs, Typed, TypeOK
  <2>3. \E c : Kept(t)' \subseteq Kept(t) \cup {c}
    BY KeptStep
  <2> QED BY <1>6, <2>2, <2>3
<1>8. CASE ~ \E w \in Workers : Push(w) /\ cmd[w].type = t
  <2>1. Kept(t)' \subseteq Kept(t)
    BY <1>8, KeptStep
  <2>2. Heirs(t)' = Heirs(t) \/ \E w \in Workers : Coalesce(w) /\ cmd[w].type = t
    BY <1>8, HeirsStep
  <2> QED BY <1>4, <1>5, <2>1, <2>2
<1> QED BY <1>7, <1>8

(* What a step does to the history: it adds open commands and settles open
   ones, and only a worker that holds a command reports it as superseded. *)
LEMMA LogStep ==
  ASSUME Typed, InOrder, Accounted, [Next]_vars
  PROVE  /\ DOMAIN log \subseteq DOMAIN log'
         /\ \A s \in DOMAIN log : log'[s].type = log[s].type
         /\ \A s \in DOMAIN log : ~IsOpen(s) => log'[s] = log[s]
         /\ \A s \in DOMAIN log' \ DOMAIN log : log'[s].fate = "open"
         /\ \A s \in DOMAIN log : IsOpen(s) /\ log'[s].fate = "superseded" =>
              \E w \in Workers : ReportSuperseded(w) /\ CommandOf(s) \in InHands[w]
<1> DEFINE Goal == /\ DOMAIN log \subseteq DOMAIN log'
                   /\ \A s \in DOMAIN log : log'[s].type = log[s].type
                   /\ \A s \in DOMAIN log : ~IsOpen(s) => log'[s] = log[s]
                   /\ \A s \in DOMAIN log' \ DOMAIN log : log'[s].fate = "open"
                   /\ \A s \in DOMAIN log : IsOpen(s) /\ log'[s].fate = "superseded" =>
                        \E w \in Workers : ReportSuperseded(w) /\ CommandOf(s) \in InHands[w]
<1> SUFFICES Goal
  OBVIOUS
<1>1. CASE log' = log
  BY <1>1 DEF IsOpen
<1>2. ASSUME NEW w \in Workers, Push(w) PROVE Goal
  <2>1. cmd[w].type \in Types /\ log' = Append(log, [type |-> cmd[w].type, fate |-> "open"])
    BY <1>2 DEF Push, Typed, Submitted
  <2> QED BY <2>1, OpenAfterPush DEF Accounted, IsOpen
<1>3. ASSUME NEW c \in Open, NEW fate \in Fates \ {"open"}, SetFate(c.sequence, fate),
             fate = "superseded" => \E w \in Workers : ReportSuperseded(w) /\ c \in InHands[w]
      PROVE  Goal
  <2>1. c.sequence \in DOMAIN log /\ c = CommandOf(c.sequence) /\ IsOpen(c.sequence)
    BY OpenCommands
  <2>2. /\ DOMAIN log' = DOMAIN log
        /\ \A s \in DOMAIN log : log'[s].type = log[s].type
        /\ \A s \in DOMAIN log \ {c.sequence} : log'[s] = log[s]
        /\ log'[c.sequence].fate = fate
    BY <1>3, OpenAfterFate
  <2> QED BY <1>3, <2>1, <2>2 DEF IsOpen
<1>4. ASSUME NEW w \in Workers, ReportSuperseded(w) \/ ReportDropped(w) PROVE Goal
  <2> DEFINE c == Head(doomed[w])
  <2>1. c \in Open /\ c \in InHands[w]
    BY <1>4, ReportKeepsAccount
  <2>2. CASE ReportSuperseded(w)
    BY <1>3, <2>1, <2>2 DEF ReportSuperseded, Fates
  <2>3. CASE ReportDropped(w)
    BY <1>3, <2>1, <2>3 DEF ReportDropped, Fates
  <2> QED BY <1>4, <2>2, <2>3
<1>5. CASE FinishCommand
  <2>1. PICK c \in running : SetFate(c.sequence, "executed")
    BY <1>5 DEF FinishCommand
  <2>2. c \in Open
    BY <1>5, <2>1, FinishKeepsAccount DEF FinishCommand
  <2> QED BY <1>3, <2>1, <2>2 DEF Fates
<1>6. CASE ClearCommands
  <2>1. /\ queue \in Seq(Command) /\ Elements(queue) \subseteq Open
        /\ DOMAIN log' = DOMAIN log
        /\ \A s \in DOMAIN log :
             log'[s] = IF \E i \in DOMAIN queue : queue[i].sequence = s
                         THEN [log[s] EXCEPT !.fate = "cleared"] ELSE log[s]
    BY <1>6, PlacesAreOpen DEF ClearCommands, Typed, TypeOK, InQueue
  <2>2. \A s \in DOMAIN log : log[s] \in Record
    BY LogShape
  <2>3. \A s \in DOMAIN log : (\E i \in DOMAIN queue : queue[i].sequence = s) => IsOpen(s)
    <3>1. \A s \in DOMAIN log : (\E i \in DOMAIN queue : queue[i].sequence = s)
                                  => CommandOf(s) \in Open
      BY <2>1, PlaceBySequence
    <3> QED BY <3>1, OpenByNumber
  <2> QED BY <2>1, <2>2, <2>3 DEF IsOpen, Record
<1> HIDE DEF Goal
<1>7. ASSUME NEW w \in Workers, WorkerStep(w) PROVE Goal
  BY <1>1, <1>2, <1>4, <1>7 DEF WorkerStep, Coalesce, CoalesceDone, Mark, history
<1>8. CASE GameStep
  BY <1>1, <1>5, <1>8 DEF GameStep, BeginTick, PopCommand, CommandsDone, PopInput, FinishInput,
                          InputsDone, history
<1>9. ASSUME NEW w \in Workers, NEW t \in Types, Submit(w, t) PROVE Goal
  BY <1>1, <1>9 DEF Submit, history
<1>10. ASSUME NEW w \in Workers, PushInput(w) PROVE Goal
  BY <1>1, <1>10 DEF PushInput, history
<1>11. CASE ClearInputs \/ UNCHANGED vars
  BY <1>1, <1>11 DEF ClearInputs, vars, history
<1> QED BY <1>6, <1>7, <1>8, <1>9, <1>10, <1>11 DEF Next

LEMMA InheritedNext ==
  ASSUME Typed, InOrder, Accounted, Inherited, [Next]_vars
  PROVE  Inherited'
<1> SUFFICES ASSUME NEW s \in DOMAIN log', log'[s].fate = "superseded", NEW t, t = log'[s].type
             PROVE  \/ \E u \in DOMAIN log' : u > s /\ log'[u].type = t
                    \/ \E w \in Workers : w \in Heirs(t)'
  BY DEF Inherited, HasHeir, Heirs
<1>1. s \in DOMAIN log /\ log'[s].type = log[s].type /\ t = log[s].type
  BY LogStep
<1>2. CASE IsOpen(s)
  <2>1. PICK w \in Workers : ReportSuperseded(w) /\ CommandOf(s) \in InHands[w]
    BY <1>1, <1>2, LogStep
  <2>2. pc[w] = "discard" /\ CommandOf(s).type = cmd[w].type
    BY <2>1 DEF ReportSuperseded, InHands, Accounted, HandsInOrder
  <2>3. w \in Heirs(t)'
    BY <1>1, <2>1, <2>2 DEF ReportSuperseded, Heirs, CommandOf
  <2> QED BY <1>1, <2>3
<1>3. CASE ~IsOpen(s)
  <2>1. log[s].fate = "superseded"
    BY <1>1, <1>3, LogStep
  <2>2. CASE \E u \in DOMAIN log : u > s /\ log[u].type = t
    BY <1>1, <2>2, LogStep
  <2>3. ASSUME NEW v \in Heirs(t), v \notin Heirs(t)'
        PROVE  \E u \in DOMAIN log' : u > s /\ log'[u].type = t
    <3>1. PICK w \in Workers : Push(w) /\ cmd[w].type = t
      <4>1. ~ (Heirs(t) \subseteq Heirs(t)')
        BY <2>3
      <4> QED BY <4>1, HeirsStep
    <3>2. /\ cmd[w].type \in Types /\ log' = Append(log, [type |-> cmd[w].type, fate |-> "open"])
      BY <3>1 DEF Push, Typed, Submitted
    <3>3. /\ DOMAIN log' = DOMAIN log \cup {next}
          /\ \A r \in DOMAIN log : r < next
          /\ log'[next] = [type |-> cmd[w].type, fate |-> "open"]
      BY <3>2, OpenAfterPush DEF Accounted
    <3>4. next > s /\ next \in DOMAIN log' /\ log'[next].type = t
      <4>1. s \in Nat /\ next \in Nat
        BY <1>1, LogShape DEF Typed, TypeOK
      <4> QED BY <1>1, <3>1, <3>3, <4>1
    <3> QED BY <3>4
  <2>4. (\E u \in DOMAIN log : u > s /\ log[u].type = t) \/ \E v : v \in Heirs(t)
    BY <1>1, <2>1 DEF Inherited, HasHeir
  <2>5. Heirs(t)' \subseteq Workers
    BY DEF Heirs
  <2> QED BY <2>2, <2>3, <2>4, <2>5
<1> QED BY <1>2, <1>3

(* Coalescing drops a command only in favour of a newer one of its type that
   was pushed or whose worker is about to push it, and leaves in the queue at
   most one command of a coalescible type per worker. *)
THEOREM SupersededHaveHeirs == Spec => []SupersededByNewer
<1> DEFINE Inv == Typed /\ InOrder /\ Accounted /\ Inherited /\ Rationed
<1>1. Init => Inv
  <2> SUFFICES ASSUME Init PROVE Inherited /\ Rationed
    BY TypedInit, OrderInit, AccountInit
  <2>1. Inherited
    BY DEF Init, Inherited
  <2>2. \A t : Kept(t) = {} /\ Heirs(t) = {}
    BY DEF Init, Kept, InQueue, Elements, Heirs
  <2>3. Cardinality({}) = 0 /\ Cardinality(Workers) \in Nat
    BY PipelineAssumption, FS_EmptySet, FS_CardinalityType
  <2> QED BY <2>1, <2>2, <2>3 DEF Rationed
<1>2. Inv /\ [Next]_vars => Inv'
  BY TypedNext, OrderNext, AccountNext, InheritedNext, RationedNext
<1>3. Inv => SupersededByNewer
  <2> SUFFICES ASSUME Inv PROVE SupersededByNewer
    OBVIOUS
  <2>1. ASSUME NEW t \in Coalescible
        PROVE  Cardinality(PositionsOf(queue, t)) <= Cardinality(Workers)
    <3>1. /\ Cardinality(PositionsOf(queue, t)) \in Nat
          /\ Cardinality(PositionsOf(queue, t)) <= Cardinality(Kept(t))
      BY PositionsBound DEF Kept, InQueue, InOrder, Typed, TypeOK
    <3>2. Cardinality(Kept(t)) + Cardinality(Heirs(t)) <= Cardinality(Workers)
      BY DEF Rationed
    <3> QED BY <3>1, <3>2, KeptFinite, HeirsFinite
  <2> QED BY <2>1 DEF SupersededByNewer, Inherited, HasHeir, Heirs
<1> HIDE DEF Inv
<1> QED BY <1>1, <1>2, <1>3, PTL DEF Spec

-----------------------------------------------------------------------------
(* Final answers stay.                                                     *)

(* While no input shares the map, a final answer is about a command whose fate
   is settled: whoever completes a command held it as an open one. *)
Settled ==
  nextInput = 1 =>
    /\ inputs = << >>
    /\ phase = "inputs" => running = {}
    /\ \A s \in DOMAIN results :
         results[s].status # "pending" => s \in DOMAIN log /\ ~IsOpen(s)

(* The fate that a final answer tells. *)
FateTold(status) == IF status \in {"success", "failed"} THEN "executed" ELSE status

(* What a step does to the map while no input shares it: it marks the command a
   worker has just pushed as pending, or completes an open command. *)
LEMMA ResultsStep ==
  ASSUME Typed, InOrder, Accounted, Settled, nextInput = 1, [Next]_vars
  PROVE  \/ UNCHANGED results
         \/ \E w \in Workers : /\ pc[w] = "mark"
                               /\ Track(cmd[w], "pending")
         \/ \E c \in Open, status \in Status : /\ Track(c, status)
                                               /\ ~IsOpen(c.sequence)'
                                               /\ DOMAIN log' = DOMAIN log
                                               /\ log'[c.sequence].fate = FateTold(status)
<1> DEFINE Goal == \/ UNCHANGED results
                   \/ \E w \in Workers : /\ pc[w] = "mark"
                                         /\ Track(cmd[w], "pending")
                   \/ \E c \in Open, status \in Status : /\ Track(c, status)
                                                         /\ ~IsOpen(c.sequence)'
                                                         /\ DOMAIN log' = DOMAIN log
                                                         /\ log'[c.sequence].fate = FateTold(status)
<1> SUFFICES Goal
  OBVIOUS
<1>1. ASSUME NEW c \in Open, NEW status \in Status, Track(c, status),
             NEW fate \in Fates \ {"open"}, SetFate(c.sequence, fate), fate = FateTold(status)
      PROVE  Goal
  <2>1. log'[c.sequence].fate = fate /\ DOMAIN log' = DOMAIN log
    BY <1>1, OpenAfterFate
  <2>2. \A n \in {c.sequence} : ~IsOpen(n)'
    BY <2>1 DEF IsOpen
  <2> QED BY <1>1, <2>1, <2>2
<1>2. ASSUME NEW w \in Workers, ReportSuperseded(w) \/ ReportDropped(w) PROVE Goal
  <2>1. Head(doomed[w]) \in Open
    BY <1>2, ReportKeepsAccount
  <2> QED BY <1>1, <1>2, <2>1 DEF ReportSuperseded, ReportDropped, Complete, Status, Fates, FateTold
<1>3. CASE FinishCommand
  <2>1. PICK c \in running, status \in {"success", "failed"} :
          Complete(c, status) /\ SetFate(c.sequence, "executed")
    BY <1>3 DEF FinishCommand
  <2>2. c \in Open
    BY <1>3, <2>1, FinishKeepsAccount DEF FinishCommand
  <2> QED BY <1>1, <2>1, <2>2 DEF Complete, Status, Fates, FateTold
<1>4. ASSUME NEW w \in Workers, WorkerStep(w) PROVE Goal
  <2>1. CASE Mark(w)
    BY <2>1 DEF Mark, MarkQueued
  <2> HIDE DEF Goal
  <2>2. CASE UNCHANGED results
    BY <2>2 DEF Goal
  <2> QED BY <1>2, <1>4, <2>1, <2>2 DEF WorkerStep, Coalesce, CoalesceDone, Push, tracking
<1>5. CASE GameStep
  <2>1. ~PopInput /\ ~FinishInput
    BY DEF PopInput, FinishInput, Settled
  <2>2. UNCHANGED results \/ FinishCommand
    BY <1>5, <2>1 DEF GameStep, BeginTick, PopCommand, CommandsDone, InputsDone, tracking
  <2> QED BY <1>3, <2>2
<1>6. ASSUME NEW w \in Workers, PushInput(w) PROVE UNCHANGED results
  BY <1>6 DEF PushInput, tracking
<1>7. ASSUME NEW w \in Workers, NEW t \in Types, Submit(w, t) PROVE UNCHANGED results
  BY <1>7 DEF Submit, tracking
<1>8. CASE ClearCommands \/ ClearInputs \/ UNCHANGED vars
  BY <1>8 DEF ClearCommands, ClearInputs, vars, tracking
<1> QED BY <1>4, <1>5, <1>6, <1>7, <1>8 DEF Next

(* Recording one status leaves the other entries as they are. *)
LEMMA TrackStep ==
  ASSUME NEW command, NEW status, Track(command, status)
  PROVE  \A s \in DOMAIN results' :
           IF s = command.sequence
             THEN results'[s].status = status /\ results'[s].command_type = command.type
             ELSE s \in DOMAIN results /\ results'[s] = results[s]
<1> DEFINE entry == [command_type |-> command.type, status |-> status]
<1>1. entry.status = status /\ entry.command_type = command.type
  OBVIOUS
<1>2. \A s \in DOMAIN results' :
        IF s = command.sequence THEN results'[s] = entry
                                ELSE s \in DOMAIN results /\ results'[s] = results[s]
  <2> HIDE DEF entry
  <2>1. CASE Overwrite(command.sequence, entry)
    BY <2>1 DEF Overwrite
  <2>2. CASE Insert(command.sequence, entry)
    BY <2>2 DEF Insert
  <2>3. CASE InsertEvicting(command.sequence, entry)
    BY <2>3 DEF InsertEvicting
  <2> QED BY <2>1, <2>2, <2>3 DEF Track, entry
<1> HIDE DEF entry
<1> QED BY <1>1, <1>2

LEMMA SettledNext ==
  ASSUME Typed, InOrder, Accounted, Settled, [Next]_vars
  PROVE  Settled'
<1> SUFFICES ASSUME nextInput' = 1 PROVE Settled'
  BY DEF Settled
<1>1. nextInput = 1 /\ inputs' = << >> /\ (phase' = "inputs" => running' = {})
  <2>1. \A w \in Workers : ~PushInput(w)
    BY DEF PushInput, Typed, TypeOK
  <2>2. nextInput = 1
    BY <2>1 DEF Next, WorkerStep, GameStep, Coalesce, ReportSuperseded, CoalesceDone, Push,
           ReportDropped, Mark, Submit, BeginTick, PopCommand, FinishCommand, CommandsDone,
           PopInput, FinishInput, InputsDone, ClearCommands, ClearInputs, vars, queues
  <2>3. inputs = << >> /\ (phase = "inputs" => running = {}) /\ (phase = "idle" => running = {})
    BY <2>2 DEF Settled, Accounted, OneAtATime
  <2>4. inputs' = << >>
    BY <2>1, <2>3 DEF Next, WorkerStep, GameStep, Coalesce, ReportSuperseded, CoalesceDone, Push,
           ReportDropped, Mark, Submit, BeginTick, PopCommand, FinishCommand, CommandsDone,
           PopInput, FinishInput, InputsDone, ClearCommands, ClearInputs, vars, queues
  <2>5. phase' = "inputs" => running' = {}
    BY <2>1, <2>3 DEF Next, WorkerStep, GameStep, Coalesce, ReportSuperseded, CoalesceDone, Push,
           ReportDropped, Mark, Submit, BeginTick, PopCommand, FinishCommand, CommandsDone,
           PopInput, FinishInput, InputsDone, ClearCommands, ClearInputs, vars, game
  <2> QED BY <2>2, <2>4, <2>5
<1>2. \A s \in DOMAIN results : results[s].status # "pending" => s \in DOMAIN log /\ ~IsOpen(s)
  BY <1>1 DEF Settled
<1>3. \A s \in DOMAIN log : ~IsOpen(s) => s \in DOMAIN log' /\ ~IsOpen(s)'
  BY LogStep DEF IsOpen
<1>4. \A s \in DOMAIN results' :
        results'[s].status # "pending" => s \in DOMAIN log' /\ ~IsOpen(s)'
  <2>1. CASE UNCHANGED results
    BY <1>2, <1>3, <2>1
  <2>2. ASSUME NEW w \in Workers, Track(cmd[w], "pending")
        PROVE  \A s \in DOMAIN results' :
                 results'[s].status # "pending" => s \in DOMAIN log' /\ ~IsOpen(s)'
    BY <1>2, <1>3, <2>2, TrackStep
  <2>3. ASSUME NEW c \in Open, NEW status \in Status, Track(c, status), ~IsOpen(c.sequence)',
               DOMAIN log' = DOMAIN log
        PROVE  \A s \in DOMAIN results' :
                 results'[s].status # "pending" => s \in DOMAIN log' /\ ~IsOpen(s)'
    <3>1. c.sequence \in DOMAIN log
      BY OpenCommands
    <3> QED BY <1>2, <1>3, <2>3, <3>1, TrackStep
  <2> QED BY <1>1, <2>1, <2>2, <2>3, ResultsStep
<1> QED BY <1>1, <1>4 DEF Settled

(* While no input shares the map, the final answer about a command whose number
   the agent has is never replaced by another one. *)
THEOREM AnswersStay == Spec => FinalAnswersStay
<1> DEFINE Inv == Typed /\ InOrder /\ Accounted /\ Settled
           Stay == nextInput = 1 =>
                      \A s \in DOMAIN results \cap DOMAIN results' :
                        Acknowledged(s) /\ results[s].status # "pending" => results'[s] = results[s]
<1>1. Init => Inv
  <2>1. Init => Settled
    BY DEF Init, Settled
  <2> QED BY <2>1, TypedInit, OrderInit, AccountInit
<1>2. Inv /\ [Next]_vars => Inv'
  BY TypedNext, OrderNext, AccountNext, SettledNext
<1>3. Inv /\ [Next]_vars => [Stay]_vars
  <2> SUFFICES ASSUME Inv, [Next]_vars, nextInput = 1,
                      NEW s \in DOMAIN results \cap DOMAIN results',
                      Acknowledged(s), results[s].status # "pending"
               PROVE  results'[s] = results[s]
    OBVIOUS
  <2>1. s \in DOMAIN log /\ ~IsOpen(s)
    BY DEF Settled
  <2>2. ASSUME NEW w \in Workers, pc[w] = "mark", Track(cmd[w], "pending")
        PROVE  results'[s] = results[s]
    BY <2>2, TrackStep DEF Acknowledged
  <2>3. ASSUME NEW c \in Open, NEW status \in Status, Track(c, status)
        PROVE  results'[s] = results[s]
    BY <2>1, <2>3, TrackStep, OpenCommands
  <2> QED BY <2>2, <2>3, ResultsStep
<1> HIDE DEF Inv
<1> QED BY <1>1, <1>2, <1>3, PTL DEF Spec, FinalAnswersStay

(* What an answer says: it is under the number of a command that was pushed,
   about a command of that type, and, when it is final, tells that command's fate. *)
AnswersAreTrue ==
  nextInput = 1 =>
    \A s \in DOMAIN results :
      /\ s \in DOMAIN log
      /\ results[s].command_type = log[s].type
      /\ results[s].status # "pending" => log[s].fate = FateTold(results[s].status)

(* A worker that has pushed its command has the number and the type of it. *)
Pushers ==
  \A w \in Workers : pc[w] \in {"evict", "mark"} =>
    cmd[w].sequence \in DOMAIN log /\ cmd[w].type = log[cmd[w].sequence].type

LEMMA PushersNext ==
  ASSUME Typed, InOrder, Accounted, Pushers, [Next]_vars
  PROVE  Pushers'
<1>1. \A s \in DOMAIN log : s \in DOMAIN log' /\ log'[s].type = log[s].type
  BY LogStep
<1>2. CASE cmd' = cmd /\ \A w \in Workers : pc'[w] \in {"evict", "mark"} => pc[w] \in {"evict", "mark"}
  BY <1>1, <1>2 DEF Pushers
<1>3. ASSUME NEW w \in Workers, Push(w) PROVE Pushers'
  <2>1. /\ cmd[w].type \in Types
        /\ log' = Append(log, [type |-> cmd[w].type, fate |-> "open"])
        /\ cmd' = [cmd EXCEPT ![w] = [cmd[w] EXCEPT !.sequence = next]]
        /\ cmd \in [Workers -> Command]
        /\ pc \in [Workers -> {"idle", "coalesce", "discard", "push", "evict", "mark"}]
        /\ pc' = [pc EXCEPT ![w] = IF IsFull(queue, Slots) THEN "evict" ELSE "mark"]
    BY <1>3 DEF Push, Typed, TypeOK, Submitted
  <2>2. next \in DOMAIN log' /\ log'[next].type = cmd[w].type
    <3>1. log \in Seq(Record) /\ Len(log) = next - 1 /\ next \in Nat \ {0}
      BY DEF Typed, TypeOK, Accounted, Numbered
    <3>2. next \in DOMAIN log' /\ log'[next] = [type |-> cmd[w].type, fate |-> "open"]
      BY <2>1, <3>1
    <3> QED BY <3>2
  <2>3. cmd'[w].sequence = next /\ cmd'[w].type = cmd[w].type
    BY <2>1 DEF Command
  <2>4. \A v \in Workers \ {w} : cmd'[v] = cmd[v] /\ pc'[v] = pc[v]
    BY <2>1
  <2> QED BY <1>1, <2>2, <2>3, <2>4 DEF Pushers
<1>4. ASSUME NEW w \in Workers, NEW t \in Types, Submit(w, t) PROVE Pushers'
  <2>1. \A v \in Workers : pc'[v] \in {"evict", "mark"} => pc[v] = pc'[v] /\ cmd'[v] = cmd[v]
    BY <1>4 DEF Submit, Typed, TypeOK
  <2> QED BY <1>1, <2>1 DEF Pushers
<1>5. ASSUME NEW w \in Workers, WorkerStep(w) PROVE Pushers'
  BY <1>2, <1>3, <1>5 DEF WorkerStep, Coalesce, ReportSuperseded, CoalesceDone, ReportDropped, Mark,
                          Typed, TypeOK
<1>6. CASE GameStep
  BY <1>2, <1>6 DEF GameStep, BeginTick, PopCommand, FinishCommand, CommandsDone, PopInput,
                    FinishInput, InputsDone, locals
<1>7. ASSUME NEW w \in Workers, PushInput(w) PROVE Pushers'
  BY <1>2, <1>7 DEF PushInput, locals
<1>8. CASE ClearCommands \/ ClearInputs \/ UNCHANGED vars
  BY <1>2, <1>8 DEF ClearCommands, ClearInputs, vars, locals
<1> QED BY <1>3, <1>4, <1>5, <1>6, <1>7, <1>8 DEF Next

LEMMA AnswersNext ==
  ASSUME Typed, InOrder, Accounted, Settled, Pushers, AnswersAreTrue, [Next]_vars
  PROVE  AnswersAreTrue'
<1> SUFFICES ASSUME nextInput' = 1 PROVE AnswersAreTrue'
  BY DEF AnswersAreTrue
<1>1. nextInput = 1
  <2>1. \A w \in Workers : ~PushInput(w)
    BY DEF PushInput, Typed, TypeOK
  <2> QED
    BY <2>1 DEF Next, WorkerStep, GameStep, Coalesce, ReportSuperseded, CoalesceDone, Push,
           ReportDropped, Mark, Submit, BeginTick, PopCommand, FinishCommand, CommandsDone,
           PopInput, FinishInput, InputsDone, ClearCommands, ClearInputs, vars, queues
<1>2. \A s \in DOMAIN results :
        /\ s \in DOMAIN log /\ s \in DOMAIN log'
        /\ results[s].command_type = log'[s].type
        /\ results[s].status # "pending" => log'[s].fate = FateTold(results[s].status)
  <2>1. \A s \in DOMAIN results :
          /\ s \in DOMAIN log
          /\ results[s].command_type = log[s].type
          /\ results[s].status # "pending" => log[s].fate = FateTold(results[s].status) /\ ~IsOpen(s)
    BY <1>1 DEF AnswersAreTrue, Settled
  <2> QED BY <2>1, LogStep
<1> DEFINE True(s) == /\ s \in DOMAIN log'
                      /\ results'[s].command_type = log'[s].type
                      /\ results'[s].status # "pending" => log'[s].fate = FateTold(results'[s].status)
<1>3. CASE UNCHANGED results
  BY <1>2, <1>3 DEF AnswersAreTrue
<1>4. ASSUME NEW w \in Workers, pc[w] = "mark", Track(cmd[w], "pending"),
             NEW s \in DOMAIN results'
      PROVE  True(s)
  <2>1. cmd[w].sequence \in DOMAIN log' /\ log'[cmd[w].sequence].type = cmd[w].type
    BY <1>4, LogStep DEF Pushers
  <2> QED BY <1>2, <1>4, <2>1, TrackStep
<1>5. ASSUME NEW c \in Open, NEW status \in Status, Track(c, status),
             log'[c.sequence].fate = FateTold(status), NEW s \in DOMAIN results'
      PROVE  True(s)
  <2>1. c.sequence \in DOMAIN log' /\ log'[c.sequence].type = c.type
    <3>1. c.sequence \in DOMAIN log /\ c = CommandOf(c.sequence)
      BY OpenCommands
    <3>2. c.type = log[c.sequence].type
      BY <3>1 DEF CommandOf
    <3> QED BY <3>1, <3>2, LogStep
  <2> QED BY <1>2, <1>5, <2>1, TrackStep
<1>6. (\A s \in DOMAIN results' : True(s)) => AnswersAreTrue'
  BY DEF AnswersAreTrue
<1> HIDE DEF True
<1> QED BY <1>1, <1>3, <1>4, <1>5, <1>6, ResultsStep

(* While no input shares the map, what get_command_result answers about a
   number is about the command that was given it, and a final answer tells what
   became of that command: executed, superseded or dropped. *)
THEOREM AnswersTellFate == Spec => []AnswersAreTrue
<1> DEFINE Inv == Typed /\ InOrder /\ Accounted /\ Settled /\ Pushers /\ AnswersAreTrue
<1>1. Init => Inv
  <2>1. Init => Settled /\ Pushers /\ AnswersAreTrue
    BY DEF Init, Settled, Pushers, AnswersAreTrue
  <2> QED BY <2>1, TypedInit, OrderInit, AccountInit
<1>2. Inv /\ [Next]_vars => Inv'
  BY TypedNext, OrderNext, AccountNext, SettledNext, PushersNext, AnswersNext
<1> HIDE DEF Inv
<1>3. Inv => AnswersAreTrue
  BY DEF Inv
<1> QED BY <1>1, <1>2, <1>3, PTL DEF Spec

-----------------------------------------------------------------------------
(* The refinement: every step of the workers, of the game thread and of the
   embedding program is one step of the abstract life of commands, or none.  *)


(* The abstract state. *)
Lives == [s \in DOMAIN log |-> StageOf(s)]

(* The stage of a command follows from where it is. *)
StageMap ==
  \A s \in DOMAIN log :
    /\ ~IsOpen(s) => StageOf(s) = log[s].fate
    /\ CommandOf(s) \in InQueue => StageOf(s) = "queued"
    /\ CommandOf(s) \in InGame => StageOf(s) = "running"
    /\ \A w \in Workers : CommandOf(s) \in InHands[w] =>
         StageOf(s) = IF pc[w] = "discard" THEN "superseded" ELSE "dropped"

LEMMA StageFollowsPlace == Typed /\ InOrder /\ Accounted => StageMap
<1> SUFFICES ASSUME Typed, InOrder, Accounted, NEW s \in DOMAIN log
             PROVE  /\ ~IsOpen(s) => StageOf(s) = log[s].fate
                    /\ CommandOf(s) \in InQueue => StageOf(s) = "queued"
                    /\ CommandOf(s) \in InGame => StageOf(s) = "running"
                    /\ \A w \in Workers : CommandOf(s) \in InHands[w] =>
                         StageOf(s) = IF pc[w] = "discard" THEN "superseded" ELSE "dropped"
  BY DEF StageMap
<1> DEFINE c == CommandOf(s)
           queued == \E i \in DOMAIN queue : queue[i].sequence = s
<1>1. /\ queue \in Seq(Command) /\ \A w \in Workers : doomed[w] \in Seq(Command)
  BY DEF Typed, TypeOK
<1>2. /\ InQueue = Elements(queue) /\ InQueue \subseteq Open /\ InGame \subseteq Open
      /\ \A w \in Workers : InHands[w] \subseteq Open /\ InHands[w] = Elements(doomed[w])
  BY PlacesAreOpen DEF InQueue
<1>3. queued <=> c \in InQueue
  BY <1>1, <1>2, PlaceBySequence
<1>4. \A step : Held(s, step) <=> \E w \in Workers : pc[w] = step /\ c \in InHands[w]
  <2>1. \A w \in Workers : (\E i \in DOMAIN doomed[w] : doomed[w][i].sequence = s)
                             <=> c \in InHands[w]
    BY <1>1, <1>2, PlaceBySequence
  <2> QED BY <2>1 DEF Held
<1>5. Divided(Open, InQueue, InGame, InHands) /\ (c \in Open <=> IsOpen(s))
  BY OpenByNumber DEF Accounted, Partition
<1>6. \A w \in Workers : c \in InHands[w] => pc[w] \in {"discard", "evict"}
  BY <1>2 DEF Accounted, HandsInOrder, Elements
<1> HIDE DEF c
<1>7. CASE ~IsOpen(s)
  <2>1. ~queued /\ ~Held(s, "discard") /\ ~Held(s, "evict")
        /\ c \notin InQueue /\ c \notin InGame /\ \A w \in Workers : c \notin InHands[w]
    BY <1>2, <1>3, <1>4, <1>5, <1>7
  <2>2. StageOf(s) = log[s].fate
    BY <1>7, <2>1 DEF StageOf, IsOpen
  <2> QED BY <1>7, <2>1, <2>2 DEF c
<1>8. CASE c \in InQueue
  <2>1. IsOpen(s) /\ queued /\ ~Held(s, "discard") /\ ~Held(s, "evict")
        /\ c \notin InGame /\ \A w \in Workers : c \notin InHands[w]
    BY <1>3, <1>4, <1>5, <1>8 DEF Divided
  <2>2. StageOf(s) = "queued"
    BY <2>1 DEF StageOf, IsOpen
  <2> QED BY <2>1, <2>2 DEF c
<1>9. CASE c \in InGame
  <2>1. IsOpen(s) /\ ~queued /\ ~Held(s, "discard") /\ ~Held(s, "evict")
        /\ c \notin InQueue /\ \A w \in Workers : c \notin InHands[w]
    BY <1>3, <1>4, <1>5, <1>9 DEF Divided
  <2>2. StageOf(s) = "running"
    BY <2>1 DEF StageOf, IsOpen
  <2> QED BY <2>1, <2>2 DEF c
<1>10. ASSUME NEW w \in Workers, c \in InHands[w]
       PROVE  /\ IsOpen(s) /\ c \notin InQueue /\ c \notin InGame
              /\ StageOf(s) = IF pc[w] = "discard" THEN "superseded" ELSE "dropped"
              /\ \A v \in Workers : c \in InHands[v] => v = w
  <2>1. /\ IsOpen(s) /\ c \notin InQueue /\ c \notin InGame
        /\ \A v \in Workers : c \in InHands[v] => v = w
    BY <1>5, <1>10 DEF Divided
  <2>2. \A step : Held(s, step) <=> pc[w] = step
    BY <1>4, <1>10, <2>1
  <2>3. StageOf(s) = IF pc[w] = "discard" THEN "superseded" ELSE "dropped"
    <3>1. CASE pc[w] = "discard"
      <4>1. IsOpen(s) /\ ~queued /\ Held(s, "discard") /\ ~Held(s, "evict")
        BY <1>3, <2>1, <2>2, <3>1
      <4> QED BY <3>1, <4>1 DEF StageOf, IsOpen
    <3>2. CASE pc[w] = "evict"
      <4>1. IsOpen(s) /\ ~queued /\ ~Held(s, "discard") /\ Held(s, "evict")
        BY <1>3, <2>1, <2>2, <3>2
      <4> QED BY <3>2, <4>1 DEF StageOf, IsOpen
    <3> QED BY <1>6, <1>10, <3>1, <3>2
  <2> QED BY <2>1, <2>3
<1>11. CASE IsOpen(s) /\ c \notin InQueue /\ c \notin InGame
  <2>1. \A w \in Workers : c \in InHands[w] =>
           StageOf(s) = IF pc[w] = "discard" THEN "superseded" ELSE "dropped"
    BY <1>10
  <2> QED BY <1>11, <2>1 DEF c
<1> QED BY <1>7, <1>8, <1>9, <1>11

-----------------------------------------------------------------------------
(* The abstract actions, as changes of Lives.                              *)

Waiting == {s \in DOMAIN log : StageOf(s) = "queued"}
LivesMoved(S, to) == [s \in DOMAIN log |-> IF s \in S THEN to ELSE StageOf(s)]

LEMMA AbstractSupersede ==
  ASSUME NEW S \in SUBSET Waiting, Lives' = LivesMoved(S, "superseded")
  PROVE  Lifecycle!Supersede
<1>1. Lifecycle!Moved(S, "superseded") = LivesMoved(S, "superseded")
  BY DEF Lifecycle!Moved, LivesMoved
<1>2. Lifecycle!Queued = Waiting
  BY DEF Lifecycle!Queued, Waiting
<1> QED BY <1>1, <1>2 DEF Lifecycle!Supersede, Lives

LEMMA AbstractClear ==
  ASSUME Lives' = LivesMoved(Waiting, "cleared")
  PROVE  Lifecycle!Clear
<1>1. Lifecycle!Moved(Waiting, "cleared") = LivesMoved(Waiting, "cleared")
  BY DEF Lifecycle!Moved, LivesMoved
<1>2. Lifecycle!Queued = Waiting
  BY DEF Lifecycle!Queued, Waiting
<1> QED BY <1>1, <1>2 DEF Lifecycle!Clear, Lives

LEMMA AbstractExecute ==
  ASSUME NEW s \in Waiting, \A u \in Waiting : s <= u,
         \A u \in DOMAIN log : StageOf(u) # "running",
         Lives' = LivesMoved({s}, "running")
  PROVE  Lifecycle!Execute
<1>1. Lifecycle!Moved({s}, "running") = LivesMoved({s}, "running")
  BY DEF Lifecycle!Moved, LivesMoved
<1>2. Lifecycle!Queued = Waiting
  BY DEF Lifecycle!Queued, Waiting
<1> QED BY <1>1, <1>2 DEF Lifecycle!Execute, Lifecycle!Oldest, Lives

LEMMA AbstractFinish ==
  ASSUME NEW s \in DOMAIN log, StageOf(s) = "running", Lives' = LivesMoved({s}, "executed")
  PROVE  Lifecycle!Finish
<1>1. Lifecycle!Moved({s}, "executed") = LivesMoved({s}, "executed")
  BY DEF Lifecycle!Moved, LivesMoved
<1> QED BY <1>1 DEF Lifecycle!Finish, Lives

LEMMA AbstractIssue ==
  ASSUME \/ Lives' = Append(Lives, "queued")
         \/ \E s \in Waiting : /\ \A u \in Waiting : s <= u
                               /\ Lives' = Append(LivesMoved({s}, "dropped"), "queued")
  PROVE  Lifecycle!Issue
<1>1. \A s : Lifecycle!Moved({s}, "dropped") = LivesMoved({s}, "dropped")
  BY DEF Lifecycle!Moved, LivesMoved
<1>2. Lifecycle!Queued = Waiting
  BY DEF Lifecycle!Queued, Waiting
<1> QED BY <1>1, <1>2 DEF Lifecycle!Issue, Lifecycle!Oldest, Lives

-----------------------------------------------------------------------------
(* Each step of the pipeline is an abstract step, or none.                 *)

Followed == Typed /\ InOrder /\ Accounted /\ StageMap

(* A command that stays where it is stays in its stage. *)
LEMMA StageStays ==
  ASSUME Followed, Followed', [Next]_vars, NEW s \in DOMAIN log,
         CommandOf(s) \in InQueue => CommandOf(s) \in InQueue',
         CommandOf(s) \in InGame => CommandOf(s) \in InGame',
         \A w \in Workers : CommandOf(s) \in InHands[w] =>
           CommandOf(s) \in InHands'[w] /\ pc'[w] = pc[w]
  PROVE  StageOf(s)' = StageOf(s)
<1> DEFINE c == CommandOf(s)
<1>1. s \in DOMAIN log' /\ CommandOf(s)' = c /\ (~IsOpen(s) => log'[s] = log[s])
  BY LogStep DEF Followed, CommandOf
<1>2. CASE ~IsOpen(s)
  <2>1. ~IsOpen(s)'
    BY <1>1, <1>2 DEF IsOpen
  <2>2. StageOf(s)' = log'[s].fate /\ StageOf(s) = log[s].fate
    BY <1>1, <1>2, <2>1 DEF Followed, StageMap
  <2> QED BY <1>1, <1>2, <2>2
<1>3. CASE IsOpen(s)
  <2>1. c \in InQueue \/ c \in InGame \/ \E w \in Workers : c \in InHands[w]
    BY <1>3, OpenByNumber DEF Followed, Accounted, Partition, Divided
  <2>2. CASE c \in InQueue
    <3>1. CommandOf(s)' \in InQueue'
      BY <1>1, <2>2
    <3> QED BY <1>1, <2>2, <3>1 DEF Followed, StageMap
  <2>3. CASE c \in InGame
    <3>1. CommandOf(s)' \in InGame'
      BY <1>1, <2>3
    <3> QED BY <1>1, <2>3, <3>1 DEF Followed, StageMap
  <2>4. ASSUME NEW w \in Workers, c \in InHands[w] PROVE StageOf(s)' = StageOf(s)
    <3>1. CommandOf(s)' \in InHands'[w] /\ pc'[w] = pc[w]
      BY <1>1, <2>4
    <3> QED BY <1>1, <2>4, <3>1 DEF Followed, StageMap
  <2> QED BY <2>1, <2>2, <2>3, <2>4
<1> QED BY <1>2, <1>3

LEMMA LivesUnchanged ==
  ASSUME DOMAIN log' = DOMAIN log, \A s \in DOMAIN log : StageOf(s)' = StageOf(s)
  PROVE  Lives' = Lives
  BY DEF Lives

LEMMA LivesChanged ==
  ASSUME DOMAIN log' = DOMAIN log, NEW S, NEW to,
         \A s \in DOMAIN log : StageOf(s)' = IF s \in S THEN to ELSE StageOf(s)
  PROVE  Lives' = LivesMoved(S, to)
  BY DEF Lives, LivesMoved

LEMMA CoalesceSupersedes ==
  ASSUME Followed, Followed', [Next]_vars, NEW w \in Workers, Coalesce(w)
  PROVE  Lifecycle!Supersede
<1> DEFINE gone == {c \in InQueue : c.type = cmd[w].type}
           S == {s \in DOMAIN log : CommandOf(s) \in gone}
<1>1. /\ InQueue' = {c \in InQueue : c.type # cmd[w].type}
      /\ InHands' = [InHands EXCEPT ![w] = gone] /\ InHands[w] = {} /\ InGame' = InGame
      /\ DOMAIN InHands = Workers
  BY CoalesceKeepsAccount DEF Followed, InHands
<1>2. log' = log /\ pc' = [pc EXCEPT ![w] = "discard"] /\ DOMAIN pc = Workers
  BY DEF Coalesce, history, Followed, Typed, TypeOK
<1>3. \A s \in S : s \in Waiting /\ StageOf(s)' = "superseded"
  <2> SUFFICES ASSUME NEW s \in S PROVE s \in Waiting /\ StageOf(s)' = "superseded"
    OBVIOUS
  <2>1. s \in Waiting
    BY DEF Waiting, Followed, StageMap
  <2>2. CommandOf(s)' \in InHands'[w] /\ pc'[w] = "discard"
    BY <1>1, <1>2 DEF CommandOf
  <2>3. StageOf(s)' = "superseded"
    BY <1>2, <2>2 DEF Followed, StageMap
  <2> QED BY <2>1, <2>3
<1>4. \A s \in DOMAIN log \ S : StageOf(s)' = StageOf(s)
  <2> SUFFICES ASSUME NEW s \in DOMAIN log, s \notin S PROVE StageOf(s)' = StageOf(s)
    OBVIOUS
  <2> DEFINE c == CommandOf(s)
  <2>1. c \in InQueue => c \in InQueue'
    BY <1>1
  <2>2. \A v \in Workers : c \in InHands[v] => c \in InHands'[v] /\ pc'[v] = pc[v]
    BY <1>1, <1>2
  <2> HIDE DEF c
  <2> QED BY <1>1, <2>1, <2>2, StageStays DEF c
<1> HIDE DEF gone, S
<1>5. Lives' = LivesMoved(S, "superseded")
  BY <1>2, <1>3, <1>4, LivesChanged
<1>6. S \subseteq Waiting
  BY <1>3
<1> QED BY <1>5, <1>6, AbstractSupersede

LEMMA ReportStutters ==
  ASSUME Followed, Followed', [Next]_vars, NEW w \in Workers, ReportSuperseded(w) \/ ReportDropped(w)
  PROVE  Lives' = Lives
<1> DEFINE c == Head(doomed[w])
           r == c.sequence
<1>1. /\ c \in Open /\ c \in InHands[w]
      /\ InHands' = [InHands EXCEPT ![w] = @ \ {c}] /\ DOMAIN InHands = Workers
      /\ InQueue' = InQueue /\ InGame' = InGame
  BY ReportKeepsAccount DEF Followed, InHands
<1>2. r \in DOMAIN log /\ c = CommandOf(r) /\ IsOpen(r)
  BY <1>1, OpenCommands DEF Followed
<1> HIDE DEF c
<1>3. PICK fate \in {"superseded", "dropped"} :
        /\ SetFate(r, fate)
        /\ fate = IF pc[w] = "discard" THEN "superseded" ELSE "dropped"
  BY DEF ReportSuperseded, ReportDropped, c
<1>4. DOMAIN log' = DOMAIN log /\ log'[r].fate = fate
  BY <1>1, <1>2, <1>3, OpenAfterFate DEF Followed, Fates
<1>5. \A s \in {r} : StageOf(s)' = StageOf(s)
  <2>1. \A s \in {r} : StageOf(s) = fate
    BY <1>1, <1>2, <1>3 DEF Followed, StageMap
  <2>2. \A s \in {r} : ~IsOpen(s)' /\ log'[s].fate = fate /\ s \in DOMAIN log'
    BY <1>2, <1>4 DEF IsOpen
  <2>3. \A s \in {r} : StageOf(s)' = fate
    BY <2>2 DEF Followed, StageMap
  <2> QED BY <2>1, <2>3
<1>6. \A s \in DOMAIN log \ {r} : StageOf(s)' = StageOf(s)
  <2> SUFFICES ASSUME NEW s \in DOMAIN log, s # r PROVE StageOf(s)' = StageOf(s)
    OBVIOUS
  <2> DEFINE d == CommandOf(s)
  <2>1. d # c
    BY <1>2 DEF CommandOf
  <2>2. \A v \in Workers : d \in InHands[v] => d \in InHands'[v]
    BY <1>1, <2>1
  <2>3. \A v \in Workers : d \in InHands[v] => pc'[v] = pc[v]
    <3>1. CASE ReportSuperseded(w)
      BY <3>1 DEF ReportSuperseded
    <3>2. CASE ReportDropped(w)
      <4>1. InHands[w] = {c}
        <5>1. doomed[w] \in Seq(Command) /\ Len(doomed[w]) = 1
          BY <3>2 DEF ReportDropped, Followed, Accounted, HandsInOrder, Typed, TypeOK
        <5>2. DOMAIN doomed[w] = {1} /\ c = doomed[w][1]
          BY <5>1, LenProperties DEF c
        <5> QED BY <5>2 DEF InHands, Elements
      <4>2. pc' = [pc EXCEPT ![w] = "mark"]
        BY <3>2 DEF ReportDropped
      <4> QED BY <2>1, <4>1, <4>2, SMTT(30) DEF Followed, Typed, TypeOK
    <3> QED BY <3>1, <3>2
  <2> HIDE DEF d
  <2> QED BY <1>1, <2>2, <2>3, StageStays DEF d
<1> QED BY <1>4, <1>5, <1>6, LivesUnchanged

(* Only what is in the queue is queued, and only what the game has is running. *)
LEMMA PlaceFollowsStage ==
  ASSUME Followed, NEW s \in DOMAIN log
  PROVE  /\ StageOf(s) = "queued" => CommandOf(s) \in InQueue
         /\ StageOf(s) = "running" => CommandOf(s) \in InGame
<1>1. CASE ~IsOpen(s)
  <2>1. log[s].fate \in Fates
    BY LogShape DEF Followed, Record
  <2>2. StageOf(s) # "queued" /\ StageOf(s) # "running"
    BY <1>1, <2>1 DEF Followed, StageMap, Fates
  <2> QED BY <2>2
<1>2. CASE IsOpen(s)
  <2>1. \/ CommandOf(s) \in InQueue \/ CommandOf(s) \in InGame
        \/ \E w \in Workers : CommandOf(s) \in InHands[w]
    BY <1>2, OpenByNumber DEF Followed, Accounted, Partition, Divided
  <2>2. ASSUME NEW w \in Workers, CommandOf(s) \in InHands[w]
        PROVE  StageOf(s) # "queued" /\ StageOf(s) # "running"
    BY <2>2 DEF Followed, StageMap
  <2>3. CommandOf(s) \in InQueue => StageOf(s) = "queued"
    BY DEF Followed, StageMap
  <2>4. CommandOf(s) \in InGame => StageOf(s) = "running"
    BY DEF Followed, StageMap
  <2> QED BY <2>1, <2>2, <2>3, <2>4
<1> QED BY <1>1, <1>2

LEMMA HeadIsOldest ==
  ASSUME Followed, queue # << >>
  PROVE  /\ Head(queue).sequence \in Waiting /\ CommandOf(Head(queue).sequence) = Head(queue)
         /\ \A u \in Waiting : Head(queue).sequence <= u
<1> DEFINE h == Head(queue)
<1>1. queue \in Seq(Command) /\ Ascending(queue, lastTaken, next)
  BY DEF Followed, Typed, TypeOK, InOrder
<1>2. h \in InQueue /\ InQueue \subseteq Open
  BY <1>1, HeadIsElement, PlacesAreOpen DEF InQueue, Followed
<1>3. h.sequence \in DOMAIN log /\ h = CommandOf(h.sequence)
  BY <1>2, OpenCommands DEF Followed
<1>4. h.sequence \in Waiting
  BY <1>2, <1>3 DEF Waiting, Followed, StageMap
<1>5. \A d \in InQueue : h.sequence <= d.sequence
  <2>1. DOMAIN queue = 1..Len(queue) /\ Len(queue) \in Nat /\ h = queue[1] /\ 1 \in DOMAIN queue
    BY <1>1, LenProperties, EmptySeq
  <2>2. \A i \in DOMAIN queue : queue[i] \in Command
    BY <1>1, <2>1, ElementOfSeq
  <2>3. \A i \in DOMAIN queue : queue[i].sequence \in Nat
    BY <2>2 DEF Command
  <2>4. \A i \in DOMAIN queue : h.sequence <= queue[i].sequence
    BY <1>1, <2>1, <2>3 DEF Ascending
  <2> QED BY <2>4 DEF InQueue, Elements
<1>6. ASSUME NEW u \in Waiting PROVE h.sequence <= u
  <2>1. CommandOf(u) \in InQueue
    BY PlaceFollowsStage DEF Waiting
  <2>2. CommandOf(u).sequence = u
    BY DEF CommandOf
  <2> QED BY <1>5, <2>1, <2>2
<1> QED BY <1>3, <1>4, <1>6

LEMMA AppendToFunction ==
  ASSUME NEW n \in Nat, NEW f, f = [i \in 1..n |-> f[i]], NEW e
  PROVE  Append(f, e) = [i \in 1..(n + 1) |-> IF i = n + 1 THEN e ELSE f[i]]
<1> DEFINE T == {f[i] : i \in 1..n} \cup {e}
<1>1. f \in [1..n -> T]
  OBVIOUS
<1> HIDE DEF T
<1>2. f \in Seq(T)
  BY <1>1, SeqDef
<1>3. Len(f) = n
  BY <1>1, <1>2, LenProperties
<1>4. e \in T
  BY DEF T
<1>5. /\ Append(f, e) \in Seq(T) /\ Len(Append(f, e)) = n + 1
      /\ \A i \in 1..n : Append(f, e)[i] = f[i]
      /\ Append(f, e)[n + 1] = e
  BY <1>2, <1>3, <1>4, AppendProperties
<1>6. Append(f, e) \in [1..(n + 1) -> T]
  BY <1>5, LenProperties
<1>7. \A i \in 1..(n + 1) : Append(f, e)[i] = IF i = n + 1 THEN e ELSE f[i]
  BY <1>5
<1> QED BY <1>6, <1>7

LEMMA LivesAppended ==
  ASSUME Followed, DOMAIN log' = DOMAIN log \cup {next}, Len(log) = next - 1,
         NEW S, NEW to,
         \A s \in DOMAIN log : StageOf(s)' = IF s \in S THEN to ELSE StageOf(s),
         \A s \in {next} : StageOf(s)' = "queued"
  PROVE  Lives' = Append(LivesMoved(S, to), "queued")
<1> DEFINE f == LivesMoved(S, to)
           n == Len(log)
<1>1. DOMAIN log = 1..n /\ n \in Nat /\ next = n + 1 /\ next \in Nat
  BY LogShape DEF Followed, Typed, TypeOK
<1>2. f = [i \in 1..n |-> f[i]]
  BY <1>1 DEF LivesMoved
<1>3. \A s \in 1..n : f[s] = IF s \in S THEN to ELSE StageOf(s)
  BY <1>1 DEF LivesMoved
<1> HIDE DEF f, n
<1>4. Append(f, "queued") = [i \in 1..(n + 1) |-> IF i = n + 1 THEN "queued" ELSE f[i]]
  BY <1>1, <1>2, AppendToFunction
<1>5. DOMAIN log' = 1..(n + 1)
  BY <1>1
<1>6. \A s \in 1..(n + 1) : StageOf(s)' = IF s = n + 1 THEN "queued" ELSE f[s]
  <2>1. \A s \in 1..n : StageOf(s)' = f[s] /\ s # n + 1
    BY <1>1, <1>3
  <2>2. \A s \in 1..(n + 1) : s \in 1..n \/ s = n + 1
    BY <1>1
  <2> QED BY <1>1, <2>1, <2>2
<1>7. Lives' = [s \in 1..(n + 1) |-> StageOf(s)']
  BY <1>5 DEF Lives
<1> QED BY <1>4, <1>6, <1>7 DEF f

LEMMA PushIssues ==
  ASSUME Followed, Followed', [Next]_vars, NEW w \in Workers, Push(w)
  PROVE  Lifecycle!Issue
<1> DEFINE gone == Elements(Evicted(queue, Slots))
           c == [sequence |-> next, type |-> cmd[w].type]
<1>1. /\ InQueue' = (InQueue \ gone) \cup {c}
      /\ InHands' = [InHands EXCEPT ![w] = gone] /\ InHands[w] = {} /\ InGame' = InGame
      /\ DOMAIN InHands = Workers
  BY PushKeepsAccount DEF Followed, InHands
<1>2. /\ cmd[w].type \in Types /\ log' = Append(log, [type |-> cmd[w].type, fate |-> "open"])
      /\ pc' = [pc EXCEPT ![w] = IF IsFull(queue, Slots) THEN "evict" ELSE "mark"]
      /\ DOMAIN pc = Workers
  BY DEF Push, Followed, Typed, TypeOK, Submitted
<1>3. /\ DOMAIN log' = DOMAIN log \cup {next} /\ Len(log) = next - 1
      /\ log'[next] = [type |-> cmd[w].type, fate |-> "open"]
  BY <1>2, OpenAfterPush DEF Followed, Accounted, Numbered
<1>4. \A s \in {next} : StageOf(s)' = "queued"
  <2>1. log'[next].type = cmd[w].type
    BY <1>3
  <2>2. \A s \in {next} : CommandOf(s)' = c
    BY <2>1 DEF CommandOf
  <2>3. c \in InQueue'
    BY <1>1
  <2> HIDE DEF c
  <2> QED BY <1>3, <2>2, <2>3 DEF Followed, StageMap
<1> HIDE DEF gone, c
<1>5. ASSUME NEW s \in DOMAIN log, CommandOf(s) \notin gone PROVE StageOf(s)' = StageOf(s)
  <2>1. CommandOf(s) \in InQueue => CommandOf(s) \in InQueue'
    BY <1>1, <1>5
  <2>2. \A v \in Workers : CommandOf(s) \in InHands[v] =>
          CommandOf(s) \in InHands'[v] /\ pc'[v] = pc[v]
    BY <1>1, <1>2
  <2> QED BY <1>1, <2>1, <2>2, StageStays
<1>6. CASE IsFull(queue, Slots)
  <2> DEFINE h == Head(queue).sequence
  <2>1. queue # << >> /\ gone = {Head(queue)}
    BY <1>6 DEF IsFull, Evicted, Elements, gone
  <2>2. h \in Waiting /\ CommandOf(h) = Head(queue) /\ \A u \in Waiting : h <= u
    BY <2>1, HeadIsOldest
  <2> HIDE DEF h
  <2>3. \A s \in {h} : StageOf(s)' = "dropped"
    <3>1. \A s \in {h} : s \in DOMAIN log /\ s \in DOMAIN log' /\ CommandOf(s)' = CommandOf(s)
      BY <1>3, <2>2, LogStep DEF Waiting, CommandOf, Followed
    <3>2. pc'[w] = "evict" /\ Head(queue) \in InHands'[w]
      BY <1>1, <1>2, <1>6, <2>1
    <3>3. \A s \in {h} : CommandOf(s)' \in InHands'[w]
      BY <2>2, <3>1, <3>2
    <3> QED BY <3>1, <3>2, <3>3 DEF Followed, StageMap
  <2>4. \A s \in DOMAIN log : CommandOf(s) \in gone => s = h
    BY <2>1, <2>2 DEF CommandOf
  <2>5. \A s \in DOMAIN log : StageOf(s)' = IF s \in {h} THEN "dropped" ELSE StageOf(s)
    BY <1>5, <2>3, <2>4
  <2>6. Lives' = Append(LivesMoved({h}, "dropped"), "queued")
    BY <1>3, <1>4, <2>5, LivesAppended
  <2> QED BY <2>2, <2>6, AbstractIssue
<1>7. CASE ~IsFull(queue, Slots)
  <2>1. gone = {}
    BY <1>7 DEF Evicted, Elements, gone
  <2>2. \A s \in DOMAIN log : StageOf(s)' = IF s \in {} THEN "queued" ELSE StageOf(s)
    BY <1>5, <2>1
  <2>3. Lives' = Append(LivesMoved({}, "queued"), "queued")
    BY <1>3, <1>4, <2>2, LivesAppended
  <2>4. LivesMoved({}, "queued") = Lives
    BY DEF Lives, LivesMoved
  <2> QED BY <2>3, <2>4, AbstractIssue
<1> QED BY <1>6, <1>7

LEMMA PopExecutes ==
  ASSUME Followed, Followed', [Next]_vars, PopCommand
  PROVE  Lifecycle!Execute
<1> DEFINE h == Head(queue).sequence
<1>1. /\ Head(queue) \in InQueue
      /\ InGame = {} /\ InGame' = {Head(queue)} /\ InQueue' = InQueue \ {Head(queue)}
      /\ InHands' = InHands
  BY PopKeepsAccount DEF Followed
<1>2. log' = log /\ pc' = pc /\ queue # << >>
  BY DEF PopCommand, locals
<1>3. h \in Waiting /\ CommandOf(h) = Head(queue) /\ \A u \in Waiting : h <= u
  BY <1>2, HeadIsOldest
<1> HIDE DEF h
<1>4. \A u \in DOMAIN log : StageOf(u) # "running"
  BY <1>1, PlaceFollowsStage
<1>5. \A s \in {h} : StageOf(s)' = "running"
  <2>1. \A s \in {h} : s \in DOMAIN log' /\ CommandOf(s)' \in InGame'
    BY <1>1, <1>2, <1>3 DEF Waiting, CommandOf
  <2> QED BY <2>1 DEF Followed, StageMap
<1>6. \A s \in DOMAIN log \ {h} : StageOf(s)' = StageOf(s)
  <2> SUFFICES ASSUME NEW s \in DOMAIN log, s # h PROVE StageOf(s)' = StageOf(s)
    OBVIOUS
  <2>1. CommandOf(s) # Head(queue)
    BY <1>3 DEF CommandOf
  <2> QED BY <1>1, <1>2, <2>1, StageStays
<1>7. \A s \in DOMAIN log : StageOf(s)' = IF s \in {h} THEN "running" ELSE StageOf(s)
  BY <1>5, <1>6
<1>8. Lives' = LivesMoved({h}, "running")
  BY <1>2, <1>7, LivesChanged
<1> QED BY <1>3, <1>4, <1>8, AbstractExecute

LEMMA FinishFinishes ==
  ASSUME Followed, Followed', [Next]_vars, FinishCommand
  PROVE  Lifecycle!Finish
<1>1. PICK c \in running : SetFate(c.sequence, "executed")
  BY DEF FinishCommand
<1> DEFINE r == c.sequence
<1>2. /\ InGame = {c} /\ InGame' = {} /\ c \in Open /\ InQueue' = InQueue /\ InHands' = InHands
  BY <1>1, FinishKeepsAccount DEF FinishCommand, Followed
<1>3. r \in DOMAIN log /\ c = CommandOf(r) /\ pc' = pc
  BY <1>2, OpenCommands DEF Followed, FinishCommand, locals
<1>4. DOMAIN log' = DOMAIN log /\ log'[r].fate = "executed"
  BY <1>1, <1>2, OpenAfterFate DEF Followed, Fates
<1> HIDE DEF r
<1>5. StageOf(r) = "running"
  BY <1>2, <1>3 DEF Followed, StageMap
<1>6. \A s \in {r} : StageOf(s)' = "executed"
  <2>1. \A s \in {r} : s \in DOMAIN log' /\ ~IsOpen(s)' /\ log'[s].fate = "executed"
    BY <1>3, <1>4 DEF IsOpen
  <2> QED BY <2>1 DEF Followed, StageMap
<1>7. \A s \in DOMAIN log \ {r} : StageOf(s)' = StageOf(s)
  <2> SUFFICES ASSUME NEW s \in DOMAIN log, s # r PROVE StageOf(s)' = StageOf(s)
    OBVIOUS
  <2>1. CommandOf(s) # c
    BY <1>3 DEF CommandOf
  <2> QED BY <1>2, <1>3, <2>1, StageStays
<1>8. \A s \in DOMAIN log : StageOf(s)' = IF s \in {r} THEN "executed" ELSE StageOf(s)
  BY <1>6, <1>7
<1>9. Lives' = LivesMoved({r}, "executed")
  BY <1>4, <1>8, LivesChanged
<1> QED BY <1>3, <1>5, <1>9, AbstractFinish

LEMMA ClearClears ==
  ASSUME Followed, Followed', [Next]_vars, ClearCommands
  PROVE  Lifecycle!Clear
<1>1. InGame' = InGame /\ InHands' = InHands /\ pc' = pc
  BY ClearKeepsAccount DEF Followed, ClearCommands, locals
<1>2. /\ DOMAIN log' = DOMAIN log
      /\ \A s \in DOMAIN log :
           log'[s] = IF \E i \in DOMAIN queue : queue[i].sequence = s
                       THEN [log[s] EXCEPT !.fate = "cleared"] ELSE log[s]
  BY DEF ClearCommands
<1>3. \A s \in DOMAIN log :
        (\E i \in DOMAIN queue : queue[i].sequence = s) <=> CommandOf(s) \in InQueue
  BY PlaceBySequence, PlacesAreOpen DEF InQueue, Followed, Typed, TypeOK
<1>4. \A s \in DOMAIN log : s \in Waiting <=> CommandOf(s) \in InQueue
  <2>1. \A s \in DOMAIN log : CommandOf(s) \in InQueue => StageOf(s) = "queued"
    BY DEF Followed, StageMap
  <2> QED BY <2>1, PlaceFollowsStage DEF Waiting
<1>5. \A s \in Waiting : StageOf(s)' = "cleared"
  <2> SUFFICES ASSUME NEW s \in DOMAIN log, s \in Waiting PROVE StageOf(s)' = "cleared"
    BY DEF Waiting
  <2>1. log[s] \in Record
    BY LogShape DEF Followed
  <2>2. log'[s].fate = "cleared"
    BY <1>2, <1>3, <1>4, <2>1 DEF Record
  <2>3. ~IsOpen(s)' /\ s \in DOMAIN log'
    BY <1>2, <2>2 DEF IsOpen
  <2> QED BY <2>2, <2>3 DEF Followed, StageMap
<1>6. \A s \in DOMAIN log \ Waiting : StageOf(s)' = StageOf(s)
  BY <1>1, <1>4, StageStays
<1>7. Lives' = LivesMoved(Waiting, "cleared")
  BY <1>2, <1>5, <1>6, LivesChanged
<1> QED BY <1>7, AbstractClear

(* The steps that settle nothing: the arrival of a call, the end of the
   coalescing loop, marking, the inputs, the turns of the tick. *)
LEMMA OthersStutter ==
  ASSUME Followed, Followed', [Next]_vars,
         UNCHANGED <<queue, doomed, log>>,
         \/ UNCHANGED pc
         \/ \E w \in Workers : CoalesceDone(w) \/ Mark(w) \/ \E t \in Types : Submit(w, t)
  PROVE  InGame' = InGame => Lives' = Lives
<1> SUFFICES ASSUME InGame' = InGame PROVE Lives' = Lives
  OBVIOUS
<1>1. InQueue' = InQueue /\ InHands' = InHands
  BY DEF InQueue, InHands
<1>2. \A w \in Workers, c \in Open : c \in InHands[w] => pc'[w] = pc[w]
  <2>1. CASE UNCHANGED pc
    BY <2>1
  <2>2. ASSUME NEW w \in Workers, CoalesceDone(w) \/ Mark(w) \/ \E t \in Types : Submit(w, t)
        PROVE  InHands[w] = {} /\ \A v \in Workers \ {w} : pc'[v] = pc[v]
    <3>1. doomed[w] = << >>
      BY <2>2 DEF CoalesceDone, Mark, Submit, Followed, Accounted, HandsInOrder
    <3> QED BY <2>2, <3>1 DEF CoalesceDone, Mark, Submit, InHands, Elements, Followed, Typed, TypeOK
  <2> QED BY <2>1, <2>2
<1>3. \A s \in DOMAIN log : StageOf(s)' = StageOf(s)
  <2> SUFFICES ASSUME NEW s \in DOMAIN log PROVE StageOf(s)' = StageOf(s)
    OBVIOUS
  <2>1. \A w \in Workers : InHands[w] \subseteq Open
    BY PlacesAreOpen DEF Followed
  <2> QED BY <1>1, <1>2, <2>1, StageStays
<1> QED BY <1>3, LivesUnchanged

LEMMA EveryStepFollows ==
  ASSUME Followed, Followed', [Next]_vars
  PROVE  Lifecycle!Next \/ Lives' = Lives
<1> USE DEF queues, locals, game, history
<1>1. ASSUME NEW w \in Workers, WorkerStep(w) PROVE Lifecycle!Next \/ Lives' = Lives
  <2>1. CASE CoalesceDone(w) \/ Mark(w)
    <3>1. UNCHANGED <<queue, doomed, log>> /\ InGame' = InGame
      BY <2>1 DEF CoalesceDone, Mark, InGame
    <3> QED BY <2>1, <3>1, OthersStutter
  <2> QED BY <1>1, <2>1, CoalesceSupersedes, ReportStutters, PushIssues
          DEF WorkerStep, Lifecycle!Next
<1>2. CASE GameStep
  <2>1. CASE BeginTick \/ CommandsDone \/ PopInput \/ FinishInput \/ InputsDone
    <3>1. UNCHANGED <<queue, doomed, log, pc>>
      BY <2>1 DEF BeginTick, CommandsDone, PopInput, FinishInput, InputsDone
    <3>2. InGame' = InGame
      <4>1. CASE PopInput \/ FinishInput
        BY <4>1 DEF PopInput, FinishInput, InGame
      <4>2. CASE BeginTick \/ CommandsDone \/ InputsDone
        <5>1. running = {} /\ running' = {}
          BY <4>2 DEF BeginTick, CommandsDone, InputsDone, Followed, Accounted, OneAtATime
        <5> QED BY <5>1 DEF InGame
      <4> QED BY <2>1, <4>1, <4>2
    <3> QED BY <3>1, <3>2, OthersStutter
  <2> QED BY <1>2, <2>1, PopExecutes, FinishFinishes DEF GameStep, Lifecycle!Next
<1>3. ASSUME NEW w \in Workers, NEW t \in Types, Submit(w, t) PROVE Lives' = Lives
  <2>1. UNCHANGED <<queue, doomed, log>> /\ InGame' = InGame
    BY <1>3 DEF Submit, InGame
  <2> QED BY <1>3, <2>1, OthersStutter
<1>4. ASSUME NEW w \in Workers, PushInput(w) PROVE Lives' = Lives
  <2>1. UNCHANGED <<queue, doomed, log, pc>> /\ InGame' = InGame
    BY <1>4 DEF PushInput, InGame
  <2> QED BY <2>1, OthersStutter
<1>5. CASE ClearInputs \/ UNCHANGED vars
  <2>1. UNCHANGED <<queue, doomed, log, pc>> /\ InGame' = InGame
    BY <1>5 DEF ClearInputs, vars, InGame
  <2> QED BY <2>1, OthersStutter
<1>6. CASE ClearCommands
  BY <1>6, ClearClears DEF Lifecycle!Next
<1> QED BY <1>1, <1>2, <1>3, <1>4, <1>5, <1>6 DEF Next

(* The queue, the workers and the game thread together implement the abstract
   life of commands: a command is queued once, leaves the queue once, only the
   oldest is executed or dropped, one at a time, and nothing comes back. *)
THEOREM PipelineImplementsLifecycle == Spec => ImplementsLifecycle
<1>1. Init => Lifecycle!Init
  <2>1. Init => Lives = << >>
    BY DEF Init, Lives
  <2> QED BY <2>1 DEF Lifecycle!Init, Lives
<1>2. Spec => []Followed
  BY CommandsAreAccounted, StageFollowsPlace, PTL DEF Followed
<1>3. Followed /\ Followed' /\ [Next]_vars => [Lifecycle!Next]_Lives
  BY EveryStepFollows
<1> QED BY <1>1, <1>2, <1>3, PTL DEF Spec, ImplementsLifecycle, Lifecycle!Spec, Lives
=============================================================================
