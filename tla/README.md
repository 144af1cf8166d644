# doom-mcp: a formal model

doom-mcp lets an agent play a Doom engine through the Model Context Protocol: an
HTTP/SSE server runs inside the engine's process, its worker threads answer tool
calls, and the engine's own game thread, once per frame, publishes what the game
looks like and executes what the agents asked for. The program is small; what is
hard about it is that these threads meet in a handful of places, most of them
without one lock around the whole exchange, and that an agent acts on a picture of
the game that is some ticks old. This directory models those places, and the path of
a command from the tool an agent calls to what it does to the game, in TLA+, checks
them with TLC on small instances, and proves with TLAPS, for every size, what the
concurrent components, the tools and the two games promise.

Paths below are relative to the repository's root.

1. [The system](#1-the-system): components, state, interaction, hard behaviour
2. [The modules](#2-the-modules): what corresponds to what
3. [The runs](#3-the-runs): what is checked, with which bounds
4. [Fairness](#4-fairness)
5. [The proofs](#5-the-proofs)
6. [What the code does that its documents do not say](#6-what-the-code-does-that-its-documents-do-not-say)
7. [What is not modelled](#7-what-is-not-modelled)
8. [The plan](#8-the-plan)

## 1. The system

### Threads

| thread | runs |
|---|---|
| HTTP workers (cpp-httplib's pool) | every request: JSON-RPC, tool handlers, one event stream each |
| listener (`transport_thread_main`) | binds, listens, sweeps the streams when it ends |
| game thread | the engine's frame: `dmcp_context_tick`, the adapter's command and input loops, the render hook that captures screenshots |
| owner | creates, stops and destroys server and context; often the game thread |
| broadcasters | whoever calls `mcp_server_event_broadcast` |

### Components

| component | state | operations | must be right |
|---|---|---|---|
| command queue (`src/doom/commands.cpp`) | bounded deque, sequence counter, one mutex | push (evicts the front), remove_by_type, pop, clear | nothing lost or duplicated, order of submission kept |
| command results (`commands.cpp`, `internal/context.hpp`) | bounded map by sequence number, eviction list, one mutex | mark queued, complete, get | map and list agree, a final answer is not replaced, an answer is about the command it was asked for |
| player inputs (`commands.cpp`, `tools/input.cpp`) | a second queue with its own counter | push, pop, clear | as above; drained within a tick's budget |
| tool handlers (`src/doom/handlers`) | none of their own | list and dispatch tools, validate, check permissions, coalesce, push, mark; copy a snapshot; page state; run a batch | what is listed is served, what is offered is accepted, a batch is its calls one by one; each call is several critical sections: what can happen between them |
| command parsing (`commands/parsers.cpp`, `commands/types`) | none | JSON arguments to a command | numbers keep their meaning through casts, limits and rounding |
| content (`content.cpp`, `content_catalog.cpp`) | none | which names a game mode knows; the catalogue | catalogue and validation agree |
| permissions (`permissions.cpp`) | none | by tool name, by command, by console line | nothing that cheats gets past them |
| state sections (`handlers/state_json.cpp`) | none | filter and page a copied snapshot | a page shows what was asked for |
| snapshot handoff (`context.cpp`, `handlers/common.cpp`) | three buffers, three pin counts, one published token | tick (choose, fill, publish), copy | no torn copy, no leaked pin, the game thread never waits |
| screenshots (`context.cpp`, `internal/screenshot.hpp`) | pending counter, latest frame, mutex | request, submit, get | counter within its limit, a request leads to a newer frame |
| transport (`src/mcp/http_sse_transport.cpp`) | list of streams, per-stream bounded queue, closed flag, handle | open, wait, write, broadcast, close from three threads, stop, destroy | events in order, a disconnect reported once, a stop that ends, nothing used after it |
| MCP server (`src/mcp/server.cpp`, `request_context.cpp`) | sessions, method and route registries, counters, per-thread request metadata | initialize, initialized, gate, dispatch, DELETE, register, unregister | sessions separate, nothing served before the handshake, nothing after DELETE |
| game registration (`src/game/registration.cpp`) | none | register, unwind, unregister | all or nothing |
| adapters (`adapters/*`) | the engine's, or the fake game's own | publish the game, pop and execute commands and inputs | executed in order, every popped command completed; the enemy that is hit is the one that was seen; done means done, failed means untouched |
| JSON, core utilities | none | pure functions | translation |
| Python agent (`examples/agents/python`) | a client's | polls results | an external user of the server |

### How they meet

* a tool call goes worker -> command queue -> game thread -> result map -> another
  worker that polls `get_command_result`;
* the state goes game thread -> snapshot slots -> workers, without a lock;
* an agent reads names, ids and angles from a snapshot or a catalogue and sends them
  back in a command, which the server checks against the snapshot of that moment and
  the adapter against the game of a later one;
* a screenshot is asked for by a counter that goes up on workers and down on the
  game thread; the picture comes back under a mutex, later than the answer;
* a request's session id goes from the transport to the server, and the reply's
  back, through `thread_local` variables of a worker that serves one client after
  the other;
* a stream is closed by its worker, the listener or the owner, all through
  `mark_client_closed`, which calls back into the server.

### What is hard to test

`PROJECT.json` lists the hazards one by one, at their lines. They are of seven
kinds: several critical sections where one would be expected (coalesce, push,
mark; list, then set the flags of a session; list, then count a stream);
lock-free publication (snapshot pins, the screenshot counter); bounded containers
at their bound (queues, result map, pending events, session ids drawn again);
ends of things (stop, destroy, DELETE, clear) against work in progress;
identities that live in two places (two counters that number one map, thread-local
metadata, enemy ids that are places in a list); tables and tests that are written
twice and must agree (catalogue and validation, list and dispatch, schemas and
parsers, the server's console cheats and the adapter's); and numbers at the edge of
a width. There is no persistence and no network between components of the
program, so there is nothing about crash recovery or lost messages to model; what
an HTTP peer can do is go away, and it does (`Abandon`, `WriteFailed`).

## 2. The modules

| module | models | grain |
|---|---|---|
| `CommandQueue` | the deque operations as pure operators on sequences | a method under its mutex |
| `CommandPipeline` | workers in `queue_command_from_json`, both queues, the result map, the game thread's loops | one critical section a step |
| `CommandLifecycle` | abstract: what becomes of each command | one stage of one command |
| `SnapshotHandoff` | `dmcp_context_tick` and `copy_latest_snapshot` | one atomic access a step |
| `SnapshotRegister` | abstract: one snapshot that is read and replaced as a whole | one publication, one moment of a call a step |
| `Screenshots` | requests, capture hook, submission, handlers | one atomic access or critical section a step |
| `SseTransport` | event streams from open to destroy, and the connected-client counter | one critical section, atomic or callback a step |
| `McpServer` | sessions, gate, dispatch, registries, counters, thread-local metadata | one critical section or flag store a step |
| `Content` | the tables of names, the restrictions of a game mode, the catalogue | pure operators |
| `CommandParsing` | the readers of arguments and the ten command parsers | pure operators |
| `Permissions` | the two checks and the reading of console lines | pure operators |
| `CommandIntake` | parse, validate for the mode, ask for permission, singly and in a batch | pure operators |
| `StateQueries` | sections, filters, paging, the state tools | pure operators |
| `Tools` | tools/list and tools/call with every tool, against a game that publishes | a call a step; a call of a batch a step |
| `Outcomes` | what an execution can lead to | pure operators |
| `CrispyWorld` | commands, inputs and snapshots of the Crispy Doom adapter | pure operators, sets of outcomes |
| `FakeWorld` | the fake adapter's game | pure operators, sets of outcomes |
| `Play` | an agent, the intake, and the tick of either adapter with its world | a call, a command or an input, a phase of the tick a step |
| `MC*` | the values TLC gives to the constants | |
| `CommandPipelineProofs`, `CommandFateProofs`, `SnapshotHandoffProofs`, `SseTransportProofs`, `McpServerProofs`, `ScreenshotsProofs`, `ToolsProofs`, `PlayProofs` | theorems and their proofs | |

`PROJECT.json` maps each definition to its lines. Definitions headed *Faulty
variant* are no part of a specification: they are the plausible mistakes that each
checked property is tried against, and each of them makes TLC find the property
violated.

**CommandPipeline** extends `CommandQueue`. A worker goes `idle` (a call arrives;
a refused type returns at once) -> `coalesce` (`remove_by_type` under the queue's
mutex) -> `discard` (each removed command completed as superseded, under the
result mutex) -> `push` (numbered and appended; a full queue hands back its front)
-> `evict` (that one completed as dropped) -> `mark` (the new one recorded as
pending) -> `idle`. Types that are not coalesced skip the middle. Inputs are only
pushed. The game thread's `phase` runs through the two loops in either order
(`InputsFirst`; Crispy Doom and ZDoom differ) with or without a budget of inputs
(`InputBudget`); it holds at most one popped command in `running` and completes it
in a step of its own. What execution does to the game is a nondeterministic success
or failure. `log` is history: the fate of every number ever issued, which the
program's bounded map forgets.

**CommandLifecycle** is what a client may rely on: numbers are issued in order; a
queued command leaves once, to run, be superseded, be dropped or be cleared; only
the oldest runs or is dropped; one runs at a time; nothing comes back.
`ImplementsLifecycle` is the refinement, with `stage` computed from where a command
is (`StageOf`): a command in a worker's hands is already superseded or dropped
although it is not recorded yet.

**SnapshotHandoff**: `tick` walks through `find_snapshot_write_slot` (one slot a
step, passing over the published and the pinned), clearing, filling in two halves
and publishing; a reader loads the token, pins, checks the token again, copies in
two halves and unpins. A half holds the number of its generation, so a torn copy
has two different ones. That `dmcp_context_tick` has a rate limit only says when
`BeginTick` may happen, and it may happen at any time here.

**SnapshotRegister** is what a reader may rely on: a call settles at one moment on the
snapshot that is current then, shows that one alone, and returns. `ImplementsRegister` is the
refinement. A call has settled when its second look at the token has matched (`copy_lo` and
later); `current` is the generation of the token. So a copy is not only whole, it is also no
older than the call, and later calls do not go back.

**Screenshots**: `Request` is the compare-and-swap loop, which takes effect at one
point; the handlers answer with the frame that is there. The render hook polls the
counter, captures, stores the frame under the mutex, tests the counter and counts
it down. The counter wraps at `Modulus`, 2^32 in the code.

**SseTransport**: each stream's worker registers the client, calls
`on_sse_connect`, sets the handle and runs the content provider (wait for up to a
second, heartbeat, drain, write outside the mutex). `Mark` is
`mark_client_closed`: the exchange on `closed`, the report, the removal from the
list, for worker, listener and owner alike. The HTTP library is external: it calls
the provider until it ends or the peer is gone, then the releaser, and
`listen_after_bind` returns when the server was stopped and the workers are done.

**McpServer**: a worker takes a request of any client (`Begin` sets the thread's
metadata and clears the reply's, as `dispatch_http_request` does), walks to the
answer, and `Reply` tells the client the id in the reply's header and clears the
metadata. Clients only use ids they were told, which is what makes a session whose
flags are still being stored unreachable. `Insert` lists a session;
`StoreCompleted`, `StoreRequires` and `StoreReceived` store its flags after that,
without a lock, as the code does. `Collide` is a drawn id that is taken. The error
checks that come before any state are one kind of request, `malformed`; an answer
that does not fit the buffer (`Oversized`) may replace any answer with an id.

**Content** has the tables of `content.cpp` as sets and the restrictions as set
differences. `ResolveGameMode` prefers what the engine publishes over what the caller
asks for over retail; `CatalogMaps` and `MapIsAvailable` are the two ways of asking for
a map. `Episodes` and `Levels` select which maps are enumerated.

**CommandParsing**: arguments are functions from fields to tagged values, numbers are
integers or halves, so that what truncates and what does not can be told apart. A
parser answers with the set of commands it can produce: empty for a refusal, one as a
rule, two where a cast is undefined (`Integers64` at 2^63, where the C++ cast has no
defined value). Coordinates and angles are cast to single precision (`Single`, `AsFloat`):
exact up to `FloatExact`, from there the nearest multiple of `FloatStep`, infinite beyond
`FloatMax`. The widths are constants in the same order as the code's, not their
size. `Truncated`, `Clamp` and `DamageTarget` are the casts of `damage.cpp` in their
order.

**Permissions** asks twice, as the code does: `ToolAllowed` by the name of the tool
before its handler runs, `CommandAllowed` when a command is pushed. A console line is a
sequence of words and blanks, a word knows whether it has capitals, which is all that
normalising looks at.

**CommandIntake** is `queue_command_from_json` as far as it decides: `Queued` is
parse, `ValidForMode`, `CommandAllowed`; `SingleCall` asks for the tool first,
`BatchCall` does not and refuses `change_level`.

**StateQueries** gives for a section the rows that pass its filter (`Selections`), the
window the arguments stand for after clamping (`Windows`) and the page (`Page`, whose
end is computed modulo the width of a size).

**Tools** is one server under one of all its configurations. The game publishes at any
time; a call is answered in a step, as each handler copies the snapshot once, except
for a batch, which copies it again for every call in it (`StartBatch`, `QueueNext`,
`EndBatch`). The answer keeps what was seen and what was queued, so that the properties
can compare. `Listed` and `Dispatch` are the two walks over the tools. One
simplification: a `get_command_result` for several numbers reads all of them at once.

**CrispyWorld** follows `command_exec.c`, `input.c` and `state_enemies.c` function by
function. A world is the engine's list of things, the player, the level's flags and the
tick command. The engine's own functions are external and kept to what the adapter
relies on: a new thing is linked at the end of the list (`SpawnMobj`) before the adapter
asks whether its place is blocked, and taken out again if it is (`RemoveMobj`); a dead
monster stays in the list (`DamageMobj`), except a Pain Elemental, whose death ends in
no state at all (`Vanish` of `Play`); a new game is only requested (`deferred`).
`FindEnemy` numbers the things that count as a kill, as both the snapshot and the
commands do. `ToFixed` and `ToAngle` are the adapter's conversions of a single, with
their ends: an infinite coordinate is 0, a negative angle is 0.

**FakeWorld** follows `adapters/fake/src/adapter.cpp`. `uid` is not in the code: it
tells enemies apart that the program may give the same id.

**Play** composes intake and worlds. The agent only uses ids that it sees in the last
published view, and its call goes through `SingleCall`. The Crispy tick is publish,
commands, one input, and then the engine's own step (`LoadLevel`, `RunLevel`,
`Vanish`, `Respawn`, `LeaveLevel`); the fake one is inputs, commands, advance, publish.
With a command that names an enemy the queue keeps which one the agent saw (`meant`) and
whether the view showed its id once (`alone`). `epoch` counts the steps after which the
ids of Crispy Doom name other enemies than before: level loads, respawns and removals.
`buried` is the dead that left the game, over a counter that was reset or not. All of
these are history.

How they fit together: `Play` and `Tools` use the same intake; `Play` replaces the
queues of `CommandPipeline` by plain sequences, because nothing is evicted, superseded
or cleared within its bounds and the pipeline has its own module with every critical
section apart. `CommandPipeline` replaces the intake by a set of refused types and
execution by success or failure. `SseTransport` contains the one piece of the server it
interacts with, the counter; `McpServer` passes a tool call on without reading the
state of those that answer it.

## 3. The runs

Every property of a passing run has a faulty variant of the code that TLC shows to
violate it under the same configuration.

| run | bounds | shows |
|---|---|---|
| `CommandPipeline` | 2 workers, queues of 2, 2 results, 3 commands of a plain, a coalescible and a refused type, 1 input, inputs first and without a budget, clears | `NothingLost`, `QueueInOrder`, `SupersededByNewer`, `ResultsMatchOrder`, `FinalAnswersStay`, `EveryCommandSettles`, `ImplementsLifecycle` |
| `CommandPipelinePending` | 2 workers, 2 commands, commands first and one input a tick | violated: `PendingMeansUnfinished` |
| `CommandPipelineCollision` | 2 commands, 2 inputs | violated: `ResultIsOfTheCommand` |
| `SnapshotHandoff` | 2 readers, 3 slots, 5 generations | `CopyIsWhole`, `PinsBalanced`, `ImplementsRegister`, `TickEnds` |
| `SseTransport` | 2 streams, 1 broadcaster, queue of 1, failing writes, stop | `OpenIsListed`, `StopEnds`, `StreamsDrain` |
| `SseTransportLost` | the same, no stop | violated: `CountIsOfTheOpen` |
| `SseTransportOrder` | 2 streams, 2 broadcasters, queues of 1, 2 events, writes succeed, stop | `EventsInOrder`, `CountIsOfTheOpen` |
| `McpServer` | 2 workers, 2 clients, 2 ids, 2 draws, 3 requests, a method and a route that come and go | `SessionsAreSeparate`, `ServedIsReady`, `AcknowledgedStays` |
| `Screenshots` | 2 requesters, 1 hook, limit 2, modulus 16, 5 requests | `RequestIsServed` |
| `Play` | both adapters, 3 calls of 8 kinds and of every enemy in view, 2 kinds of inputs, 3 ticks, levels of a Pain Elemental and a Zombieman | `OnlyRenumberingMisleads`, `KillsAddUp`, `DoneMeansDone`, `FailureLeavesNoTrace` |
| `PlayAim` | the same | violated: `AimComesNearer` |
| `Tools` | 32 configurations, 5 games, 2 scenes, 582 calls | `AdvertisedIsServed`, `OfferedIsAccepted`, `PagesCover`, `BatchAgreesWithSingle`, `NumbersMeanWhatTheySay`, `CheatsNeedPermission` |

Each module's `TypeOK` is checked in its first run.

Why the bounds are enough:

* *Pipeline.* Two places and three commands overflow the queue while two workers are in
  the middle of a call; with two results and three commands plus an input the map evicts
  as well, and clears happen at any time. Two workers are needed and enough for every race
  between coalescing, pushing and marking, because each race is between one worker and
  another or the game thread. Liveness forbids symmetry. Larger safety instances (three
  places, three results, four commands, inputs last and one a tick) were checked as well
  and hold; the safety properties are proved for all.
* *Snapshots.* Three slots are the code's number; two readers can pin everything
  that is not published, which is the worst case; five generations let the slots
  come round while a reader sits on one. The proofs cover any number.
* *Streams.* Two streams suffice for one to fail while the other lives, and for the
  list to change under a snapshot of it. Queues of one overflow with two
  events, of one broadcaster or of two. Failing writes are in one run and two
  broadcasters in the other; stops are in both. The counter is checked
  with writes that succeed, for races of closing, and with writes that fail, where it
  is wrong at once. That events stay in order in queues of any length is proved.
* *Sessions.* Three requests hold every scenario the properties tell apart:
  initialize, a colliding initialize and a request in between; initialize, DELETE
  and a late request; two clients one after the other on one thread. Four requests
  (7.1 million states, 4.5 minutes) were checked as well and hold. Workers, clients
  and ids are symmetric.
* *Screenshots.* A limit of two is reached and turned away by three requests; the
  modulus only has to exceed the limit. One hook is what the adapters have;
  `api.h` allows several submitting threads, for which `RequestIsServed` does not hold
  (section 6).

* *Play.* Three calls and three ticks let an agent see a level, send two commands that
  name enemies, and have a spawn, a level change, a kill of the game's own or another
  command between its look and the hit. Three enemies are shown at most, so the list is
  cut; two monsters in a level and a spawn reach that. `EnemyCapacity` 4 lets the fake
  game fill up after one spawn, `InventoryCapacity` 3 after one gift. `Touching` is how
  many enemies of the fake game may hurt at once. `FullTurn` 8 and `TurnSpeed` 2 are
  angles in which an aim may be nearer than, as far as and farther than a turn.
  `BlockMap` holds the one coordinate that is inside the map, and a coordinate
  too large for a single is asked for, so that it becomes infinite and then 0. The
  Pain Elemental stands before the Zombieman, so that its removal moves that one's id.
* *Tools.* The properties are about one call, and the run has all combinations of
  permissions and features, every game mode, one engine that publishes maps of its own
  and one that publishes none, and the time before the first snapshot. Each numeric
  field gets values on both sides of each of its limits and of each width, the last integer
  of 64 bits and the first that needs more, a number between two singles and one beyond all
  of them among them. The widths
  are scaled (`Int32Max` 65535, `Int64Max` 1048575, `SizeModulus` 2097152) with every limit
  at its place in the order; TLC's own integers have 32 bits. `DefaultLimit` 3 is
  smaller than a scene, as the code's 64 is smaller than a level. Maps and episodes that
  differ in nothing are represented by a few (`Episodes`, `Levels`). A call of a batch of
  two may come before or after any publication.

`CHECK_DEADLOCK FALSE` stands where the system may really stop: a transport that is
destroyed, and bounds that are used up with nobody fair left to act.

## 4. Fairness

Weak fairness is given to what runs by itself: the game thread, whose engine calls
`DMCP_Tick` every frame; a worker in the middle of a call or of its stream (the
wait is bounded to a second, a write by the library's timeout); the listener and
the owner once a stop has begun. A snapshot reader gets none: it may stop with its
pin held, and `TickEnds` holds nevertheless. Nobody is made to send a request, open
a stream, broadcast or stop. `Play` and `Tools` have safety properties only and assume
no fairness. The one strong fairness is `Capture` in `Screenshots`:
an engine whose capture fails now and then succeeds again; the code does not promise
that, the renderer does.

## 5. The proofs

All theorems hold for every value of the constants that satisfies the named
`ASSUME` of the module, the model's own bounds included: they may be any natural numbers.

**SnapshotHandoffProofs** (413 obligations), from `HandoffAssumption`.

* `Typing`: `Spec => []TypeOK`, with `TokenNamesSlot` (a reader past its load names a
  slot) as strengthening.
* `PinsAreBalanced`: `Spec => []PinsBalanced`. Inductive given the types; the work is
  in cardinalities of the set of readers that pin a slot.
* `CopiesAreWhole`: `Spec => []CopyIsWhole`. Not inductive: that a copy is whole depends
  on who may write the slot. The invariant `Handoff` adds `WriterAlone` (a slot being
  written is not published, and no reader copies from it),
  `Filled` (what the writer has written so far), `PublishedWhole` (the published slot
  holds the token's generation) and `SourceWhole` (so does the slot of every reader
  that is copying). `WriterAlone` rests on `PinsBalanced`: a zero count means nobody
  pins. The reader that pins *after* the count was read is harmless because its
  second look at the token fails: the slot chosen was not the published one.
* `HandoffImplementsRegister`: `Spec => ImplementsRegister`, from the same invariant. Every
  action is one step of `SnapshotRegister` or a stutter: the publication is `Write`; the
  second look that succeeds is `Settle`, and it succeeds only on the token that is current;
  that the end of the copy is `Show` of what was settled on is `SourceWhole`.

**CommandPipelineProofs** (637 obligations), from `PipelineAssumption`.

* `Typing`: `Spec => []TypeOK`; `Submitted` (a worker in the middle
  of a call has a command of a real type, and one that evicted a command holds it) is
  needed beside it.
* `QueueIsInOrder` and `CommandsTakenInOrder` (`Spec => TakenInOrder`, which no run checks, as
  `QueueInOrder` implies it of every step that pops): the invariant `InOrder` says that the
  queue ascends, lies between `lastTaken` and `next`, and `lastTaken < next`. Lemmas
  state that each queue operation keeps a queue ascending: `TailAscends`,
  `PushAscends`, `KeptAscends` (removal by type keeps the order because it takes an
  increasing enumeration of positions).
* `MapAndListMatch`: `Spec => []ResultsMatchOrder`. The invariant `Matched` is the property
  stated with `Elements` and `Distinct`, about which the sequence lemmas are; `TrackKeepsMatch` covers all the ways in which
  marking and completing insert, overwrite and evict.

**CommandFateProofs** (1974 obligations), which builds on it.

* `CommandsAreAccounted`: `Spec => [](Typed /\ InOrder /\ Accounted)`. The core is
  `Partition`: the commands whose fate is open are exactly those in the queue, in the
  workers' hands and in the game thread, and no two of these places hold the same one.
  `HandsInOrder` and `OneAtATime` say what a holder may hold. Each operation then is one
  law about sets (`DividedByCoalescing`, `DividedByPushing`, `DividedByTaking`, ...)
  and one about the sequences it works on.
* `NothingIsLost`: `Spec => []NothingLost`, which counts places where `Partition` takes
  them apart; `OneHolder` is the step between the two.
* `SupersededHaveHeirs`: `Spec => []SupersededByNewer`. That a superseded command has a
  newer one needs `Inherited` (one that was pushed, or a worker that has removed and not
  pushed yet); that the queue holds at most one command of a coalescible type per worker is
  not inductive, and `Rationed` is: those kept and the workers about to push are together
  no more than the workers.
* `AnswersStay`: `Spec => FinalAnswersStay`, from `Settled`: while no input has been
  numbered, a final answer is about a command whose fate is settled, and who completes a
  command held it as an open one.
* `AnswersTellFate`: `Spec => []AnswersAreTrue`. While no input has been numbered, what
  `get_command_result` says under a number is about the command of that number, and if it is
  final it tells that command's fate: executed, superseded or dropped. It needs `Pushers`
  (what a worker that is about to mark has in hand is what it pushed) and `ResultsStep`, which
  says that the map and the history change together. The premise is needed: with an
  input in the map the statement is false (section 6, item 2); and the converse, that a
  pending answer means an open fate, is false even without one (item 1).
* `PipelineImplementsLifecycle`: `Spec => ImplementsLifecycle`. `StageFollowsPlace` computes
  the abstract stage of a command from its place in the partition; then every action is one
  action of `CommandLifecycle` (coalescing supersedes a set of commands, a push into a full
  queue queues one and drops the oldest) or a stutter (reporting, marking, everything about
  inputs).

**SseTransportProofs** (1584 obligations), from `TransportAssumption`, which leaves open whether
writes fail and whether there is a stop.

* `Typing`, and with it `OpenStreamsAreListed`. The invariant adds `Roles` (which thread can
  be where), `Reported` (a stream in a thread's hands was closed by that thread alone, and its
  disconnect is not reported twice nor before its connection) and `Lasting` (what the
  listener's last sweep still has to visit includes every open stream).
* `NoOpenStreamIsMissed`: the count of connected clients is never below the number of open
  streams, whatever fails. `CounterIsOfTheOpen`: `WritesFail = FALSE` implies
  `Spec => []CountIsOfTheOpen`. `Covered` says why the count keeps none that is gone: until
  the transport stops only a stream's own worker closes it, after its handle was set, and
  reports it. The hypothesis is needed: where a write fails the statement is false (section
  6, item 4). The rest is a matter of cardinalities.
* `EventsStayInOrder`: `Spec => []EventsInOrder`. `Chained` orders what was sent, what is
  in a worker's hands and what waits, each in itself and before the next; `Fresh`
  says that no stream has anything of a broadcaster from `Limit` on, which is the current event
  if it is still to be delivered to that stream.

**McpServerProofs** (1449 obligations), from `ServerAssumption`.

* `Typing`, with `Posed`: what a worker's locals are at each place.
* `SessionsStaySeparate`, `OnlyReadyIsServed`, `NotificationsStay` share one invariant:
  `Listing` (a session is listed under its id until that is deleted), `Earned` (a client
  has read only ids whose session is its own and whole: the reason why the flags that
  `initialize` stores without a lock do no harm), `Meant` (what the flags say about the
  protocol's version and the acknowledgement, while they are stored and after) and `Timely`
  (a request that came after its id was deleted finds nothing).

**ScreenshotsProofs** (32 obligations), from `ScreenshotAssumption`: `Typing`, for any number of
requesting and submitting threads. There is no more to prove: the limit of the counter is not
kept with two submitters (section 6), and what a request leads to is liveness.

**ToolsProofs** (2539 obligations), for any set of calls, of any names and with any arguments
that JSON has (`CallsAssumption`, `ValuesAssumption`), any scenes whose lists are shorter than
a size counts (`ScenesAssumption`), any maps and game modes an engine publishes, and any
widths in the order of the code's (`WidthsAssumption`).

* `NothingCheatsUnallowed`: `Spec => []CheatsNeedPermission`. `CheatsAreKnown` is the heart:
  the server's two readings of a console line and the adapter's agree on what cheats, for any line.
* `BatchesAgree`: `Spec => []BatchAgreesWithSingle`; `AllowedAlone` shows that the
  permission asked for by the tool's name lets pass what the one asked for by the command does.
* `ServedAsAdvertised`: `Spec => []AdvertisedIsServed`, from `DispatchOutcome` (the list and
  the dispatch walk the same groups) and `SectionsMeetSchemas`.
* `Typing`. The invariant behind these four, `Inv`, remembers of an answer under way what each
  queued command was parsed from and against which snapshot (`Vetted`, `Turned`),
  as later steps of a batch see other snapshots.
* `NumbersAreKept`: `Spec => []NumbersMeanWhatTheySay`. For every number of any size: what a
  parser makes of it is the number, the nearest in the field's range or, of a coordinate or
  an angle, within half a step of a single (`CastRounds`), and a result that is shown was
  asked for. Targets of `damage_entity` beyond 32 bits and negative sequence numbers are not
  claimed anything: there the code breaks it (section 6).
* `PagesAreAsAsked`: `Spec => []PagesCover`. For any list and any offset and limit that are not
  negative, a page has the rows that were asked for. That the end of the window, computed modulo the width of a size, does
  not wrap is where `ScenesAssumption` is needed; that clamping to the list cuts nothing is
  `PageIsAsAsked`. The rows that pass a filter are enumerated by `InOrder`, and
  `InOrderEnumerates` shows that it lists a finite set of positions in ascending order, each
  once and none left out.
* `OffersAreKept`: `Spec => []OfferedIsAccepted`. Whatever is published after a catalogue was read,
  an agent that calls what it offers is served, and so are the examples. All snapshots of a
  behaviour are of one game, so the catalogue and the validation read the same mode and the
  same maps. `ExamplesAssumption` says that the limits are not below the numbers in the
  examples, and that a registered or retail game that publishes its maps has E1M2, which
  the example of `change_level` names; `NamesAssumption` that a text longer than
  the parser's limit is no name of the tables.
* A second invariant, `Remembered`, is behind these three: a snapshot that was seen is one the
  engine published (`Snapshots`), what was shown is what it said (`TrueTo`), and the numbers
  of a call, also of those calls of a batch that are still to come, are JSON's (`Numeric`).

**PlayProofs** (3862 obligations), from `PlayAssumption` (any sizes; a level of any things)
and `RequestsAssumption` (calls of the command tools, whose values are what their tags say),
for any set of calls and inputs, and for both games.

* `KillsAreTheDead`: `Spec => []KillsAddUp`, `FailuresLeaveNoTrace`: `Spec =>
  FailureLeavesNoTrace`, and `PlayTypes`: `Spec => []TypeOK`. One invariant, `Sound`, carries
  the three: the shape of either world (`CrispyGame`, `FakeGame`), that no two enemies share
  a `uid`, that what is queued is what a parser made of the call it stands for (`QueuedOK`),
  and `KillsAddUp` itself. For each game there is one lemma about what commands do (`CrispyTypes`,
  `FakeTypes`), one about inputs (`CrispyInputs`, `FakeInputs`) and one for each step of
  the engine; all of them end in the same statement, `CrispyAfter` or
  `FakeAfter`: enemies stay where they are and change nothing but their health, new ones
  come last, the counter grows with the dead. A failure is equality with the world before
  but for numbers used up: for the spawn that is blocked this is that appending a thing and
  taking out the last one is nothing (`TakenOut`). The dead are counted by lemmas about
  sequences (`HurtCount`, `KilledCount`, `AddedCount`, `RemovedCount`).
* `DoneIsDone`: `KillsSuffice` implies `Spec => DoneMeansDone`, that a command which is
  reported as executed has had the effect its caller asked for, in either game. `Sound` is
  strong enough for it because it bounds what there is: no enemy of the Crispy game has more
  hit points than to begin with (`Points`), ammunition stays within its limits, and no item is in
  two slots of the fake game's inventory (`Inventory`), so that an amount added to one slot
  is one added to what is held of the item. `CallsMean` gives what a queued command and the call it
  stands for have in common; one lemma per effect (`WhoIsKilled`, `CrispyHurtsOne`,
  `FakeHurtsOne`, `GivingGains`, `PowerGains`, `HealthIsSet`) leads to `CrispyKeepsWord` and
  `FakeKeepsWord`. The hypothesis `KillsSuffice`, `SpawnHealth <= 32000`, is the code's:
  `kill_entity` takes no more than that (`adapters/crispy-doom/src/command_exec.c:807`), and the
  strongest monster of the engine has 4000.
* `NamedEnemiesAreHit`: `IdsCanBeNamed` implies `Spec => []OnlyRenumberingMisleads`. The
  invariant `Aims` adds that, while the engine has not numbered its enemies anew, the view
  still shows where they are (`ViewOK`) and every command in the queue finds the enemy it
  means (`EntriesOK`, by `LocatedStays`: an id is a place, or the first of its number, and
  neither is taken by a later enemy). So of all the steps of a game only a level load, a
  respawn and the removal of a Pain Elemental can make a command miss, and of all views
  only one that shows an id twice. These do (section 6, items 8 and 9).
  The hypothesis is needed: `damage_entity` clamps its target at
  `DMCP_TID_MAX`, so an enemy with a greater id cannot be named by it. An enemy of the Crispy
  game has its place as its id, and a snapshot shows no more than 1024 of them
  (`DMCP_MAX_ENEMIES`); the fake game numbers from 100 on, which stays below the limit for
  32664 calls, but it takes any id a spawn asks for (section 6).

`MCPlay` assumes both hypotheses of its instance (`HypothesesHold`), so TLC checks that they
can be met.

Only model-checked: liveness and everything that needs `ENABLED`, which is `EveryCommandSettles`,
`TickEnds`, `StopEnds`, `StreamsDrain` and `RequestIsServed`. Every invariant and every action
property that a passing run checks, and both refinements, are theorems.

No module has a RECURSIVE operator, so none is closed to proofs. `Permissions` counts the words
of a line instead of selecting them for that reason.

What proofs and runs assume of the machine: atomics are sequentially consistent.
The snapshot handoff uses acquire and release and relies, on both sides, on a store
being visible before a later load of another variable; under the C++ memory model that
needs `seq_cst`. The models cannot show this and do not.

## 6. What the code does that its documents do not say

The first four have a run that ends in a counterexample (`PROJECT.json`, findings, with
the lines they contradict).

1. *Pending for ever.* A command is marked as queued after it is visible to the game
   thread; if that executes it first, the mark overwrites the final result
   (`src/doom/handlers/common.cpp:317`).
2. *Two counters, one map.* Commands and inputs are numbered independently from 1 and
   share the result map, so an input's result answers for a command
   (`src/doom/internal/command_queue.hpp:32`).
3. *Aiming turns away.* When the target of an aim is farther than one turn step the
   Crispy Doom adapter turns the other way
   (`adapters/crispy-doom/src/input.c:102`); only the last step goes the right way.
4. *Lost connections stay counted.* A failed write sets `closed` itself, so
   `mark_client_closed` does nothing: the disconnect is never reported, the client stays
   on the list and counted (`src/mcp/http_sse_transport.cpp:308`).

The next ones contradict a document or a message as well. Each can be read off the
definition named here, which models what the code does; the checked properties leave
these cases out and say so. They have no run of their own.

5. *Failed requests that nobody counts.* An answer that does not fit is a 500, and no
   counter of the statistics moves (`src/mcp/server.cpp:477`; `Oversized`), though
   `generic/protocol.h:211` has "Total failed requests".
6. *The screenshot counter wraps.* Two threads that submit, as `api.h:191` allows, can take
   `pending_requests` below zero (`src/doom/context.cpp:233`; `Test`, `Subtract`), and an
   older frame can replace a newer one (`Store`); no adapter has two.
7. *Yesterday's screenshot.* `get_screenshot` asks for a frame and answers with the one
   that is there (`src/doom/handlers/tools/get_screenshot.cpp:14`; `Convert`);
   `tools_list.cpp:99` has "Capture a screenshot of the current game state".
8. *Ids that move.* Crispy Doom's ids are places in a list, and a Pain Elemental leaves it
   when it has died: the ids of all later monsters go down by one between a snapshot and
   the command that names one (`command_exec.c:526`; `Vanish`); `schema_builders.cpp:132`
   has "Target enemy id from game state".
9. *Ids that two have.* The fake adapter takes any id a spawn asks for; the second
   enemy of that id cannot be named (`adapters/fake/src/adapter.cpp:414`; `FakeFind`).
10. *Ids that are not read.* Crispy Doom ignores the tid of a spawn (`command_exec.c:603`;
    `CrispySpawn`), which `schema_builders.cpp:98` offers.
11. *One point of health is a hundred* in Crispy Doom (`command_exec.c:627`;
    `HealthPoints`); `get_command_examples.cpp:266` has "Set player health to specific value".
12. *A negative angle is 0* for Crispy Doom's `set_player_position`
    (`include/dmcp/adapter/utils.h:44`; `ToAngle`), where an aim takes it modulo 360.
13. *Negative offsets and limits* are taken for large ones
    (`src/doom/handlers/common.cpp:101`; `state_json.cpp:466`
    has "offset must be a non-negative integer"), and
14. *negative sequence numbers* likewise (`common.cpp:212`; line 244 has "sequence must
    be a positive integer").
15. *Targets are cut.* `damage_entity` cuts its target to 32 bits before it is clamped
    (`commands/types/damage.cpp:29`; `DamageTarget`): 2^32 + 5 hits enemy 5, and 2^31 enemy
    0, where `kill_entity` refuses both (`KillTarget`).

Also seen while modelling, and of less weight. Queues, streams and sessions:

* the result map evicts its oldest entry whether or not its command is finished
  (`src/doom/commands.cpp:196`), so a command may be unknown while it is queued;
* two readers that pin both unpublished slots make a tick publish nothing
  (`src/doom/context.cpp:141`); one reader cannot;
* an input that a full queue evicts leaves no result; a cleared command stays pending;
* the fake and the ZDoom adapters drain all inputs in one tick
  (`include/dmcp/doom/commands.h:170` says one per tick);
* a submission of a screenshot counts one request down (`api.h:148`: the requested flag
  is cleared);
* unwinding a game registration removes methods that the registration replaced and does
  not put the earlier ones back (`src/game/registration.cpp:80`); the program's own
  registration replaces nothing;
* the server listens before its tools are registered (`src/doom/context.cpp:93`);
* `stopping` of a transport is never reset, so a second start would end every stream at
  once; the program starts each transport once;
* a session is only removed by DELETE.

Numbers:

* `parse_json_integer` compares with a limit that a double rounds up to 2^63, lets 2^63
  pass and casts it, which is undefined (`commands/parsers.cpp:39`);
* a coordinate beyond single precision becomes infinite on the server and 0 in the adapter,
  and a single just above fixed point passes the test of the range and is cast, which is
  undefined (`include/dmcp/adapter/utils.h:31`);
* `width * 4` of a screenshot is computed in 32 bits before it is compared with the
  stride (`src/doom/context.cpp:196`).

Tools and content:

* the schema of `spawn_entity` requires `entity_class` alone, the parser `x` and `y` too;
* `get_items` refuses three of the kinds that the schema of `get_state` lists;
* a catalogue that is asked for a `game_mode`, or before the first snapshot, may offer
  what the validation refuses once the engine has published its own mode;
* examples name what a shareware game (`Cell`) or a Doom II (`E1M2`) does not have, and
  are shown without the permissions they need;
* the message of `set_player_health` says "(0, 200]"; larger values are clamped;
* `player_input` answers "executed" when it has queued (`handlers/tools/input.cpp:35`);
* a `get_state_batch` in which nothing succeeds is not marked as an error;
* a response that does not fit is replaced by an error after the command was queued
  (`handlers/common.cpp:159`).

Adapters:

* Crispy Doom publishes before it executes, so the effect of a command shows one tick
  later than its result, and angles in radians (`state_player.c:43`) where commands take
  degrees;
* it knows some names differently: shells and rockets are published as `Shell` and
  `Rocket`, keys as `Pickup`, which makes all of them `world` for `get_items`; lost souls
  and boss brains do not count as kills and are in no list at all;
* it refuses to give `Fist`, `HealthBonus` and `ArmorBonus` and to spawn the two bonuses,
  which the catalogue offers, and maps outside E1M1-E4M9 and MAP01-MAP32;
* giving `GreenArmor` lowers an armor of 200 (`command_exec.c:439`); `reset_inventory` is
  not looked at;
* spawning makes an enemy of any class in the fake game; a requested id may exceed
  `DMCP_TID_MAX`, at which
  `damage_entity` clamps its target (`commands/types/damage.cpp:30`): it then answers that
  there is no such enemy, or hits the one that has that id;
* `kill_entity` of the Crispy Doom adapter is a damage of at most 32000
  (`adapters/crispy-doom/src/command_exec.c:807`), which is more than any monster has;
* ZDoom ignores the amount of a gift and the skill of a level change, and has no player
  input.

## 7. What is not modelled

* **The engines.** What the engine's own functions decide (a position is blocked, a
  sprite is missing, a monster dies) is any outcome. Monsters that an Archvile raises, items
  that come back in a deathmatch and the angles of things are left out; the former two would
  only renumber or refill, as respawns and gifts do.
* **ZDoom and template adapters, game side**: glue to engines that are not in this
  repository; their drain loops are constants of `CommandPipeline`.
* **JSON and HTTP libraries**, and the wrapper around the former: text over a vendored
  library. What they do to the program is modelled (a value has the wrong type, a request
  is malformed, a peer goes away, a write fails, the listener returns).
* **How the state is written**: the fields of a player, an enemy or a map, statistics of a
  snapshot, the ASCII picture, the layout of catalogues. Formatting without decisions.
* **Game registration's unwinding**, which no registration of the program can reach, and
  **core utilities**.
* **Start of the transport**: `sse_start` with its startup timeout and binding failures.
  It runs before anything is served.
* **Response sizes**, except that an answer of the server may not fit; **validation of
  screenshot frames**, which come from the engine's own screen.
* **The Python agent**: an example client; what it relies on is `CommandLifecycle`.
* **Weak memory**, see above. **Data races on plain memory** (`get_screenshot` looks at a
  vector without its mutex; `sse_stop` reads `ctx->server`; a handler may be unregistered
  after it was looked up) are not modelled.
* **Sequence numbers** are not bounded: they are 64 bits wide.

## 8. The plan

Done, in this order: `CommandQueue`, `CommandPipeline`, `CommandLifecycle` with their
proofs; `SnapshotHandoff` with its proofs; `SseTransport`; `Screenshots`; `McpServer`;
`Content`, `CommandParsing`, `Permissions`, `CommandIntake`, `StateQueries` and `Tools`;
`CrispyWorld`, `FakeWorld` and `Play`.

Proved since: that the pipeline loses nothing, supersedes only for a newer command, keeps
final answers and implements `CommandLifecycle`; the sessions of `McpServer`;
the streams, the counter and the order of events of `SseTransport`; the types of `Screenshots`;
permissions, batches and the list of tools of `Tools`; the kill counter, failures
and targets of `Play`. Then that the handoff of snapshots implements one register; that an
answer tells the fate of its command; the numbers, the pages and the offers of `Tools`; and that
what `Play` reports as done is done. With these, every safety property of a passing run is proved.

Models that could follow: the start of the transport with its timeout; the polling loop of
the Python agent against `CommandLifecycle`; the handoff under release and acquire
instead of sequential consistency.
