--------------------------- MODULE SnapshotHandoff --------------------------
(***************************************************************************)
(* The snapshot handoff from the game thread to the HTTP threads           *)
(* (src/doom/context.cpp, src/doom/internal/context.hpp).  The game thread *)
(* fills a slot that is neither published nor pinned and publishes it by   *)
(* storing one token; a reader pins the slot it found published, checks    *)
(* that the token has not moved, and copies.  Nobody holds a lock.         *)
(*                                                                         *)
(* Every access to a shared atomic is a step.  A snapshot is two halves    *)
(* written and copied in separate steps, each holding the generation it    *)
(* belongs to (0 when cleared), so that a torn copy shows.                 *)
(*                                                                         *)
(* The atomics are sequentially consistent here; the code uses acquire and *)
(* release.                                                                *)
(***************************************************************************)
EXTENDS Integers, FiniteSets

CONSTANTS
  Readers,          (* threads that call copy_latest_snapshot()            *)
  SlotCount,        (* k_snapshot_buffer_slots                             *)
  GenerationBound   (* model bound: snapshots published                    *)

ASSUME HandoffAssumption ==
  /\ IsFiniteSet(Readers)
  /\ SlotCount \in Nat \ {0}
  /\ GenerationBound \in Nat

Slot == 0..(SlotCount - 1)

VARIABLES
  buffers,      (* snapshot_buffers: the two halves of each slot           *)
  readers,      (* snapshot_readers: the pin count of each slot            *)
  published,    (* published_snapshot_token: slot -1 when invalid          *)
  generation,   (* next_snapshot_generation                                *)
  nextSlot,     (* next_snapshot_slot                                      *)
  tick,         (* where the game thread is in dmcp_context_tick()         *)
  attempt,      (* the loop counter of find_snapshot_write_slot()          *)
  writing,      (* the slot it chose                                       *)
  rpc,          (* where each reader is in copy_latest_snapshot()          *)
  token,        (* each reader's local token                               *)
  copy          (* each reader's local copy                                *)

shared == <<buffers, readers, published>>
writer == <<generation, nextSlot, tick, attempt, writing>>
locals == <<rpc, token, copy>>
vars   == <<shared, writer, locals>>

Token   == [slot : Slot \cup {-1}, gen : Nat]
Invalid == [slot |-> -1, gen |-> 0]
Halves  == [lo : Nat, hi : Nat]
Blank   == [lo |-> 0, hi |-> 0]

Init ==
  /\ buffers = [s \in Slot |-> Blank]
  /\ readers = [s \in Slot |-> 0]
  /\ published = Invalid
  /\ generation = 1 /\ nextSlot = 0
  /\ tick = "idle" /\ attempt = 0 /\ writing = 0
  /\ rpc = [r \in Readers |-> "idle"]
  /\ token = [r \in Readers |-> Invalid]
  /\ copy = [r \in Readers |-> Blank]

-----------------------------------------------------------------------------
(* The game thread: dmcp_context_tick() once the rate limit lets it in.    *)

BeginTick ==
  /\ tick = "idle"
  /\ generation <= GenerationBound
  /\ tick' = "scan"
  /\ attempt' = 0
  /\ UNCHANGED <<shared, generation, nextSlot, writing, locals>>

Candidate == (nextSlot + attempt) % SlotCount

(* Faulty variant: the search starts over instead of giving up. *)
PassOverForEver ==
  /\ tick = "scan" /\ attempt < SlotCount
  /\ Candidate = published.slot \/ readers[Candidate] # 0
  /\ attempt' = (attempt + 1) % SlotCount
  /\ UNCHANGED <<shared, generation, nextSlot, tick, writing, locals>>

(* The published slot, or one with readers, is passed over. *)
PassOver ==
  /\ tick = "scan" /\ attempt < SlotCount
  /\ Candidate = published.slot \/ readers[Candidate] # 0
  /\ attempt' = attempt + 1
  /\ UNCHANGED <<shared, generation, nextSlot, tick, writing, locals>>

(* Faulty variants: the pins are not looked at; the next slot is past the end. *)
ChoosePinned ==
  /\ tick = "scan" /\ attempt < SlotCount
  /\ Candidate # published.slot
  /\ writing' = Candidate
  /\ nextSlot' = (Candidate + 1) % SlotCount
  /\ tick' = "clear"
  /\ UNCHANGED <<shared, generation, attempt, locals>>

ChooseWithoutWrap ==
  /\ tick = "scan" /\ attempt < SlotCount
  /\ Candidate # published.slot /\ readers[Candidate] = 0
  /\ writing' = Candidate
  /\ nextSlot' = Candidate + 1
  /\ tick' = "clear"
  /\ UNCHANGED <<shared, generation, attempt, locals>>

Choose ==
  /\ tick = "scan" /\ attempt < SlotCount
  /\ Candidate # published.slot /\ readers[Candidate] = 0
  /\ writing' = Candidate
  /\ nextSlot' = (Candidate + 1) % SlotCount
  /\ tick' = "clear"
  /\ UNCHANGED <<shared, generation, attempt, locals>>

(* No slot is free: the tick publishes nothing. *)
Skip ==
  /\ tick = "scan" /\ attempt >= SlotCount
  /\ tick' = "idle"
  /\ UNCHANGED <<shared, generation, nextSlot, attempt, writing, locals>>

(* dmcp_snapshot_clear(), then the on_snapshot callback. *)
Clear ==
  /\ tick = "clear"
  /\ buffers' = [buffers EXCEPT ![writing] = Blank]
  /\ tick' = "fill_lo"
  /\ UNCHANGED <<readers, published, generation, nextSlot, attempt, writing, locals>>

FillLo ==
  /\ tick = "fill_lo"
  /\ buffers' = [buffers EXCEPT ![writing].lo = generation]
  /\ tick' = "fill_hi"
  /\ UNCHANGED <<readers, published, generation, nextSlot, attempt, writing, locals>>

FillHi ==
  /\ tick = "fill_hi"
  /\ buffers' = [buffers EXCEPT ![writing].hi = generation]
  /\ tick' = "publish"
  /\ UNCHANGED <<readers, published, generation, nextSlot, attempt, writing, locals>>

Publish ==
  /\ tick = "publish"
  /\ published' = [slot |-> writing, gen |-> generation]
  /\ generation' = generation + 1
  /\ tick' = "idle"
  /\ UNCHANGED <<buffers, readers, nextSlot, attempt, writing, locals>>

-----------------------------------------------------------------------------
(* A reader: one iteration of the loop of copy_latest_snapshot().          *)

(* Without a published snapshot the call returns an empty one at once. *)
LoadToken(r) ==
  /\ rpc[r] = "idle"
  /\ published.slot # -1
  /\ token' = [token EXCEPT ![r] = published]
  /\ rpc' = [rpc EXCEPT ![r] = "pin"]
  /\ UNCHANGED <<shared, writer, copy>>

Pin(r) ==
  /\ rpc[r] = "pin"
  /\ readers' = [readers EXCEPT ![token[r].slot] = @ + 1]
  /\ rpc' = [rpc EXCEPT ![r] = "check"]
  /\ UNCHANGED <<buffers, published, writer, token, copy>>

(* Faulty variant: a reader whose token has moved leaves its pin. *)
CheckLeavingPin(r) ==
  /\ rpc[r] = "check"
  /\ rpc' = [rpc EXCEPT ![r] = IF published = token[r] THEN "copy_lo" ELSE "idle"]
  /\ UNCHANGED <<shared, writer, token, copy>>

(* Faulty variant: the slot is compared, but not the generation. *)
CheckSlot(r) ==
  /\ rpc[r] = "check"
  /\ rpc' = [rpc EXCEPT ![r] = IF published.slot = token[r].slot THEN "copy_lo" ELSE "unpin"]
  /\ UNCHANGED <<shared, writer, token, copy>>

Check(r) ==
  /\ rpc[r] = "check"
  /\ rpc' = [rpc EXCEPT ![r] = IF published = token[r] THEN "copy_lo" ELSE "unpin"]
  /\ UNCHANGED <<shared, writer, token, copy>>

CopyLo(r) ==
  /\ rpc[r] = "copy_lo"
  /\ copy' = [copy EXCEPT ![r].lo = buffers[token[r].slot].lo]
  /\ rpc' = [rpc EXCEPT ![r] = "copy_hi"]
  /\ UNCHANGED <<shared, writer, token>>

CopyHi(r) ==
  /\ rpc[r] = "copy_hi"
  /\ copy' = [copy EXCEPT ![r].hi = buffers[token[r].slot].hi]
  /\ rpc' = [rpc EXCEPT ![r] = "copied"]
  /\ UNCHANGED <<shared, writer, token>>

(* The pin is given back; the call returns, or loads the token again. *)
Unpin(r) ==
  /\ rpc[r] \in {"copied", "unpin"}
  /\ readers' = [readers EXCEPT ![token[r].slot] = @ - 1]
  /\ rpc' = [rpc EXCEPT ![r] = "idle"]
  /\ UNCHANGED <<buffers, published, writer, token, copy>>

-----------------------------------------------------------------------------
Tick ==
  \/ BeginTick \/ PassOver \/ Choose \/ Skip
  \/ Clear \/ FillLo \/ FillHi \/ Publish

Read(r) ==
  LoadToken(r) \/ Pin(r) \/ Check(r) \/ CopyLo(r) \/ CopyHi(r) \/ Unpin(r)

Next == Tick \/ \E r \in Readers : Read(r)

Spec == Init /\ [][Next]_vars

(* The game thread runs its tick to the end; a reader may stop anywhere. *)
FairSpec == Spec /\ WF_vars(Tick)

-----------------------------------------------------------------------------
(* Properties.                                                             *)

Pinning == {"check", "copy_lo", "copy_hi", "copied", "unpin"}

(* The readers that have slot s pinned. *)
Pins(s) == {r \in Readers : rpc[r] \in Pinning /\ token[r].slot = s}

(* The types of the state. *)
TypeOK ==
  /\ buffers \in [Slot -> Halves]
  /\ readers \in [Slot -> Int]
  /\ published \in Token
  /\ generation \in Nat \ {0}
  /\ nextSlot \in Slot
  /\ tick \in {"idle", "scan", "clear", "fill_lo", "fill_hi", "publish"}
  /\ attempt \in Nat
  /\ writing \in Slot
  /\ rpc \in [Readers -> {"idle", "pin"} \cup Pinning]
  /\ token \in [Readers -> Token]
  /\ copy \in [Readers -> Halves]

(* A completed copy is whole: both halves are of the generation whose token
   the reader checked.  No reader copies from a slot while the game thread
   writes it (context.hpp:46-49). *)
CopyIsWhole ==
  \A r \in Readers : rpc[r] = "copied" => copy[r] = [lo |-> token[r].gen, hi |-> token[r].gen]

(* Every pin is given back: a count is the number of readers between their
   fetch_add and their fetch_sub on that slot.  A leaked pin would take the
   slot out of use for ever. *)
PinsBalanced == \A s \in Slot : readers[s] = Cardinality(Pins(s))

(* A reader has settled on a snapshot once it has found its token unchanged. *)
Register == INSTANCE SnapshotRegister WITH
  current <- published.gen,
  settled <- [r \in Readers |->
                IF rpc[r] \in {"copy_lo", "copy_hi", "copied"} THEN token[r].gen ELSE 0],
  shown   <- [r \in Readers |-> IF rpc[r] = "copied" THEN {copy[r].lo, copy[r].hi} ELSE {}]

(* The slots, pins and tokens amount to one register that is read and replaced as
   a whole: a call returns the snapshot that was the latest at a moment within the
   call, so it is never older than the call and calls never go back.  A slot that
   was used again since the token was loaded is not mistaken for what it held. *)
ImplementsRegister == Register!Spec

(* The game thread comes out of every tick even if readers stop where they
   are, holding their pins. *)
TickEnds == (tick # "idle") ~> (tick = "idle")
=============================================================================
