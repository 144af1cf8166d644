---------------------------- MODULE CommandQueue ----------------------------
(***************************************************************************)
(* The class dmcp::command_queue (src/doom/commands.cpp): a bounded deque  *)
(* of commands behind one mutex.  Every method holds the mutex for its     *)
(* whole body, so each one is a function of the deque's contents, and the  *)
(* modules that use a queue apply it in one step.                          *)
(*                                                                         *)
(* A command is the record [sequence, type]: the payload of a command does *)
(* not influence the queue.                                                *)
(***************************************************************************)
EXTENDS Naturals, Sequences, FiniteSets

(* push(): the deque is full and its front is evicted to make room. *)
IsFull(items, slots) == Len(items) >= slots /\ items # << >>

(* Faulty variant: push() evicts without handing the command back. *)
EvictedUnseen(items, slots) == << >>

(* push(): what is evicted, as a sequence of at most one command. *)
Evicted(items, slots) == IF IsFull(items, slots) THEN <<Head(items)>> ELSE << >>

(* Faulty variants: push_front(); the newest command makes room. *)
PushedInFront(items, slots, command) ==
  <<command>> \o (IF IsFull(items, slots) THEN Tail(items) ELSE items)
PushedOverNewest(items, slots, command) ==
  Append(IF IsFull(items, slots) THEN SubSeq(items, 1, Len(items) - 1) ELSE items, command)

(* push(): the deque afterwards. *)
Pushed(items, slots, command) ==
  Append(IF IsFull(items, slots) THEN Tail(items) ELSE items, command)

(* Faulty variant: the comparison of remove_by_type() is inverted. *)
PositionsOfOthers(items, type) == {i \in DOMAIN items : items[i].type # type}

(* The positions of the deque that hold, or do not hold, a given type. *)
PositionsOf(items, type)    == {i \in DOMAIN items : items[i].type = type}
PositionsNotOf(items, type) == {i \in DOMAIN items : items[i].type # type}

(***************************************************************************)
(* The increasing enumerations of a finite set of positions (there is      *)
(* exactly one).  The loop of remove_by_type() walks the deque once; what  *)
(* it keeps and what it returns are both in the deque's order.  Stated     *)
(* over positions rather than with SelectSeq, whose recursive definition   *)
(* no prover can unfold.                                                   *)
(***************************************************************************)
Enumerations(positions) ==
  {h \in [1..Cardinality(positions) -> positions] :
     /\ \A i, j \in DOMAIN h : i < j => h[i] < h[j]
     /\ \A p \in positions : \E i \in DOMAIN h : h[i] = p}

(* The commands of a deque at enumerated positions. *)
At(items, h) == [i \in DOMAIN h |-> items[h[i]]]
=============================================================================
