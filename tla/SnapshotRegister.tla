-------------------------- MODULE SnapshotRegister --------------------------
(***************************************************************************)
(* What the snapshot handoff promises, without saying how: one register    *)
(* that the game thread replaces as a whole.  A call that reads it settles *)
(* at one moment on what it holds at that moment, and shows nothing else,  *)
(* whatever is written meanwhile.  Snapshots are numbered as they are      *)
(* published, 0 stands for none.                                           *)
(***************************************************************************)
EXTENDS Integers

CONSTANT Readers

VARIABLES
  current,  \* the snapshot that is published
  settled,  \* what each reader's call has settled on
  shown     \* the snapshots that the parts of what it returns are of

vars == <<current, settled, shown>>

Init ==
  /\ current = 0
  /\ settled = [r \in Readers |-> 0]
  /\ shown = [r \in Readers |-> {}]

Write == current' = current + 1 /\ UNCHANGED <<settled, shown>>

Settle(r) ==
  /\ current # 0 /\ settled[r] = 0
  /\ settled' = [settled EXCEPT ![r] = current]
  /\ UNCHANGED <<current, shown>>

Show(r) ==
  /\ settled[r] # 0 /\ shown[r] = {}
  /\ shown' = [shown EXCEPT ![r] = {settled[r]}]
  /\ UNCHANGED <<current, settled>>

Return(r) ==
  /\ shown[r] # {}
  /\ settled' = [settled EXCEPT ![r] = 0]
  /\ shown' = [shown EXCEPT ![r] = {}]
  /\ UNCHANGED current

Next == Write \/ \E r \in Readers : Settle(r) \/ Show(r) \/ Return(r)

Spec == Init /\ [][Next]_vars
=============================================================================
