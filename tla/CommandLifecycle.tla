--------------------------- MODULE CommandLifecycle -------------------------
(***************************************************************************)
(* What the command queue promises about each command an agent submits,    *)
(* without saying how: commands are numbered in the order of submission;   *)
(* a command leaves the queue once, to be executed, superseded by a newer  *)
(* one, dropped when the queue overflows, or cleared; only the oldest      *)
(* queued command is executed or dropped, one at a time; nothing comes     *)
(* back.                                                                   *)
(***************************************************************************)
EXTENDS Naturals, Sequences

VARIABLE stage   \* stage[s]: where command s is in its life

Stages == {"queued", "running", "executed", "superseded", "dropped", "cleared"}

Queued    == {s \in DOMAIN stage : stage[s] = "queued"}
Oldest(s) == s \in Queued /\ \A u \in Queued : s <= u
Moved(S, to) == [s \in DOMAIN stage |-> IF s \in S THEN to ELSE stage[s]]

Init == stage = << >>

(* A new command enters; the oldest may have to leave to make room. *)
Issue ==
  \/ stage' = Append(stage, "queued")
  \/ \E s \in Queued : Oldest(s) /\ stage' = Append(Moved({s}, "dropped"), "queued")

Supersede == \E S \in SUBSET Queued : stage' = Moved(S, "superseded")

Clear == stage' = Moved(Queued, "cleared")

Execute ==
  \E s \in Queued :
    /\ Oldest(s)
    /\ \A u \in DOMAIN stage : stage[u] # "running"
    /\ stage' = Moved({s}, "running")

Finish == \E s \in DOMAIN stage : stage[s] = "running" /\ stage' = Moved({s}, "executed")

Next == Issue \/ Supersede \/ Clear \/ Execute \/ Finish

Spec == Init /\ [][Next]_stage
=============================================================================
