---------------------------- MODULE MCScreenshots ---------------------------
(* Small instances of Screenshots for TLC. *)
EXTENDS Screenshots, TLC

CONSTANTS r1, r2, s1, s2

TwoRequesters  == {r1, r2}
OneSubmitter   == {s1}
TwoSubmitters  == {s1, s2}
=============================================================================
