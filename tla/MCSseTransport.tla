--------------------------- MODULE MCSseTransport ---------------------------
(* Small instances of SseTransport for TLC. *)
EXTENDS SseTransport, TLC

CONSTANTS c1, c2, b1, b2

TwoClients      == {c1, c2}
OneBroadcaster  == {b1}
TwoBroadcasters == {b1, b2}
ClientSymmetry  == Permutations(TwoClients)
=============================================================================
