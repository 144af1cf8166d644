-------------------------- MODULE ScreenshotsProofs -------------------------
(***************************************************************************)
(* Proofs about Screenshots, for any requesters, submitters, limit and     *)
(* modulus: its state keeps its types, the unsigned counter among them.    *)
(***************************************************************************)
EXTENDS Screenshots, TLAPS

USE ScreenshotAssumption

LEMMA TypedInit == Init => TypeOK
  BY DEF Init, TypeOK

LEMMA TypedNext == TypeOK /\ [Next]_vars => TypeOK'
<1> SUFFICES ASSUME TypeOK, [Next]_vars PROVE TypeOK'
  OBVIOUS
<1> USE DEF TypeOK, asking, sending
<1>1. ASSUME NEW r \in Requesters, Request(r) PROVE TypeOK'
  BY <1>1 DEF Request
<1>2. ASSUME NEW r \in Requesters, Answer(r) PROVE TypeOK'
  BY <1>2 DEF Answer, Unavailable, Look, Convert
<1>3. ASSUME NEW s \in Submitters, Submit(s) PROVE TypeOK'
  <2>1. CASE Poll(s) \/ Capture(s) \/ CaptureFails(s)
    BY <2>1 DEF Poll, Capture, CaptureFails
  <2>2. CASE Store(s) \/ Test(s)
    BY <2>2 DEF Store, Test
  <2>3. CASE Subtract(s)
    <3>1. pending + Modulus - 1 \in Nat /\ Modulus \in Nat /\ Modulus > 0
      OBVIOUS
    <3>2. (pending + Modulus - 1) % Modulus \in 0..Modulus - 1
      BY <3>1
    <3> QED BY <2>3, <3>2 DEF Subtract
  <2> QED BY <1>3, <2>1, <2>2, <2>3 DEF Submit
<1>4. CASE UNCHANGED vars
  BY <1>4 DEF vars
<1> QED BY <1>1, <1>2, <1>3, <1>4 DEF Next

(* However many threads request and submit, the state of the exchange keeps
   its types. *)
THEOREM Typing == Spec => []TypeOK
  BY TypedInit, TypedNext, PTL DEF Spec
=============================================================================
