----------------------------- MODULE Screenshots ----------------------------
(***************************************************************************)
(* The screenshot exchange (src/doom/context.cpp,                          *)
(* src/doom/internal/screenshot.hpp): a tool or route handler asks for a   *)
(* frame by counting one pending request up, and answers at once with the  *)
(* frame that is there; the engine's render hook captures a frame while    *)
(* requests are pending, submits it and counts one request down.           *)
(*                                                                         *)
(* A frame is the number of its capture: pixels, sizes and the ASCII       *)
(* conversion are left out.  The feature is enabled.                       *)
(***************************************************************************)
EXTENDS Integers, FiniteSets

CONSTANTS
  Requesters,    (* HTTP threads in get_screenshot or /game/screenshot     *)
  Submitters,    (* threads that run the engine's capture hook             *)
  RequestLimit,  (* the 4 of dmcp_screenshot_request()                     *)
  Modulus,       (* the counter is a uint32_t: 2^32 in the code            *)
  RequestBound   (* model bound: requests made                             *)

ASSUME ScreenshotAssumption ==
  /\ IsFiniteSet(Requesters) /\ IsFiniteSet(Submitters)
  /\ RequestLimit \in Nat \ {0}
  /\ Modulus \in Nat /\ Modulus > RequestLimit
  /\ RequestBound \in Nat

VARIABLES
  pending,    (* pending_requests                                          *)
  image,      (* latest_pixels: 0 when there are none                      *)
  rpc,        (* where each requester is                                   *)
  reply,      (* the last frame each requester was answered with           *)
  spc,        (* where each submitter is                                   *)
  frame,      (* the frame each submitter holds                            *)
  captured,   (* history: frames captured                                  *)
  requests,   (* history: requests made                                    *)
  since       (* history: captured when each requester last asked          *)

asking  == <<rpc, reply>>
sending == <<spc, frame>>
vars    == <<pending, image, asking, sending, captured, requests, since>>

Init ==
  /\ pending = 0 /\ image = 0
  /\ rpc = [r \in Requesters |-> "idle"] /\ reply = [r \in Requesters |-> 0]
  /\ spc = [s \in Submitters |-> "idle"] /\ frame = [s \in Submitters |-> 0]
  /\ captured = 0 /\ requests = 0
  /\ since = [r \in Requesters |-> 0]

-----------------------------------------------------------------------------
(* dmcp_screenshot_request().  Its compare-and-swap loop takes effect at one
   point: the exchange that succeeds, or the load that finds the limit. *)
Request(r) ==
  /\ rpc[r] = "idle"
  /\ requests < RequestBound
  /\ \/ /\ pending < RequestLimit
        /\ pending' = pending + 1
     \/ /\ pending >= RequestLimit
        /\ UNCHANGED pending
  /\ rpc' = [rpc EXCEPT ![r] = "look"]
  /\ requests' = requests + 1
  /\ since' = [since EXCEPT ![r] = captured]
  /\ UNCHANGED <<image, reply, sending, captured>>

(* The handler looks at latest_pixels without the mutex. *)
Unavailable(r) ==
  /\ rpc[r] = "look" /\ image = 0
  /\ rpc' = [rpc EXCEPT ![r] = "idle"]
  /\ UNCHANGED <<pending, image, reply, sending, captured, requests, since>>

Look(r) ==
  /\ rpc[r] = "look" /\ image # 0
  /\ rpc' = [rpc EXCEPT ![r] = "convert"]
  /\ UNCHANGED <<pending, image, reply, sending, captured, requests, since>>

(* build_ascii(), under the mutex: it looks again, and the handler answers
   that the conversion failed when there is no frame. *)
Convert(r) ==
  /\ rpc[r] = "convert"
  /\ reply' = [reply EXCEPT ![r] = IF image = 0 THEN @ ELSE image]
  /\ rpc' = [rpc EXCEPT ![r] = "idle"]
  /\ UNCHANGED <<pending, image, sending, captured, requests, since>>

-----------------------------------------------------------------------------
(* The capture hook: dmcp_screenshot_is_requested(), then the engine's
   pixels. *)
Poll(s) ==
  /\ spc[s] = "idle" /\ pending > 0
  /\ spc' = [spc EXCEPT ![s] = "capture"]
  /\ UNCHANGED <<pending, image, asking, frame, captured, requests, since>>

Capture(s) ==
  /\ spc[s] = "capture"
  /\ captured' = captured + 1
  /\ frame' = [frame EXCEPT ![s] = captured + 1]
  /\ spc' = [spc EXCEPT ![s] = "store"]
  /\ UNCHANGED <<pending, image, asking, requests, since>>

(* No pixels or no memory: the hook returns and is called next frame. *)
CaptureFails(s) ==
  /\ spc[s] = "capture"
  /\ spc' = [spc EXCEPT ![s] = "idle"]
  /\ UNCHANGED <<pending, image, asking, frame, captured, requests, since>>

(* dmcp_screenshot_submit(): the copy, under the mutex. *)
Store(s) ==
  /\ spc[s] = "store"
  /\ image' = frame[s]
  /\ spc' = [spc EXCEPT ![s] = "test"]
  /\ UNCHANGED <<pending, asking, frame, captured, requests, since>>

(* The load and the fetch_sub are two accesses. *)
Test(s) ==
  /\ spc[s] = "test"
  /\ spc' = [spc EXCEPT ![s] = IF pending > 0 THEN "subtract" ELSE "idle"]
  /\ UNCHANGED <<pending, image, asking, frame, captured, requests, since>>

(* Faulty variants: the submission answers every request; it counts two down
   on a signed counter. *)
SubtractAll(s) ==
  /\ spc[s] = "subtract"
  /\ pending' = 0
  /\ spc' = [spc EXCEPT ![s] = "idle"]
  /\ UNCHANGED <<image, asking, frame, captured, requests, since>>

SubtractTwo(s) ==
  /\ spc[s] = "subtract"
  /\ pending' = pending - 2
  /\ spc' = [spc EXCEPT ![s] = "idle"]
  /\ UNCHANGED <<image, asking, frame, captured, requests, since>>

Subtract(s) ==
  /\ spc[s] = "subtract"
  /\ pending' = (pending + Modulus - 1) % Modulus
  /\ spc' = [spc EXCEPT ![s] = "idle"]
  /\ UNCHANGED <<image, asking, frame, captured, requests, since>>

-----------------------------------------------------------------------------
Answer(r) == Unavailable(r) \/ Look(r) \/ Convert(r)
Submit(s) == Poll(s) \/ Capture(s) \/ CaptureFails(s) \/ Store(s) \/ Test(s) \/ Subtract(s)

Next ==
  \/ \E r \in Requesters : Request(r) \/ Answer(r)
  \/ \E s \in Submitters : Submit(s)

Spec == Init /\ [][Next]_vars

(* The engine renders for ever and its capture succeeds again and again if
   it is tried again and again; handlers run to their end. *)
Fairness ==
  /\ \A r \in Requesters : WF_vars(Answer(r))
  /\ \A s \in Submitters : WF_vars(Submit(s)) /\ SF_vars(Capture(s))

FairSpec == Spec /\ Fairness

-----------------------------------------------------------------------------
(* Properties.                                                             *)

(* Type correctness; the counter is an unsigned one. *)
TypeOK ==
  /\ pending \in 0..Modulus - 1
  /\ image \in Nat /\ captured \in Nat /\ requests \in Nat
  /\ rpc \in [Requesters -> {"idle", "look", "convert"}]
  /\ reply \in [Requesters -> Nat] /\ since \in [Requesters -> Nat]
  /\ spc \in [Submitters -> {"idle", "capture", "store", "test", "subtract"}]
  /\ frame \in [Submitters -> Nat]

(* Every request, even one the limit turns away, is followed by a frame
   captured after it was made: a submission that was under way when it came
   does not use it up (dmcp_screenshot_submit counts one down, not all). *)
RequestIsServed ==
  \A r \in Requesters, n \in 0..RequestBound :
    (rpc[r] = "look" /\ since[r] = n) ~> (image > n)

=============================================================================
