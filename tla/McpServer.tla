----------------------------- MODULE McpServer -----------------------------
(***************************************************************************)
(* Sessions and dispatch of the generic MCP server (src/mcp/server.cpp)    *)
(* under the HTTP workers of its transport (dispatch_http_request() in     *)
(* src/mcp/http_sse_transport.cpp), which carry a request's session id in  *)
(* thread-local metadata (src/mcp/request_context.cpp).                    *)
(*                                                                         *)
(* Workers serve one request after the other, of any client; a client may  *)
(* have several requests in progress.  A client sends the session ids it   *)
(* has read in the MCP-Session-Id header of its replies, in the header of  *)
(* the request or in params.sessionId.  Each critical section and each     *)
(* store to a session's flags is a step.                                   *)
(*                                                                         *)
(* A request is abstracted to what it asks for: "strict" and "lenient" are *)
(* initialize with the newest protocol version (the one that requires      *)
(* notifications/initialized) and with an older one; "initialized" is that *)
(* notification; "malformed" is every request that is refused before the   *)
(* server looks at a session.  An id drawn is one that is listed (a        *)
(* collision) or was never used: a second draw of a deleted one of 2^64 is *)
(* left out.                                                               *)
(***************************************************************************)
EXTENDS Naturals, Sequences, FiniteSets

CONSTANTS
  Workers,       (* HTTP worker threads                                    *)
  Clients,       (* MCP clients                                            *)
  Ids,           (* session ids                                            *)
  None,          (* no session id, no client                               *)
  Methods,       (* names for mcp_server_method_register()                 *)
  Routes,        (* routes for mcp_server_route_register()                 *)
  Attempts,      (* draws of create_session(), 8 in the code               *)
  RequestBound   (* model bound: requests ever sent                        *)

Versions == {"strict", "lenient"}
Builtin  == {"delete", "health", "malformed", "initialized", "ping"} \cup Versions

ASSUME ServerAssumption ==
  /\ IsFiniteSet(Ids) /\ None \notin Ids \cup Clients
  /\ Methods \cap Routes = {} /\ (Methods \cup Routes) \cap Builtin = {}
  /\ Attempts \in Nat \ {0}
  /\ RequestBound \in Nat

VARIABLES
  pc,            (* where each worker is                                   *)
  req,           (* the request it serves                                  *)
  current,       (* thread-local: session id of the request's header       *)
  meta,          (* thread-local: session id for the reply's header        *)
  attempt,       (* collisions create_session() has met                    *)
  found,         (* the session the worker holds (0: none)                 *)
  listed,        (* Server::sessions, as the number of a session (0: none) *)
  objects,       (* every Session made                                     *)
  methods,       (* Server::methods                                        *)
  routes,        (* Server::routes, less the three reserved ones           *)
  handled,       (* Server::requests_handled                               *)
  failed,        (* Server::requests_failed                                *)
  known,         (* the ids each client has read in replies                *)
  begun,         (* history: requests that reached a worker                *)
  deleted,       (* history: ids whose sessions were deleted               *)
  late,          (* history: the request came after its id was deleted     *)
  acknowledged   (* history: sessions whose client sent "initialized"      *)

context  == <<current, meta>>
local    == <<req, attempt, found>>
sessions == <<listed, objects>>
registry == <<methods, routes>>
counters == <<handled, failed>>
vars == <<pc, local, context, sessions, registry, counters, known, begun, deleted,
          late, acknowledged>>

MaybeId == Ids \cup {None}
Request == [client : Clients \cup {None}, what : Builtin \cup Methods \cup Routes,
            header : MaybeId, param : MaybeId, silent : BOOLEAN]
Session == [id : Ids, client : Clients, strict : BOOLEAN, completed : BOOLEAN,
            requires : BOOLEAN, received : BOOLEAN]

NoRequest == [client |-> None, what |-> "malformed",
              header |-> None, param |-> None, silent |-> FALSE]

Init ==
  /\ pc = [w \in Workers |-> "idle"]
  /\ req = [w \in Workers |-> NoRequest]
  /\ current = [w \in Workers |-> None] /\ meta = [w \in Workers |-> None]
  /\ attempt = [w \in Workers |-> 0] /\ found = [w \in Workers |-> 0]
  /\ listed = [i \in Ids |-> 0] /\ objects = << >>
  /\ methods = {} /\ routes = {}
  /\ handled = 0 /\ failed = 0
  /\ known = [c \in Clients |-> {}]
  /\ begun = 0 /\ deleted = {}
  /\ late = [w \in Workers |-> FALSE] /\ acknowledged = {}

Goto(w, label) == pc' = [pc EXCEPT ![w] = label]

-----------------------------------------------------------------------------
(* The transport: a request reaches a worker, a reply leaves it.           *)

(* Only JSON-RPC messages about a session have an id parameter or no id. *)
AboutSession(what) == what \in {"initialized", "ping"} \cup Methods

Requests(c) ==
  {r \in [client : {c}, what : Builtin \cup Methods \cup Routes,
          header : known[c] \cup {None}, param : known[c] \cup {None}, silent : BOOLEAN] :
     ~AboutSession(r.what) => r.param = None /\ ~r.silent}

(* The handler of the route, and how far it gets without shared state. *)
Entry(what) ==
  CASE what \in Routes \cup {"health"} -> "route"
    [] what = "delete"                 -> "delete"
    [] what = "malformed"              -> "refuse"
    [] what \in Versions               -> "create"
    [] OTHER                           -> "find"

(* extract_session_id(): the header first. *)
ClaimIn(header, param) == IF header # None THEN header ELSE param
Claim(w) == ClaimIn(current[w], req[w].param)

(* Faulty variant: the metadata of the last reply stays with the thread. *)
ResponseLeft(w) == meta

ResponseCleared(w) == [meta EXCEPT ![w] = None]

Begin(w) ==
  /\ pc[w] = "idle" /\ begun < RequestBound
  /\ \E c \in Clients : \E r \in Requests(c) :
       /\ req' = [req EXCEPT ![w] = r]
       /\ current' = [current EXCEPT ![w] = r.header]
       /\ late' = [late EXCEPT ![w] = ClaimIn(r.header, r.param) \in deleted]
       /\ Goto(w, Entry(r.what))
  /\ meta' = ResponseCleared(w)
  /\ begun' = begun + 1
  /\ UNCHANGED <<attempt, found, sessions, registry, counters, known, deleted, acknowledged>>

(* Origin, method, media type or size: the server above sees nothing. *)
TurnAway(w) ==
  /\ pc[w] = "idle" /\ begun < RequestBound
  /\ begun' = begun + 1
  /\ UNCHANGED <<pc, local, context, sessions, registry, counters, known, deleted, late,
                 acknowledged>>

(* set_mcp_headers(): the reply names a session, else echoes the request. *)
Reply(w) ==
  /\ pc[w] = "reply"
  /\ known' = [known EXCEPT ![req[w].client] =
                 @ \cup ({IF meta[w] # None THEN meta[w] ELSE req[w].header} \ {None})]
  /\ current' = [current EXCEPT ![w] = None] /\ meta' = ResponseCleared(w)
  /\ req' = [req EXCEPT ![w] = NoRequest]
  /\ attempt' = [attempt EXCEPT ![w] = 0] /\ found' = [found EXCEPT ![w] = 0]
  /\ late' = [late EXCEPT ![w] = FALSE]
  /\ Goto(w, "idle")
  /\ UNCHANGED <<sessions, registry, counters, begun, deleted, acknowledged>>

-----------------------------------------------------------------------------
(* Answers and their counters.                                             *)

Handled(w) ==
  /\ handled' = handled + 1 /\ UNCHANGED failed /\ Goto(w, "reply")

Failed(w) ==
  /\ failed' = failed + 1 /\ UNCHANGED handled /\ Goto(w, "reply")

(* An answer that does not fit, with the id the client chose, is a 500 that
   neither counter counts. *)
Oversized(w) ==
  /\ ~req[w].silent
  /\ UNCHANGED counters
  /\ Goto(w, "reply")

Succeeds(w) == Handled(w) \/ Oversized(w)
Fails(w)    == Failed(w) \/ Oversized(w)

Refuse(w) ==
  /\ pc[w] = "refuse"
  /\ Fails(w)
  /\ UNCHANGED <<local, context, sessions, registry, known, begun, deleted, late, acknowledged>>

-----------------------------------------------------------------------------
(* Making and deleting sessions.                                           *)

Drawn == Ids \ deleted

(* Faulty variant: the candidate is not looked up. *)
TakenNever(id) == FALSE

Taken(id) == listed[id] # 0

(* Faulty variant: one draw too many. *)
LastDrawOverrun(w) == attempt[w] + 1 > Attempts

LastDraw(w) == attempt[w] + 1 = Attempts

Collide(w) ==
  /\ pc[w] = "create"
  /\ \E id \in Drawn : Taken(id)
  /\ IF LastDraw(w)
       THEN Fails(w) /\ UNCHANGED attempt
       ELSE attempt' = [attempt EXCEPT ![w] = @ + 1] /\ UNCHANGED <<pc, counters>>
  /\ UNCHANGED <<req, found, context, sessions, registry, known, begun, deleted, late,
                 acknowledged>>

Insert(w) ==
  /\ pc[w] = "create"
  /\ \E id \in Drawn :
       /\ ~Taken(id)
       /\ listed' = [listed EXCEPT ![id] = Len(objects) + 1]
       /\ objects' = Append(objects,
            [id |-> id, client |-> req[w].client, strict |-> req[w].what = "strict",
             completed |-> FALSE, requires |-> TRUE, received |-> FALSE])
  /\ found' = [found EXCEPT ![w] = Len(objects) + 1]
  /\ Goto(w, "complete")
  /\ UNCHANGED <<req, attempt, context, registry, counters, known, begun, deleted, late,
                 acknowledged>>

(* The flags of a session are stored after it was listed. *)
StoreCompleted(w) ==
  /\ pc[w] = "complete"
  /\ objects' = [objects EXCEPT ![found[w]].completed = TRUE]
  /\ Goto(w, "require")
  /\ UNCHANGED <<local, context, listed, registry, counters, known, begun, deleted, late,
                 acknowledged>>

StoreRequires(w) ==
  /\ pc[w] = "require"
  /\ objects' = [objects EXCEPT ![found[w]].requires = objects[found[w]].strict]
  /\ Goto(w, "receive")
  /\ UNCHANGED <<local, context, listed, registry, counters, known, begun, deleted, late,
                 acknowledged>>

StoreReceived(w) ==
  /\ pc[w] = "receive"
  /\ objects' = [objects EXCEPT ![found[w]].received = ~objects[found[w]].requires]
  /\ meta' = [meta EXCEPT ![w] = objects[found[w]].id]
  /\ Succeeds(w)
  /\ UNCHANGED <<local, current, listed, registry, known, begun, deleted, late, acknowledged>>

(* DELETE looks at the header alone and always answers 204. *)
DeletionTarget(w) == current[w]

Delete(w) ==
  /\ pc[w] = "delete"
  /\ listed' = [i \in Ids |-> IF i = DeletionTarget(w) THEN 0 ELSE listed[i]]
  /\ deleted' = deleted \cup ({current[w]} \ {None})
  /\ Handled(w)
  /\ UNCHANGED <<local, context, objects, registry, known, begun, late, acknowledged>>

-----------------------------------------------------------------------------
(* Requests of a session.                                                  *)

(* find_session_by_id() *)
Find(w) ==
  /\ pc[w] = "find"
  /\ found' = [found EXCEPT ![w] = IF Claim(w) = None THEN 0 ELSE listed[Claim(w)]]
  /\ Goto(w, IF req[w].what = "initialized" THEN "acknowledge" ELSE "gate")
  /\ UNCHANGED <<req, attempt, context, sessions, registry, counters, known, begun, deleted,
                 late, acknowledged>>

Initialized(w) == found[w] # 0 /\ objects[found[w]].completed

Acknowledge(w) ==
  /\ pc[w] = "acknowledge"
  /\ Initialized(w)
  /\ meta' = [meta EXCEPT ![w] = objects[found[w]].id]
  /\ objects' = [objects EXCEPT ![found[w]].received = TRUE]
  /\ acknowledged' = acknowledged \cup {found[w]}
  /\ Succeeds(w)
  /\ UNCHANGED <<local, current, listed, registry, known, begun, deleted, late>>

(* Faulty variant: initialize is enough. *)
ReadyEarly(w) == Initialized(w)

Ready(w) ==
  /\ Initialized(w)
  /\ objects[found[w]].requires => objects[found[w]].received

(* A request whose session does not admit it. *)
TooEarly(w) ==
  /\ \/ pc[w] = "acknowledge" /\ ~Initialized(w)
     \/ pc[w] = "gate" /\ ~Ready(w)
  /\ Fails(w)
  /\ UNCHANGED <<local, context, sessions, registry, known, begun, deleted, late, acknowledged>>

Admit(w) ==
  /\ pc[w] = "gate"
  /\ Ready(w)
  /\ meta' = [meta EXCEPT ![w] = objects[found[w]].id]
  /\ Goto(w, "serve")
  /\ UNCHANGED <<local, current, sessions, registry, counters, known, begun, deleted, late,
                 acknowledged>>

Ping(w) ==
  /\ pc[w] = "serve" /\ req[w].what = "ping"
  /\ Succeeds(w)
  /\ UNCHANGED <<local, context, sessions, registry, known, begun, deleted, late, acknowledged>>

(* The handler is copied under the mutex and called after it. *)
LookUp(w) ==
  /\ pc[w] = "serve" /\ req[w].what \in methods
  /\ Goto(w, "call")
  /\ UNCHANGED <<local, context, sessions, registry, counters, known, begun, deleted, late,
                 acknowledged>>

Unknown(w) == IF req[w].silent THEN Handled(w) ELSE Fails(w)

NotFound(w) ==
  /\ pc[w] = "serve" /\ req[w].what \in Methods \ methods
  /\ Unknown(w)
  /\ UNCHANGED <<local, context, sessions, registry, known, begun, deleted, late, acknowledged>>

(* A handler that declines is answered like an unknown method. *)
Call(w) ==
  /\ pc[w] = "call"
  /\ Succeeds(w) \/ Unknown(w)
  /\ UNCHANGED <<local, context, sessions, registry, known, begun, deleted, late, acknowledged>>

-----------------------------------------------------------------------------
(* Routes other than /mcp, and the registries.                             *)

(* dispatch_http_route(): a copied handler, or 404. *)
Route(w) ==
  /\ pc[w] = "route"
  /\ IF req[w].what \in routes \cup {"health"}
       THEN Goto(w, "respond") /\ UNCHANGED counters
       ELSE Goto(w, "reply") /\ UNCHANGED counters
  /\ UNCHANGED <<local, context, sessions, registry, known, begun, deleted, late, acknowledged>>

Respond(w) ==
  /\ pc[w] = "respond"
  /\ Goto(w, "reply")
  /\ UNCHANGED <<local, context, sessions, registry, counters, known, begun, deleted, late,
                 acknowledged>>

(* mcp_server_methods_register() checks the whole batch before its first entry. *)
RegisterMethods(batch) ==
  /\ methods' = methods \cup batch
  /\ UNCHANGED <<pc, local, context, sessions, routes, counters, known, begun, deleted, late,
                 acknowledged>>

UnregisterMethod(m) ==
  /\ methods' = methods \ {m}
  /\ UNCHANGED <<pc, local, context, sessions, routes, counters, known, begun, deleted, late,
                 acknowledged>>

(* The reserved routes can be neither replaced nor removed. *)
RegisterRoute(r) ==
  /\ routes' = routes \cup {r}
  /\ UNCHANGED <<pc, local, context, sessions, methods, counters, known, begun, deleted, late,
                 acknowledged>>

UnregisterRoute(r) ==
  /\ routes' = routes \ {r}
  /\ UNCHANGED <<pc, local, context, sessions, methods, counters, known, begun, deleted, late,
                 acknowledged>>

-----------------------------------------------------------------------------
Work(w) ==
  \/ Refuse(w) \/ Collide(w) \/ Insert(w)
  \/ StoreCompleted(w) \/ StoreRequires(w) \/ StoreReceived(w)
  \/ Delete(w) \/ Find(w) \/ Acknowledge(w) \/ TooEarly(w) \/ Admit(w)
  \/ Ping(w) \/ LookUp(w) \/ NotFound(w) \/ Call(w)
  \/ Route(w) \/ Respond(w) \/ Reply(w)

Registry ==
  \/ \E batch \in SUBSET Methods \ {{}} : RegisterMethods(batch)
  \/ \E m \in Methods : UnregisterMethod(m)
  \/ \E r \in Routes : RegisterRoute(r) \/ UnregisterRoute(r)

Next == Registry \/ \E w \in Workers : Begin(w) \/ TurnAway(w) \/ Work(w)

Spec == Init /\ [][Next]_vars

-----------------------------------------------------------------------------
(* Type correctness of the server and its workers. *)
TypeOK ==
  /\ pc \in [Workers -> {"idle", "refuse", "create", "complete", "require", "receive",
                         "delete", "find", "acknowledge", "gate", "serve", "call", "route",
                         "respond", "reply"}]
  /\ req \in [Workers -> Request]
  /\ current \in [Workers -> MaybeId] /\ meta \in [Workers -> MaybeId]
  /\ attempt \in [Workers -> 0 .. Attempts - 1]
  /\ objects \in Seq(Session)
  /\ found \in [Workers -> 0 .. Len(objects)]
  /\ listed \in [Ids -> 0 .. Len(objects)]
  /\ methods \subseteq Methods /\ routes \subseteq Routes
  /\ handled \in Nat /\ failed \in Nat /\ begun \in 0 .. RequestBound
  /\ known \in [Clients -> SUBSET Ids]
  /\ deleted \subseteq Ids /\ late \in [Workers -> BOOLEAN]
  /\ acknowledged \subseteq 1 .. Len(objects)

(* A session is listed, its flags are not all stored. *)
Making == {"complete", "require", "receive"}

(* "Lifecycle state MUST be per-session" and "Multiple clients can         *)
(* initialize independently" (docs/MCP_COMPLIANCE.md): a worker never      *)
(* serves a client with another client's session, although workers are     *)
(* shared, ids may collide and the request's metadata is thread-local; and *)
(* a session that is listed before its flags are stored, without a lock,   *)
(* is nobody else's until they all are.                                    *)
SessionsAreSeparate ==
  /\ \A w \in Workers : found[w] # 0 => objects[found[w]].client = req[w].client
  /\ \A w, v \in Workers : pc[w] \in Making /\ v # w => found[v] # found[w]

(* Once received, an initialized notification is never lost to the store   *)
(* with which initialize sets the same flag.                               *)
AcknowledgedStays ==
  [][\A o \in DOMAIN objects : objects[o].received => objects'[o].received]_vars

(* "Ping and all registered methods require valid, initialized session":   *)
(* they are served in a session whose initialize ended and whose client,   *)
(* where the protocol version asks for it, has said so, and not when they  *)
(* come after the session was deleted.                                     *)
ServedIsReady ==
  \A w \in Workers : pc[w] \in {"serve", "call"} =>
    /\ \A v \in Workers : pc[v] \in Making => found[v] # found[w]
    /\ objects[found[w]].strict => found[w] \in acknowledged
    /\ ~late[w]

=============================================================================
