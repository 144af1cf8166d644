---------------------------- MODULE SseTransport ----------------------------
(***************************************************************************)
(* The event streams of the HTTP/SSE transport                             *)
(* (src/mcp/http_sse_transport.cpp) and the connected-client counter of    *)
(* the server above it (on_sse_connect, on_sse_disconnect in               *)
(* src/mcp/server.cpp).                                                    *)
(*                                                                         *)
(* Threads: one HTTP worker per open stream (named by its client), the     *)
(* threads that broadcast events, the listener (transport_thread_main) and *)
(* the owner, which stops and destroys the transport.  A stream can be     *)
(* closed by its worker, the listener and the owner, all of them through   *)
(* mark_client_closed().                                                   *)
(*                                                                         *)
(* The HTTP library is external: it calls the content provider until that  *)
(* says it is done, the peer is gone or the server shuts down, and then    *)
(* the releaser; a write to the socket may fail; listen_after_bind()       *)
(* returns when the server was stopped and every worker has finished.      *)
(***************************************************************************)
EXTENDS Naturals, Sequences, FiniteSets

CONSTANTS
  Clients,        (* streams ever opened, one worker thread each           *)
  Broadcasters,   (* threads that call sse_broadcast()                     *)
  Listener,       (* the transport thread                                  *)
  Owner,          (* the thread that stops and destroys the transport      *)
  PendingLimit,   (* kMaxPendingEventsPerClient                            *)
  WritesFail,     (* a write to a socket may fail                          *)
  StopAllowed,    (* the owner stops the transport                         *)
  EventBound      (* model bound: events broadcast                         *)

ASSUME TransportAssumption ==
  /\ IsFiniteSet(Clients)
  /\ Listener # Owner
  /\ {Listener, Owner} \cap (Clients \cup Broadcasters) = {}
  /\ Clients \cap Broadcasters = {}
  /\ PendingLimit \in Nat \ {0}
  /\ WritesFail \in BOOLEAN
  /\ StopAllowed \in BOOLEAN
  /\ EventBound \in Nat

Closers == Clients \cup {Listener, Owner}
Threads == Closers \cup Broadcasters

VARIABLES
  pc,         (* where each thread is                                      *)
  todo,       (* each thread's clients_snapshot, what is left of it        *)
  victim,     (* the client mark_client_closed() is about, for each closer *)
  listed,     (* TransportContext::clients                                 *)
  handle,     (* Client::handle is set                                     *)
  closed,     (* Client::closed                                            *)
  pending,    (* Client::pending                                           *)
  flight,     (* the event the drain loop has popped                       *)
  stopping,   (* TransportContext::stopping                                *)
  accepting,  (* the HTTP server has not been stopped                      *)
  destroyed,  (* sse_destroy() has cleared the list                        *)
  connected,  (* Server::connected_clients                                 *)
  events,     (* history: events broadcast so far                          *)
  message,    (* the event each broadcaster is sending                     *)
  sent,       (* history: what was written to each stream                  *)
  notified    (* history: the clients whose disconnect was reported        *)

stream == <<pending, flight, sent>>
server == <<stopping, accepting, destroyed>>
source == <<events, message>>
vars   == <<pc, todo, victim, listed, handle, closed, stream, server, connected,
            source, notified>>

Event == [by : Broadcasters, number : Nat]

Init ==
  /\ pc = [t \in Threads |-> CASE t \in Clients -> "absent" [] t = Listener -> "listen"
                               [] t = Owner -> "up" [] OTHER -> "idle"]
  /\ todo = [t \in Threads |-> {}]
  /\ victim = [t \in Closers |-> {}]
  /\ listed = {}
  /\ handle = [c \in Clients |-> FALSE] /\ closed = [c \in Clients |-> FALSE]
  /\ pending = [c \in Clients |-> << >>] /\ flight = [c \in Clients |-> << >>]
  /\ stopping = FALSE /\ accepting = TRUE /\ destroyed = FALSE
  /\ connected = 0
  /\ events = 0 /\ message = [b \in Broadcasters |-> [by |-> b, number |-> 0]]
  /\ sent = [c \in Clients |-> << >>] /\ notified = {}

Goto(t, label) == pc' = [pc EXCEPT ![t] = label]

-----------------------------------------------------------------------------
(* handle_get_sse(): a worker opens a stream.                              *)

(* The listener still hands out connections it accepted before the stop. *)
Register(c) ==
  /\ pc[c] = "absent" /\ pc[Listener] = "listen"
  /\ listed' = listed \cup {c}
  /\ Goto(c, "connect")
  /\ UNCHANGED <<todo, victim, handle, closed, stream, server, connected, source, notified>>

(* on_sse_connect() *)
Connect(c) ==
  /\ pc[c] = "connect"
  /\ connected' = connected + 1
  /\ Goto(c, "handle")
  /\ UNCHANGED <<todo, victim, listed, handle, closed, stream, server, source, notified>>

SetHandle(c) ==
  /\ pc[c] = "handle"
  /\ handle' = [handle EXCEPT ![c] = TRUE]
  /\ Goto(c, "enter")
  /\ UNCHANGED <<todo, victim, listed, closed, stream, server, connected, source, notified>>

-----------------------------------------------------------------------------
(* The content provider of a stream.                                       *)

(* Faulty variant: the provider does not look at stopping. *)
OverWhenClosed(c) == closed[c]

Over(c) == stopping \/ closed[c]

(* The stream ends; the releaser will call mark_client_closed(). *)
Release(c) == Goto(c, "sweep") /\ todo' = [todo EXCEPT ![c] = {c}]

(* Between two calls of the provider the library finds the peer gone or the
   server stopped. *)
Abandon(c) ==
  /\ pc[c] = "enter"
  /\ Release(c)
  /\ UNCHANGED <<victim, listed, handle, closed, stream, server, connected, source, notified>>

(* The condition of the waiting loop, under the client's mutex. *)
Wait(c) ==
  /\ pc[c] \in {"enter", "loop"}
  /\ pending[c] = << >> /\ ~Over(c)
  /\ Goto(c, "wait")
  /\ UNCHANGED <<todo, victim, listed, handle, closed, stream, server, connected, source, notified>>

(* One second without an event: a heartbeat is due. *)
Timeout(c) ==
  /\ pc[c] = "wait"
  /\ pending[c] = << >> /\ ~Over(c)
  /\ Goto(c, "beat")
  /\ UNCHANGED <<todo, victim, listed, handle, closed, stream, server, connected, source, notified>>

Leave(c) ==
  /\ pc[c] \in {"enter", "loop", "wait"}
  /\ Over(c)
  /\ Release(c)
  /\ UNCHANGED <<victim, listed, handle, closed, stream, server, connected, source, notified>>

(* Faulty variant: a wakeup does not look at the queue. *)
DrainOnEntry(c) ==
  /\ pc[c] = "enter"
  /\ pending[c] # << >> /\ ~Over(c)
  /\ Goto(c, "drain")
  /\ UNCHANGED <<todo, victim, listed, handle, closed, stream, server, connected, source, notified>>

Drain(c) ==
  /\ pc[c] \in {"enter", "loop", "wait"}
  /\ pending[c] # << >> /\ ~Over(c)
  /\ Goto(c, "drain")
  /\ UNCHANGED <<todo, victim, listed, handle, closed, stream, server, connected, source, notified>>

(* Faulty variant: the event is read and left at the front. *)
Peek(c) ==
  /\ pc[c] = "drain" /\ pending[c] # << >>
  /\ flight' = [flight EXCEPT ![c] = <<Head(pending[c])>>]
  /\ Goto(c, "write")
  /\ UNCHANGED <<todo, victim, listed, handle, closed, pending, sent, server, connected, source,
                 notified>>

(* The drain loop pops one event and gives up the mutex to write it; it does
   not look at stopping or closed again. *)
Pop(c) ==
  /\ pc[c] = "drain" /\ pending[c] # << >>
  /\ flight' = [flight EXCEPT ![c] = <<Head(pending[c])>>]
  /\ pending' = [pending EXCEPT ![c] = Tail(@)]
  /\ Goto(c, "write")
  /\ UNCHANGED <<todo, victim, listed, handle, closed, sent, server, connected, source, notified>>

Drained(c) ==
  /\ pc[c] = "drain" /\ pending[c] = << >>
  /\ Goto(c, "enter")
  /\ UNCHANGED <<todo, victim, listed, handle, closed, stream, server, connected, source, notified>>

(* sink.write() succeeds; a heartbeat has nothing in flight. *)
WriteOk(c) ==
  /\ pc[c] \in {"write", "beat"}
  /\ Goto(c, IF pc[c] = "write" THEN "drain" ELSE "loop")
  /\ sent' = [sent EXCEPT ![c] = @ \o flight[c]]
  /\ flight' = [flight EXCEPT ![c] = << >>]
  /\ UNCHANGED <<todo, victim, listed, handle, closed, pending, server, connected, source, notified>>

(* sink.write() fails: the provider sets closed itself. *)
WriteFailed(c) ==
  /\ WritesFail
  /\ pc[c] \in {"write", "beat"}
  /\ closed' = [closed EXCEPT ![c] = TRUE]
  /\ flight' = [flight EXCEPT ![c] = << >>]
  /\ Release(c)
  /\ UNCHANGED <<victim, listed, handle, pending, sent, server, connected, source, notified>>

-----------------------------------------------------------------------------
(* mark_client_closed(), called for each client of todo.                   *)

(* Faulty variant: closed is stored without comparing. *)
CloseAnyway(t) ==
  /\ pc[t] = "sweep"
  /\ \E c \in todo[t] :
       /\ todo' = [todo EXCEPT ![t] = @ \ {c}]
       /\ closed' = [closed EXCEPT ![c] = TRUE]
       /\ victim' = [victim EXCEPT ![t] = {c}]
       /\ Goto(t, "notify")
  /\ UNCHANGED <<listed, handle, stream, server, connected, source, notified>>

(* The compare-and-swap: whoever closed the client first goes on. *)
TryClose(t) ==
  /\ pc[t] = "sweep"
  /\ \E c \in todo[t] :
       /\ todo' = [todo EXCEPT ![t] = @ \ {c}]
       /\ \/ /\ closed[c]
             /\ UNCHANGED <<pc, victim, closed>>
          \/ /\ ~closed[c]
             /\ closed' = [closed EXCEPT ![c] = TRUE]
             /\ victim' = [victim EXCEPT ![t] = {c}]
             /\ Goto(t, "notify")
  /\ UNCHANGED <<listed, handle, stream, server, connected, source, notified>>

(* on_sse_disconnect(), unless the handle is still null. *)
Notify(t) ==
  /\ pc[t] = "notify"
  /\ \E c \in victim[t] :
       \/ /\ handle[c]
          /\ connected' = IF connected > 0 THEN connected - 1 ELSE 0
          /\ notified' = notified \cup {c}
       \/ /\ ~handle[c]
          /\ UNCHANGED <<connected, notified>>
  /\ Goto(t, "erase")
  /\ UNCHANGED <<todo, victim, listed, handle, closed, stream, server, source>>

(* Faulty variant: the predicate of the removal is inverted. *)
EraseOthers(t) ==
  /\ pc[t] = "erase"
  /\ listed' = listed \cap victim[t]
  /\ victim' = [victim EXCEPT ![t] = {}]
  /\ Goto(t, "sweep")
  /\ UNCHANGED <<todo, handle, closed, stream, server, connected, source, notified>>

Erase(t) ==
  /\ pc[t] = "erase"
  /\ listed' = listed \ victim[t]
  /\ victim' = [victim EXCEPT ![t] = {}]
  /\ Goto(t, "sweep")
  /\ UNCHANGED <<todo, handle, closed, stream, server, connected, source, notified>>

(* All marked: a worker and the listener end, the owner goes on to join the
   listener, or has destroyed the transport. *)
Swept(t) ==
  /\ pc[t] = "sweep" /\ todo[t] = {}
  /\ Goto(t, IF t = Owner /\ ~destroyed THEN "join" ELSE "gone")
  /\ UNCHANGED <<todo, victim, listed, handle, closed, stream, server, connected, source, notified>>

-----------------------------------------------------------------------------
(* sse_stop() and sse_destroy(), called by the owner.                      *)

Stop ==
  /\ StopAllowed
  /\ pc[Owner] = "up"
  /\ stopping' = TRUE
  /\ Goto(Owner, "halt")
  /\ UNCHANGED <<todo, victim, listed, handle, closed, stream, accepting, destroyed, connected,
                 source, notified>>

Halt ==
  /\ pc[Owner] = "halt"
  /\ accepting' = FALSE
  /\ Goto(Owner, "collect")
  /\ UNCHANGED <<todo, victim, listed, handle, closed, stream, stopping, destroyed, connected,
                 source, notified>>

Collect ==
  /\ pc[Owner] = "collect"
  /\ todo' = [todo EXCEPT ![Owner] = listed]
  /\ Goto(Owner, "sweep")
  /\ UNCHANGED <<victim, listed, handle, closed, stream, server, connected, source, notified>>

(* thread.join() returns and sse_destroy() empties the list.  (It calls
   sse_stop() once more, which finds every listed client closed: the listener
   marked them.)  The transport must not be in use any more. *)
Destroy ==
  /\ pc[Owner] = "join" /\ pc[Listener] = "gone"
  /\ \A b \in Broadcasters : pc[b] = "idle"
  /\ todo' = [todo EXCEPT ![Owner] = listed]
  /\ listed' = {}
  /\ destroyed' = TRUE
  /\ Goto(Owner, "sweep")
  /\ UNCHANGED <<victim, handle, closed, stream, stopping, accepting, connected, source, notified>>

(* listen_after_bind() returns; the listener marks what is left. *)
ListenerEnds ==
  /\ pc[Listener] = "listen" /\ ~accepting
  /\ \A c \in Clients : pc[c] \in {"absent", "gone"}
  /\ todo' = [todo EXCEPT ![Listener] = listed]
  /\ Goto(Listener, "sweep")
  /\ UNCHANGED <<victim, listed, handle, closed, stream, server, connected, source, notified>>

-----------------------------------------------------------------------------
(* sse_broadcast()                                                         *)

BeginBroadcast(b) ==
  /\ pc[b] = "idle" /\ ~destroyed
  /\ events < EventBound
  /\ events' = events + 1
  /\ message' = [message EXCEPT ![b] = [by |-> b, number |-> events + 1]]
  /\ todo' = [todo EXCEPT ![b] = listed]
  /\ Goto(b, "send")
  /\ UNCHANGED <<victim, listed, handle, closed, stream, server, connected, notified>>

PassOver(b) ==
  /\ pc[b] = "send"
  /\ \E c \in todo[b] : closed[c] /\ todo' = [todo EXCEPT ![b] = @ \ {c}]
  /\ UNCHANGED <<pc, victim, listed, handle, closed, stream, server, connected, source, notified>>

(* Faulty variant: the bare payload is queued instead of the framed event. *)
DeliverUnframed(b) ==
  /\ pc[b] = "send"
  /\ \E c \in todo[b] :
       /\ ~closed[c]
       /\ pending' = [pending EXCEPT ![c] =
                        Append(IF Len(@) >= PendingLimit THEN Tail(@) ELSE @, [data |-> message[b].number])]
       /\ todo' = [todo EXCEPT ![b] = @ \ {c}]
  /\ UNCHANGED <<pc, victim, listed, handle, closed, flight, sent, server, connected, source,
                 notified>>

(* Under the client's mutex: at the limit the oldest event makes room. *)
Deliver(b) ==
  /\ pc[b] = "send"
  /\ \E c \in todo[b] :
       /\ ~closed[c]
       /\ pending' = [pending EXCEPT ![c] =
                        Append(IF Len(@) >= PendingLimit THEN Tail(@) ELSE @, message[b])]
       /\ todo' = [todo EXCEPT ![b] = @ \ {c}]
  /\ UNCHANGED <<pc, victim, listed, handle, closed, flight, sent, server, connected, source,
                 notified>>

EndBroadcast(b) ==
  /\ pc[b] = "send" /\ todo[b] = {}
  /\ Goto(b, "idle")
  /\ UNCHANGED <<todo, victim, listed, handle, closed, stream, server, connected, source, notified>>

-----------------------------------------------------------------------------
Mark(t) == TryClose(t) \/ Notify(t) \/ Erase(t) \/ Swept(t)

Serve(c) ==
  \/ Connect(c) \/ SetHandle(c) \/ Wait(c) \/ Timeout(c) \/ Leave(c) \/ Drain(c)
  \/ Pop(c) \/ Drained(c) \/ WriteOk(c) \/ WriteFailed(c)

Broadcast(b) == PassOver(b) \/ Deliver(b) \/ EndBroadcast(b)

Shutdown == Halt \/ Collect \/ Destroy

Next ==
  \/ \E c \in Clients : Register(c) \/ Serve(c) \/ Abandon(c)
  \/ \E t \in Closers : Mark(t)
  \/ \E b \in Broadcasters : BeginBroadcast(b) \/ Broadcast(b)
  \/ Stop \/ Shutdown \/ ListenerEnds

Spec == Init /\ [][Next]_vars

(***************************************************************************)
(* Every thread that can run does: a stream's wait times out after a       *)
(* second, and the library bounds the time of a write.  Nothing forces a   *)
(* client to connect or leave, an event to be sent, or the owner to stop.  *)
(***************************************************************************)
Fairness ==
  /\ \A c \in Clients : WF_vars(Serve(c))
  /\ \A t \in Closers : WF_vars(Mark(t))
  /\ \A b \in Broadcasters : WF_vars(Broadcast(b))
  /\ WF_vars(Shutdown) /\ WF_vars(ListenerEnds)

FairSpec == Spec /\ Fairness

-----------------------------------------------------------------------------
(* Properties.                                                             *)

Streaming(c) == pc[c] \notin {"absent", "gone"}

(* The types of the state. *)
TypeOK ==
  /\ pc \in [Threads -> {"absent", "connect", "handle", "enter", "loop", "wait", "beat", "drain",
                         "write", "sweep", "notify", "erase", "gone", "listen", "up", "halt",
                         "collect", "join", "idle", "send"}]
  /\ todo \in [Threads -> SUBSET Clients]
  /\ victim \in [Closers -> SUBSET Clients]
  /\ listed \subseteq Clients /\ notified \subseteq Clients
  /\ handle \in [Clients -> BOOLEAN] /\ closed \in [Clients -> BOOLEAN]
  /\ pending \in [Clients -> Seq(Event)]
  /\ flight \in [Clients -> Seq(Event)]
  /\ sent \in [Clients -> Seq(Event)]
  /\ stopping \in BOOLEAN /\ accepting \in BOOLEAN /\ destroyed \in BOOLEAN
  /\ connected \in Nat /\ events \in Nat
  /\ message \in [Broadcasters -> Event]

(* What a stream has been sent, is being sent and will be sent, in order. *)
Line(c) == sent[c] \o flight[c] \o pending[c]

(* A client sees the events of one broadcaster in the order they were
   broadcast, none of them twice, whatever its queue dropped in between
   (sse_broadcast pushes while the drain loop of handle_get_sse writes). *)
EventsInOrder ==
  \A c \in Clients : \A i, j \in DOMAIN Line(c) :
    i < j /\ Line(c)[i].by = Line(c)[j].by => Line(c)[i].number < Line(c)[j].number

Counted(c)       == pc[c] \notin {"absent", "connect"}
BeingReported(c) == \E t \in Closers : pc[t] = "notify" /\ c \in victim[t]

(* The clients that are connected as far as the server can know: their
   streams are open, or their disconnect is just being reported. *)
Current == {c \in Clients : Counted(c) /\ (~closed[c] \/ BeingReported(c))}

(* mcp_server_clients_count() is the current count of connected clients: it
   never misses an open stream, though worker, listener and owner race to
   close and to report it (mark_client_closed), and until the transport stops
   it keeps none that is gone.  (While it stops, a client that is closed before
   its handle is set stays counted.)  It holds where writes succeed; a failed
   write closes a stream that nobody then reports. *)
CountIsOfTheOpen ==
  /\ connected >= Cardinality(Current)
  /\ ~stopping => connected = Cardinality(Current)

(* Broadcasts reach every open stream: a stream is taken off the list only
   once it is closed. *)
OpenIsListed == \A c \in Clients : Streaming(c) /\ ~closed[c] => c \in listed

(* A stop comes to its end: no worker waits for ever on its stream, the
   listener on its workers or the owner on the listener. *)
StopEnds == stopping ~> (pc[Owner] = "gone")

(* An event queued for a client is written or dropped, or its stream ends:
   no wakeup is lost for good (the wait is bounded to a second). *)
StreamsDrain == \A c \in Clients : (pending[c] # << >>) ~> (pending[c] = << >> \/ ~Streaming(c))
=============================================================================
