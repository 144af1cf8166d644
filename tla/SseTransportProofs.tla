-------------------------- MODULE SseTransportProofs -------------------------
(***************************************************************************)
(* Proofs about SseTransport, for any number of streams, broadcasters and  *)
(* events and any length of a client's queue: the types of its state, that *)
(* the counter of connected clients misses no open stream and, as long as  *)
(* writes succeed, keeps none that is gone, that no open stream is off the *)
(* list, and that a client sees a broadcaster's events in order.           *)
(***************************************************************************)
EXTENDS SseTransport, FiniteSetTheorems, TLAPS

USE TransportAssumption

Serving == {"enter", "loop", "wait", "beat", "drain", "write"}
Marking == {"sweep", "notify", "erase"}

-----------------------------------------------------------------------------
(* Types.                                                                  *)

LEMMA TypedInit == Init => TypeOK
<1> SUFFICES ASSUME Init PROVE TypeOK
  OBVIOUS
<1>1. pc \in [Threads -> {"absent", "connect", "handle", "enter", "loop", "wait", "beat", "drain",
                         "write", "sweep", "notify", "erase", "gone", "listen", "up", "halt",
                         "collect", "join", "idle", "send"}]
  BY DEF Init
<1>2. /\ pending \in [Clients -> Seq(Event)]
      /\ flight \in [Clients -> Seq(Event)]
      /\ sent \in [Clients -> Seq(Event)]
  BY DEF Init
<1>3. message \in [Broadcasters -> Event]
  BY DEF Init, Event
<1> QED BY <1>1, <1>2, <1>3 DEF Init, TypeOK

(* Where a step of a thread may take it. *)
LEMMA Moved ==
  ASSUME TypeOK, NEW t \in Threads, NEW label, Goto(t, label),
         label \in {"absent", "connect", "handle", "enter", "loop", "wait", "beat", "drain",
                    "write", "sweep", "notify", "erase", "gone", "listen", "up", "halt",
                    "collect", "join", "idle", "send"}
  PROVE  /\ pc' \in [Threads -> {"absent", "connect", "handle", "enter", "loop", "wait", "beat",
                         "drain", "write", "sweep", "notify", "erase", "gone", "listen", "up",
                         "halt", "collect", "join", "idle", "send"}]
         /\ pc'[t] = label
         /\ \A u \in Threads \ {t} : pc'[u] = pc[u]
  BY DEF TypeOK, Goto

(* Queues of events: what the steps of a stream do to them. *)
LEMMA QueueTypes ==
  ASSUME NEW s \in Seq(Event), NEW r \in Seq(Event), NEW e \in Event
  PROVE  /\ s \o r \in Seq(Event)
         /\ Append(s, e) \in Seq(Event)
         /\ <<e>> \in Seq(Event)
         /\ s # << >> => Head(s) \in Event /\ Tail(s) \in Seq(Event)
         /\ Len(s) >= PendingLimit => Tail(s) \in Seq(Event) /\ Append(Tail(s), e) \in Seq(Event)
<1> DEFINE Kind == Event
<1>1. s \in Seq(Kind) /\ r \in Seq(Kind) /\ e \in Kind
  OBVIOUS
<1> HIDE DEF Kind
<1>2. /\ s \o r \in Seq(Kind)
      /\ Append(s, e) \in Seq(Kind)
      /\ <<e>> \in Seq(Kind)
      /\ s # << >> => Head(s) \in Kind /\ Tail(s) \in Seq(Kind)
  BY <1>1
<1>3. Len(s) >= PendingLimit => s # << >>
  BY <1>1
<1>4. Tail(s) \in Seq(Kind) => Append(Tail(s), e) \in Seq(Kind)
  BY <1>1
<1> QED BY <1>2, <1>3, <1>4 DEF Kind

LEMMA TypedNext == TypeOK /\ [Next]_vars => TypeOK'
<1> SUFFICES ASSUME TypeOK, [Next]_vars PROVE TypeOK'
  OBVIOUS
<1> USE DEF stream, server, source
<1>a. Clients \subseteq Threads /\ Closers \subseteq Threads /\ Broadcasters \subseteq Threads
      /\ Owner \in Threads /\ Listener \in Threads
  BY DEF Threads, Closers
<1>1. ASSUME NEW c \in Clients, Register(c) \/ Connect(c) \/ SetHandle(c) PROVE TypeOK'
  <2>1. CASE Register(c)
    BY <2>1, <1>a, Moved DEF Register, TypeOK
  <2>2. CASE Connect(c)
    BY <2>2, <1>a, Moved DEF Connect, TypeOK
  <2>3. CASE SetHandle(c)
    BY <2>3, <1>a, Moved DEF SetHandle, TypeOK
  <2> QED BY <1>1, <2>1, <2>2, <2>3
<1>2. ASSUME NEW c \in Clients, Abandon(c) \/ Leave(c) \/ WriteFailed(c) PROVE TypeOK'
  <2>1. /\ Goto(c, "sweep") /\ todo' = [todo EXCEPT ![c] = {c}]
        /\ UNCHANGED <<victim, listed, handle, pending, sent, server, connected, source, notified>>
        /\ flight' \in [Clients -> Seq(Event)]
        /\ closed' \in [Clients -> BOOLEAN]
    <3>1. << >> \in Seq(Event)
      OBVIOUS
    <3>2. CASE Abandon(c) \/ Leave(c)
      BY <3>2 DEF Abandon, Leave, Release, TypeOK
    <3>3. CASE WriteFailed(c)
      BY <3>1, <3>3 DEF WriteFailed, Release, TypeOK
    <3> QED BY <1>2, <3>2, <3>3
  <2> QED BY <2>1, <1>a, Moved DEF TypeOK
<1>3. ASSUME NEW c \in Clients, Wait(c) \/ Timeout(c) \/ Drain(c) \/ Drained(c) PROVE TypeOK'
  BY <1>3, <1>a, Moved DEF Wait, Timeout, Drain, Drained, TypeOK
<1>4. ASSUME NEW c \in Clients, Pop(c) PROVE TypeOK'
  <2>1. pending[c] \in Seq(Event) /\ pending[c] # << >>
    BY <1>4 DEF Pop, TypeOK
  <2>2. Head(pending[c]) \in Event /\ Tail(pending[c]) \in Seq(Event)
    <3> DEFINE Kind == Event
    <3>1. pending[c] \in Seq(Kind)
      BY <2>1
    <3> HIDE DEF Kind
    <3>2. Head(pending[c]) \in Kind /\ Tail(pending[c]) \in Seq(Kind)
      BY <2>1, <3>1
    <3> QED BY <3>2 DEF Kind
  <2>3. <<Head(pending[c])>> \in Seq(Event)
    BY <2>1, <2>2, QueueTypes
  <2>4. flight' \in [Clients -> Seq(Event)] /\ pending' \in [Clients -> Seq(Event)]
    BY <1>4, <2>2, <2>3 DEF Pop, TypeOK
  <2> QED BY <1>4, <1>a, <2>4, Moved DEF Pop, TypeOK
<1>5. ASSUME NEW c \in Clients, WriteOk(c) PROVE TypeOK'
  <2>1. sent[c] \o flight[c] \in Seq(Event)
    <3> DEFINE Kind == Event
    <3>1. sent[c] \in Seq(Kind) /\ flight[c] \in Seq(Kind)
      BY DEF TypeOK
    <3> HIDE DEF Kind
    <3>2. sent[c] \o flight[c] \in Seq(Kind)
      BY <3>1
    <3> QED BY <3>2 DEF Kind
  <2>2. sent' \in [Clients -> Seq(Event)] /\ flight' \in [Clients -> Seq(Event)]
    BY <1>5, <2>1 DEF WriteOk, TypeOK
  <2>3. \E label \in {"drain", "loop"} : Goto(c, label)
    BY <1>5 DEF WriteOk
  <2> QED BY <1>5, <1>a, <2>2, <2>3, Moved DEF WriteOk, TypeOK
<1>6. ASSUME NEW t \in Closers, Mark(t) PROVE TypeOK'
  <2>1. CASE TryClose(t)
    <3>1. PICK c \in todo[t] :
            /\ todo' = [todo EXCEPT ![t] = @ \ {c}]
            /\ \/ closed[c] /\ UNCHANGED <<pc, victim, closed>>
               \/ /\ ~closed[c]
                  /\ closed' = [closed EXCEPT ![c] = TRUE]
                  /\ victim' = [victim EXCEPT ![t] = {c}]
                  /\ Goto(t, "notify")
      BY <2>1 DEF TryClose
    <3>2. c \in Clients /\ todo' \in [Threads -> SUBSET Clients]
      BY <1>a, <3>1 DEF TypeOK
    <3>3. /\ pc' \in [Threads -> {"absent", "connect", "handle", "enter", "loop", "wait", "beat",
                         "drain", "write", "sweep", "notify", "erase", "gone", "listen", "up",
                         "halt", "collect", "join", "idle", "send"}]
          /\ victim' \in [Closers -> SUBSET Clients] /\ closed' \in [Clients -> BOOLEAN]
      <4>1. CASE UNCHANGED <<pc, victim, closed>>
        BY <4>1 DEF TypeOK
      <4>2. CASE /\ closed' = [closed EXCEPT ![c] = TRUE]
                 /\ victim' = [victim EXCEPT ![t] = {c}]
                 /\ Goto(t, "notify")
        BY <4>2, <1>a, <3>2, Moved DEF TypeOK
      <4> QED BY <3>1, <4>1, <4>2
    <3> QED BY <2>1, <3>2, <3>3 DEF TryClose, TypeOK
  <2>2. CASE Notify(t)
    <3>1. Goto(t, "erase") /\ connected' \in Nat /\ notified' \subseteq Clients
      BY <2>2 DEF Notify, TypeOK
    <3> QED BY <2>2, <1>a, <3>1, Moved DEF Notify, TypeOK
  <2>3. CASE Erase(t)
    BY <2>3, <1>a, Moved DEF Erase, TypeOK
  <2>4. CASE Swept(t)
    <3>1. \E label \in {"join", "gone"} : Goto(t, label)
      BY <2>4 DEF Swept
    <3> QED BY <2>4, <1>a, <3>1, Moved DEF Swept, TypeOK
  <2> QED BY <1>6, <2>1, <2>2, <2>3, <2>4 DEF Mark
<1>7. ASSUME NEW b \in Broadcasters, BeginBroadcast(b) PROVE TypeOK'
  <2>1. [by |-> b, number |-> events + 1] \in Event /\ events' \in Nat
    BY <1>7 DEF BeginBroadcast, TypeOK, Event
  <2> QED BY <1>7, <1>a, <2>1, Moved DEF BeginBroadcast, TypeOK
<1>8. ASSUME NEW b \in Broadcasters, PassOver(b) PROVE TypeOK'
  BY <1>8, <1>a DEF PassOver, TypeOK
<1>9. ASSUME NEW b \in Broadcasters, Deliver(b) PROVE TypeOK'
  <2>1. PICK c \in todo[b] :
          /\ pending' = [pending EXCEPT ![c] =
                          Append(IF Len(@) >= PendingLimit THEN Tail(@) ELSE @, message[b])]
          /\ todo' = [todo EXCEPT ![b] = @ \ {c}]
    BY <1>9 DEF Deliver
  <2>2. c \in Clients /\ pending[c] \in Seq(Event) /\ message[b] \in Event
    BY <1>a, <2>1 DEF TypeOK
  <2>3. pending' \in [Clients -> Seq(Event)]
    BY <2>1, <2>2, QueueTypes DEF TypeOK
  <2> QED BY <1>9, <1>a, <2>1, <2>2, <2>3 DEF Deliver, TypeOK
<1>10. ASSUME NEW b \in Broadcasters, EndBroadcast(b) PROVE TypeOK'
  BY <1>10, <1>a, Moved DEF EndBroadcast, TypeOK
<1>11. CASE Stop \/ Shutdown \/ ListenerEnds
  <2>1. CASE Stop \/ Halt
    BY <2>1, <1>a, Moved DEF Stop, Halt, TypeOK
  <2>2. CASE Collect
    BY <2>2, <1>a, Moved DEF Collect, TypeOK
  <2>3. CASE Destroy
    BY <2>3, <1>a, Moved DEF Destroy, TypeOK
  <2>4. CASE ListenerEnds
    BY <2>4, <1>a, Moved DEF ListenerEnds, TypeOK
  <2> QED BY <1>11, <2>1, <2>2, <2>3, <2>4 DEF Shutdown
<1>12. CASE UNCHANGED vars
  BY <1>12 DEF vars, TypeOK
<1> QED BY <1>1, <1>2, <1>3, <1>4, <1>5, <1>6, <1>7, <1>8, <1>9, <1>10, <1>11, <1>12
        DEF Next, Serve, Broadcast

(* The transport's tables and counters and each thread's locals have their
   types. *)
THEOREM Typing == Spec => []TypeOK
  BY TypedInit, TypedNext, PTL DEF Spec

-----------------------------------------------------------------------------
(* Who closes a stream, and what is left of it.                            *)

(* Once the listener has ended, no worker serves a stream and every stream it
   still lists is closed. *)
NothingOutlivesListener ==
  /\ pc[Listener] # "listen" => \A c \in Clients : ~Streaming(c)
  /\ pc[Listener] = "gone" => \A c \in listed : closed[c]

(* Where each kind of thread can be. *)
Roles ==
  /\ \A c \in Clients : pc[c] \in {"absent", "connect", "handle", "gone"} \cup Serving \cup Marking
  /\ pc[Listener] \in {"listen", "gone"} \cup Marking
  /\ pc[Owner] \in {"up", "halt", "collect", "join", "gone"} \cup Marking
  /\ \A b \in Broadcasters : pc[b] \in {"idle", "send"}

(* A disconnect is reported by the one thread that closed the stream, after
   its connection was. *)
Reported ==
  /\ \A c \in Clients : handle[c] => pc[c] \notin {"absent", "connect", "handle"}
  /\ \A c \in notified : handle[c] /\ closed[c]
  /\ \A t \in Closers : \A c \in victim[t] :
       /\ closed[c]
       /\ \A u \in Closers : c \in victim[u] => u = t
       /\ pc[t] = "notify" => c \notin notified

(* The listener's last round reaches every open stream. *)
Lasting ==
  pc[Listener] \in Marking => \A c \in listed : closed[c] \/ c \in todo[Listener]

Inv == TypeOK /\ Roles /\ Reported /\ OpenIsListed /\ NothingOutlivesListener /\ Lasting

LEMMA Kinds ==
  /\ Clients \subseteq Threads /\ Closers \subseteq Threads /\ Broadcasters \subseteq Threads
  /\ Owner \in Closers /\ Listener \in Closers /\ Clients \subseteq Closers /\ Owner # Listener
  /\ \A c \in Clients : c # Owner /\ c # Listener /\ c \notin Broadcasters
  /\ Owner \notin Broadcasters /\ Listener \notin Broadcasters
  /\ \A t \in Closers : t \in Clients \/ t = Owner \/ t = Listener
  BY DEF Threads, Closers

LEMMA InvInit == Init => Inv
<1> SUFFICES ASSUME Init PROVE Inv
  OBVIOUS
<1>1. /\ \A c \in Clients : pc[c] = "absent"
      /\ pc[Listener] = "listen" /\ pc[Owner] = "up"
      /\ \A b \in Broadcasters : pc[b] = "idle"
  BY Kinds DEF Init
<1>2. Roles
  BY <1>1 DEF Roles
<1>3. Reported
  BY DEF Init, Reported
<1>4. OpenIsListed /\ NothingOutlivesListener /\ Lasting
  BY <1>1 DEF OpenIsListed, NothingOutlivesListener, Lasting, Streaming, Marking
<1> QED BY <1>2, <1>3, <1>4, TypedInit DEF Inv

(* Threads other than a stream's worker and the listener, which close nothing. *)
LEMMA Aside ==
  ASSUME Inv, TypeOK',
         \A t \in Clients \cup {Listener} : pc'[t] = pc[t],
         \/ pc'[Owner] = pc[Owner]
         \/ pc'[Owner] \in {"up", "halt", "collect", "sweep"},
         \A b \in Broadcasters : pc'[b] \in {"idle", "send"},
         todo'[Listener] = todo[Listener],
         UNCHANGED <<victim, listed, handle, closed, notified>>
  PROVE  Inv'
<1>1. Roles'
  BY DEF Inv, Roles, Marking
<1>2. Reported'
  BY Kinds DEF Inv, Reported
<1>3. OpenIsListed' /\ NothingOutlivesListener' /\ Lasting'
  BY DEF Inv, OpenIsListed, NothingOutlivesListener, Lasting, Streaming
<1> QED BY <1>1, <1>2, <1>3 DEF Inv

(* A worker that goes on with its stream, or ends it. *)
LEMMA StreamStep ==
  ASSUME Inv, TypeOK', NEW c \in Clients, NEW label, Goto(c, label),
         pc[c] \in {"connect", "handle"} \cup Serving,
         label \in {"handle", "sweep"} \cup Serving,
         label = "handle" => pc[c] = "connect" /\ handle' = handle,
         handle' = handle \/ handle' = [handle EXCEPT ![c] = TRUE],
         \A d \in Clients : closed[d] => closed'[d],
         todo'[Listener] = todo[Listener],
         UNCHANGED <<victim, listed, notified>>
  PROVE  Inv'
<1>a. TypeOK /\ c \in Threads
  BY Kinds DEF Inv
<1>1. pc'[c] = label /\ \A t \in Threads \ {c} : pc'[t] = pc[t]
  BY <1>a DEF TypeOK, Goto
<1>2. /\ \A t \in Closers \ {c} : pc'[t] = pc[t]
      /\ \A b \in Broadcasters : pc'[b] = pc[b]
      /\ pc'[Listener] = pc[Listener] /\ pc'[Owner] = pc[Owner]
  BY <1>1, Kinds
<1>3. Roles'
  BY <1>1, <1>2, Kinds DEF Inv, Roles, Marking
<1>4. Reported'
  <2>1. \A d \in Clients : handle[d] => handle'[d]
    BY <1>a DEF TypeOK
  <2>2. \A d \in Clients : handle'[d] => pc'[d] \notin {"absent", "connect", "handle"}
    <3> SUFFICES ASSUME NEW d \in Clients, handle'[d]
                 PROVE  pc'[d] \notin {"absent", "connect", "handle"}
      OBVIOUS
    <3>1. CASE d = c
      BY <3>1, <1>1 DEF Inv, Reported, Serving
    <3>2. CASE d # c
      BY <3>2, <1>2, <1>a, Kinds DEF Inv, Reported, TypeOK
    <3> QED BY <3>1, <3>2
  <2>3. label # "notify"
    BY DEF Serving
  <2>4. notified \subseteq Clients /\ \A t \in Closers : victim[t] \subseteq Clients
    BY <1>a DEF TypeOK
  <2> QED BY <1>1, <1>2, <2>1, <2>2, <2>3, <2>4 DEF Inv, Reported
<1>5. OpenIsListed'
  BY <1>1, <1>2, Kinds DEF Inv, OpenIsListed, Streaming, Serving
<1>6. NothingOutlivesListener' /\ Lasting'
  <2>1. Streaming(c)
    BY DEF Streaming, Serving
  <2>2. pc[Listener] = "listen"
    BY <2>1 DEF Inv, NothingOutlivesListener
  <2> QED BY <2>2, <1>2 DEF NothingOutlivesListener, Lasting, Marking
<1> QED BY <1>3, <1>4, <1>5, <1>6 DEF Inv

LEMMA RegisterKeepsInv ==
  ASSUME Inv, TypeOK', NEW c \in Clients, Register(c)
  PROVE  Inv'
<1>a. TypeOK /\ c \in Threads
  BY Kinds DEF Inv
<1>1. pc'[c] = "connect" /\ \A t \in Threads \ {c} : pc'[t] = pc[t]
  BY <1>a DEF Register, Goto, TypeOK
<1>2. /\ \A t \in Closers \ {c} : pc'[t] = pc[t]
      /\ \A b \in Broadcasters : pc'[b] = pc[b]
      /\ pc'[Listener] = pc[Listener] /\ pc'[Owner] = pc[Owner]
  BY <1>1, Kinds
<1>3. /\ UNCHANGED <<todo, victim, handle, closed, notified>>
      /\ listed' = listed \cup {c} /\ pc[c] = "absent" /\ pc[Listener] = "listen"
  BY DEF Register
<1>4. Roles'
  BY <1>1, <1>2, Kinds DEF Inv, Roles
<1>5. Reported'
  <2>1. ~handle[c]
    BY <1>3 DEF Inv, Reported
  <2> QED BY <1>1, <1>2, <1>3, <2>1, Kinds DEF Inv, Reported
<1>6. OpenIsListed'
  BY <1>1, <1>2, <1>3, Kinds DEF Inv, OpenIsListed, Streaming
<1>7. NothingOutlivesListener' /\ Lasting'
  BY <1>2, <1>3 DEF NothingOutlivesListener, Lasting, Marking
<1> QED BY <1>4, <1>5, <1>6, <1>7 DEF Inv

LEMMA TryCloseKeepsInv ==
  ASSUME Inv, TypeOK', NEW t \in Closers, TryClose(t)
  PROVE  Inv'
<1>a. TypeOK /\ t \in Threads /\ pc[t] = "sweep"
  BY Kinds DEF Inv, TryClose
<1>1. PICK c \in todo[t] :
        /\ todo' = [todo EXCEPT ![t] = @ \ {c}]
        /\ \/ closed[c] /\ UNCHANGED <<pc, victim, closed>>
           \/ /\ ~closed[c]
              /\ closed' = [closed EXCEPT ![c] = TRUE]
              /\ victim' = [victim EXCEPT ![t] = {c}]
              /\ Goto(t, "notify")
  BY DEF TryClose
<1>2. c \in Clients
  BY <1>a, <1>1 DEF TypeOK
<1>3. UNCHANGED <<listed, handle, notified>>
  BY DEF TryClose
<1>4. closed'[c] /\ \A d \in Clients : closed[d] => closed'[d]
  BY <1>a, <1>1, <1>2 DEF TypeOK
<1>5. \A d \in Clients : d \in todo[Listener] => d \in todo'[Listener] \/ closed'[d]
  BY <1>a, <1>1, <1>4, Kinds DEF TypeOK
<1>6. /\ \A u \in Threads \ {t} : pc'[u] = pc[u]
      /\ pc'[t] \in {"sweep", "notify"}
  BY <1>a, <1>1 DEF TypeOK, Goto
<1>7. Roles'
  BY <1>a, <1>6, Kinds DEF Inv, Roles, Marking
<1>8. Reported'
  <2>1. CASE UNCHANGED <<pc, victim, closed>>
    BY <2>1, <1>3 DEF Inv, Reported
  <2>2. CASE /\ ~closed[c]
             /\ closed' = [closed EXCEPT ![c] = TRUE]
             /\ victim' = [victim EXCEPT ![t] = {c}]
             /\ Goto(t, "notify")
    <3>1. c \notin notified /\ \A u \in Closers : c \notin victim[u]
      BY <2>2 DEF Inv, Reported
    <3>2. victim'[t] = {c} /\ \A u \in Closers \ {t} : victim'[u] = victim[u] /\ pc'[u] = pc[u]
      BY <1>a, <1>6, <2>2, Kinds DEF TypeOK
    <3>3. \A u \in Closers : victim[u] \subseteq Clients
      BY <1>a DEF TypeOK
    <3>4. \A u \in Closers : \A d \in victim'[u] :
            /\ closed'[d]
            /\ \A v \in Closers : d \in victim'[v] => v = u
            /\ pc'[u] = "notify" => d \notin notified
      BY <1>4, <3>1, <3>2, <3>3 DEF Inv, Reported
    <3>5. \A d \in Clients : handle[d] => pc'[d] \notin {"absent", "connect", "handle"}
      BY <1>6, Kinds DEF Inv, Reported
    <3>6. \A d \in notified : handle[d] /\ closed'[d]
      BY <1>4, <1>a DEF Inv, Reported, TypeOK
    <3> QED BY <1>3, <3>4, <3>5, <3>6 DEF Reported
  <2> QED BY <1>1, <2>1, <2>2
<1>9. \A d \in Clients : Streaming(d)' <=> Streaming(d)
  BY <1>a, <1>6, Kinds DEF Streaming
<1>10. OpenIsListed'
  BY <1>3, <1>4, <1>9 DEF Inv, OpenIsListed
<1>11. pc'[Listener] = pc[Listener] \/ (pc[Listener] = "sweep" /\ pc'[Listener] \in Marking)
  BY <1>a, <1>6, Kinds DEF Marking
<1>12. NothingOutlivesListener'
  <2>1. pc'[Listener] # "listen" => \A d \in Clients : ~Streaming(d)'
    BY <1>9, <1>11 DEF Inv, NothingOutlivesListener
  <2>2. pc'[Listener] = "gone" => \A d \in listed' : closed'[d]
    BY <1>3, <1>4, <1>11, <1>a DEF Inv, NothingOutlivesListener, Marking, TypeOK
  <2> QED BY <2>1, <2>2 DEF NothingOutlivesListener
<1>13. Lasting'
  BY <1>3, <1>4, <1>5, <1>11, <1>a DEF Inv, Lasting, Marking, TypeOK
<1> QED BY <1>7, <1>8, <1>10, <1>12, <1>13 DEF Inv

LEMMA NotifyKeepsInv ==
  ASSUME Inv, TypeOK', NEW t \in Closers, Notify(t)
  PROVE  Inv'
<1>a. TypeOK /\ t \in Threads /\ pc[t] = "notify"
  BY Kinds DEF Inv, Notify
<1>1. PICK c \in victim[t] : (notified' = notified \cup {c} /\ handle[c]) \/ notified' = notified
  BY DEF Notify
<1>2. UNCHANGED <<todo, victim, listed, handle, closed>>
  BY DEF Notify
<1>3. pc'[t] = "erase" /\ \A u \in Threads \ {t} : pc'[u] = pc[u]
  BY <1>a DEF Notify, Goto, TypeOK
<1>4. Roles'
  BY <1>a, <1>3, Kinds DEF Inv, Roles, Marking
<1>5. Reported'
  <2>1. \A d \in Clients : handle[d] => pc'[d] \notin {"absent", "connect", "handle"}
    BY <1>3, Kinds DEF Inv, Reported
  <2>2. \A d \in notified' : handle[d] /\ closed[d]
    BY <1>1 DEF Inv, Reported
  <2>3. \A u \in Closers : \A d \in victim[u] :
          /\ closed[d]
          /\ \A v \in Closers : d \in victim[v] => v = u
          /\ pc'[u] = "notify" => d \notin notified'
    <3> SUFFICES ASSUME NEW u \in Closers, NEW d \in victim[u]
                 PROVE  /\ closed[d]
                        /\ \A v \in Closers : d \in victim[v] => v = u
                        /\ pc'[u] = "notify" => d \notin notified'
      OBVIOUS
    <3>1. closed[d] /\ \A v \in Closers : d \in victim[v] => v = u
      BY DEF Inv, Reported
    <3>2. ASSUME pc'[u] = "notify" PROVE d \notin notified'
      <4>1. u # t /\ pc[u] = "notify"
        BY <3>2, <1>3, Kinds
      <4>2. d # c
        BY <4>1, <3>1
      <4> QED BY <4>1, <4>2, <1>1 DEF Inv, Reported
    <3> QED BY <3>1, <3>2
  <2> QED BY <1>2, <2>1, <2>2, <2>3 DEF Reported
<1>6. \A d \in Clients : Streaming(d)' <=> Streaming(d)
  BY <1>a, <1>3, Kinds DEF Streaming
<1>7. pc'[Listener] = pc[Listener] \/ (pc[Listener] \in Marking /\ pc'[Listener] \in Marking)
  BY <1>a, <1>3, Kinds DEF Marking
<1>8. OpenIsListed' /\ Lasting'
  BY <1>2, <1>6, <1>7 DEF Inv, OpenIsListed, Lasting
<1>9. NothingOutlivesListener'
  <2>1. pc'[Listener] # "listen" => \A d \in Clients : ~Streaming(d)'
    BY <1>6, <1>7 DEF Inv, NothingOutlivesListener, Marking
  <2>2. pc'[Listener] = "gone" => pc[Listener] = "gone"
    BY <1>7 DEF Marking
  <2> QED BY <1>2, <2>1, <2>2 DEF Inv, NothingOutlivesListener
<1> QED BY <1>4, <1>5, <1>8, <1>9 DEF Inv

LEMMA EraseKeepsInv ==
  ASSUME Inv, TypeOK', NEW t \in Closers, Erase(t)
  PROVE  Inv'
<1>a. TypeOK /\ t \in Threads /\ pc[t] = "erase"
  BY Kinds DEF Inv, Erase
<1>1. /\ listed' = listed \ victim[t] /\ victim' = [victim EXCEPT ![t] = {}]
      /\ UNCHANGED <<todo, handle, closed, notified>>
  BY DEF Erase
<1>2. pc'[t] = "sweep" /\ \A u \in Threads \ {t} : pc'[u] = pc[u]
  BY <1>a DEF Erase, Goto, TypeOK
<1>3. \A d \in victim[t] : closed[d]
  BY DEF Inv, Reported
<1>4. Roles'
  BY <1>a, <1>2, Kinds DEF Inv, Roles, Marking
<1>5. Reported'
  <2>1. victim'[t] = {} /\ \A u \in Closers \ {t} : victim'[u] = victim[u] /\ pc'[u] = pc[u]
    BY <1>a, <1>1, <1>2, Kinds DEF TypeOK
  <2>2. \A d \in Clients : handle[d] => pc'[d] \notin {"absent", "connect", "handle"}
    BY <1>2, Kinds DEF Inv, Reported
  <2>3. \A u \in Closers : \A d \in victim'[u] :
          /\ closed[d]
          /\ \A v \in Closers : d \in victim'[v] => v = u
          /\ pc'[u] = "notify" => d \notin notified
    BY <2>1 DEF Inv, Reported
  <2> QED BY <1>1, <2>2, <2>3 DEF Inv, Reported
<1>6. \A d \in Clients : Streaming(d)' <=> Streaming(d)
  BY <1>a, <1>2, Kinds DEF Streaming
<1>7. pc'[Listener] = pc[Listener] \/ (pc[Listener] \in Marking /\ pc'[Listener] \in Marking)
  BY <1>a, <1>2, Kinds DEF Marking
<1>8. OpenIsListed' /\ Lasting'
  BY <1>1, <1>3, <1>6, <1>7 DEF Inv, OpenIsListed, Lasting
<1>9. NothingOutlivesListener'
  <2>1. pc'[Listener] # "listen" => \A d \in Clients : ~Streaming(d)'
    BY <1>6, <1>7 DEF Inv, NothingOutlivesListener, Marking
  <2>2. pc'[Listener] = "gone" => pc[Listener] = "gone"
    BY <1>7 DEF Marking
  <2> QED BY <1>1, <2>1, <2>2 DEF Inv, NothingOutlivesListener
<1> QED BY <1>4, <1>5, <1>8, <1>9 DEF Inv

LEMMA SweptKeepsInv ==
  ASSUME Inv, TypeOK', NEW t \in Closers, Swept(t)
  PROVE  Inv'
<1>a. TypeOK /\ t \in Threads /\ pc[t] = "sweep" /\ todo[t] = {}
  BY Kinds DEF Inv, Swept
<1>1. UNCHANGED <<todo, victim, listed, handle, closed, notified>>
  BY DEF Swept
<1>2. /\ pc'[t] \in {"join", "gone"} /\ (pc'[t] = "join" => t = Owner)
      /\ \A u \in Threads \ {t} : pc'[u] = pc[u]
  BY <1>a DEF Swept, Goto, TypeOK
<1>3. Roles'
  BY <1>a, <1>2, Kinds DEF Inv, Roles
<1>4. Reported'
  <2>1. \A d \in Clients : handle[d] => pc'[d] \notin {"absent", "connect", "handle"}
    BY <1>2, Kinds DEF Inv, Reported
  <2>2. \A u \in Closers : pc'[u] = "notify" => pc[u] = "notify"
    BY <1>2, Kinds
  <2> QED BY <1>1, <2>1, <2>2 DEF Inv, Reported
<1>5. \A d \in Clients : Streaming(d)' => Streaming(d)
  BY <1>a, <1>2, Kinds DEF Streaming
<1>6. /\ pc'[Listener] = pc[Listener] \/ pc'[Listener] = "gone"
      /\ pc'[Listener] = "gone" => pc[Listener] = "gone" \/ (pc[Listener] = "sweep" /\ todo[Listener] = {})
  BY <1>a, <1>2, Kinds
<1>7. OpenIsListed' /\ Lasting'
  BY <1>1, <1>5, <1>6 DEF Inv, OpenIsListed, Lasting, Marking
<1>8. NothingOutlivesListener'
  <2>1. pc'[Listener] # "listen" => \A d \in Clients : ~Streaming(d)'
    BY <1>5, <1>6 DEF Inv, NothingOutlivesListener
  <2>2. pc'[Listener] = "gone" => \A d \in listed : closed[d]
    BY <1>6 DEF Inv, NothingOutlivesListener, Lasting, Marking
  <2> QED BY <1>1, <2>1, <2>2 DEF NothingOutlivesListener
<1> QED BY <1>3, <1>4, <1>7, <1>8 DEF Inv

LEMMA DestroyKeepsInv ==
  ASSUME Inv, TypeOK', Destroy
  PROVE  Inv'
<1>a. TypeOK /\ Owner \in Threads /\ pc[Listener] = "gone"
  BY Kinds DEF Inv, Destroy
<1>1. listed' = {} /\ UNCHANGED <<victim, handle, closed, notified>>
  BY DEF Destroy
<1>2. pc'[Owner] = "sweep" /\ \A u \in Threads \ {Owner} : pc'[u] = pc[u]
  BY <1>a DEF Destroy, Goto, TypeOK
<1>3. Roles'
  BY <1>2, Kinds DEF Inv, Roles, Marking
<1>4. Reported'
  <2>1. \A d \in Clients : handle[d] => pc'[d] \notin {"absent", "connect", "handle"}
    BY <1>2, Kinds DEF Inv, Reported
  <2>2. \A u \in Closers : pc'[u] = "notify" => pc[u] = "notify"
    BY <1>2, Kinds
  <2> QED BY <1>1, <2>1, <2>2 DEF Inv, Reported
<1>5. \A d \in Clients : ~Streaming(d) /\ ~Streaming(d)'
  BY <1>a, <1>2, Kinds DEF Inv, NothingOutlivesListener, Streaming
<1>6. pc'[Listener] = "gone"
  BY <1>a, <1>2, Kinds
<1>7. OpenIsListed' /\ NothingOutlivesListener' /\ Lasting'
  BY <1>1, <1>5, <1>6 DEF OpenIsListed, NothingOutlivesListener, Lasting, Marking
<1> QED BY <1>3, <1>4, <1>7 DEF Inv

LEMMA ListenerEndsKeepsInv ==
  ASSUME Inv, TypeOK', ListenerEnds
  PROVE  Inv'
<1>a. /\ TypeOK /\ Listener \in Threads /\ pc[Listener] = "listen"
      /\ \A c \in Clients : pc[c] \in {"absent", "gone"}
  BY Kinds DEF Inv, ListenerEnds
<1>1. /\ todo' = [todo EXCEPT ![Listener] = listed]
      /\ UNCHANGED <<victim, listed, handle, closed, notified>>
  BY DEF ListenerEnds
<1>2. pc'[Listener] = "sweep" /\ \A u \in Threads \ {Listener} : pc'[u] = pc[u]
  BY <1>a DEF ListenerEnds, Goto, TypeOK
<1>3. Roles'
  BY <1>2, Kinds DEF Inv, Roles, Marking
<1>4. Reported'
  <2>1. \A d \in Clients : handle[d] => pc'[d] \notin {"absent", "connect", "handle"}
    BY <1>2, Kinds DEF Inv, Reported
  <2>2. \A u \in Closers : pc'[u] = "notify" => pc[u] = "notify"
    BY <1>2, Kinds
  <2> QED BY <1>1, <2>1, <2>2 DEF Inv, Reported
<1>5. \A d \in Clients : ~Streaming(d)'
  BY <1>a, <1>2, Kinds DEF Streaming
<1>6. todo'[Listener] = listed
  BY <1>a, <1>1 DEF TypeOK
<1>7. OpenIsListed' /\ NothingOutlivesListener' /\ Lasting'
  BY <1>1, <1>2, <1>5, <1>6 DEF OpenIsListed, NothingOutlivesListener, Lasting, Marking
<1> QED BY <1>3, <1>4, <1>7 DEF Inv

LEMMA InvNext == Inv /\ [Next]_vars => Inv'
<1> SUFFICES ASSUME Inv, [Next]_vars PROVE Inv'
  OBVIOUS
<1>a. TypeOK /\ TypeOK'
  BY TypedNext DEF Inv
<1> USE DEF stream, server, source
<1>1. ASSUME NEW c \in Clients, Register(c) PROVE Inv'
  BY <1>1, <1>a, RegisterKeepsInv
<1>2. ASSUME NEW c \in Clients, Serve(c) \/ Abandon(c) PROVE Inv'
  <2>a. c \in Threads /\ c # Listener
    BY Kinds
  <2>1. CASE Connect(c)
    BY <2>1, <1>a, StreamStep DEF Connect
  <2>2. CASE SetHandle(c)
    BY <2>2, <1>a, StreamStep DEF SetHandle, Serving
  <2>3. CASE Abandon(c) \/ Leave(c) \/ WriteFailed(c)
    <3>1. /\ Goto(c, "sweep") /\ pc[c] \in Serving /\ todo' = [todo EXCEPT ![c] = {c}]
          /\ UNCHANGED <<victim, listed, handle, notified>>
          /\ closed' = closed \/ closed' = [closed EXCEPT ![c] = TRUE]
      BY <2>3 DEF Abandon, Leave, WriteFailed, Release, Serving
    <3>2. todo'[Listener] = todo[Listener] /\ \A d \in Clients : closed[d] => closed'[d]
      BY <3>1, <2>a, <1>a, Kinds DEF TypeOK
    <3> QED BY <3>1, <3>2, <1>a, StreamStep
  <2>4. CASE Wait(c) \/ Timeout(c) \/ Drain(c) \/ Pop(c) \/ Drained(c) \/ WriteOk(c)
    <3>1. /\ \E label \in Serving : Goto(c, label)
          /\ pc[c] \in Serving
      BY <2>4 DEF Wait, Timeout, Drain, Pop, Drained, WriteOk, Serving
    <3>2. UNCHANGED <<todo, victim, listed, handle, closed, notified>>
      BY <2>4 DEF Wait, Timeout, Drain, Pop, Drained, WriteOk
    <3>3. "handle" \notin Serving
      BY DEF Serving
    <3> QED BY <3>1, <3>2, <3>3, <1>a, StreamStep
  <2> QED BY <1>2, <2>1, <2>2, <2>3, <2>4 DEF Serve
<1>3. ASSUME NEW t \in Closers, Mark(t) PROVE Inv'
  BY <1>3, <1>a, TryCloseKeepsInv, NotifyKeepsInv, EraseKeepsInv, SweptKeepsInv DEF Mark
<1>4. ASSUME NEW b \in Broadcasters, BeginBroadcast(b) \/ Broadcast(b) PROVE Inv'
  <2>1. /\ UNCHANGED <<victim, listed, handle, closed, notified>>
        /\ \A t \in Threads \ {b} : pc'[t] = pc[t] /\ todo'[t] = todo[t]
        /\ pc'[b] \in {"idle", "send"}
    BY <1>4, <1>a, Kinds
       DEF BeginBroadcast, Broadcast, PassOver, Deliver, EndBroadcast, Goto, TypeOK
  <2> QED BY <2>1, <1>a, Aside, Kinds DEF Inv, Roles
<1>5. CASE Stop \/ Halt \/ Collect
  <2>1. /\ UNCHANGED <<victim, listed, handle, closed, notified>>
        /\ \A t \in Threads \ {Owner} : pc'[t] = pc[t] /\ todo'[t] = todo[t]
        /\ pc'[Owner] \in {"halt", "collect", "sweep"}
    BY <1>5, <1>a, Kinds DEF Stop, Halt, Collect, Goto, TypeOK
  <2> QED BY <2>1, <1>a, Aside, Kinds DEF Inv, Roles
<1>6. CASE Destroy \/ ListenerEnds
  BY <1>6, <1>a, DestroyKeepsInv, ListenerEndsKeepsInv
<1>7. CASE UNCHANGED vars
  BY <1>7, <1>a, Aside DEF vars, Inv, Roles
<1> QED BY <1>1, <1>2, <1>3, <1>4, <1>5, <1>6, <1>7 DEF Next, Shutdown

(* sse_broadcast() misses no open stream: whoever takes a stream off the list
   closed it before, and sse_destroy() finds none that is open. *)
THEOREM OpenStreamsAreListed == Spec => []OpenIsListed
<1>1. Inv => OpenIsListed
  BY DEF Inv
<1> QED BY <1>1, InvInit, InvNext, PTL DEF Spec

-----------------------------------------------------------------------------
(* The counter.                                                            *)

(* The counter is the connections reported less the disconnects reported. *)
CountMatchesReports ==
  connected = Cardinality({c \in Clients : pc[c] \notin {"absent", "connect"} /\ c \notin notified})

(* The clients the server has been told of and has not been told off. *)
Present == {c \in Clients : pc[c] \notin {"absent", "connect"} /\ c \notin notified}

LEMMA PresentFinite == IsFiniteSet(Present) /\ Cardinality(Present) \in Nat
<1>1. Present \in SUBSET Clients
  BY DEF Present
<1> QED BY <1>1, FS_Subset, FS_CardinalityType

LEMMA CountInit == Init => CountMatchesReports
<1> SUFFICES ASSUME Init PROVE CountMatchesReports
  OBVIOUS
<1>1. Present = {}
  BY DEF Init, Present, Threads, Closers
<1> QED BY <1>1, FS_EmptySet DEF Init, CountMatchesReports, Present

(* A step that neither connects nor reports a client leaves the counter. *)
LEMMA CountStays ==
  ASSUME CountMatchesReports, UNCHANGED <<connected, notified>>,
         \A c \in Clients : pc'[c] \in {"absent", "connect"} <=> pc[c] \in {"absent", "connect"}
  PROVE  CountMatchesReports'
<1>1. Present' = Present
  BY DEF Present
<1> QED BY <1>1 DEF CountMatchesReports, Present

LEMMA CountNext == Inv /\ CountMatchesReports /\ [Next]_vars => CountMatchesReports'
<1> SUFFICES ASSUME Inv, CountMatchesReports, [Next]_vars PROVE CountMatchesReports'
  OBVIOUS
<1>a. TypeOK /\ connected = Cardinality(Present) /\ connected \in Nat
  BY DEF Inv, CountMatchesReports, Present, TypeOK
<1> USE DEF stream, server, source
<1>1. ASSUME NEW c \in Clients, Register(c) PROVE CountMatchesReports'
  BY <1>1, <1>a, CountStays, Kinds DEF Register, Goto, TypeOK
<1>2. ASSUME NEW c \in Clients, Connect(c) PROVE CountMatchesReports'
  <2>1. c \notin notified
    BY <1>2 DEF Inv, Reported, Connect
  <2>2. Present' = Present \cup {c} /\ c \notin Present
    BY <1>2, <1>a, <2>1, Kinds DEF Connect, Goto, Present, TypeOK
  <2>3. Cardinality(Present') = Cardinality(Present) + 1
    BY <2>2, PresentFinite, FS_AddElement
  <2> QED BY <1>2, <1>a, <2>3 DEF Connect, CountMatchesReports, Present
<1>3. ASSUME NEW c \in Clients, (Serve(c) /\ ~Connect(c)) \/ Abandon(c) PROVE CountMatchesReports'
  <2>1. UNCHANGED <<connected, notified>> /\ pc[c] \notin {"absent", "connect"}
    BY <1>3 DEF Serve, SetHandle, Abandon, Leave, WriteFailed, Wait, Timeout, Drain, Pop, Drained,
       WriteOk
  <2>2. \E label : Goto(c, label) /\ label \notin {"absent", "connect"}
    <3>1. CASE SetHandle(c) \/ Abandon(c) \/ Leave(c) \/ WriteFailed(c)
      BY <3>1 DEF SetHandle, Abandon, Leave, WriteFailed, Release
    <3>2. CASE Wait(c) \/ Timeout(c) \/ Drain(c) \/ Pop(c) \/ Drained(c)
      BY <3>2 DEF Wait, Timeout, Drain, Pop, Drained
    <3>3. CASE WriteOk(c)
      BY <3>3 DEF WriteOk
    <3> QED BY <1>3, <3>1, <3>2, <3>3 DEF Serve
  <2>3. \A d \in Clients : pc'[d] \in {"absent", "connect"} <=> pc[d] \in {"absent", "connect"}
    BY <1>a, <2>1, <2>2, Kinds DEF Goto, TypeOK
  <2> QED BY <2>1, <2>3, CountStays
<1>4. ASSUME NEW t \in Closers, TryClose(t) \/ Erase(t) \/ Swept(t) PROVE CountMatchesReports'
  <2>1. UNCHANGED <<connected, notified>> /\ pc[t] \notin {"absent", "connect"}
    BY <1>4 DEF TryClose, Erase, Swept
  <2>2. pc' = pc \/ \E label : Goto(t, label) /\ label \notin {"absent", "connect"}
    BY <1>4 DEF TryClose, Erase, Swept
  <2>3. \A d \in Clients : pc'[d] \in {"absent", "connect"} <=> pc[d] \in {"absent", "connect"}
    BY <1>a, <2>1, <2>2, Kinds DEF Goto, TypeOK
  <2> QED BY <2>1, <2>3, CountStays
<1>5. ASSUME NEW t \in Closers, Notify(t) PROVE CountMatchesReports'
  <2>1. \A d \in Clients : pc'[d] \in {"absent", "connect"} <=> pc[d] \in {"absent", "connect"}
    BY <1>5, <1>a, Kinds DEF Notify, Goto, TypeOK
  <2>2. PICK c \in victim[t] :
          \/ /\ handle[c]
             /\ connected' = IF connected > 0 THEN connected - 1 ELSE 0
             /\ notified' = notified \cup {c}
          \/ ~handle[c] /\ UNCHANGED <<connected, notified>>
    BY <1>5 DEF Notify
  <2>3. CASE handle[c]
    <3>1. /\ connected' = IF connected > 0 THEN connected - 1 ELSE 0
          /\ notified' = notified \cup {c}
      BY <2>2, <2>3
    <3>2. /\ c \in Clients /\ c \notin notified
          /\ pc[c] \notin {"absent", "connect"}
      BY <1>5, <1>a, <2>2, <2>3 DEF Notify, Inv, Reported, TypeOK
    <3>3. Present' = Present \ {c} /\ c \in Present
      BY <2>1, <3>1, <3>2 DEF Present
    <3>4. Cardinality(Present') = Cardinality(Present) - 1 /\ Cardinality(Present') \in Nat
      BY <3>3, PresentFinite, FS_RemoveElement, FS_CardinalityType
    <3>5. connected' = Cardinality(Present')
      BY <1>a, <3>1, <3>4
    <3> QED BY <3>5 DEF CountMatchesReports, Present
  <2>4. CASE ~handle[c]
    BY <2>1, <2>2, <2>4, CountStays
  <2> QED BY <2>3, <2>4
<1>6. ASSUME NEW b \in Broadcasters, BeginBroadcast(b) \/ Broadcast(b) PROVE CountMatchesReports'
  <2>1. UNCHANGED <<connected, notified>> /\ \A c \in Clients : pc'[c] = pc[c]
    BY <1>6, <1>a, Kinds
       DEF BeginBroadcast, Broadcast, PassOver, Deliver, EndBroadcast, Goto, TypeOK
  <2> QED BY <2>1, CountStays
<1>7. CASE Stop \/ Shutdown \/ ListenerEnds \/ UNCHANGED vars
  <2>1. UNCHANGED <<connected, notified>> /\ \A c \in Clients : pc'[c] = pc[c]
    BY <1>7, <1>a, Kinds
       DEF Stop, Shutdown, Halt, Collect, Destroy, ListenerEnds, Goto, vars, TypeOK
  <2> QED BY <2>1, CountStays
<1> QED BY <1>1, <1>2, <1>3, <1>4, <1>5, <1>6, <1>7 DEF Next, Mark, Serve

(* A client that is still current has not been reported. *)
LEMMA CurrentArePresent == Inv => Current \subseteq Present
  BY DEF Inv, Reported, Current, Counted, BeingReported, Present

(* mcp_server_clients_count(): however worker, listener and owner race to
   close the streams, and whatever writes fail, every open stream is in the
   count. *)
THEOREM NoOpenStreamIsMissed == Spec => [](connected >= Cardinality(Current))
<1>1. Inv /\ CountMatchesReports => connected >= Cardinality(Current)
  <2> SUFFICES ASSUME Inv, CountMatchesReports PROVE connected >= Cardinality(Current)
    OBVIOUS
  <2>1. Cardinality(Current) <= Cardinality(Present) /\ IsFiniteSet(Current)
    BY CurrentArePresent, PresentFinite, FS_Subset
  <2>2. Cardinality(Current) \in Nat /\ connected = Cardinality(Present)
    BY <2>1, FS_CardinalityType DEF CountMatchesReports, Present
  <2> QED BY <2>1, <2>2, PresentFinite
<1> QED BY <1>1, InvInit, InvNext, CountInit, CountNext, PTL DEF Spec

(* Until the transport stops only a stream's own worker closes it, after its
   handle was set, and as long as writes succeed it reports what it closed. *)
Covered ==
  ~stopping =>
    /\ pc[Owner] = "up" /\ pc[Listener] = "listen" /\ accepting
    /\ \A c \in Clients :
         /\ pc[c] \in Serving \cup Marking => handle[c]
         /\ pc[c] \in Marking => todo[c] \subseteq {c}
         /\ victim[c] \subseteq {c}
         /\ closed[c] => c \in notified \/ (pc[c] = "notify" /\ c \in victim[c])

LEMMA CoveredInit == Init => Covered
  BY Kinds DEF Init, Covered, Serving, Marking

(* A step of threads that close nothing. *)
LEMMA CoveredStays ==
  ASSUME Inv, Covered, NEW c \in Clients,
         UNCHANGED <<stopping, accepting, victim, closed, notified>>,
         \A t \in Closers \ {c} : pc'[t] = pc[t] /\ todo'[t] = todo[t],
         \A d \in Clients : handle[d] => handle'[d],
         pc[c] # "notify" \/ pc'[c] = pc[c],
         pc'[c] \in Serving \cup Marking => handle'[c] \/ pc[c] \in Serving \cup Marking,
         pc'[c] \in Marking => todo'[c] \subseteq {c} \/ (pc[c] \in Marking /\ todo'[c] = todo[c])
  PROVE  Covered'
<1> SUFFICES ASSUME ~stopping PROVE Covered'
  BY DEF Covered
<1>1. pc'[Owner] = "up" /\ pc'[Listener] = "listen" /\ accepting'
  BY Kinds DEF Covered
<1>2. ASSUME NEW d \in Clients
      PROVE  /\ pc'[d] \in Serving \cup Marking => handle'[d]
             /\ pc'[d] \in Marking => todo'[d] \subseteq {d}
             /\ victim'[d] \subseteq {d}
             /\ closed'[d] => d \in notified' \/ (pc'[d] = "notify" /\ d \in victim'[d])
  <2>1. CASE d = c
    BY <2>1 DEF Covered
  <2>2. CASE d # c
    BY <2>2, Kinds DEF Covered
  <2> QED BY <2>1, <2>2
<1> QED BY <1>1, <1>2 DEF Covered

LEMMA StopIsFinal == [Next]_vars => (stopping => stopping')
<1> SUFFICES ASSUME [Next]_vars, stopping PROVE stopping'
  OBVIOUS
<1> USE DEF server
<1>1. ASSUME NEW c \in Clients, Register(c) \/ Serve(c) \/ Abandon(c) PROVE stopping'
  BY <1>1 DEF Register, Serve, Connect, SetHandle, Wait, Timeout, Leave, Drain, Pop, Drained,
     WriteOk, WriteFailed, Abandon
<1>2. ASSUME NEW t \in Closers, Mark(t) PROVE stopping'
  BY <1>2 DEF Mark, TryClose, Notify, Erase, Swept
<1>3. ASSUME NEW b \in Broadcasters, BeginBroadcast(b) \/ Broadcast(b) PROVE stopping'
  BY <1>3 DEF BeginBroadcast, Broadcast, PassOver, Deliver, EndBroadcast
<1>4. CASE Stop \/ Shutdown \/ ListenerEnds \/ UNCHANGED vars
  BY <1>4 DEF Stop, Shutdown, Halt, Collect, Destroy, ListenerEnds, vars
<1> QED BY <1>1, <1>2, <1>3, <1>4 DEF Next

LEMMA CoveredNext ==
  ASSUME WritesFail = FALSE
  PROVE  Inv /\ Covered /\ [Next]_vars => Covered'
<1> SUFFICES ASSUME Inv, Covered, [Next]_vars, ~stopping PROVE Covered'
  BY StopIsFinal DEF Covered
<1> USE DEF stream, server, source
<1>a. TypeOK /\ pc[Owner] = "up" /\ pc[Listener] = "listen" /\ accepting
  BY DEF Inv, Covered
<1>1. ASSUME NEW c \in Clients, Register(c) \/ (Serve(c) \/ Abandon(c)) PROVE Covered'
  <2>a. c \in Threads /\ c \in Closers
    BY Kinds
  <2>1. UNCHANGED <<stopping, accepting, victim, closed, notified>>
    BY <1>1 DEF Register, Serve, Connect, SetHandle, Wait, Timeout, Leave, Drain, Pop, Drained,
       WriteOk, WriteFailed, Abandon
  <2>2. \A t \in Closers \ {c} : pc'[t] = pc[t] /\ todo'[t] = todo[t]
    BY <1>1, <1>a, Kinds DEF Register, Serve, Connect, SetHandle, Wait, Timeout, Leave, Drain, Pop,
       Drained, WriteOk, WriteFailed, Abandon, Release, Goto, TypeOK
  <2>3. pc[c] # "notify"
    BY <1>1 DEF Register, Serve, Connect, SetHandle, Wait, Timeout, Leave, Drain, Pop, Drained,
       WriteOk, WriteFailed, Abandon
  <2>4. CASE Register(c) \/ Connect(c)
    <3>1. pc'[c] \in {"connect", "handle"} /\ UNCHANGED handle
      BY <2>4, <2>a, <1>a DEF Register, Connect, Goto, TypeOK
    <3> QED BY <3>1, <2>1, <2>2, <2>3, CoveredStays DEF Serving, Marking
  <2>5. CASE SetHandle(c)
    <3>1. pc'[c] = "enter" /\ handle'[c] /\ \A d \in Clients : handle[d] => handle'[d]
      BY <2>5, <2>a, <1>a DEF SetHandle, Goto, TypeOK
    <3> QED BY <3>1, <2>1, <2>2, <2>3, CoveredStays DEF Serving, Marking
  <2>6. CASE Abandon(c) \/ Leave(c)
    <3>1. todo'[c] = {c} /\ UNCHANGED handle /\ pc[c] \in Serving
      BY <2>6, <2>a, <1>a DEF Abandon, Leave, Release, TypeOK, Serving
    <3> QED BY <3>1, <2>1, <2>2, <2>3, CoveredStays
  <2>7. CASE Wait(c) \/ Timeout(c) \/ Drain(c) \/ Pop(c) \/ Drained(c) \/ WriteOk(c)
    <3>1. UNCHANGED handle /\ pc[c] \in Serving
      BY <2>7 DEF Wait, Timeout, Drain, Pop, Drained, WriteOk, Serving
    <3>2. pc'[c] \in Serving
      BY <2>7, <2>a, <1>a DEF Wait, Timeout, Drain, Pop, Drained, WriteOk, Serving, Goto, TypeOK
    <3>3. pc'[c] \notin Marking
      BY <3>2 DEF Serving, Marking
    <3> QED BY <3>1, <3>3, <2>1, <2>2, <2>3, CoveredStays
  <2> QED BY <1>1, <2>4, <2>5, <2>6, <2>7 DEF Serve, WriteFailed
<1>2. ASSUME NEW t \in Closers, Mark(t) PROVE Covered'
  <2>a. t \in Clients /\ t \in Threads
    <3>1. pc[t] \in Marking
      BY <1>2 DEF Mark, TryClose, Notify, Erase, Swept, Marking
    <3> QED BY <3>1, <1>a, Kinds DEF Marking
  <2>b. pc[t] \in Marking /\ handle[t] /\ todo[t] \subseteq {t} /\ victim[t] \subseteq {t}
    BY <1>2, <2>a DEF Mark, TryClose, Notify, Erase, Swept, Marking, Covered
  <2>c. UNCHANGED <<stopping, accepting, handle>>
    BY <1>2 DEF Mark, TryClose, Notify, Erase, Swept
  <2>d. \A u \in Closers \ {t} : pc'[u] = pc[u] /\ todo'[u] = todo[u] /\ victim'[u] = victim[u]
    BY <1>2, <1>a, Kinds DEF Mark, TryClose, Notify, Erase, Swept, Goto, TypeOK
  <2>1. pc'[Owner] = "up" /\ pc'[Listener] = "listen"
    BY <2>a, <2>d, <1>a, Kinds
  <2>2. /\ todo'[t] \subseteq {t} /\ victim'[t] \subseteq {t}
        /\ closed'[t] => t \in notified' \/ (pc'[t] = "notify" /\ t \in victim'[t])
        /\ \A d \in Clients \ {t} : closed'[d] = closed[d] /\ (d \in notified => d \in notified')
    <3>1. CASE TryClose(t)
      <4>1. PICK c \in todo[t] :
              /\ todo' = [todo EXCEPT ![t] = @ \ {c}]
              /\ \/ closed[c] /\ UNCHANGED <<pc, victim, closed>>
                 \/ /\ ~closed[c]
                    /\ closed' = [closed EXCEPT ![c] = TRUE]
                    /\ victim' = [victim EXCEPT ![t] = {c}]
                    /\ Goto(t, "notify")
        BY <3>1 DEF TryClose
      <4>2. c = t /\ pc[t] = "sweep" /\ UNCHANGED notified
        BY <2>b, <3>1, <4>1 DEF TryClose
      <4>3. CASE UNCHANGED <<pc, victim, closed>>
        BY <4>1, <4>2, <4>3, <2>a, <2>b, <1>a DEF Covered, TypeOK
      <4>4. CASE closed' = [closed EXCEPT ![c] = TRUE] /\ victim' = [victim EXCEPT ![t] = {c}] /\ Goto(t, "notify")
        BY <4>1, <4>2, <4>4, <2>a, <2>b, <1>a DEF Goto, TypeOK
      <4> QED BY <4>1, <4>3, <4>4
    <3>2. CASE Notify(t)
      <4>1. t \in victim[t] /\ notified' = notified \cup {t} /\ UNCHANGED <<todo, victim, closed>>
        BY <3>2, <2>b DEF Notify
      <4> QED BY <4>1, <2>b
    <3>3. CASE Erase(t)
      <4>1. pc[t] = "erase" /\ victim'[t] = {} /\ UNCHANGED <<todo, closed, notified>>
        BY <3>3, <1>a DEF Erase, TypeOK
      <4> QED BY <4>1, <2>a, <2>b DEF Covered
    <3>4. CASE Swept(t)
      <4>1. pc[t] = "sweep" /\ UNCHANGED <<todo, victim, closed, notified>>
        BY <3>4 DEF Swept
      <4> QED BY <4>1, <2>a, <2>b DEF Covered
    <3> QED BY <1>2, <3>1, <3>2, <3>3, <3>4 DEF Mark
  <2>3. ASSUME NEW d \in Clients
        PROVE  /\ pc'[d] \in Serving \cup Marking => handle'[d]
               /\ pc'[d] \in Marking => todo'[d] \subseteq {d}
               /\ victim'[d] \subseteq {d}
               /\ closed'[d] => d \in notified' \/ (pc'[d] = "notify" /\ d \in victim'[d])
    <3>1. CASE d = t
      BY <3>1, <2>b, <2>c, <2>2
    <3>2. CASE d # t
      BY <3>2, <2>c, <2>d, <2>2, Kinds DEF Covered
    <3> QED BY <3>1, <3>2
  <2> QED BY <1>a, <2>c, <2>1, <2>3 DEF Covered
<1>3. ASSUME NEW b \in Broadcasters, BeginBroadcast(b) \/ Broadcast(b) PROVE Covered'
  <2>1. /\ UNCHANGED <<stopping, accepting, victim, handle, closed, notified>>
        /\ \A t \in Threads \ {b} : pc'[t] = pc[t] /\ todo'[t] = todo[t]
    BY <1>3, <1>a, Kinds
       DEF BeginBroadcast, Broadcast, PassOver, Deliver, EndBroadcast, Goto, TypeOK
  <2> QED BY <2>1, Kinds DEF Covered
<1>4. CASE Stop
  BY <1>4 DEF Stop, Covered
<1>5. CASE Shutdown \/ ListenerEnds
  BY <1>5, <1>a DEF Shutdown, Halt, Collect, Destroy, ListenerEnds
<1>6. CASE UNCHANGED vars
  BY <1>6 DEF vars, Covered
<1> QED BY <1>1, <1>2, <1>3, <1>4, <1>5, <1>6 DEF Next

(* mcp_server_clients_count(): as long as writes succeed, the count misses no
   open stream and, until the transport stops, keeps none that is gone,
   whichever thread wins the race to close a stream. *)
THEOREM CounterIsOfTheOpen ==
  ASSUME WritesFail = FALSE
  PROVE  Spec => []CountIsOfTheOpen
<1>1. Inv /\ Covered /\ CountMatchesReports => (~stopping => connected = Cardinality(Current))
  <2> SUFFICES ASSUME Inv, Covered, CountMatchesReports, ~stopping
               PROVE  connected = Cardinality(Current)
    OBVIOUS
  <2>1. Present \subseteq Current
    BY Kinds DEF Covered, Present, Current, Counted, BeingReported
  <2>2. Present = Current
    BY <2>1, CurrentArePresent
  <2> QED BY <2>2 DEF CountMatchesReports, Present
<1>2. (connected >= Cardinality(Current)) /\ (~stopping => connected = Cardinality(Current))
        => CountIsOfTheOpen
  BY DEF CountIsOfTheOpen
<1> QED BY <1>1, <1>2, NoOpenStreamIsMissed, InvInit, InvNext, CountInit, CountNext,
           CoveredInit, CoveredNext, PTL DEF Spec

-----------------------------------------------------------------------------
(* The order of events.                                                    *)

Before(x, y) == x.by = y.by => x.number < y.number
Rising(s) == \A i, j \in 1 .. Len(s) : i < j => Before(s[i], s[j])
Ahead(s, r) == \A i \in 1 .. Len(s), j \in 1 .. Len(r) : Before(s[i], r[j])
Below(s, b, n) == \A i \in 1 .. Len(s) : s[i].by = b => s[i].number < n

(* What a stream was sent, what its worker holds and what waits for it. *)
Chained ==
  \A c \in Clients :
    /\ Rising(sent[c]) /\ Rising(flight[c]) /\ Rising(pending[c])
    /\ Ahead(sent[c], flight[c]) /\ Ahead(sent[c], pending[c]) /\ Ahead(flight[c], pending[c])

(* A stream has nothing of a broadcaster from here on: its current event if
   that is still to be delivered, else the next one. *)
Limit ==
  [b \in Broadcasters |-> [c \in Clients |->
     IF pc[b] = "send" /\ c \in todo[b] THEN message[b].number ELSE message[b].number + 1]]

Fresh ==
  /\ \A b \in Broadcasters : message[b].by = b /\ message[b].number <= events
  /\ \A b \in Broadcasters, c \in Clients :
       /\ Below(sent[c], b, Limit[b][c])
       /\ Below(flight[c], b, Limit[b][c])
       /\ Below(pending[c], b, Limit[b][c])

LEMMA Nothing ==
  ASSUME NEW s \in Seq(Event), NEW b
  PROVE  /\ Rising(<< >>) /\ Ahead(s, << >>) /\ Ahead(<< >>, s)
         /\ \A n : Below(<< >>, b, n)
  BY DEF Rising, Ahead, Below

LEMMA FirstAndRest ==
  ASSUME NEW s \in Seq(Event), s # << >>
  PROVE  /\ Tail(s) \in Seq(Event) /\ <<Head(s)>> \in Seq(Event)
         /\ Len(<<Head(s)>>) = 1 /\ <<Head(s)>>[1] = s[1]
         /\ Len(s) \in Nat /\ Len(s) >= 1 /\ Len(Tail(s)) = Len(s) - 1
         /\ \A i \in 1 .. Len(Tail(s)) : Tail(s)[i] = s[i + 1]
<1> DEFINE Kind == Event
<1>1. s \in Seq(Kind)
  OBVIOUS
<1> HIDE DEF Kind
<1>2. /\ Tail(s) \in Seq(Kind) /\ Head(s) \in Kind /\ Head(s) = s[1]
      /\ Len(s) \in Nat /\ Len(s) >= 1 /\ Len(Tail(s)) = Len(s) - 1
      /\ \A i \in 1 .. Len(Tail(s)) : Tail(s)[i] = s[i + 1]
  BY <1>1
<1>3. <<Head(s)>> \in Seq(Kind) /\ Len(<<Head(s)>>) = 1 /\ <<Head(s)>>[1] = s[1]
  BY <1>2
<1> QED BY <1>2, <1>3 DEF Kind

(* Taking the first event keeps the order, and it is ahead of the rest. *)
LEMMA TakenInOrder ==
  ASSUME NEW s \in Seq(Event), NEW r \in Seq(Event), s # << >>
  PROVE  /\ Rising(s) => Rising(Tail(s)) /\ Rising(<<Head(s)>>) /\ Ahead(<<Head(s)>>, Tail(s))
         /\ Ahead(r, s) => Ahead(r, Tail(s)) /\ Ahead(r, <<Head(s)>>)
         /\ \A b, n : Below(s, b, n) => Below(Tail(s), b, n) /\ Below(<<Head(s)>>, b, n)
<1>1. /\ Len(<<Head(s)>>) = 1 /\ <<Head(s)>>[1] = s[1]
      /\ Len(s) \in Nat /\ Len(s) >= 1 /\ Len(Tail(s)) = Len(s) - 1
      /\ \A i \in 1 .. Len(Tail(s)) : Tail(s)[i] = s[i + 1]
  BY FirstAndRest
<1>2. \A i \in 1 .. Len(Tail(s)) : i + 1 \in 1 .. Len(s) /\ 1 < i + 1
  BY <1>1
<1>3. Rising(s) => Rising(Tail(s)) /\ Rising(<<Head(s)>>) /\ Ahead(<<Head(s)>>, Tail(s))
  <2> SUFFICES ASSUME Rising(s)
               PROVE  Rising(Tail(s)) /\ Rising(<<Head(s)>>) /\ Ahead(<<Head(s)>>, Tail(s))
    OBVIOUS
  <2>1. \A i, j \in 1 .. Len(Tail(s)) : i < j => Before(Tail(s)[i], Tail(s)[j])
    BY <1>1, <1>2 DEF Rising
  <2>2. \A j \in 1 .. Len(Tail(s)) : Before(s[1], Tail(s)[j])
    BY <1>1, <1>2 DEF Rising
  <2>3. \A i, j \in 1 .. Len(<<Head(s)>>) : ~(i < j)
    BY <1>1
  <2> QED BY <1>1, <2>1, <2>2, <2>3 DEF Rising, Ahead
<1>4. Ahead(r, s) => Ahead(r, Tail(s)) /\ Ahead(r, <<Head(s)>>)
  BY <1>1, <1>2 DEF Ahead
<1>5. \A b, n : Below(s, b, n) => Below(Tail(s), b, n) /\ Below(<<Head(s)>>, b, n)
  BY <1>1, <1>2 DEF Below
<1> QED BY <1>3, <1>4, <1>5

(* Two queues one after the other. *)
LEMMA Joined ==
  ASSUME NEW s \in Seq(Event), NEW r \in Seq(Event), NEW p \in Seq(Event)
  PROVE  /\ Rising(s) /\ Rising(r) /\ Ahead(s, r) => Rising(s \o r)
         /\ Ahead(s, p) /\ Ahead(r, p) => Ahead(s \o r, p)
         /\ \A b, n : Below(s, b, n) /\ Below(r, b, n) => Below(s \o r, b, n)
<1>1. /\ Len(s) \in Nat /\ Len(r) \in Nat /\ Len(s \o r) = Len(s) + Len(r)
      /\ \A i \in 1 .. Len(s \o r) : (s \o r)[i] = IF i <= Len(s) THEN s[i] ELSE r[i - Len(s)]
  <2> DEFINE Kind == Event
  <2>1. s \in Seq(Kind) /\ r \in Seq(Kind)
    OBVIOUS
  <2> HIDE DEF Kind
  <2> QED BY <2>1
<1>2. \A i \in 1 .. Len(s \o r) :
        \/ i \in 1 .. Len(s) /\ (s \o r)[i] = s[i]
        \/ i - Len(s) \in 1 .. Len(r) /\ (s \o r)[i] = r[i - Len(s)]
  BY <1>1
<1>3. Rising(s) /\ Rising(r) /\ Ahead(s, r) => Rising(s \o r)
  <2> SUFFICES ASSUME Rising(s), Rising(r), Ahead(s, r),
                      NEW i \in 1 .. Len(s \o r), NEW j \in 1 .. Len(s \o r), i < j
               PROVE  Before((s \o r)[i], (s \o r)[j])
    BY DEF Rising
  <2>1. CASE j <= Len(s)
    BY <1>1, <2>1 DEF Rising
  <2>2. CASE i <= Len(s) /\ ~(j <= Len(s))
    <3>1. i \in 1 .. Len(s) /\ j - Len(s) \in 1 .. Len(r)
      BY <1>1, <2>2
    <3> QED BY <1>1, <2>2, <3>1 DEF Ahead
  <2>3. CASE ~(i <= Len(s))
    <3>1. i - Len(s) \in 1 .. Len(r) /\ j - Len(s) \in 1 .. Len(r) /\ i - Len(s) < j - Len(s)
      BY <1>1, <2>3
    <3>2. (s \o r)[i] = r[i - Len(s)] /\ (s \o r)[j] = r[j - Len(s)]
      BY <1>1, <2>3
    <3> QED BY <3>1, <3>2 DEF Rising
  <2> QED BY <1>1, <2>1, <2>2, <2>3
<1>4. Ahead(s, p) /\ Ahead(r, p) => Ahead(s \o r, p)
  BY <1>2 DEF Ahead
<1>5. \A b, n : Below(s, b, n) /\ Below(r, b, n) => Below(s \o r, b, n)
  BY <1>2 DEF Below
<1> QED BY <1>3, <1>4, <1>5

(* One more event at the end of a queue. *)
LEMMA Queued ==
  ASSUME NEW s \in Seq(Event), NEW r \in Seq(Event), NEW e \in Event
  PROVE  /\ Rising(s) /\ Below(s, e.by, e.number) => Rising(Append(s, e))
         /\ Ahead(r, s) /\ Below(r, e.by, e.number) => Ahead(r, Append(s, e))
         /\ \A b, n : Below(s, b, n) /\ (e.by = b => e.number < n) => Below(Append(s, e), b, n)
<1>1. /\ Len(s) \in Nat /\ Len(Append(s, e)) = Len(s) + 1
      /\ \A i \in 1 .. Len(s) : Append(s, e)[i] = s[i]
      /\ Append(s, e)[Len(s) + 1] = e
  <2> DEFINE Kind == Event
  <2>1. s \in Seq(Kind) /\ e \in Kind
    OBVIOUS
  <2> HIDE DEF Kind
  <2> QED BY <2>1
<1>2. \A i \in 1 .. Len(Append(s, e)) :
        \/ i \in 1 .. Len(s) /\ Append(s, e)[i] = s[i]
        \/ i = Len(s) + 1 /\ Append(s, e)[i] = e
  BY <1>1
<1>3. Rising(s) /\ Below(s, e.by, e.number) => Rising(Append(s, e))
  <2> SUFFICES ASSUME Rising(s), Below(s, e.by, e.number),
                      NEW i \in 1 .. Len(Append(s, e)), NEW j \in 1 .. Len(Append(s, e)), i < j
               PROVE  Before(Append(s, e)[i], Append(s, e)[j])
    BY DEF Rising
  <2>1. i \in 1 .. Len(s) /\ Append(s, e)[i] = s[i]
    BY <1>1, <1>2
  <2>2. CASE j \in 1 .. Len(s) /\ Append(s, e)[j] = s[j]
    BY <2>1, <2>2 DEF Rising
  <2>3. CASE Append(s, e)[j] = e
    BY <2>1, <2>3 DEF Below, Before
  <2> QED BY <1>2, <2>2, <2>3
<1>4. Ahead(r, s) /\ Below(r, e.by, e.number) => Ahead(r, Append(s, e))
  BY <1>2 DEF Ahead, Below, Before
<1>5. \A b, n : Below(s, b, n) /\ (e.by = b => e.number < n) => Below(Append(s, e), b, n)
  BY <1>2 DEF Below
<1> QED BY <1>3, <1>4, <1>5

LEMMA BelowMore ==
  ASSUME NEW s \in Seq(Event), NEW b, NEW m \in Int, NEW n \in Int, m <= n, Below(s, b, m)
  PROVE  Below(s, b, n)
<1>1. \A i \in 1 .. Len(s) : s[i] \in Event
  <2> DEFINE Kind == Event
  <2>1. s \in Seq(Kind)
    OBVIOUS
  <2> HIDE DEF Kind
  <2>2. \A i \in 1 .. Len(s) : s[i] \in Kind
    BY <2>1
  <2> QED BY <2>2 DEF Kind
<1>2. \A i \in 1 .. Len(s) : s[i].number \in Int
  BY <1>1 DEF Event
<1> QED BY <1>2 DEF Below

LEMMA LimitType == TypeOK => \A b \in Broadcasters, c \in Clients : Limit[b][c] \in Nat
  BY DEF TypeOK, Limit, Event

LEMMA OrderInit == Init => Chained /\ Fresh
<1> SUFFICES ASSUME Init PROVE Chained /\ Fresh
  OBVIOUS
<1>1. << >> \in Seq(Event)
  OBVIOUS
<1>2. \A c \in Clients : sent[c] = << >> /\ flight[c] = << >> /\ pending[c] = << >>
  BY DEF Init
<1>3. Chained
  BY <1>1, <1>2, Nothing DEF Chained
<1>4. \A b, n : Below(<< >>, b, n)
  BY <1>1, Nothing
<1>5. \A b \in Broadcasters : message[b].by = b /\ message[b].number <= events
  BY DEF Init
<1>6. Fresh
  BY <1>2, <1>4, <1>5 DEF Fresh
<1> QED BY <1>3, <1>6

(* A step that queues nothing and begins no broadcast. *)
LEMMA OrderStays ==
  ASSUME TypeOK, TypeOK', Chained, Fresh, UNCHANGED source,
         \A b \in Broadcasters : \A c \in Clients :
           pc'[b] = "send" /\ c \in todo'[b] => pc[b] = "send" /\ c \in todo[b],
         UNCHANGED stream
  PROVE  Chained' /\ Fresh'
<1> USE DEF source, stream
<1>1. Chained'
  BY DEF Chained
<1>2. \A b \in Broadcasters, c \in Clients : Limit[b][c] <= Limit'[b][c]
  BY DEF TypeOK, Limit, Event
<1>3. \A b \in Broadcasters, c \in Clients : Limit[b][c] \in Int /\ Limit'[b][c] \in Int
  <2>1. \A b \in Broadcasters, c \in Clients : Limit'[b][c] \in Nat
    BY DEF TypeOK, Limit, Event
  <2> QED BY <2>1, LimitType
<1>4. \A c \in Clients : sent[c] \in Seq(Event) /\ flight[c] \in Seq(Event) /\ pending[c] \in Seq(Event)
  BY DEF TypeOK
<1>5. \A b \in Broadcasters, c \in Clients :
        /\ Below(sent[c], b, Limit'[b][c])
        /\ Below(flight[c], b, Limit'[b][c])
        /\ Below(pending[c], b, Limit'[b][c])
  BY <1>2, <1>3, <1>4, BelowMore DEF Fresh
<1>6. Fresh'
  BY <1>5 DEF Fresh
<1> QED BY <1>1, <1>6

(* A step of one stream's worker that writes, takes or drops events. *)
LEMMA OrderFlows ==
  ASSUME TypeOK, Chained, Fresh, NEW c \in Clients,
         UNCHANGED source,
         \A b \in Broadcasters : pc'[b] = pc[b] /\ todo'[b] = todo[b],
         \A d \in Clients \ {c} : sent'[d] = sent[d] /\ flight'[d] = flight[d] /\ pending'[d] = pending[d],
         Rising(sent'[c]), Rising(flight'[c]), Rising(pending'[c]),
         Ahead(sent'[c], flight'[c]), Ahead(sent'[c], pending'[c]), Ahead(flight'[c], pending'[c]),
         \A b \in Broadcasters :
           /\ Below(sent'[c], b, Limit[b][c])
           /\ Below(flight'[c], b, Limit[b][c])
           /\ Below(pending'[c], b, Limit[b][c])
  PROVE  Chained' /\ Fresh'
<1>1. Limit' = Limit
  BY DEF Limit, source
<1>2. Chained'
  BY DEF Chained
<1>3. Fresh'
  BY <1>1 DEF Fresh, source
<1> QED BY <1>2, <1>3

LEMMA OrderNext == Inv /\ Chained /\ Fresh /\ [Next]_vars => Chained' /\ Fresh'
<1> SUFFICES ASSUME Inv, Chained, Fresh, [Next]_vars PROVE Chained' /\ Fresh'
  OBVIOUS
<1>a. TypeOK /\ TypeOK'
  BY TypedNext DEF Inv
<1>b. \A c \in Clients : sent[c] \in Seq(Event) /\ flight[c] \in Seq(Event) /\ pending[c] \in Seq(Event)
  BY <1>a DEF TypeOK
<1> USE DEF stream, source, server
<1>1. ASSUME NEW c \in Clients, Pop(c) PROVE Chained' /\ Fresh'
  <2>1. pending[c] # << >> /\ \A b \in Broadcasters : pc'[b] = pc[b] /\ todo'[b] = todo[b]
    BY <1>1, <1>a, Kinds DEF Pop, Goto, TypeOK
  <2>2. /\ flight'[c] = <<Head(pending[c])>> /\ pending'[c] = Tail(pending[c]) /\ sent'[c] = sent[c]
        /\ \A d \in Clients \ {c} : sent'[d] = sent[d] /\ flight'[d] = flight[d] /\ pending'[d] = pending[d]
    BY <1>1, <1>a DEF Pop, TypeOK
  <2>3. /\ Rising(flight'[c]) /\ Rising(pending'[c]) /\ Ahead(flight'[c], pending'[c])
        /\ Ahead(sent[c], flight'[c]) /\ Ahead(sent[c], pending'[c])
    BY <1>b, <2>1, <2>2, TakenInOrder DEF Chained
  <2>4. \A b \in Broadcasters : /\ Below(sent[c], b, Limit[b][c])
                                /\ Below(flight'[c], b, Limit[b][c])
                                /\ Below(pending'[c], b, Limit[b][c])
    <3>1. \A b, n : Below(pending[c], b, n) =>
                      Below(Tail(pending[c]), b, n) /\ Below(<<Head(pending[c])>>, b, n)
      BY <1>b, <2>1, TakenInOrder
    <3> QED BY <2>2, <3>1 DEF Fresh
  <2>5. Rising(sent[c])
    BY DEF Chained
  <2>6. UNCHANGED source
    BY <1>1 DEF Pop
  <2> QED BY <1>a, <2>1, <2>2, <2>3, <2>4, <2>5, <2>6, OrderFlows
<1>2. ASSUME NEW c \in Clients, WriteOk(c) PROVE Chained' /\ Fresh'
  <2>1. \A b \in Broadcasters : pc'[b] = pc[b] /\ todo'[b] = todo[b]
    BY <1>2, <1>a, Kinds DEF WriteOk, Goto, TypeOK
  <2>2. /\ flight'[c] = << >> /\ sent'[c] = sent[c] \o flight[c] /\ pending'[c] = pending[c]
        /\ \A d \in Clients \ {c} : sent'[d] = sent[d] /\ flight'[d] = flight[d] /\ pending'[d] = pending[d]
        /\ sent'[c] \in Seq(Event)
    BY <1>2, <1>a DEF WriteOk, TypeOK
  <2>3. Rising(sent'[c]) /\ Ahead(sent'[c], pending[c]) /\ Rising(pending[c])
    BY <1>b, <2>2, Joined DEF Chained
  <2>4. \A b \in Broadcasters : Below(sent'[c], b, Limit[b][c]) /\ Below(pending[c], b, Limit[b][c])
    BY <1>b, <2>2, Joined DEF Fresh
  <2>5. /\ Rising(flight'[c]) /\ Ahead(sent'[c], flight'[c]) /\ Ahead(flight'[c], pending[c])
        /\ \A b \in Broadcasters : Below(flight'[c], b, Limit[b][c])
    BY <1>b, <2>2, Nothing
  <2>6. UNCHANGED source
    BY <1>2 DEF WriteOk
  <2> QED BY <1>a, <2>1, <2>2, <2>3, <2>4, <2>5, <2>6, OrderFlows
<1>3. ASSUME NEW c \in Clients, WriteFailed(c) PROVE Chained' /\ Fresh'
  <2>1. \A b \in Broadcasters : pc'[b] = pc[b] /\ todo'[b] = todo[b]
    BY <1>3, <1>a, Kinds DEF WriteFailed, Release, Goto, TypeOK
  <2>2. /\ flight'[c] = << >> /\ sent'[c] = sent[c] /\ pending'[c] = pending[c]
        /\ \A d \in Clients \ {c} : sent'[d] = sent[d] /\ flight'[d] = flight[d] /\ pending'[d] = pending[d]
    BY <1>3, <1>a DEF WriteFailed, TypeOK
  <2>3. /\ Rising(flight'[c]) /\ Ahead(sent[c], flight'[c]) /\ Ahead(flight'[c], pending[c])
        /\ \A b \in Broadcasters : Below(flight'[c], b, Limit[b][c])
    BY <1>b, <2>2, Nothing
  <2>4. Rising(sent[c]) /\ Rising(pending[c]) /\ Ahead(sent[c], pending[c])
    BY DEF Chained
  <2>5. \A b \in Broadcasters : Below(sent[c], b, Limit[b][c]) /\ Below(pending[c], b, Limit[b][c])
    BY DEF Fresh
  <2>6. UNCHANGED source
    BY <1>3 DEF WriteFailed
  <2> QED BY <1>a, <2>1, <2>2, <2>3, <2>4, <2>5, <2>6, OrderFlows
<1>4. ASSUME NEW b \in Broadcasters, Deliver(b) PROVE Chained' /\ Fresh'
  <2>1. PICK c \in todo[b] :
          /\ pending' = [pending EXCEPT ![c] =
                          Append(IF Len(@) >= PendingLimit THEN Tail(@) ELSE @, message[b])]
          /\ todo' = [todo EXCEPT ![b] = @ \ {c}]
    BY <1>4 DEF Deliver
  <2> DEFINE e == message[b]
             q == IF Len(pending[c]) >= PendingLimit THEN Tail(pending[c]) ELSE pending[c]
  <2>2. c \in Clients /\ b \in Threads /\ pc[b] = "send" /\ e \in Event /\ e.by = b
    BY <1>4, <1>a, <2>1, Kinds DEF Deliver, TypeOK, Fresh
  <2>3. /\ pending'[c] = Append(q, e) /\ \A d \in Clients \ {c} : pending'[d] = pending[d]
        /\ todo'[b] = todo[b] \ {c} /\ \A t \in Threads \ {b} : todo'[t] = todo[t]
        /\ UNCHANGED <<pc, sent, flight, source>>
    BY <1>4, <1>a, <2>1, <2>2 DEF Deliver, TypeOK
  <2>4. /\ q \in Seq(Event)
        /\ Rising(q) /\ Ahead(sent[c], q) /\ Ahead(flight[c], q)
        /\ \A a \in Broadcasters : Below(q, a, Limit[a][c])
    <3>1. /\ Rising(pending[c]) /\ Ahead(sent[c], pending[c]) /\ Ahead(flight[c], pending[c])
          /\ \A a \in Broadcasters : Below(pending[c], a, Limit[a][c])
      BY <2>2 DEF Chained, Fresh
    <3>2. CASE Len(pending[c]) >= PendingLimit
      <4>1. pending[c] # << >>
        BY <3>2
      <4> QED BY <3>1, <3>2, <4>1, <1>b, <2>2, TakenInOrder, FirstAndRest
    <3>3. CASE ~(Len(pending[c]) >= PendingLimit)
      BY <3>1, <3>3, <1>b, <2>2
    <3> QED BY <3>2, <3>3
  <2> HIDE DEF q
  <2>5. Limit[b][c] = e.number /\ e.number \in Nat
    BY <2>1, <2>2 DEF Limit, Event
  <2>6. /\ \A a \in Broadcasters \ {b} : \A d \in Clients : Limit'[a][d] = Limit[a][d]
        /\ \A d \in Clients \ {c} : Limit'[b][d] = Limit[b][d]
        /\ Limit'[b][c] = e.number + 1
    BY <2>2, <2>3, Kinds DEF Limit
  <2>7. /\ Below(q, b, e.number) /\ Below(sent[c], b, e.number) /\ Below(flight[c], b, e.number)
    BY <2>2, <2>4, <2>5 DEF Fresh
  <2>8. Rising(pending'[c]) /\ Ahead(sent[c], pending'[c]) /\ Ahead(flight[c], pending'[c])
    BY <1>b, <2>2, <2>3, <2>4, <2>7, Queued
  <2>9. Chained'
    BY <2>3, <2>8 DEF Chained
  <2>10. \A a \in Broadcasters \ {b} : Below(pending'[c], a, Limit'[a][c])
    <3>1. \A a \in Broadcasters \ {b} : e.by # a /\ Below(q, a, Limit'[a][c])
      BY <2>2, <2>4, <2>6
    <3> QED BY <3>1, <2>2, <2>3, <2>4, Queued
  <2>11. /\ Below(q, b, e.number + 1) /\ Below(sent[c], b, e.number + 1)
         /\ Below(flight[c], b, e.number + 1)
    BY <1>b, <2>2, <2>4, <2>5, <2>7, BelowMore
  <2>12. Below(pending'[c], b, e.number + 1)
    BY <2>2, <2>3, <2>4, <2>5, <2>11, Queued
  <2>13. \A a \in Broadcasters, d \in Clients :
           /\ Below(sent'[d], a, Limit'[a][d])
           /\ Below(flight'[d], a, Limit'[a][d])
           /\ Below(pending'[d], a, Limit'[a][d])
    <3> SUFFICES ASSUME NEW a \in Broadcasters, NEW d \in Clients
                 PROVE  /\ Below(sent'[d], a, Limit'[a][d])
                        /\ Below(flight'[d], a, Limit'[a][d])
                        /\ Below(pending'[d], a, Limit'[a][d])
      OBVIOUS
    <3>1. CASE d # c
      BY <2>2, <2>3, <2>6, <3>1 DEF Fresh
    <3>2. CASE d = c /\ a # b
      BY <2>2, <2>3, <2>6, <2>10, <3>2 DEF Fresh
    <3>3. CASE d = c /\ a = b
      BY <2>2, <2>3, <2>6, <2>11, <2>12, <3>3
    <3> QED BY <3>1, <3>2, <3>3
  <2>14. Fresh'
    BY <2>3, <2>13 DEF Fresh
  <2> QED BY <2>9, <2>14
<1>5. ASSUME NEW b \in Broadcasters, BeginBroadcast(b) PROVE Chained' /\ Fresh'
  <2>1. /\ b \in Threads /\ pc[b] = "idle" /\ events \in Nat /\ events' = events + 1
        /\ message'[b] = [by |-> b, number |-> events + 1]
        /\ \A a \in Broadcasters \ {b} : message'[a] = message[a] /\ pc'[a] = pc[a] /\ todo'[a] = todo[a]
        /\ UNCHANGED <<sent, flight, pending>>
    BY <1>5, <1>a, Kinds DEF BeginBroadcast, Goto, TypeOK
  <2>2. Chained'
    BY <2>1 DEF Chained
  <2>3. \A a \in Broadcasters : message[a].number \in Nat
    BY <1>a DEF TypeOK, Event
  <2>4. \A a \in Broadcasters : message'[a].by = a /\ message'[a].number <= events'
    BY <2>1, <2>3 DEF Fresh
  <2>5. \A c \in Clients : Limit[b][c] <= Limit'[b][c]
    <3>1. \A c \in Clients : Limit[b][c] = message[b].number + 1 /\ Limit'[b][c] \in {events + 1, events + 2}
      BY <2>1 DEF Limit
    <3>2. message[b].number <= events
      BY DEF Fresh
    <3> QED BY <2>1, <2>3, <3>1, <3>2
  <2>6. \A a \in Broadcasters \ {b} : \A c \in Clients : Limit'[a][c] = Limit[a][c]
    BY <2>1 DEF Limit
  <2>7. \A a \in Broadcasters, c \in Clients : Limit[a][c] \in Nat /\ Limit'[a][c] \in Nat
    <3>1. \A a \in Broadcasters, c \in Clients : Limit'[a][c] \in Nat
      BY <1>a DEF TypeOK, Limit, Event
    <3> QED BY <1>a, <3>1, LimitType
  <2>8. \A a \in Broadcasters, c \in Clients : Limit[a][c] <= Limit'[a][c]
    BY <2>5, <2>6, <2>7
  <2>9. \A a \in Broadcasters, c \in Clients :
          /\ Below(sent[c], a, Limit'[a][c])
          /\ Below(flight[c], a, Limit'[a][c])
          /\ Below(pending[c], a, Limit'[a][c])
    BY <1>b, <2>7, <2>8, BelowMore DEF Fresh
  <2>10. Fresh'
    BY <2>1, <2>4, <2>9 DEF Fresh
  <2> QED BY <2>2, <2>10
<1>6. ASSUME NEW b \in Broadcasters, PassOver(b) \/ EndBroadcast(b) PROVE Chained' /\ Fresh'
  <2>1. UNCHANGED <<stream, source>>
    BY <1>6 DEF PassOver, EndBroadcast
  <2>2. \A a \in Broadcasters : \A c \in Clients :
          pc'[a] = "send" /\ c \in todo'[a] => pc[a] = "send" /\ c \in todo[a]
    <3>1. CASE PassOver(b)
      <4>1. UNCHANGED pc /\ \A t \in Threads : todo'[t] \subseteq todo[t]
        BY <3>1, <1>a DEF PassOver, TypeOK
      <4> QED BY <4>1, Kinds
    <3>2. CASE EndBroadcast(b)
      <4>1. UNCHANGED todo /\ \A t \in Threads : pc'[t] = pc[t] \/ pc'[t] = "idle"
        BY <3>2, <1>a DEF EndBroadcast, Goto, TypeOK
      <4> QED BY <4>1, Kinds
    <3> QED BY <1>6, <3>1, <3>2
  <2> QED BY <1>a, <2>1, <2>2, OrderStays
<1>7. CASE /\ UNCHANGED <<stream, source>>
           /\ \E t \in Closers : \A u \in Threads \ {t} : pc'[u] = pc[u] /\ todo'[u] = todo[u]
  BY <1>7, <1>a, Kinds, OrderStays
<1>8. ASSUME NEW c \in Clients,
             \/ Register(c) \/ Abandon(c) \/ Connect(c) \/ SetHandle(c) \/ Wait(c) \/ Timeout(c)
             \/ Leave(c) \/ Drain(c) \/ Drained(c)
      PROVE  Chained' /\ Fresh'
  <2>1. UNCHANGED <<stream, source>>
    BY <1>8 DEF Register, Abandon, Connect, SetHandle, Wait, Timeout, Leave, Drain, Drained
  <2>2. \A u \in Threads \ {c} : pc'[u] = pc[u] /\ todo'[u] = todo[u]
    BY <1>8, <1>a DEF Register, Abandon, Connect, SetHandle, Wait, Timeout, Leave, Drain, Drained,
       Goto, Release, TypeOK
  <2> QED BY <1>7, <2>1, <2>2, Kinds
<1>9. ASSUME NEW t \in Closers, Mark(t) PROVE Chained' /\ Fresh'
  <2>1. UNCHANGED <<stream, source>>
    BY <1>9 DEF Mark, TryClose, Notify, Erase, Swept
  <2>2. \A u \in Threads \ {t} : pc'[u] = pc[u] /\ todo'[u] = todo[u]
    BY <1>9, <1>a DEF Mark, TryClose, Notify, Erase, Swept, Goto, TypeOK
  <2> QED BY <1>7, <2>1, <2>2
<1>10. CASE Stop \/ Shutdown \/ ListenerEnds
  <2>1. UNCHANGED <<stream, source>>
    BY <1>10 DEF Stop, Shutdown, Halt, Collect, Destroy, ListenerEnds
  <2>2. \E t \in {Owner, Listener} : \A u \in Threads \ {t} : pc'[u] = pc[u] /\ todo'[u] = todo[u]
    BY <1>10, <1>a DEF Stop, Shutdown, Halt, Collect, Destroy, ListenerEnds, Goto, TypeOK
  <2> QED BY <1>7, <2>1, <2>2, Kinds
<1>11. CASE UNCHANGED vars
  BY <1>11, <1>7, Kinds DEF vars
<1> QED BY <1>1, <1>2, <1>3, <1>4, <1>5, <1>6, <1>8, <1>9, <1>10, <1>11 DEF Next, Serve, Broadcast

(* Whatever the queues dropped and however the pushes of the broadcasters
   interleave with the drain loops, no stream has two events of a broadcaster
   in the wrong order, nor one of them twice. *)
THEOREM EventsStayInOrder == Spec => []EventsInOrder
<1>1. Inv /\ Chained => EventsInOrder
  <2> SUFFICES ASSUME Inv, Chained, NEW c \in Clients,
                      NEW i \in DOMAIN Line(c), NEW j \in DOMAIN Line(c),
                      i < j, Line(c)[i].by = Line(c)[j].by
               PROVE  Line(c)[i].number < Line(c)[j].number
    BY DEF EventsInOrder
  <2>1. sent[c] \in Seq(Event) /\ flight[c] \in Seq(Event) /\ pending[c] \in Seq(Event)
    BY DEF Inv, TypeOK
  <2>2. /\ sent[c] \o flight[c] \in Seq(Event) /\ Rising(sent[c] \o flight[c])
        /\ Ahead(sent[c] \o flight[c], pending[c])
    BY <2>1, Joined, QueueTypes DEF Chained
  <2>3. Rising(Line(c))
    BY <2>1, <2>2, Joined DEF Chained, Line
  <2>4. DOMAIN Line(c) = 1 .. Len(Line(c))
    BY <2>1, <2>2 DEF Line
  <2> QED BY <2>3, <2>4 DEF Rising, Before
<1> QED BY <1>1, InvInit, InvNext, OrderInit, OrderNext, PTL DEF Spec
=============================================================================
