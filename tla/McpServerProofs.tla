--------------------------- MODULE McpServerProofs --------------------------
(***************************************************************************)
(* Proofs about McpServer, for any number of workers, clients, session ids *)
(* and requests: the types of its state, that a worker never serves a      *)
(* client in another client's session or in one that is not ready, and     *)
(* that no notifications/initialized is lost.                              *)
(***************************************************************************)
EXTENDS McpServer, FiniteSetTheorems, TLAPS

USE ServerAssumption

(* What a worker holds while it is at each place. *)
Posed ==
  \A w \in Workers :
    /\ current[w] = req[w].header
    /\ pc[w] = "idle" => found[w] = 0
    /\ pc[w] # "idle" =>
         /\ req[w].client \in Clients
         /\ {req[w].header, req[w].param} \subseteq known[req[w].client] \cup {None}
    /\ pc[w] \in Making \cup {"serve", "call"} => found[w] # 0

Typed == TypeOK /\ Posed

-----------------------------------------------------------------------------
(* Types.                                                                  *)

(* A session's flag can be stored without changing the number of sessions. *)
LEMMA Replaced ==
  ASSUME NEW s \in Seq(Session), NEW o \in 1 .. Len(s), NEW t \in Session
  PROVE  /\ [s EXCEPT ![o] = t] \in Seq(Session)
         /\ Len([s EXCEPT ![o] = t]) = Len(s)
         /\ \A p \in 1 .. Len(s) : [s EXCEPT ![o] = t][p] = IF p = o THEN t ELSE s[p]
<1> DEFINE Kind == Session
<1>1. s \in Seq(Kind) /\ t \in Kind
  OBVIOUS
<1> HIDE DEF Kind
<1>2. /\ [s EXCEPT ![o] = t] \in Seq(Kind)
      /\ Len([s EXCEPT ![o] = t]) = Len(s)
      /\ \A p \in 1 .. Len(s) : [s EXCEPT ![o] = t][p] = IF p = o THEN t ELSE s[p]
  BY <1>1
<1> QED BY <1>2 DEF Kind

LEMMA Flag ==
  ASSUME NEW s \in Session, NEW b \in BOOLEAN
  PROVE  /\ [s EXCEPT !.completed = b] \in Session
         /\ [s EXCEPT !.requires = b] \in Session
         /\ [s EXCEPT !.received = b] \in Session
  BY DEF Session

LEMMA Added ==
  ASSUME NEW s \in Seq(Session), NEW t \in Session
  PROVE  /\ Append(s, t) \in Seq(Session)
         /\ Len(Append(s, t)) = Len(s) + 1
         /\ \A p \in 1 .. Len(s) : Append(s, t)[p] = s[p]
         /\ Append(s, t)[Len(s) + 1] = t
<1> DEFINE Kind == Session
<1>1. s \in Seq(Kind) /\ t \in Kind
  OBVIOUS
<1> HIDE DEF Kind
<1>2. /\ Append(s, t) \in Seq(Kind)
      /\ Len(Append(s, t)) = Len(s) + 1
      /\ \A p \in 1 .. Len(s) : Append(s, t)[p] = s[p]
      /\ Append(s, t)[Len(s) + 1] = t
  BY <1>1
<1> QED BY <1>2 DEF Kind

LEMMA TypedInit == Init => Typed
<1> SUFFICES ASSUME Init PROVE Typed
  OBVIOUS
<1>1. TypeOK
  BY DEF Init, TypeOK, Request, NoRequest, MaybeId, Builtin, Session
<1>2. Posed
  BY DEF Init, Posed, NoRequest, Making
<1> QED BY <1>1, <1>2 DEF Typed

(* A session is read by its number. *)
LEMMA SessionOf ==
  ASSUME TypeOK, NEW o \in 1 .. Len(objects)
  PROVE  objects[o] \in Session
  BY DEF TypeOK

(* A store to one flag of a session changes that flag alone. *)
LEMMA Stored ==
  ASSUME TypeOK, NEW o \in 1 .. Len(objects), NEW t \in Session,
         objects' = [objects EXCEPT ![o] = t]
  PROVE  /\ objects' \in Seq(Session)
         /\ Len(objects') = Len(objects)
         /\ \A p \in 1 .. Len(objects) : objects'[p] = IF p = o THEN t ELSE objects[p]
  BY Replaced DEF TypeOK

LEMMA StoredFlag ==
  ASSUME TypeOK, NEW o \in 1 .. Len(objects), NEW b \in BOOLEAN,
         \/ objects' = [objects EXCEPT ![o].completed = b]
         \/ objects' = [objects EXCEPT ![o].requires = b]
         \/ objects' = [objects EXCEPT ![o].received = b]
  PROVE  /\ objects' \in Seq(Session)
         /\ Len(objects') = Len(objects)
<1>1. objects[o] \in Session
  BY SessionOf
<1> DEFINE t == IF objects' = [objects EXCEPT ![o].completed = b]
                  THEN [objects[o] EXCEPT !.completed = b]
                  ELSE IF objects' = [objects EXCEPT ![o].requires = b]
                         THEN [objects[o] EXCEPT !.requires = b]
                         ELSE [objects[o] EXCEPT !.received = b]
<1>2. objects' = [objects EXCEPT ![o] = t]
  OBVIOUS
<1>3. t \in Session
  BY <1>1, Flag
<1> QED BY <1>2, <1>3, Stored

(* Every answer sends the worker on to its reply. *)
LEMMA Answered ==
  ASSUME TypeOK, NEW w \in Workers,
         Handled(w) \/ Failed(w) \/ Oversized(w) \/ Succeeds(w) \/ Fails(w) \/ Unknown(w)
  PROVE  /\ pc' = [pc EXCEPT ![w] = "reply"]
         /\ handled' \in Nat /\ failed' \in Nat
<1>1. handled \in Nat /\ failed \in Nat
  BY DEF TypeOK
<1>2. Handled(w) \/ Failed(w) \/ Oversized(w)
  BY DEF Succeeds, Fails, Unknown
<1> QED BY <1>1, <1>2 DEF Handled, Failed, Oversized, Goto, counters

(* Where a step of a worker may take it. *)
LEMMA Moved ==
  ASSUME TypeOK, NEW w \in Workers, NEW label, pc' = [pc EXCEPT ![w] = label],
         label \in {"idle", "refuse", "create", "complete", "require", "receive",
                    "delete", "find", "acknowledge", "gate", "serve", "call", "route",
                    "respond", "reply"}
  PROVE  /\ pc' \in [Workers -> {"idle", "refuse", "create", "complete", "require", "receive",
                         "delete", "find", "acknowledge", "gate", "serve", "call", "route",
                         "respond", "reply"}]
         /\ pc'[w] = label
         /\ \A v \in Workers \ {w} : pc'[v] = pc[v]
  BY DEF TypeOK

(* A worker that leaves its locals, the sessions and the known ids alone. *)
LEMMA PosedStays ==
  ASSUME Typed, NEW w \in Workers, NEW label, pc' = [pc EXCEPT ![w] = label],
         pc[w] # "idle", label # "idle", label \in Making \cup {"serve", "call"} => found[w] # 0,
         UNCHANGED <<req, found, current, known>>
  PROVE  Posed'
  BY DEF Typed, TypeOK, Posed, Making

LEMMA TypedNext == Typed /\ [Next]_vars => Typed'
<1> SUFFICES ASSUME Typed, [Next]_vars PROVE Typed'
  OBVIOUS
<1>a. TypeOK /\ Posed
  BY DEF Typed
<1> USE DEF context, local, sessions, registry, counters
<1>1. ASSUME NEW w \in Workers, Begin(w) PROVE Typed'
  <2> PICK c \in Clients : \E r \in Requests(c) :
          /\ req' = [req EXCEPT ![w] = r]
          /\ current' = [current EXCEPT ![w] = r.header]
          /\ late' = [late EXCEPT ![w] = ClaimIn(r.header, r.param) \in deleted]
          /\ pc' = [pc EXCEPT ![w] = Entry(r.what)]
    BY <1>1 DEF Begin, Goto
  <2>1. PICK r \in Requests(c) :
          /\ req' = [req EXCEPT ![w] = r]
          /\ current' = [current EXCEPT ![w] = r.header]
          /\ late' = [late EXCEPT ![w] = ClaimIn(r.header, r.param) \in deleted]
          /\ pc' = [pc EXCEPT ![w] = Entry(r.what)]
    OBVIOUS
  <2>2. /\ r \in Request /\ r.client = c
        /\ {r.header, r.param} \subseteq known[c] \cup {None}
        /\ r.header \in MaybeId
    BY <1>a, <2>1 DEF Requests, Request, TypeOK, MaybeId
  <2>3. Entry(r.what) \in {"route", "delete", "refuse", "create", "find"}
    BY DEF Entry
  <2>4. TypeOK'
    BY <1>1, <1>a, <2>1, <2>2, <2>3, Moved DEF Begin, ResponseCleared, TypeOK, MaybeId
  <2>5. Posed'
    BY <1>1, <1>a, <2>1, <2>2, <2>3 DEF Begin, Posed, TypeOK, Making
  <2> QED BY <2>4, <2>5 DEF Typed
<1>2. ASSUME NEW w \in Workers, TurnAway(w) PROVE Typed'
  <2>1. TypeOK'
    BY <1>2, <1>a DEF TurnAway, TypeOK
  <2>2. Posed'
    BY <1>2, <1>a DEF TurnAway, Posed
  <2> QED BY <2>1, <2>2 DEF Typed
<1>3. ASSUME NEW w \in Workers, Work(w) PROVE Typed'
  <2>1. CASE Refuse(w)
    <3>1. TypeOK'
      BY <2>1, <1>a, Answered, Moved DEF Refuse, TypeOK
    <3> QED BY <2>1, <1>a, <3>1, Answered, PosedStays DEF Refuse, Typed, Making
  <2>2. CASE Collide(w)
    <3>1. CASE LastDraw(w)
      <4>1. TypeOK'
        BY <2>2, <3>1, <1>a, Answered, Moved DEF Collide, TypeOK
      <4> QED BY <2>2, <3>1, <1>a, <4>1, Answered, PosedStays DEF Collide, Typed, Making
    <3>2. CASE ~LastDraw(w)
      <4> attempt[w] \in 0 .. Attempts - 1 /\ attempt[w] + 1 \in 0 .. Attempts - 1
        BY <3>2, <1>a DEF LastDraw, TypeOK
      <4>a. attempt' = [attempt EXCEPT ![w] = attempt[w] + 1] /\ UNCHANGED <<pc, counters>>
        BY <2>2, <3>2 DEF Collide
      <4>b. attempt' \in [Workers -> 0 .. Attempts - 1]
        BY <4>a, <1>a DEF TypeOK
      <4>1. TypeOK'
        BY <2>2, <1>a, <4>a, <4>b DEF Collide, TypeOK
      <4>2. Posed'
        BY <2>2, <3>2, <1>a DEF Collide, Posed
      <4> QED BY <4>1, <4>2 DEF Typed
    <3> QED BY <3>1, <3>2
  <2>3. CASE Insert(w)
    <3> DEFINE one(id) == [id |-> id, client |-> req[w].client, strict |-> req[w].what = "strict",
                           completed |-> FALSE, requires |-> TRUE, received |-> FALSE]
    <3>1. PICK id \in Drawn : /\ listed' = [listed EXCEPT ![id] = Len(objects) + 1]
                              /\ objects' = Append(objects, one(id))
      BY <2>3 DEF Insert
    <3>2. one(id) \in Session
      BY <2>3, <1>a, <3>1 DEF Insert, Posed, Drawn, Session
    <3>3. objects' \in Seq(Session) /\ Len(objects') = Len(objects) + 1
      BY <1>a, <3>1, <3>2, Added DEF TypeOK
    <3>4. /\ pc' = [pc EXCEPT ![w] = "complete"]
          /\ found' = [found EXCEPT ![w] = Len(objects) + 1]
          /\ Len(objects) \in Nat
      BY <2>3, <1>a DEF Insert, Goto, TypeOK
    <3>a. /\ found' \in [Workers -> 0 .. Len(objects')]
          /\ listed' \in [Ids -> 0 .. Len(objects')]
          /\ acknowledged' \subseteq 1 .. Len(objects')
      <4>1. /\ found \in [Workers -> 0 .. Len(objects)]
            /\ listed \in [Ids -> 0 .. Len(objects)]
            /\ acknowledged \subseteq 1 .. Len(objects)
        BY <1>a DEF TypeOK
      <4>2. 0 .. Len(objects) \subseteq 0 .. Len(objects') /\ Len(objects) + 1 \in 0 .. Len(objects')
        BY <3>3, <3>4
      <4>3. 1 .. Len(objects) \subseteq 1 .. Len(objects') /\ acknowledged' = acknowledged
        BY <2>3, <3>3, <3>4 DEF Insert
      <4> QED BY <4>1, <4>2, <4>3, <3>1, <3>4
    <3>5. TypeOK'
      BY <2>3, <1>a, <3>a, <3>3, <3>4, Moved DEF Insert, TypeOK
    <3>6. Posed'
      BY <2>3, <1>a, <3>4 DEF Insert, TypeOK, Posed, Making
    <3> QED BY <3>5, <3>6 DEF Typed
  <2>4. CASE StoreCompleted(w)
    <3>1. found[w] \in 1 .. Len(objects)
      BY <2>4, <1>a DEF StoreCompleted, Posed, TypeOK, Making
    <3>a. found[w] # 0
      BY <1>a, <3>1 DEF TypeOK
    <3>2. objects' \in Seq(Session) /\ Len(objects') = Len(objects)
      BY <2>4, <1>a, <3>1, StoredFlag DEF StoreCompleted
    <3>3. pc' = [pc EXCEPT ![w] = "require"]
      BY <2>4 DEF StoreCompleted, Goto
    <3>4. TypeOK'
      BY <2>4, <1>a, <3>2, <3>3, Moved DEF StoreCompleted, TypeOK
    <3> QED BY <1>a, <3>a, <2>4, <3>1, <3>3, <3>4, PosedStays DEF StoreCompleted, Typed
  <2>5. CASE StoreRequires(w)
    <3>1. found[w] \in 1 .. Len(objects)
      BY <2>5, <1>a DEF StoreRequires, Posed, TypeOK, Making
    <3>a. found[w] # 0
      BY <1>a, <3>1 DEF TypeOK
    <3>2. objects[found[w]].strict \in BOOLEAN
      BY <1>a, <3>1, SessionOf DEF Session
    <3>3. objects' \in Seq(Session) /\ Len(objects') = Len(objects)
      BY <2>5, <1>a, <3>1, <3>2, StoredFlag DEF StoreRequires
    <3>4. pc' = [pc EXCEPT ![w] = "receive"]
      BY <2>5 DEF StoreRequires, Goto
    <3>5. TypeOK'
      BY <2>5, <1>a, <3>3, <3>4, Moved DEF StoreRequires, TypeOK
    <3> QED BY <1>a, <3>a, <2>5, <3>1, <3>4, <3>5, PosedStays DEF StoreRequires, Typed
  <2>6. CASE StoreReceived(w)
    <3>1. found[w] \in 1 .. Len(objects)
      BY <2>6, <1>a DEF StoreReceived, Posed, TypeOK, Making
    <3>2. objects[found[w]].id \in MaybeId
      BY <1>a, <3>1, SessionOf DEF Session, MaybeId
    <3>3. objects' \in Seq(Session) /\ Len(objects') = Len(objects)
      BY <2>6, <1>a, <3>1, StoredFlag DEF StoreReceived
    <3>4. /\ pc' = [pc EXCEPT ![w] = "reply"]
          /\ handled' \in Nat /\ failed' \in Nat
      BY <2>6, <1>a, Answered DEF StoreReceived
    <3>5. TypeOK'
      BY <2>6, <1>a, <3>2, <3>3, <3>4, Moved DEF StoreReceived, TypeOK
    <3> QED BY <2>6, <3>1, <3>4, <3>5, PosedStays DEF StoreReceived, Typed, Making
  <2>7. CASE Delete(w)
    <3>1. /\ pc' = [pc EXCEPT ![w] = "reply"]
          /\ handled' \in Nat /\ failed' \in Nat
      BY <2>7, <1>a, Answered DEF Delete
    <3>a. listed' \in [Ids -> 0 .. Len(objects)] /\ deleted' \subseteq Ids
      BY <2>7, <1>a DEF Delete, TypeOK, MaybeId
    <3>2. TypeOK'
      BY <2>7, <1>a, <3>1, <3>a, Moved DEF Delete, TypeOK
    <3> QED BY <2>7, <3>1, <3>2, PosedStays DEF Delete, Typed, Making
  <2>8. CASE Find(w)
    <3>1. Claim(w) \in MaybeId
      BY <1>a DEF Claim, ClaimIn, Request, TypeOK
    <3>2. PICK label \in {"acknowledge", "gate"} : pc' = [pc EXCEPT ![w] = label]
      BY <2>8 DEF Find, Goto
    <3>3. TypeOK'
      BY <2>8, <1>a, <3>1, <3>2, Moved DEF Find, TypeOK, MaybeId
    <3>4. Posed'
      BY <2>8, <1>a, <3>2 DEF Find, TypeOK, Posed, Making
    <3> QED BY <3>3, <3>4 DEF Typed
  <2>9. CASE Acknowledge(w)
    <3>1. found[w] \in 1 .. Len(objects)
      BY <2>9, <1>a DEF Acknowledge, Initialized, TypeOK
    <3>2. objects[found[w]].id \in MaybeId
      BY <1>a, <3>1, SessionOf DEF Session, MaybeId
    <3>3. objects' \in Seq(Session) /\ Len(objects') = Len(objects)
      BY <2>9, <1>a, <3>1, StoredFlag DEF Acknowledge
    <3>4. /\ pc' = [pc EXCEPT ![w] = "reply"]
          /\ handled' \in Nat /\ failed' \in Nat
      BY <2>9, <1>a, Answered DEF Acknowledge
    <3>5. TypeOK'
      BY <2>9, <1>a, <3>1, <3>2, <3>3, <3>4, Moved DEF Acknowledge, TypeOK
    <3> QED BY <2>9, <3>1, <3>4, <3>5, PosedStays DEF Acknowledge, Typed, Making
  <2>10. CASE TooEarly(w)
    <3>1. TypeOK'
      BY <2>10, <1>a, Answered, Moved DEF TooEarly, TypeOK
    <3> QED BY <2>10, <1>a, <3>1, Answered, PosedStays DEF TooEarly, Typed, Making
  <2>11. CASE Admit(w)
    <3>1. found[w] \in 1 .. Len(objects)
      BY <2>11, <1>a DEF Admit, Ready, Initialized, TypeOK
    <3>a. found[w] # 0
      BY <1>a, <3>1 DEF TypeOK
    <3>2. objects[found[w]].id \in MaybeId
      BY <1>a, <3>1, SessionOf DEF Session, MaybeId
    <3>3. pc' = [pc EXCEPT ![w] = "serve"]
      BY <2>11 DEF Admit, Goto
    <3>4. TypeOK'
      BY <2>11, <1>a, <3>2, <3>3, Moved DEF Admit, TypeOK
    <3> QED BY <1>a, <3>a, <2>11, <3>1, <3>3, <3>4, PosedStays DEF Admit, Typed
  <2>12. CASE Ping(w)
    <3>1. TypeOK'
      BY <2>12, <1>a, Answered, Moved DEF Ping, TypeOK
    <3> QED BY <2>12, <1>a, <3>1, Answered, PosedStays DEF Ping, Typed, Making
  <2>13. CASE LookUp(w)
    <3>1. pc' = [pc EXCEPT ![w] = "call"] /\ found[w] # 0
      BY <2>13, <1>a DEF LookUp, Goto, Posed
    <3>2. TypeOK'
      BY <2>13, <1>a, <3>1, Moved DEF LookUp, TypeOK
    <3> QED BY <2>13, <3>1, <3>2, PosedStays DEF LookUp, Typed
  <2>14. CASE NotFound(w)
    <3>1. TypeOK'
      BY <2>14, <1>a, Answered, Moved DEF NotFound, TypeOK
    <3> QED BY <2>14, <1>a, <3>1, Answered, PosedStays DEF NotFound, Typed, Making
  <2>15. CASE Call(w)
    <3>1. TypeOK'
      BY <2>15, <1>a, Answered, Moved DEF Call, TypeOK
    <3> QED BY <2>15, <1>a, <3>1, Answered, PosedStays DEF Call, Typed, Making
  <2>16. CASE Route(w)
    <3>1. PICK label \in {"respond", "reply"} :
            /\ pc' = [pc EXCEPT ![w] = label]
            /\ handled' \in Nat /\ failed' \in Nat
      BY <2>16, <1>a, Answered DEF Route, Goto, TypeOK
    <3>2. TypeOK'
      BY <2>16, <1>a, <3>1, Moved DEF Route, TypeOK
    <3> QED BY <2>16, <3>1, <3>2, PosedStays DEF Route, Typed, Making
  <2>17. CASE Respond(w)
    <3>1. TypeOK'
      BY <2>17, <1>a, Moved DEF Respond, Goto, TypeOK
    <3> QED BY <2>17, <1>a, <3>1, PosedStays DEF Respond, Goto, Typed, Making
  <2>18. CASE Reply(w)
    <3>1. NoRequest \in Request /\ NoRequest.header = None
      BY DEF NoRequest, Request, MaybeId, Builtin
    <3>2. pc' = [pc EXCEPT ![w] = "idle"] /\ req[w].client \in Clients
      BY <2>18, <1>a DEF Reply, Goto, Posed
    <3>3. \A c \in Clients : known[c] \subseteq known'[c] /\ known'[c] \subseteq Ids
      BY <2>18, <1>a, <3>2 DEF Reply, TypeOK, Request, MaybeId
    <3>4. known' \in [Clients -> SUBSET Ids]
      BY <2>18, <1>a, <3>3 DEF Reply, TypeOK
    <3>5. TypeOK'
      BY <2>18, <1>a, <3>1, <3>2, <3>4, Moved, SMTT(30) DEF Reply, ResponseCleared, TypeOK, MaybeId
    <3>6. Posed'
      BY <2>18, <1>a, <3>1, <3>2, <3>3 DEF Reply, TypeOK, Posed, Making
    <3> QED BY <3>5, <3>6 DEF Typed
  <2> QED BY <1>3, <2>1, <2>2, <2>3, <2>4, <2>5, <2>6, <2>7, <2>8, <2>9, <2>10, <2>11,
             <2>12, <2>13, <2>14, <2>15, <2>16, <2>17, <2>18 DEF Work
<1>4. CASE Registry
  <2>1. TypeOK'
    BY <1>4, <1>a DEF Registry, RegisterMethods, UnregisterMethod, RegisterRoute, UnregisterRoute, TypeOK
  <2>2. Posed'
    BY <1>4, <1>a DEF Registry, RegisterMethods, UnregisterMethod, RegisterRoute, UnregisterRoute, Posed
  <2> QED BY <2>1, <2>2 DEF Typed
<1>5. CASE UNCHANGED vars
  <2>1. TypeOK' /\ Posed'
    BY <1>5, <1>a DEF vars, TypeOK, Posed
  <2> QED BY <2>1 DEF Typed
<1> QED BY <1>1, <1>2, <1>3, <1>4, <1>5 DEF Next

(* The server's tables, its counters and its workers' locals have their
   types; no more sessions are held or listed than were made. *)
THEOREM Typing == Spec => []TypeOK
<1>1. Typed => TypeOK
  BY DEF Typed
<1> QED BY <1>1, TypedInit, TypedNext, PTL DEF Spec

-----------------------------------------------------------------------------
(* Sessions.                                                               *)

(* Sessions that are listed before their flags are all stored. *)
Unfinished == {o \in 1 .. Len(objects) : \E w \in Workers : pc[w] \in Making /\ found[w] = o}

(* The ids whose session, unless it was deleted, is a client's own and whole. *)
Own ==
  [c \in Clients |->
     {i \in Ids : \/ i \in deleted
                  \/ /\ listed[i] # 0
                     /\ objects[listed[i]].client = c
                     /\ listed[i] \notin Unfinished}]

(* A session is listed under its id until the id is deleted, and under no other. *)
Listing ==
  /\ \A i \in Ids : listed[i] # 0 => objects[listed[i]].id = i /\ i \notin deleted
  /\ \A o \in 1 .. Len(objects) : objects[o].id \in deleted \/ listed[objects[o].id] = o

(* A client has read no id but its own, and a reply carries none. *)
Earned ==
  /\ \A c \in Clients : known[c] \subseteq Own[c]
  /\ \A w \in Workers : meta[w] # None => pc[w] # "idle" /\ meta[w] \in Own[req[w].client]

(* What the flags of a session mean, while they are stored and after. *)
Meant ==
  /\ \A o \in 1 .. Len(objects) :
       /\ objects[o].strict /\ objects[o].received => o \in acknowledged
       /\ o \notin Unfinished => objects[o].requires = objects[o].strict
  /\ \A w \in Workers :
       /\ pc[w] \in Making => ~objects[found[w]].received
       /\ pc[w] = "receive" => objects[found[w]].requires = objects[found[w]].strict

(* A request that came after its id was deleted finds no session, and one
   that is served found a session that was acknowledged if it had to be. *)
Timely ==
  \A w \in Workers :
    /\ pc[w] = "find" /\ late[w] => Claim(w) \in deleted
    /\ pc[w] \in {"acknowledge", "gate", "serve", "call"} /\ found[w] # 0 => ~late[w]
    /\ pc[w] \in {"serve", "call"} /\ objects[found[w]].strict => found[w] \in acknowledged

Inv == Typed /\ SessionsAreSeparate /\ Listing /\ Earned /\ Meant /\ Timely

LEMMA InvInit == Init => Inv
<1> SUFFICES ASSUME Init PROVE Inv
  OBVIOUS
<1>1. Len(objects) = 0
  BY DEF Init
<1>2. SessionsAreSeparate /\ Listing /\ Earned /\ Meant /\ Timely
  BY <1>1 DEF Init, SessionsAreSeparate, Listing, Earned, Meant, Timely, Making
<1> QED BY <1>2, TypedInit DEF Inv

(* A session that a worker holds after initialize is a finished one. *)
LEMMA HeldIsFinished ==
  ASSUME Inv, NEW w \in Workers, pc[w] \notin Making
  PROVE  found[w] \notin Unfinished
  BY DEF Inv, SessionsAreSeparate, Unfinished

(* A client keeps its ids while sessions of others are made. *)
LEMMA OwnGrows ==
  ASSUME TypeOK, deleted \subseteq deleted',
         \A i \in Ids : listed[i] # 0 => i \in deleted' \/ listed'[i] = listed[i],
         \A o \in 1 .. Len(objects) : objects'[o].client = objects[o].client,
         \A o \in 1 .. Len(objects) : o \in Unfinished' => o \in Unfinished
  PROVE  \A c \in Clients : Own[c] \subseteq Own'[c]
  BY DEF TypeOK, Own

(* Only a worker's coming or going from the steps of initialize changes
   which sessions are unfinished. *)
LEMMA UnfinishedStays ==
  ASSUME TypeOK, NEW w \in Workers, NEW label, pc' = [pc EXCEPT ![w] = label],
         \/ pc[w] \notin Making /\ label \notin Making
         \/ pc[w] \in Making /\ label \in Making /\ found'[w] = found[w],
         Len(objects') = Len(objects),
         \A v \in Workers \ {w} : found'[v] = found[v]
  PROVE  Unfinished' = Unfinished
<1>1. pc'[w] = label /\ \A v \in Workers \ {w} : pc'[v] = pc[v]
  BY DEF TypeOK
<1>2. \A o \in 1 .. Len(objects) :
        (\E v \in Workers : pc'[v] \in Making /\ found'[v] = o)
          <=> \E v \in Workers : pc[v] \in Making /\ found[v] = o
  BY <1>1
<1> QED BY <1>2 DEF Unfinished

LEMMA Still ==
  ASSUME Inv, Typed',
         UNCHANGED <<pc, req, current, meta, found, listed, objects, known, deleted, late,
                     acknowledged>>
  PROVE  Inv'
<1>1. Unfinished' = Unfinished
  BY DEF Unfinished
<1>2. Own' = Own
  BY <1>1 DEF Own
<1>3. SessionsAreSeparate' /\ Listing'
  BY DEF Inv, SessionsAreSeparate, Listing
<1>4. Earned' /\ Meant'
  BY <1>1, <1>2 DEF Inv, Earned, Meant
<1>5. Timely'
  BY DEF Inv, Timely, Claim
<1> QED BY <1>3, <1>4, <1>5 DEF Inv

(* A worker that touches no session and goes no further than it was let. *)
LEMMA Quiet ==
  ASSUME Inv, Typed', NEW w \in Workers, NEW label, pc' = [pc EXCEPT ![w] = label],
         pc[w] \notin Making \cup {"idle"},
         label \notin Making \cup {"idle", "find", "acknowledge", "gate"},
         label \in {"serve", "call"} => pc[w] = "serve",
         UNCHANGED <<req, current, meta, found, listed, objects, known, deleted, late,
                     acknowledged>>
  PROVE  Inv'
<1>a. TypeOK
  BY DEF Inv, Typed
<1>b. pc'[w] = label /\ \A v \in Workers \ {w} : pc'[v] = pc[v]
  BY <1>a DEF TypeOK
<1>1. Unfinished' = Unfinished
  BY <1>a, UnfinishedStays
<1>2. Own' = Own
  BY <1>1 DEF Own
<1>3. SessionsAreSeparate' /\ Listing'
  BY <1>b DEF Inv, SessionsAreSeparate, Listing
<1>4. Earned'
  BY <1>2, <1>b DEF Inv, Earned
<1>5. Meant'
  BY <1>1, <1>b DEF Inv, Meant, Making
<1>6. Timely'
  BY <1>b DEF Inv, Timely, Claim
<1> QED BY <1>3, <1>4, <1>5, <1>6 DEF Inv

(* Storing flags does not disturb the table. *)
LEMMA ListingStays ==
  ASSUME Inv, UNCHANGED <<listed, deleted>>, Len(objects') = Len(objects),
         \A o \in 1 .. Len(objects) : objects'[o].id = objects[o].id
  PROVE  Listing'
<1>1. \A i \in Ids : listed[i] # 0 => listed[i] \in 1 .. Len(objects)
  BY DEF Inv, Typed, TypeOK
<1>2. \A i \in Ids : listed'[i] # 0 => objects'[listed'[i]].id = i /\ i \notin deleted'
  BY <1>1 DEF Inv, Listing
<1>3. \A o \in 1 .. Len(objects') : objects'[o].id \in deleted' \/ listed'[objects'[o].id] = o
  BY DEF Inv, Listing
<1> QED BY <1>2, <1>3 DEF Listing

LEMMA BeginKeepsInv ==
  ASSUME Inv, Typed', NEW w \in Workers, Begin(w)
  PROVE  Inv'
<1>a. TypeOK /\ Posed /\ found[w] = 0 /\ pc[w] = "idle"
  BY DEF Inv, Typed, Posed, Begin
<1> PICK c \in Clients : \E r \in Requests(c) :
       /\ req' = [req EXCEPT ![w] = r]
       /\ current' = [current EXCEPT ![w] = r.header]
       /\ late' = [late EXCEPT ![w] = ClaimIn(r.header, r.param) \in deleted]
       /\ pc' = [pc EXCEPT ![w] = Entry(r.what)]
  BY DEF Begin, Goto
<1>1. PICK r \in Requests(c) :
       /\ req' = [req EXCEPT ![w] = r]
       /\ current' = [current EXCEPT ![w] = r.header]
       /\ late' = [late EXCEPT ![w] = ClaimIn(r.header, r.param) \in deleted]
       /\ pc' = [pc EXCEPT ![w] = Entry(r.what)]
  OBVIOUS
<1>2. Entry(r.what) \in {"route", "delete", "refuse", "create", "find"}
  BY DEF Entry
<1>3. PICK label \in {"route", "delete", "refuse", "create", "find"} : pc' = [pc EXCEPT ![w] = label]
  BY <1>1, <1>2
<1>4. /\ pc'[w] = label /\ req'[w] = r /\ current'[w] = r.header
      /\ late'[w] = (ClaimIn(r.header, r.param) \in deleted)
      /\ \A v \in Workers \ {w} : /\ pc'[v] = pc[v] /\ req'[v] = req[v]
                                  /\ current'[v] = current[v] /\ late'[v] = late[v]
  BY <1>a, <1>1, <1>3 DEF TypeOK
<1>5. /\ UNCHANGED <<found, listed, objects, known, deleted, acknowledged>>
      /\ meta'[w] = None /\ \A v \in Workers \ {w} : meta'[v] = meta[v]
  BY <1>a DEF Begin, ResponseCleared, TypeOK, sessions
<1>6. Unfinished' = Unfinished
  BY <1>a, <1>3, <1>5, UnfinishedStays DEF Making
<1>7. Own' = Own
  BY <1>5, <1>6 DEF Own
<1>8. SessionsAreSeparate' /\ Listing'
  BY <1>a, <1>4, <1>5 DEF Inv, SessionsAreSeparate, Listing, Making
<1>9. Earned' 
  BY <1>4, <1>5, <1>7 DEF Inv, Earned
<1>10. Meant'
  BY <1>4, <1>5, <1>6 DEF Inv, Meant, Making
<1>11. Timely'
  BY <1>a, <1>4, <1>5 DEF Inv, Timely, Claim
<1> QED BY <1>8, <1>9, <1>10, <1>11 DEF Inv

LEMMA InsertKeepsInv ==
  ASSUME Inv, Typed', NEW w \in Workers, Insert(w)
  PROVE  Inv'
<1> DEFINE n == Len(objects) + 1
<1>a. TypeOK /\ Posed /\ pc[w] = "create" /\ Len(objects) \in Nat
  BY SMTT(30) DEF Inv, Typed, Insert, TypeOK
<1>1. PICK id \in Drawn :
        /\ listed[id] = 0
        /\ listed' = [listed EXCEPT ![id] = n]
        /\ objects' = Append(objects,
             [id |-> id, client |-> req[w].client, strict |-> req[w].what = "strict",
              completed |-> FALSE, requires |-> TRUE, received |-> FALSE])
  BY DEF Insert, Taken
<1>2. [id |-> id, client |-> req[w].client, strict |-> req[w].what = "strict",
       completed |-> FALSE, requires |-> TRUE, received |-> FALSE] \in Session
  BY <1>a DEF Posed, Drawn, Session
<1>3. /\ Len(objects') = n
      /\ \A o \in 1 .. Len(objects) : objects'[o] = objects[o]
      /\ objects'[n].id = id /\ objects'[n].client = req[w].client
      /\ objects'[n].received = FALSE
  BY <1>a, <1>1, <1>2, Added DEF TypeOK
<1>4. /\ pc'[w] = "complete" /\ found'[w] = n
      /\ \A v \in Workers \ {w} : pc'[v] = pc[v] /\ found'[v] = found[v]
      /\ UNCHANGED <<req, current, meta, known, deleted, late, acknowledged>>
  BY <1>a DEF Insert, Goto, TypeOK, context
<1>5. id \in Ids /\ id \notin deleted /\ listed'[id] = n /\ \A i \in Ids \ {id} : listed'[i] = listed[i]
  BY <1>a, <1>1 DEF Drawn, TypeOK
<1>6. \A v \in Workers : found[v] \in 0 .. Len(objects) /\ found[v] # n
  BY <1>a DEF TypeOK
<1>7. Unfinished' = Unfinished \cup {n}
  BY <1>a, <1>3, <1>4, <1>6 DEF Unfinished, Making
<1>8. \A c \in Clients : Own[c] \subseteq Own'[c]
  <2>1. \A o \in 1 .. Len(objects) : o \in Unfinished' => o \in Unfinished
    BY <1>a, <1>7
  <2> QED BY <1>a, <1>1, <1>3, <1>4, <1>5, <2>1, OwnGrows
<1>9. SessionsAreSeparate'
  BY <1>a, <1>3, <1>4, <1>6 DEF Inv, SessionsAreSeparate, Making
<1>10. Listing'
  <2>1. \A i \in Ids : listed'[i] # 0 => objects'[listed'[i]].id = i /\ i \notin deleted
    <3> SUFFICES ASSUME NEW i \in Ids, listed'[i] # 0
                 PROVE  objects'[listed'[i]].id = i /\ i \notin deleted
      OBVIOUS
    <3>1. CASE i = id
      BY <3>1, <1>3, <1>5
    <3>2. CASE i # id
      <4>1. listed'[i] = listed[i] /\ listed[i] \in 1 .. Len(objects)
        BY <3>2, <1>a, <1>5 DEF TypeOK
      <4> QED BY <4>1, <1>3 DEF Inv, Listing
    <3> QED BY <3>1, <3>2
  <2>2. \A o \in 1 .. n : objects'[o].id \in deleted \/ listed'[objects'[o].id] = o
    <3> SUFFICES ASSUME NEW o \in 1 .. n
                 PROVE  objects'[o].id \in deleted \/ listed'[objects'[o].id] = o
      OBVIOUS
    <3>1. CASE o = n
      BY <3>1, <1>3, <1>5
    <3>2. CASE o # n
      <4>1. o \in 1 .. Len(objects) /\ o # 0
        BY <3>2, <1>a
      <4>2. objects'[o] = objects[o] /\ objects[o].id \in Ids
        BY <4>1, <1>a, <1>3, SessionOf DEF Session
      <4>3. objects[o].id \in deleted \/ listed[objects[o].id] = o
        BY <4>1 DEF Inv, Listing
      <4> QED BY <4>1, <4>2, <4>3, <1>1, <1>5
    <3> QED BY <3>1, <3>2
  <2> QED BY <1>3, <1>4, <2>1, <2>2 DEF Listing
<1>11. Earned'
  <2>1. \A c \in Clients : known'[c] \subseteq Own'[c]
    BY <1>4, <1>8 DEF Inv, Earned
  <2>2. \A v \in Workers : meta'[v] # None => pc'[v] # "idle" /\ meta'[v] \in Own'[req'[v].client]
    BY <1>a, <1>4, <1>8 DEF Inv, Earned, Posed
  <2> QED BY <2>1, <2>2 DEF Earned
<1>12. Meant'
  <2>1. \A o \in 1 .. n : o = n \/ o \in 1 .. Len(objects)
    BY <1>a
  <2>2. \A o \in 1 .. n :
          /\ objects'[o].strict /\ objects'[o].received => o \in acknowledged
          /\ o \notin Unfinished' => objects'[o].requires = objects'[o].strict
    BY <2>1, <1>3, <1>7 DEF Inv, Meant
  <2>3. \A v \in Workers \ {w} : pc[v] \in Making => found[v] \in 1 .. Len(objects)
    BY <1>a DEF Posed, TypeOK
  <2>4. \A v \in Workers :
          /\ pc'[v] \in Making => ~objects'[found'[v]].received
          /\ pc'[v] = "receive" => objects'[found'[v]].requires = objects'[found'[v]].strict
    BY <2>3, <1>3, <1>4 DEF Inv, Meant, Making
  <2> QED BY <2>2, <2>4, <1>3, <1>4 DEF Meant
<1>13. Timely'
  <2>1. \A v \in Workers : pc[v] \in {"serve", "call"} => found[v] \in 1 .. Len(objects)
    BY <1>a DEF Posed, TypeOK
  <2> QED BY <2>1, <1>3, <1>4 DEF Inv, Timely, Claim
<1> QED BY <1>9, <1>10, <1>11, <1>12, <1>13 DEF Inv

(* A store that leaves a session in the making. *)
LEMMA StoreKeepsInv ==
  ASSUME Inv, Typed', NEW w \in Workers, StoreCompleted(w) \/ StoreRequires(w)
  PROVE  Inv'
<1> DEFINE o == found[w]
<1>a. /\ TypeOK /\ Posed /\ pc[w] \in Making
      /\ pc[w] = "complete" \/ pc[w] = "require"
  BY DEF Inv, Typed, StoreCompleted, StoreRequires, Making
<1>b. o \in 1 .. Len(objects)
  BY <1>a DEF Posed, TypeOK
<1>c. objects[o] \in Session
  BY <1>a, <1>b, SessionOf
<1>1. PICK t \in Session :
        /\ objects' = [objects EXCEPT ![o] = t]
        /\ t.id = objects[o].id /\ t.client = objects[o].client /\ t.strict = objects[o].strict
        /\ t.received = objects[o].received
        /\ StoreRequires(w) => t.requires = objects[o].strict
  <2>1. CASE StoreCompleted(w)
    <3> DEFINE t == [objects[o] EXCEPT !.completed = TRUE]
    <3>1. t \in Session /\ objects' = [objects EXCEPT ![o] = t] /\ ~StoreRequires(w)
      BY <2>1, <1>c, Flag DEF StoreCompleted, StoreRequires
    <3>2. /\ t.id = objects[o].id /\ t.client = objects[o].client /\ t.strict = objects[o].strict
          /\ t.received = objects[o].received
      BY <1>c DEF Session
    <3> HIDE DEF t
    <3> QED BY <3>1, <3>2
  <2>2. CASE StoreRequires(w)
    <3> DEFINE t == [objects[o] EXCEPT !.requires = objects[o].strict]
    <3>1. t \in Session /\ objects' = [objects EXCEPT ![o] = t]
      BY <2>2, <1>c, Flag DEF StoreRequires, Session
    <3>2. /\ t.id = objects[o].id /\ t.client = objects[o].client /\ t.strict = objects[o].strict
          /\ t.received = objects[o].received /\ t.requires = objects[o].strict
      BY <1>c DEF Session
    <3> HIDE DEF t
    <3> QED BY <3>1, <3>2
  <2> QED BY <2>1, <2>2
<1>2. PICK label \in {"require", "receive"} :
        /\ pc' = [pc EXCEPT ![w] = label]
        /\ label = "receive" => StoreRequires(w)
  BY DEF StoreCompleted, StoreRequires, Goto
<1>3. pc'[w] = label /\ \A v \in Workers \ {w} : pc'[v] = pc[v]
  BY <1>a, <1>2 DEF TypeOK
<1>4. /\ Len(objects') = Len(objects) /\ objects'[o] = t
      /\ \A p \in 1 .. Len(objects) : p # o => objects'[p] = objects[p]
  BY <1>a, <1>b, <1>1, Stored
<1>5. UNCHANGED <<req, current, meta, found, listed, known, deleted, late, acknowledged>>
  BY DEF StoreCompleted, StoreRequires, local, context
<1>6. Unfinished' = Unfinished
  BY <1>a, <1>2, <1>4, <1>5, UnfinishedStays DEF Making
<1> HIDE DEF o
<1>7. \A p \in 1 .. Len(objects) : /\ objects'[p].id = objects[p].id
                                   /\ objects'[p].client = objects[p].client
                                   /\ objects'[p].strict = objects[p].strict
                                   /\ objects'[p].received = objects[p].received
  BY <1>1, <1>4
<1>8. Own' = Own
  BY <1>a, <1>5, <1>6, <1>7 DEF Own, TypeOK
<1>9. \A v \in Workers : found[v] \in 0 .. Len(objects)
  BY <1>a DEF TypeOK
<1>10. SessionsAreSeparate'
  BY <1>a, <1>2, <1>3, <1>5, <1>7, <1>9 DEF Inv, SessionsAreSeparate, Making
<1>11. Listing'
  BY <1>4, <1>5, <1>7, ListingStays
<1>12. Earned'
  BY <1>3, <1>5, <1>8 DEF Inv, Earned
<1>13. Meant'
  <2>1. o \in Unfinished
    BY <1>a, <1>b DEF Unfinished, o
  <2>2. \A p \in 1 .. Len(objects) :
          /\ objects'[p].strict /\ objects'[p].received => p \in acknowledged
          /\ p \notin Unfinished => objects'[p].requires = objects'[p].strict
    BY <1>4, <1>7, <2>1 DEF Inv, Meant
  <2>3. \A v \in Workers : pc[v] \in Making => found[v] \in 1 .. Len(objects)
    BY <1>a DEF Posed, TypeOK
  <2>4. \A v \in Workers : pc'[v] \in Making => ~objects'[found[v]].received
    BY <1>a, <1>3, <1>7, <2>3 DEF Inv, Meant
  <2>5. \A v \in Workers : pc'[v] = "receive" => objects'[found[v]].requires = objects'[found[v]].strict
    <3> SUFFICES ASSUME NEW v \in Workers, pc'[v] = "receive"
                 PROVE  objects'[found[v]].requires = objects'[found[v]].strict
      OBVIOUS
    <3>1. CASE v = w
      BY <3>1, <1>1, <1>2, <1>3, <1>4 DEF o
    <3>2. CASE v # w
      <4>1. pc[v] = "receive" /\ found[v] \in 1 .. Len(objects)
        BY <3>2, <1>3, <2>3 DEF Making
      <4>2. found[v] # o
        BY <3>2, <1>a DEF Inv, SessionsAreSeparate, o
      <4> QED BY <4>1, <4>2, <1>4 DEF Inv, Meant
    <3> QED BY <3>1, <3>2
  <2> QED BY <1>4, <1>5, <1>6, <2>2, <2>4, <2>5 DEF Meant
<1>14. Timely'
  <2>1. \A v \in Workers : pc[v] \in {"serve", "call"} => found[v] \in 1 .. Len(objects)
    BY <1>a DEF Posed, TypeOK
  <2> QED BY <2>1, <1>2, <1>3, <1>5, <1>7 DEF Inv, Timely, Claim
<1> QED BY <1>10, <1>11, <1>12, <1>13, <1>14 DEF Inv

(* The id of a finished session of a client is the client's own. *)
LEMMA IdIsOwn ==
  ASSUME TypeOK, Listing, NEW o \in 1 .. Len(objects), o \notin Unfinished,
         NEW c \in Clients, objects[o].client = c
  PROVE  objects[o].id \in Own[c]
<1>1. objects[o].id \in Ids /\ o # 0
  BY SessionOf DEF Session
<1>2. objects[o].id \in deleted \/ listed[objects[o].id] = o
  BY DEF Listing
<1> QED BY <1>1, <1>2 DEF Own

LEMMA ReceivedKeepsInv ==
  ASSUME Inv, Typed', NEW w \in Workers, StoreReceived(w)
  PROVE  Inv'
<1> DEFINE o == found[w]
<1>a. TypeOK /\ Posed /\ pc[w] = "receive" /\ pc[w] \in Making
  BY DEF Inv, Typed, StoreReceived, Making
<1>b. o \in 1 .. Len(objects)
  BY <1>a DEF Posed, TypeOK
<1>c. objects[o] \in Session /\ objects[o].requires = objects[o].strict
  BY <1>a, <1>b, SessionOf DEF Inv, Meant
<1>1. PICK t \in Session :
        /\ objects' = [objects EXCEPT ![o] = t]
        /\ t.id = objects[o].id /\ t.client = objects[o].client /\ t.strict = objects[o].strict
        /\ t.requires = objects[o].requires /\ t.received = ~objects[o].requires
  <2> DEFINE t == [objects[o] EXCEPT !.received = ~objects[o].requires]
  <2>1. t \in Session /\ objects' = [objects EXCEPT ![o] = t]
    BY <1>c, Flag, ZenonT(40) DEF StoreReceived, Session
  <2>2. /\ t.id = objects[o].id /\ t.client = objects[o].client /\ t.strict = objects[o].strict
        /\ t.requires = objects[o].requires /\ t.received = ~objects[o].requires
    BY <1>c DEF Session
  <2> HIDE DEF t
  <2> QED BY <2>1, <2>2
<1>2. pc' = [pc EXCEPT ![w] = "reply"]
  BY <1>a, Answered DEF StoreReceived
<1>3. pc'[w] = "reply" /\ \A v \in Workers \ {w} : pc'[v] = pc[v]
  BY <1>a, <1>2 DEF TypeOK
<1>4. /\ Len(objects') = Len(objects) /\ objects'[o] = t
      /\ \A p \in 1 .. Len(objects) : p # o => objects'[p] = objects[p]
  BY <1>a, <1>b, <1>1, Stored
<1>5. /\ UNCHANGED <<req, current, found, listed, known, deleted, late, acknowledged>>
      /\ meta'[w] = objects[o].id /\ \A v \in Workers \ {w} : meta'[v] = meta[v]
  BY <1>a DEF StoreReceived, local, TypeOK
<1>6. Unfinished' = Unfinished \ {o}
  <2>1. \A v \in Workers \ {w} : found[v] # o
    BY <1>a DEF Inv, SessionsAreSeparate
  <2>2. "reply" \notin Making
    BY DEF Making
  <2> QED BY <2>1, <2>2, <1>3, <1>4, <1>5 DEF Unfinished
<1>7. \A p \in 1 .. Len(objects) : /\ objects'[p].id = objects[p].id
                                   /\ objects'[p].client = objects[p].client
                                   /\ objects'[p].strict = objects[p].strict
                                   /\ objects'[p].requires = objects[p].requires
  BY <1>1, <1>4
<1>8. \A c \in Clients : Own[c] \subseteq Own'[c]
  BY <1>a, <1>5, <1>6, <1>7, OwnGrows
<1>10. SessionsAreSeparate'
  <2>1. \A v \in Workers : found[v] \in 0 .. Len(objects)
    BY <1>a DEF TypeOK
  <2> QED BY <2>1, <1>3, <1>5, <1>7 DEF Inv, SessionsAreSeparate, Making
<1>11. Listing'
  BY <1>4, <1>5, <1>7, ListingStays
<1>12. Earned'
  <2>1. req[w].client \in Clients /\ objects[o].client = req[w].client
    BY <1>a, <1>b DEF Posed, Inv, SessionsAreSeparate
  <2>2. objects[o].id \in Own'[req[w].client]
    <3>1. objects[o].id \in Ids /\ o # 0
      BY <1>b, <1>c DEF Session
    <3>2. objects[o].id \in deleted \/ listed[objects[o].id] = o
      BY <1>b DEF Inv, Listing
    <3> QED BY <1>1, <1>4, <1>5, <1>6, <2>1, <3>1, <3>2 DEF Own
  <2>3. \A c \in Clients : known'[c] \subseteq Own'[c]
    BY <1>5, <1>8 DEF Inv, Earned
  <2>4. \A v \in Workers : meta'[v] # None => pc'[v] # "idle" /\ meta'[v] \in Own'[req'[v].client]
    BY <1>a, <1>3, <1>5, <1>8, <2>2 DEF Inv, Earned, Posed
  <2> QED BY <2>3, <2>4 DEF Earned
<1>13. Meant'
  <2>1. ~(t.strict /\ t.received)
    BY <1>1, <1>c
  <2>2. \A p \in 1 .. Len(objects) :
          /\ objects'[p].strict /\ objects'[p].received => p \in acknowledged
          /\ p \notin Unfinished' => objects'[p].requires = objects'[p].strict
    BY <1>1, <1>4, <1>6, <1>c, <2>1 DEF Inv, Meant
  <2>3. \A v \in Workers : pc'[v] \in Making => /\ v # w /\ found[v] \in 1 .. Len(objects)
                                                /\ found[v] # o
    BY <1>a, <1>3 DEF Posed, TypeOK, Inv, SessionsAreSeparate, Making
  <2>4. \A v \in Workers :
          /\ pc'[v] \in Making => ~objects'[found[v]].received
          /\ pc'[v] = "receive" => objects'[found[v]].requires = objects'[found[v]].strict
    BY <1>3, <1>4, <2>3 DEF Inv, Meant, Making
  <2> QED BY <1>4, <1>5, <2>2, <2>4 DEF Meant
<1>14. Timely'
  <2>1. \A v \in Workers : pc[v] \in {"serve", "call"} => found[v] \in 1 .. Len(objects)
    BY <1>a DEF Posed, TypeOK
  <2> QED BY <2>1, <1>3, <1>5, <1>7 DEF Inv, Timely, Claim
<1> QED BY <1>10, <1>11, <1>12, <1>13, <1>14 DEF Inv

LEMMA DeleteKeepsInv ==
  ASSUME Inv, Typed', NEW w \in Workers, Delete(w)
  PROVE  Inv'
<1>a. TypeOK /\ Posed /\ pc[w] = "delete"
  BY DEF Inv, Typed, Delete
<1>1. pc' = [pc EXCEPT ![w] = "reply"]
  BY <1>a, Answered DEF Delete
<1>2. pc'[w] = "reply" /\ \A v \in Workers \ {w} : pc'[v] = pc[v]
  BY <1>a, <1>1 DEF TypeOK
<1>3. /\ UNCHANGED <<req, current, meta, found, objects, known, late, acknowledged>>
      /\ \A i \in Ids : listed'[i] = IF i = current[w] THEN 0 ELSE listed[i]
      /\ deleted' = deleted \cup ({current[w]} \ {None})
  BY DEF Delete, DeletionTarget, local, context
<1>4. \A i \in Ids : i = current[w] => i \in deleted'
  BY <1>3
<1>5. Unfinished' = Unfinished
  BY <1>a, <1>1, <1>3, UnfinishedStays DEF Making
<1>6. \A c \in Clients : Own[c] \subseteq Own'[c]
  BY <1>a, <1>3, <1>4, <1>5, OwnGrows
<1>7. SessionsAreSeparate'
  BY <1>2, <1>3 DEF Inv, SessionsAreSeparate, Making
<1>8. Listing'
  <2>1. \A i \in Ids : listed'[i] # 0 => objects'[listed'[i]].id = i /\ i \notin deleted'
    BY <1>3 DEF Inv, Listing
  <2>2. \A o \in 1 .. Len(objects') : objects[o].id \in Ids
    BY <1>a, <1>3, SessionOf DEF Session
  <2>3. \A o \in 1 .. Len(objects') : objects'[o].id \in deleted' \/ listed'[objects'[o].id] = o
    BY <1>3, <1>4, <2>2 DEF Inv, Listing
  <2> QED BY <2>1, <2>3 DEF Listing
<1>9. Earned'
  <2>1. \A c \in Clients : known'[c] \subseteq Own'[c]
    BY <1>3, <1>6 DEF Inv, Earned
  <2>2. \A v \in Workers : meta'[v] # None => pc'[v] # "idle" /\ meta'[v] \in Own'[req'[v].client]
    BY <1>a, <1>2, <1>3, <1>6 DEF Inv, Earned, Posed
  <2> QED BY <2>1, <2>2 DEF Earned
<1>10. Meant'
  BY <1>2, <1>3, <1>5 DEF Inv, Meant, Making
<1>11. Timely'
  BY <1>2, <1>3 DEF Inv, Timely, Claim
<1> QED BY <1>7, <1>8, <1>9, <1>10, <1>11 DEF Inv

LEMMA FindKeepsInv ==
  ASSUME Inv, Typed', NEW w \in Workers, Find(w)
  PROVE  Inv'
<1>a. TypeOK /\ Posed /\ pc[w] = "find" /\ req[w].client \in Clients
  BY DEF Inv, Typed, Find, Posed
<1>1. PICK label \in {"acknowledge", "gate"} : pc' = [pc EXCEPT ![w] = label]
  BY DEF Find, Goto
<1>2. pc'[w] = label /\ \A v \in Workers \ {w} : pc'[v] = pc[v]
  BY <1>a, <1>1 DEF TypeOK
<1>3. /\ UNCHANGED <<req, current, meta, listed, objects, known, deleted, late, acknowledged>>
      /\ found'[w] = IF Claim(w) = None THEN 0 ELSE listed[Claim(w)]
      /\ \A v \in Workers \ {w} : found'[v] = found[v]
  BY <1>a DEF Find, context, sessions, TypeOK
<1>4. Claim(w) # None => Claim(w) \in Own[req[w].client]
  BY <1>a DEF Claim, ClaimIn, Posed, Inv, Earned
<1>5. found'[w] # 0 => /\ Claim(w) \in Ids /\ Claim(w) \notin deleted
                       /\ objects[found'[w]].client = req[w].client
                       /\ found'[w] \notin Unfinished
  BY <1>a, <1>3, <1>4 DEF Own, Inv, Listing
<1>6. Unfinished' = Unfinished
  BY <1>a, <1>1, <1>3, UnfinishedStays DEF Making
<1>7. Own' = Own
  BY <1>3, <1>6 DEF Own
<1>8. SessionsAreSeparate'
  <2>1. \A v \in Workers : pc[v] \in Making => found[v] \in Unfinished /\ found[v] # 0
    BY <1>a DEF Posed, TypeOK, Unfinished
  <2>2. \A v \in Workers : found'[v] # 0 => objects'[found'[v]].client = req'[v].client
    BY <1>3, <1>5 DEF Inv, SessionsAreSeparate
  <2>3. \A v, u \in Workers : pc'[v] \in Making /\ u # v => found'[u] # found'[v]
    BY <1>2, <1>3, <1>5, <2>1 DEF Inv, SessionsAreSeparate, Making
  <2> QED BY <2>2, <2>3 DEF SessionsAreSeparate
<1>9. Listing'
  BY <1>3 DEF Inv, Listing
<1>10. Earned'
  BY <1>2, <1>3, <1>7 DEF Inv, Earned
<1>11. Meant'
  BY <1>2, <1>3, <1>6 DEF Inv, Meant, Making
<1>12. Timely'
  <2>1. found'[w] # 0 => ~late[w]
    BY <1>a, <1>5 DEF Inv, Timely
  <2> QED BY <1>2, <1>3, <2>1 DEF Inv, Timely, Claim
<1> QED BY <1>8, <1>9, <1>10, <1>11, <1>12 DEF Inv

LEMMA AcknowledgeKeepsInv ==
  ASSUME Inv, Typed', NEW w \in Workers, Acknowledge(w)
  PROVE  Inv'
<1> DEFINE o == found[w]
<1>a. TypeOK /\ Posed /\ pc[w] = "acknowledge" /\ pc[w] \notin Making
  BY DEF Inv, Typed, Acknowledge, Making
<1>b. o \in 1 .. Len(objects) /\ o \notin Unfinished
  BY <1>a, HeldIsFinished DEF Acknowledge, Initialized, TypeOK
<1>c. objects[o] \in Session
  BY <1>a, <1>b, SessionOf
<1>1. PICK t \in Session :
        /\ objects' = [objects EXCEPT ![o] = t]
        /\ t.id = objects[o].id /\ t.client = objects[o].client /\ t.strict = objects[o].strict
        /\ t.requires = objects[o].requires
  <2> DEFINE t == [objects[o] EXCEPT !.received = TRUE]
  <2>1. t \in Session /\ objects' = [objects EXCEPT ![o] = t]
    BY <1>c, Flag DEF Acknowledge
  <2>2. /\ t.id = objects[o].id /\ t.client = objects[o].client /\ t.strict = objects[o].strict
        /\ t.requires = objects[o].requires
    BY <1>c DEF Session
  <2> HIDE DEF t
  <2> QED BY <2>1, <2>2
<1>2. pc' = [pc EXCEPT ![w] = "reply"]
  BY <1>a, Answered DEF Acknowledge
<1>3. pc'[w] = "reply" /\ \A v \in Workers \ {w} : pc'[v] = pc[v]
  BY <1>a, <1>2 DEF TypeOK
<1>4. /\ Len(objects') = Len(objects) /\ objects'[o] = t
      /\ \A p \in 1 .. Len(objects) : p # o => objects'[p] = objects[p]
  BY <1>a, <1>b, <1>1, Stored
<1>5. /\ UNCHANGED <<req, current, found, listed, known, deleted, late>>
      /\ acknowledged' = acknowledged \cup {o}
      /\ meta'[w] = objects[o].id /\ \A v \in Workers \ {w} : meta'[v] = meta[v]
  BY <1>a DEF Acknowledge, local, TypeOK
<1>6. Unfinished' = Unfinished
  BY <1>a, <1>2, <1>4, <1>5, UnfinishedStays DEF Making
<1>7. \A p \in 1 .. Len(objects) : /\ objects'[p].id = objects[p].id
                                   /\ objects'[p].client = objects[p].client
                                   /\ objects'[p].strict = objects[p].strict
                                   /\ objects'[p].requires = objects[p].requires
  BY <1>1, <1>4
<1>8. Own' = Own
  BY <1>a, <1>5, <1>6, <1>7 DEF Own, TypeOK
<1>9. objects[o].id \in Own[req[w].client] /\ req[w].client \in Clients
  <2>1. req[w].client \in Clients /\ objects[o].client = req[w].client
    BY <1>a, <1>b DEF Posed, Inv, SessionsAreSeparate
  <2> QED BY <1>a, <1>b, <2>1, IdIsOwn DEF Inv
<1>10. SessionsAreSeparate'
  <2>1. \A v \in Workers : found[v] \in 0 .. Len(objects)
    BY <1>a DEF TypeOK
  <2> QED BY <2>1, <1>3, <1>5, <1>7 DEF Inv, SessionsAreSeparate, Making
<1>11. Listing'
  BY <1>4, <1>5, <1>7, ListingStays
<1>12. Earned'
  BY <1>3, <1>5, <1>8, <1>9 DEF Inv, Earned
<1>13. Meant'
  <2>1. \A p \in 1 .. Len(objects) :
          /\ objects'[p].strict /\ objects'[p].received => p \in acknowledged'
          /\ p \notin Unfinished => objects'[p].requires = objects'[p].strict
    BY <1>4, <1>5, <1>7 DEF Inv, Meant
  <2>2. \A v \in Workers : pc'[v] \in Making => /\ v # w /\ found[v] \in 1 .. Len(objects)
                                                /\ found[v] # o
    BY <1>a, <1>3 DEF Posed, TypeOK, Inv, SessionsAreSeparate, Making
  <2>3. \A v \in Workers :
          /\ pc'[v] \in Making => ~objects'[found[v]].received
          /\ pc'[v] = "receive" => objects'[found[v]].requires = objects'[found[v]].strict
    BY <1>3, <1>4, <2>2 DEF Inv, Meant, Making
  <2> QED BY <1>4, <1>5, <1>6, <2>1, <2>3 DEF Meant
<1>14. Timely'
  <2>1. \A v \in Workers : pc[v] \in {"serve", "call"} => found[v] \in 1 .. Len(objects)
    BY <1>a DEF Posed, TypeOK
  <2> QED BY <2>1, <1>3, <1>5, <1>7 DEF Inv, Timely, Claim
<1> QED BY <1>10, <1>11, <1>12, <1>13, <1>14 DEF Inv

LEMMA AdmitKeepsInv ==
  ASSUME Inv, Typed', NEW w \in Workers, Admit(w)
  PROVE  Inv'
<1> DEFINE o == found[w]
<1>a. TypeOK /\ Posed /\ pc[w] = "gate" /\ pc[w] \notin Making
  BY DEF Inv, Typed, Admit, Making
<1>b. o \in 1 .. Len(objects) /\ o # 0 /\ o \notin Unfinished
  BY <1>a, HeldIsFinished DEF Admit, Ready, Initialized, TypeOK
<1>1. pc' = [pc EXCEPT ![w] = "serve"]
  BY DEF Admit, Goto
<1>2. pc'[w] = "serve" /\ \A v \in Workers \ {w} : pc'[v] = pc[v]
  BY <1>a, <1>1 DEF TypeOK
<1>3. /\ UNCHANGED <<req, current, found, listed, objects, known, deleted, late, acknowledged>>
      /\ meta'[w] = objects[o].id /\ \A v \in Workers \ {w} : meta'[v] = meta[v]
  BY <1>a DEF Admit, local, sessions, TypeOK
<1>4. Unfinished' = Unfinished
  BY <1>a, <1>1, <1>3, UnfinishedStays DEF Making
<1>5. Own' = Own
  BY <1>3, <1>4 DEF Own
<1>6. objects[o].id \in Own[req[w].client] /\ req[w].client \in Clients
  <2>1. req[w].client \in Clients /\ objects[o].client = req[w].client
    BY <1>a, <1>b DEF Posed, Inv, SessionsAreSeparate
  <2> QED BY <1>a, <1>b, <2>1, IdIsOwn DEF Inv
<1>7. SessionsAreSeparate' /\ Listing'
  BY <1>2, <1>3 DEF Inv, SessionsAreSeparate, Listing, Making
<1>8. Earned'
  BY <1>2, <1>3, <1>5, <1>6 DEF Inv, Earned
<1>9. Meant'
  BY <1>2, <1>3, <1>4 DEF Inv, Meant, Making
<1>10. Timely'
  <2>1. objects[o].strict => o \in acknowledged
    BY <1>b DEF Inv, Meant, Admit, Ready
  <2>2. ~late[w]
    BY <1>a, <1>b DEF Inv, Timely
  <2> QED BY <1>2, <1>3, <2>1, <2>2 DEF Inv, Timely, Claim
<1> QED BY <1>7, <1>8, <1>9, <1>10 DEF Inv

LEMMA ReplyKeepsInv ==
  ASSUME Inv, Typed', NEW w \in Workers, Reply(w)
  PROVE  Inv'
<1>a. TypeOK /\ Posed /\ pc[w] = "reply" /\ req[w].client \in Clients
  BY DEF Inv, Typed, Reply, Posed
<1>1. pc' = [pc EXCEPT ![w] = "idle"]
  BY DEF Reply, Goto
<1>2. /\ pc'[w] = "idle" /\ found'[w] = 0 /\ meta'[w] = None
      /\ \A v \in Workers \ {w} : /\ pc'[v] = pc[v] /\ found'[v] = found[v] /\ meta'[v] = meta[v]
                                  /\ req'[v] = req[v] /\ current'[v] = current[v]
                                  /\ late'[v] = late[v]
      /\ UNCHANGED <<listed, objects, deleted, acknowledged>>
  BY <1>a, <1>1 DEF Reply, ResponseCleared, TypeOK, sessions
<1>3. Unfinished' = Unfinished
  BY <1>a, <1>1, <1>2, UnfinishedStays DEF Making
<1>4. Own' = Own
  BY <1>2, <1>3 DEF Own
<1>5. \A c \in Clients : known'[c] \subseteq Own[c]
  <2>1. /\ meta[w] # None => meta[w] \in Own[req[w].client]
        /\ req[w].header # None => req[w].header \in Own[req[w].client]
    BY <1>a DEF Inv, Earned, Posed
  <2>2. \A c \in Clients : known[c] \subseteq Own[c]
    BY DEF Inv, Earned
  <2> QED BY <1>a, <2>1, <2>2 DEF Reply, TypeOK
<1>6. SessionsAreSeparate' /\ Listing'
  BY <1>a, <1>2 DEF Inv, Posed, SessionsAreSeparate, Listing, Making
<1>7. Earned'
  BY <1>2, <1>4, <1>5 DEF Inv, Earned
<1>8. Meant'
  BY <1>2, <1>3 DEF Inv, Meant, Making
<1>9. Timely'
  BY <1>2 DEF Inv, Timely, Claim
<1> QED BY <1>6, <1>7, <1>8, <1>9 DEF Inv

LEMMA InvNext == Inv /\ [Next]_vars => Inv'
<1> SUFFICES ASSUME Inv, [Next]_vars PROVE Inv'
  OBVIOUS
<1>a. Typed' /\ TypeOK
  BY TypedNext DEF Inv, Typed
<1> USE DEF local, context, sessions, registry, counters
<1>1. ASSUME NEW w \in Workers, Begin(w) PROVE Inv'
  BY <1>1, <1>a, BeginKeepsInv
<1>2. ASSUME NEW w \in Workers, TurnAway(w) PROVE Inv'
  BY <1>2, <1>a, Still DEF TurnAway
<1>3. ASSUME NEW w \in Workers, Work(w) PROVE Inv'
  <2>1. CASE Refuse(w)
    BY <2>1, <1>a, Answered, Quiet DEF Refuse, Making
  <2>2. CASE Collide(w)
    <3>1. CASE LastDraw(w)
      BY <2>2, <3>1, <1>a, Answered, Quiet DEF Collide, Making
    <3>2. CASE ~LastDraw(w)
      BY <2>2, <3>2, <1>a, Still DEF Collide
    <3> QED BY <3>1, <3>2
  <2>3. CASE Insert(w)
    BY <2>3, <1>a, InsertKeepsInv
  <2>4. CASE StoreCompleted(w) \/ StoreRequires(w)
    BY <2>4, <1>a, StoreKeepsInv
  <2>5. CASE StoreReceived(w)
    BY <2>5, <1>a, ReceivedKeepsInv
  <2>6. CASE Delete(w)
    BY <2>6, <1>a, DeleteKeepsInv
  <2>7. CASE Find(w)
    BY <2>7, <1>a, FindKeepsInv
  <2>8. CASE Acknowledge(w)
    BY <2>8, <1>a, AcknowledgeKeepsInv
  <2>9. CASE TooEarly(w)
    BY <2>9, <1>a, Answered, Quiet DEF TooEarly, Making
  <2>10. CASE Admit(w)
    BY <2>10, <1>a, AdmitKeepsInv
  <2>11. CASE Ping(w)
    BY <2>11, <1>a, Answered, Quiet DEF Ping, Making
  <2>12. CASE LookUp(w)
    BY <2>12, <1>a, Quiet DEF LookUp, Goto, Making
  <2>13. CASE NotFound(w)
    BY <2>13, <1>a, Answered, Quiet DEF NotFound, Making
  <2>14. CASE Call(w)
    BY <2>14, <1>a, Answered, Quiet DEF Call, Making
  <2>15. CASE Route(w)
    <3>1. \E label \in {"respond", "reply"} : pc' = [pc EXCEPT ![w] = label]
      BY <2>15, <1>a, Answered DEF Route, Goto
    <3> QED BY <2>15, <3>1, <1>a, Quiet DEF Route, Making
  <2>16. CASE Respond(w)
    BY <2>16, <1>a, Quiet DEF Respond, Goto, Making
  <2>17. CASE Reply(w)
    BY <2>17, <1>a, ReplyKeepsInv
  <2> QED BY <1>3, <2>1, <2>2, <2>3, <2>4, <2>5, <2>6, <2>7, <2>8, <2>9, <2>10, <2>11,
             <2>12, <2>13, <2>14, <2>15, <2>16, <2>17 DEF Work
<1>4. CASE Registry
  BY <1>4, <1>a, Still DEF Registry, RegisterMethods, UnregisterMethod, RegisterRoute,
     UnregisterRoute
<1>5. CASE UNCHANGED vars
  BY <1>5, <1>a, Still DEF vars
<1> QED BY <1>1, <1>2, <1>3, <1>4, <1>5 DEF Next

(* In every interleaving of any number of workers and clients, with any
   number of colliding draws, a worker holds no session but its client's,
   and nobody holds a session whose flags another is still storing. *)
THEOREM SessionsStaySeparate == Spec => []SessionsAreSeparate
<1>1. Inv => SessionsAreSeparate
  BY DEF Inv
<1> QED BY <1>1, InvInit, InvNext, PTL DEF Spec

(* What is served is served in a session whose initialize has ended, that was
   acknowledged if its protocol version asks for it, and that had not been
   deleted when the request came. *)
THEOREM OnlyReadyIsServed == Spec => []ServedIsReady
<1>1. Inv => ServedIsReady
  BY DEF Inv, Typed, Posed, ServedIsReady, SessionsAreSeparate, Timely, Making
<1> QED BY <1>1, InvInit, InvNext, PTL DEF Spec

(* The flag that notifications/initialized sets is never taken back: the
   store with which initialize sets it comes before anybody else can hold
   the session. *)
THEOREM NotificationsStay == Spec => AcknowledgedStays
<1>1. Inv /\ [Next]_vars =>
        [\A o \in DOMAIN objects : objects[o].received => objects'[o].received]_vars
  <2> SUFFICES ASSUME Inv, Next, NEW o \in DOMAIN objects, objects[o].received
               PROVE  objects'[o].received
    BY DEF vars, sessions
  <2>a. /\ TypeOK /\ Posed /\ o \in 1 .. Len(objects)
        /\ \A p \in 1 .. Len(objects) : objects[p] \in Session
    BY SessionOf DEF Inv, Typed, TypeOK
  <2>1. ASSUME NEW w \in Workers, Insert(w) PROVE objects'[o].received
    BY <2>1, <2>a DEF Insert, TypeOK
  <2>2. ASSUME NEW w \in Workers, StoreCompleted(w) \/ StoreRequires(w) \/ Acknowledge(w)
        PROVE  objects'[o].received
    BY <2>2, <2>a DEF StoreCompleted, StoreRequires, Acknowledge, Session
  <2>3. ASSUME NEW w \in Workers, StoreReceived(w) PROVE objects'[o].received
    <3>1. ~objects[found[w]].received
      BY <2>3 DEF Inv, Meant, StoreReceived, Making
    <3> QED BY <2>3, <3>1, <2>a DEF StoreReceived
  <2>4. CASE UNCHANGED objects
    BY <2>4
  <2>5. ASSUME NEW w \in Workers, Work(w) PROVE objects'[o].received
    BY <2>1, <2>2, <2>3, <2>4, <2>5 DEF Work, Refuse, Collide, Delete, Find, TooEarly, Admit, Ping,
       LookUp, NotFound, Call, Route, Respond, Reply, sessions
  <2> QED BY <2>4, <2>5 DEF Next, Begin, TurnAway, Registry, RegisterMethods, UnregisterMethod,
             RegisterRoute, UnregisterRoute, sessions
<1> QED BY <1>1, InvInit, InvNext, PTL DEF Spec, AcknowledgedStays
=============================================================================
