------------------------ MODULE CatalogClientProofs ------------------------
(***************************************************************************)
(* Proofs about module CatalogClient, for any identifiers and entities and *)
(* any capacity of the channel: type correctness, ViewIsCurrent and        *)
(* NoNilEvent.                                                             *)
(*                                                                         *)
(* ViewIsCurrent speaks of the moments when nothing is on its way; what    *)
(* carries it from one of them to the next is Follows, which says at every *)
(* moment what the reader will know: on a live connection the last word    *)
(* about an id, on the wire, in run's hands, in the channel or in the      *)
(* reader's catalog, is the hub's.  It survives the loss of a connection   *)
(* because it asks nothing without one (Linked) and the init event of the  *)
(* next one says something about every id.  NoNilEvent rests on Unread:    *)
(* run never pauses without having put an event into the channel, and      *)
(* nothing has been taken out before the command leaves its first selects. *)
(***************************************************************************)
EXTENDS CatalogClient, TLAPS

(* What the client handles: the hub's events, an init event with a catalog *)
(* as its payload, and the event the client makes up itself.               *)
Messages == {e \in Events \union {Disconnected} : e.Type = "init" => e.Payload \in Catalogs}

(* The variables have the types their declarations give.                   *)
TypeOK ==
  /\ legacy \in BOOLEAN /\ catalog \in Catalogs /\ wire \in Seq(Messages) /\ link \in BOOLEAN
  /\ run \in {"connecting", "streaming", "sending", "ended", "pause", "over"}
  /\ held \in Messages /\ eventsCh \in Seq(Messages) /\ readyCh \in BOOLEAN
  /\ shutdown \in BOOLEAN /\ shutdownMu \in {"free"} \union Closers
  /\ shutdownErr \in {"nil", "refused", "ErrShutdown"} /\ shutdownCh \in BOOLEAN
  /\ closer \in [Closers -> {"idle", "called", "waiting", "returned"}]
  /\ ctxDone \in BOOLEAN
  /\ list \in {"first", "second", "watch", "ending", "closing", "done"}
  /\ drain \in BOOLEAN /\ view \in Catalogs

(* No event of q is about id; the last one that is says value.             *)
Quiet(q, id) == \A j \in 1 .. Len(q) : ~Touches(q[j], id)
LastSays(q, id, value) ==
  \E i \in 1 .. Len(q) : /\ Touches(q[i], id) /\ Says(q[i], id) = value
                         /\ \A j \in (i + 1) .. Len(q) : ~Touches(q[j], id)

(* The event in run's hands is on its way to the reader and is about id.   *)
Holds(id) == run = "sending" /\ Touches(held, id)

(* The reader ends up with value for id: the latest of the wire, the event *)
(* in run's hands, the channel and the catalog of the reader to speak of   *)
(* id says so.                                                             *)
WillKnow(id, value) ==
  \/ LastSays(wire, id, value)
  \/ Quiet(wire, id) /\ Holds(id) /\ Says(held, id) = value
  \/ Quiet(wire, id) /\ ~Holds(id) /\ Knows(eventsCh, view, id, value)

(* The connection is up only while run reads from it.                      *)
Linked == link => run \in {"streaming", "sending"}

Follows == link => \A id \in Ids : WillKnow(id, catalog[id])

(* While the command is in its first selects nobody has read an event, and *)
(* there is one once run has paused.                                       *)
Unread ==
  /\ drain => list \notin {"first", "second"}
  /\ list \in {"first", "second"} /\ run \in {"pause", "over"} => eventsCh # <<>>

IInv == TypeOK /\ Linked /\ Follows /\ Unread

-----------------------------------------------------------------------------
(* What an event says of an id it is about is an entity or its absence.    *)
LEMMA SaysType ==
  ASSUME NEW e \in Messages, NEW id \in Ids, Touches(e, id)
  PROVE  Says(e, id) \in Infos \union {None}
BY DEF Messages, Says, Touches, Events, Catalogs, Disconnected, Event

(* A published event is one of the hub's, it is about its own id alone,    *)
(* and gRPC does not leave it out.                                         *)
LEMMA PublishedTouches ==
  ASSUME NEW e \in Published
  PROVE  /\ e \in Messages /\ e.ID \in Ids /\ proxyEventToPB(e) = <<e>>
         /\ e.Entity \in Infos \union {None}
         /\ \A id \in Ids : Touches(e, id) <=> e.ID = id
         /\ \A id \in Ids : Says(e, id) = (IF e.Type = "del" THEN None ELSE e.Entity)
BY DEF Published, Add, Del, Update, Event, Events, EventTypes, Touches, Says,
       Messages, proxyEventToPB

(* A published event changes the catalog exactly as a reader replays it.   *)
LEMMA ProcessedSays ==
  ASSUME NEW c \in Catalogs, NEW e \in Published
  PROVE  /\ Processed(c, e) \in Catalogs
         /\ \A id \in Ids : Processed(c, e)[id] =
               IF Touches(e, id) THEN Says(e, id) ELSE c[id]
BY PublishedTouches DEF Processed, Catalogs

(* A ping, the announcement of a lost connection and whatever the client   *)
(* does not pass on are about no id.                                       *)
LEMMA NotPassed ==
  /\ PingEvent \in Messages /\ Disconnected \in Messages
  /\ \A id \in Ids : ~Touches(PingEvent, id)
  /\ \A e \in Messages, id \in Ids : Touches(e, id) => Passed(e)
BY DEF PingEvent, Disconnected, Event, Events, EventTypes, Messages, Touches, Passed

(* A catalog read, event by event, stays a catalog, and is not None.       *)
LEMMA ReplayType ==
  ASSUME NEW v \in Catalogs, NEW e \in Messages
  PROVE  Replay(v, e) \in Catalogs /\ Replay(v, e) # None
BY SaysType, NoneAssumption DEF Replay, Catalogs

(* Appending: a new event about id has the last word, another leaves it.   *)
LEMMA AppendSays ==
  ASSUME NEW q \in Seq(Messages), NEW e \in Messages, NEW id \in Ids, NEW x
  PROVE  /\ Touches(e, id) => LastSays(Append(q, e), id, Says(e, id))
         /\ ~Touches(e, id) /\ Quiet(q, id) => Quiet(Append(q, e), id)
         /\ ~Touches(e, id) /\ LastSays(q, id, x) => LastSays(Append(q, e), id, x)
<1>1. /\ Len(Append(q, e)) = Len(q) + 1 /\ Len(q) \in Nat
      /\ Append(q, e)[Len(q) + 1] = e
      /\ \A i \in 1 .. Len(q) : Append(q, e)[i] = q[i]
  OBVIOUS
<1>2. ASSUME ~Touches(e, id), LastSays(q, id, x)
      PROVE  LastSays(Append(q, e), id, x)
  <2>1. PICK i \in 1 .. Len(q) :
             /\ Touches(q[i], id) /\ Says(q[i], id) = x
             /\ \A j \in (i + 1) .. Len(q) : ~Touches(q[j], id)
    BY <1>2 DEF LastSays
  <2>2. \A j \in (i + 1) .. (Len(q) + 1) : ~Touches(Append(q, e)[j], id)
    BY <1>1, <1>2, <2>1
  <2>3. i \in 1 .. (Len(q) + 1) /\ Append(q, e)[i] = q[i]
    BY <1>1
  <2> QED
    BY <1>1, <2>1, <2>2, <2>3 DEF LastSays
<1>3. Touches(e, id) => LastSays(Append(q, e), id, Says(e, id))
  BY <1>1 DEF LastSays
<1>4. ~Touches(e, id) /\ Quiet(q, id) => Quiet(Append(q, e), id)
  BY <1>1 DEF Quiet
<1> QED
  BY <1>2, <1>3, <1>4

(* Taking the head: it had the last word, or the tail still has it.        *)
LEMMA TailSays ==
  ASSUME NEW q \in Seq(Messages), q # <<>>, NEW id \in Ids, NEW x
  PROVE  /\ Quiet(q, id) => ~Touches(Head(q), id) /\ Quiet(Tail(q), id)
         /\ LastSays(q, id, x) =>
              \/ LastSays(Tail(q), id, x)
              \/ Touches(Head(q), id) /\ Says(Head(q), id) = x /\ Quiet(Tail(q), id)
<1>1. /\ Len(Tail(q)) = Len(q) - 1 /\ Len(q) \in Nat \ {0}
      /\ Head(q) = q[1]
      /\ \A i \in 1 .. Len(Tail(q)) : Tail(q)[i] = q[i + 1]
  OBVIOUS
<1>2. Quiet(q, id) => ~Touches(Head(q), id) /\ Quiet(Tail(q), id)
  BY <1>1 DEF Quiet
<1>3. ASSUME LastSays(q, id, x)
      PROVE  \/ LastSays(Tail(q), id, x)
             \/ Touches(Head(q), id) /\ Says(Head(q), id) = x /\ Quiet(Tail(q), id)
  <2>1. PICK i \in 1 .. Len(q) :
             /\ Touches(q[i], id) /\ Says(q[i], id) = x
             /\ \A j \in (i + 1) .. Len(q) : ~Touches(q[j], id)
    BY <1>3 DEF LastSays
  <2>2. CASE i = 1
    <3>1. \A j \in 1 .. Len(Tail(q)) : ~Touches(Tail(q)[j], id)
      BY <1>1, <2>1, <2>2
    <3> QED
      BY <1>1, <2>1, <2>2, <3>1 DEF Quiet
  <2>3. CASE i # 1
    <3>1. i - 1 \in 1 .. Len(Tail(q)) /\ Tail(q)[i - 1] = q[i]
      BY <1>1, <2>1, <2>3
    <3>2. \A j \in ((i - 1) + 1) .. Len(Tail(q)) : ~Touches(Tail(q)[j], id)
      BY <1>1, <2>1, <2>3
    <3> QED
      BY <2>1, <3>1, <3>2 DEF LastSays
  <2> QED
    BY <2>2, <2>3
<1> QED
  BY <1>2, <1>3

(* What the reader will know from the channel, in the words above.         *)
LEMMA KnowsSays ==
  ASSUME NEW q, NEW v, NEW id, NEW x
  PROVE  Knows(q, v, id, x) <=>
           LastSays(q, id, x) \/ (Quiet(q, id) /\ v # None /\ v[id] = x)
BY DEF Knows, LastSays, Quiet

(* Reading the next event changes nothing in what the reader will know.    *)
LEMMA KnowsRead ==
  ASSUME NEW q \in Seq(Messages), NEW v \in Catalogs, NEW id \in Ids, NEW x, q # <<>>,
         Knows(q, v, id, x)
  PROVE  Knows(Tail(q), Replay(v, Head(q)), id, x)
<1>1. Head(q) \in Messages
  OBVIOUS
<1>2. /\ Replay(v, Head(q)) # None
      /\ Replay(v, Head(q))[id] = IF Touches(Head(q), id) THEN Says(Head(q), id) ELSE v[id]
  BY <1>1, ReplayType DEF Replay
<1>3. CASE LastSays(q, id, x)
  <2>1. \/ LastSays(Tail(q), id, x)
        \/ Touches(Head(q), id) /\ Says(Head(q), id) = x /\ Quiet(Tail(q), id)
    BY <1>3, TailSays
  <2> QED
    BY <1>2, <2>1, KnowsSays
<1>4. CASE Quiet(q, id) /\ v[id] = x
  <2>1. ~Touches(Head(q), id) /\ Quiet(Tail(q), id)
    BY <1>4, TailSays
  <2> QED
    BY <1>2, <1>4, <2>1, KnowsSays
<1> QED
  BY <1>3, <1>4, KnowsSays

-----------------------------------------------------------------------------
(* The initial state satisfies the inductive invariant.                    *)
LEMMA InitIInv == Init => IInv
<1> SUFFICES ASSUME Init PROVE IInv
  OBVIOUS
<1>1. view \in Catalogs /\ closer \in [Closers -> {"idle", "called", "waiting", "returned"}]
  BY DEF Init, EmptyCatalog, Catalogs
<1>2. held \in Messages /\ wire \in Seq(Messages) /\ eventsCh \in Seq(Messages)
  BY NotPassed DEF Init
<1>3. TypeOK
  BY <1>1, <1>2 DEF Init, TypeOK
<1> QED
  BY <1>3 DEF Init, IInv, Linked, Follows, Unread

(* The hub pings the subscriber, or leaves the ping out.                   *)
LEMMA PingIInv == ASSUME IInv, HubPing PROVE IInv'
<1>1. TypeOK
  BY DEF IInv
<1>2. wire' = wire \/ wire' = Append(wire, PingEvent)
  BY <1>1, NotPassed DEF HubPing, proxyEventToPB, TypeOK
<1>3. wire' \in Seq(Messages)
  BY <1>1, <1>2, NotPassed DEF TypeOK
<1>4. TypeOK'
  BY <1>1, <1>3 DEF HubPing, TypeOK, runVars, closeVars, listVars
<1>5. ASSUME NEW id \in Ids PROVE WillKnow(id, catalog[id])'
  <2>1. WillKnow(id, catalog[id])
    BY DEF IInv, Follows, HubPing
  <2>2. /\ LastSays(wire, id, catalog[id]) => LastSays(wire', id, catalog[id])
        /\ Quiet(wire, id) => Quiet(wire', id)
    BY <1>1, <1>2, NotPassed, AppendSays DEF TypeOK
  <2> QED
    BY <2>1, <2>2 DEF WillKnow, Holds, HubPing, runVars
<1> QED
  BY <1>4, <1>5 DEF IInv, Linked, Follows, Unread, HubPing, runVars, listVars

(* The hub publishes a change, to the subscriber too if there is one.      *)
LEMMA PublishIInv ==
  ASSUME IInv, NEW e \in Published, HubPublish(e)
  PROVE  IInv'
<1>1. TypeOK
  BY DEF IInv
<1>2. e \in Messages /\ proxyEventToPB(e) = <<e>>
  BY PublishedTouches
<1>3. wire' = IF link THEN Append(wire, e) ELSE wire
  <2>1. wire \o <<e>> = Append(wire, e)
    BY <1>1, <1>2 DEF TypeOK
  <2> QED
    BY <1>2, <2>1, Zenon DEF HubPublish
<1>4. wire' \in Seq(Messages)
  BY <1>1, <1>2, <1>3 DEF TypeOK
<1>5. catalog' \in Catalogs
  BY <1>1, ProcessedSays DEF HubPublish, TypeOK
<1>6. TypeOK'
  BY <1>1, <1>4, <1>5 DEF HubPublish, TypeOK, runVars, closeVars, listVars
<1>7. ASSUME link, NEW id \in Ids PROVE WillKnow(id, catalog[id])'
  <2>1. WillKnow(id, catalog[id])
    BY <1>7 DEF IInv, Follows
  <2>2. catalog'[id] = IF Touches(e, id) THEN Says(e, id) ELSE catalog[id]
    BY <1>1, ProcessedSays DEF HubPublish, TypeOK
  <2>3. CASE Touches(e, id)
    <3>1. LastSays(wire', id, catalog'[id])
      BY <1>1, <1>2, <1>3, <1>7, <2>2, <2>3, AppendSays DEF TypeOK
    <3> QED
      BY <3>1 DEF WillKnow
  <2>4. CASE ~Touches(e, id)
    <3>1. /\ LastSays(wire, id, catalog[id]) => LastSays(wire', id, catalog'[id])
          /\ Quiet(wire, id) => Quiet(wire', id)
      BY <1>1, <1>2, <1>3, <1>7, <2>2, <2>4, AppendSays DEF TypeOK
    <3> QED
      BY <2>1, <2>2, <2>4, <3>1 DEF WillKnow, Holds, HubPublish, runVars
  <2> QED
    BY <2>3, <2>4
<1> QED
  BY <1>6, <1>7 DEF IInv, Linked, Follows, Unread, HubPublish, runVars, listVars

(* A connection, whose init event says something about every id.           *)
LEMMA ConnectIInv == ASSUME IInv, Connect PROVE IInv'
<1>1. TypeOK
  BY DEF IInv
<1> DEFINE e == InitEvent(catalog)
<1>2. /\ e \in Messages /\ wire' = <<e>>
      /\ \A id \in Ids : Touches(e, id) /\ Says(e, id) = catalog[id]
  BY <1>1 DEF Connect, TypeOK, InitEvent, Event, Events, EventTypes, Messages, proxyEventToPB,
     Touches, Says
<1>3. TypeOK'
  <2>1. wire' \in Seq(Messages)
    BY <1>2
  <2> QED
    BY <1>1, <2>1 DEF Connect, TypeOK, closeVars, listVars
<1>4. ASSUME NEW id \in Ids PROVE WillKnow(id, catalog[id])'
  <2>1. Len(wire') = 1 /\ wire'[1] = e
    BY <1>2
  <2>2. LastSays(wire', id, catalog[id])
    BY <1>2, <2>1 DEF LastSays
  <2> QED
    BY <2>2 DEF WillKnow, Connect
<1> QED
  BY <1>3, <1>4 DEF IInv, Linked, Follows, Unread, Connect, listVars

(* An event leaves the wire, into run's hands if it says anything.         *)
LEMMA RecvIInv == ASSUME IInv, Recv PROVE IInv'
<1>1. TypeOK
  BY DEF IInv
<1>2. Head(wire) \in Messages /\ wire' \in Seq(Messages) /\ wire # <<>>
  BY <1>1 DEF Recv, TypeOK
<1>3. TypeOK'
  <2>1. readyCh' \in BOOLEAN
    BY DEF Recv
  <2> QED
    BY <1>1, <1>2, <2>1 DEF Recv, TypeOK, closeVars, listVars
<1>4. ASSUME link, NEW id \in Ids PROVE WillKnow(id, catalog[id])'
  <2>1. WillKnow(id, catalog[id]) /\ ~Holds(id)
    BY <1>4 DEF IInv, Follows, Recv, Holds
  <2>2. Touches(Head(wire), id) => Passed(Head(wire))
    BY <1>2, NotPassed
  <2>3. Holds(id)' <=> Touches(Head(wire), id)
    BY <2>2 DEF Holds, Recv
  <2>4. CASE LastSays(wire, id, catalog[id])
    <3>1. \/ LastSays(Tail(wire), id, catalog[id])
          \/ /\ Touches(Head(wire), id) /\ Says(Head(wire), id) = catalog[id]
             /\ Quiet(Tail(wire), id)
      BY <1>1, <1>2, <2>4, TailSays DEF TypeOK
    <3> QED
      BY <2>3, <3>1 DEF WillKnow, Recv
  <2>5. CASE Quiet(wire, id) /\ Knows(eventsCh, view, id, catalog[id])
    <3>1. ~Touches(Head(wire), id) /\ Quiet(Tail(wire), id)
      BY <1>1, <1>2, <2>5, TailSays DEF TypeOK
    <3> QED
      BY <2>3, <2>5, <3>1 DEF WillKnow, Recv
  <2> QED
    BY <2>1, <2>4, <2>5 DEF WillKnow
<1> QED
  BY <1>3, <1>4 DEF IInv, Linked, Follows, Unread, Recv, listVars

(* The event in run's hands goes into the channel.                         *)
LEMMA SendIInv == ASSUME IInv, Send PROVE IInv'
<1>1. TypeOK
  BY DEF IInv
<1>2. eventsCh' = Append(eventsCh, held) /\ eventsCh' \in Seq(Messages) /\ eventsCh' # <<>>
  BY <1>1 DEF Send, TypeOK
<1>3. TypeOK'
  BY <1>1, <1>2 DEF Send, TypeOK, hubVars, closeVars, listVars
<1>4. ASSUME link, NEW id \in Ids PROVE WillKnow(id, catalog[id])'
  <2>1. WillKnow(id, catalog[id]) /\ run = "sending"
    BY <1>4 DEF IInv, Follows, Linked, Send
  <2>2. ~Holds(id)'
    BY <2>1 DEF Holds, Send
  <2>3. CASE LastSays(wire, id, catalog[id])
    BY <2>3 DEF WillKnow, Send, hubVars
  <2>4. CASE Quiet(wire, id) /\ Touches(held, id) /\ Says(held, id) = catalog[id]
    <3>1. LastSays(eventsCh', id, catalog[id])
      BY <1>1, <1>2, <2>4, AppendSays DEF TypeOK
    <3>2. Knows(eventsCh', view', id, catalog[id])
      BY <3>1, KnowsSays
    <3> QED
      BY <2>2, <2>4, <3>2 DEF WillKnow, Send, hubVars
  <2>5. CASE Quiet(wire, id) /\ ~Touches(held, id) /\ Knows(eventsCh, view, id, catalog[id])
    <3>1. Knows(eventsCh', view, id, catalog[id])
      BY <1>1, <1>2, <2>5, AppendSays, KnowsSays DEF TypeOK
    <3> QED
      BY <2>2, <2>5, <3>1 DEF WillKnow, Send, hubVars
  <2> QED
    BY <2>1, <2>3, <2>4, <2>5 DEF WillKnow, Holds
<1>5. Linked' /\ Unread'
  BY <1>2 DEF IInv, Linked, Unread, Send, hubVars, listVars
<1> QED
  BY <1>3, <1>4, <1>5 DEF IInv, Follows, Send, hubVars

(* The command, or its goroutine, takes the next event of the channel.     *)
LEMMA ReadIInv == ASSUME IInv, ListReads \/ Drain PROVE IInv'
<1>1. TypeOK
  BY DEF IInv
<1>2. /\ eventsCh # <<>> /\ Head(eventsCh) \in Messages
      /\ eventsCh' = Tail(eventsCh) /\ eventsCh' \in Seq(Messages)
      /\ view' = Replay(view, Head(eventsCh))
  <2>1. /\ eventsCh # <<>> /\ eventsCh' = Tail(eventsCh)
        /\ view' = Replay(view, Head(eventsCh))
    BY Zenon DEF ListReads, Drain
  <2>2. Head(eventsCh) \in Messages /\ Tail(eventsCh) \in Seq(Messages)
    BY <1>1, <2>1 DEF TypeOK
  <2> QED
    BY <2>1, <2>2
<1>3. view' \in Catalogs
  BY <1>1, <1>2, ReplayType DEF TypeOK
<1>4. UNCHANGED <<legacy, hubVars, runVars, closeVars, ctxDone, drain>>
  BY DEF ListReads, Drain, listVars
<1>5. list' \in {"watch", "ending", "done"} \/ (drain /\ list' = list)
  BY DEF ListReads, Drain, listVars
<1>6. TypeOK'
  BY <1>1, <1>2, <1>3, <1>4, <1>5 DEF TypeOK, hubVars, runVars, closeVars
<1>7. ASSUME link, NEW id \in Ids PROVE WillKnow(id, catalog[id])'
  <2>1. WillKnow(id, catalog[id])
    BY <1>7 DEF IInv, Follows
  <2>2. Knows(eventsCh, view, id, catalog[id]) => Knows(eventsCh', view', id, catalog[id])
    BY <1>1, <1>2, KnowsRead DEF TypeOK
  <2> QED
    BY <1>4, <2>1, <2>2 DEF WillKnow, Holds, hubVars, runVars
<1>8. Linked' /\ Unread'
  BY <1>4, <1>5 DEF IInv, Linked, Unread, hubVars, runVars
<1> QED
  BY <1>4, <1>6, <1>7, <1>8 DEF IInv, Follows, hubVars

(* A connection is lost or given up, or an attempt ends without one.       *)
LEMMA UnlinkedIInv ==
  ASSUME IInv, LinkBreaks \/ ConnectFails \/ ConnectRefused \/ RecvFails \/ Pause
  PROVE  IInv'
<1>1. TypeOK /\ Linked /\ Unread
  BY DEF IInv
<1>2. ~link'
  BY <1>1 DEF Linked, LinkBreaks, ConnectFails, ConnectRefused, RecvFails, Pause, hubVars
<1>3. TypeOK'
  <2>1. CASE ConnectRefused
    BY <1>1, <2>1, NotPassed DEF ConnectRefused, exitErr, TypeOK, hubVars, listVars, Closers
  <2>2. CASE LinkBreaks
    <3>1. link' \in BOOLEAN
      BY <2>2 DEF LinkBreaks
    <3>2. UNCHANGED <<legacy, catalog, wire, runVars, eventsCh, closeVars, ctxDone, listVars, view>>
      BY <2>2, Zenon DEF LinkBreaks
    <3> QED
      BY <1>1, <3>1, <3>2 DEF TypeOK, runVars, closeVars, listVars
  <2>3. CASE ConnectFails
    BY <1>1, <2>3, NotPassed DEF ConnectFails, TypeOK, hubVars, closeVars, listVars
  <2>4. CASE RecvFails
    <3>1. wire' \in Seq(Messages)
      BY <2>4 DEF RecvFails
    <3> QED
      BY <1>1, <2>4, <3>1, NotPassed DEF RecvFails, TypeOK, closeVars, listVars
  <2>5. CASE Pause
    <3>1. run' \in {"connecting", "over"}
      BY <2>5, Zenon DEF Pause
    <3> QED
      BY <1>1, <2>5, <3>1 DEF Pause, TypeOK, hubVars, closeVars, listVars
  <2> QED
    BY <2>1, <2>2, <2>3, <2>4, <2>5
<1>4. Unread'
  BY <1>1 DEF Unread, LinkBreaks, ConnectFails, ConnectRefused, RecvFails, Pause, runVars, listVars
<1> QED
  BY <1>2, <1>3, <1>4 DEF IInv, Linked, Follows

(* Closing, and the steps of the command that read no event, leave the     *)
(* connection, run, the channel and the reader's catalog alone.            *)
LEMMA AsideIInv ==
  ASSUME IInv,
         \/ \E c \in Closers : Close(c) \/ CloseReturns(c)
         \/ Interrupt \/ ListGivesUp \/ ListReady \/ ListCloses \/ ListReturns
  PROVE  IInv'
<1>1. TypeOK /\ Linked /\ Follows /\ Unread
  BY DEF IInv
<1>2. UNCHANGED <<legacy, hubVars, runVars, eventsCh, view>>
  BY DEF Close, CloseReturns, Interrupt, ListGivesUp, ListReady, ListCloses, ListReturns
<1>3. TypeOK'
  <2>1. CASE \E c \in Closers : Close(c) \/ CloseReturns(c)
    <3>1. PICK c \in Closers : Close(c) \/ CloseReturns(c)
      BY <2>1
    <3>2. CASE Close(c) /\ shutdown
      BY <1>1, <3>2 DEF Close, TypeOK, hubVars, runVars, listVars
    <3>3. CASE Close(c) /\ ~shutdown
      BY <1>1, <3>3 DEF Close, TypeOK, hubVars, runVars, listVars
    <3>4. CASE CloseReturns(c)
      BY <1>1, <3>4 DEF CloseReturns, TypeOK, hubVars, runVars, listVars
    <3> QED
      BY <3>1, <3>2, <3>3, <3>4
  <2>2. CASE Interrupt
    BY <1>1, <2>2 DEF Interrupt, TypeOK, hubVars, runVars, closeVars, listVars
  <2>3. CASE ListGivesUp \/ ListReady \/ ListReturns
    <3>1. list' \in {"second", "done"} /\ UNCHANGED <<closeVars, ctxDone, drain>>
      BY <2>3, Zenon DEF ListGivesUp, ListReady, ListReturns
    <3> QED
      BY <1>1, <1>2, <3>1 DEF TypeOK, hubVars, runVars, closeVars
  <2>4. CASE ListCloses
    BY <1>1, <2>4 DEF ListCloses, TypeOK, hubVars, runVars, Closers
  <2> QED
    BY <2>1, <2>2, <2>3, <2>4
<1>4. Linked' /\ Follows'
  BY <1>1, <1>2 DEF Linked, Follows, WillKnow, Holds, hubVars, runVars
<1>5. Unread'
  BY <1>1 DEF Unread, Close, CloseReturns, Interrupt, ListGivesUp, ListReady, ListCloses,
     ListReturns, runVars, listVars
<1> QED
  BY <1>3, <1>4, <1>5 DEF IInv

(* Every step preserves the inductive invariant.                           *)
LEMMA NextIInv == IInv /\ [Next]_vars => IInv'
<1> SUFFICES ASSUME IInv, [Next]_vars PROVE IInv'
  OBVIOUS
<1>1. CASE Next
  BY <1>1, PingIInv, PublishIInv, ConnectIInv, RecvIInv, SendIInv, ReadIInv, UnlinkedIInv,
     AsideIInv DEF Next
<1>2. CASE UNCHANGED vars
  BY <1>2 DEF vars, IInv, TypeOK, Linked, Follows, WillKnow, Holds, Unread,
     hubVars, runVars, closeVars, listVars
<1> QED
  BY <1>1, <1>2

(* Every reachable state satisfies the inductive invariant.                *)
LEMMA Invariance == Spec => []IInv
BY InitIInv, NextIInv, PTL DEF Spec

(* The client, the wire and the command keep their types; an init event    *)
(* always carries a catalog.                                               *)
THEOREM TypeCorrect == Spec => []TypeOK
<1>1. IInv => TypeOK
  BY DEF IInv
<1> QED
  BY <1>1, Invariance, PTL

(* A reader that applies every event holds the hub's catalog whenever the  *)
(* client is connected and nothing is on its way, whatever connections     *)
(* were lost before, for every capacity of the channel (connectAndProcess, *)
(* WatchProxies).                                                          *)
THEOREM ViewCurrent == Spec => []ViewIsCurrent
<1>1. ASSUME IInv, run = "streaming", link, wire = <<>>, eventsCh = <<>>
      PROVE  view = catalog
  <2>1. ASSUME NEW id \in Ids PROVE view[id] = catalog[id]
    <3>1. WillKnow(id, catalog[id]) /\ ~LastSays(wire, id, catalog[id]) /\ ~Holds(id)
      BY <1>1 DEF IInv, Follows, LastSays, Holds
    <3>2. Knows(<<>>, view, id, catalog[id])
      BY <1>1, <3>1 DEF WillKnow
    <3> QED
      BY <3>2 DEF Knows
  <2>2. view \in Catalogs /\ catalog \in Catalogs
    BY <1>1 DEF IInv, TypeOK
  <2> QED
    BY <2>1, <2>2 DEF Catalogs
<1>2. IInv => ViewIsCurrent
  BY <1>1 DEF ViewIsCurrent
<1> QED
  BY <1>2, Invariance, PTL

(* The command never reads the closed, empty channel in a select that      *)
(* looks at the type of the event (run, listCmd).                          *)
THEOREM NeverNil == Spec => []NoNilEvent
<1>1. IInv => NoNilEvent
  BY DEF IInv, Unread, NoNilEvent
<1> QED
  BY <1>1, Invariance, PTL
=============================================================================
