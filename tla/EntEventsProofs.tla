-------------------------- MODULE EntEventsProofs --------------------------
(***************************************************************************)
(* Proofs about module EntEvents, for any catalog, any sets of publishers, *)
(* subscribers and callers of Close, and any buffer of at least one event: *)
(* type correctness and every safety invariant of the module.              *)
(*                                                                         *)
(* The invariants are not inductive one by one.  What carries them is      *)
(* Channels: a subscriber run has not taken has an untouched channel, a    *)
(* registered one has its init event in the channel or behind it, an init  *)
(* event carries a catalog; and Closing: how far the one caller that holds *)
(* shutdownMu has come.                                                    *)
(***************************************************************************)
EXTENDS EntEvents, TLAPS

Channels ==
  /\ \A c \in Clients : sub[c] \in {"idle", "calling", "refused"} =>
        /\ c \notin totalClients /\ c \notin closed
        /\ buf[c] = <<>> /\ view[c] = NoView
  /\ \A c \in totalClients : buf[c] # <<>> \/ view[c] # NoView
  /\ \A c \in Clients : \A i \in 1 .. Len(buf[c]) :
        buf[c][i].Type = "init" => buf[c][i].Payload \in Catalogs
  /\ run = "shutdown" => totalClients = {}

Closing ==
  /\ \A k \in Closers : closer[k] \in {"marked", "signalled"} => shutdownErr # "nil"
  /\ \A k \in Closers : closer[k] = "signalled" => shutdownCh

IInv == /\ TypeOK /\ Channels /\ Closing /\ NoLostUpdate /\ InitFirst
        /\ NoPanic /\ ServedOrClosed /\ CloseOrder

-----------------------------------------------------------------------------
(* What an event says of an id is an entity or its absence.                *)
LEMMA SaysType ==
  ASSUME NEW e \in Events, NEW id \in Ids,
         e.Type = "init" => e.Payload \in Catalogs
  PROVE  Says(e, id) \in Infos \union {None}
BY DEF Says, Events, Catalogs

(* An event that can be queued speaks of its own id and of no other.       *)
LEMMA PublishedTouches ==
  ASSUME NEW e \in Published
  PROVE  /\ e \in Events /\ e.ID \in Ids
         /\ e.Type \in {"add", "del", "update"}
         /\ \A id \in Ids : Touches(e, id) <=> e.ID = id
         /\ \A id \in Ids : Says(e, id) = (IF e.Type = "del" THEN None ELSE e.Entity)
BY DEF Published, Add, Del, Update, Event, Events, EventTypes, Touches, Says

(* A new event about id settles what the reader will know of id.           *)
LEMMA KnowsNew ==
  ASSUME NEW b \in Seq(Events), NEW v, NEW e \in Events, NEW id \in Ids, Touches(e, id)
  PROVE  Knows(Append(b, e), v, id, Says(e, id))
<1>1. Len(Append(b, e)) = Len(b) + 1 /\ Append(b, e)[Len(b) + 1] = e /\ Len(b) \in Nat
  OBVIOUS
<1> QED
  BY <1>1 DEF Knows

(* A new event about something else changes nothing for id.                *)
LEMMA KnowsOther ==
  ASSUME NEW b \in Seq(Events), NEW v, NEW e \in Events, NEW id \in Ids, NEW x,
         ~Touches(e, id), Knows(b, v, id, x)
  PROVE  Knows(Append(b, e), v, id, x)
<1>1. /\ Len(Append(b, e)) = Len(b) + 1 /\ Len(b) \in Nat
      /\ Append(b, e)[Len(b) + 1] = e
      /\ \A i \in 1 .. Len(b) : Append(b, e)[i] = b[i]
  OBVIOUS
<1>2. CASE \E i \in 1 .. Len(b) :
             /\ Touches(b[i], id) /\ Says(b[i], id) = x
             /\ \A j \in (i + 1) .. Len(b) : ~Touches(b[j], id)
  <2>1. PICK i \in 1 .. Len(b) :
             /\ Touches(b[i], id) /\ Says(b[i], id) = x
             /\ \A j \in (i + 1) .. Len(b) : ~Touches(b[j], id)
    BY <1>2
  <2>2. \A j \in (i + 1) .. (Len(b) + 1) : ~Touches(Append(b, e)[j], id)
    BY <1>1, <2>1
  <2>3. i \in 1 .. (Len(b) + 1) /\ Append(b, e)[i] = b[i]
    BY <1>1
  <2> QED
    BY <1>1, <2>1, <2>2, <2>3 DEF Knows
<1>3. CASE /\ v # None /\ v[id] = x
           /\ \A j \in 1 .. Len(b) : ~Touches(b[j], id)
  <2>1. \A j \in 1 .. (Len(b) + 1) : ~Touches(Append(b, e)[j], id)
    BY <1>1, <1>3
  <2> QED
    BY <1>1, <1>3, <2>1 DEF Knows
<1> QED
  BY <1>2, <1>3 DEF Knows

(* Reading the next event changes nothing in what the reader will know.    *)
LEMMA KnowsRead ==
  ASSUME NEW b \in Seq(Events), NEW v, NEW id \in Ids, NEW x, b # <<>>,
         Replay(v, Head(b)) # None, Knows(b, v, id, x)
  PROVE  Knows(Tail(b), Replay(v, Head(b)), id, x)
<1>1. /\ Len(Tail(b)) = Len(b) - 1 /\ Len(b) \in Nat \ {0}
      /\ Head(b) = b[1]
      /\ \A i \in 1 .. Len(Tail(b)) : Tail(b)[i] = b[i + 1]
  OBVIOUS
<1>2. ASSUME NEW i \in 1 .. Len(b), \A j \in (i + 1) .. Len(b) : ~Touches(b[j], id)
      PROVE  \A j \in i .. Len(Tail(b)) : ~Touches(Tail(b)[j], id)
  BY <1>1, <1>2
<1>3. ASSUME NEW i \in 1 .. Len(b), i # 1, Touches(b[i], id), Says(b[i], id) = x,
             \A j \in (i + 1) .. Len(b) : ~Touches(b[j], id)
      PROVE  Knows(Tail(b), Replay(v, Head(b)), id, x)
  <2>1. i - 1 \in 1 .. Len(Tail(b)) /\ Tail(b)[i - 1] = b[i]
    BY <1>1, <1>3
  <2>2. \A j \in ((i - 1) + 1) .. Len(Tail(b)) : ~Touches(Tail(b)[j], id)
    BY <1>1, <1>2, <1>3
  <2> QED
    BY <1>3, <2>1, <2>2 DEF Knows
<1>4. ASSUME Touches(b[1], id), Says(b[1], id) = x,
             \A j \in (1 + 1) .. Len(b) : ~Touches(b[j], id)
      PROVE  Knows(Tail(b), Replay(v, Head(b)), id, x)
  <2>1. Replay(v, Head(b))[id] = x
    BY <1>1, <1>4 DEF Replay
  <2>2. \A j \in 1 .. Len(Tail(b)) : ~Touches(Tail(b)[j], id)
    BY <1>1, <1>4
  <2> QED
    BY <2>1, <2>2 DEF Knows
<1>5. ASSUME v # None, v[id] = x, \A j \in 1 .. Len(b) : ~Touches(b[j], id)
      PROVE  Knows(Tail(b), Replay(v, Head(b)), id, x)
  <2>1. Replay(v, Head(b))[id] = x
    BY <1>1, <1>5 DEF Replay
  <2>2. \A j \in 1 .. Len(Tail(b)) : ~Touches(Tail(b)[j], id)
    BY <1>1, <1>5
  <2> QED
    BY <2>1, <2>2 DEF Knows
<1> QED
  BY <1>3, <1>4, <1>5 DEF Knows

-----------------------------------------------------------------------------
(* The initial state satisfies the inductive invariant.                    *)
LEMMA InitIInv == Init => IInv
<1> SUFFICES ASSUME Init PROVE IInv
  OBVIOUS
<1>1. TypeOK
  <2>1. snapshot \in Catalogs /\ buf \in [Clients -> Seq(Events)]
    BY DEF Init, EmptyCatalog, Catalogs
  <2>2. \A c \in Clients : Len(buf[c]) <= Buffer
    BY BufferAssumption DEF Init
  <2>3. /\ sub \in [Clients -> {"idle", "calling", "open", "done", "refused"}]
        /\ unsub \in [Clients -> {"armed", "queued", "done"}]
        /\ view \in [Clients -> Catalogs \union {NoView}]
    BY DEF Init
  <2>4. /\ pub \in [Publishers -> Published \union {None}]
        /\ closer \in [Closers -> {"idle", "marked", "signalled", "returned"}]
    BY DEF Init
  <2> QED
    BY <2>1, <2>2, <2>3, <2>4 DEF Init, TypeOK
<1>2. Channels /\ InitFirst
  BY DEF Init, Channels, InitFirst
<1>3. Closing /\ CloseOrder /\ NoPanic
  BY DEF Init, Closing, CloseOrder, NoPanic
<1>4. NoLostUpdate /\ ServedOrClosed
  BY DEF Init, NoLostUpdate, ServedOrClosed, Accepted
<1> QED
  BY <1>1, <1>2, <1>3, <1>4 DEF IInv

(* The part of the invariant about channels and their readers.             *)
Delivery == Channels /\ NoLostUpdate /\ InitFirst /\ NoPanic /\ ServedOrClosed

(* A step that touches no channel, and moves no subscriber over the line   *)
(* between accepted and not, keeps that part.                              *)
LEMMA SameChannels ==
  ASSUME TypeOK, TypeOK', Delivery,
         UNCHANGED <<snapshot, totalClients, buf, closed, panicked, view>>,
         run' = run \/ run' = "ctx",
         \A c \in Clients : sub[c] \in {"open", "done"} <=> sub'[c] \in {"open", "done"}
  PROVE  Delivery'
<1>1. Accepted' = Accepted
  BY DEF Accepted
<1>2. \A c \in Clients : sub'[c] \in {"idle", "calling", "refused"}
                          => sub[c] \in {"idle", "calling", "refused"}
  BY DEF TypeOK
<1>3. Channels'
  BY <1>2 DEF Channels, Delivery
<1>4. NoLostUpdate' /\ InitFirst'
  BY DEF Delivery, NoLostUpdate, InitFirst
<1>5. NoPanic' /\ ServedOrClosed'
  BY <1>1 DEF Delivery, NoPanic, ServedOrClosed
<1> QED
  BY <1>3, <1>4, <1>5 DEF Delivery

(* A registered subscriber has been accepted and its channel is open.      *)
LEMMA RegisteredOpen ==
  ASSUME TypeOK, Delivery
  PROVE  /\ totalClients \subseteq Accepted
         /\ totalClients \intersect closed = {}
<1>1. \A c \in totalClients : c \in Accepted
  BY DEF TypeOK, Delivery, Channels, Accepted
<1> QED
  BY <1>1 DEF Delivery, ServedOrClosed

-----------------------------------------------------------------------------
(* One more event that is not an init, in a channel that has or has had    *)
(* its init event.                                                         *)
LEMMA AppendInitFirst ==
  ASSUME NEW b \in Seq(Events), NEW v, NEW e \in Events, e.Type # "init",
         b # <<>> \/ v # NoView,
         \A i \in 1 .. Len(b) : (b[i].Type = "init") <=> (i = 1 /\ v = NoView),
         \A i \in 1 .. Len(b) : b[i].Type = "init" => b[i].Payload \in Catalogs
  PROVE  /\ Append(b, e) \in Seq(Events) /\ Append(b, e) # <<>>
         /\ Len(Append(b, e)) = Len(b) + 1
         /\ \A i \in 1 .. Len(Append(b, e)) :
               (Append(b, e)[i].Type = "init") <=> (i = 1 /\ v = NoView)
         /\ \A i \in 1 .. Len(Append(b, e)) :
               Append(b, e)[i].Type = "init" => Append(b, e)[i].Payload \in Catalogs
<1>1. /\ Len(Append(b, e)) = Len(b) + 1 /\ Len(b) \in Nat
      /\ Append(b, e) \in Seq(Events)
      /\ Append(b, e)[Len(b) + 1] = e
      /\ \A i \in 1 .. Len(b) : Append(b, e)[i] = b[i]
  OBVIOUS
<1>2. Append(b, e) # <<>>
  BY <1>1
<1>3. \A i \in 1 .. Len(Append(b, e)) : i \in 1 .. Len(b) \/ i = Len(b) + 1
  BY <1>1
<1>4. Len(b) = 0 => v # NoView
  BY <1>1
<1> QED
  BY <1>1, <1>2, <1>3, <1>4

(* A broadcast keeps every registered subscriber up to date: the catalog   *)
(* changes exactly as the event says, and whoever misses the event is      *)
(* removed and its channel closed.                                         *)
LEMMA BroadcastDelivers ==
  ASSUME TypeOK, Delivery, NEW e \in Events, e.Type # "init", broadcast(e),
         snapshot' \in Catalogs,
         \A id \in Ids : snapshot'[id] = IF Touches(e, id) THEN Says(e, id) ELSE snapshot[id],
         sub' = sub, view' = view, run' = run, run = "loop"
  PROVE  /\ totalClients' \in SUBSET Clients /\ closed' \in SUBSET Clients
         /\ buf' \in [Clients -> Seq(Events)]
         /\ \A c \in Clients : Len(buf'[c]) <= Buffer
         /\ panicked' \in BOOLEAN
         /\ Delivery'
<1> DEFINE full == {c \in totalClients : Len(buf[c]) >= Buffer}
<1>0. /\ totalClients' = totalClients \ full
      /\ closed' = closed \union full
      /\ buf' = [c \in Clients |-> IF c \in totalClients \ full
                                     THEN Append(buf[c], e) ELSE buf[c]]
      /\ panicked' = (panicked \/ totalClients \intersect closed # {})
  BY DEF broadcast, sendClientEvent
<1>1. totalClients \subseteq Accepted /\ totalClients \intersect closed = {}
  BY RegisteredOpen
<1>2. ASSUME NEW c \in totalClients
      PROVE  /\ Append(buf[c], e) \in Seq(Events) /\ Append(buf[c], e) # <<>>
             /\ Len(Append(buf[c], e)) = Len(buf[c]) + 1
             /\ \A i \in 1 .. Len(Append(buf[c], e)) :
                  (Append(buf[c], e)[i].Type = "init") <=> (i = 1 /\ view[c] = NoView)
             /\ \A i \in 1 .. Len(Append(buf[c], e)) :
                  Append(buf[c], e)[i].Type = "init"
                    => Append(buf[c], e)[i].Payload \in Catalogs
  <2>1. c \in Clients /\ buf[c] \in Seq(Events) /\ (buf[c] # <<>> \/ view[c] # NoView)
    BY DEF TypeOK, Delivery, Channels
  <2>2. \A i \in 1 .. Len(buf[c]) :
          /\ (buf[c][i].Type = "init") <=> (i = 1 /\ view[c] = NoView)
          /\ buf[c][i].Type = "init" => buf[c][i].Payload \in Catalogs
    BY <2>1 DEF Delivery, Channels, InitFirst
  <2> QED
    BY <2>1, <2>2, AppendInitFirst
<1>3. /\ totalClients' \in SUBSET Clients /\ closed' \in SUBSET Clients
      /\ buf' \in [Clients -> Seq(Events)] /\ panicked' \in BOOLEAN
  BY <1>0, <1>2 DEF TypeOK
<1>4. \A c \in Clients : Len(buf'[c]) <= Buffer
  <2> SUFFICES ASSUME NEW c \in Clients PROVE Len(buf'[c]) <= Buffer
    OBVIOUS
  <2>1. Len(buf[c]) \in Nat /\ Len(buf[c]) <= Buffer /\ Buffer \in Nat
    BY BufferAssumption DEF TypeOK
  <2>2. CASE c \in totalClients \ full
    BY <1>0, <1>2, <2>1, <2>2
  <2>3. CASE c \notin totalClients \ full
    BY <1>0, <2>1, <2>3
  <2> QED
    BY <2>2, <2>3
<1>5. \A c \in Clients : \/ c \in totalClients' /\ c \in totalClients /\ buf'[c] = Append(buf[c], e)
                         \/ c \notin totalClients' /\ buf'[c] = buf[c]
  BY <1>0
<1>6. Channels'
  <2>1. ASSUME NEW c \in Clients, sub'[c] \in {"idle", "calling", "refused"}
        PROVE  /\ c \notin totalClients' /\ c \notin closed'
               /\ buf'[c] = <<>> /\ view'[c] = NoView
    <3>1. /\ c \notin totalClients /\ c \notin closed
          /\ buf[c] = <<>> /\ view[c] = NoView
      BY <2>1 DEF Delivery, Channels
    <3> QED
      BY <1>0, <3>1
  <2>2. \A c \in totalClients' : buf'[c] # <<>> \/ view'[c] # NoView
    BY <1>2, <1>3, <1>5
  <2>3. \A c \in Clients : \A i \in 1 .. Len(buf'[c]) :
           buf'[c][i].Type = "init" => buf'[c][i].Payload \in Catalogs
    <3> SUFFICES ASSUME NEW c \in Clients
                 PROVE  \A i \in 1 .. Len(buf'[c]) :
                          buf'[c][i].Type = "init" => buf'[c][i].Payload \in Catalogs
      OBVIOUS
    <3>1. CASE buf'[c] = buf[c]
      BY <3>1 DEF Delivery, Channels
    <3>2. CASE c \in totalClients /\ buf'[c] = Append(buf[c], e)
      BY <3>2, <1>2
    <3> QED
      BY <3>1, <3>2, <1>5
  <2> QED
    BY <2>1, <2>2, <2>3 DEF Channels
<1>7. InitFirst'
  <2> SUFFICES ASSUME NEW c \in Clients
               PROVE  \A i \in 1 .. Len(buf'[c]) :
                        (buf'[c][i].Type = "init") <=> (i = 1 /\ view'[c] = NoView)
    BY DEF InitFirst
  <2>1. CASE buf'[c] = buf[c]
    BY <2>1 DEF Delivery, InitFirst
  <2>2. CASE c \in totalClients /\ buf'[c] = Append(buf[c], e)
    BY <2>2, <1>2
  <2> QED
    BY <2>1, <2>2, <1>5
<1>8. NoLostUpdate'
  <2> SUFFICES ASSUME NEW c \in totalClients', NEW id \in Ids
               PROVE  Knows(buf'[c], view'[c], id, snapshot'[id])
    BY DEF NoLostUpdate
  <2>1. c \in Clients /\ c \in totalClients /\ buf'[c] = Append(buf[c], e)
    BY <1>3, <1>5
  <2>2. buf[c] \in Seq(Events) /\ Knows(buf[c], view[c], id, snapshot[id])
    BY <2>1 DEF TypeOK, Delivery, NoLostUpdate
  <2>3. CASE Touches(e, id)
    BY <2>1, <2>2, <2>3, KnowsNew
  <2>4. CASE ~Touches(e, id)
    BY <2>1, <2>2, <2>4, KnowsOther
  <2> QED
    BY <2>3, <2>4
<1>9. NoPanic' /\ ServedOrClosed'
  <2>1. Accepted' = Accepted
    BY DEF Accepted
  <2> QED
    BY <1>0, <1>1, <2>1 DEF Delivery, NoPanic, ServedOrClosed
<1> QED
  BY <1>3, <1>4, <1>6, <1>7, <1>8, <1>9 DEF Delivery

-----------------------------------------------------------------------------
(* The steps of run.                                                       *)

(* A new subscriber gets the whole catalog as the first event of a channel *)
(* that was empty, so it is never evicted by its own registration.         *)
LEMMA NewClientIInv ==
  ASSUME IInv, NEW c \in Clients, RunNewClient(c)
  PROVE  IInv'
<1> DEFINE e == InitEvent(snapshot)
<1>1. TypeOK /\ Delivery /\ Closing /\ CloseOrder
  BY DEF IInv, Delivery
<1>2. /\ c \notin totalClients /\ c \notin closed
      /\ buf[c] = <<>> /\ view[c] = NoView
  BY <1>1 DEF RunNewClient, Delivery, Channels
<1>3. e \in Events /\ e.Type = "init" /\ e.Payload = snapshot /\ snapshot \in Catalogs
  BY <1>1 DEF InitEvent, Event, Events, EventTypes, TypeOK
<1>4. {d \in {c} : Len(buf[d]) >= Buffer} = {}
  BY <1>2, BufferAssumption
<1>5. /\ totalClients' = totalClients \union {c}
      /\ closed' = closed
      /\ buf' = [buf EXCEPT ![c] = <<e>>]
      /\ panicked' = panicked
  <2>1. Append(buf[c], e) = <<e>>
    BY <1>2
  <2>2. {c} \intersect closed = {}
    BY <1>2
  <2> QED
    BY <1>1, <1>4, <2>1, <2>2 DEF RunNewClient, sendClientEvent, TypeOK
<1>6. /\ sub' = [sub EXCEPT ![c] = "open"]
      /\ UNCHANGED <<snapshot, run, ctxDone, cctx, unsub, view, pub>>
      /\ UNCHANGED closeVars /\ run = "loop"
  BY DEF RunNewClient
<1>7. <<e>> \in Seq(Events) /\ Len(<<e>>) = 1 /\ <<e>>[1] = e /\ <<e>> # <<>>
  BY <1>3
<1>8. TypeOK'
  <2>1. buf' \in [Clients -> Seq(Events)]
    BY <1>1, <1>5, <1>7 DEF TypeOK
  <2>2. \A d \in Clients : Len(buf'[d]) <= Buffer
    BY <1>1, <1>5, <1>7, BufferAssumption DEF TypeOK
  <2>3. /\ sub' \in [Clients -> {"idle", "calling", "open", "done", "refused"}]
        /\ totalClients' \in SUBSET Clients
    BY <1>1, <1>5, <1>6 DEF TypeOK
  <2> QED
    BY <1>1, <1>5, <1>6, <2>1, <2>2, <2>3 DEF TypeOK, closeVars
<1>9. \A d \in Clients : d # c => buf'[d] = buf[d] /\ sub'[d] = sub[d]
  BY <1>1, <1>5, <1>6 DEF TypeOK
<1>10. buf'[c] = <<e>> /\ sub'[c] = "open" /\ view'[c] = NoView
  BY <1>1, <1>2, <1>5, <1>6 DEF TypeOK
<1>11. Channels'
  <2>1. \A d \in Clients : sub'[d] \in {"idle", "calling", "refused"} =>
          /\ d \notin totalClients' /\ d \notin closed'
          /\ buf'[d] = <<>> /\ view'[d] = NoView
    BY <1>1, <1>5, <1>6, <1>9, <1>10 DEF Delivery, Channels
  <2>2. \A d \in totalClients' : buf'[d] # <<>> \/ view'[d] # NoView
    BY <1>1, <1>5, <1>6, <1>7, <1>9, <1>10 DEF Delivery, Channels, TypeOK
  <2>3. \A d \in Clients : \A i \in 1 .. Len(buf'[d]) :
           buf'[d][i].Type = "init" => buf'[d][i].Payload \in Catalogs
    <3> SUFFICES ASSUME NEW d \in Clients, NEW i \in 1 .. Len(buf'[d])
                 PROVE  buf'[d][i].Type = "init" => buf'[d][i].Payload \in Catalogs
      OBVIOUS
    <3>1. CASE d = c
      BY <1>3, <1>7, <1>10, <3>1
    <3>2. CASE d # c
      BY <1>1, <1>9, <3>2 DEF Delivery, Channels
    <3> QED
      BY <3>1, <3>2
  <2> QED
    BY <1>6, <2>1, <2>2, <2>3 DEF Channels
<1>12. InitFirst'
  <2> SUFFICES ASSUME NEW d \in Clients, NEW i \in 1 .. Len(buf'[d])
               PROVE  (buf'[d][i].Type = "init") <=> (i = 1 /\ view'[d] = NoView)
    BY DEF InitFirst
  <2>1. CASE d = c
    BY <1>3, <1>7, <1>10, <2>1
  <2>2. CASE d # c
    BY <1>1, <1>6, <1>9, <2>2 DEF Delivery, InitFirst
  <2> QED
    BY <2>1, <2>2
<1>13. NoLostUpdate'
  <2> SUFFICES ASSUME NEW d \in totalClients', NEW id \in Ids
               PROVE  Knows(buf'[d], view'[d], id, snapshot'[id])
    BY DEF NoLostUpdate
  <2>1. CASE d = c
    <3>1. Touches(e, id) /\ Says(e, id) = snapshot'[id]
      BY <1>3, <1>6 DEF Touches, Says
    <3>2. Knows(<<e>>, view'[d], id, Says(e, id))
      BY <1>7, <3>1 DEF Knows
    <3> QED
      BY <1>10, <2>1, <3>1, <3>2
  <2>2. CASE d # c
    <3>1. d \in totalClients /\ d \in Clients
      BY <1>1, <1>5, <2>2 DEF TypeOK
    <3> QED
      BY <1>1, <1>6, <1>9, <2>2, <3>1 DEF Delivery, NoLostUpdate
  <2> QED
    BY <2>1, <2>2
<1>14. NoPanic' /\ ServedOrClosed'
  <2>1. Accepted' = Accepted \union {c}
    BY <1>9, <1>10 DEF Accepted
  <2> QED
    BY <1>1, <1>2, <1>5, <1>6, <2>1 DEF Delivery, NoPanic, ServedOrClosed
<1>15. Closing' /\ CloseOrder'
  BY <1>1, <1>6 DEF Closing, CloseOrder, closeVars
<1> QED
  BY <1>8, <1>11, <1>12, <1>13, <1>14, <1>15 DEF IInv

(* Removing a subscriber closes its channel once, or does nothing.         *)
LEMMA ClosedClientIInv ==
  ASSUME IInv, NEW c \in Clients, RunClosedClient(c)
  PROVE  IInv'
<1>1. TypeOK /\ Delivery /\ Closing /\ CloseOrder
  BY DEF IInv, Delivery
<1>2. totalClients \subseteq Accepted /\ totalClients \intersect closed = {}
  BY <1>1, RegisteredOpen
<1>3. TypeOK'
  BY <1>1 DEF RunClosedClient, removeClient, closeVars, TypeOK
<1>4. Channels'
  <2>1. \A d \in Clients : sub'[d] \in {"idle", "calling", "refused"} =>
          /\ d \notin totalClients' /\ d \notin closed'
          /\ buf'[d] = <<>> /\ view'[d] = NoView
    BY <1>1, <1>2 DEF RunClosedClient, removeClient, Delivery, Channels, Accepted
  <2> QED
    BY <1>1, <2>1 DEF RunClosedClient, removeClient, Delivery, Channels
<1>5. InitFirst' /\ NoLostUpdate'
  BY <1>1 DEF RunClosedClient, removeClient, Delivery, InitFirst, NoLostUpdate
<1>6. NoPanic' /\ ServedOrClosed'
  <2>1. Accepted' = Accepted
    BY DEF RunClosedClient, Accepted
  <2> QED
    BY <1>1, <1>2, <2>1 DEF RunClosedClient, removeClient, Delivery, NoPanic, ServedOrClosed
<1>7. Closing' /\ CloseOrder'
  BY <1>1 DEF RunClosedClient, Closing, CloseOrder, closeVars
<1> QED
  BY <1>3, <1>4, <1>5, <1>6, <1>7 DEF IInv

(* A published event changes the catalog exactly as a reader replays it.   *)
LEMMA ProcessedSays ==
  ASSUME NEW catalog \in Catalogs, NEW e \in Published
  PROVE  /\ Processed(catalog, e) \in Catalogs
         /\ \A id \in Ids : Processed(catalog, e)[id] =
               IF Touches(e, id) THEN Says(e, id) ELSE catalog[id]
<1>1. /\ e \in Events /\ e.ID \in Ids
      /\ \A id \in Ids : Touches(e, id) <=> e.ID = id
      /\ \A id \in Ids : Says(e, id) = (IF e.Type = "del" THEN None ELSE e.Entity)
  BY PublishedTouches
<1>2. e.Entity \in Infos \union {None}
  BY <1>1 DEF Events
<1> QED
  BY <1>1, <1>2 DEF Processed, Catalogs

(* An event is broadcast or ignored.                                       *)
LEMMA EventIInv ==
  ASSUME IInv, NEW p \in Publishers, RunEvent(p)
  PROVE  IInv'
<1> DEFINE e == pub[p]
<1>1. TypeOK /\ Delivery /\ Closing /\ CloseOrder
  BY DEF IInv, Delivery
<1>2. e \in Published
  BY <1>1 DEF RunEvent, TypeOK
<1>3. pub' \in [Publishers -> Published \union {None}]
  BY <1>1 DEF RunEvent, TypeOK
<1>4. Closing' /\ CloseOrder'
  BY <1>1 DEF RunEvent, Closing, CloseOrder, closeVars
<1>5. CASE UNCHANGED <<snapshot, totalClients, buf, closed, panicked>>
  <2>1. TypeOK'
    BY <1>1, <1>3, <1>5 DEF RunEvent, TypeOK, clientVars, closeVars
  <2>2. Delivery'
    BY <1>1, <1>5, <2>1, SameChannels DEF RunEvent, clientVars
  <2> QED
    BY <1>4, <2>1, <2>2 DEF IInv, Delivery
<1>6. CASE snapshot' = Processed(snapshot, e) /\ broadcast(e)
  <2>1. e \in Events /\ e.Type # "init"
    BY <1>2, PublishedTouches
  <2>2. snapshot \in Catalogs
    BY <1>1 DEF TypeOK
  <2>3. /\ snapshot' \in Catalogs
        /\ \A id \in Ids : snapshot'[id] = IF Touches(e, id) THEN Says(e, id) ELSE snapshot[id]
    BY <1>2, <1>6, <2>2, ProcessedSays
  <2>4. sub' = sub /\ view' = view /\ run' = run /\ run = "loop"
    BY DEF RunEvent, clientVars
  <2>5. /\ totalClients' \in SUBSET Clients /\ closed' \in SUBSET Clients
        /\ buf' \in [Clients -> Seq(Events)]
        /\ \A c \in Clients : Len(buf'[c]) <= Buffer
        /\ panicked' \in BOOLEAN
        /\ Delivery'
    BY <1>1, <1>6, <2>1, <2>3, <2>4, BroadcastDelivers
  <2>6. TypeOK'
    BY <1>1, <1>3, <2>3, <2>5 DEF RunEvent, TypeOK, clientVars, closeVars
  <2> QED
    BY <1>4, <2>5, <2>6 DEF IInv, Delivery
<1> QED
  BY <1>5, <1>6 DEF RunEvent, processEvent

(* A ping is broadcast.                                                    *)
LEMMA PingIInv == ASSUME IInv, RunPing PROVE IInv'
<1>1. TypeOK /\ Delivery /\ Closing /\ CloseOrder
  BY DEF IInv, Delivery
<1>2. PingEvent \in Events /\ PingEvent.Type # "init"
  BY DEF PingEvent, Event, Events, EventTypes
<1>3. \A id \in Ids : ~Touches(PingEvent, id)
  BY DEF PingEvent, Event, Touches
<1>4. /\ snapshot' \in Catalogs
      /\ \A id \in Ids : snapshot'[id] = IF Touches(PingEvent, id)
                                           THEN Says(PingEvent, id) ELSE snapshot[id]
  BY <1>1, <1>3 DEF RunPing, TypeOK
<1>5. sub' = sub /\ view' = view /\ run' = run /\ run = "loop" /\ broadcast(PingEvent)
  BY DEF RunPing, clientVars
<1>6. /\ totalClients' \in SUBSET Clients /\ closed' \in SUBSET Clients
      /\ buf' \in [Clients -> Seq(Events)]
      /\ \A c \in Clients : Len(buf'[c]) <= Buffer
      /\ panicked' \in BOOLEAN
      /\ Delivery'
  BY <1>1, <1>2, <1>4, <1>5, BroadcastDelivers
<1>7. TypeOK'
  BY <1>1, <1>4, <1>6 DEF RunPing, TypeOK, clientVars, closeVars
<1>8. Closing' /\ CloseOrder'
  BY <1>1 DEF RunPing, Closing, CloseOrder, closeVars
<1> QED
  BY <1>6, <1>7, <1>8 DEF IInv, Delivery

(* The end of run removes every subscriber, and gives a last event to the  *)
(* ones that have room for it.                                             *)
LEMMA ShutdownIInv == ASSUME IInv, RunShutdown PROVE IInv'
<1> DEFINE e == ShutdownEvent
<1>1. TypeOK /\ Delivery /\ Closing /\ CloseOrder
  BY DEF IInv, Delivery
<1>2. totalClients \subseteq Accepted /\ totalClients \intersect closed = {}
  BY <1>1, RegisteredOpen
<1>3. e \in Events /\ e.Type # "init"
  BY DEF ShutdownEvent, Event, Events, EventTypes
<1>4. /\ UNCHANGED <<snapshot, ctxDone, pub, sub, cctx, unsub, view>>
      /\ UNCHANGED closeVars
  BY DEF RunShutdown, clientVars
<1>5. \A c \in Clients :
         \/ c \in totalClients /\ Len(buf[c]) < Buffer /\ buf'[c] = Append(buf[c], e)
         \/ buf'[c] = buf[c]
  BY DEF RunShutdown
<1>6. ASSUME NEW c \in Clients
      PROVE  /\ buf'[c] \in Seq(Events) /\ Len(buf'[c]) <= Buffer
             /\ \A i \in 1 .. Len(buf'[c]) :
                  (buf'[c][i].Type = "init") <=> (i = 1 /\ view[c] = NoView)
             /\ \A i \in 1 .. Len(buf'[c]) :
                  buf'[c][i].Type = "init" => buf'[c][i].Payload \in Catalogs
  <2>1. /\ buf[c] \in Seq(Events) /\ Len(buf[c]) <= Buffer
        /\ Len(buf[c]) \in Nat /\ Buffer \in Nat
    BY <1>1, BufferAssumption DEF TypeOK
  <2>2. /\ \A i \in 1 .. Len(buf[c]) :
             (buf[c][i].Type = "init") <=> (i = 1 /\ view[c] = NoView)
        /\ \A i \in 1 .. Len(buf[c]) :
             buf[c][i].Type = "init" => buf[c][i].Payload \in Catalogs
    BY <1>1 DEF Delivery, Channels, InitFirst
  <2>3. CASE buf'[c] = buf[c]
    BY <2>1, <2>2, <2>3
  <2>4. CASE c \in totalClients /\ Len(buf[c]) < Buffer /\ buf'[c] = Append(buf[c], e)
    <3>1. buf[c] # <<>> \/ view[c] # NoView
      BY <1>1, <2>4 DEF Delivery, Channels
    <3>2. /\ Append(buf[c], e) \in Seq(Events)
          /\ Len(Append(buf[c], e)) = Len(buf[c]) + 1
          /\ \A i \in 1 .. Len(Append(buf[c], e)) :
                (Append(buf[c], e)[i].Type = "init") <=> (i = 1 /\ view[c] = NoView)
          /\ \A i \in 1 .. Len(Append(buf[c], e)) :
                Append(buf[c], e)[i].Type = "init"
                  => Append(buf[c], e)[i].Payload \in Catalogs
      BY <1>3, <2>1, <2>2, <3>1, AppendInitFirst
    <3> QED
      BY <2>1, <2>4, <3>2
  <2> QED
    BY <1>5, <2>3, <2>4
<1>7. TypeOK'
  <2>1. buf' \in [Clients -> Seq(Events)] /\ \A c \in Clients : Len(buf'[c]) <= Buffer
    BY <1>6 DEF RunShutdown
  <2>2. totalClients' \in SUBSET Clients /\ closed' \in SUBSET Clients /\ panicked' \in BOOLEAN
    BY <1>1 DEF RunShutdown, TypeOK
  <2> QED
    BY <1>1, <1>4, <2>1, <2>2 DEF RunShutdown, TypeOK, closeVars
<1>8. Channels'
  <2>1. ASSUME NEW c \in Clients, sub'[c] \in {"idle", "calling", "refused"}
        PROVE  /\ c \notin totalClients' /\ c \notin closed'
               /\ buf'[c] = <<>> /\ view'[c] = NoView
    <3>1. /\ c \notin totalClients /\ c \notin closed
          /\ buf[c] = <<>> /\ view[c] = NoView
      BY <1>1, <1>4, <2>1 DEF Delivery, Channels
    <3> QED
      BY <1>4, <1>5, <3>1 DEF RunShutdown
  <2> QED
    BY <1>6, <2>1 DEF RunShutdown, Channels
<1>9. InitFirst' /\ NoLostUpdate'
  BY <1>4, <1>6 DEF RunShutdown, InitFirst, NoLostUpdate
<1>10. NoPanic' /\ ServedOrClosed'
  <2>1. Accepted' = Accepted
    BY <1>4 DEF Accepted
  <2>2. Accepted \subseteq closed \union totalClients
    BY <1>1 DEF Delivery, ServedOrClosed
  <2> QED
    BY <1>1, <1>2, <2>1, <2>2 DEF RunShutdown, Delivery, NoPanic, ServedOrClosed
<1>11. Closing' /\ CloseOrder'
  BY <1>1, <1>4 DEF RunShutdown, Closing, CloseOrder, closeVars
<1> QED
  BY <1>7, <1>8, <1>9, <1>10, <1>11 DEF IInv

(* Every step of run preserves the invariant.                              *)
LEMMA RunIInv == ASSUME IInv, Run PROVE IInv'
<1>1. CASE RunCtxDone
  <2>1. TypeOK'
    BY <1>1 DEF IInv, RunCtxDone, TypeOK, clientVars, closeVars
  <2>2. Delivery'
    BY <1>1, <2>1, SameChannels DEF IInv, Delivery, RunCtxDone, clientVars
  <2>3. Closing' /\ CloseOrder'
    BY <1>1 DEF IInv, RunCtxDone, Closing, CloseOrder, closeVars
  <2> QED
    BY <2>1, <2>2, <2>3 DEF IInv, Delivery
<1> QED
  BY <1>1, ShutdownIInv, PingIInv, NewClientIInv, ClosedClientIInv, EventIInv DEF Run

-----------------------------------------------------------------------------
(* Reading an event leaves a catalog and a channel without init event.     *)
LEMMA ReadDelivers ==
  ASSUME TypeOK, Delivery, NEW c \in Clients, sub[c] = "open", buf[c] # <<>>,
         view' = [view EXCEPT ![c] = Replay(view[c], Head(buf[c]))],
         buf' = [buf EXCEPT ![c] = Tail(buf[c])],
         UNCHANGED <<snapshot, totalClients, closed, panicked, run>>,
         sub' = sub \/ sub' = [sub EXCEPT ![c] = "done"]
  PROVE  /\ buf' \in [Clients -> Seq(Events)]
         /\ \A d \in Clients : Len(buf'[d]) <= Buffer
         /\ view' \in [Clients -> Catalogs \union {NoView}]
         /\ Delivery'
<1> DEFINE b == buf[c]
           v == Replay(view[c], Head(b))
<1>1. /\ b \in Seq(Events) /\ Len(b) \in Nat \ {0} /\ Len(b) <= Buffer /\ Buffer \in Nat
      /\ Head(b) = b[1] /\ b[1] \in Events
      /\ Tail(b) \in Seq(Events) /\ Len(Tail(b)) = Len(b) - 1
      /\ \A i \in 1 .. Len(Tail(b)) : Tail(b)[i] = b[i + 1]
  BY BufferAssumption DEF TypeOK
<1>2. /\ (b[1].Type = "init") <=> view[c] = NoView
      /\ b[1].Type = "init" => b[1].Payload \in Catalogs
      /\ \A i \in 1 .. Len(b) : i # 1 => b[i].Type # "init"
  BY <1>1 DEF Delivery, InitFirst, Channels
<1>3. v \in Catalogs
  <2>1. \A id \in Ids : Says(b[1], id) \in Infos \union {None}
    BY <1>1, <1>2, SaysType
  <2>2. \A id \in Ids : Touches(b[1], id) \/ view[c][id] \in Infos \union {None}
    <3>1. CASE b[1].Type = "init"
      BY <3>1 DEF Touches
    <3>2. CASE b[1].Type # "init"
      BY <1>2, <3>2 DEF TypeOK, Catalogs
    <3> QED
      BY <3>1, <3>2
  <2> QED
    BY <1>1, <2>1, <2>2 DEF Replay, Catalogs
<1>4. v # None
  BY <1>3, NoneAssumption
<1>5. /\ buf'[c] = Tail(b) /\ view'[c] = v
      /\ \A d \in Clients : d # c => buf'[d] = buf[d] /\ view'[d] = view[d]
  BY DEF TypeOK
<1>6. /\ buf' \in [Clients -> Seq(Events)]
      /\ view' \in [Clients -> Catalogs \union {NoView}]
  BY <1>1, <1>3 DEF TypeOK
<1>7. \A d \in Clients : Len(buf'[d]) <= Buffer
  BY <1>1, <1>5 DEF TypeOK
<1>8. Accepted' = Accepted
  BY DEF Accepted, TypeOK
<1>9. \A d \in Clients : sub'[d] \in {"idle", "calling", "refused"} =>
         d # c /\ sub[d] \in {"idle", "calling", "refused"}
  BY DEF TypeOK
<1>10. \A i \in 1 .. Len(buf'[c]) : buf'[c][i].Type # "init"
  <2> SUFFICES ASSUME NEW i \in 1 .. Len(Tail(b)) PROVE Tail(b)[i].Type # "init"
    BY <1>5
  <2>1. i + 1 \in 1 .. Len(b) /\ i + 1 # 1 /\ Tail(b)[i] = b[i + 1]
    BY <1>1
  <2> QED
    BY <1>2, <2>1
<1>11. Channels'
  <2>1. \A d \in Clients : sub'[d] \in {"idle", "calling", "refused"} =>
          /\ d \notin totalClients' /\ d \notin closed'
          /\ buf'[d] = <<>> /\ view'[d] = NoView
    BY <1>5, <1>9 DEF Delivery, Channels
  <2>2. \A d \in totalClients' : buf'[d] # <<>> \/ view'[d] # NoView
    BY <1>4, <1>5 DEF Delivery, Channels, TypeOK, NoView
  <2>3. \A d \in Clients : \A i \in 1 .. Len(buf'[d]) :
           buf'[d][i].Type = "init" => buf'[d][i].Payload \in Catalogs
    BY <1>5, <1>10 DEF Delivery, Channels
  <2> QED
    BY <2>1, <2>2, <2>3 DEF Delivery, Channels
<1>12. InitFirst'
  <2>1. v # NoView
    BY <1>4 DEF NoView
  <2> QED
    BY <1>5, <1>10, <2>1 DEF Delivery, InitFirst
<1>13. NoLostUpdate'
  <2> SUFFICES ASSUME NEW d \in totalClients, NEW id \in Ids
               PROVE  Knows(buf'[d], view'[d], id, snapshot[id])
    BY DEF NoLostUpdate
  <2>1. d \in Clients /\ Knows(buf[d], view[d], id, snapshot[id])
    BY DEF Delivery, NoLostUpdate, TypeOK
  <2>2. CASE d = c
    <3>1. Knows(Tail(b), Replay(view[c], Head(b)), id, snapshot[id])
      BY <1>1, <1>4, <2>1, <2>2, KnowsRead
    <3> QED
      BY <1>5, <2>2, <3>1
  <2>3. CASE d # c
    BY <1>5, <2>1, <2>3
  <2> QED
    BY <2>2, <2>3
<1>14. NoPanic' /\ ServedOrClosed'
  BY <1>8 DEF Delivery, NoPanic, ServedOrClosed
<1> QED
  BY <1>6, <1>7, <1>11, <1>12, <1>13, <1>14 DEF Delivery

(* Every step of a subscriber preserves the invariant.                     *)
LEMMA SubscriberIInv ==
  ASSUME IInv, NEW c \in Clients, Subscriber(c)
  PROVE  IInv'
<1>1. TypeOK /\ Delivery /\ Closing /\ CloseOrder
  BY DEF IInv, Delivery
<1>2. Closing' /\ CloseOrder'
  BY <1>1 DEF Subscriber, SubscribeCall, SubscribeRefused, CancelClient, WatchClient,
              UnsubscribeShutdown, StreamRecv, StreamEnd, SnapshotRecv, SnapshotEnd,
              managerVars, closeVars, Closing, CloseOrder
<1>3. CASE StreamRecv(c) \/ SnapshotRecv(c)
  <2>1. /\ sub[c] = "open" /\ buf[c] # <<>>
        /\ view' = [view EXCEPT ![c] = Replay(view[c], Head(buf[c]))]
        /\ buf' = [buf EXCEPT ![c] = Tail(buf[c])]
        /\ UNCHANGED <<snapshot, totalClients, closed, panicked, run>>
        /\ sub' = sub \/ sub' = [sub EXCEPT ![c] = "done"]
    BY <1>3 DEF StreamRecv, SnapshotRecv, managerVars
  <2>2. /\ buf' \in [Clients -> Seq(Events)]
        /\ \A d \in Clients : Len(buf'[d]) <= Buffer
        /\ view' \in [Clients -> Catalogs \union {NoView}]
        /\ Delivery'
    BY <1>1, <2>1, ReadDelivers
  <2>3. TypeOK'
    BY <1>1, <1>3, <2>2 DEF StreamRecv, SnapshotRecv, unsubscribe, managerVars, closeVars, TypeOK
  <2> QED
    BY <1>2, <2>2, <2>3 DEF IInv, Delivery
<1>4. CASE \/ SubscribeCall(c) \/ SubscribeRefused(c) \/ CancelClient(c)
           \/ WatchClient(c) \/ UnsubscribeShutdown(c)
           \/ StreamEnd(c) \/ SnapshotEnd(c)
  <2>1. UNCHANGED <<snapshot, totalClients, buf, closed, panicked, view, run>>
    BY <1>4 DEF SubscribeCall, SubscribeRefused, CancelClient, WatchClient,
                UnsubscribeShutdown, StreamEnd, SnapshotEnd, managerVars
  <2>2. TypeOK'
    BY <1>1, <1>4 DEF SubscribeCall, SubscribeRefused, CancelClient, WatchClient, unsubscribe,
                UnsubscribeShutdown, StreamEnd, SnapshotEnd, managerVars, closeVars, TypeOK
  <2>3. \A d \in Clients : sub[d] \in {"open", "done"} <=> sub'[d] \in {"open", "done"}
    BY <1>1, <1>4 DEF SubscribeCall, SubscribeRefused, CancelClient, WatchClient,
                UnsubscribeShutdown, StreamEnd, SnapshotEnd, TypeOK
  <2>4. Delivery'
    BY <1>1, <2>1, <2>2, <2>3, SameChannels
  <2> QED
    BY <1>2, <2>2, <2>4 DEF IInv, Delivery
<1> QED
  BY <1>3, <1>4 DEF Subscriber

(* Every step of a publisher preserves the invariant.                      *)
LEMMA PublisherIInv ==
  ASSUME IInv, NEW p \in Publishers, QueueEvent(p) \/ QueueEventCancelled(p)
  PROVE  IInv'
<1>1. TypeOK /\ Delivery /\ Closing /\ CloseOrder
  BY DEF IInv, Delivery
<1>2. TypeOK'
  BY <1>1 DEF QueueEvent, QueueEventCancelled, managerVars, clientVars, closeVars, TypeOK
<1>3. Delivery'
  BY <1>1, <1>2, SameChannels DEF QueueEvent, QueueEventCancelled, managerVars, clientVars
<1>4. Closing' /\ CloseOrder'
  BY <1>1 DEF QueueEvent, QueueEventCancelled, managerVars, closeVars, Closing, CloseOrder
<1> QED
  BY <1>2, <1>3, <1>4 DEF IInv, Delivery

(* Every step of Close preserves the invariant.                            *)
LEMMA CloseIInv ==
  ASSUME IInv, NEW k \in Closers, Close(k)
  PROVE  IInv'
<1>1. TypeOK /\ Delivery /\ Closing /\ CloseOrder
  BY DEF IInv, Delivery
<1>2. closeFrame
  BY DEF Close, CloseMark, CloseSignal, CloseWait
<1>3. TypeOK'
  BY <1>1, <1>2 DEF Close, CloseMark, CloseSignal, CloseWait, closeFrame, managerVars,
                    clientVars, TypeOK
<1>4. Delivery'
  BY <1>1, <1>2, <1>3, SameChannels DEF closeFrame, managerVars, clientVars
<1>5. Closing' /\ CloseOrder'
  BY <1>1, <1>2 DEF Close, CloseMark, CloseSignal, CloseWait, closeFrame, managerVars,
                    TypeOK, Closing, CloseOrder
<1> QED
  BY <1>3, <1>4, <1>5 DEF IInv, Delivery

(* The end of the context preserves the invariant.                         *)
LEMMA CtxDoneIInv == ASSUME IInv, CtxDone PROVE IInv'
<1>1. TypeOK /\ Delivery /\ Closing /\ CloseOrder
  BY DEF IInv, Delivery
<1>2. TypeOK'
  BY <1>1 DEF CtxDone, managerVars, clientVars, closeVars, TypeOK
<1>3. Delivery'
  BY <1>1, <1>2, SameChannels DEF CtxDone, managerVars, clientVars
<1>4. Closing' /\ CloseOrder'
  BY <1>1 DEF CtxDone, managerVars, closeVars, Closing, CloseOrder
<1> QED
  BY <1>2, <1>3, <1>4 DEF IInv, Delivery

(* Every step of the specification preserves the invariant.                *)
LEMMA NextIInv == IInv /\ [Next]_vars => IInv'
<1> SUFFICES ASSUME IInv, [Next]_vars PROVE IInv'
  OBVIOUS
<1>1. CASE Run
  BY <1>1, RunIInv
<1>2. ASSUME NEW p \in Publishers,
             QueueEvent(p) \/ QueueEventCancelled(p) \/ QueueEventShutdown(p)
      PROVE  IInv'
  BY <1>2, PublisherIInv DEF QueueEventShutdown
<1>3. ASSUME NEW c \in Clients, Subscriber(c) PROVE IInv'
  BY <1>3, SubscriberIInv
<1>4. ASSUME NEW k \in Closers, Close(k) PROVE IInv'
  BY <1>4, CloseIInv
<1>5. CASE CtxDone
  BY <1>5, CtxDoneIInv
<1>6. CASE UNCHANGED vars
  <2>1. TypeOK'
    BY <1>6 DEF vars, IInv, TypeOK
  <2>2. Delivery'
    BY <1>6, <2>1, SameChannels DEF vars, IInv, Delivery
  <2>3. Closing' /\ CloseOrder'
    BY <1>6 DEF vars, IInv, Closing, CloseOrder
  <2> QED
    BY <2>1, <2>2, <2>3 DEF IInv, Delivery
<1> QED
  BY <1>1, <1>2, <1>3, <1>4, <1>5, <1>6 DEF Next

-----------------------------------------------------------------------------
(* The inductive invariant holds in every reachable state of the manager.  *)
THEOREM Invariance == Spec => []IInv
BY InitIInv, NextIInv, PTL DEF Spec

(* Type correctness, the bound of every channel included.                  *)
THEOREM TypeCorrect == Spec => []TypeOK
<1>1. IInv => TypeOK
  BY DEF IInv
<1> QED
  BY <1>1, Invariance, PTL

(* A registered subscriber that reads its channel to the end has the       *)
(* catalog of the manager, for any buffer and any number of subscribers.   *)
THEOREM Complete == Spec => []NoLostUpdate
<1>1. IInv => NoLostUpdate
  BY DEF IInv
<1> QED
  BY <1>1, Invariance, PTL

(* The init event comes first and once in every channel.                   *)
THEOREM StartsWithInit == Spec => []InitFirst
<1>1. IInv => InitFirst
  BY DEF IInv
<1> QED
  BY <1>1, Invariance, PTL

(* run never sends on, or closes, a closed channel.                        *)
THEOREM NeverPanics == Spec => []NoPanic
<1>1. IInv => NoPanic
  BY DEF IInv
<1> QED
  BY <1>1, Invariance, PTL

(* An accepted subscriber is registered, or its channel is closed.         *)
THEOREM NobodyForgotten == Spec => []ServedOrClosed
<1>1. IInv => ServedOrClosed
  BY DEF IInv
<1> QED
  BY <1>1, Invariance, PTL

(* The error precedes the signal and the signal precedes closedCh.         *)
THEOREM ClosesInOrder == Spec => []CloseOrder
<1>1. IInv => CloseOrder
  BY DEF IInv
<1> QED
  BY <1>1, Invariance, PTL
=============================================================================
