---------------------------- MODULE EntityEvents ----------------------------
(***************************************************************************)
(* The values package entevents exchanges: the catalog it keeps and the    *)
(* events it sends (entevents/entevents.go).  A catalog (the map snapshot) *)
(* is a function that gives an identifier its entity, or None when the map *)
(* has no such key.  The module has no state: EntEvents, HubCatalog and    *)
(* CatalogClient share it.                                                 *)
(***************************************************************************)

EXTENDS Integers, Sequences

CONSTANTS Ids,    \* identifiers of entities (string in the code)
          Infos,  \* the entities themselves (the type parameter T)
          None    \* absence: no entity, no identifier, no payload

(* A catalog, and the one the manager starts with.                         *)
Catalogs == [Ids -> Infos \union {None}]
EmptyCatalog == [id \in Ids |-> None]

ASSUME NoneAssumption == None \notin Infos /\ None \notin Ids /\ None \notin Catalogs

(* EventType* of the code, "update" being the type cmd/proxyhub passes.    *)
EventTypes == {"init", "add", "del", "update", "ping", "shutdown"}

(* type EntityEvent: only an init event carries a catalog as its payload.  *)
Events == [ID : Ids \union {None}, Type : EventTypes,
           Entity : Infos \union {None}, Payload : Catalogs \union {None}]

Event(type, id, entity, payload) ==
  [ID |-> id, Type |-> type, Entity |-> entity, Payload |-> payload]

Add(id, entity) == Event("add", id, entity, None)
Del(id) == Event("del", id, None, None)
Update(id, entity) == Event("update", id, entity, None)

InitEvent(catalog) == Event("init", None, None, catalog)
PingEvent == Event("ping", None, None, None)
ShutdownEvent == Event("shutdown", None, None, None)

(* The events a caller can queue.                                          *)
Published == {Add(id, x) : id \in Ids, x \in Infos}
             \union {Update(id, x) : id \in Ids, x \in Infos}
             \union {Del(id) : id \in Ids}

(* processEvent: an add of a known id, and a del or an update of an        *)
(* unknown one, are dropped without a broadcast.                           *)
Ignored(catalog, event) ==
  IF event.Type = "add" THEN catalog[event.ID] # None
                        ELSE catalog[event.ID] = None

(* processEvent: the map after an event that is not ignored.               *)
Processed(catalog, event) ==
  [catalog EXCEPT ![event.ID] = IF event.Type = "del" THEN None
                                                      ELSE event.Entity]

-----------------------------------------------------------------------------
(* The subscriber's side: does an event say anything about id, and what.   *)
Touches(event, id) ==
  \/ event.Type = "init"
  \/ event.Type \in {"add", "del", "update"} /\ event.ID = id

Says(event, id) ==
  IF event.Type = "init" THEN event.Payload[id]
  ELSE IF event.Type = "del" THEN None ELSE event.Entity

(* The catalog of a subscriber that replays one more event.                *)
Replay(view, event) ==
  [id \in Ids |-> IF Touches(event, id) THEN Says(event, id) ELSE view[id]]

(* A subscriber whose catalog is view (None: it has read nothing) and that *)
(* has yet to read the events in buffer will end up with value for id: the *)
(* last event about id says so, or there is none and view says so.         *)
Knows(buffer, view, id, value) ==
  \/ \E i \in 1 .. Len(buffer) :
        /\ Touches(buffer[i], id) /\ Says(buffer[i], id) = value
        /\ \A j \in (i + 1) .. Len(buffer) : ~Touches(buffer[j], id)
  \/ /\ view # None /\ view[id] = value
     /\ \A j \in 1 .. Len(buffer) : ~Touches(buffer[j], id)
=============================================================================
