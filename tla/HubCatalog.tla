----------------------------- MODULE HubCatalog -----------------------------
(***************************************************************************)
(* The catalog of live proxies beside the registry (cmd/proxyhub/main.go): *)
(* for every proxy the hub adds, OnProxyAdded starts a goroutine that      *)
(* publishes its information, then its changes, then its end to the        *)
(* entevents.Manager.  The goroutines of two proxies with the same ID are  *)
(* not ordered with each other.                                            *)
(*                                                                         *)
(* The manager is running: it takes one event at a time and does to the    *)
(* catalog what module EntityEvents says.  What subscribers see of the     *)
(* catalog is module EntEvents.                                            *)
(***************************************************************************)
EXTENDS Hub

CONSTANTS Infos,      \* what is published of a proxy (its egress whitelist)
          FirstInfo,  \* what NewProxyHandlerGRPC starts with
          Reported    \* what nodes report in Hello and UpdatedEgressWhitelist

ASSUME InfosAssumption == FirstInfo \in Infos /\ Reported \subseteq Infos /\ None \notin Infos

VARIABLES
  info,     \* info[p]: the information the handler of p holds
  changed,  \* the infoChanged channel the publisher of p holds is closed
  pub,      \* pub[p]: where the publisher of p is
  sent,     \* sent[p]: the information the publisher is sending
  catalog   \* the manager's snapshot

Ev == INSTANCE EntityEvents

catalogVars == <<info, changed, pub, sent, catalog>>
allVars == <<hubVars, catalogVars>>

CatalogInit ==
  /\ Init
  /\ info = [p \in Proxies |-> FirstInfo]
  /\ changed = [p \in Proxies |-> FALSE]
  /\ pub = [p \in Proxies |-> "none"]
  /\ sent = [p \in Proxies |-> None]
  /\ catalog = Ev!EmptyCatalog

-----------------------------------------------------------------------------
(* Mutant: the information changes and the publisher is not told.          *)
UpdateInfo_Silent(p) ==
  /\ join[p] # "idle" /\ p \notin dead
  /\ \E x \in Reported : info' = [info EXCEPT ![p] = x]
  /\ UNCHANGED <<changed, pub, sent, catalog>>
  /\ UNCHANGED hubVars

(* Hello and UpdatedEgressWhitelist: the information changes and the       *)
(* channel that announces the change is closed and replaced, in one        *)
(* critical section.                                                       *)
UpdateInfo(p) ==
  /\ join[p] # "idle" /\ p \notin dead
  /\ \E x \in Reported : info' = [info EXCEPT ![p] = x]
  /\ changed' = [changed EXCEPT ![p] = TRUE]
  /\ UNCHANGED <<pub, sent, catalog>>
  /\ UNCHANGED hubVars

(* Mutant: the publisher reads the information before the loop and never   *)
(* again.                                                                  *)
ReadInfo_Once(p) ==
  /\ sent' = [sent EXCEPT ![p] = IF @ = None THEN info[p] ELSE @]
  /\ changed' = [changed EXCEPT ![p] = FALSE]

(* Info: the information together with the channel that announces the next *)
(* change.                                                                 *)
ReadInfo(p) ==
  /\ sent' = [sent EXCEPT ![p] = info[p]]
  /\ changed' = [changed EXCEPT ![p] = FALSE]

(* queueEvent returns once the manager has taken the event.                *)
Publish(event) ==
  catalog' = IF Ev!Ignored(catalog, event) THEN catalog
                                           ELSE Ev!Processed(catalog, event)

PubStart(p) ==
  /\ p \in added /\ pub[p] = "none"
  /\ pub' = [pub EXCEPT ![p] = "adding"]
  /\ ReadInfo(p)
  /\ UNCHANGED <<info, catalog>>
  /\ UNCHANGED hubVars

PubAdd(p) ==
  /\ pub[p] = "adding"
  /\ pub' = [pub EXCEPT ![p] = "watching"]
  /\ Publish(Ev!Add(IdOf[p], sent[p]))
  /\ UNCHANGED <<info, changed, sent>>
  /\ UNCHANGED hubVars

PubChanged(p) ==
  /\ pub[p] = "watching" /\ changed[p]
  /\ pub' = [pub EXCEPT ![p] = "updating"]
  /\ ReadInfo(p)
  /\ UNCHANGED <<info, catalog>>
  /\ UNCHANGED hubVars

PubUpdate(p) ==
  /\ pub[p] = "updating"
  /\ pub' = [pub EXCEPT ![p] = "watching"]
  /\ Publish(Ev!Update(IdOf[p], sent[p]))
  /\ UNCHANGED <<info, changed, sent>>
  /\ UNCHANGED hubVars

PubClosed(p) ==
  /\ pub[p] = "watching" /\ life[p] \in {"ending", "over"}
  /\ pub' = [pub EXCEPT ![p] = "deleting"]
  /\ UNCHANGED <<info, changed, sent, catalog>>
  /\ UNCHANGED hubVars

PubDel(p) ==
  /\ pub[p] = "deleting"
  /\ pub' = [pub EXCEPT ![p] = "done"]
  /\ Publish(Ev!Del(IdOf[p]))
  /\ UNCHANGED <<info, changed, sent>>
  /\ UNCHANGED hubVars

(* The context is done: what is pending fails and the goroutine returns.   *)
PubAbort(p) ==
  /\ pub[p] \notin {"none", "done"} /\ ctxDone
  /\ pub' = [pub EXCEPT ![p] = "done"]
  /\ UNCHANGED <<info, changed, sent, catalog>>
  /\ UNCHANGED hubVars

Publisher(p) == PubStart(p) \/ PubAdd(p) \/ PubChanged(p) \/ PubUpdate(p)
                \/ PubClosed(p) \/ PubDel(p) \/ PubAbort(p)

CatalogNext ==
  \/ Next /\ UNCHANGED catalogVars
  \/ \E p \in Proxies : UpdateInfo(p) \/ Publisher(p)

CatalogSpec == CatalogInit /\ [][CatalogNext]_allVars

-----------------------------------------------------------------------------
(* Every variable has its type, and a publisher that has started holds     *)
(* information to send.                                                    *)
CatalogTypeOK ==
  /\ info \in [Proxies -> Infos]
  /\ changed \in [Proxies -> BOOLEAN]
  /\ pub \in [Proxies -> {"none", "adding", "watching", "updating", "deleting", "done"}]
  /\ sent \in [Proxies -> Infos \union {None}]
  /\ \A p \in Proxies : pub[p] # "none" => sent[p] # None
  /\ catalog \in Ev!Catalogs

(* A registered proxy that nobody has begun to close.                      *)
Available(p) == Registered(p) /\ life[p] = "open"

(* The publisher of p has nothing left to say.                             *)
Quiet(p) ==
  IF pub[p] = "watching" THEN ~changed[p] /\ life[p] = "open"
                         ELSE pub[p] = "done"

(* run and every publisher wait for something new to happen.               *)
Settled == pc = "loop" /\ ~ctxDone /\ \A p \in added : Quiet(p)

(* When everything is settled, what the catalog lists is there and is      *)
(* current: no entry of a proxy that is gone, and no information older     *)
(* than the last Hello or UpdatedEgressWhitelist, even when nodes with the *)
(* same ID replace each other (Info, the publisher of OnProxyAdded).       *)
ListedIsCurrent ==
  Settled => \A id \in Ids : catalog[id] # None =>
     \E p \in Proxies : IdOf[p] = id /\ Available(p) /\ catalog[id] = info[p]

(* When everything is settled, the catalog lists every available proxy,    *)
(* with its current information.                                           *)
AvailableIsListed ==
  Settled => \A p \in Proxies : Available(p) => catalog[IdOf[p]] = info[p]

(* The same for a proxy that is the only one ever added under its ID: the  *)
(* Add, every Update and the changes that race them reach the catalog      *)
(* (Info, the publisher of OnProxyAdded).                                  *)
SoleIsListed ==
  Settled => \A p \in Proxies :
     (Available(p) /\ \A q \in added : IdOf[q] = IdOf[p] => q = p)
        => catalog[IdOf[p]] = info[p]
=============================================================================
