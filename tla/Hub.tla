-------------------------------- MODULE Hub --------------------------------
(***************************************************************************)
(* proxyhub.Proxyhub: the goroutine run owns the registry of proxies, one  *)
(* per ID.  A node that joins under an ID already taken replaces the old   *)
(* proxy; a watcher goroutine per proxy reports its end; Close stops the   *)
(* hub and every proxy.  Each proxy is seen through what module ProxyLife  *)
(* says of it, plus the flag that decides which caller of CloseWithError   *)
(* has to wait.                                                            *)
(*                                                                         *)
(* Sessions, draining connections and the answers of nodes belong to the   *)
(* environment: they may take for ever.                                    *)
(***************************************************************************)
EXTENDS Integers

CONSTANTS Proxies,  \* instances of Proxy: one per accepted /join request
          Ids,      \* configured proxy IDs
          IdOf,     \* IdOf[p]: the ID p joined under
          None,     \* no proxy
          Closers   \* calls of Proxyhub.Close

ASSUME IdOfAssumption == IdOf \in [Proxies -> Ids]
ASSUME NoneAssumption == None \notin Proxies

VARIABLES
  proxies,    \* the registry: proxies[id] is a proxy or None
  pc,         \* where run is
  cur,        \* the proxy run is adding, or None
  old,        \* the proxy run is replacing, or None
  join,       \* join[p]: the /join request of p
  life,       \* life[p]: "open", "marked" (flag set), "ending" (CloseChan closed), "over"
  err,        \* err[p]: the terminal error of p
  dead,       \* the proxies whose session has ended
  watcher,    \* watcher[p]: the goroutine that waits for the end of p
  why,        \* why[p]: the reason reported with the removal of p
  stop,       \* stop[p]: the goroutine that disconnects p when the hub stops
  added,      \* the proxies OnProxyAdded was called for
  removed,    \* removed[p]: how often OnProxyRemoved was called for p
  shutdown,   \* the flag of the hub
  shutdownCh, \* shutdownCh of the hub is closed
  closer,     \* closer[k]: where k is in Close
  ctxDone     \* the context of the process is done

runVars == <<proxies, pc, cur, old, added>>
proxyVars == <<life, err, dead>>
endVars == <<watcher, why, stop, removed>>
closeVars == <<shutdown, shutdownCh, closer>>
hubVars == <<proxies, pc, cur, old, join, life, err, dead, watcher, why, stop, added,
          removed, shutdown, shutdownCh, closer, ctxDone>>

Init ==
  /\ proxies = [id \in Ids |-> None]
  /\ pc = "loop" /\ cur = None /\ old = None
  /\ join = [p \in Proxies |-> "idle"]
  /\ life = [p \in Proxies |-> "open"]
  /\ err = [p \in Proxies |-> "nil"]
  /\ dead = {}
  /\ watcher = [p \in Proxies |-> "none"]
  /\ why = [p \in Proxies |-> "none"]
  /\ stop = [p \in Proxies |-> "none"]
  /\ added = {}
  /\ removed = [p \in Proxies |-> 0]
  /\ shutdown = FALSE /\ shutdownCh = FALSE
  /\ closer = [k \in Closers |-> "idle"]
  /\ ctxDone = FALSE

-----------------------------------------------------------------------------
(* Proxies.                                                                *)

(* The first half of CloseWithError by a caller that finds the flag clear. *)
Mark(p, e) ==
  /\ life' = [life EXCEPT ![p] = "marked"]
  /\ err' = [err EXCEPT ![p] = IF @ = "nil" THEN e ELSE @]
  /\ UNCHANGED dead

SessionEnds(p) ==
  /\ join[p] # "idle" /\ p \notin dead
  /\ dead' = dead \union {p}
  /\ UNCHANGED <<join, life, err, ctxDone>>
  /\ UNCHANGED runVars /\ UNCHANGED endVars /\ UNCHANGED closeVars

(* exitErr in the proxy's own run records why the session ended.           *)
NoticeSession(p) ==
  /\ p \in dead /\ life[p] = "open" /\ err[p] = "nil"
  /\ err' = [err EXCEPT ![p] = "ErrSessionClosed"]
  /\ UNCHANGED <<join, life, dead, ctxDone>>
  /\ UNCHANGED runVars /\ UNCHANGED endVars /\ UNCHANGED closeVars

(* CloseWithError is called by exitErr's goroutine, which has recorded the *)
(* error, or by the node's Disconnect.                                     *)
EndItself(p) ==
  /\ join[p] # "idle" /\ life[p] = "open"
  /\ Mark(p, "clientDisconnect")
  /\ UNCHANGED <<join, ctxDone>>
  /\ UNCHANGED runVars /\ UNCHANGED endVars /\ UNCHANGED closeVars

Announce(p) ==
  /\ life[p] = "marked"
  /\ life' = [life EXCEPT ![p] = "ending"]
  /\ UNCHANGED <<join, err, dead, ctxDone>>
  /\ UNCHANGED runVars /\ UNCHANGED endVars /\ UNCHANGED closeVars

(* The proxy has drained its connections and closedCh is closed.           *)
Finish(p) ==
  /\ life[p] = "ending"
  /\ life' = [life EXCEPT ![p] = "over"]
  /\ dead' = dead \union {p}
  /\ UNCHANGED <<join, err, ctxDone>>
  /\ UNCHANGED runVars /\ UNCHANGED endVars /\ UNCHANGED closeVars

-----------------------------------------------------------------------------
(* /join.                                                                  *)

(* NewProxy has succeeded and HandleJoinProxy blocks in its select.        *)
JoinCall(p) ==
  /\ join[p] = "idle"
  /\ join' = [join EXCEPT ![p] = "calling"]
  /\ UNCHANGED ctxDone
  /\ UNCHANGED proxyVars /\ UNCHANGED runVars /\ UNCHANGED endVars /\ UNCHANGED closeVars

(* Mutant: the proxy of a refused join is left alone.                      *)
JoinRefused_Leak(p) ==
  /\ join[p] = "calling" /\ (shutdownCh \/ ctxDone)
  /\ join' = [join EXCEPT ![p] = "refused"]
  /\ UNCHANGED proxyVars
  /\ UNCHANGED ctxDone
  /\ UNCHANGED runVars /\ UNCHANGED endVars /\ UNCHANGED closeVars

(* Mutant: HandleJoinProxy does not select on the hub's shutdownCh.        *)
JoinRefused_CtxOnly(p) ==
  /\ join[p] = "calling" /\ ctxDone
  /\ join' = [join EXCEPT ![p] = "refused"]
  /\ IF life[p] = "open" THEN Mark(p, "ErrShutdown") ELSE UNCHANGED proxyVars
  /\ UNCHANGED ctxDone
  /\ UNCHANGED runVars /\ UNCHANGED endVars /\ UNCHANGED closeVars

(* HandleJoinProxy returns an error and the handler closes the proxy.      *)
JoinRefused(p) ==
  /\ join[p] = "calling" /\ (shutdownCh \/ ctxDone)
  /\ join' = [join EXCEPT ![p] = "refused"]
  /\ IF life[p] = "open" THEN Mark(p, "ErrShutdown") ELSE UNCHANGED proxyVars
  /\ UNCHANGED ctxDone
  /\ UNCHANGED runVars /\ UNCHANGED endVars /\ UNCHANGED closeVars

-----------------------------------------------------------------------------
(* run: adding a proxy.                                                    *)

RunNew(p) ==
  /\ pc = "loop" /\ join[p] = "calling"
  /\ join' = [join EXCEPT ![p] = "joined"]
  /\ pc' = "lookup" /\ cur' = p
  /\ UNCHANGED <<proxies, old, added, ctxDone>>
  /\ UNCHANGED proxyVars /\ UNCHANGED endVars /\ UNCHANGED closeVars

(* The ID is free: register, start the watcher, call OnProxyAdded.         *)
RunInsert ==
  /\ pc = "lookup" /\ proxies[IdOf[cur]] = None
  /\ proxies' = [proxies EXCEPT ![IdOf[cur]] = cur]
  /\ watcher' = [watcher EXCEPT ![cur] = "waiting"]
  /\ added' = added \union {cur}
  /\ pc' = "loop" /\ cur' = None
  /\ UNCHANGED <<join, old, why, stop, removed, ctxDone>>
  /\ UNCHANGED proxyVars /\ UNCHANGED closeVars

(* The ID is taken: unregister the old proxy and send it a Disconnect.     *)
RunEvict ==
  /\ pc = "lookup" /\ proxies[IdOf[cur]] # None
  /\ old' = proxies[IdOf[cur]]
  /\ proxies' = [proxies EXCEPT ![IdOf[cur]] = None]
  /\ pc' = "disconnect"
  /\ UNCHANGED <<join, cur, added, ctxDone>>
  /\ UNCHANGED proxyVars /\ UNCHANGED endVars /\ UNCHANGED closeVars

(* Mutant: run waits for the node to acknowledge, dead or alive.           *)
RunDisconnected_Ack ==
  /\ pc = "disconnect" /\ old \notin dead
  /\ pc' = "closeOld"
  /\ UNCHANGED <<proxies, cur, old, added, join, ctxDone>>
  /\ UNCHANGED proxyVars /\ UNCHANGED endVars /\ UNCHANGED closeVars

(* SendDisconnect returns; there is no deadline on the call.               *)
RunDisconnected ==
  /\ pc = "disconnect"
  /\ pc' = "closeOld"
  /\ UNCHANGED <<proxies, cur, old, added, join, ctxDone>>
  /\ UNCHANGED proxyVars /\ UNCHANGED endVars /\ UNCHANGED closeVars

(* Mutant: the old proxy is told to disconnect and forgotten.              *)
RunCloseOld_Skip ==
  /\ pc = "closeOld"
  /\ pc' = "lookup" /\ old' = None
  /\ UNCHANGED proxyVars
  /\ UNCHANGED <<proxies, cur, added, join, ctxDone>>
  /\ UNCHANGED endVars /\ UNCHANGED closeVars

(* Mutant: the old proxy is closed with Close, not with the reason.        *)
RunCloseOld_PlainClose ==
  /\ pc = "closeOld"
  /\ IF life[old] = "open"
       THEN Mark(old, "ErrShutdown") /\ pc' = "waitOld" /\ UNCHANGED old
       ELSE UNCHANGED proxyVars /\ pc' = "lookup" /\ old' = None
  /\ UNCHANGED <<proxies, cur, added, join, ctxDone>>
  /\ UNCHANGED endVars /\ UNCHANGED closeVars

(* CloseWithError(ErrDuplicateReplaced): run waits for the end of the old  *)
(* proxy if it is the first to close it and goes on at once if it is not.  *)
RunCloseOld ==
  /\ pc = "closeOld"
  /\ IF life[old] = "open"
       THEN Mark(old, "ErrDuplicateReplaced") /\ pc' = "waitOld" /\ UNCHANGED old
       ELSE UNCHANGED proxyVars /\ pc' = "lookup" /\ old' = None
  /\ UNCHANGED <<proxies, cur, added, join, ctxDone>>
  /\ UNCHANGED endVars /\ UNCHANGED closeVars

RunOldOver ==
  /\ pc = "waitOld" /\ life[old] = "over"
  /\ pc' = "lookup" /\ old' = None
  /\ UNCHANGED <<proxies, cur, added, join, ctxDone>>
  /\ UNCHANGED proxyVars /\ UNCHANGED endVars /\ UNCHANGED closeVars

-----------------------------------------------------------------------------
(* Watchers and removals.                                                  *)

(* classifyProxyRemoval without an explicit reason.                        *)
classifyProxyRemoval(e, hubShuttingDown) ==
  IF e = "ErrSessionClosed" THEN "session_closed"
  ELSE IF e = "ErrDuplicateReplaced" THEN "duplicate_replaced"
  ELSE IF e = "ErrShutdown" /\ hubShuttingDown THEN "server_shutdown"
  ELSE IF e = "clientDisconnect" THEN "client_disconnect"
  ELSE "error"

(* proxy.Wait(ctx) returns.  When the context ended and the proxy has no   *)
(* error of its own, the error of the context stands in.                   *)
WatchReturn(p) ==
  /\ watcher[p] = "waiting" /\ (life[p] = "over" \/ ctxDone)
  /\ watcher' = [watcher EXCEPT ![p] = "sending"]
  /\ why' = [why EXCEPT ![p] = classifyProxyRemoval(
                IF err[p] = "nil" THEN "ctxErr" ELSE err[p], shutdown)]
  /\ UNCHANGED <<join, stop, removed, ctxDone>>
  /\ UNCHANGED proxyVars /\ UNCHANGED runVars /\ UNCHANGED closeVars

WatchAbandon(p) ==
  /\ watcher[p] = "sending" /\ shutdownCh
  /\ watcher' = [watcher EXCEPT ![p] = "done"]
  /\ UNCHANGED <<join, why, stop, removed, ctxDone>>
  /\ UNCHANGED proxyVars /\ UNCHANGED runVars /\ UNCHANGED closeVars

(* Mutant: the removal clears the ID whoever holds it now.                 *)
RunRemoval_ByID(p) ==
  /\ pc = "loop" /\ watcher[p] = "sending"
  /\ watcher' = [watcher EXCEPT ![p] = "done"]
  /\ proxies' = [proxies EXCEPT ![IdOf[p]] = None]
  /\ removed' = [removed EXCEPT ![p] = @ + 1]
  /\ UNCHANGED <<pc, cur, old, added, join, why, stop, ctxDone>>
  /\ UNCHANGED proxyVars /\ UNCHANGED closeVars

(* Mutant: the removal only reports, the entry stays.                      *)
RunRemoval_KeepEntry(p) ==
  /\ pc = "loop" /\ watcher[p] = "sending"
  /\ watcher' = [watcher EXCEPT ![p] = "done"]
  /\ removed' = [removed EXCEPT ![p] = @ + 1]
  /\ UNCHANGED <<proxies, pc, cur, old, added, join, why, stop, ctxDone>>
  /\ UNCHANGED proxyVars /\ UNCHANGED closeVars

(* run takes the removal: the entry goes only if it is still this proxy.   *)
RunRemoval(p) ==
  /\ pc = "loop" /\ watcher[p] = "sending"
  /\ watcher' = [watcher EXCEPT ![p] = "done"]
  /\ proxies' = [proxies EXCEPT ![IdOf[p]] = IF @ = p THEN None ELSE @]
  /\ removed' = [removed EXCEPT ![p] = @ + 1]
  /\ UNCHANGED <<pc, cur, old, added, join, why, stop, ctxDone>>
  /\ UNCHANGED proxyVars /\ UNCHANGED closeVars

-----------------------------------------------------------------------------
(* run: stopping.                                                          *)

(* The loop ends; one goroutine per registered proxy.                      *)
RunStop ==
  /\ pc = "loop" /\ shutdownCh
  /\ pc' = "stopping"
  /\ stop' = [p \in Proxies |-> IF proxies[IdOf[p]] = p THEN "disconnect" ELSE "none"]
  /\ UNCHANGED <<proxies, cur, old, added, join, watcher, why, removed, ctxDone>>
  /\ UNCHANGED proxyVars /\ UNCHANGED closeVars

StopDisconnected(p) ==
  /\ stop[p] = "disconnect"
  /\ stop' = [stop EXCEPT ![p] = "close"]
  /\ UNCHANGED <<join, watcher, why, removed, ctxDone>>
  /\ UNCHANGED proxyVars /\ UNCHANGED runVars /\ UNCHANGED closeVars

(* Mutant: the goroutine gives up, without wg.Done(), on a proxy that is   *)
(* being closed already.                                                   *)
StopClose_GiveUp(p) ==
  /\ stop[p] = "close" /\ life[p] = "open"
  /\ Mark(p, "ErrShutdown")
  /\ stop' = [stop EXCEPT ![p] = "wait"]
  /\ UNCHANGED <<join, watcher, why, removed, ctxDone>>
  /\ UNCHANGED runVars /\ UNCHANGED closeVars

(* Close returns at once when somebody else is closing the proxy already.  *)
StopClose(p) ==
  /\ stop[p] = "close"
  /\ IF life[p] = "open"
       THEN /\ Mark(p, "ErrShutdown")
            /\ stop' = [stop EXCEPT ![p] = "wait"]
            /\ UNCHANGED removed
       ELSE /\ UNCHANGED proxyVars
            /\ stop' = [stop EXCEPT ![p] = "done"]
            /\ removed' = [removed EXCEPT ![p] = @ + 1]
  /\ UNCHANGED <<join, watcher, why, ctxDone>>
  /\ UNCHANGED runVars /\ UNCHANGED closeVars

StopOver(p) ==
  /\ stop[p] = "wait" /\ life[p] = "over"
  /\ stop' = [stop EXCEPT ![p] = "done"]
  /\ removed' = [removed EXCEPT ![p] = @ + 1]
  /\ UNCHANGED <<join, watcher, why, ctxDone>>
  /\ UNCHANGED proxyVars /\ UNCHANGED runVars /\ UNCHANGED closeVars

(* wg.Wait returns and runDoneCh is closed.                                *)
RunDone ==
  /\ pc = "stopping" /\ \A p \in Proxies : stop[p] \in {"none", "done"}
  /\ pc' = "done"
  /\ UNCHANGED <<proxies, cur, old, added, join, ctxDone>>
  /\ UNCHANGED proxyVars /\ UNCHANGED endVars /\ UNCHANGED closeVars

-----------------------------------------------------------------------------
(* Close.                                                                  *)

CloseMark(k) ==
  /\ closer[k] = "idle"
  /\ closer' = [closer EXCEPT ![k] = IF shutdown THEN "returned" ELSE "marked"]
  /\ shutdown' = TRUE
  /\ UNCHANGED <<shutdownCh, join, ctxDone>>
  /\ UNCHANGED proxyVars /\ UNCHANGED runVars /\ UNCHANGED endVars

CloseSignal(k) ==
  /\ closer[k] = "marked"
  /\ closer' = [closer EXCEPT ![k] = "signalled"]
  /\ shutdownCh' = TRUE
  /\ UNCHANGED <<shutdown, join, ctxDone>>
  /\ UNCHANGED proxyVars /\ UNCHANGED runVars /\ UNCHANGED endVars

CloseWait(k) ==
  /\ closer[k] = "signalled" /\ pc = "done"
  /\ closer' = [closer EXCEPT ![k] = "returned"]
  /\ UNCHANGED <<shutdown, shutdownCh, join, ctxDone>>
  /\ UNCHANGED proxyVars /\ UNCHANGED runVars /\ UNCHANGED endVars

CtxDone ==
  /\ ~ctxDone /\ ctxDone' = TRUE
  /\ UNCHANGED join
  /\ UNCHANGED proxyVars /\ UNCHANGED runVars /\ UNCHANGED endVars /\ UNCHANGED closeVars

-----------------------------------------------------------------------------
Adding == RunInsert \/ RunEvict \/ RunDisconnected \/ RunCloseOld \/ RunOldOver

Next ==
  \/ Adding \/ RunStop \/ RunDone \/ CtxDone
  \/ \E p \in Proxies :
       \/ SessionEnds(p) \/ NoticeSession(p) \/ EndItself(p) \/ Announce(p) \/ Finish(p)
       \/ JoinCall(p) \/ JoinRefused(p) \/ RunNew(p)
       \/ WatchReturn(p) \/ WatchAbandon(p) \/ RunRemoval(p)
       \/ StopDisconnected(p) \/ StopClose(p) \/ StopOver(p)
  \/ \E k \in Closers : CloseMark(k) \/ CloseSignal(k) \/ CloseWait(k)

Spec == Init /\ [][Next]_hubVars

(* SendDisconnect returns for sure once the node's session has ended, the  *)
(* proxy's gRPC client is closed (with CloseChan) or the context is done.  *)
Unreachable(p) == p \in dead \/ life[p] \in {"ending", "over"} \/ ctxDone

(* Every goroutine that can move does.  A select draws among its ready     *)
(* cases and senders queue up, so that a join or a removal run could take  *)
(* again and again is taken.  A proxy told to end is over for sure only    *)
(* when the context is done: until then a bridge may be held up by a       *)
(* client that does not read, also when the node is gone (module Bridge).  *)
Fairness ==
  /\ WF_hubVars(RunInsert \/ RunEvict \/ RunCloseOld \/ RunOldOver \/ RunStop \/ RunDone)
  /\ WF_hubVars(RunDisconnected /\ Unreachable(old))
  /\ \A p \in Proxies :
       /\ WF_hubVars(Announce(p) \/ (Finish(p) /\ ctxDone))
       /\ SF_hubVars(RunNew(p)) /\ SF_hubVars(RunRemoval(p))
       /\ WF_hubVars(JoinRefused(p))
       /\ WF_hubVars(WatchReturn(p) \/ WatchAbandon(p))
       /\ WF_hubVars((StopDisconnected(p) /\ Unreachable(p)) \/ StopClose(p) \/ StopOver(p))
  /\ \A k \in Closers : WF_hubVars(CloseSignal(k) \/ CloseWait(k))

FairSpec == Spec /\ Fairness

-----------------------------------------------------------------------------
Errors == {"nil", "ErrSessionClosed", "ErrDuplicateReplaced", "ErrShutdown", "clientDisconnect"}
Whys == {"none", "session_closed", "duplicate_replaced", "server_shutdown",
         "client_disconnect", "error"}

(* Every variable has its type, and the registry files a proxy under its   *)
(* own ID.                                                                 *)
TypeOK ==
  /\ proxies \in [Ids -> Proxies \union {None}]
  /\ \A id \in Ids : proxies[id] # None => IdOf[proxies[id]] = id
  /\ pc \in {"loop", "lookup", "disconnect", "closeOld", "waitOld", "stopping", "done"}
  /\ cur \in Proxies \union {None} /\ old \in Proxies \union {None}
  /\ pc \in {"lookup", "disconnect", "closeOld", "waitOld"} <=> cur # None
  /\ pc \in {"disconnect", "closeOld", "waitOld"} <=> old # None
  /\ join \in [Proxies -> {"idle", "calling", "joined", "refused"}]
  /\ life \in [Proxies -> {"open", "marked", "ending", "over"}]
  /\ err \in [Proxies -> Errors]
  /\ dead \in SUBSET Proxies
  /\ watcher \in [Proxies -> {"none", "waiting", "sending", "done"}]
  /\ why \in [Proxies -> Whys]
  /\ stop \in [Proxies -> {"none", "disconnect", "close", "wait", "done"}]
  /\ added \in SUBSET Proxies
  /\ removed \in [Proxies -> Nat]
  /\ shutdown \in BOOLEAN /\ shutdownCh \in BOOLEAN
  /\ closer \in [Closers -> {"idle", "marked", "signalled", "returned"}]
  /\ ctxDone \in BOOLEAN

Registered(p) == proxies[IdOf[p]] = p

(* One node per ID: when a proxy is registered, every other proxy that was *)
(* ever added under its ID has been told to end (the replacement loop),    *)
(* unless the process is being torn down.                                  *)
SoleOpenPerID ==
  \A p, q \in Proxies :
     (Registered(p) /\ q \in added /\ q # p /\ IdOf[q] = IdOf[p])
        => life[q] # "open" \/ ctxDone

(* OnProxyRemoved is called at most once for a proxy, whether its watcher  *)
(* reports it, a newer one replaces it or the hub stops.                   *)
RemovedOnce == \A p \in Proxies : removed[p] <= 1

(* When run has returned no proxy that reached the hub is left open: not a *)
(* registered one, not one that replaced another during the shutdown, not  *)
(* one whose join was refused.  When the process is torn down, a watcher   *)
(* may unregister a proxy that nobody has closed.                          *)
NoneLeftOpen ==
  pc = "done" /\ ~ctxDone => \A p \in Proxies : join[p] \in {"joined", "refused"} => life[p] # "open"

(* A removal is reported as "error" only when the process is being torn    *)
(* down: replacement, the node's end and the hub's shutdown are told apart *)
(* whatever their order (classifyProxyRemoval and who calls Close).        *)
ErrorMeansTeardown == \A p \in Proxies : why[p] = "error" => ctxDone

(* A proxy loses its registration only when it is over, when the process   *)
(* is being torn down, or to a newcomer with the same ID: the late removal *)
(* of a replaced proxy does not unregister its successor.                  *)
LosesEntryForCause ==
  [][\A id \in Ids : (proxies[id] # None /\ proxies'[id] # proxies[id]) =>
        \/ life[proxies[id]] = "over" \/ ctxDone
        \/ cur # None /\ IdOf[cur] = id]_hubVars

-----------------------------------------------------------------------------
(* run is not stuck on a node it is replacing.                             *)
NotStuck == []<>(pc \notin {"disconnect", "waitOld"})

(* No proxy drains for ever: no client of a connection it serves leaves it *)
(* writing (Proxy!CloseTerminates).                                        *)
Drains == []<>(\A p \in Proxies : life[p] # "ending")

(* A node that is gone does not hold up the hub, if no client does: the    *)
(* replacement of a proxy whose session has ended is completed.            *)
DeadNodeIsReplaced ==
  Drains => ((pc = "disconnect" /\ old \in dead) ~> (pc = "lookup"))

(* As long as run is not stuck on a node it replaces, every call of        *)
(* HandleJoinProxy is answered, whether the hub runs or stops.             *)
JoinAnswered ==
  NotStuck => \A p \in Proxies : join[p] = "calling" ~> join[p] # "calling"

(* As long as run is not stuck on a node it replaces, a proxy that is over *)
(* leaves the registry, unless the hub is stopping: its watcher's report   *)
(* reaches run (the goroutine started with the insertion, removedProxies). *)
OverIsUnregistered ==
  NotStuck => \A p \in Proxies : (Registered(p) /\ life[p] = "over")
                                   ~> (~Registered(p) \/ shutdownCh)

(* Close returns once the context is done, or, if no client holds up a     *)
(* proxy, once the session of every node it is disconnecting has ended:    *)
(* the hub, its proxies and their callers never wait for each other in a   *)
(* circle.                                                                 *)
CloseReturns ==
  /\ (shutdownCh /\ ctxDone) ~> (pc = "done")
  /\ Drains => ((pc = "stopping" /\ \A p \in Proxies : stop[p] # "none" => p \in dead)
                  ~> (pc = "done"))
=============================================================================
