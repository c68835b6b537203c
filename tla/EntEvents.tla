----------------------------- MODULE EntEvents -----------------------------
(***************************************************************************)
(* entevents.Manager: one goroutine (run) owns the catalog of live proxies *)
(* and a set of subscriber channels; publishers hand it events over an     *)
(* unbuffered channel, HTTP and gRPC handlers subscribe and unsubscribe    *)
(* over two more, and Close stops it.                                      *)
(*                                                                         *)
(* One step of run is one case of its select with everything the case      *)
(* calls: no other goroutine sees totalClients or snapshot, and a consumer *)
(* touches only its own channel, so a broadcast is one step.  A rendezvous *)
(* on an unbuffered channel is one step of run and of the sender.          *)
(***************************************************************************)
EXTENDS EntityEvents

CONSTANTS Streams,     \* calls of Subscribe that read until the channel closes (ServeSSE)
          Requests,    \* calls of Subscribe that read one event (ServeSnapshot)
          Publishers,  \* goroutines that call Add, Del and Update
          Closers,     \* goroutines that call Close
          Buffer       \* capacity of a subscriber's channel (32 in the handlers)

ASSUME BufferAssumption == Buffer \in Nat \ {0}
ASSUME ClientsAssumption == Streams \intersect Requests = {}

Clients == Streams \union Requests

VARIABLES
  snapshot,      \* the map from ids to entities
  totalClients,  \* the subscribers run knows
  buf,           \* buf[c]: what is in c's channel
  closed,        \* the subscribers whose channel is closed
  panicked,      \* a send on, or a close of, a closed channel has happened
  run,           \* "loop", or why run has returned: "ctx" or "shutdown"
  ctxDone,       \* the context given to New is done
  sub,           \* sub[c]: where the handler that subscribed is
  cctx,          \* the subscribers whose own context is done
  unsub,         \* unsub[c]: the once of unsubscribe and the goroutine it starts
  view,          \* history: the catalog c has put together from what it read
  pub,           \* pub[p]: the event p is blocked on in queueEvent, or None
  closer,        \* closer[k]: where k is in Close
  shutdownCh,    \* shutdownCh is closed
  shutdownErr,   \* what queueEvent, Subscribe and Wait return once stopped
  closedCh       \* closedCh is closed

managerVars == <<snapshot, totalClients, run>>
clientVars == <<sub, cctx, unsub, view>>
closeVars == <<closer, shutdownCh, shutdownErr, closedCh>>
vars == <<snapshot, totalClients, buf, closed, panicked, run, ctxDone,
          sub, cctx, unsub, view, pub, closer, shutdownCh, shutdownErr, closedCh>>

(* Nothing read yet: the channel of a subscriber starts with an init event. *)
NoView == None

Init ==
  /\ snapshot = EmptyCatalog
  /\ totalClients = {}
  /\ buf = [c \in Clients |-> <<>>]
  /\ closed = {}
  /\ panicked = FALSE
  /\ run = "loop"
  /\ ctxDone = FALSE
  /\ sub = [c \in Clients |-> "idle"]
  /\ cctx = {}
  /\ unsub = [c \in Clients |-> "armed"]
  /\ view = [c \in Clients |-> NoView]
  /\ pub = [p \in Publishers |-> None]
  /\ closer = [k \in Closers |-> "idle"]
  /\ shutdownCh = FALSE
  /\ shutdownErr = "nil"
  /\ closedCh = FALSE

-----------------------------------------------------------------------------
(* Channel operations of run.  The three operators below change            *)
(* totalClients, buf, closed and panicked and nothing else.                *)

(* Mutant: a full channel loses the event and the subscriber stays.        *)
sendClientEvent_Dropping(clients, registered, event) ==
  /\ totalClients' = registered
  /\ closed' = closed
  /\ buf' = [c \in Clients |-> IF c \in clients /\ Len(buf[c]) < Buffer
                                 THEN Append(buf[c], event) ELSE buf[c]]
  /\ panicked' = (panicked \/ clients \intersect closed # {})

(* Mutant: a subscriber whose channel is full is forgotten, not closed.    *)
sendClientEvent_Silent(clients, registered, event) ==
  LET full == {c \in clients : Len(buf[c]) >= Buffer}
  IN /\ totalClients' = registered \ full
     /\ closed' = closed
     /\ buf' = [c \in Clients |-> IF c \in clients \ full
                                    THEN Append(buf[c], event) ELSE buf[c]]
     /\ panicked' = (panicked \/ clients \intersect closed # {})

(* sendClientEvent to every member of clients, all of them registered: the *)
(* send does not block, and a subscriber whose channel is full is removed. *)
sendClientEvent(clients, registered, event) ==
  LET full == {c \in clients : Len(buf[c]) >= Buffer}
  IN /\ totalClients' = registered \ full
     /\ closed' = closed \union full
     /\ buf' = [c \in Clients |-> IF c \in clients \ full
                                    THEN Append(buf[c], event) ELSE buf[c]]
     /\ panicked' = (panicked \/ clients \intersect closed # {})

broadcast(event) == sendClientEvent(totalClients, totalClients, event)

(* Mutant: removeClient does not look whether c is still registered.       *)
removeClient_Unchecked(c) ==
  /\ totalClients' = totalClients \ {c}
  /\ closed' = closed \union {c}
  /\ panicked' = (panicked \/ c \in closed)
  /\ UNCHANGED buf

(* Mutant: removeClient forgets to close the channel.                      *)
removeClient_Unclosed(c) ==
  /\ totalClients' = totalClients \ {c}
  /\ UNCHANGED <<closed, panicked, buf>>

(* removeClient without a final event: a subscriber that is no longer      *)
(* registered (it was evicted) is left alone.                              *)
removeClient(c) ==
  /\ totalClients' = totalClients \ {c}
  /\ closed' = IF c \in totalClients THEN closed \union {c} ELSE closed
  /\ panicked' = (panicked \/ (c \in totalClients /\ c \in closed))
  /\ UNCHANGED buf

-----------------------------------------------------------------------------
(* run, one action per case of the select.                                 *)

RunCtxDone ==
  /\ run = "loop" /\ ctxDone
  /\ run' = "ctx"
  /\ UNCHANGED <<snapshot, totalClients, buf, closed, panicked, ctxDone, pub>>
  /\ UNCHANGED clientVars
  /\ UNCHANGED closeVars

(* Mutant: shutdownCh is treated like ctx.Done(), the channels stay open.  *)
RunShutdown_Return ==
  /\ run = "loop" /\ shutdownCh
  /\ run' = "shutdown"
  /\ UNCHANGED <<snapshot, totalClients, buf, closed, panicked, ctxDone, pub>>
  /\ UNCHANGED clientVars
  /\ UNCHANGED closeVars

(* The loop ends and every subscriber is removed with a shutdown event,    *)
(* which a full channel does not get.                                      *)
RunShutdown ==
  /\ run = "loop" /\ shutdownCh
  /\ run' = "shutdown"
  /\ totalClients' = {}
  /\ closed' = closed \union totalClients
  /\ panicked' = (panicked \/ totalClients \intersect closed # {})
  /\ buf' = [c \in Clients |-> IF c \in totalClients /\ Len(buf[c]) < Buffer
                                 THEN Append(buf[c], ShutdownEvent) ELSE buf[c]]
  /\ UNCHANGED <<snapshot, ctxDone, pub>>
  /\ UNCHANGED clientVars
  /\ UNCHANGED closeVars

RunNewClient(c) ==
  /\ run = "loop" /\ sub[c] = "calling"
  /\ sub' = [sub EXCEPT ![c] = "open"]
  /\ sendClientEvent({c}, totalClients \union {c}, InitEvent(snapshot))
  /\ UNCHANGED <<snapshot, run, ctxDone, cctx, unsub, view, pub>>
  /\ UNCHANGED closeVars

RunClosedClient(c) ==
  /\ run = "loop" /\ unsub[c] = "queued"
  /\ unsub' = [unsub EXCEPT ![c] = "done"]
  /\ removeClient(c)
  /\ UNCHANGED <<snapshot, run, ctxDone, sub, cctx, view, pub>>
  /\ UNCHANGED closeVars

processEvent(event) ==
  \/ /\ Ignored(snapshot, event)
     /\ UNCHANGED <<snapshot, totalClients, buf, closed, panicked>>
  \/ /\ ~Ignored(snapshot, event)
     /\ snapshot' = Processed(snapshot, event)
     /\ broadcast(event)

RunEvent(p) ==
  /\ run = "loop" /\ pub[p] # None
  /\ pub' = [pub EXCEPT ![p] = None]
  /\ processEvent(pub[p])
  /\ UNCHANGED <<run, ctxDone>>
  /\ UNCHANGED clientVars
  /\ UNCHANGED closeVars

RunPing ==
  /\ run = "loop"
  /\ broadcast(PingEvent)
  /\ UNCHANGED <<snapshot, run, ctxDone, pub>>
  /\ UNCHANGED clientVars
  /\ UNCHANGED closeVars

Run == \/ RunCtxDone \/ RunShutdown \/ RunPing
       \/ \E c \in Clients : RunNewClient(c) \/ RunClosedClient(c)
       \/ \E p \in Publishers : RunEvent(p)

-----------------------------------------------------------------------------
(* Publishers.                                                             *)

(* Add, Del or Update is called and blocks in queueEvent.                  *)
QueueEvent(p) ==
  /\ pub[p] = None
  /\ \E event \in Published : pub' = [pub EXCEPT ![p] = event]
  /\ UNCHANGED <<buf, closed, panicked, ctxDone>>
  /\ UNCHANGED managerVars
  /\ UNCHANGED clientVars
  /\ UNCHANGED closeVars

(* queueEvent returns an error: the caller's context is done (at any time) *)
(* or the manager has been told to stop.                                   *)
QueueEventCancelled(p) ==
  /\ pub[p] # None
  /\ pub' = [pub EXCEPT ![p] = None]
  /\ UNCHANGED <<buf, closed, panicked, ctxDone>>
  /\ UNCHANGED managerVars
  /\ UNCHANGED clientVars
  /\ UNCHANGED closeVars

(* Mutant: queueEvent does not select on shutdownCh.                       *)
QueueEventShutdown_Never(p) == FALSE /\ QueueEventCancelled(p)

QueueEventShutdown(p) == shutdownCh /\ QueueEventCancelled(p)

-----------------------------------------------------------------------------
(* Subscribers.                                                            *)

unsubscribe(c) ==
  unsub' = [unsub EXCEPT ![c] = IF unsub[c] = "armed" THEN "queued" ELSE unsub[c]]

SubscribeCall(c) ==
  /\ sub[c] = "idle"
  /\ sub' = [sub EXCEPT ![c] = "calling"]
  /\ UNCHANGED <<buf, closed, panicked, ctxDone, cctx, unsub, view, pub>>
  /\ UNCHANGED managerVars
  /\ UNCHANGED closeVars

(* Subscribe returns an error and the handler answers "unavailable".       *)
SubscribeRefused(c) ==
  /\ sub[c] = "calling" /\ (shutdownCh \/ c \in cctx)
  /\ sub' = [sub EXCEPT ![c] = "refused"]
  /\ UNCHANGED <<buf, closed, panicked, ctxDone, cctx, unsub, view, pub>>
  /\ UNCHANGED managerVars
  /\ UNCHANGED closeVars

(* The client goes away: the context of its request is done.               *)
CancelClient(c) ==
  /\ sub[c] \in {"calling", "open"} /\ c \notin cctx
  /\ cctx' = cctx \union {c}
  /\ UNCHANGED <<buf, closed, panicked, ctxDone, sub, unsub, view, pub>>
  /\ UNCHANGED managerVars
  /\ UNCHANGED closeVars

(* The goroutine Subscribe leaves behind sees the context end.             *)
WatchClient(c) ==
  /\ sub[c] \in {"open", "done"} /\ c \in cctx /\ unsub[c] = "armed"
  /\ unsubscribe(c)
  /\ UNCHANGED <<buf, closed, panicked, ctxDone, sub, cctx, view, pub>>
  /\ UNCHANGED managerVars
  /\ UNCHANGED closeVars

(* The goroutine of unsubscribe gives up: run does not listen any more.    *)
UnsubscribeShutdown(c) ==
  /\ unsub[c] = "queued" /\ shutdownCh
  /\ unsub' = [unsub EXCEPT ![c] = "done"]
  /\ UNCHANGED <<buf, closed, panicked, ctxDone, sub, cctx, view, pub>>
  /\ UNCHANGED managerVars
  /\ UNCHANGED closeVars

(* One iteration of c.Stream: the handler reads an event and forwards it.  *)
StreamRecv(c) ==
  /\ c \in Streams /\ sub[c] = "open" /\ buf[c] # <<>>
  /\ view' = [view EXCEPT ![c] = Replay(view[c], Head(buf[c]))]
  /\ buf' = [buf EXCEPT ![c] = Tail(buf[c])]
  /\ UNCHANGED <<closed, panicked, ctxDone, sub, cctx, unsub, pub>>
  /\ UNCHANGED managerVars
  /\ UNCHANGED closeVars

(* c.Stream returns: the channel is closed and drained, or gin notices,    *)
(* between two reads, that the client is gone.                             *)
StreamEnd(c) ==
  /\ c \in Streams /\ sub[c] = "open"
  /\ (c \in closed /\ buf[c] = <<>>) \/ c \in cctx
  /\ sub' = [sub EXCEPT ![c] = "done"]
  /\ unsubscribe(c)
  /\ UNCHANGED <<buf, closed, panicked, ctxDone, cctx, view, pub>>
  /\ UNCHANGED managerVars
  /\ UNCHANGED closeVars

(* ServeSnapshot answers with the payload of the first event it reads.     *)
SnapshotRecv(c) ==
  /\ c \in Requests /\ sub[c] = "open" /\ buf[c] # <<>>
  /\ view' = [view EXCEPT ![c] = Replay(view[c], Head(buf[c]))]
  /\ buf' = [buf EXCEPT ![c] = Tail(buf[c])]
  /\ sub' = [sub EXCEPT ![c] = "done"]
  /\ unsubscribe(c)
  /\ UNCHANGED <<closed, panicked, ctxDone, cctx, pub>>
  /\ UNCHANGED managerVars
  /\ UNCHANGED closeVars

(* ServeSnapshot answers "unavailable", or nothing to a client that left.  *)
SnapshotEnd(c) ==
  /\ c \in Requests /\ sub[c] = "open"
  /\ (c \in closed /\ buf[c] = <<>>) \/ c \in cctx \/ shutdownCh
  /\ sub' = [sub EXCEPT ![c] = "done"]
  /\ unsubscribe(c)
  /\ UNCHANGED <<buf, closed, panicked, ctxDone, cctx, view, pub>>
  /\ UNCHANGED managerVars
  /\ UNCHANGED closeVars

Subscriber(c) ==
  \/ SubscribeCall(c) \/ SubscribeRefused(c) \/ CancelClient(c)
  \/ WatchClient(c) \/ UnsubscribeShutdown(c)
  \/ StreamRecv(c) \/ StreamEnd(c) \/ SnapshotRecv(c) \/ SnapshotEnd(c)

-----------------------------------------------------------------------------
(* Close.  shutdownMu is held from the first line to the last.             *)
Locked == \E k \in Closers : closer[k] \in {"marked", "signalled"}

(* The flag shutdown is set exactly when some call has got this far.       *)
Marked == \E k \in Closers : closer[k] # "idle"

closeFrame ==
  /\ UNCHANGED <<buf, closed, panicked, ctxDone, pub>>
  /\ UNCHANGED managerVars
  /\ UNCHANGED clientVars

(* Mutant: shutdownErr is left for a later step.                           *)
CloseMark_NoErr(k) ==
  /\ closer[k] = "idle" /\ ~Locked
  /\ closer' = [closer EXCEPT ![k] = IF Marked THEN "returned" ELSE "marked"]
  /\ UNCHANGED <<shutdownErr, shutdownCh, closedCh>>
  /\ closeFrame

(* The first call sets shutdown and shutdownErr; a later one waits for the *)
(* mutex and returns at once.                                              *)
CloseMark(k) ==
  /\ closer[k] = "idle" /\ ~Locked
  /\ IF Marked
       THEN /\ closer' = [closer EXCEPT ![k] = "returned"]
            /\ UNCHANGED shutdownErr
       ELSE /\ closer' = [closer EXCEPT ![k] = "marked"]
            /\ shutdownErr' = IF shutdownErr = "nil" THEN "ErrShutdown" ELSE shutdownErr
  /\ UNCHANGED <<shutdownCh, closedCh>>
  /\ closeFrame

CloseSignal(k) ==
  /\ closer[k] = "marked"
  /\ closer' = [closer EXCEPT ![k] = "signalled"]
  /\ shutdownCh' = TRUE
  /\ UNCHANGED <<shutdownErr, closedCh>>
  /\ closeFrame

CloseWait(k) ==
  /\ closer[k] = "signalled" /\ run # "loop"
  /\ closer' = [closer EXCEPT ![k] = "returned"]
  /\ closedCh' = TRUE
  /\ UNCHANGED <<shutdownErr, shutdownCh>>
  /\ closeFrame

Close(k) == CloseMark(k) \/ CloseSignal(k) \/ CloseWait(k)

(* The context of the process ends.                                        *)
CtxDone ==
  /\ ~ctxDone
  /\ ctxDone' = TRUE
  /\ UNCHANGED <<buf, closed, panicked, pub>>
  /\ UNCHANGED managerVars
  /\ UNCHANGED clientVars
  /\ UNCHANGED closeVars

-----------------------------------------------------------------------------
Next ==
  \/ Run
  \/ \E p \in Publishers : QueueEvent(p) \/ QueueEventCancelled(p) \/ QueueEventShutdown(p)
  \/ \E c \in Clients : Subscriber(c)
  \/ \E k \in Closers : Close(k)
  \/ CtxDone

Spec == Init /\ [][Next]_vars

(* The Go scheduler runs every goroutine that can move, and a select with  *)
(* several ready cases draws one at random.  Nothing is assumed of the     *)
(* environment: not that a stream reads, that a client leaves, that anyone *)
(* publishes, calls Close or ends the context.                             *)
Fairness ==
  /\ WF_vars(RunCtxDone \/ RunShutdown)
  /\ \A c \in Clients :
       /\ WF_vars(RunNewClient(c))
       /\ WF_vars(RunClosedClient(c))
       /\ WF_vars(SubscribeRefused(c))
       /\ WF_vars(WatchClient(c) /\ ~shutdownCh)
       /\ WF_vars(UnsubscribeShutdown(c))
       /\ WF_vars(SnapshotRecv(c) \/ SnapshotEnd(c))
  /\ \A p \in Publishers : WF_vars(RunEvent(p)) /\ WF_vars(QueueEventShutdown(p))
  /\ \A k \in Closers : WF_vars(CloseSignal(k)) /\ WF_vars(CloseWait(k))

FairSpec == Spec /\ Fairness

-----------------------------------------------------------------------------
(* Subscribers whose channel run has taken.                                *)
Accepted == {c \in Clients : sub[c] \in {"open", "done"}}

(* Every variable has its type, and no channel holds more than its buffer. *)
TypeOK ==
  /\ snapshot \in Catalogs
  /\ totalClients \in SUBSET Clients
  /\ buf \in [Clients -> Seq(Events)]
  /\ \A c \in Clients : Len(buf[c]) <= Buffer
  /\ closed \in SUBSET Clients
  /\ panicked \in BOOLEAN
  /\ run \in {"loop", "ctx", "shutdown"}
  /\ ctxDone \in BOOLEAN
  /\ sub \in [Clients -> {"idle", "calling", "open", "done", "refused"}]
  /\ cctx \in SUBSET Clients
  /\ unsub \in [Clients -> {"armed", "queued", "done"}]
  /\ view \in [Clients -> Catalogs \union {NoView}]
  /\ pub \in [Publishers -> Published \union {None}]
  /\ closer \in [Closers -> {"idle", "marked", "signalled", "returned"}]
  /\ shutdownCh \in BOOLEAN
  /\ shutdownErr \in {"nil", "ErrShutdown"}
  /\ closedCh \in BOOLEAN

(* No lost update: a registered subscriber that reads everything in its    *)
(* channel ends with exactly the manager's catalog, whatever was evicted,  *)
(* added or removed while it was reading (processEvent, sendClientEvent,   *)
(* the newClients case of run).  Requests that have answered read no more. *)
NoLostUpdate ==
  \A c \in totalClients : \A id \in Ids : Knows(buf[c], view[c], id, snapshot[id])

(* The first event in a subscriber's channel is the init event and no      *)
(* later one is, so the answer of ServeSnapshot is a whole catalog and a   *)
(* stream never replays a change on top of nothing.                        *)
InitFirst ==
  \A c \in Clients : \A i \in 1 .. Len(buf[c]) :
     (buf[c][i].Type = "init") <=> (i = 1 /\ view[c] = NoView)

(* run never sends on a closed channel and never closes one twice, in any  *)
(* order of eviction, unsubscription, cancellation and shutdown            *)
(* (the membership test of removeClient).                                  *)
NoPanic == ~panicked

(* A subscriber run has taken is registered or its channel is closed,      *)
(* never both and never neither: an evicted consumer always finds out, and *)
(* after a shutdown every channel is closed (removeClient, end of run).    *)
ServedOrClosed ==
  /\ \A c \in Accepted : c \in totalClients <=> c \notin closed
  /\ run = "shutdown" => Accepted \subseteq closed

(* Whoever sees shutdownCh closed can read a non-nil shutdownErr, so       *)
(* queueEvent and Subscribe never answer nil to a call that was refused,   *)
(* and closedCh closes only after run has returned (Close, Wait).          *)
CloseOrder ==
  /\ shutdownCh => shutdownErr # "nil"
  /\ closedCh => shutdownCh /\ run # "loop"

-----------------------------------------------------------------------------
(* Whoever calls the manager gets an answer: Add, Del and Update return,   *)
(* and a snapshot request is answered, unless run has returned with its    *)
(* context and nobody calls Close (queueEvent, ServeSnapshot, Subscribe).  *)
CallersReturn ==
  /\ \A p \in Publishers :
       pub[p] # None ~> (pub[p] = None \/ (run = "ctx" /\ ~shutdownCh))
  /\ \A c \in Requests :
       sub[c] = "calling" ~> (sub[c] \in {"done", "refused"} \/ (run = "ctx" /\ ~shutdownCh))

(* When a client goes away its channel is closed, which is what unblocks   *)
(* ServeSSE, unless run has returned with its context (the goroutines of   *)
(* Subscribe and unsubscribe).                                             *)
CancelReachesReader ==
  \A c \in Clients :
    (sub[c] = "open" /\ c \in cctx) ~> (c \in closed \/ run = "ctx")

(* Close ends: closedCh is closed and so is the channel of every           *)
(* subscriber, unless run had returned with its context.                   *)
CloseEndsEveryStream ==
  shutdownCh ~> (closedCh /\ (Accepted \subseteq closed \/ run = "ctx"))
=============================================================================
