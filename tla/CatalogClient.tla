---------------------------- MODULE CatalogClient ----------------------------
(***************************************************************************)
(* proxycatalog.Client and the list command that reads it.  The client     *)
(* follows the hub's catalog over one connection after another, a control  *)
(* stream or, in the legacy form, server-sent events, and passes what it   *)
(* receives to a bounded channel.                                          *)
(*                                                                         *)
(* The hub sends a subscriber the catalog and then every change of it, in  *)
(* order, while the subscription lasts (module EntEvents).                 *)
(***************************************************************************)
EXTENDS EntityEvents

CONSTANTS EventsCap,  \* the capacity of eventsCh (128)
          WireCap     \* bound on the events on their way to the client

ASSUME CapAssumption == EventsCap \in Nat \ {0} /\ WireCap \in Nat \ {0}

Disconnected == Event("disconnected", None, None, None)
Closers == {"exit", "list"}

VARIABLES
  legacy,       \* NewLegacySSEClient, or NewClient
  catalog,      \* the hub's
  wire,         \* events the hub has sent on the present connection
  link,         \* that connection is up
  run,          \* "connecting", "streaming", "sending", "ended", "pause" or "over"
  held,         \* the event run is about to put in eventsCh
  eventsCh, readyCh,
  shutdown, shutdownMu, shutdownErr, shutdownCh,
  closer,       \* closer[c]: "idle", "called", "waiting" or "returned"
  ctxDone,
  list,         \* the command: "first", "second", "watch", "closing" or "done"
  drain,        \* its goroutine reads the remaining events
  view          \* what a reader that applies every event holds

hubVars == <<catalog, wire, link>>
runVars == <<run, held, readyCh>>
closeVars == <<shutdown, shutdownMu, shutdownErr, shutdownCh, closer>>
listVars == <<list, drain>>
vars == <<legacy, hubVars, runVars, eventsCh, closeVars, ctxDone, listVars, view>>

Init ==
  /\ legacy \in BOOLEAN
  /\ catalog \in Catalogs /\ wire = <<>> /\ link = FALSE
  /\ run = "connecting" /\ held = Disconnected /\ readyCh = FALSE /\ eventsCh = <<>>
  /\ shutdown = FALSE /\ shutdownMu = "free" /\ shutdownErr = "nil" /\ shutdownCh = FALSE
  /\ closer = [c \in Closers |-> "idle"]
  /\ ctxDone = FALSE /\ list = "first" /\ drain = FALSE /\ view = EmptyCatalog

-----------------------------------------------------------------------------
(* The hub and the network.                                                *)

(* What the hub sends for an event: gRPC leaves the pings out.             *)
proxyEventToPB(event) == IF event.Type = "ping" /\ ~legacy THEN <<>> ELSE <<event>>

HubPing ==
  /\ link /\ Len(wire) < WireCap /\ wire' = wire \o proxyEventToPB(PingEvent)
  /\ UNCHANGED <<legacy, catalog, link, runVars, eventsCh, closeVars, ctxDone, listVars, view>>

HubPublish(event) ==
  /\ ~Ignored(catalog, event) /\ catalog' = Processed(catalog, event)
  /\ link => Len(wire) < WireCap
  /\ wire' = IF link THEN wire \o proxyEventToPB(event) ELSE wire
  /\ UNCHANGED <<legacy, link, runVars, eventsCh, closeVars, ctxDone, listVars, view>>

LinkBreaks ==
  /\ link /\ link' = FALSE
  /\ UNCHANGED <<legacy, catalog, wire, runVars, eventsCh, closeVars, ctxDone, listVars, view>>

-----------------------------------------------------------------------------
(* run, with connectAndProcessTransport or connectAndProcessLegacySSE.     *)

(* WatchProxies, or the request for /api/proxies/live: the hub subscribes  *)
(* the client, whose first event is the catalog.                           *)
Connect ==
  /\ run = "connecting"
  /\ run' = "streaming" /\ link' = TRUE /\ wire' = proxyEventToPB(InitEvent(catalog))
  /\ UNCHANGED <<legacy, catalog, held, readyCh, eventsCh, closeVars, ctxDone, listVars, view>>

(* Anything else ends the attempt, so does cancelling it.                  *)
ConnectFails ==
  /\ run = "connecting" /\ run' = "ended" /\ held' = Disconnected
  /\ UNCHANGED <<legacy, hubVars, readyCh, eventsCh, closeVars, ctxDone, listVars, view>>

(* exitErr: the error is stored, a goroutine is left to close the client.  *)
exitErr(err) ==
  /\ shutdownErr' = IF shutdownErr = "nil" THEN err ELSE shutdownErr
  /\ closer' = [closer EXCEPT !["exit"] = IF @ = "idle" THEN "called" ELSE @]
  /\ UNCHANGED <<shutdown, shutdownMu, shutdownCh>>

(* 401 and 404 are final.                                                  *)
ConnectRefused ==
  /\ run = "connecting" /\ run' = "ended" /\ held' = Disconnected
  /\ exitErr("refused")
  /\ UNCHANGED <<legacy, hubVars, readyCh, eventsCh, ctxDone, listVars, view>>

(* The client passes on the events it knows.                               *)
Passed(event) == event.Type \in {"init", "add", "update", "del"}

(* Mutant: only the init event that makes the client ready is passed on.   *)
Recv_FirstInit ==
  /\ run = "streaming" /\ wire # <<>>
  /\ held' = Head(wire) /\ wire' = Tail(wire)
  /\ run' = IF Passed(Head(wire)) /\ ~(readyCh /\ Head(wire).Type = "init") THEN "sending" ELSE "streaming"
  /\ readyCh' = (readyCh \/ Head(wire).Type = "init")
  /\ UNCHANGED <<legacy, catalog, link, eventsCh, closeVars, ctxDone, listVars, view>>

(* An event is received; an init event makes the client ready.             *)
Recv ==
  /\ run = "streaming" /\ wire # <<>>
  /\ held' = Head(wire) /\ wire' = Tail(wire)
  /\ run' = IF Passed(Head(wire)) THEN "sending" ELSE "streaming"
  /\ readyCh' = (readyCh \/ Head(wire).Type = "init")
  /\ UNCHANGED <<legacy, catalog, link, eventsCh, closeVars, ctxDone, listVars, view>>

(* Receiving fails with the connection, the context, or the shutdown that  *)
(* cancels the one or closes the body; the connection is given up.         *)
RecvFails ==
  /\ run = "streaming" /\ (~link \/ ctxDone \/ shutdownCh)
  /\ run' = "ended" /\ held' = Disconnected /\ link' = FALSE /\ wire' = <<>>
  /\ UNCHANGED <<legacy, catalog, readyCh, eventsCh, closeVars, ctxDone, listVars, view>>

(* Mutant: a connection that ends on purpose is not announced.             *)
Send_Quiet ==
  /\ run \in {"sending", "ended"} /\ Len(eventsCh) < EventsCap
  /\ eventsCh' = IF run = "ended" /\ (ctxDone \/ shutdownCh) THEN eventsCh ELSE Append(eventsCh, held)
  /\ run' = IF run = "sending" THEN "streaming" ELSE "pause"
  /\ UNCHANGED <<legacy, hubVars, held, readyCh, closeVars, ctxDone, listVars, view>>

(* eventsCh <- held: nothing but room in the channel ends this.            *)
Send ==
  /\ run \in {"sending", "ended"} /\ Len(eventsCh) < EventsCap
  /\ eventsCh' = Append(eventsCh, held)
  /\ run' = IF run = "sending" THEN "streaming" ELSE "pause"
  /\ UNCHANGED <<legacy, hubVars, held, readyCh, closeVars, ctxDone, listVars, view>>

(* The ticker, or the end; eventsCh is closed with runDoneCh.              *)
Pause ==
  /\ run = "pause"
  /\ run' = "connecting" \/ ((ctxDone \/ shutdownCh) /\ run' = "over")
  /\ UNCHANGED <<legacy, hubVars, held, readyCh, eventsCh, closeVars, ctxDone, listVars, view>>

-----------------------------------------------------------------------------
(* Close, which holds shutdownMu until run has ended.                      *)

Close(c) ==
  /\ closer[c] = "called" /\ shutdownMu = "free"
  /\ IF shutdown
       THEN /\ closer' = [closer EXCEPT ![c] = "returned"]
            /\ UNCHANGED <<shutdown, shutdownMu, shutdownErr, shutdownCh>>
       ELSE /\ closer' = [closer EXCEPT ![c] = "waiting"]
            /\ shutdown' = TRUE /\ shutdownMu' = c /\ shutdownCh' = TRUE
            /\ shutdownErr' = IF shutdownErr = "nil" THEN "ErrShutdown" ELSE shutdownErr
  /\ UNCHANGED <<legacy, hubVars, runVars, eventsCh, ctxDone, listVars, view>>

CloseReturns(c) ==
  /\ closer[c] = "waiting" /\ run = "over"
  /\ closer' = [closer EXCEPT ![c] = "returned"] /\ shutdownMu' = "free"
  /\ UNCHANGED <<legacy, hubVars, runVars, eventsCh, shutdown, shutdownErr, shutdownCh, ctxDone, listVars, view>>

-----------------------------------------------------------------------------
(* The list command.  Where it returns an error, the process ends.         *)

Interrupt ==
  /\ ~ctxDone /\ ctxDone' = TRUE
  /\ UNCHANGED <<legacy, hubVars, runVars, eventsCh, closeVars, listVars, view>>

(* The context, CloseChan and the two timers of its first selects.         *)
ListGivesUp ==
  /\ \/ list \in {"first", "second"}
     \/ list = "watch" /\ ctxDone
  /\ list' = "done"
  /\ UNCHANGED <<legacy, hubVars, runVars, eventsCh, closeVars, ctxDone, drain, view>>

ListReady ==
  /\ list = "first" /\ readyCh /\ list' = "second"
  /\ UNCHANGED <<legacy, hubVars, runVars, eventsCh, closeVars, ctxDone, drain, view>>

(* An event in one of the selects: any ends the first, only the init event *)
(* passes the second, and all pass the loop, if --watch asks for one.      *)
ListReads ==
  /\ list \in {"first", "second", "watch"} /\ eventsCh # <<>>
  /\ list' \in IF list = "watch" THEN {"watch"}
               ELSE IF list = "second" /\ Head(eventsCh).Type = "init" THEN {"watch", "ending"}
               ELSE {"done"}
  /\ eventsCh' = Tail(eventsCh) /\ view' = Replay(view, Head(eventsCh))
  /\ UNCHANGED <<legacy, hubVars, runVars, closeVars, ctxDone, drain>>

(* Mutant: nobody reads while the client is being closed.                  *)
ListCloses_Deaf ==
  /\ list = "ending" \/ (list = "watch" /\ shutdownCh)
  /\ list' = "closing" /\ closer' = [closer EXCEPT !["list"] = "called"]
  /\ UNCHANGED <<legacy, hubVars, runVars, eventsCh, shutdown, shutdownMu, shutdownErr, shutdownCh, ctxDone, drain, view>>

(* A goroutine reads what is left, and the client is closed.               *)
ListCloses ==
  /\ list = "ending" \/ (list = "watch" /\ shutdownCh)
  /\ list' = "closing" /\ drain' = TRUE /\ closer' = [closer EXCEPT !["list"] = "called"]
  /\ UNCHANGED <<legacy, hubVars, runVars, eventsCh, shutdown, shutdownMu, shutdownErr, shutdownCh, ctxDone, view>>

Drain ==
  /\ drain /\ eventsCh # <<>>
  /\ eventsCh' = Tail(eventsCh) /\ view' = Replay(view, Head(eventsCh))
  /\ UNCHANGED <<legacy, hubVars, runVars, closeVars, ctxDone, listVars>>

ListReturns ==
  /\ list = "closing" /\ closer["list"] = "returned" /\ list' = "done"
  /\ UNCHANGED <<legacy, hubVars, runVars, eventsCh, closeVars, ctxDone, drain, view>>

-----------------------------------------------------------------------------
Next ==
  /\ list # "done"
  /\ \/ \E event \in Published : HubPublish(event)
     \/ HubPing \/ LinkBreaks \/ Interrupt
     \/ Connect \/ ConnectFails \/ ConnectRefused \/ Recv \/ RecvFails \/ Send \/ Pause
     \/ \E c \in Closers : Close(c) \/ CloseReturns(c)
     \/ ListGivesUp \/ ListReady \/ ListReads \/ ListCloses \/ Drain \/ ListReturns

Spec == Init /\ [][Next]_vars

(* The end of run, which its select may miss only until the next attempt   *)
(* has been cancelled.                                                     *)
PauseEnds == Pause /\ run' = "over"

(* Goroutines that can move do.  A transport's attempt is cancelled by the *)
(* shutdown; the legacy request only by the context.  Nothing is assumed   *)
(* of the hub, the network or the user.                                    *)
Fairness ==
  /\ WF_vars(ConnectFails /\ (ctxDone \/ (shutdownCh /\ ~legacy)))
  /\ WF_vars(Recv \/ RecvFails) /\ SF_vars(RecvFails) /\ WF_vars(Send)
  /\ WF_vars(Pause) /\ SF_vars(PauseEnds)
  /\ \A c \in Closers : WF_vars(Close(c)) /\ WF_vars(CloseReturns(c))
  /\ WF_vars(ListReads) /\ WF_vars(ListCloses) /\ WF_vars(Drain) /\ WF_vars(ListReturns)

FairSpec == Spec /\ Fairness

-----------------------------------------------------------------------------
(* A reader that applies every event holds the hub's catalog whenever the  *)
(* client is connected and nothing is on its way, however often the        *)
(* connection was lost, with or without events on it, and whatever the hub *)
(* changed in between (connectAndProcess, WatchProxies).                   *)
ViewIsCurrent ==
  (run = "streaming" /\ link /\ wire = <<>> /\ eventsCh = <<>>) => view = catalog

(* The command never reads the closed channel in a select that looks at    *)
(* the event's type, which would be a nil dereference: what is put in      *)
(* before the close outlasts every way to those selects (run, listCmd).    *)
NoNilEvent == list \in {"first", "second"} => ~(run = "over" /\ eventsCh = <<>>)

(* Closing the client returns, even when the channel is full, the hub goes *)
(* on sending and the client closes itself at the same time; a legacy      *)
(* request that is never answered is the exception.                        *)
CatalogCloseReturns ==
  (closer["list"] = "called") ~> (list = "done" \/ (legacy /\ run = "connecting"))
=============================================================================
