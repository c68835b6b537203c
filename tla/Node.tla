-------------------------------- MODULE Node --------------------------------
(***************************************************************************)
(* Proxynode: one connection of a node to the hub.  The goroutine run      *)
(* dials, accepts the two control streams, says Hello, serves the streams  *)
(* the hub opens, and drains.  CloseWithError may be called by the hub's   *)
(* Disconnect, by the owner of the node, and by run itself through exitErr.*)
(*                                                                         *)
(* Whitelists are numbered by the configuration they come from.  The hub's *)
(* side is what the node can see of it: it serves the calls it receives.   *)
(***************************************************************************)
EXTENDS Naturals

CONSTANTS MaxConns    \* bound on the streams served at once

ASSUME MaxConnsAssumption == MaxConns \in Nat

Callers == {"hub", "main", "exit"}
NoList == 0

VARIABLES
  run,          \* "dial", "control", "hello", "accept", "drain" or "done"
  session,      \* "none", "up" or "dead"
  grpcClient,   \* the client of the hub's service is set
  hello,        \* "none", "sent", or "served" by the hub
  params,       \* the whitelist given to New, sent with Hello
  hubList,      \* the whitelist the hub's handler holds for this connection
  conns,        \* how many streams are being handled
  acceptStopped,\* cancelAccept has been called
  shutdown, shutdownErr, shutdownCh,
  closer,       \* closer[c]: where c is in CloseWithError
  ctxDone       \* the context given to New is done

rpcVars == <<grpcClient, hello, params, hubList>>
closeVars == <<shutdown, shutdownErr, shutdownCh, closer>>
connVars == <<conns, acceptStopped>>
nodeVars == <<run, session, rpcVars, connVars, closeVars, ctxDone>>

(* New, for a connection that announces the whitelist list.                *)
New(list) ==
  /\ run' = "dial" /\ session' = "none"
  /\ grpcClient' = FALSE /\ hello' = "none" /\ params' = list /\ hubList' = NoList
  /\ conns' = 0 /\ acceptStopped' = FALSE
  /\ shutdown' = FALSE /\ shutdownErr' = "nil" /\ shutdownCh' = FALSE
  /\ closer' = [c \in Callers |-> "idle"]

NodeInit ==
  /\ run = "done" /\ session = "none"
  /\ grpcClient = FALSE /\ hello = "none" /\ params = NoList /\ hubList = NoList
  /\ conns = 0 /\ acceptStopped = FALSE
  /\ shutdown = FALSE /\ shutdownErr = "nil" /\ shutdownCh = FALSE
  /\ closer = [c \in Callers |-> "idle"]
  /\ ctxDone = FALSE

-----------------------------------------------------------------------------
(* CloseWithError, between the points where others can come in.  Each      *)
(* caller passes an error of its own.                                      *)

ErrorOf(c) == IF c = "hub" THEN "ErrServerDisconnect" ELSE "ErrShutdown"

Call(c) == closer' = [closer EXCEPT ![c] = "called"]

CloseMark(c) ==
  /\ closer[c] = "called"
  /\ closer' = [closer EXCEPT ![c] = IF shutdown THEN "returned" ELSE "marked"]
  /\ shutdown' = TRUE
  /\ UNCHANGED <<run, session, rpcVars, connVars, shutdownErr, shutdownCh, ctxDone>>

CloseSignal(c) ==
  /\ closer[c] = "marked"
  /\ closer' = [closer EXCEPT ![c] = "signalled"]
  /\ shutdownErr' = IF shutdownErr = "nil" THEN ErrorOf(c) ELSE shutdownErr
  /\ shutdownCh' = TRUE
  /\ UNCHANGED <<run, session, rpcVars, connVars, shutdown, ctxDone>>

CloseReturn(c) ==
  /\ closer[c] = "signalled" /\ run = "done"
  /\ closer' = [closer EXCEPT ![c] = "returned"]
  /\ UNCHANGED <<run, session, rpcVars, connVars, shutdown, shutdownErr, shutdownCh, ctxDone>>

(* The hub calls Disconnect over the second control stream.                *)
Disconnect ==
  /\ run \in {"hello", "accept", "drain"} /\ session = "up" /\ closer["hub"] = "idle"
  /\ Call("hub")
  /\ UNCHANGED <<run, session, rpcVars, connVars, shutdown, shutdownErr, shutdownCh, ctxDone>>

(* Mutant: the error is left to the goroutine, which passes ErrShutdown.   *)
exitErr_Unrecorded(err) ==
  /\ closer' = [closer EXCEPT !["exit"] = IF @ = "idle" THEN "called" ELSE @]
  /\ UNCHANGED <<shutdown, shutdownErr, shutdownCh>>

(* exitErr: the error is recorded, a goroutine is left to close the node.  *)
exitErr(err) ==
  /\ shutdownErr' = IF shutdownErr = "nil" THEN err ELSE shutdownErr
  /\ closer' = [closer EXCEPT !["exit"] = IF @ = "idle" THEN "called" ELSE @]
  /\ UNCHANGED <<shutdown, shutdownCh>>

-----------------------------------------------------------------------------
(* run.                                                                    *)

(* What an operation fails with; the context is seen through most wrappers.*)
Failures == {"failure"} \union IF ctxDone THEN {"Canceled"} ELSE {}

(* run gives up: exitErr, conn.Close and return.                           *)
RunFails ==
  /\ \E err \in Failures : exitErr(err)
  /\ run' = "done"
  /\ session' = IF session = "up" THEN "dead" ELSE session
  /\ UNCHANGED <<rpcVars, connVars, ctxDone>>

DialFails == run = "dial" /\ RunFails

DialSucceeds ==
  /\ run = "dial"
  /\ run' = "control" /\ session' = "up"
  /\ UNCHANGED <<rpcVars, connVars, closeVars, ctxDone>>

SessionDies ==
  /\ session = "up" /\ session' = "dead"
  /\ UNCHANGED <<run, rpcVars, connVars, closeVars, ctxDone>>

Broken == session = "dead" \/ ctxDone

(* Both control streams are there, the gRPC server runs on the second and  *)
(* the client is set; Hello is sent over the first.                        *)
ControlReady ==
  /\ run = "control" /\ session = "up"
  /\ run' = "hello" /\ grpcClient' = TRUE /\ hello' = "sent"
  /\ UNCHANGED <<session, params, hubList, connVars, closeVars, ctxDone>>

ControlFails == run = "control" /\ Broken /\ RunFails

(* Hello of the hub's handler.                                             *)
HubHello ==
  /\ hello = "sent" /\ session = "up"
  /\ hello' = "served" /\ hubList' = params
  /\ UNCHANGED <<run, session, grpcClient, params, connVars, closeVars, ctxDone>>

HelloReturns ==
  /\ run = "hello" /\ hello = "served" /\ session = "up"
  /\ run' = "accept"
  /\ UNCHANGED <<session, rpcVars, connVars, closeVars, ctxDone>>

HelloFails == run = "hello" /\ Broken /\ RunFails

(* The goroutine that waits for the end: GoAway and cancelAccept.          *)
StopAccepting ==
  /\ run \in {"accept", "drain"} /\ ~acceptStopped
  /\ ctxDone \/ shutdownCh
  /\ acceptStopped' = TRUE
  /\ UNCHANGED <<run, session, rpcVars, conns, closeVars, ctxDone>>

AcceptStream ==
  /\ run = "accept" /\ session = "up" /\ conns < MaxConns
  /\ conns' = conns + 1
  /\ UNCHANGED <<run, session, rpcVars, acceptStopped, closeVars, ctxDone>>

(* The accept is cancelled, or fails while the node is being closed.       *)
AcceptEnds ==
  /\ run = "accept"
  /\ acceptStopped \/ ctxDone \/ (session = "dead" /\ shutdown)
  /\ run' = "drain"
  /\ UNCHANGED <<session, rpcVars, connVars, closeVars, ctxDone>>

AcceptFails ==
  /\ run = "accept" /\ session = "dead" /\ ~shutdown
  /\ exitErr("failure")
  /\ run' = "drain"
  /\ UNCHANGED <<session, rpcVars, connVars, ctxDone>>

(* A handler returns.                                                      *)
HandlerEnds ==
  /\ conns > 0 /\ conns' = conns - 1
  /\ UNCHANGED <<run, session, rpcVars, acceptStopped, closeVars, ctxDone>>

(* Mutant: the drain does not watch the context.                           *)
Drained_Patient ==
  /\ run = "drain" /\ conns = 0
  /\ run' = "done" /\ session' = "dead"
  /\ UNCHANGED <<rpcVars, connVars, closeVars, ctxDone>>

(* Mutant: exitErr closes the node itself, so run waits for its own end.   *)
Drained_Inline ==
  /\ run = "drain"
  /\ conns = 0 \/ ctxDone
  /\ closer["exit"] \in {"idle", "returned"}
  /\ run' = "done" /\ session' = "dead"
  /\ UNCHANGED <<rpcVars, connVars, closeVars, ctxDone>>

(* The handlers have ended or the context has: the session is closed, the  *)
(* deferred calls close client, server and streams, and run returns.       *)
Drained ==
  /\ run = "drain"
  /\ conns = 0 \/ ctxDone
  /\ run' = "done" /\ session' = "dead"
  /\ UNCHANGED <<rpcVars, connVars, closeVars, ctxDone>>

-----------------------------------------------------------------------------
(* Steps of the node's goroutines that need nobody else, and the others.   *)
RunStep == ControlFails \/ HelloReturns \/ HelloFails \/ AcceptEnds \/ AcceptFails \/ Drained

CloseStep(c) == CloseMark(c) \/ CloseSignal(c) \/ CloseReturn(c)

NodeStep ==
  \/ DialFails \/ ControlReady \/ RunStep \/ StopAccepting
  \/ AcceptStream \/ HandlerEnds
  \/ SessionDies \/ HubHello \/ Disconnect
  \/ \E c \in Callers : CloseStep(c)
=============================================================================
