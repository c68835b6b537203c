---------------------------- MODULE ClientSession ----------------------------
(***************************************************************************)
(* The session a client shares with the hub.  One end is the client's      *)
(* Transport, used by the proxy command through a Tunnel and by the        *)
(* catalog; the other is HandleSession behind /api/client/transport.       *)
(*                                                                         *)
(* A stream begins with a header that says what it is for.  The hub serves *)
(* one control stream with gRPC and queues tunnels at a registered proxy,  *)
(* which takes a stream when it likes.                                     *)
(***************************************************************************)
EXTENDS Naturals

CONSTANT MaxStreams   \* bound on the streams the client opens

ASSUME MaxStreamsAssumption == MaxStreams \in Nat

Streams == 1 .. MaxStreams   \* yamux numbers streams and accepts them in order

Ends == {"client", "hub"}
Procs == {"run", "ctx", "user"}

(* A header is what Validate and the hub tell apart: its purpose and its   *)
(* proxy_id, which may be missing, unregistered or beyond MaxHeaderSize.   *)
None == [purpose |-> "", id |-> ""]
Control == [purpose |-> "grpc_control", id |-> ""]
Tunnel(id) == [purpose |-> "proxy_tunnel", id |-> id]
ProxyIDs == {"", "known", "unknown", "oversized"}

VARIABLES
  up,                    \* up[e]: end e of the session is open
  pc,                    \* pc[p]: run and the two calls of CloseWithError
  shutdown, shutdownMu, shutdownErr, shutdownCh, cleanupOnce,
  control,               \* controlClient: "nil", "opening" (controlMu held) or "set"
  ctxDone,               \* the context of the client
  result,                \* of the proxy command: "none", then "ok" or "error"
  stream,                \* stream[s] is "none", "opened", "sent" or "closed"
  header,                \* and the header sent on it, or None
  serve,                 \* HandleSession: "accepting", "waiting" or "returned"
  handler,               \* handler[s]: the hub's goroutine of stream s
  controlStreamOpened,
  sessionCtx             \* the context of HandleSession is done

closeVars == <<shutdown, shutdownMu, shutdownErr, shutdownCh, cleanupOnce>>
cmdVars == <<ctxDone, result>>
streamVars == <<stream, header>>
hubVars == <<serve, handler, controlStreamOpened, sessionCtx>>
vars == <<up, pc, closeVars, control, cmdVars, streamVars, hubVars>>

Init ==
  /\ up = [e \in Ends |-> TRUE]
  /\ pc = [p \in Procs |-> "idle"]
  /\ shutdown = FALSE /\ shutdownMu = "free" /\ shutdownErr = "nil"
  /\ shutdownCh = FALSE /\ cleanupOnce = "free" /\ control = "nil"
  /\ ctxDone = FALSE /\ result = "none"
  /\ stream = [s \in Streams |-> "none"] /\ header = [s \in Streams |-> None]
  /\ serve = "accepting" /\ handler = [s \in Streams |-> "none"]
  /\ controlStreamOpened = FALSE
  /\ sessionCtx = FALSE

Goto(p, place) == pc' = [pc EXCEPT ![p] = place]

-----------------------------------------------------------------------------
(* Transport: run, and CloseWithError for the context and for the user.    *)

(* Mutant: run does not record that the transport was closed.              *)
Notice_NoError ==
  /\ pc["run"] = "idle" /\ ~up["client"] /\ Goto("run", "signal")
  /\ UNCHANGED <<up, closeVars, control, cmdVars, streamVars, hubVars>>

Notice ==
  /\ pc["run"] = "idle" /\ ~up["client"] /\ Goto("run", "store")
  /\ UNCHANGED <<up, closeVars, control, cmdVars, streamVars, hubVars>>

(* The goroutine of NewTransport that waits for the context; it may also   *)
(* end with run.                                                           *)
CtxCloses ==
  /\ pc["ctx"] = "idle" /\ ctxDone /\ Goto("ctx", "lock")
  /\ UNCHANGED <<up, closeVars, control, cmdVars, streamVars, hubVars>>

(* shutdownMu is held until CloseWithError returns.                        *)
Lock(p) ==
  /\ pc[p] = "lock" /\ shutdownMu = "free"
  /\ shutdown' = TRUE
  /\ shutdownMu' = IF shutdown THEN "free" ELSE p
  /\ Goto(p, IF shutdown THEN "over" ELSE "store")
  /\ UNCHANGED <<up, shutdownErr, shutdownCh, cleanupOnce, control, cmdVars, streamVars, hubVars>>

ErrorOf(p) == CASE p = "run" -> "ErrTransportClosed"
                [] p = "ctx" -> "Canceled"
                [] p = "user" -> "ErrShutdown"

Store(p) ==
  /\ pc[p] = "store" /\ Goto(p, "signal")
  /\ shutdownErr' = IF shutdownErr = "nil" THEN ErrorOf(p) ELSE shutdownErr
  /\ UNCHANGED <<up, shutdown, shutdownMu, shutdownCh, cleanupOnce, control, cmdVars, streamVars, hubVars>>

closeShutdownCh(p) ==
  /\ pc[p] = "signal" /\ Goto(p, "cleanup")
  /\ shutdownCh' = TRUE
  /\ UNCHANGED <<up, shutdown, shutdownMu, shutdownErr, cleanupOnce, control, cmdVars, streamVars, hubVars>>

(* cleanup, under a Once: whoever comes second waits for the first.  The   *)
(* control client goes first, for which controlMu must be free ...         *)
CleanupControl(p) ==
  /\ pc[p] = "cleanup" /\ cleanupOnce = "free" /\ control # "opening"
  /\ control' = "nil" /\ cleanupOnce' = "busy" /\ Goto(p, "closing")
  /\ UNCHANGED <<up, shutdown, shutdownMu, shutdownErr, shutdownCh, cmdVars, streamVars, hubVars>>

AfterCleanup(p) == IF p = "run" THEN "over" ELSE "await"

(* Mutant: only the WebSocket's wrapper is told; the session stays open.   *)
CleanupSession_Open(p) ==
  /\ pc[p] = "closing" /\ Goto(p, AfterCleanup(p)) /\ cleanupOnce' = "done"
  /\ UNCHANGED <<up, shutdown, shutdownMu, shutdownErr, shutdownCh, control, cmdVars, streamVars, hubVars>>

(* ... then the session and the WebSocket.                                 *)
CleanupSession(p) ==
  /\ pc[p] = "closing" /\ Goto(p, AfterCleanup(p)) /\ cleanupOnce' = "done"
  /\ up' = [up EXCEPT !["client"] = FALSE]
  /\ UNCHANGED <<shutdown, shutdownMu, shutdownErr, shutdownCh, control, cmdVars, streamVars, hubVars>>

CleanupDone(p) ==
  /\ pc[p] = "cleanup" /\ cleanupOnce = "done" /\ Goto(p, AfterCleanup(p))
  /\ UNCHANGED <<up, closeVars, control, cmdVars, streamVars, hubVars>>

Unlock(p) ==
  /\ pc[p] = "await" /\ pc["run"] = "over" /\ Goto(p, "over")
  /\ shutdownMu' = "free"
  /\ UNCHANGED <<up, shutdown, shutdownErr, shutdownCh, cleanupOnce, control, cmdVars, streamVars, hubVars>>

Step(p) == Store(p) \/ closeShutdownCh(p) \/ CleanupControl(p) \/ CleanupSession(p) \/ CleanupDone(p)

-----------------------------------------------------------------------------
NextUnopened(s) == stream[s] = "none" /\ \A t \in 1 .. s - 1 : stream[t] # "none"

(* Streams of the client.                                                  *)

(* Validate, and the length WriteHeader allows.                            *)
Writable(h) == CASE h.purpose = "grpc_control" -> h.id = ""
                 [] h.purpose = "proxy_tunnel" -> h.id \notin {"", "oversized"}

(* WriteHeader on an open session; a stream whose header is refused is     *)
(* closed.                                                                 *)
WriteHeader(s, h) ==
  /\ stream' = [stream EXCEPT ![s] = IF Writable(h) THEN "sent" ELSE "closed"]
  /\ header' = [header EXCEPT ![s] = IF Writable(h) THEN h ELSE None]

(* ensureControlClient, under controlMu: it opens a stream if it has none, *)
(* which blocks while too many streams are not accepted yet ...            *)
OpenControl(s) ==
  /\ control = "nil" /\ up["client"] /\ NextUnopened(s)
  /\ control' = "opening" /\ stream' = [stream EXCEPT ![s] = "opened"]
  /\ UNCHANGED <<up, pc, closeVars, cmdVars, header, hubVars>>

(* ... and writes the header; the client is kept if that succeeds.         *)
ControlOpened(s) ==
  /\ control = "opening" /\ stream[s] = "opened"
  /\ \/ up["client"] /\ WriteHeader(s, Control) /\ control' = "set"
     \/ /\ ~up["client"]
        /\ control' = "nil" /\ stream' = [stream EXCEPT ![s] = "closed"]
        /\ UNCHANGED header
  /\ UNCHANGED <<up, pc, closeVars, cmdVars, hubVars>>

(* OpenProxyStream of a tunnel, for a connection of the proxy command.     *)
OpenTunnel(s, id) ==
  /\ up["client"] /\ NextUnopened(s) /\ WriteHeader(s, Tunnel(id))
  /\ UNCHANGED <<up, pc, closeVars, control, cmdVars, hubVars>>

-----------------------------------------------------------------------------
(* The proxy command.                                                      *)

Interrupt ==
  /\ ~ctxDone /\ result = "none" /\ ctxDone' = TRUE
  /\ UNCHANGED <<up, pc, closeVars, control, result, streamVars, hubVars>>

(* Close of a tunnel that has its own transport.                           *)
TunnelClose == Goto("user", "lock")

(* The loop breaks when Accept fails: Err decides the result and the       *)
(* tunnel is closed.                                                       *)
LoopBreaks ==
  /\ result = "none"
  /\ result' = IF shutdownErr \in {"nil", "ErrShutdown", "Canceled"} THEN "ok" ELSE "error"
  /\ TunnelClose
  /\ UNCHANGED <<up, closeVars, control, ctxDone, streamVars, hubVars>>

(* One of its goroutines, for the context or for CloseChan, closes the     *)
(* listener.                                                               *)
CommandEnds == (ctxDone \/ shutdownCh) /\ LoopBreaks

(* The listener fails by itself, which is only logged: before there is a   *)
(* reason to close it, as afterwards it makes no difference.               *)
AcceptFails == ~ctxDone /\ ~shutdownCh /\ LoopBreaks

-----------------------------------------------------------------------------
(* The session, and the hub's end of it.                                   *)

SessionDies(e) ==
  /\ up[e] /\ up' = [up EXCEPT ![e] = FALSE]
  /\ UNCHANGED <<pc, closeVars, control, cmdVars, streamVars, hubVars>>

(* Mutant: the goroutine of the route does not watch the session.          *)
CancelSession_HubOnly ==
  /\ ~sessionCtx /\ up["hub"] /\ sessionCtx' = TRUE
  /\ UNCHANGED <<up, pc, closeVars, control, cmdVars, streamVars, serve, handler, controlStreamOpened>>

(* The goroutine of the route cancels the context of HandleSession when    *)
(* the session ends, or the hub does, at any time.                         *)
CancelSession ==
  /\ ~sessionCtx /\ sessionCtx' = TRUE
  /\ UNCHANGED <<up, pc, closeVars, control, cmdVars, streamVars, serve, handler, controlStreamOpened>>

(* The goroutine of HandleSession: shutdownSession.                        *)
shutdownSession ==
  /\ sessionCtx /\ up["hub"] /\ up' = [up EXCEPT !["hub"] = FALSE]
  /\ UNCHANGED <<pc, closeVars, control, cmdVars, streamVars, hubVars>>

Accept(s) ==
  /\ serve = "accepting" /\ up["hub"] /\ stream[s] # "none" /\ handler[s] = "none"
  /\ \A t \in 1 .. s - 1 : handler[t] # "none"
  /\ handler' = [handler EXCEPT ![s] = "reading"]
  /\ UNCHANGED <<up, pc, closeVars, control, cmdVars, streamVars, serve, controlStreamOpened, sessionCtx>>

(* Accept fails with the context or the session: the loop ends, with       *)
(* shutdownSession, and waits for the handlers.                            *)
AcceptEnds ==
  /\ serve = "accepting" /\ (sessionCtx \/ ~up["hub"])
  /\ serve' = "waiting" /\ up' = [up EXCEPT !["hub"] = FALSE]
  /\ UNCHANGED <<pc, closeVars, control, cmdVars, streamVars, handler, controlStreamOpened, sessionCtx>>

(* A handler closes its stream and ends.                                   *)
Rejects(s) ==
  /\ handler' = [handler EXCEPT ![s] = "done"]
  /\ stream' = [stream EXCEPT ![s] = IF @ = "opened" THEN @ ELSE "closed"]
  /\ header' = [header EXCEPT ![s] = None]
  /\ UNCHANGED controlStreamOpened

Enters(s, place) ==
  /\ handler' = [handler EXCEPT ![s] = place]
  /\ header' = [header EXCEPT ![s] = None] /\ UNCHANGED stream
  /\ controlStreamOpened' = (controlStreamOpened \/ place = "control")

(* ReadHeader returns it, and the handler does what its purpose asks.      *)
ReadHeader(s) ==
  /\ handler[s] = "reading" /\ stream[s] = "sent"
  /\ CASE header[s] = Control -> IF controlStreamOpened THEN Rejects(s) ELSE Enters(s, "control")
       [] header[s] = Tunnel("known") -> Enters(s, "queueing")
       [] header[s] = Tunnel("unknown") -> Rejects(s)
  /\ UNCHANGED <<up, pc, closeVars, control, cmdVars, serve, sessionCtx>>

(* GrpcServeOnConn: the listener's second Accept fails, so Serve returns   *)
(* as soon as the connection is served, and it is served while it lives.   *)
ServeControl(s) ==
  /\ handler[s] = "control" /\ handler' = [handler EXCEPT ![s] = "done"]
  /\ UNCHANGED <<up, pc, closeVars, control, cmdVars, streamVars, serve, controlStreamOpened, sessionCtx>>

(* The header does not come within ReadHeaderTimeout, or QueueConn fails   *)
(* with its context or with the proxy.                                     *)
HandlerCloses(s) ==
  /\ handler[s] \in {"reading", "queueing"} /\ Rejects(s)
  /\ UNCHANGED <<up, pc, closeVars, control, cmdVars, serve, sessionCtx>>

(* The proxy takes the stream from its queue.                              *)
ProxyTakes(s) ==
  /\ handler[s] = "queueing" /\ handler' = [handler EXCEPT ![s] = "done"]
  /\ UNCHANGED <<up, pc, closeVars, control, cmdVars, streamVars, serve, controlStreamOpened, sessionCtx>>

HandleSessionReturns ==
  /\ serve = "waiting" /\ \A s \in Streams : handler[s] \in {"none", "done"}
  /\ serve' = "returned" /\ sessionCtx' = TRUE
  /\ UNCHANGED <<up, pc, closeVars, control, cmdVars, streamVars, handler, controlStreamOpened>>

-----------------------------------------------------------------------------
Closing(p) == Lock(p) \/ Step(p) \/ Unlock(p)

HubStep == CancelSession \/ shutdownSession \/ AcceptEnds \/ HandleSessionReturns

Next ==
  \/ Notice \/ Step("run") \/ CtxCloses \/ Closing("ctx") \/ Closing("user")
  \/ Interrupt \/ AcceptFails \/ CommandEnds
  \/ HubStep
  \/ \E e \in Ends : SessionDies(e)
  \/ \E s \in Streams :
       \/ OpenControl(s) \/ \E id \in ProxyIDs : OpenTunnel(s, id)
       \/ ControlOpened(s) \/ Accept(s) \/ ReadHeader(s) \/ ServeControl(s)
       \/ HandlerCloses(s) \/ ProxyTakes(s)

Spec == Init /\ [][Next]_vars

(* Goroutines that can move do; a write ends by yamux's write timeout, a   *)
(* header is read or times out, an end notices that the other is gone      *)
(* (keep-alive).  QueueConn ends with its context; no proxy has to take a  *)
(* stream and nobody has to stop anything.                                 *)
Fairness ==
  /\ WF_vars(Notice \/ Step("run")) /\ WF_vars(CtxCloses /\ pc["run"] # "over")
  /\ \A p \in {"ctx", "user"} : WF_vars(Closing(p))
  /\ WF_vars(CommandEnds)
  /\ WF_vars(CancelSession /\ ~up["hub"]) /\ WF_vars(shutdownSession) /\ WF_vars(AcceptEnds)
  /\ WF_vars(HandleSessionReturns)
  /\ \A e \in Ends : WF_vars(SessionDies(e) /\ \E f \in Ends : ~up[f])
  /\ \A s \in Streams :
       /\ WF_vars(ControlOpened(s)) /\ WF_vars(ServeControl(s))
       /\ WF_vars(HandlerCloses(s) /\ (handler[s] = "reading" \/ sessionCtx))

FairSpec == Spec /\ Fairness

-----------------------------------------------------------------------------
(* The proxy command never reports success for a transport whose loss it   *)
(* could see: it ends with ok only when it is interrupted, or while        *)
(* shutdownCh is still open, when its listener has failed by itself (which *)
(* it does not report).  The error must be stored before the channel that  *)
(* ends the command is closed (run, CloseWithError, CloseChan, Err).       *)
LossIsReported == [][result = "none" /\ result' = "ok" => ctxDone \/ ~shutdownCh]_vars

(* An interrupt, or the loss of the session, ends the transport: run and   *)
(* every call of CloseWithError return, in whatever order they come and    *)
(* while a control client is being opened.  Nobody holds shutdownMu,       *)
(* controlMu or the Once against the one it waits for.                     *)
TransportCloses == (ctxDone \/ ~up["client"]) ~> (pc["run"] = "over" /\ pc["user"] = "over" /\ pc["ctx"] \in {"idle", "over"})

(* A lost session, at either end, or the stop of the hub ends the hub's    *)
(* HandleSession with all its goroutines, also those of streams no proxy   *)
(* takes and of streams whose header never comes.                          *)
SessionReturns == (sessionCtx \/ \E e \in Ends : ~up[e]) ~> (serve = "returned")
=============================================================================
