------------------------------- MODULE Proxy -------------------------------
(***************************************************************************)
(* proxyhub.Proxy, the hub's end of one node: the goroutine run, which     *)
(* waits for the node's Hello, takes connections, starts one goroutine per *)
(* connection and drains them at the end; CloseWithError, which any number *)
(* of goroutines may call; exitErr, by which run ends the proxy itself;    *)
(* and QueueConn.  What a bridge does with the bytes is module Bridge.     *)
(***************************************************************************)
EXTENDS Integers, FiniteSets

CONSTANTS Closers,  \* calls of CloseWithError from outside: replacement, hub
                    \* shutdown, the node's Disconnect, a join that was refused
          ErrOf,    \* ErrOf[k]: the error k passes
          Exit,     \* the goroutine exitErr starts
          Conns     \* calls of QueueConn, one connection each

ASSUME ExitAssumption == Exit \notin Closers
ASSUME ConnsAssumption == IsFiniteSet(Conns)

(* Errors an outside caller passes, and the two run itself records.        *)
CallErrors == {"ErrShutdown", "ErrDuplicateReplaced", "clientDisconnect"}
Errors == CallErrors \union {"ErrSessionClosed", "sessionCloseFailed"}

ASSUME ErrOfAssumption == ErrOf \in [Closers -> CallErrors]

Callers == Closers \union {Exit}

(* The argument of CloseWithError: exitErr's goroutine calls Close.        *)
ErrArg(k) == IF k = Exit THEN "ErrShutdown" ELSE ErrOf[k]

VARIABLES
  ready,          \* the node has said Hello (handler.Ready is closed)
  sessionClosed,  \* the yamux session is closed, by the node, the network or run
  ctxDone,        \* the context of the process is done
  run,            \* where run is
  conn,           \* conn[c]: where a connection is
  wg,             \* the WaitGroup of run
  shutdown,       \* the flag under shutdownMu
  shutdownErr,    \* the terminal error, "nil" while there is none
  shutdownCh,     \* shutdownCh is closed
  closedCh,       \* closedCh is closed
  closer,         \* closer[k]: where k is in CloseWithError
  panicked        \* a channel has been closed twice

envVars == <<ready, sessionClosed, ctxDone>>
closeVars == <<shutdown, shutdownErr, shutdownCh, closedCh, closer, panicked>>
vars == <<ready, sessionClosed, ctxDone, run, conn, wg, shutdown, shutdownErr,
          shutdownCh, closedCh, closer, panicked>>

(* Connections run has taken and whose goroutine has not returned.         *)
Active == {c \in Conns : conn[c] \in {"opening", "bridging"}}

Init ==
  /\ ready = FALSE
  /\ sessionClosed = FALSE
  /\ ctxDone = FALSE
  /\ run = "waitReady"
  /\ conn = [c \in Conns |-> "idle"]
  /\ wg = 0
  /\ shutdown = FALSE
  /\ shutdownErr = "nil"
  /\ shutdownCh = FALSE
  /\ closedCh = FALSE
  /\ closer = [k \in Callers |-> IF k = Exit THEN "unborn" ELSE "idle"]
  /\ panicked = FALSE

-----------------------------------------------------------------------------
(* The environment: the node and the process.                              *)

Hello ==
  /\ ~ready /\ ready' = TRUE
  /\ UNCHANGED <<sessionClosed, ctxDone, run, conn, wg>>
  /\ UNCHANGED closeVars

SessionDies ==
  /\ ~sessionClosed /\ sessionClosed' = TRUE
  /\ UNCHANGED <<ready, ctxDone, run, conn, wg>>
  /\ UNCHANGED closeVars

CtxDone ==
  /\ ~ctxDone /\ ctxDone' = TRUE
  /\ UNCHANGED <<ready, sessionClosed, run, conn, wg>>
  /\ UNCHANGED closeVars

-----------------------------------------------------------------------------
(* CloseWithError, split where other goroutines can come in between: the   *)
(* flag and the error are under different mutexes.                         *)

(* Mutant: the flag is not tested.                                         *)
CloseMark_Untested(k) ==
  /\ closer[k] = "idle"
  /\ closer' = [closer EXCEPT ![k] = "marked"]
  /\ shutdown' = TRUE
  /\ UNCHANGED <<run, conn, wg, shutdownErr, shutdownCh, closedCh, panicked>>
  /\ UNCHANGED envVars

CloseMark(k) ==
  /\ closer[k] = "idle"
  /\ closer' = [closer EXCEPT ![k] = IF shutdown THEN "returned" ELSE "marked"]
  /\ shutdown' = TRUE
  /\ UNCHANGED <<run, conn, wg, shutdownErr, shutdownCh, closedCh, panicked>>
  /\ UNCHANGED envVars

(* Mutant: the last caller's error wins.                                   *)
CloseErr_Overwrite(k) ==
  /\ closer[k] = "marked"
  /\ closer' = [closer EXCEPT ![k] = "errSet"]
  /\ shutdownErr' = ErrArg(k)
  /\ UNCHANGED <<run, conn, wg, shutdown, shutdownCh, closedCh, panicked>>
  /\ UNCHANGED envVars

(* Mutant: the error is not recorded before the channel is closed.         *)
CloseErr_Skipped(k) ==
  /\ closer[k] = "marked"
  /\ closer' = [closer EXCEPT ![k] = "errSet"]
  /\ UNCHANGED <<run, conn, wg, shutdown, shutdownErr, shutdownCh, closedCh, panicked>>
  /\ UNCHANGED envVars

CloseErr(k) ==
  /\ closer[k] = "marked"
  /\ closer' = [closer EXCEPT ![k] = "errSet"]
  /\ shutdownErr' = IF shutdownErr = "nil" THEN ErrArg(k) ELSE shutdownErr
  /\ UNCHANGED <<run, conn, wg, shutdown, shutdownCh, closedCh, panicked>>
  /\ UNCHANGED envVars

CloseSignal(k) ==
  /\ closer[k] = "errSet"
  /\ closer' = [closer EXCEPT ![k] = "signalled"]
  /\ shutdownCh' = TRUE
  /\ panicked' = (panicked \/ shutdownCh)
  /\ UNCHANGED <<run, conn, wg, shutdown, shutdownErr, closedCh>>
  /\ UNCHANGED envVars

(* Mutant: closedCh is closed without waiting for runDoneCh.               *)
CloseWait_Early(k) ==
  /\ closer[k] = "signalled"
  /\ closer' = [closer EXCEPT ![k] = "returned"]
  /\ closedCh' = TRUE
  /\ panicked' = (panicked \/ closedCh)
  /\ UNCHANGED <<run, conn, wg, shutdown, shutdownErr, shutdownCh>>
  /\ UNCHANGED envVars

CloseWait(k) ==
  /\ closer[k] = "signalled" /\ run = "done"
  /\ closer' = [closer EXCEPT ![k] = "returned"]
  /\ closedCh' = TRUE
  /\ panicked' = (panicked \/ closedCh)
  /\ UNCHANGED <<run, conn, wg, shutdown, shutdownErr, shutdownCh>>
  /\ UNCHANGED envVars

CloseWithError(k) == CloseMark(k) \/ CloseErr(k) \/ CloseSignal(k) \/ CloseWait(k)

(* exitErr: record the error and start a goroutine that calls Close.  run  *)
(* may come here again and again before shutdownCh is closed; the          *)
(* goroutines after the first find the flag set or race for it as equals,  *)
(* so that one of them stands for all.                                     *)
exitErr(err) ==
  /\ shutdownErr' = IF shutdownErr = "nil" THEN err ELSE shutdownErr
  /\ closer' = [closer EXCEPT ![Exit] = IF @ = "unborn" THEN "idle" ELSE @]
  /\ UNCHANGED <<shutdown, shutdownCh, closedCh, panicked>>

-----------------------------------------------------------------------------
(* run.                                                                    *)

(* Mutant: the wait for Hello does not select on shutdownCh.               *)
RunReady_NoShutdown ==
  /\ run = "waitReady" /\ (ctxDone \/ ready)
  /\ run' = "loop"
  /\ UNCHANGED <<conn, wg>>
  /\ UNCHANGED envVars
  /\ UNCHANGED closeVars

(* The wait before the loop: session.CloseChan() is not one of its cases.  *)
RunReady ==
  /\ run = "waitReady" /\ (ctxDone \/ shutdownCh \/ ready)
  /\ run' = "loop"
  /\ UNCHANGED <<conn, wg>>
  /\ UNCHANGED envVars
  /\ UNCHANGED closeVars

RunBreak ==
  /\ run = "loop" /\ (ctxDone \/ shutdownCh)
  /\ run' = "drain"
  /\ UNCHANGED <<conn, wg>>
  /\ UNCHANGED envVars
  /\ UNCHANGED closeVars

(* Mutant: the end of the session is only logged.                          *)
RunSessionClosed_Logged ==
  /\ run = "loop" /\ sessionClosed
  /\ UNCHANGED vars

RunSessionClosed ==
  /\ run = "loop" /\ sessionClosed
  /\ exitErr("ErrSessionClosed")
  /\ UNCHANGED <<run, conn, wg>>
  /\ UNCHANGED envVars

RunConn(c) ==
  /\ run = "loop" /\ conn[c] = "queued"
  /\ conn' = [conn EXCEPT ![c] = "opening"]
  /\ wg' = wg + 1
  /\ UNCHANGED run
  /\ UNCHANGED envVars
  /\ UNCHANGED closeVars

(* Mutant: a stream still being opened is not waited for (wg.Add after     *)
(* OpenStream, in the goroutine).                                          *)
RunDrained_LateAdd ==
  /\ run = "drain"
  /\ ctxDone \/ wg = Cardinality({c \in Conns : conn[c] = "opening"})
  /\ run' = "closing"
  /\ UNCHANGED <<conn, wg>>
  /\ UNCHANGED envVars
  /\ UNCHANGED closeVars

RunDrained ==
  /\ run = "drain" /\ (ctxDone \/ wg = 0)
  /\ run' = "closing"
  /\ UNCHANGED <<conn, wg>>
  /\ UNCHANGED envVars
  /\ UNCHANGED closeVars

(* session.Close, and the deferred close of runDoneCh.                     *)
RunSessionClose ==
  /\ run = "closing"
  /\ sessionClosed' = TRUE
  /\ run' = "done"
  /\ \/ UNCHANGED closeVars
     \/ exitErr("sessionCloseFailed")
  /\ UNCHANGED <<conn, wg, ready, ctxDone>>

Run == \/ RunReady \/ RunBreak \/ RunSessionClosed \/ RunDrained \/ RunSessionClose
       \/ \E c \in Conns : RunConn(c)

-----------------------------------------------------------------------------
(* Connections.                                                            *)

connFrame ==
  /\ UNCHANGED run
  /\ UNCHANGED envVars
  /\ UNCHANGED closeVars

(* QueueConn is called and blocks in its select.                           *)
QueueConn(c) ==
  /\ conn[c] = "idle"
  /\ conn' = [conn EXCEPT ![c] = "queued"]
  /\ UNCHANGED wg
  /\ connFrame

(* Mutant: QueueConn does not select on shutdownCh.                        *)
QueueConnRefused_Never(c) ==
  /\ FALSE /\ conn[c] = "queued"
  /\ conn' = [conn EXCEPT ![c] = "refused"]
  /\ UNCHANGED wg
  /\ connFrame

(* QueueConn returns shutdownErr.                                          *)
QueueConnRefused(c) ==
  /\ conn[c] = "queued" /\ shutdownCh
  /\ conn' = [conn EXCEPT ![c] = "refused"]
  /\ UNCHANGED wg
  /\ connFrame

(* QueueConn returns because its caller's context is done.                 *)
QueueConnCancelled(c) ==
  /\ conn[c] = "queued"
  /\ conn' = [conn EXCEPT ![c] = "cancelled"]
  /\ UNCHANGED wg
  /\ connFrame

(* session.OpenStream succeeds, or fails and the connection is closed.     *)
OpenStream(c) ==
  /\ conn[c] = "opening"
  /\ \/ /\ ~sessionClosed
        /\ conn' = [conn EXCEPT ![c] = "bridging"]
        /\ UNCHANGED wg
     \/ /\ conn' = [conn EXCEPT ![c] = "closed"]
        /\ wg' = wg - 1
  /\ connFrame

(* bridgeConn returns.                                                     *)
BridgeEnd(c) ==
  /\ conn[c] = "bridging"
  /\ conn' = [conn EXCEPT ![c] = "closed"]
  /\ wg' = wg - 1
  /\ connFrame

Connection(c) == QueueConn(c) \/ QueueConnRefused(c) \/ QueueConnCancelled(c)
                 \/ OpenStream(c) \/ BridgeEnd(c)

-----------------------------------------------------------------------------
Next == Hello \/ SessionDies \/ CtxDone \/ Run
        \/ \E k \in Callers : CloseWithError(k)
        \/ \E c \in Conns : Connection(c)

Spec == Init /\ [][Next]_vars

(* Goroutines that can move do.  OpenStream may wait for the node as long  *)
(* as the session lives.  A bridge ends for sure with ctx only: a session  *)
(* that is closed does not end one whose client does not read (module      *)
(* Bridge).  Nothing is assumed of the node, of the clients, of            *)
(* QueueConn's callers, or that anyone calls CloseWithError.               *)
Fairness ==
  /\ WF_vars(RunReady) /\ WF_vars(RunBreak) /\ WF_vars(RunSessionClosed)
  /\ WF_vars(RunDrained) /\ WF_vars(RunSessionClose)
  /\ WF_vars(CloseMark(Exit))
  /\ \A k \in Callers :
       WF_vars(CloseErr(k)) /\ WF_vars(CloseSignal(k)) /\ WF_vars(CloseWait(k))
  /\ \A c \in Conns :
       /\ WF_vars(RunConn(c)) /\ WF_vars(QueueConnRefused(c))
       /\ WF_vars(OpenStream(c) /\ sessionClosed)
       /\ WF_vars(BridgeEnd(c) /\ ctxDone)

FairSpec == Spec /\ Fairness

-----------------------------------------------------------------------------
(* Every variable has its type; the WaitGroup does not go negative.        *)
TypeOK ==
  /\ ready \in BOOLEAN
  /\ sessionClosed \in BOOLEAN
  /\ ctxDone \in BOOLEAN
  /\ run \in {"waitReady", "loop", "drain", "closing", "done"}
  /\ conn \in [Conns -> {"idle", "queued", "opening", "bridging", "closed",
                         "refused", "cancelled"}]
  /\ wg \in 0 .. Cardinality(Conns)
  /\ shutdown \in BOOLEAN
  /\ shutdownErr \in Errors \union {"nil"}
  /\ shutdownCh \in BOOLEAN
  /\ closedCh \in BOOLEAN
  /\ closer \in [Callers -> {"unborn", "idle", "marked", "errSet", "signalled", "returned"}]
  /\ panicked \in BOOLEAN

(* However many goroutines close the proxy at once, and whatever run does  *)
(* meanwhile, neither shutdownCh nor closedCh is closed twice              *)
(* (CloseWithError, exitErr).                                              *)
NoDoubleClose == ~panicked

(* Whoever finds shutdownCh closed reads a non-nil error: QueueConn never  *)
(* answers nil, "the connection is taken", for one that was refused.       *)
RefusalHasError == shutdownCh => shutdownErr # "nil"

(* run closes the session, and Wait returns, only when no connection it    *)
(* took is still being opened or bridged, unless the process is being torn *)
(* down (the WaitGroup and the drain of run).                              *)
DrainedBeforeClose ==
  run \in {"closing", "done"} \/ closedCh => (Active = {} \/ ctxDone)

(* Proxy implements ProxyLife: CloseChan, Err, Wait and the connections    *)
(* served behave as the hub and the publishers of the catalog assume.      *)
life == IF closedCh THEN "over" ELSE IF shutdownCh THEN "ending" ELSE "open"

Life == INSTANCE ProxyLife WITH
  Conns <- Conns, Reasons <- Errors, NoReason <- "nil",
  life <- life, reason <- shutdownErr, active <- Active, torn <- ctxDone

ImplementsLife == Life!Spec

(* The end of the session of a node that has said Hello ends its proxy,    *)
(* unless the process is being torn down (the CloseChan case of run).      *)
SessionEndNoticed == (ready /\ sessionClosed) ~> (shutdownCh \/ ctxDone)

(* A proxy told to end is over once the context ends, which cuts even the  *)
(* connections still open, and once its session has, if none of those it   *)
(* has begun to bridge is left (one that waits for OpenStream fails then), *)
(* or all its connections have finished: run and the caller of             *)
(* CloseWithError do not wait for each other.                              *)
CloseTerminates ==
  /\ (shutdownCh /\ ctxDone) ~> closedCh
  /\ (shutdownCh /\ sessionClosed /\ \A c \in Conns : conn[c] # "bridging") ~> closedCh
  /\ <>[](Active = {}) => (shutdownCh ~> closedCh)

(* QueueConn on a proxy whose node has said Hello returns, unless run is   *)
(* gone with the context and nobody closes the proxy.                      *)
QueueConnReturns ==
  \A c \in Conns : (conn[c] = "queued" /\ ready)
                     ~> (conn[c] # "queued" \/ (ctxDone /\ ~shutdownCh))
=============================================================================
