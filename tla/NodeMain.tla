------------------------------ MODULE NodeMain ------------------------------
(***************************************************************************)
(* cmd/proxynode: the loop that keeps a node connected.  It makes a        *)
(* Proxynode, waits for its end, for a change of the configuration or for  *)
(* an interrupt, and connects again after a delay that doubles until a     *)
(* session is established.  A second goroutine turns interrupts into a     *)
(* graceful stop, then a cancelled context, then the end of the process.   *)
(*                                                                         *)
(* The callbacks of a Proxynode are assigned after New has started run:    *)
(* they may be missed by a connection that is established at once.         *)
(***************************************************************************)
EXTENDS Node

CONSTANTS MaxConfig,     \* bound on the configurations: 1 .. MaxConfig
          InitialDelay,  \* reconnectInitialDelay
          MaxDelay       \* reconnectMaxDelay

ASSUME DelayAssumption == InitialDelay \in Nat \ {0} /\ MaxDelay \in Nat
                          /\ InitialDelay <= MaxDelay /\ MaxConfig \in Nat \ {0}

VARIABLES
  main,         \* where the loop is
  config,       \* the current configuration
  changed,      \* the configChanged channel the loop holds is closed
  connectedSeen, connectedCh,  \* set by the OnConnected callback
  connected,    \* the loop has seen it
  missed,       \* history: the session was established before the callback was assigned
  waitErr,      \* what waitErrCh holds; "none" while Wait has not returned
  nextBase,     \* of the reconnectPolicy: the delay before the next attempt
  update,       \* the whitelist a call of UpdateEgressWhitelist carries, NoList once served
  early,        \* history: a change was sent before Hello had returned
  stage         \* of the interrupts: "none", "graceful", "forced"

connectedVars == <<connectedSeen, connectedCh, connected, missed>>
configVars == <<config, changed, update, early>>
vars == <<nodeVars, main, configVars, connectedVars, waitErr, nextBase, stage>>

Stopped == main \in {"stopped", "killed"}

Init ==
  /\ NodeInit
  /\ main = "top" /\ config = 1 /\ changed = FALSE /\ update = NoList /\ early = FALSE
  /\ connectedSeen = FALSE /\ connectedCh = FALSE /\ connected = FALSE /\ missed = FALSE
  /\ waitErr = "none" /\ nextBase = InitialDelay /\ stage = "none"

-----------------------------------------------------------------------------
(* The node on its own; all of it ends with the process.                   *)

Alone == ~Stopped /\ UNCHANGED <<main, configVars, connectedVars, waitErr, nextBase, stage>>

Node == NodeStep /\ Alone

(* The dial succeeds and OnConnected runs, if main has set it by now.      *)
Connect ==
  /\ DialSucceeds /\ ~Stopped
  /\ connectedSeen' = (main # "hooks") /\ connectedCh' = (main # "hooks")
  /\ missed' = (main = "hooks")
  /\ UNCHANGED <<main, configVars, connected, waitErr, nextBase, stage>>

(* UpdatedEgressWhitelist of the hub's handler.                            *)
HubUpdate ==
  /\ main = "update" /\ update # NoList /\ session = "up"
  /\ hubList' = update /\ update' = NoList
  /\ UNCHANGED <<run, session, grpcClient, hello, params, connVars, closeVars, ctxDone>>
  /\ UNCHANGED <<main, config, changed, early, connectedVars, waitErr, nextBase, stage>>

-----------------------------------------------------------------------------
(* The loop.                                                               *)

(* Mutant: the configuration is read, its channel only afterwards.         *)
Start_Stale ==
  /\ main = "top" /\ main' = "hooks"
  /\ \E list \in {config - 1, config} \ {NoList} : New(list)
  /\ changed' = FALSE /\ early' = FALSE /\ update' = NoList
  /\ connectedSeen' = FALSE /\ connectedCh' = FALSE /\ connected' = FALSE /\ missed' = FALSE
  /\ waitErr' = "none"
  /\ UNCHANGED <<config, nextBase, stage, ctxDone>>

(* The configuration and the channel that announces the next one are read  *)
(* together; New starts the connection.                                    *)
Start ==
  /\ main = "top" /\ main' = "hooks"
  /\ New(config)
  /\ changed' = FALSE /\ early' = FALSE /\ update' = NoList
  /\ connectedSeen' = FALSE /\ connectedCh' = FALSE /\ connected' = FALSE /\ missed' = FALSE
  /\ waitErr' = "none"
  /\ UNCHANGED <<config, nextBase, stage, ctxDone>>

Hook ==
  /\ main = "hooks" /\ main' = "select"
  /\ UNCHANGED <<nodeVars, configVars, connectedVars, waitErr, nextBase, stage>>

(* The goroutine that waits for the node's end.                            *)
WaitReturns ==
  /\ main \notin {"top", "hooks"} /\ ~Stopped /\ waitErr = "none"
  /\ \/ run = "done" /\ waitErr' = shutdownErr
     \/ ctxDone /\ waitErr' = "Canceled"
  /\ UNCHANGED <<nodeVars, main, configVars, connectedVars, nextBase, stage>>

(* The ctx.Done and shutdownChan cases: the node is closed.                *)
MainClose ==
  /\ main = "select"
  /\ \/ ctxDone /\ main' = "cancelled"
     \/ stage # "none" /\ main' = "closing"
  /\ Call("main")
  /\ UNCHANGED <<run, session, rpcVars, connVars, shutdown, shutdownErr, shutdownCh, ctxDone>>
  /\ UNCHANGED <<configVars, connectedVars, waitErr, nextBase, stage>>

MainClosed ==
  /\ closer["main"] = "returned"
  /\ \/ main = "cancelled"
     \/ main = "closing" /\ waitErr # "none"
  /\ main' = "stopped"
  /\ UNCHANGED <<nodeVars, configVars, connectedVars, waitErr, nextBase, stage>>

(* The configChanged case: the next channel is taken with the whitelist;   *)
(* without a client, UpdateEgressWhitelist fails and the change is lost.   *)
MainConfig ==
  /\ main = "select" /\ changed
  /\ changed' = FALSE
  /\ early' = (early \/ run \in {"dial", "control", "hello"})
  /\ IF grpcClient THEN update' = config /\ main' = "update" ELSE UNCHANGED <<update, main>>
  /\ UNCHANGED <<nodeVars, config, connectedVars, waitErr, nextBase, stage>>

(* UpdateEgressWhitelist returns: served, or failed with the session or    *)
(* the context.                                                            *)
MainUpdated ==
  /\ main = "update" /\ (update = NoList \/ Broken)
  /\ main' = "select" /\ update' = NoList
  /\ UNCHANGED <<nodeVars, config, changed, early, connectedVars, waitErr, nextBase, stage>>

(* The connectedCh case.                                                   *)
MainConnected ==
  /\ main = "select" /\ connectedCh
  /\ connectedCh' = FALSE /\ connected' = TRUE
  /\ nextBase' = IF connected THEN nextBase ELSE InitialDelay
  /\ UNCHANGED <<nodeVars, main, configVars, connectedSeen, missed, waitErr, stage>>

(* Next of the reconnectPolicy: the base delay after d.                    *)
Doubled(d) == IF 2 * d > MaxDelay THEN MaxDelay ELSE 2 * d

(* Mutant: only the connectedCh case resets the back-off.                  *)
MainEnded_Unseen ==
  /\ main = "select" /\ waitErr # "none"
  /\ IF waitErr \in {"nil", "ErrShutdown", "Canceled"}
       THEN main' = "stopped" /\ UNCHANGED nextBase
       ELSE main' = "backoff" /\ nextBase' = Doubled(nextBase)
  /\ UNCHANGED <<nodeVars, configVars, connectedVars, waitErr, stage>>

(* The waitErrCh case.  A session that was established resets the back-off *)
(* even when its signal is still in connectedCh.                           *)
MainEnded ==
  /\ main = "select" /\ waitErr # "none"
  /\ connected' = (connected \/ connectedSeen)
  /\ LET base == IF connectedSeen /\ ~connected THEN InitialDelay ELSE nextBase
     IN IF waitErr \in {"nil", "ErrShutdown", "Canceled"}
          THEN main' = "stopped" /\ nextBase' = base
          ELSE main' = "backoff" /\ nextBase' = Doubled(base)
  /\ UNCHANGED <<nodeVars, configVars, connectedSeen, connectedCh, missed, waitErr, stage>>

BackoffEnds ==
  /\ main = "backoff"
  /\ main' = "top" \/ ((ctxDone \/ stage # "none") /\ main' = "stopped")
  /\ UNCHANGED <<nodeVars, configVars, connectedVars, waitErr, nextBase, stage>>

-----------------------------------------------------------------------------
(* OnConfigChange.                                                         *)
ConfigChange ==
  /\ config < MaxConfig /\ ~Stopped
  /\ config' = config + 1 /\ changed' = TRUE
  /\ UNCHANGED <<nodeVars, main, update, early, connectedVars, waitErr, nextBase, stage>>

(* The interrupt goroutine: a signal closes shutdownChan ...               *)
Interrupt ==
  /\ stage = "none" /\ ~Stopped /\ stage' = "graceful"
  /\ UNCHANGED <<nodeVars, main, configVars, connectedVars, waitErr, nextBase>>

(* ... a second one, or sixty seconds, cancel the context ...              *)
ForceStop ==
  /\ stage = "graceful" /\ ~Stopped
  /\ stage' = "forced" /\ ctxDone' = TRUE
  /\ UNCHANGED <<run, session, rpcVars, connVars, closeVars>>
  /\ UNCHANGED <<main, configVars, connectedVars, waitErr, nextBase>>

(* ... and a third, or five seconds more, end the process.                 *)
Kill ==
  /\ stage = "forced" /\ ~Stopped /\ main' = "killed"
  /\ UNCHANGED <<nodeVars, configVars, connectedVars, waitErr, nextBase, stage>>

-----------------------------------------------------------------------------
Main == Start \/ Hook \/ MainClose \/ MainClosed \/ MainConfig \/ MainUpdated
        \/ MainConnected \/ MainEnded \/ BackoffEnds

Next == Node \/ Connect \/ HubUpdate \/ WaitReturns \/ Main
        \/ ConfigChange \/ Interrupt \/ ForceStop \/ Kill

Spec == Init /\ [][Next]_vars

(* Every goroutine that can move does, and timers fire.  A dial ends with  *)
(* its context.  Nothing is assumed of the hub, of the network, of the     *)
(* targets a handler talks to (one that does not read keeps it, whatever   *)
(* becomes of the session) or of who sends signals, nor that the process   *)
(* is killed.                                                              *)
Fairness ==
  /\ WF_vars(RunStep /\ Alone) /\ WF_vars(DialFails /\ ctxDone /\ Alone)
  /\ WF_vars(StopAccepting /\ Alone)
  /\ \A c \in Callers : WF_vars(CloseStep(c) /\ Alone)
  /\ WF_vars(WaitReturns) /\ WF_vars(ForceStop)
  /\ WF_vars(Start \/ Hook \/ MainClosed \/ MainUpdated \/ BackoffEnds)
  /\ SF_vars(MainClose) /\ SF_vars(MainEnded)

FairSpec == Spec /\ Fairness

-----------------------------------------------------------------------------
(* The loop ends for good only when somebody interrupts it, with one gap:  *)
(* a connection may end without an error when the hub's Disconnect has     *)
(* raised the flag of CloseWithError and not yet stored its error          *)
(* (exitErr, isShutdown in run, the waitErrCh case of the loop).           *)
StopsOnlyWhenAsked ==
  [][/\ waitErr = "none" /\ waitErr' \in {"nil", "ErrShutdown"}
         => stage # "none" \/ closer["hub"] = "marked"
     /\ Stopped' /\ ~Stopped => stage # "none" \/ waitErr = "nil"]_vars

(* The delay before a new attempt starts again from the first only after a *)
(* session that was established, and always then, whichever of its two     *)
(* channels the loop reads first, with one gap: a session established      *)
(* before main has assigned OnConnected counts as a failed attempt.        *)
(* Otherwise the delay doubles up to its cap (reconnectPolicy, the         *)
(* connectedCh and waitErrCh cases, the call of OnConnected in run).       *)
BackoffJustified ==
  [][/\ nextBase' < nextBase => session # "none"
     /\ main = "select" /\ main' = "backoff" =>
          nextBase' = Doubled(IF session # "none" /\ ~missed THEN InitialDelay ELSE nextBase)]_vars

(* When nothing is pending, the hub holds the whitelist of the current     *)
(* configuration, however many changes met a reconnection or each other,   *)
(* unless a change came before Hello had returned: then it is dropped, or  *)
(* Hello may overwrite it (the loop's two reads of config and channel).    *)
WhitelistReaches ==
  (main = "select" /\ run = "accept" /\ ~Broken /\ ~changed /\ ~early)
     => hubList = config

(* An interrupt ends the loop without the process being killed: every wait *)
(* of the node and of the loop ends with the context, and nobody waits for *)
(* a caller of CloseWithError that waits for them.                         *)
InterruptStops == (stage = "graceful") ~> Stopped

(* A node whose connection is lost, at any point of its life, connects     *)
(* again, unless it is stopped, once the handlers of its streams have      *)
(* ended: run waits for them, and not for the goroutine that exitErr       *)
(* leaves to close the node.                                               *)
Reconnects == (session = "dead" /\ conns = 0) ~> (run = "dial" \/ Stopped)
=============================================================================
