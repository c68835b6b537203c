----------------------------- MODULE NodeProofs -----------------------------
(***************************************************************************)
(* Proofs about modules Node and NodeMain, for any configurations, any     *)
(* number of streams and any delays: type correctness, that the hub ends   *)
(* up with the current whitelist, that the loop stops only when asked to,  *)
(* and that its delay is justified.                                        *)
(*                                                                         *)
(* The loop learns of the end of a connection from its error, so that the  *)
(* action properties rest on who has stored which error, and when (Asked,  *)
(* Ended), and on what the two channels of a session tell it (Reset).      *)
(* WhitelistReaches speaks of quiet states; Current says for every phase   *)
(* of a connection where the newest whitelist is.                          *)
(***************************************************************************)
EXTENDS NodeMain, TLAPS

Errors == {"nil", "ErrServerDisconnect", "ErrShutdown", "failure", "Canceled"}

(* Every variable has its type, and the delay stays within its cap.        *)
TypeOK ==
  /\ run \in {"dial", "control", "hello", "accept", "drain", "done"}
  /\ session \in {"none", "up", "dead"}
  /\ grpcClient \in BOOLEAN /\ hello \in {"none", "sent", "served"}
  /\ params \in Nat /\ hubList \in Nat
  /\ conns \in Nat /\ acceptStopped \in BOOLEAN
  /\ shutdown \in BOOLEAN /\ shutdownErr \in Errors /\ shutdownCh \in BOOLEAN
  /\ closer \in [Callers -> {"idle", "called", "marked", "signalled", "returned"}]
  /\ ctxDone \in BOOLEAN
  /\ main \in {"top", "hooks", "select", "update", "cancelled", "closing", "backoff",
               "stopped", "killed"}
  /\ config \in Nat \ {0} /\ changed \in BOOLEAN /\ update \in Nat /\ early \in BOOLEAN
  /\ connectedSeen \in BOOLEAN /\ connectedCh \in BOOLEAN /\ connected \in BOOLEAN
  /\ missed \in BOOLEAN
  /\ waitErr \in Errors \union {"none"}
  /\ nextBase \in InitialDelay .. MaxDelay
  /\ stage \in {"none", "graceful", "forced"}

(* The loop is told to stop, and closes its node, only after an interrupt. *)
Asked ==
  /\ ctxDone <=> stage = "forced"
  /\ main \in {"cancelled", "closing"} => stage # "none"
  /\ closer["main"] # "idle" => stage # "none" /\ main \in {"cancelled", "closing", "stopped", "killed"}
  /\ shutdownErr \in {"ErrShutdown", "Canceled"} => stage # "none"
  /\ waitErr \in {"ErrShutdown", "Canceled"} => stage # "none"

(* A node that ends without an error has been closed by somebody who has   *)
(* not yet stored one.                                                     *)
Ended ==
  /\ closer["exit"] # "idle" => shutdownErr # "nil"
  /\ shutdownCh => shutdownErr # "nil"
  /\ shutdown => shutdownCh \/ \E c \in Callers : closer[c] = "marked"
  /\ acceptStopped => ctxDone \/ shutdownCh
  /\ main # "top" /\ run \in {"drain", "done"} /\ shutdownErr = "nil" => ctxDone \/ shutdown

(* The callback has run exactly if a session was established and not       *)
(* missed; the loop has seen it only then, and has reset its delay.        *)
Reset ==
  /\ run = "dial" => session = "none"
  /\ run \in {"control", "hello", "accept", "drain"} => session # "none"
  /\ connectedSeen <=> session # "none" /\ ~missed
  /\ connected \/ connectedCh => connectedSeen
  /\ connected /\ main \notin {"top", "backoff", "stopped", "killed"} => nextBase = InitialDelay

(* Where the whitelist of the current configuration is, if no change came  *)
(* early: in the parameters of Hello, at the hub, or on its way.           *)
Current ==
  /\ run \in {"hello", "accept"} => grpcClient
  /\ run = "accept" => hello = "served"
  /\ ~early /\ run \in {"dial", "control", "hello"} =>
        /\ main # "update"
        /\ ~changed => params = config
  /\ ~early /\ run = "hello" /\ hello = "served" => hubList = params
  /\ ~early /\ run = "accept" /\ ~Broken /\ ~changed =>
        IF main = "update" /\ update # NoList THEN update = config ELSE hubList = config

IInv == TypeOK /\ Asked /\ Ended /\ Reset /\ Current

-----------------------------------------------------------------------------
(* The initial state satisfies the inductive invariant.                    *)
LEMMA InitIInv == Init => IInv
<1> SUFFICES ASSUME Init PROVE IInv
  OBVIOUS
<1> USE DelayAssumption DEF Init, NodeInit, Callers, NoList
<1>1. closer \in [Callers -> {"idle", "called", "marked", "signalled", "returned"}]
  OBVIOUS
<1>2. nextBase \in InitialDelay .. MaxDelay /\ config \in Nat \ {0}
  OBVIOUS
<1>3. TypeOK
  BY <1>1, <1>2 DEF TypeOK, Errors
<1>4. Asked /\ Ended /\ Reset /\ Current
  BY DEF Asked, Ended, Reset, Current
<1> QED
  BY <1>3, <1>4 DEF IInv

(* The goroutine run of a node: it records an error when it gives up, and  *)
(* drains only when it is closed or the context is done.                   *)
LEMMA RunIInv ==
  ASSUME IInv, Alone, 
         DialFails \/ ControlReady \/ ControlFails \/ HelloReturns \/ HelloFails \/
         AcceptEnds \/ AcceptFails \/ Drained
  PROVE  IInv'
<1> USE DelayAssumption DEF IInv, TypeOK, Callers, NoList, Alone,
        nodeVars, rpcVars, connVars, closeVars, configVars, connectedVars
<1>1. CASE DialFails
  <2>1. TypeOK'
    BY <1>1 DEF DialFails, RunFails, exitErr, Failures, Errors
  <2>2. Asked'
    BY <1>1 DEF DialFails, RunFails, exitErr, Failures, Asked
  <2>3. Ended'
    BY <1>1 DEF DialFails, RunFails, exitErr, Failures, Ended
  <2>4. Reset'
    BY <1>1 DEF DialFails, RunFails, exitErr, Failures, Reset
  <2>5. Current'
    BY <1>1 DEF DialFails, RunFails, exitErr, Failures, Current, Broken
  <2> QED
    BY <2>1, <2>2, <2>3, <2>4, <2>5
<1>2. CASE ControlReady
  <2>1. TypeOK'
    BY <1>2 DEF ControlReady
  <2>2. Ended'
    BY <1>2 DEF ControlReady, Ended
  <2>3. Reset'
    BY <1>2 DEF ControlReady, Reset
  <2>4. Current'
    BY <1>2 DEF ControlReady, Current, Broken
  <2>5. Asked'
    BY <1>2 DEF ControlReady, Asked
  <2> QED
    BY <2>1, <2>2, <2>3, <2>4, <2>5
<1>3. CASE ControlFails
  <2>1. TypeOK'
    BY <1>3 DEF ControlFails, RunFails, exitErr, Failures, Errors
  <2>2. Asked'
    BY <1>3 DEF ControlFails, RunFails, exitErr, Failures, Asked
  <2>3. Ended'
    BY <1>3 DEF ControlFails, RunFails, exitErr, Failures, Ended
  <2>4. Reset'
    BY <1>3 DEF ControlFails, RunFails, exitErr, Failures, Reset
  <2>5. Current'
    BY <1>3 DEF ControlFails, RunFails, exitErr, Failures, Current, Broken
  <2> QED
    BY <2>1, <2>2, <2>3, <2>4, <2>5
<1>4. CASE HelloReturns
  <2>1. TypeOK'
    BY <1>4 DEF HelloReturns
  <2>2. Ended'
    BY <1>4 DEF HelloReturns, Ended
  <2>3. Reset'
    BY <1>4 DEF HelloReturns, Reset
  <2>4. Current'
    <3>1. ~early => main # "update" /\ hubList = params /\ (~changed => params = config)
      BY <1>4 DEF HelloReturns, Current
    <3>2. hello' = "served" /\ grpcClient'
      BY <1>4 DEF HelloReturns, Current
    <3>3. run' = "accept" /\ UNCHANGED <<early, main, changed, hubList, config, update>>
      BY <1>4 DEF HelloReturns
    <3> QED
      BY <3>1, <3>2, <3>3 DEF Current
  <2>5. Asked'
    BY <1>4 DEF HelloReturns, Asked
  <2> QED
    BY <2>1, <2>2, <2>3, <2>4, <2>5
<1>5. CASE HelloFails
  <2>1. TypeOK'
    BY <1>5 DEF HelloFails, RunFails, exitErr, Failures, Errors
  <2>2. Asked'
    BY <1>5 DEF HelloFails, RunFails, exitErr, Failures, Asked
  <2>3. Ended'
    BY <1>5 DEF HelloFails, RunFails, exitErr, Failures, Ended
  <2>4. Reset'
    BY <1>5 DEF HelloFails, RunFails, exitErr, Failures, Reset
  <2>5. Current'
    BY <1>5 DEF HelloFails, RunFails, exitErr, Failures, Current, Broken
  <2> QED
    BY <2>1, <2>2, <2>3, <2>4, <2>5
<1>6. CASE AcceptEnds
  <2>1. TypeOK'
    BY <1>6 DEF AcceptEnds
  <2>2. Ended'
    BY <1>6 DEF AcceptEnds, Ended
  <2>3. Reset'
    BY <1>6 DEF AcceptEnds, Reset
  <2>4. Current'
    BY <1>6 DEF AcceptEnds, Current, Broken
  <2>5. Asked'
    BY <1>6 DEF AcceptEnds, Asked
  <2> QED
    BY <2>1, <2>2, <2>3, <2>4, <2>5
<1>7. CASE AcceptFails
  <2>1. TypeOK'
    BY <1>7 DEF AcceptFails, exitErr, Errors
  <2>2. Asked'
    BY <1>7 DEF AcceptFails, exitErr, Asked
  <2>3. Ended'
    BY <1>7 DEF AcceptFails, exitErr, Ended
  <2>4. Reset'
    BY <1>7 DEF AcceptFails, exitErr, Reset
  <2>5. Current'
    BY <1>7 DEF AcceptFails, exitErr, Current, Broken
  <2> QED
    BY <2>1, <2>2, <2>3, <2>4, <2>5
<1>8. CASE Drained
  <2>1. TypeOK'
    BY <1>8 DEF Drained
  <2>2. Ended'
    BY <1>8 DEF Drained, Ended
  <2>3. Reset'
    BY <1>8 DEF Drained, Reset
  <2>4. Current'
    BY <1>8 DEF Drained, Current, Broken
  <2>5. Asked'
    BY <1>8 DEF Drained, Asked
  <2> QED
    BY <2>1, <2>2, <2>3, <2>4, <2>5
<1> QED
  BY <1>1, <1>2, <1>3, <1>4, <1>5, <1>6, <1>7, <1>8

(* The node's other goroutines, its session and the hub.                   *)
LEMMA StreamIInv ==
  ASSUME IInv, Alone, 
         StopAccepting \/ AcceptStream \/ HandlerEnds \/ SessionDies \/ HubHello \/
         Disconnect
  PROVE  IInv'
<1> USE DelayAssumption DEF IInv, TypeOK, Callers, NoList, Alone,
        nodeVars, rpcVars, connVars, closeVars, configVars, connectedVars
<1>1. CASE StopAccepting
  <2>1. TypeOK'
    BY <1>1 DEF StopAccepting
  <2>2. Ended'
    BY <1>1 DEF StopAccepting, Ended
  <2>3. Asked' /\ Reset' /\ Current'
    BY <1>1 DEF StopAccepting, Asked, Reset, Current, Broken
  <2> QED
    BY <2>1, <2>2, <2>3
<1>2. CASE AcceptStream
  <2>1. TypeOK'
    BY <1>2 DEF AcceptStream
  <2>2. Asked' /\ Ended' /\ Reset' /\ Current'
    BY <1>2 DEF AcceptStream, Asked, Ended, Reset, Current, Broken
  <2> QED
    BY <2>1, <2>2
<1>3. CASE HandlerEnds
  <2>1. TypeOK'
    BY <1>3 DEF HandlerEnds
  <2>2. Asked' /\ Ended' /\ Reset' /\ Current'
    BY <1>3 DEF HandlerEnds, Asked, Ended, Reset, Current, Broken
  <2> QED
    BY <2>1, <2>2
<1>4. CASE SessionDies
  <2>1. TypeOK'
    BY <1>4 DEF SessionDies
  <2>2. Current'
    BY <1>4 DEF SessionDies, Current, Broken
  <2>3. Asked' /\ Ended' /\ Reset'
    BY <1>4 DEF SessionDies, Asked, Ended, Reset
  <2> QED
    BY <2>1, <2>2, <2>3
<1>5. CASE HubHello
  <2>1. TypeOK'
    BY <1>5 DEF HubHello
  <2>2. Current'
    BY <1>5 DEF HubHello, Current, Broken
  <2>3. Asked' /\ Ended' /\ Reset'
    BY <1>5 DEF HubHello, Asked, Ended, Reset
  <2> QED
    BY <2>1, <2>2, <2>3
<1>6. CASE Disconnect
  <2>1. TypeOK'
    BY <1>6 DEF Disconnect, Call
  <2>2. Asked'
    BY <1>6 DEF Disconnect, Call, Asked
  <2>3. Ended'
    BY <1>6 DEF Disconnect, Call, Ended
  <2>4. Reset' /\ Current'
    BY <1>6 DEF Disconnect, Call, Reset, Current, Broken
  <2> QED
    BY <2>1, <2>2, <2>3, <2>4
<1> QED
  BY <1>1, <1>2, <1>3, <1>4, <1>5, <1>6

(* CloseWithError: the flag is raised by one caller, whose error is stored *)
(* before the channel is closed.                                           *)
LEMMA CloseIInv ==
  ASSUME IInv, NEW c \in Callers, Alone, CloseMark(c) \/ CloseSignal(c) \/ CloseReturn(c)
  PROVE  IInv'
<1> USE DelayAssumption DEF IInv, TypeOK, Callers, NoList, Alone,
        nodeVars, rpcVars, connVars, closeVars, configVars, connectedVars
<1>1. CASE CloseMark(c)
  <2>1. TypeOK'
    BY <1>1 DEF CloseMark
  <2>2. Asked'
    BY <1>1 DEF CloseMark, Asked
  <2>3. Ended'
    BY <1>1 DEF CloseMark, Ended
  <2>4. Reset' /\ Current'
    BY <1>1 DEF CloseMark, Reset, Current, Broken
  <2> QED
    BY <2>1, <2>2, <2>3, <2>4
<1>2. CASE CloseSignal(c)
  <2>1. TypeOK'
    BY <1>2 DEF CloseSignal, ErrorOf, Errors
  <2>2. Asked'
    BY <1>2 DEF CloseSignal, ErrorOf, Asked, Ended
  <2>3. Ended'
    BY <1>2 DEF CloseSignal, ErrorOf, Ended
  <2>4. Reset' /\ Current'
    BY <1>2 DEF CloseSignal, ErrorOf, Reset, Current, Broken
  <2> QED
    BY <2>1, <2>2, <2>3, <2>4
<1>3. CASE CloseReturn(c)
  <2>1. TypeOK'
    BY <1>3 DEF CloseReturn
  <2>2. Asked'
    BY <1>3 DEF CloseReturn, Asked
  <2>3. Ended'
    BY <1>3 DEF CloseReturn, Ended
  <2>4. Reset' /\ Current'
    BY <1>3 DEF CloseReturn, Reset, Current, Broken
  <2> QED
    BY <2>1, <2>2, <2>3, <2>4
<1> QED
  BY <1>1, <1>2, <1>3

(* What the node and the hub tell the loop.                                *)
LEMMA ConnectIInv ==
  ASSUME IInv, Connect \/ HubUpdate \/ WaitReturns
  PROVE  IInv'
<1> USE DelayAssumption DEF IInv, TypeOK, Callers, NoList,
        nodeVars, rpcVars, connVars, closeVars, configVars, connectedVars
<1>1. CASE Connect
  <2>1. TypeOK'
    BY <1>1 DEF Connect, DialSucceeds
  <2>2. Ended'
    BY <1>1 DEF Connect, DialSucceeds, Ended
  <2>3. Reset'
    BY <1>1 DEF Connect, DialSucceeds, Reset
  <2>4. Current'
    BY <1>1 DEF Connect, DialSucceeds, Current, Broken
  <2>5. Asked'
    BY <1>1 DEF Connect, DialSucceeds, Asked
  <2> QED
    BY <2>1, <2>2, <2>3, <2>4, <2>5
<1>2. CASE HubUpdate
  <2>1. TypeOK'
    BY <1>2 DEF HubUpdate
  <2>2. Current'
    BY <1>2 DEF HubUpdate, Current, Broken
  <2>3. Asked' /\ Ended' /\ Reset'
    BY <1>2 DEF HubUpdate, Asked, Ended, Reset
  <2> QED
    BY <2>1, <2>2, <2>3
<1>3. CASE WaitReturns
  <2>1. TypeOK'
    BY <1>3 DEF WaitReturns, Errors
  <2>2. Asked'
    BY <1>3 DEF WaitReturns, Asked
  <2>3. Ended' /\ Reset' /\ Current'
    BY <1>3 DEF WaitReturns, Ended, Reset, Current, Broken
  <2> QED
    BY <2>1, <2>2, <2>3
<1> QED
  BY <1>1, <1>2, <1>3

(* The loop of cmd/proxynode.                                              *)
LEMMA MainIInv ==
  ASSUME IInv, 
         Start \/ Hook \/ MainClose \/ MainClosed \/ MainConfig \/ MainUpdated \/
         MainConnected \/ MainEnded \/ BackoffEnds
  PROVE  IInv'
<1> USE DelayAssumption DEF IInv, TypeOK, Callers, NoList,
        nodeVars, rpcVars, connVars, closeVars, configVars, connectedVars
<1>1. CASE Start
  <2>1. TypeOK'
    BY <1>1 DEF Start, New, Errors
  <2>2. Asked'
    BY <1>1 DEF Start, New, Asked
  <2>3. Ended'
    BY <1>1 DEF Start, New, Ended
  <2>4. Reset'
    BY <1>1 DEF Start, New, Reset
  <2>5. Current'
    BY <1>1 DEF Start, New, Current, Broken
  <2> QED
    BY <2>1, <2>2, <2>3, <2>4, <2>5
<1>2. CASE Hook
  <2>1. TypeOK'
    BY <1>2 DEF Hook
  <2>2. Asked'
    BY <1>2 DEF Hook, Asked
  <2>3. Ended'
    BY <1>2 DEF Hook, Ended
  <2>4. Reset'
    BY <1>2 DEF Hook, Reset
  <2>5. Current'
    BY <1>2 DEF Hook, Current, Broken
  <2> QED
    BY <2>1, <2>2, <2>3, <2>4, <2>5
<1>3. CASE MainClose
  <2>1. TypeOK'
    BY <1>3 DEF MainClose, Call
  <2>2. Asked'
    BY <1>3 DEF MainClose, Call, Asked
  <2>3. Ended'
    BY <1>3 DEF MainClose, Call, Ended, Asked
  <2>4. Reset'
    BY <1>3 DEF MainClose, Call, Reset
  <2>5. Current'
    BY <1>3 DEF MainClose, Call, Current, Broken
  <2> QED
    BY <2>1, <2>2, <2>3, <2>4, <2>5
<1>4. CASE MainClosed
  <2>1. TypeOK'
    BY <1>4 DEF MainClosed
  <2>2. Asked'
    BY <1>4 DEF MainClosed, Asked
  <2>3. Ended'
    BY <1>4 DEF MainClosed, Ended
  <2>4. Reset'
    BY <1>4 DEF MainClosed, Reset
  <2>5. Current'
    BY <1>4 DEF MainClosed, Current, Broken
  <2> QED
    BY <2>1, <2>2, <2>3, <2>4, <2>5
<1>5. CASE MainConfig
  <2>1. TypeOK'
    <3>1. early' \in BOOLEAN
      BY <1>5 DEF MainConfig
    <3>2. update' \in Nat /\ main' \in {"select", "update"} /\ changed' \in BOOLEAN
      BY <1>5 DEF MainConfig
    <3>3. UNCHANGED <<nodeVars, config, connectedVars, waitErr, nextBase, stage>>
      BY <1>5 DEF MainConfig
    <3> QED
      BY <3>1, <3>2, <3>3
  <2>2. Asked'
    BY <1>5 DEF MainConfig, Asked
  <2>3. Ended'
    BY <1>5 DEF MainConfig, Ended
  <2>4. Reset'
    BY <1>5 DEF MainConfig, Reset
  <2>5. Current'
    BY <1>5 DEF MainConfig, Current, Broken
  <2> QED
    BY <2>1, <2>2, <2>3, <2>4, <2>5
<1>6. CASE MainUpdated
  <2>1. TypeOK'
    BY <1>6 DEF MainUpdated
  <2>2. Asked'
    BY <1>6 DEF MainUpdated, Asked
  <2>3. Ended'
    BY <1>6 DEF MainUpdated, Ended
  <2>4. Reset'
    BY <1>6 DEF MainUpdated, Reset
  <2>5. Current'
    BY <1>6 DEF MainUpdated, Current, Broken
  <2> QED
    BY <2>1, <2>2, <2>3, <2>4, <2>5
<1>7. CASE MainConnected
  <2>1. TypeOK'
    <3>1. nextBase' \in InitialDelay .. MaxDelay
      BY <1>7 DEF MainConnected
    <3>2. connectedCh' \in BOOLEAN /\ connected' \in BOOLEAN
      BY <1>7 DEF MainConnected
    <3>3. UNCHANGED <<nodeVars, main, configVars, connectedSeen, missed, waitErr, stage>>
      BY <1>7 DEF MainConnected
    <3> QED
      BY <3>1, <3>2, <3>3
  <2>2. Reset'
    BY <1>7 DEF MainConnected, Reset
  <2>3. Asked' /\ Ended' /\ Current'
    BY <1>7 DEF MainConnected, Asked, Ended, Current, Broken
  <2> QED
    BY <2>1, <2>2, <2>3
<1>8. CASE MainEnded
  <2>1. TypeOK'
    BY <1>8 DEF MainEnded, Doubled
  <2>2. Asked'
    BY <1>8 DEF MainEnded, Doubled, Asked
  <2>3. Ended'
    BY <1>8 DEF MainEnded, Doubled, Ended
  <2>4. Reset'
    BY <1>8 DEF MainEnded, Doubled, Reset
  <2>5. Current'
    BY <1>8 DEF MainEnded, Doubled, Current, Broken
  <2> QED
    BY <2>1, <2>2, <2>3, <2>4, <2>5
<1>9. CASE BackoffEnds
  <2>1. TypeOK'
    BY <1>9 DEF BackoffEnds
  <2>2. Asked'
    BY <1>9 DEF BackoffEnds, Asked
  <2>3. Ended'
    BY <1>9 DEF BackoffEnds, Ended
  <2>4. Reset'
    BY <1>9 DEF BackoffEnds, Reset
  <2>5. Current'
    BY <1>9 DEF BackoffEnds, Current, Broken
  <2> QED
    BY <2>1, <2>2, <2>3, <2>4, <2>5
<1> QED
  BY <1>1, <1>2, <1>3, <1>4, <1>5, <1>6, <1>7, <1>8, <1>9

(* Changes of the configuration and interrupts.                            *)
LEMMA OutsideIInv ==
  ASSUME IInv, ConfigChange \/ Interrupt \/ ForceStop \/ Kill
  PROVE  IInv'
<1> USE DelayAssumption DEF IInv, TypeOK, Callers, NoList,
        nodeVars, rpcVars, connVars, closeVars, configVars, connectedVars
<1>1. CASE ConfigChange
  <2>1. TypeOK'
    BY <1>1 DEF ConfigChange
  <2>2. Current'
    BY <1>1 DEF ConfigChange, Current, Broken
  <2>3. Asked' /\ Ended' /\ Reset'
    BY <1>1 DEF ConfigChange, Asked, Ended, Reset
  <2> QED
    BY <2>1, <2>2, <2>3
<1>2. CASE Interrupt
  <2>1. TypeOK'
    BY <1>2 DEF Interrupt
  <2>2. Asked'
    BY <1>2 DEF Interrupt, Asked
  <2>3. Ended' /\ Reset' /\ Current'
    BY <1>2 DEF Interrupt, Ended, Reset, Current, Broken
  <2> QED
    BY <2>1, <2>2, <2>3
<1>3. CASE ForceStop
  <2>1. TypeOK'
    BY <1>3 DEF ForceStop
  <2>2. Asked'
    BY <1>3 DEF ForceStop, Asked
  <2>3. Ended'
    BY <1>3 DEF ForceStop, Ended
  <2>4. Current'
    BY <1>3 DEF ForceStop, Current, Broken
  <2>5. Reset'
    BY <1>3 DEF ForceStop, Reset
  <2> QED
    BY <2>1, <2>2, <2>3, <2>4, <2>5
<1>4. CASE Kill
  <2>1. TypeOK'
    BY <1>4 DEF Kill
  <2>2. Asked'
    BY <1>4 DEF Kill, Asked
  <2>3. Ended'
    BY <1>4 DEF Kill, Ended, Asked
  <2>4. Reset'
    BY <1>4 DEF Kill, Reset
  <2>5. Current'
    BY <1>4 DEF Kill, Current, Asked, Broken
  <2> QED
    BY <2>1, <2>2, <2>3, <2>4, <2>5
<1> QED
  BY <1>1, <1>2, <1>3, <1>4

-----------------------------------------------------------------------------
(* Every step preserves the inductive invariant.                           *)
LEMMA NextIInv == IInv /\ [Next]_vars => IInv'
<1> SUFFICES ASSUME IInv, [Next]_vars PROVE IInv'
  OBVIOUS
<1>1. CASE Node
  <2>1. ASSUME NEW c \in Callers, CloseStep(c) PROVE IInv'
    BY <1>1, <2>1, CloseIInv DEF Node, CloseStep
  <2> QED
    BY <1>1, <2>1, RunIInv, StreamIInv DEF Node, NodeStep, RunStep
<1>2. CASE Connect \/ HubUpdate \/ WaitReturns
  BY <1>2, ConnectIInv
<1>3. CASE Main
  BY <1>3, MainIInv DEF Main
<1>4. CASE ConfigChange \/ Interrupt \/ ForceStop \/ Kill
  BY <1>4, OutsideIInv
<1>5. CASE UNCHANGED vars
  BY <1>5 DEF vars, nodeVars, rpcVars, connVars, closeVars, configVars, connectedVars,
              IInv, TypeOK, Asked, Ended, Reset, Current, Broken
<1> QED
  BY <1>1, <1>2, <1>3, <1>4, <1>5 DEF Next

(* IInv holds in every reachable state of cmd/proxynode.                   *)
LEMMA Invariance == Spec => []IInv
BY InitIInv, NextIInv, PTL DEF Spec

(* The variables of Node and NodeMain keep their types, and the delay      *)
(* stays between its initial value and its cap.                            *)
THEOREM TypeCorrect == Spec => []TypeOK
BY Invariance, PTL DEF IInv

(* When nothing is pending the hub holds the whitelist of the current      *)
(* configuration, unless a change came before Hello had returned.          *)
THEOREM WhitelistIsCurrent == Spec => []WhitelistReaches
<1>1. IInv => WhitelistReaches
  BY DEF IInv, TypeOK, Current, WhitelistReaches
<1> QED
  BY <1>1, Invariance, PTL

-----------------------------------------------------------------------------
(* Wait returns without an error, or with that of a local shutdown, only   *)
(* after an interrupt or while the hub's Disconnect is between its flag    *)
(* and its error.                                                          *)
LEMMA WaitAsked ==
  ASSUME IInv, WaitReturns, waitErr' \in {"nil", "ErrShutdown"}
  PROVE  stage # "none" \/ closer["hub"] = "marked"
<1> USE DEF IInv
<1>1. SUFFICES ASSUME stage = "none" PROVE closer["hub"] = "marked"
  BY DEF TypeOK
<1>2. ~ctxDone /\ shutdownErr \notin {"ErrShutdown", "Canceled"} /\ closer["main"] = "idle"
  BY <1>1 DEF Asked
<1>3. run = "done" /\ waitErr' = shutdownErr /\ main # "top"
  BY <1>2 DEF WaitReturns
<1>4. shutdownErr = "nil"
  BY <1>2, <1>3
<1>5. shutdown /\ ~shutdownCh /\ closer["exit"] = "idle"
  BY <1>2, <1>3, <1>4 DEF Ended
<1> QED
  BY <1>2, <1>5 DEF Ended, Callers

(* The loop ends for good only when somebody interrupts it, or a node      *)
(* ended without an error.                                                 *)
THEOREM StopsForCause == Spec => StopsOnlyWhenAsked
<1> DEFINE Cause ==
      /\ waitErr = "none" /\ waitErr' \in {"nil", "ErrShutdown"}
           => stage # "none" \/ closer["hub"] = "marked"
      /\ Stopped' /\ ~Stopped => stage # "none" \/ waitErr = "nil"
<1>1. IInv /\ [Next]_vars => [Cause]_vars
  <2> SUFFICES ASSUME IInv, Next PROVE Cause
    OBVIOUS
  <2>1. CASE WaitReturns
    BY <2>1, WaitAsked DEF WaitReturns, Stopped
  <2>2. CASE MainClosed \/ MainEnded \/ BackoffEnds \/ Kill
    BY <2>2 DEF IInv, TypeOK, Asked, Errors, Stopped, MainClosed, MainEnded, BackoffEnds, Kill
  <2>3. CASE waitErr' = "none" /\ Stopped' = FALSE
    BY <2>3
  <2>4. CASE UNCHANGED <<waitErr, main>>
    BY <2>4 DEF Stopped
  <2>5. CASE Node \/ Connect \/ HubUpdate \/ ConfigChange \/ Interrupt \/ ForceStop
    BY <2>4, <2>5 DEF Node, Alone, Connect, HubUpdate, ConfigChange, Interrupt, ForceStop
  <2>6. CASE Start \/ Hook \/ MainClose \/ MainConfig \/ MainUpdated \/ MainConnected
    BY <2>6 DEF Start, Hook, MainClose, MainConfig, MainUpdated, MainConnected, Stopped
  <2> QED
    BY <2>1, <2>2, <2>5, <2>6 DEF Next, Main
<1> QED
  BY <1>1, Invariance, PTL DEF Spec, StopsOnlyWhenAsked

(* The delay is reset only after a session was established, and always     *)
(* then, whichever channel the loop reads first, unless the session was    *)
(* established before OnConnected was assigned.                            *)
THEOREM BackoffIsJustified == Spec => BackoffJustified
<1> DEFINE Justified ==
      /\ nextBase' < nextBase => session # "none"
      /\ main = "select" /\ main' = "backoff" =>
           nextBase' = Doubled(IF session # "none" /\ ~missed THEN InitialDelay ELSE nextBase)
<1>1. IInv /\ [Next]_vars => [Justified]_vars
  <2> SUFFICES ASSUME IInv, Next PROVE Justified
    OBVIOUS
  <2> USE DelayAssumption DEF IInv, TypeOK
  <2>1. CASE MainConnected
    BY <2>1 DEF MainConnected, Reset
  <2>2. CASE MainEnded
    <3>1. Doubled(nextBase) >= nextBase
      BY DEF Doubled
    <3>2. connected => connectedSeen /\ nextBase = InitialDelay
      BY <2>2 DEF MainEnded, Reset
    <3> DEFINE base == IF connectedSeen THEN InitialDelay ELSE nextBase
    <3>3. /\ main' = "backoff" => nextBase' = Doubled(base)
          /\ nextBase' \in {base, Doubled(base)}
      BY <2>2, <3>2 DEF MainEnded
    <3>4. connectedSeen <=> session # "none" /\ ~missed
      BY DEF Reset
    <3> QED
      BY <3>1, <3>3, <3>4
  <2>3. CASE UNCHANGED nextBase /\ (UNCHANGED main \/ main' # "backoff")
    BY <2>3
  <2>4. CASE Node \/ Connect \/ HubUpdate \/ WaitReturns \/ ConfigChange \/ Interrupt
             \/ ForceStop \/ Kill
    BY <2>3, <2>4 DEF Node, Alone, Connect, HubUpdate, WaitReturns, ConfigChange, Interrupt,
                      ForceStop, Kill
  <2>5. CASE Start \/ Hook \/ MainClose \/ MainClosed \/ MainConfig \/ MainUpdated \/ BackoffEnds
    BY <2>3, <2>5 DEF Start, Hook, MainClose, MainClosed, MainConfig, MainUpdated, BackoffEnds
  <2> QED
    BY <2>1, <2>2, <2>4, <2>5 DEF Next, Main
<1> QED
  BY <1>1, Invariance, PTL DEF Spec, BackoffJustified
=============================================================================
