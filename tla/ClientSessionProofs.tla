------------------------ MODULE ClientSessionProofs ------------------------
(***************************************************************************)
(* Proofs about module ClientSession, for any number of streams: type      *)
(* correctness, that a lost transport is reported, that the locks of the   *)
(* transport exclude, and that whoever waits for controlMu waits for a     *)
(* stream that is being opened.                                            *)
(*                                                                         *)
(* LossIsReported rests on when errors are stored (Stored): before the     *)
(* channel is closed, and that of a caller only after its cause.  The      *)
(* types rest on which headers the hub can read (Headers): ReadHeader of   *)
(* the model has a case for each of them.                                  *)
(***************************************************************************)
EXTENDS ClientSession, TLAPS

Places == {"idle", "lock", "store", "signal", "cleanup", "closing", "await", "over"}
AllHeaders == {None, Control} \union {Tunnel(id) : id \in ProxyIDs}

(* Every variable has its type.                                            *)
TypeOK ==
  /\ up \in [Ends -> BOOLEAN] /\ pc \in [Procs -> Places]
  /\ shutdown \in BOOLEAN /\ shutdownMu \in {"free", "ctx", "user"}
  /\ shutdownErr \in {"nil", "ErrTransportClosed", "Canceled", "ErrShutdown"}
  /\ shutdownCh \in BOOLEAN /\ cleanupOnce \in {"free", "busy", "done"}
  /\ control \in {"nil", "opening", "set"}
  /\ ctxDone \in BOOLEAN /\ result \in {"none", "ok", "error"}
  /\ stream \in [Streams -> {"none", "opened", "sent", "closed"}]
  /\ header \in [Streams -> AllHeaders]
  /\ serve \in {"accepting", "waiting", "returned"}
  /\ handler \in [Streams -> {"none", "reading", "control", "queueing", "done"}]
  /\ controlStreamOpened \in BOOLEAN /\ sessionCtx \in BOOLEAN

(* An error is stored before shutdownCh closes, and each after its cause.  *)
Stored ==
  /\ shutdownCh => shutdownErr # "nil"
  /\ \A p \in Procs : pc[p] = "signal" => shutdownErr # "nil"
  /\ pc["ctx"] # "idle" => ctxDone
  /\ pc["user"] # "idle" => result # "none"
  /\ shutdownErr = "Canceled" => ctxDone
  /\ shutdownErr = "ErrShutdown" => result # "none"

(* A call of CloseWithError that has passed its guard holds shutdownMu,    *)
(* and one goroutine at most is in the Once.                               *)
InClose(p) == pc[p] \in {"store", "signal", "cleanup", "closing", "await"}

Exclusive ==
  /\ \A p \in {"ctx", "user"} : InClose(p) => shutdownMu = p
  /\ \A p \in Procs : pc[p] = "closing" => cleanupOnce = "busy"
  /\ \A p, q \in Procs : pc[p] = "closing" /\ pc[q] = "closing" => p = q

(* controlMu is held exactly while a stream for the control client waits   *)
(* for its header.                                                         *)
Opening ==
  /\ control = "opening" <=> \E s \in Streams : stream[s] = "opened"
  /\ \A s, t \in Streams : stream[s] = "opened" /\ stream[t] = "opened" => s = t

(* The headers a handler can read: none that Validate refuses.             *)
Headers ==
  \A s \in Streams : stream[s] = "sent" /\ handler[s] \in {"none", "reading"} =>
     header[s] \in {Control, Tunnel("known"), Tunnel("unknown")}

IInv == TypeOK /\ Stored /\ Exclusive /\ Opening /\ Headers

-----------------------------------------------------------------------------
(* The initial state satisfies the inductive invariant.                    *)
LEMMA InitIInv == Init => IInv
<1> SUFFICES ASSUME Init PROVE IInv
  OBVIOUS
<1> USE DEF Init
<1>1. TypeOK
  <2>1. header \in [Streams -> AllHeaders] /\ pc \in [Procs -> Places] /\ up \in [Ends -> BOOLEAN]
    BY DEF AllHeaders, Places
  <2> QED
    BY <2>1 DEF TypeOK
<1>2. Stored
  BY DEF Stored, Procs
<1>3. Exclusive /\ Opening /\ Headers
  BY DEF Exclusive, InClose, Opening, Headers, Procs
<1> QED
  BY <1>1, <1>2, <1>3 DEF IInv

(* run and the two calls of CloseWithError.                                *)
LEMMA StepIInv ==
  ASSUME IInv, NEW p \in Procs, Step(p)
  PROVE  IInv'
<1> USE DEF IInv, TypeOK, Procs, Goto, closeVars, cmdVars, streamVars, hubVars
<1>1. CASE Store(p)
  <2>1. ErrorOf(p) \in {"ErrTransportClosed", "Canceled", "ErrShutdown"}
    BY DEF ErrorOf
  <2>2. TypeOK'
    BY <1>1, <2>1 DEF Store, Places
  <2>3. Stored'
    BY <1>1, <2>1 DEF Store, ErrorOf, Stored
  <2>4. Exclusive'
    BY <1>1 DEF Store, Exclusive, InClose
  <2>5. Opening' /\ Headers'
    BY <1>1 DEF Store, Opening, Headers
  <2> QED
    BY <2>2, <2>3, <2>4, <2>5
<1>2. CASE closeShutdownCh(p)
  <2>1. TypeOK'
    BY <1>2 DEF closeShutdownCh, Places
  <2>2. Stored'
    BY <1>2 DEF closeShutdownCh, Stored
  <2>3. Exclusive'
    BY <1>2 DEF closeShutdownCh, Exclusive, InClose
  <2>4. Opening' /\ Headers'
    BY <1>2 DEF closeShutdownCh, Opening, Headers
  <2> QED
    BY <2>1, <2>2, <2>3, <2>4
<1>3. CASE CleanupControl(p)
  <2>1. TypeOK'
    BY <1>3 DEF CleanupControl, Places
  <2>2. Stored'
    BY <1>3 DEF CleanupControl, Stored
  <2>3. Exclusive'
    BY <1>3 DEF CleanupControl, Exclusive, InClose
  <2>4. Opening' /\ Headers'
    BY <1>3 DEF CleanupControl, Opening, Headers
  <2> QED
    BY <2>1, <2>2, <2>3, <2>4
<1>4. CASE CleanupSession(p)
  <2>1. TypeOK'
    <3>1. pc' \in [Procs -> Places]
      BY <1>4 DEF CleanupSession, AfterCleanup, Places
    <3>2. up' \in [Ends -> BOOLEAN] /\ cleanupOnce' = "done"
      BY <1>4 DEF CleanupSession, Ends
    <3> QED
      BY <1>4, <3>1, <3>2 DEF CleanupSession
  <2>2. Stored'
    BY <1>4 DEF CleanupSession, AfterCleanup, Stored
  <2>3. Exclusive'
    BY <1>4 DEF CleanupSession, AfterCleanup, Exclusive, InClose
  <2>4. Opening' /\ Headers'
    BY <1>4 DEF CleanupSession, Opening, Headers
  <2> QED
    BY <2>1, <2>2, <2>3, <2>4
<1>5. CASE CleanupDone(p)
  <2>1. TypeOK'
    BY <1>5 DEF CleanupDone, AfterCleanup, Places
  <2>2. Stored'
    BY <1>5 DEF CleanupDone, AfterCleanup, Stored
  <2>3. Exclusive'
    BY <1>5 DEF CleanupDone, AfterCleanup, Exclusive, InClose
  <2>4. Opening' /\ Headers'
    BY <1>5 DEF CleanupDone, Opening, Headers
  <2> QED
    BY <2>1, <2>2, <2>3, <2>4
<1> QED
  BY <1>1, <1>2, <1>3, <1>4, <1>5 DEF Step

(* Entering and leaving CloseWithError, and noticing that one has to.      *)
LEMMA LockIInv ==
  ASSUME IInv, NEW p \in {"ctx", "user"}, Lock(p) \/ Unlock(p) \/ Notice \/ CtxCloses
  PROVE  IInv'
<1> USE DEF IInv, TypeOK, Procs, Goto, closeVars, cmdVars, streamVars, hubVars
<1>1. CASE Lock(p)
  <2>1. TypeOK'
    BY <1>1 DEF Lock, Places
  <2>2. Stored'
    BY <1>1 DEF Lock, Stored
  <2>3. Exclusive'
    BY <1>1 DEF Lock, Exclusive, InClose
  <2>4. Opening' /\ Headers'
    BY <1>1 DEF Lock, Opening, Headers
  <2> QED
    BY <2>1, <2>2, <2>3, <2>4
<1>2. CASE Unlock(p)
  <2>1. TypeOK'
    BY <1>2 DEF Unlock, Places
  <2>2. Stored'
    BY <1>2 DEF Unlock, Stored
  <2>3. Exclusive'
    BY <1>2 DEF Unlock, Exclusive, InClose
  <2>4. Opening' /\ Headers'
    BY <1>2 DEF Unlock, Opening, Headers
  <2> QED
    BY <2>1, <2>2, <2>3, <2>4
<1>3. CASE Notice \/ CtxCloses
  <2>1. TypeOK'
    BY <1>3 DEF Notice, CtxCloses, Places
  <2>2. Stored'
    BY <1>3 DEF Notice, CtxCloses, Stored
  <2>3. Exclusive'
    BY <1>3 DEF Notice, CtxCloses, Exclusive, InClose
  <2>4. Opening' /\ Headers'
    BY <1>3 DEF Notice, CtxCloses, Opening, Headers
  <2> QED
    BY <2>1, <2>2, <2>3, <2>4
<1> QED
  BY <1>1, <1>2, <1>3

(* The proxy command.                                                      *)
LEMMA CommandIInv ==
  ASSUME IInv, Interrupt \/ CommandEnds \/ AcceptFails
  PROVE  IInv'
<1> USE DEF IInv, TypeOK, Procs, Goto, TunnelClose, closeVars, streamVars, hubVars
<1>1. CASE Interrupt
  BY <1>1 DEF Interrupt, Stored, Exclusive, InClose, Opening, Headers
<1>2. CASE LoopBreaks
  <2>1. TypeOK'
    BY <1>2 DEF LoopBreaks, Places
  <2>2. Stored'
    BY <1>2 DEF LoopBreaks, Stored
  <2>3. Exclusive'
    BY <1>2 DEF LoopBreaks, Stored, Exclusive, InClose
  <2>4. Opening' /\ Headers'
    BY <1>2 DEF LoopBreaks, Opening, Headers
  <2> QED
    BY <2>1, <2>2, <2>3, <2>4
<1> QED
  BY <1>1, <1>2 DEF CommandEnds, AcceptFails

-----------------------------------------------------------------------------
(* A header that WriteHeader lets through is one the hub has a case for.   *)
LEMMA WritableHeaders ==
  /\ Writable(Control) /\ Control \in AllHeaders /\ None \in AllHeaders
  /\ \A id \in ProxyIDs : /\ Tunnel(id) \in AllHeaders
                          /\ Writable(Tunnel(id)) => id \in {"known", "unknown"}
BY DEF Writable, Control, Tunnel, None, AllHeaders, ProxyIDs

(* The client's streams.                                                   *)
LEMMA OpenIInv ==
  ASSUME IInv, NEW s \in Streams, NEW id \in ProxyIDs,
         OpenControl(s) \/ ControlOpened(s) \/ OpenTunnel(s, id)
  PROVE  IInv'
<1> USE DEF IInv
<1>1. UNCHANGED <<up, pc, closeVars, cmdVars, hubVars>>
  BY DEF OpenControl, ControlOpened, OpenTunnel
<1>2. Stored' /\ Exclusive'
  BY <1>1 DEF Stored, Exclusive, InClose, closeVars, cmdVars
<1>3. CASE OpenControl(s)
  <2>1. TypeOK'
    BY <1>1, <1>3 DEF OpenControl, TypeOK, closeVars, cmdVars, hubVars
  <2>2. Opening'
    BY <1>3 DEF OpenControl, TypeOK, Opening
  <2>3. Headers'
    BY <1>1, <1>3 DEF OpenControl, TypeOK, Headers, hubVars
  <2> QED
    BY <1>2, <2>1, <2>2, <2>3
<1>4. CASE ControlOpened(s)
  <2>1. \/ /\ stream' = [stream EXCEPT ![s] = "sent"] /\ control' = "set"
           /\ header' = [header EXCEPT ![s] = Control]
        \/ /\ stream' = [stream EXCEPT ![s] = "closed"] /\ control' = "nil"
           /\ header' = header
    BY <1>4, WritableHeaders DEF ControlOpened, WriteHeader
  <2>2. TypeOK'
    <3>1. stream' \in [Streams -> {"none", "opened", "sent", "closed"}]
      BY <2>1 DEF TypeOK
    <3>2. header' \in [Streams -> AllHeaders]
      BY <2>1, WritableHeaders DEF TypeOK
    <3> QED
      BY <1>1, <2>1, <3>1, <3>2 DEF TypeOK, closeVars, cmdVars, hubVars
  <2>3. Opening'
    BY <1>4, <2>1 DEF ControlOpened, TypeOK, Opening
  <2>4. Headers'
    BY <1>1, <2>1 DEF TypeOK, Headers, hubVars
  <2> QED
    BY <1>2, <2>2, <2>3, <2>4
<1>5. CASE OpenTunnel(s, id)
  <2>1. /\ stream[s] = "none" /\ control' = control
        /\ \/ /\ id \in {"known", "unknown"}
              /\ stream' = [stream EXCEPT ![s] = "sent"]
              /\ header' = [header EXCEPT ![s] = Tunnel(id)]
           \/ /\ stream' = [stream EXCEPT ![s] = "closed"]
              /\ header' = [header EXCEPT ![s] = None]
    BY <1>5, WritableHeaders DEF OpenTunnel, NextUnopened, WriteHeader
  <2>2. TypeOK'
    <3>1. stream' \in [Streams -> {"none", "opened", "sent", "closed"}]
      BY <2>1 DEF TypeOK
    <3>2. header' \in [Streams -> AllHeaders]
      BY <2>1, WritableHeaders DEF TypeOK
    <3> QED
      BY <1>1, <2>1, <3>1, <3>2 DEF TypeOK, closeVars, cmdVars, hubVars
  <2>3. Opening'
    BY <2>1 DEF TypeOK, Opening
  <2>4. Headers'
    BY <1>1, <2>1 DEF TypeOK, Headers, hubVars
  <2> QED
    BY <1>2, <2>2, <2>3, <2>4
<1> QED
  BY <1>3, <1>4, <1>5

(* The goroutines of the hub's streams.                                    *)
LEMMA HandlerIInv ==
  ASSUME IInv, NEW s \in Streams,
         Accept(s) \/ ReadHeader(s) \/ ServeControl(s) \/ HandlerCloses(s) \/ ProxyTakes(s)
  PROVE  IInv'
<1> USE DEF IInv
<1>1. UNCHANGED <<up, pc, closeVars, control, cmdVars, serve, sessionCtx>>
  BY DEF Accept, ReadHeader, ServeControl, HandlerCloses, ProxyTakes
<1>2. Stored' /\ Exclusive'
  BY <1>1 DEF Stored, Exclusive, InClose, closeVars, cmdVars
<1>3. CASE Accept(s) \/ ServeControl(s) \/ ProxyTakes(s)
  <2>1. TypeOK'
    BY <1>1, <1>3 DEF Accept, ServeControl, ProxyTakes, TypeOK, closeVars, cmdVars, streamVars
  <2>2. Opening'
    BY <1>1, <1>3 DEF Accept, ServeControl, ProxyTakes, Opening, streamVars
  <2>3. Headers'
    BY <1>3 DEF Accept, ServeControl, ProxyTakes, TypeOK, Headers, streamVars
  <2> QED
    BY <1>2, <2>1, <2>2, <2>3
<1>4. CASE ReadHeader(s) \/ HandlerCloses(s)
  <2>1. Rejects(s) \/ Enters(s, "control") \/ Enters(s, "queueing")
    <3>1. ReadHeader(s) => header[s] \in {Control, Tunnel("known"), Tunnel("unknown")}
      BY DEF ReadHeader, Headers
    <3>2. Control # Tunnel("known") /\ Control # Tunnel("unknown") /\ Tunnel("known") # Tunnel("unknown")
      BY DEF Control, Tunnel
    <3> QED
      BY <1>4, <3>1, <3>2 DEF ReadHeader, HandlerCloses
  <2>2. /\ header' = [header EXCEPT ![s] = None]
        /\ handler' = [handler EXCEPT ![s] = "done"] \/ handler' = [handler EXCEPT ![s] = "control"]
           \/ handler' = [handler EXCEPT ![s] = "queueing"]
    BY <2>1 DEF Rejects, Enters
  <2>3. /\ stream' = stream \/ stream' = [stream EXCEPT ![s] = IF @ = "opened" THEN @ ELSE "closed"]
        /\ controlStreamOpened' \in BOOLEAN
    BY <2>1 DEF Rejects, Enters, TypeOK
  <2>4. TypeOK'
    <3>1. stream' \in [Streams -> {"none", "opened", "sent", "closed"}]
      BY <2>3 DEF TypeOK
    <3>2. header' \in [Streams -> AllHeaders]
      BY <2>2, WritableHeaders DEF TypeOK
    <3>3. handler' \in [Streams -> {"none", "reading", "control", "queueing", "done"}]
      BY <2>2 DEF TypeOK
    <3> QED
      BY <1>1, <2>3, <3>1, <3>2, <3>3 DEF TypeOK, closeVars, cmdVars
  <2>5. Opening'
    BY <1>1, <2>3 DEF TypeOK, Opening
  <2>6. Headers'
    BY <2>2, <2>3 DEF TypeOK, Headers
  <2> QED
    BY <1>2, <2>4, <2>5, <2>6
<1> QED
  BY <1>3, <1>4

(* The session and HandleSession.                                          *)
LEMMA HubIInv ==
  ASSUME IInv, NEW e \in Ends, SessionDies(e) \/ HubStep
  PROVE  IInv'
<1> USE DEF IInv, closeVars, cmdVars, streamVars, hubVars
<1>1. UNCHANGED <<pc, closeVars, control, cmdVars, streamVars, handler, controlStreamOpened>>
  BY DEF SessionDies, HubStep, CancelSession, shutdownSession, AcceptEnds, HandleSessionReturns
<1>2. TypeOK'
  <2>1. up' \in [Ends -> BOOLEAN]
    BY DEF TypeOK, SessionDies, HubStep, CancelSession, shutdownSession, AcceptEnds,
           HandleSessionReturns
  <2>2. serve' \in {"accepting", "waiting", "returned"} /\ sessionCtx' \in BOOLEAN
    BY DEF TypeOK, SessionDies, HubStep, CancelSession, shutdownSession, AcceptEnds,
           HandleSessionReturns
  <2> QED
    BY <1>1, <2>1, <2>2 DEF TypeOK
<1>3. Stored' /\ Exclusive'
  BY <1>1 DEF Stored, Exclusive, InClose
<1>4. Opening' /\ Headers'
  BY <1>1 DEF Opening, Headers
<1> QED
  BY <1>2, <1>3, <1>4

-----------------------------------------------------------------------------
(* Every step preserves the inductive invariant.                           *)
LEMMA NextIInv == IInv /\ [Next]_vars => IInv'
<1> SUFFICES ASSUME IInv, [Next]_vars PROVE IInv'
  OBVIOUS
<1>1. CASE Notice \/ CtxCloses
  BY <1>1, LockIInv
<1>2. CASE Step("run")
  BY <1>2, StepIInv DEF Procs
<1>3. ASSUME NEW p \in {"ctx", "user"}, Closing(p) PROVE IInv'
  BY <1>3, LockIInv, StepIInv DEF Closing, Procs
<1>4. CASE Interrupt \/ AcceptFails \/ CommandEnds
  BY <1>4, CommandIInv
<1>5. CASE HubStep \/ \E e \in Ends : SessionDies(e)
  BY <1>5, HubIInv DEF Ends
<1>6. ASSUME NEW s \in Streams,
             OpenControl(s) \/ ControlOpened(s) \/ \E id \in ProxyIDs : OpenTunnel(s, id)
      PROVE  IInv'
  BY <1>6, OpenIInv DEF ProxyIDs
<1>7. ASSUME NEW s \in Streams,
             Accept(s) \/ ReadHeader(s) \/ ServeControl(s) \/ HandlerCloses(s) \/ ProxyTakes(s)
      PROVE  IInv'
  BY <1>7, HandlerIInv
<1>8. CASE UNCHANGED vars
  BY <1>8 DEF vars, closeVars, cmdVars, streamVars, hubVars, IInv, TypeOK, Stored,
              Exclusive, InClose, Opening, Headers
<1> QED
  BY <1>1, <1>2, <1>3, <1>4, <1>5, <1>6, <1>7, <1>8 DEF Next

(* IInv holds in every reachable state of the session.                     *)
LEMMA Invariance == Spec => []IInv
BY InitIInv, NextIInv, PTL DEF Spec

(* The variables of ClientSession keep their types: in particular, every   *)
(* header a handler reads is one the hub has a case for.                   *)
THEOREM TypeCorrect == Spec => [](TypeOK /\ Headers)
BY Invariance, PTL DEF IInv

(* Only the end of the proxy command sets its result.                      *)
LEMMA ResultSetAtEnd == [Next]_vars => LoopBreaks \/ UNCHANGED result
<1> SUFFICES ASSUME [Next]_vars PROVE LoopBreaks \/ UNCHANGED result
  OBVIOUS
<1> USE DEF cmdVars
<1>1. ASSUME NEW p \in Procs, Step(p) \/ Closing(p) PROVE UNCHANGED result
  BY <1>1 DEF Closing, Step, Lock, Unlock, Store, closeShutdownCh, CleanupControl, CleanupSession,
              CleanupDone
<1>2. CASE Notice \/ CtxCloses \/ Interrupt \/ HubStep \/ \E e \in Ends : SessionDies(e)
  BY <1>2 DEF Notice, CtxCloses, Interrupt, SessionDies, HubStep, CancelSession, shutdownSession,
              AcceptEnds, HandleSessionReturns
<1>3. CASE AcceptFails \/ CommandEnds
  BY <1>3 DEF AcceptFails, CommandEnds
<1>4. ASSUME NEW s \in Streams,
             \/ OpenControl(s) \/ \E id \in ProxyIDs : OpenTunnel(s, id)
             \/ ControlOpened(s) \/ Accept(s) \/ ReadHeader(s) \/ ServeControl(s)
             \/ HandlerCloses(s) \/ ProxyTakes(s)
      PROVE  UNCHANGED result
  BY <1>4 DEF OpenControl, OpenTunnel, ControlOpened, Accept, ReadHeader, ServeControl,
              HandlerCloses, ProxyTakes
<1>5. CASE UNCHANGED vars
  BY <1>5 DEF vars
<1> QED
  BY <1>1, <1>2, <1>3, <1>4, <1>5 DEF Next, Procs

(* The proxy command reports success only when it was interrupted or while *)
(* shutdownCh was open, so never for a transport whose loss has been       *)
(* signalled: at its end the error is there, and is not its own.           *)
THEOREM LossReported == Spec => LossIsReported
<1>1. ASSUME IInv, LoopBreaks, result' = "ok" PROVE ctxDone \/ ~shutdownCh
  BY <1>1 DEF IInv, TypeOK, Stored, LoopBreaks
<1>2. IInv /\ [Next]_vars => [result = "none" /\ result' = "ok" => ctxDone \/ ~shutdownCh]_vars
  BY <1>1, ResultSetAtEnd
<1> QED
  BY Invariance, <1>2, PTL DEF Spec, LossIsReported

(* Two calls of CloseWithError are never both past its guard, two          *)
(* goroutines never both in cleanup's Once, and controlMu is held exactly  *)
(* while a stream waits for its header, one at a time (CloseWithError,     *)
(* cleanup, ensureControlClient).                                          *)
THEOREM LocksExclude == Spec => [](Exclusive /\ Opening)
BY Invariance, PTL DEF IInv
=============================================================================
