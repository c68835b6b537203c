---------------------------- MODULE ProxyProofs ----------------------------
(***************************************************************************)
(* Proofs about module Proxy, for any set of callers of CloseWithError and *)
(* any finite set of connections: type correctness, the three safety       *)
(* invariants, and the implementation of ProxyLife.                        *)
(*                                                                         *)
(* The inductive invariant adds to TypeOK that one caller at most is past  *)
(* the flag and how far it has come (OneCloser), and that the WaitGroup    *)
(* counts the connections being served (Counted).                          *)
(***************************************************************************)
EXTENDS Proxy, FiniteSetTheorems, TLAPS

Past == {"marked", "errSet", "signalled"}

OneCloser ==
  /\ \A k \in Callers : closer[k] \in Past => shutdown /\ ~closedCh
  /\ \A j, k \in Callers : closer[j] \in Past /\ closer[k] \in Past => j = k
  /\ \A k \in Callers : closer[k] \in {"marked", "errSet"} => ~shutdownCh
  /\ \A k \in Callers : closer[k] = "signalled" => shutdownCh
  /\ \A k \in Callers : closer[k] = "errSet" => shutdownErr # "nil"
  /\ shutdownCh => shutdown /\ shutdownErr # "nil"
  /\ closedCh => shutdownCh /\ run = "done"
  /\ ~panicked

Counted ==
  /\ wg = Cardinality(Active)
  /\ run \in {"closing", "done"} => Active = {} \/ ctxDone

IInv == TypeOK /\ OneCloser /\ Counted

-----------------------------------------------------------------------------
(* The connections being served are finitely many.                         *)
LEMMA ActiveFinite ==
  IsFiniteSet(Active) /\ Cardinality(Active) \in 0 .. Cardinality(Conns)
<1>1. Active \in SUBSET Conns
  BY DEF Active
<1>2. IsFiniteSet(Conns) /\ Cardinality(Conns) \in Nat
  BY ConnsAssumption, FS_CardinalityType
<1>3. IsFiniteSet(Active) /\ Cardinality(Active) <= Cardinality(Conns)
  BY <1>1, <1>2, FS_Subset
<1>4. Cardinality(Active) \in Nat
  BY <1>3, FS_CardinalityType
<1> QED
  BY <1>2, <1>3, <1>4

(* The initial state satisfies the inductive invariant.                    *)
LEMMA InitIInv == Init => IInv
<1> SUFFICES ASSUME Init PROVE IInv
  OBVIOUS
<1>1. Active = {}
  BY DEF Init, Active
<1>2. Cardinality(Active) = 0 /\ Cardinality(Conns) \in Nat
  BY <1>1, FS_EmptySet, ConnsAssumption, FS_CardinalityType
<1>3. TypeOK
  <2>1. wg \in 0 .. Cardinality(Conns)
    BY <1>2 DEF Init
  <2>2. closer \in [Callers -> {"unborn", "idle", "marked", "errSet", "signalled", "returned"}]
    BY DEF Init
  <2>3. conn \in [Conns -> {"idle", "queued", "opening", "bridging", "closed",
                            "refused", "cancelled"}]
    BY DEF Init
  <2> QED
    BY <2>1, <2>2, <2>3 DEF Init, TypeOK
<1>4. OneCloser
  BY DEF Init, OneCloser, Past, Callers
<1> QED
  BY <1>1, <1>2, <1>3, <1>4 DEF IInv, Counted, Init

(* A step that touches no connection keeps the count.                      *)
LEMMA SameConns ==
  ASSUME Counted, conn' = conn, wg' = wg, ctxDone \in BOOLEAN,
         ctxDone => ctxDone',
         run' \in {"closing", "done"} => run \in {"closing", "done"} \/ wg = 0 \/ ctxDone
  PROVE  Counted'
<1>1. Active' = Active
  BY DEF Active
<1>2. wg = 0 => Active = {}
  BY ActiveFinite, FS_EmptySet DEF Counted
<1> QED
  BY <1>1, <1>2 DEF Counted

(* The argument of CloseWithError is an error.                             *)
LEMMA ErrArgType == \A k \in Callers : ErrArg(k) \in Errors /\ ErrArg(k) # "nil"
BY ErrOfAssumption DEF ErrArg, Callers, Errors, CallErrors

-----------------------------------------------------------------------------
(* Every step of CloseWithError preserves the invariant.                   *)
LEMMA CloseIInv ==
  ASSUME IInv, NEW k \in Callers, CloseWithError(k)
  PROVE  IInv'
<1> USE DEF IInv
<1>1. CASE CloseMark(k)
  <2>1. TypeOK'
    BY <1>1 DEF TypeOK, CloseMark, envVars
  <2>2. OneCloser'
    BY <1>1 DEF TypeOK, OneCloser, Past, CloseMark, envVars
  <2>3. Counted'
    BY <1>1, SameConns DEF CloseMark, envVars, TypeOK
  <2> QED
    BY <2>1, <2>2, <2>3
<1>2. CASE CloseErr(k)
  <2>1. TypeOK'
    BY <1>2, ErrArgType DEF TypeOK, CloseErr, envVars
  <2>2. OneCloser'
    BY <1>2, ErrArgType DEF TypeOK, OneCloser, Past, CloseErr, envVars
  <2>3. Counted'
    BY <1>2, SameConns DEF CloseErr, envVars, TypeOK
  <2> QED
    BY <2>1, <2>2, <2>3
<1>3. CASE CloseSignal(k)
  <2>1. TypeOK'
    BY <1>3 DEF TypeOK, CloseSignal, envVars
  <2>2. OneCloser'
    BY <1>3 DEF TypeOK, OneCloser, Past, CloseSignal, envVars
  <2>3. Counted'
    BY <1>3, SameConns DEF CloseSignal, envVars, TypeOK
  <2> QED
    BY <2>1, <2>2, <2>3
<1>4. CASE CloseWait(k)
  <2>1. TypeOK'
    BY <1>4 DEF TypeOK, CloseWait, envVars
  <2>2. OneCloser'
    BY <1>4 DEF TypeOK, OneCloser, Past, CloseWait, envVars
  <2>3. Counted'
    BY <1>4, SameConns DEF CloseWait, envVars, TypeOK
  <2> QED
    BY <2>1, <2>2, <2>3
<1> QED
  BY <1>1, <1>2, <1>3, <1>4 DEF CloseWithError

(* exitErr preserves what is said about closing, whatever run does.        *)
LEMMA ExitErrOneCloser ==
  ASSUME TypeOK, OneCloser, NEW e \in Errors, exitErr(e), run' = run \/ run' = "done"
  PROVE  /\ OneCloser'
         /\ shutdownErr' \in Errors \union {"nil"}
         /\ closer' \in [Callers -> {"unborn", "idle", "marked", "errSet", "signalled", "returned"}]
<1>1. e # "nil"
  BY DEF Errors, CallErrors
<1> QED
  BY <1>1 DEF TypeOK, OneCloser, Past, exitErr, Callers

(* Every step of run preserves the invariant.                              *)
LEMMA RunIInv == ASSUME IInv, Run PROVE IInv'
<1> USE DEF IInv
<1>1. CASE RunReady
  <2>1. TypeOK' /\ OneCloser'
    BY <1>1 DEF TypeOK, OneCloser, Past, RunReady, envVars, closeVars
  <2>2. Counted'
    BY <1>1, SameConns DEF RunReady, envVars, TypeOK
  <2> QED
    BY <2>1, <2>2
<1>2. CASE RunBreak
  <2>1. TypeOK' /\ OneCloser'
    BY <1>2 DEF TypeOK, OneCloser, Past, RunBreak, envVars, closeVars
  <2>2. Counted'
    BY <1>2, SameConns DEF RunBreak, envVars, TypeOK
  <2> QED
    BY <2>1, <2>2
<1>3. CASE RunSessionClosed
  <2>1. OneCloser' /\ TypeOK'
    BY <1>3, ExitErrOneCloser DEF RunSessionClosed, envVars, TypeOK, exitErr, Errors
  <2>2. Counted'
    BY <1>3, SameConns DEF RunSessionClosed, envVars, TypeOK
  <2> QED
    BY <2>1, <2>2
<1>4. CASE RunDrained
  <2>1. TypeOK' /\ OneCloser'
    BY <1>4 DEF TypeOK, OneCloser, Past, RunDrained, envVars, closeVars
  <2>2. Counted'
    BY <1>4, SameConns DEF RunDrained, envVars, TypeOK
  <2> QED
    BY <2>1, <2>2
<1>5. CASE RunSessionClose
  <2>1. Counted'
    BY <1>5, SameConns DEF RunSessionClose, TypeOK
  <2>2. CASE UNCHANGED closeVars
    BY <1>5, <2>1, <2>2 DEF TypeOK, OneCloser, Past, RunSessionClose, closeVars
  <2>3. CASE exitErr("sessionCloseFailed")
    <3>1. run' = "done" /\ "sessionCloseFailed" \in Errors
      BY <1>5 DEF RunSessionClose, Errors
    <3> QED
      BY <1>5, <2>1, <2>3, <3>1, ExitErrOneCloser DEF RunSessionClose, TypeOK, exitErr
  <2> QED
    BY <1>5, <2>2, <2>3 DEF RunSessionClose
<1>6. ASSUME NEW c \in Conns, RunConn(c) PROVE IInv'
  <2>1. c \notin Active /\ Active' = Active \cup {c}
    BY <1>6 DEF RunConn, Active, TypeOK
  <2>2. Cardinality(Active') = Cardinality(Active) + 1
    BY <2>1, ActiveFinite, FS_AddElement
  <2>3. wg' = Cardinality(Active')
    BY <1>6, <2>2 DEF RunConn, Counted
  <2>4. Active' \in SUBSET Conns
    BY DEF Active
  <2>5. wg' \in 0 .. Cardinality(Conns)
    <3>1. Cardinality(Conns) \in Nat /\ Cardinality(Active') <= Cardinality(Conns)
      BY <2>4, ConnsAssumption, FS_CardinalityType, FS_Subset
    <3> QED
      BY <2>2, <2>3, <3>1, ActiveFinite
  <2>6. TypeOK' /\ OneCloser'
    BY <1>6, <2>5 DEF TypeOK, OneCloser, Past, RunConn, envVars, closeVars
  <2>7. Counted'
    BY <1>6, <2>3 DEF Counted, RunConn
  <2> QED
    BY <2>6, <2>7
<1> QED
  BY <1>1, <1>2, <1>3, <1>4, <1>5, <1>6 DEF Run

(* Every step of a connection preserves the invariant.                     *)
LEMMA ConnIInv ==
  ASSUME IInv, NEW c \in Conns, Connection(c)
  PROVE  IInv'
<1> USE DEF IInv
<1>1. run' = run /\ UNCHANGED envVars /\ UNCHANGED closeVars
  BY DEF Connection, QueueConn, QueueConnRefused, QueueConnCancelled, OpenStream,
         BridgeEnd, connFrame
<1>2. OneCloser'
  BY <1>1 DEF OneCloser, Past, closeVars
<1>3. CASE wg' = wg /\ Active' = Active
  <2>1. TypeOK'
    BY <1>1, <1>3 DEF TypeOK, envVars, closeVars, Connection, QueueConn,
       QueueConnRefused, QueueConnCancelled, OpenStream, BridgeEnd
  <2>2. Counted'
    BY <1>1, <1>3 DEF Counted, envVars
  <2> QED
    BY <1>2, <2>1, <2>2
<1>4. CASE c \in Active /\ conn' = [conn EXCEPT ![c] = "closed"] /\ wg' = wg - 1
  <2>1. Active' = Active \ {c}
    BY <1>4 DEF Active, TypeOK
  <2>2. Cardinality(Active') = Cardinality(Active) - 1
    BY <1>4, <2>1, ActiveFinite, FS_RemoveElement
  <2>3. wg' = Cardinality(Active')
    BY <1>4, <2>2 DEF Counted
  <2>4. Cardinality(Active') \in Nat
    BY <2>1, ActiveFinite, FS_RemoveElement, FS_CardinalityType
  <2>5. wg' \in 0 .. Cardinality(Conns)
    <3>1. Cardinality(Conns) \in Nat
      BY ConnsAssumption, FS_CardinalityType
    <3> QED
      BY <2>3, <2>4, <3>1, <1>4 DEF TypeOK
  <2>6. TypeOK'
    BY <1>1, <1>4, <2>5 DEF TypeOK, envVars, closeVars
  <2>7. Counted'
    BY <1>1, <2>1, <2>3 DEF Counted, envVars
  <2> QED
    BY <1>2, <2>6, <2>7
<1>5. \/ wg' = wg /\ Active' = Active
      \/ c \in Active /\ conn' = [conn EXCEPT ![c] = "closed"] /\ wg' = wg - 1
  BY DEF Connection, QueueConn, QueueConnRefused, QueueConnCancelled, OpenStream,
         BridgeEnd, Active, TypeOK
<1> QED
  BY <1>3, <1>4, <1>5

(* The invariant is inductive.                                             *)
LEMMA NextIInv == IInv /\ [Next]_vars => IInv'
<1> SUFFICES ASSUME IInv, [Next]_vars PROVE IInv'
  OBVIOUS
<1>1. CASE Hello \/ SessionDies \/ CtxDone
  <2>1. TypeOK' /\ OneCloser'
    <3>1. TypeOK'
      BY <1>1 DEF IInv, TypeOK, Hello, SessionDies, CtxDone, closeVars
    <3>2. OneCloser'
      BY <1>1 DEF IInv, OneCloser, Past, Hello, SessionDies, CtxDone, closeVars
    <3> QED
      BY <3>1, <3>2
  <2>2. Counted'
    BY <1>1, SameConns DEF IInv, Hello, SessionDies, CtxDone, TypeOK
  <2> QED
    BY <2>1, <2>2 DEF IInv
<1>2. CASE Run
  BY <1>2, RunIInv
<1>3. ASSUME NEW k \in Callers, CloseWithError(k) PROVE IInv'
  BY <1>3, CloseIInv
<1>4. ASSUME NEW c \in Conns, Connection(c) PROVE IInv'
  BY <1>4, ConnIInv
<1>5. CASE UNCHANGED vars
  <2>1. TypeOK' /\ OneCloser'
    BY <1>5 DEF IInv, TypeOK, OneCloser, Past, vars
  <2>2. Counted'
    BY <1>5, SameConns DEF IInv, vars, TypeOK
  <2> QED
    BY <2>1, <2>2 DEF IInv
<1> QED
  BY <1>1, <1>2, <1>3, <1>4, <1>5 DEF Next

-----------------------------------------------------------------------------
(* The inductive invariant holds in every reachable state.                 *)
THEOREM Invariance == Spec => []IInv
BY InitIInv, NextIInv, PTL DEF Spec

(* Every variable of a Proxy keeps its type and the WaitGroup never goes   *)
(* negative, for any number of callers and connections.                    *)
THEOREM TypeCorrect == Spec => []TypeOK
<1>1. IInv => TypeOK
  BY DEF IInv
<1> QED
  BY <1>1, Invariance, PTL

(* No channel of a Proxy is closed twice, however many goroutines call     *)
(* CloseWithError at once.                                                 *)
THEOREM ClosesOnce == Spec => []NoDoubleClose
<1>1. IInv => NoDoubleClose
  BY DEF IInv, OneCloser, NoDoubleClose
<1> QED
  BY <1>1, Invariance, PTL

(* QueueConn never answers nil for a connection it refused.                *)
THEOREM RefusesWithError == Spec => []RefusalHasError
<1>1. IInv => RefusalHasError
  BY DEF IInv, OneCloser, RefusalHasError
<1> QED
  BY <1>1, Invariance, PTL

(* The session is closed, and Wait returns, only after every connection    *)
(* has been served, unless the process is being torn down.                 *)
THEOREM DrainsFirst == Spec => []DrainedBeforeClose
<1>1. IInv => DrainedBeforeClose
  BY DEF IInv, OneCloser, Counted, DrainedBeforeClose
<1> QED
  BY <1>1, Invariance, PTL

-----------------------------------------------------------------------------
(* Refinement: what every step of Proxy is at the level of ProxyLife.      *)

(* The initial states map to initial states.                               *)
LEMMA LifeInit == Init => Life!Init
<1> SUFFICES ASSUME Init PROVE Life!Init
  OBVIOUS
<1>1. Active = {}
  BY DEF Init, Active
<1> QED
  BY <1>1 DEF Init, Life!Init, life

(* Recording an error is Fail, or a stutter when there was one already.    *)
LEMMA LifeError ==
  ASSUME TypeOK, NEW e \in Errors,
         shutdownErr' = (IF shutdownErr = "nil" THEN e ELSE shutdownErr),
         conn' = conn, shutdownCh' = shutdownCh, closedCh' = closedCh, ctxDone' = ctxDone
  PROVE  [Life!Next]_Life!vars
<1>1. Active' = Active /\ life' = life
  BY DEF Active, life
<1>2. CASE shutdownErr = "nil"
  BY <1>1, <1>2 DEF Life!Next, Life!Fail
<1>3. CASE shutdownErr # "nil"
  BY <1>1, <1>3 DEF Life!vars
<1> QED
  BY <1>2, <1>3

(* Every step of CloseWithError is Fail, Announce, Finish or a stutter.    *)
LEMMA LifeClose ==
  ASSUME IInv, NEW k \in Callers, CloseWithError(k)
  PROVE  [Life!Next]_Life!vars
<1> USE DEF IInv
<1>1. CASE CloseMark(k)
  BY <1>1 DEF CloseMark, envVars, Life!vars, life, Active
<1>2. CASE CloseErr(k)
  BY <1>2, LifeError, ErrArgType DEF CloseErr, envVars
<1>3. CASE CloseSignal(k)
  <2>1. Active' = Active
    BY <1>3 DEF CloseSignal, Active
  <2>2. life = "open" /\ life' = "ending" /\ shutdownErr # "nil"
    BY <1>3 DEF CloseSignal, OneCloser, Past, life, TypeOK
  <2> QED
    BY <1>3, <2>1, <2>2 DEF CloseSignal, envVars, Life!Next, Life!Announce
<1>4. CASE CloseWait(k)
  <2>1. Active' = Active
    BY <1>4 DEF CloseWait, Active
  <2>2. life = "ending" /\ life' = "over"
    BY <1>4 DEF CloseWait, OneCloser, Past, life, TypeOK
  <2>3. Active = {} \/ ctxDone
    BY <1>4 DEF CloseWait, Counted
  <2> QED
    BY <1>4, <2>1, <2>2, <2>3 DEF CloseWait, envVars, Life!Next, Life!Finish
<1> QED
  BY <1>1, <1>2, <1>3, <1>4 DEF CloseWithError

(* Every step of run is Fail, Accept or a stutter.                         *)
LEMMA LifeRun == ASSUME IInv, Run PROVE [Life!Next]_Life!vars
<1> USE DEF IInv
<1>1. CASE RunReady \/ RunBreak \/ RunDrained
  BY <1>1 DEF RunReady, RunBreak, RunDrained, envVars, closeVars, Life!vars, life, Active
<1>2. CASE RunSessionClosed
  <2>1. "ErrSessionClosed" \in Errors
    BY DEF Errors
  <2> QED
    BY <1>2, <2>1, LifeError DEF RunSessionClosed, exitErr, envVars
<1>3. CASE RunSessionClose
  <2>1. CASE UNCHANGED closeVars
    BY <1>3, <2>1 DEF RunSessionClose, closeVars, Life!vars, life, Active
  <2>2. CASE exitErr("sessionCloseFailed")
    <3>1. "sessionCloseFailed" \in Errors
      BY DEF Errors
    <3> QED
      BY <1>3, <2>2, <3>1, LifeError DEF RunSessionClose, exitErr
  <2> QED
    BY <1>3, <2>1, <2>2 DEF RunSessionClose
<1>4. ASSUME NEW c \in Conns, RunConn(c) PROVE [Life!Next]_Life!vars
  <2>1. c \notin Active /\ Active' = Active \cup {c}
    BY <1>4 DEF RunConn, Active, TypeOK
  <2>2. life' = life /\ life # "over"
    BY <1>4 DEF RunConn, closeVars, OneCloser, life, TypeOK
  <2> QED
    BY <1>4, <2>1, <2>2 DEF RunConn, envVars, closeVars, Life!Next, Life!Accept
<1> QED
  BY <1>1, <1>2, <1>3, <1>4 DEF Run

(* Every step of a connection is Release or a stutter.                     *)
LEMMA LifeConn ==
  ASSUME IInv, NEW c \in Conns, Connection(c)
  PROVE  [Life!Next]_Life!vars
<1> USE DEF IInv
<1>1. UNCHANGED envVars /\ UNCHANGED closeVars
  BY DEF Connection, QueueConn, QueueConnRefused, QueueConnCancelled, OpenStream,
         BridgeEnd, connFrame
<1>2. life' = life /\ shutdownErr' = shutdownErr /\ ctxDone' = ctxDone
  BY <1>1 DEF life, envVars, closeVars
<1>3. Active' = Active \/ (c \in Active /\ Active' = Active \ {c})
  BY DEF Connection, QueueConn, QueueConnRefused, QueueConnCancelled, OpenStream,
         BridgeEnd, Active, TypeOK
<1> QED
  BY <1>2, <1>3 DEF Life!vars, Life!Next, Life!Release

(* Every step of Proxy is a step of ProxyLife or a stutter.                *)
LEMMA LifeNext == IInv /\ [Next]_vars => [Life!Next]_Life!vars
<1> SUFFICES ASSUME IInv, [Next]_vars PROVE [Life!Next]_Life!vars
  OBVIOUS
<1>1. CASE Hello \/ SessionDies
  BY <1>1 DEF Hello, SessionDies, closeVars, Life!vars, life, Active
<1>2. CASE CtxDone
  <2>1. Active' = Active /\ life' = life
    BY <1>2 DEF CtxDone, closeVars, Active, life
  <2> QED
    BY <1>2, <2>1 DEF CtxDone, closeVars, Life!Next, Life!TearDown
<1>3. CASE Run
  BY <1>3, LifeRun
<1>4. ASSUME NEW k \in Callers, CloseWithError(k) PROVE [Life!Next]_Life!vars
  BY <1>4, LifeClose
<1>5. ASSUME NEW c \in Conns, Connection(c) PROVE [Life!Next]_Life!vars
  BY <1>5, LifeConn
<1>6. CASE UNCHANGED vars
  BY <1>6 DEF vars, Life!vars, life, Active
<1> QED
  BY <1>1, <1>2, <1>3, <1>4, <1>5, <1>6 DEF Next

(* A Proxy behaves as ProxyLife promises: one reason, announced only once  *)
(* known, and over only when its connections are served.                   *)
THEOREM Refinement == Spec => ImplementsLife
BY LifeInit, LifeNext, Invariance, PTL DEF Spec, ImplementsLife, Life!Spec
=============================================================================
