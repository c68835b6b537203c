---------------------------- MODULE SpliceProofs ----------------------------
(***************************************************************************)
(* Proofs about module Splice, for any number of units and either caller   *)
(* of Copy2: type correctness, and the bound on what is lost when a copy   *)
(* ends cleanly.                                                           *)
(*                                                                         *)
(* As long as the connection it writes to is there, a copy owes its peer   *)
(* the unit it is writing and what the pump of a WSStream holds (Owes).    *)
(* Nothing is closed before Copy2 has handled a case of its select         *)
(* (NothingClosed), so that a copy that ends first, with its output there, *)
(* has nothing left to write.                                              *)
(***************************************************************************)
EXTENDS Splice, TLAPS

Stages == {"greeting", "request", "dialing", "replying", "copying", "returned"}

(* Every variable has its type; only a WSStream has a pump.                *)
TypeOK ==
  /\ owner \in {"socks", "dialer"} /\ stage \in Stages
  /\ closed \in [Conns -> BOOLEAN] /\ gone \in [Conns -> BOOLEAN] /\ broken \in BOOLEAN
  /\ left \in [Conns -> Nat] /\ owed \in [Conns -> Nat]
  /\ copy \in [Copies -> {"reading", "writing", "ended"}]
  /\ pump \in {0, 1} /\ (owner = "socks" => pump = 0)
  /\ seen \subseteq Copies \union {"ctx"} /\ closeA \in BOOLEAN /\ closeB \in BOOLEAN
  /\ ctxDone \in BOOLEAN
  /\ first \in Copies \union {"none", "other"}

(* What the copy d and the pump behind it hold.                            *)
Held(d) == (IF copy[d] = "writing" THEN 1 ELSE 0) + (IF d = "ba" THEN pump ELSE 0)

(* What was read from the other side and not delivered is what is held.    *)
Owes == \A d \in Copies : ~closed[To(d)] /\ ~gone[To(d)] => owed[To(d)] = Held(d)

(* Copy2 closes nothing before a case of its select.                       *)
NothingClosed == stage # "returned" /\ first = "none" => \A e \in Conns : ~closed[e]

(* Once Copy2 has handled a clean end first, the copy has ended for good.  *)
FirstEnded ==
  /\ first \in Copies => copy[first] = "ended"
  /\ LossBound

IInv == TypeOK /\ Owes /\ NothingClosed /\ FirstEnded

-----------------------------------------------------------------------------
(* The initial state satisfies the inductive invariant.                    *)
LEMMA InitIInv == Init => IInv
<1> SUFFICES ASSUME Init PROVE IInv
  OBVIOUS
<1> USE UnitsAssumption DEF Init, Conns, Copies
<1>1. left \in [Conns -> Nat] /\ owed \in [Conns -> Nat]
  OBVIOUS
<1>2. TypeOK
  BY <1>1 DEF TypeOK, Stages
<1>3. Owes /\ NothingClosed /\ FirstEnded
  BY DEF Owes, Held, To, NothingClosed, FirstEnded, LossBound
<1> QED
  BY <1>2, <1>3 DEF IInv

(* The peers and the context: a connection that is gone stays gone.        *)
LEMMA PeerIInv ==
  ASSUME IInv, NEW e \in Conns, PeerCloses(e) \/ ConnBreaks(e) \/ Cancel
  PROVE  IInv'
<1> USE DEF IInv, PeerCloses, ConnBreaks, Cancel, copyVars, loopVars, peerVars
<1>1. TypeOK'
  <2>1. CASE PeerCloses(e)
    BY <2>1 DEF TypeOK
  <2>2. CASE ConnBreaks(e)
    BY <2>2 DEF TypeOK
  <2>3. CASE Cancel
    BY <2>3 DEF TypeOK
  <2> QED
    BY <2>1, <2>2, <2>3
<1>2. Owes'
  BY DEF Owes, Held, TypeOK, Conns, Copies, To
<1>3. NothingClosed' /\ FirstEnded'
  BY DEF NothingClosed, FirstEnded, LossBound
<1> QED
  BY <1>1, <1>2, <1>3

(* ServeConn up to Copy2.                                                  *)
LEMMA ServeIInv ==
  ASSUME IInv, ServeAdvances \/ ServeFails
  PROVE  IInv'
<1> USE DEF IInv, copyVars, loopVars, peerVars
<1>1. CASE ServeAdvances
  <2>1. stage # "returned" /\ stage' \in Stages
    BY <1>1 DEF ServeAdvances, ServeNext, Stages
  <2>2. TypeOK'
    BY <1>1, <2>1 DEF TypeOK, ServeAdvances
  <2>3. Owes' /\ NothingClosed' /\ FirstEnded'
    BY <1>1, <2>1 DEF ServeAdvances, Owes, Held, NothingClosed, FirstEnded, LossBound
  <2> QED
    BY <2>2, <2>3
<1>2. CASE ServeFails
  <2>1. TypeOK'
    BY <1>2 DEF TypeOK, ServeFails, Stages
  <2>2. Owes' /\ NothingClosed' /\ FirstEnded'
    BY <1>2 DEF ServeFails, Owes, NothingClosed, FirstEnded, LossBound, To, Conns
  <2> QED
    BY <2>1, <2>2
<1> QED
  BY <1>1, <1>2

(* The copies and the pump: what is owed follows what they hold.           *)
LEMMA CopyIInv ==
  ASSUME IInv, NEW d \in Copies, Read(d) \/ Write(d) \/ CopyEnds(d) \/ PumpWrites \/ PumpFails
  PROVE  IInv'
<1> USE DEF IInv, TypeOK, Conns, Copies, From, To, At, copyVars, loopVars, peerVars
<1>1. CASE Read(d)
  <2>1. TypeOK'
    BY <1>1 DEF Read
  <2>2. Owes'
    BY <1>1 DEF Read, Owes, Held
  <2>3. NothingClosed' /\ FirstEnded'
    BY <1>1 DEF Read, NothingClosed, FirstEnded, LossBound
  <2> QED
    BY <2>1, <2>2, <2>3
<1>2. CASE Write(d)
  <2>1. owed[To(d)] = Held(d) /\ Held(d) \in Nat /\ Held(d) >= 1
    BY <1>2 DEF Write, Owes, Held
  <2>2. TypeOK'
    BY <1>2, <2>1 DEF Write
  <2>3. Owes'
    BY <1>2 DEF Write, Owes, Held
  <2>4. NothingClosed' /\ FirstEnded'
    BY <1>2 DEF Write, NothingClosed, FirstEnded, LossBound
  <2> QED
    BY <2>2, <2>3, <2>4
<1>3. CASE CopyEnds(d)
  <2>1. TypeOK'
    BY <1>3 DEF CopyEnds
  <2>2. Owes'
    BY <1>3 DEF CopyEnds, Owes, Held
  <2>3. NothingClosed' /\ FirstEnded'
    BY <1>3 DEF CopyEnds, NothingClosed, FirstEnded, LossBound
  <2> QED
    BY <2>1, <2>2, <2>3
<1>4. CASE PumpWrites
  <2>1. owed["a"] = Held("ba") /\ Held("ba") \in Nat /\ Held("ba") >= 1
    BY <1>4 DEF PumpWrites, Owes, Held
  <2>2. TypeOK'
    BY <1>4, <2>1 DEF PumpWrites
  <2>3. Owes'
    BY <1>4 DEF PumpWrites, Owes, Held
  <2>4. NothingClosed' /\ FirstEnded'
    BY <1>4, <2>1 DEF PumpWrites, NothingClosed, FirstEnded, LossBound
  <2> QED
    BY <2>2, <2>3, <2>4
<1>5. CASE PumpFails
  BY <1>5 DEF PumpFails, Owes, Held, NothingClosed, FirstEnded, LossBound
<1> QED
  BY <1>1, <1>2, <1>3, <1>4, <1>5

(* The select of Copy2: what it handles first decides what may be lost.    *)
LEMMA SelectIInv ==
  ASSUME IInv, NEW d \in Copies, CopyDone(d) \/ CtxSeen \/ Return
  PROVE  IInv'
<1> USE DEF IInv, TypeOK, Conns, Copies, To, Copying, copyVars, peerVars
<1>1. CASE CopyDone(d)
  <2>1. TypeOK'
    BY <1>1 DEF CopyDone, Clean
  <2>2. Owes'
    BY <1>1 DEF CopyDone, Owes, Held
  <2>3. NothingClosed'
    BY <1>1 DEF CopyDone, Clean, NothingClosed
  <2>4. FirstEnded'
    <3>1. CASE first = "none" /\ ~gone[To(d)]
      <4>1. owed[To(d)] = Held(d) /\ copy[d] = "ended"
        BY <1>1, <3>1 DEF CopyDone, Owes, NothingClosed
      <4> QED
        BY <1>1, <3>1, <4>1 DEF CopyDone, Clean, FirstEnded, LossBound, Held
    <3>2. CASE first # "none" \/ gone[To(d)]
      BY <1>1, <3>2 DEF CopyDone, Clean, FirstEnded, LossBound
    <3> QED
      BY <3>1, <3>2
  <2> QED
    BY <2>1, <2>2, <2>3, <2>4
<1>2. CASE CtxSeen
  <2>1. TypeOK'
    <3>1. closed' \in [Conns -> BOOLEAN]
      BY <1>2 DEF CtxSeen
    <3>2. first' \in Copies \union {"none", "other"} /\ seen' \subseteq Copies \union {"ctx"}
      BY <1>2 DEF CtxSeen
    <3> QED
      BY <1>2, <3>1, <3>2 DEF CtxSeen
  <2>2. Owes' /\ NothingClosed' /\ FirstEnded'
    BY <1>2 DEF CtxSeen, Owes, Held, NothingClosed, FirstEnded, LossBound
  <2> QED
    BY <2>1, <2>2
<1>3. CASE Return
  <2>1. TypeOK'
    BY <1>3 DEF Return, loopVars, Stages
  <2>2. Owes' /\ NothingClosed' /\ FirstEnded'
    BY <1>3 DEF Return, loopVars, Owes, Held, NothingClosed, FirstEnded, LossBound
  <2> QED
    BY <2>1, <2>2
<1> QED
  BY <1>1, <1>2, <1>3

(* Every step preserves the inductive invariant.                           *)
LEMMA NextIInv == IInv /\ [Next]_vars => IInv'
<1> SUFFICES ASSUME IInv, [Next]_vars PROVE IInv'
  OBVIOUS
<1>1. "a" \in Conns /\ "ab" \in Copies
  BY DEF Conns, Copies
<1>2. CASE \E e \in Conns : PeerCloses(e) \/ ConnBreaks(e)
  BY <1>2, PeerIInv
<1>3. CASE Cancel
  BY <1>1, <1>3, PeerIInv
<1>4. CASE ServeAdvances \/ ServeFails
  BY <1>4, ServeIInv
<1>5. CASE \E d \in Copies : Read(d) \/ Write(d) \/ CopyEnds(d) \/ CopyDone(d)
  BY <1>5, CopyIInv, SelectIInv
<1>6. CASE PumpWrites \/ PumpFails
  BY <1>1, <1>6, CopyIInv
<1>7. CASE CtxSeen \/ Return
  BY <1>1, <1>7, SelectIInv
<1>8. CASE UNCHANGED vars
  BY <1>8 DEF vars, copyVars, loopVars, peerVars, IInv, TypeOK, Owes, Held, NothingClosed,
              FirstEnded, LossBound
<1> QED
  BY <1>2, <1>3, <1>4, <1>5, <1>6, <1>7, <1>8 DEF Next

(* IInv holds in every reachable state of Splice.                          *)
LEMMA Invariance == Spec => []IInv
BY InitIInv, NextIInv, PTL DEF Spec

(* The variables of Splice keep their types.                               *)
THEOREM TypeCorrect == Spec => []TypeOK
BY Invariance, PTL DEF IInv

(* A copy that ends cleanly before anything else has delivered what its    *)
(* source sent, but for the one unit in the pump of a WSStream.            *)
THEOREM LossBounded == Spec => []LossBound
BY Invariance, PTL DEF IInv, FirstEnded
=============================================================================
