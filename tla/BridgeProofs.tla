---------------------------- MODULE BridgeProofs ----------------------------
(***************************************************************************)
(* Proofs about module Bridge, for any number of units either side sends:  *)
(* type correctness, and that a bridge that ends in time has delivered     *)
(* everything and counted it.                                              *)
(*                                                                         *)
(* A direction whose copy ended by itself is complete (Whole): its sender  *)
(* has ended it and all of it is copied, which no later step undoes.  That *)
(* it ended by itself follows from which ends of the two connections are   *)
(* still open at each point of bridgeConn (OpenEnds).                      *)
(***************************************************************************)
EXTENDS Bridge, TLAPS

(* Everything the sender of d will ever send is copied.                    *)
Whole(d) == eof[d] /\ copied[d] = wrote[d]

(* As long as neither peer breaks off, only the output of the direction    *)
(* that ended first is closed; conn can then be read only if it can be     *)
(* half closed.                                                            *)
OpenEnds ==
  broken = {} =>
    /\ pc = "first" => connR /\ connW /\ streamR /\ streamW
    /\ pc = "drain" /\ first = "up" => connR /\ connW /\ streamR
    /\ pc = "drain" /\ first = "down" => (halfClose => connR) /\ streamR /\ streamW

(* The direction other than d can still be drained once d has ended.       *)
Drainable(d) == d = "up" \/ halfClose

(* A direction that ended is complete, the second if it could be drained.  *)
EndedWhole ==
  broken = {} =>
    /\ pc = "first" => \A d \in Directions : copy[d] = "ended" => Whole(d)
    /\ pc = "drain" /\ Drainable(first) /\ copy[Other(first)] = "ended" => Whole(Other(first))
    /\ pc = "returned" /\ how = "drained" /\ Drainable(first) => Whole(Other(first))

(* The bytes of a direction are counted when its end is taken.             *)
Recorded ==
  /\ pc = "drain" => copy[first] = "ended" /\ counted[first] = copied[first]
  /\ pc = "returned" /\ how = "drained" =>
        /\ first # "none"
        /\ \A d \in Directions : copy[d] = "ended" /\ counted[d] = copied[d]

IInv == TypeOK /\ OpenEnds /\ EndedWhole /\ Recorded

-----------------------------------------------------------------------------
(* The initial state satisfies the inductive invariant.                    *)
LEMMA InitIInv == Init => IInv
<1> SUFFICES ASSUME Init PROVE IInv
  OBVIOUS
<1> USE MaxUnitsAssumption DEF Init, Directions
<1>1. halfClose \in BOOLEAN /\ wrote \in [Directions -> 0 .. MaxUnits]
  OBVIOUS
<1>2. TypeOK
  <2>1. /\ copied \in [Directions -> Nat] /\ counted \in [Directions -> Nat]
        /\ \A d \in Directions : copied[d] <= wrote[d] /\ counted[d] <= copied[d]
    OBVIOUS
  <2>2. eof \in [Directions -> BOOLEAN] /\ copy \in [Directions -> {"reading", "writing", "ended"}]
    OBVIOUS
  <2> QED
    BY <1>1, <2>1, <2>2 DEF TypeOK
<1>3. OpenEnds /\ EndedWhole /\ Recorded
  BY DEF OpenEnds, EndedWhole, Recorded
<1> QED
  BY <1>2, <1>3 DEF IInv

(* What the peers, the network and the context do: a direction that is     *)
(* whole stays whole, and a peer that breaks off is remembered.            *)
LEMMA PeerIInv ==
  ASSUME IInv, NEW d \in Directions,
         PeerWrite(d) \/ PeerEOF(d) \/ ClientGone \/ SessionGone \/ CtxDone
  PROVE  IInv'
<1> USE MaxUnitsAssumption DEF IInv, TypeOK, Directions, bridgeVars, endVars
<1>1. CASE PeerWrite(d)
  <2>1. TypeOK'
    BY <1>1 DEF PeerWrite
  <2>2. OpenEnds'
    BY <1>1 DEF PeerWrite, OpenEnds
  <2>3. EndedWhole'
    BY <1>1 DEF PeerWrite, EndedWhole, Whole, Drainable, Other
  <2>4. Recorded'
    BY <1>1 DEF PeerWrite, Recorded
  <2> QED
    BY <2>1, <2>2, <2>3, <2>4
<1>2. CASE PeerEOF(d)
  <2>1. TypeOK' /\ OpenEnds' /\ Recorded'
    BY <1>2 DEF PeerEOF, OpenEnds, Recorded
  <2>2. EndedWhole'
    BY <1>2 DEF PeerEOF, EndedWhole, Whole, Drainable, Other
  <2> QED
    BY <2>1, <2>2
<1>3. CASE ClientGone \/ SessionGone
  <2>1. TypeOK'
    <3>1. broken' \in SUBSET {"client", "session"}
      BY <1>3 DEF ClientGone, SessionGone
    <3>2. /\ connR' \in BOOLEAN /\ connW' \in BOOLEAN
          /\ streamR' \in BOOLEAN /\ streamW' \in BOOLEAN
      BY <1>3 DEF ClientGone, SessionGone
    <3> QED
      BY <1>3, <3>1, <3>2 DEF ClientGone, SessionGone
  <2>2. broken' # {}
    BY <1>3 DEF ClientGone, SessionGone
  <2>3. Recorded'
    BY <1>3 DEF ClientGone, SessionGone, Recorded
  <2> QED
    BY <2>1, <2>2, <2>3 DEF OpenEnds, EndedWhole
<1>4. CASE CtxDone
  BY <1>4 DEF CtxDone, OpenEnds, EndedWhole, Recorded, Whole, Drainable
<1> QED
  BY <1>1, <1>2, <1>3, <1>4

(* io.Copy: with the ends it uses open, a copy ends only when it is whole. *)
LEMMA CopyIInv ==
  ASSUME IInv, NEW d \in Directions, CopyRead(d) \/ CopyWrite(d) \/ CopyEnd(d)
  PROVE  IInv'
<1> USE MaxUnitsAssumption DEF IInv, TypeOK, Directions, bridgeVars, endVars
<1>1. CASE CopyWrite(d)
  <2>1. TypeOK'
    BY <1>1 DEF CopyWrite
  <2>2. OpenEnds'
    BY <1>1 DEF CopyWrite, OpenEnds
  <2>3. EndedWhole'
    BY <1>1 DEF CopyWrite, EndedWhole, Whole, Drainable, Other
  <2>4. Recorded'
    BY <1>1 DEF CopyWrite, Recorded
  <2> QED
    BY <2>1, <2>2, <2>3, <2>4
<1>2. CASE CopyEnd(d)
  <2>1. TypeOK' /\ OpenEnds'
    BY <1>2 DEF CopyEnd, OpenEnds
  <2>2. EndedWhole'
    <3> SUFFICES ASSUME broken = {} PROVE EndedWhole'
      BY <1>2 DEF CopyEnd, EndedWhole
    <3>1. CASE pc = "first"
      BY <1>2, <3>1 DEF CopyEnd, EndedWhole, OpenEnds, Whole, CanRead, CanWrite
    <3>2. CASE pc = "drain"
      BY <1>2, <3>2 DEF CopyEnd, EndedWhole, OpenEnds, Recorded, Whole, CanRead, CanWrite,
                        Drainable, Other
    <3>3. CASE pc = "returned"
      BY <1>2, <3>3 DEF CopyEnd, EndedWhole, Whole, Drainable
    <3> QED
      BY <3>1, <3>2, <3>3
  <2>3. Recorded'
    BY <1>2 DEF CopyEnd, Recorded
  <2> QED
    BY <2>1, <2>2, <2>3
<1>3. CASE CopyRead(d)
  <2>1. TypeOK' /\ OpenEnds'
    BY <1>3 DEF CopyRead, OpenEnds
  <2>2. EndedWhole' /\ Recorded'
    BY <1>3 DEF CopyRead, EndedWhole, Recorded, Whole, Drainable, Other
  <2> QED
    BY <2>1, <2>2
<1> QED
  BY <1>1, <1>2, <1>3

(* closeConn and closeStream leave the ends as flags.                      *)
LEMMA CloseForType ==
  ASSUME TypeOK, NEW d \in Directions, closeFor(d)
  PROVE  /\ connR' \in BOOLEAN /\ connW' \in BOOLEAN
         /\ streamR' \in BOOLEAN /\ streamW' \in BOOLEAN
<1>1. CASE d = "up"
  BY <1>1 DEF TypeOK, closeFor, closeStream
<1>2. CASE d = "down"
  <2>1. connR' = (halfClose /\ connR)
    BY <1>2 DEF closeFor, closeConn
  <2>2. connR' \in BOOLEAN
    BY <2>1
  <2> QED
    BY <1>2, <2>2 DEF TypeOK, closeFor, closeConn
<1> QED
  BY <1>1, <1>2 DEF Directions

(* bridgeConn: the end of a direction closes its own output only.          *)
LEMMA BridgeIInv ==
  ASSUME IInv, NEW d \in Directions, BridgeFirst(d) \/ BridgeSecond \/ BridgeCtx \/ BridgeGiveUp
  PROVE  IInv'
<1> USE DEF IInv, TypeOK, Directions
<1>1. CASE BridgeFirst(d)
  <2>1. TypeOK'
    BY <1>1, CloseForType DEF BridgeFirst, recordResult
  <2>2. OpenEnds'
    BY <1>1 DEF BridgeFirst, OpenEnds, closeFor, closeStream, closeConn
  <2>3. EndedWhole'
    BY <1>1 DEF BridgeFirst, EndedWhole, Whole, Other
  <2>4. Recorded'
    BY <1>1 DEF BridgeFirst, recordResult, Recorded
  <2> QED
    BY <2>1, <2>2, <2>3, <2>4
<1>2. CASE BridgeSecond
  <2>1. Other(first) \in Directions /\ first \in Directions
    BY <1>2 DEF BridgeSecond, Other
  <2>2. TypeOK'
    BY <1>2, <2>1, CloseForType DEF BridgeSecond, recordResult
  <2>3. EndedWhole'
    BY <1>2, <2>1 DEF BridgeSecond, EndedWhole, Whole, Drainable
  <2>4. Recorded'
    BY <1>2, <2>1 DEF BridgeSecond, recordResult, Recorded, Other
  <2>5. OpenEnds'
    BY <1>2 DEF BridgeSecond, OpenEnds
  <2> QED
    BY <2>2, <2>3, <2>4, <2>5
<1>3. CASE BridgeCtx \/ BridgeGiveUp
  BY <1>3 DEF BridgeCtx, BridgeGiveUp, closeBoth, OpenEnds, EndedWhole, Recorded
<1> QED
  BY <1>1, <1>2, <1>3

(* Every step preserves the inductive invariant.                           *)
LEMMA NextIInv == IInv /\ [Next]_vars => IInv'
<1> SUFFICES ASSUME IInv, [Next]_vars PROVE IInv'
  OBVIOUS
<1>1. "up" \in Directions
  BY DEF Directions
<1>2. CASE ClientGone \/ SessionGone \/ CtxDone
  BY <1>1, <1>2, PeerIInv
<1>3. CASE BridgeCtx \/ BridgeSecond \/ BridgeGiveUp
  BY <1>1, <1>3, BridgeIInv
<1>4. ASSUME NEW d \in Directions,
             PeerWrite(d) \/ PeerEOF(d) \/ CopyRead(d) \/ CopyWrite(d) \/ CopyEnd(d) \/ BridgeFirst(d)
      PROVE  IInv'
  BY <1>4, PeerIInv, CopyIInv, BridgeIInv
<1>5. CASE UNCHANGED vars
  BY <1>5 DEF vars, IInv, TypeOK, OpenEnds, EndedWhole, Recorded, Whole, Drainable
<1> QED
  BY <1>2, <1>3, <1>4, <1>5 DEF Next

(* IInv holds in every reachable state of the bridge.                      *)
LEMMA Invariance == Spec => []IInv
BY InitIInv, NextIInv, PTL DEF Spec

(* The variables of Bridge keep their types: nothing is copied that was    *)
(* not sent and nothing is counted that was not copied.                    *)
THEOREM TypeCorrect == Spec => []TypeOK
BY Invariance, PTL DEF IInv

(* A bridge whose directions both end in time, and whose peers do not      *)
(* break off, has delivered everything it could drain, and its statistics  *)
(* are exact.                                                              *)
THEOREM Drains == Spec => []DrainsInTime
<1>1. IInv => DrainsInTime
  <2> SUFFICES ASSUME IInv PROVE DrainsInTime
    OBVIOUS
  <2> USE DEF IInv, Clean, Whole, Drainable, Other
  <2>1. RemoteDrains
    BY DEF EndedWhole, RemoteDrains
  <2>2. halfClose => LocalDrains
    BY DEF EndedWhole, LocalDrains
  <2>3. StatsExact
    BY DEF Recorded, StatsExact, TypeOK
  <2> QED
    BY <2>1, <2>2, <2>3 DEF DrainsInTime
<1> QED
  BY <1>1, Invariance, PTL
=============================================================================
