------------------------------- MODULE Bridge -------------------------------
(***************************************************************************)
(* bridgeConn: the goroutine of one connection copies between the client's *)
(* connection (conn) and a stream of the node's session, in two goroutines *)
(* of its own.  When one direction ends, the other has bridgeDrainTimeout  *)
(* to finish.                                                              *)
(*                                                                         *)
(* "up" is client to node, "down" is node to client; bytes are counted in  *)
(* units.  The stream is a yamux stream: Close ends its write direction    *)
(* only.  conn may be a yamux stream too (the client transport and the     *)
(* tunnel), or a WSStream or one end of net.Pipe, whose Close ends both.   *)
(***************************************************************************)
EXTENDS Integers

CONSTANTS MaxUnits    \* bound on what either side writes

ASSUME MaxUnitsAssumption == MaxUnits \in Nat

Directions == {"up", "down"}
Other(d) == IF d = "up" THEN "down" ELSE "up"

VARIABLES
  halfClose,    \* conn.Close ends only the write direction of conn
  wrote,        \* wrote[d]: units the sender of direction d has written
  eof,          \* eof[d]: the sender of direction d has ended it
  copied,       \* copied[d]: units io.Copy has written to the other side
  copy,         \* copy[d]: "reading", "writing", or "ended" (its result is in the channel)
  connR, connW,     \* the hub can still read from, write to conn
  streamR, streamW, \* the hub can still read from, write to the stream
  broken,       \* the client or the session has gone away altogether
  ctxDone,      \* the context is done
  pc,           \* where bridgeConn is: "first", "drain", "returned"
  first,        \* the direction that ended first
  how,          \* how it returned: "drained", "timeout", "ctx"
  counted       \* counted[d]: what recordResult has added up

endVars == <<connR, connW, streamR, streamW>>
bridgeVars == <<pc, first, how, counted>>
vars == <<halfClose, wrote, eof, copied, copy, connR, connW, streamR, streamW, broken,
          ctxDone, pc, first, how, counted>>

Init ==
  /\ halfClose \in BOOLEAN
  /\ wrote = [d \in Directions |-> 0]
  /\ eof = [d \in Directions |-> FALSE]
  /\ copied = [d \in Directions |-> 0]
  /\ copy = [d \in Directions |-> "reading"]
  /\ connR = TRUE /\ connW = TRUE /\ streamR = TRUE /\ streamW = TRUE
  /\ broken = {} /\ ctxDone = FALSE
  /\ pc = "first" /\ first = "none" /\ how = "none"
  /\ counted = [d \in Directions |-> 0]

-----------------------------------------------------------------------------
(* The two peers.                                                          *)

CanRead(d) == IF d = "up" THEN connR ELSE streamR
CanWrite(d) == IF d = "up" THEN streamW ELSE connW

PeerWrite(d) ==
  /\ ~eof[d] /\ wrote[d] < MaxUnits /\ CanRead(d)
  /\ wrote' = [wrote EXCEPT ![d] = @ + 1]
  /\ UNCHANGED <<halfClose, eof, copied, copy, broken, ctxDone>>
  /\ UNCHANGED endVars /\ UNCHANGED bridgeVars

PeerEOF(d) ==
  /\ ~eof[d]
  /\ eof' = [eof EXCEPT ![d] = TRUE]
  /\ UNCHANGED <<halfClose, wrote, copied, copy, broken, ctxDone>>
  /\ UNCHANGED endVars /\ UNCHANGED bridgeVars

(* The client's connection, or the node's session, is lost.                *)
ClientGone ==
  /\ "client" \notin broken
  /\ broken' = broken \union {"client"}
  /\ connR' = FALSE /\ connW' = FALSE
  /\ UNCHANGED <<halfClose, wrote, eof, copied, copy, streamR, streamW, ctxDone>>
  /\ UNCHANGED bridgeVars

SessionGone ==
  /\ "session" \notin broken
  /\ broken' = broken \union {"session"}
  /\ streamR' = FALSE /\ streamW' = FALSE
  /\ UNCHANGED <<halfClose, wrote, eof, copied, copy, connR, connW, ctxDone>>
  /\ UNCHANGED bridgeVars

CtxDone ==
  /\ ~ctxDone /\ ctxDone' = TRUE
  /\ UNCHANGED <<halfClose, wrote, eof, copied, copy, broken>>
  /\ UNCHANGED endVars /\ UNCHANGED bridgeVars

-----------------------------------------------------------------------------
(* io.Copy: a read, then a write of what was read.                         *)

(* What has arrived may still be read when the connection is lost.         *)
CopyRead(d) ==
  /\ copy[d] = "reading" /\ copied[d] < wrote[d]
  /\ copy' = [copy EXCEPT ![d] = "writing"]
  /\ UNCHANGED <<halfClose, wrote, eof, copied, broken, ctxDone>>
  /\ UNCHANGED endVars /\ UNCHANGED bridgeVars

CopyWrite(d) ==
  /\ copy[d] = "writing" /\ CanWrite(d)
  /\ copied' = [copied EXCEPT ![d] = @ + 1]
  /\ copy' = [copy EXCEPT ![d] = "reading"]
  /\ UNCHANGED <<halfClose, wrote, eof, broken, ctxDone>>
  /\ UNCHANGED endVars /\ UNCHANGED bridgeVars

(* The read finds the end or fails, or the write fails.  A copy that waits *)
(* for input does not notice that it cannot write, nor one that waits for  *)
(* its reader that it cannot read.                                         *)
CopyEnd(d) ==
  /\ \/ copy[d] = "reading" /\ ((eof[d] /\ copied[d] = wrote[d]) \/ ~CanRead(d))
     \/ copy[d] = "writing" /\ ~CanWrite(d)
  /\ copy' = [copy EXCEPT ![d] = "ended"]
  /\ UNCHANGED <<halfClose, wrote, eof, copied, broken, ctxDone>>
  /\ UNCHANGED endVars /\ UNCHANGED bridgeVars

-----------------------------------------------------------------------------
(* bridgeConn.                                                             *)

(* closeConn and closeStream; that they run once changes nothing here.     *)
closeConn ==
  /\ connW' = FALSE
  /\ connR' = (halfClose /\ connR)
  /\ UNCHANGED <<streamR, streamW>>

(* Mutant: the stream is closed in both directions.                        *)
closeStream_Full ==
  /\ streamW' = FALSE /\ streamR' = FALSE
  /\ UNCHANGED <<connR, connW>>

closeStream ==
  /\ streamW' = FALSE
  /\ UNCHANGED <<streamR, connR, connW>>

(* Mutant: closeBoth without interruptReadWrite.                           *)
closeBoth_Uninterrupted ==
  /\ connW' = FALSE /\ connR' = (halfClose /\ connR)
  /\ streamW' = FALSE /\ UNCHANGED streamR

(* closeBoth: the deadlines of interruptReadWrite fail every read and      *)
(* write, whatever Close itself does.                                      *)
closeBoth == connR' = FALSE /\ connW' = FALSE /\ streamR' = FALSE /\ streamW' = FALSE

closeFor(d) == IF d = "up" THEN closeStream ELSE closeConn

recordResult(d) == counted' = [counted EXCEPT ![d] = copied[d]]

BridgeCtx ==
  /\ pc = "first" /\ ctxDone
  /\ pc' = "returned" /\ how' = "ctx"
  /\ closeBoth
  /\ UNCHANGED <<halfClose, wrote, eof, copied, copy, broken, ctxDone, first, counted>>

(* The first direction ends: its output is closed.                         *)
BridgeFirst(d) ==
  /\ pc = "first" /\ copy[d] = "ended"
  /\ pc' = "drain" /\ first' = d
  /\ recordResult(d)
  /\ closeFor(d)
  /\ UNCHANGED <<halfClose, wrote, eof, copied, copy, broken, ctxDone, how>>

(* The second ends within the timeout: the output of that one is closed.   *)
BridgeSecond ==
  /\ pc = "drain" /\ copy[Other(first)] = "ended"
  /\ pc' = "returned" /\ how' = "drained"
  /\ recordResult(Other(first))
  /\ closeFor(Other(first))
  /\ UNCHANGED <<halfClose, wrote, eof, copied, copy, broken, ctxDone, first>>

(* The timer of waitForBridgeDrain fires, or the context ends.             *)
BridgeGiveUp ==
  /\ pc = "drain"
  /\ how' = "timeout" \/ (ctxDone /\ how' = "ctx")
  /\ pc' = "returned"
  /\ closeBoth
  /\ UNCHANGED <<halfClose, wrote, eof, copied, copy, broken, ctxDone, first, counted>>

-----------------------------------------------------------------------------
Next ==
  \/ ClientGone \/ SessionGone \/ CtxDone
  \/ BridgeCtx \/ BridgeSecond \/ BridgeGiveUp
  \/ \E d \in Directions : PeerWrite(d) \/ PeerEOF(d) \/ CopyRead(d) \/ CopyWrite(d)
                           \/ CopyEnd(d) \/ BridgeFirst(d)

Spec == Init /\ [][Next]_vars

(* The goroutines run and the timer fires.  A write may block for ever on  *)
(* a peer that does not read, so that nothing is assumed of CopyWrite.     *)
Fairness ==
  /\ WF_vars(BridgeCtx) /\ WF_vars(BridgeSecond) /\ WF_vars(BridgeGiveUp)
  /\ \A d \in Directions : WF_vars(CopyRead(d)) /\ WF_vars(CopyEnd(d)) /\ WF_vars(BridgeFirst(d))

FairSpec == Spec /\ Fairness

-----------------------------------------------------------------------------
(* Every variable has its type, and nothing is copied that was not sent.   *)
TypeOK ==
  /\ halfClose \in BOOLEAN
  /\ wrote \in [Directions -> 0 .. MaxUnits]
  /\ eof \in [Directions -> BOOLEAN]
  /\ copied \in [Directions -> Nat] /\ \A d \in Directions : copied[d] <= wrote[d]
  /\ copy \in [Directions -> {"reading", "writing", "ended"}]
  /\ \A d \in Directions : copy[d] = "writing" => copied[d] < wrote[d]
  /\ connR \in BOOLEAN /\ connW \in BOOLEAN
  /\ streamR \in BOOLEAN /\ streamW \in BOOLEAN
  /\ broken \in SUBSET {"client", "session"}
  /\ ctxDone \in BOOLEAN
  /\ pc \in {"first", "drain", "returned"}
  /\ first \in Directions \union {"none"} /\ (pc = "drain" => first # "none")
  /\ how \in {"none", "drained", "timeout", "ctx"}
  /\ counted \in [Directions -> Nat] /\ \A d \in Directions : counted[d] <= copied[d]

(* bridgeConn returned because both directions ended in time, and neither  *)
(* peer broke off.                                                         *)
Clean == pc = "returned" /\ how = "drained" /\ broken = {}

(* After the client's end of input, everything the node still sends within *)
(* the timeout reaches the client (closeStream leaves the stream readable).*)
RemoteDrains == (Clean /\ first = "up") => copied["down"] = wrote["down"]

(* After the node's end of input, everything the client still sends within *)
(* the timeout reaches the node.                                           *)
LocalDrains == (Clean /\ first = "down") => copied["up"] = wrote["up"]

(* The bytes reported to OnConnectionStats are the bytes copied, when both *)
(* directions ended in time (recordResult).                                *)
StatsExact == (pc = "returned" /\ how = "drained") => counted = copied

(* All of these, LocalDrains for a connection that can be half closed, as  *)
(* streams of the client transport are (closeStream, closeConn).           *)
DrainsInTime == RemoteDrains /\ (halfClose => LocalDrains) /\ StatsExact

(* The copy of direction d waits for a peer that does not read.            *)
Stalled(d) == copy[d] = "writing" /\ CanWrite(d)

(* bridgeConn and both its copying goroutines are over.                    *)
AllOver == pc = "returned" /\ \A d \in Directions : copy[d] = "ended"

(* bridgeConn returns once the context is done or either direction has     *)
(* ended, and both copying goroutines end with it, even those blocked in a *)
(* read or a write (waitForBridgeDrain, interruptReadWrite).  It returns   *)
(* when the session or the client is gone provided that the other does not *)
(* leave the copy from the lost one in a write for ever: that copy reads   *)
(* no more, the other may have nothing to write, and bridgeConn has no     *)
(* other way to notice.                                                    *)
BridgeReturns ==
  /\ (ctxDone \/ \E d \in Directions : copy[d] = "ended") ~> AllOver
  /\ \A d \in Directions : []<>(~Stalled(d)) => (~CanRead(d) ~> AllOver)
=============================================================================
