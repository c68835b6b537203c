------------------------------- MODULE Splice -------------------------------
(***************************************************************************)
(* Copy2 between two connections a and b, and its two callers: ServeConn   *)
(* of the SOCKS server, with the connection dialled (a) and the one served *)
(* (b), and DialContext of the legacy dialer, with a WSStream (a) and one  *)
(* end of a pipe (b).                                                      *)
(*                                                                         *)
(* Data is counted in units, the piece one read returns.  A WSStream's     *)
(* Write returns when its pump has taken the unit; the pump then writes it *)
(* to the WebSocket.                                                       *)
(***************************************************************************)
EXTENDS Naturals

CONSTANT Units   \* units each peer may send

ASSUME UnitsAssumption == Units \in Nat

Conns == {"a", "b"}
Copies == {"ba", "ab"}   \* io.Copy(a, b), which closes ch1, and io.Copy(b, a): ch2
From(d) == IF d = "ba" THEN "b" ELSE "a"
To(d) == IF d = "ba" THEN "a" ELSE "b"

VARIABLES
  owner,     \* "socks" or "dialer"
  stage,     \* "greeting", "request", "dialing", "replying", "copying" or "returned"
  closed,    \* closed[e]: this side has closed connection e
  gone,      \* gone[e]: the peer on e has closed it, or it is broken
  broken,    \* some connection was cut with data under way
  left,      \* left[e]: units the peer on e has yet to send
  owed,      \* owed[e]: units read for the peer on e that it has not been given
  copy,      \* copy[d]: "reading", "writing" or "ended"
  pump,      \* units the pump of the WSStream holds
  seen,      \* the cases of Copy2's select it has been through
  closeA, closeB,  \* its two Onces
  ctxDone,
  first      \* history: what Copy2 handled first; a copy only if it ended cleanly

peerVars == <<gone, broken, left>>
copyVars == <<copy, pump, owed>>
loopVars == <<seen, closeA, closeB, first>>
vars == <<owner, stage, closed, peerVars, copyVars, loopVars, ctxDone>>

Init ==
  /\ owner \in {"socks", "dialer"}
  /\ stage = IF owner = "socks" THEN "greeting" ELSE "copying"
  /\ closed = [e \in Conns |-> FALSE]
  /\ gone = [e \in Conns |-> FALSE] /\ broken = FALSE
  /\ left \in [Conns -> 0 .. Units] /\ owed = [e \in Conns |-> 0]
  /\ copy = [d \in Copies |-> "reading"] /\ pump = 0
  /\ seen = {} /\ closeA = FALSE /\ closeB = FALSE /\ first = "none"
  /\ ctxDone = FALSE

-----------------------------------------------------------------------------
(* The peers, and the context.                                             *)

PeerCloses(e) ==
  /\ ~gone[e] /\ left[e] = 0 /\ gone' = [gone EXCEPT ![e] = TRUE]
  /\ UNCHANGED <<owner, stage, closed, broken, left, copyVars, loopVars, ctxDone>>

ConnBreaks(e) ==
  /\ ~gone[e] /\ gone' = [gone EXCEPT ![e] = TRUE]
  /\ broken' = TRUE /\ left' = [left EXCEPT ![e] = 0]
  /\ UNCHANGED <<owner, stage, closed, copyVars, loopVars, ctxDone>>

Cancel ==
  /\ ~ctxDone /\ ctxDone' = TRUE
  /\ UNCHANGED <<owner, stage, closed, peerVars, copyVars, loopVars>>

-----------------------------------------------------------------------------
(* ServeConn up to Copy2.  A failed read or write, an unsupported version, *)
(* command or address, a target that is refused or cannot be dialled end   *)
(* it, and the deferred calls close what is open.                          *)

ServeNext == [greeting |-> "request", request |-> "dialing",
              dialing |-> "replying", replying |-> "copying"]

ServeAdvances ==
  /\ stage \in DOMAIN ServeNext /\ stage' = ServeNext[stage]
  /\ stage # "dialing" => ~gone["b"]
  /\ UNCHANGED <<owner, closed, peerVars, copyVars, loopVars, ctxDone>>

ServeFails ==
  /\ stage \in DOMAIN ServeNext /\ stage' = "returned"
  /\ closed' = [e \in Conns |-> TRUE]
  /\ UNCHANGED <<owner, peerVars, copyVars, loopVars, ctxDone>>

-----------------------------------------------------------------------------
(* The two io.Copy of Copy2.                                               *)

Copying == stage = "copying"
At(d, place) == copy' = [copy EXCEPT ![d] = place]

(* A yamux stream can be read after Close, until its peer closes it or     *)
(* StreamCloseTimeout ends it; a WSStream and a pipe cannot.               *)
Read(d) ==
  /\ Copying /\ copy[d] = "reading" /\ left[From(d)] > 0
  /\ ~closed[From(d)] \/ owner = "socks"
  /\ At(d, "writing") /\ left' = [left EXCEPT ![From(d)] = @ - 1]
  /\ owed' = [owed EXCEPT ![To(d)] = @ + 1]
  /\ UNCHANGED <<owner, stage, closed, gone, broken, pump, loopVars, ctxDone>>

(* Mutant: the WSStream keeps a queue and Write does not wait for the pump.*)
Write_Queued(d) ==
  /\ Copying /\ copy[d] = "writing" /\ ~closed[To(d)] /\ ~gone[To(d)] /\ At(d, "reading")
  /\ IF owner = "dialer" /\ d = "ba"
       THEN pump < 2 /\ pump' = pump + 1 /\ UNCHANGED owed
       ELSE owed' = [owed EXCEPT ![To(d)] = @ - 1] /\ UNCHANGED pump
  /\ UNCHANGED <<owner, stage, closed, peerVars, loopVars, ctxDone>>

(* The peer takes the unit; for a WSStream it is the pump.                 *)
Write(d) ==
  /\ Copying /\ copy[d] = "writing" /\ ~closed[To(d)] /\ ~gone[To(d)] /\ At(d, "reading")
  /\ IF owner = "dialer" /\ d = "ba"
       THEN pump = 0 /\ pump' = 1 /\ UNCHANGED owed
       ELSE owed' = [owed EXCEPT ![To(d)] = @ - 1] /\ UNCHANGED pump
  /\ UNCHANGED <<owner, stage, closed, peerVars, loopVars, ctxDone>>

CopyEnds(d) ==
  /\ Copying /\ At(d, "ended")
  /\ \/ copy[d] = "reading" /\ (closed[From(d)] \/ (gone[From(d)] /\ left[From(d)] = 0))
     \/ copy[d] = "writing" /\ (closed[To(d)] \/ gone[To(d)])
  /\ UNCHANGED <<owner, stage, closed, peerVars, owed, pump, loopVars, ctxDone>>

(* WriteMessage succeeds, or fails once the WebSocket is closed or broken. *)
PumpWrites ==
  /\ pump > 0 /\ ~gone["a"] /\ ~closed["a"]
  /\ pump' = pump - 1 /\ owed' = [owed EXCEPT !["a"] = @ - 1]
  /\ UNCHANGED <<owner, stage, closed, peerVars, copy, loopVars, ctxDone>>

PumpFails ==
  /\ pump > 0 /\ (gone["a"] \/ closed["a"]) /\ pump' = 0
  /\ UNCHANGED <<owner, stage, closed, peerVars, copy, owed, loopVars, ctxDone>>

-----------------------------------------------------------------------------
(* The select of Copy2.                                                    *)

Clean(d) == IF broken \/ gone[To(d)] THEN "other" ELSE d

(* Mutant: the connection that was read is closed.                         *)
CopyDone_Source(d) ==
  /\ Copying /\ copy[d] = "ended" /\ d \notin seen /\ seen' = seen \union {d}
  /\ closed' = [closed EXCEPT ![From(d)] = @ \/ ~(IF d = "ba" THEN closeB ELSE closeA)]
  /\ closeA' = (closeA \/ d = "ab") /\ closeB' = (closeB \/ d = "ba")
  /\ first' = IF first = "none" THEN Clean(d) ELSE first
  /\ UNCHANGED <<owner, stage, peerVars, copyVars, ctxDone>>

(* The ch1 case closes a under closeB, the ch2 case b under closeA.        *)
CopyDone(d) ==
  /\ Copying /\ copy[d] = "ended" /\ d \notin seen /\ seen' = seen \union {d}
  /\ closed' = [closed EXCEPT ![To(d)] = @ \/ ~(IF d = "ba" THEN closeB ELSE closeA)]
  /\ closeA' = (closeA \/ d = "ab") /\ closeB' = (closeB \/ d = "ba")
  /\ first' = IF first = "none" THEN Clean(d) ELSE first
  /\ UNCHANGED <<owner, stage, peerVars, copyVars, ctxDone>>

(* The ctxDone case closes a under closeA and b under closeB.              *)
CtxSeen ==
  /\ Copying /\ ctxDone /\ "ctx" \notin seen /\ seen' = seen \union {"ctx"}
  /\ closed' = [e \in Conns |-> closed[e] \/ ~(IF e = "a" THEN closeA ELSE closeB)]
  /\ closeA' = TRUE /\ closeB' = TRUE
  /\ first' = IF first = "none" THEN "other" ELSE first
  /\ UNCHANGED <<owner, stage, peerVars, copyVars, ctxDone>>

(* Copy2 returns; ServeConn's deferred calls close both, the dialer has    *)
(* none.                                                                   *)
Return ==
  /\ Copying /\ Copies \subseteq seen /\ stage' = "returned"
  /\ closed' = [e \in Conns |-> closed[e] \/ owner = "socks"]
  /\ UNCHANGED <<owner, peerVars, copyVars, loopVars, ctxDone>>

-----------------------------------------------------------------------------
Next ==
  \/ \E e \in Conns : PeerCloses(e) \/ ConnBreaks(e)
  \/ Cancel \/ ServeAdvances \/ ServeFails
  \/ \E d \in Copies : Read(d) \/ Write(d) \/ CopyEnds(d) \/ CopyDone(d)
  \/ PumpWrites \/ PumpFails \/ CtxSeen \/ Return

Spec == Init /\ [][Next]_vars

(* Goroutines that can move do.  No peer has to read, to send, to close or *)
(* to finish a handshake.                                                  *)
Fairness ==
  /\ \A d \in Copies : WF_vars(Read(d)) /\ WF_vars(CopyEnds(d)) /\ WF_vars(CopyDone(d))
  /\ WF_vars(PumpFails) /\ WF_vars(CtxSeen) /\ WF_vars(Return)

FairSpec == Spec /\ Fairness

-----------------------------------------------------------------------------
(* The context ended after one copy and before the other: each Once is     *)
(* spent on the connection the other one was for.                          *)
OnceCrossed == "ctx" \in seen /\ ~(closed["a"] /\ closed["b"])

(* The copy d waits for a peer, or for a pump, that does not read.         *)
Stalled(d) == copy[d] = "writing" /\ ~closed[To(d)] /\ ~gone[To(d)]

(* Copy2 returns once both connections are closed, whoever is blocked.     *)
(* Once a copy has ended or the context is done, and if no peer stays      *)
(* without reading, it returns with both closed, whatever ends first; with *)
(* one exception: the dialer leaks a connection when the context ends      *)
(* between the two copies (the Onces of Copy2).  For the same reason a     *)
(* peer that does not read can keep the other copy, and Copy2, for ever,   *)
(* even when the context ends.                                             *)
SpliceEnds ==
  /\ (\A e \in Conns : closed[e]) ~> (stage = "returned")
  /\ (\A d \in Copies : []<>(~Stalled(d))) =>
       ((seen # {}) ~> (stage = "returned"
                         /\ ((\A e \in Conns : closed[e]) \/ (owner = "dialer" /\ OnceCrossed))))

(* When a copy ends cleanly before anything else does, what its source had *)
(* sent has reached the other peer, except for the one unit that may be in *)
(* the pump of a WSStream when it is closed (Copy2, WSStream.Write, Close).*)
LossBound ==
  /\ first = "ab" => owed["b"] = 0
  /\ first = "ba" => owed["a"] <= IF owner = "dialer" THEN 1 ELSE 0
=============================================================================
