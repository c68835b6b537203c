----------------------------- MODULE ProxyLife -----------------------------
(***************************************************************************)
(* What a proxyhub.Proxy promises the hub and the handlers that use it: it *)
(* gets one reason to end and keeps it; it announces its end (CloseChan)   *)
(* only once the reason is known; it is over (Wait returns) only when no   *)
(* connection it accepted is still being served, unless the whole process  *)
(* is being torn down; and it accepts nothing after that.                  *)
(***************************************************************************)

CONSTANTS Conns,    \* connections handed to the proxy
          Reasons,  \* the errors a proxy may end with
          NoReason  \* nil

VARIABLES life,     \* "open", "ending" (CloseChan is closed), "over" (Wait returns)
          reason,   \* what Err returns
          active,   \* connections being served
          torn      \* the context of the process is done

vars == <<life, reason, active, torn>>

Init ==
  /\ life = "open"
  /\ reason = NoReason
  /\ active = {}
  /\ torn = FALSE

(* The first error is kept.                                                *)
Fail ==
  /\ reason = NoReason
  /\ reason' \in Reasons
  /\ UNCHANGED <<life, active, torn>>

Announce ==
  /\ life = "open" /\ reason # NoReason
  /\ life' = "ending"
  /\ UNCHANGED <<reason, active, torn>>

Finish ==
  /\ life = "ending" /\ (active = {} \/ torn)
  /\ life' = "over"
  /\ UNCHANGED <<reason, active, torn>>

(* A connection may still be taken while the end is being noticed.         *)
Accept(c) ==
  /\ life # "over" /\ c \notin active
  /\ active' = active \union {c}
  /\ UNCHANGED <<life, reason, torn>>

Release(c) ==
  /\ c \in active
  /\ active' = active \ {c}
  /\ UNCHANGED <<life, reason, torn>>

TearDown ==
  /\ ~torn
  /\ torn' = TRUE
  /\ UNCHANGED <<life, reason, active>>

Next == Fail \/ Announce \/ Finish \/ TearDown
        \/ \E c \in Conns : Accept(c) \/ Release(c)

Spec == Init /\ [][Next]_vars
=============================================================================
