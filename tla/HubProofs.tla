----------------------------- MODULE HubProofs -----------------------------
(***************************************************************************)
(* Proofs about modules Hub and HubCatalog, for any proxies, IDs and       *)
(* callers of Close: the invariants and the action property of the hub,    *)
(* and what a settled catalog lists.                                       *)
(*                                                                         *)
(* The registry alone says too little: an open proxy need not be in it     *)
(* while run replaces it, and a registered one may be over.  The invariant *)
(* follows a proxy through the three goroutines that can end it: run while *)
(* it replaces it (Replacing), its watcher (Watched), and the goroutine    *)
(* that stops it (Stopping).  A proxy that was added and is open is in the *)
(* registry, or is the one being replaced (OpenIsKept); a proxy whose      *)
(* removal was reported was reported by one of the two, which is then done *)
(* (RemovedBy).                                                            *)
(*                                                                         *)
(* For the catalog, Published says how far the publisher of a proxy has    *)
(* come, and Listed what an entry owes to the publishers of its ID: every  *)
(* entry has one that will delete it, and only publishers whose Del is     *)
(* still to come can spoil the entry of another.                           *)
(***************************************************************************)
EXTENDS HubCatalog, TLAPS

(* A proxy that was added has a watcher; a joined one was added or is the  *)
(* one run has in hand; only added ones are in the registry.               *)
Roster ==
  /\ \A p \in Proxies : p \in added <=> watcher[p] # "none"
  /\ \A p \in Proxies : join[p] = "joined" <=> p \in added \/ p = cur
  /\ cur \notin added
  /\ \A p \in Proxies : Registered(p) => p \in added

(* While run replaces a proxy, the ID has no entry, and once it only waits *)
(* the old proxy is closed.                                                *)
Replacing ==
  /\ old # None => old \in added /\ IdOf[old] = IdOf[cur] /\ proxies[IdOf[cur]] = None
  /\ pc = "waitOld" => life[old] # "open"

(* Nobody but run, for its successor, takes an open proxy out of the       *)
(* registry while the process lives.                                       *)
OpenIsKept ==
  \A p \in added : life[p] = "open" => Registered(p) \/ p = old \/ ctxDone

(* HandleJoinProxy closes a proxy it refuses.                              *)
Refused == \A p \in Proxies : join[p] = "refused" => life[p] # "open"

(* A watcher reports a proxy that is over, or gives up with the context.   *)
Watched ==
  \A p \in Proxies : watcher[p] = "sending" => life[p] = "over" \/ ctxDone

(* Close and the end of run: the flag precedes the channel, the channel    *)
(* the goroutines that stop proxies; those are the proxies left in the     *)
(* registry, and run waits for all of them.                                *)
Stopping ==
  /\ shutdownCh => shutdown
  /\ \A k \in Closers : closer[k] # "idle" => shutdown
  /\ pc \in {"stopping", "done"} => shutdownCh
  /\ \A p \in Proxies : stop[p] # "none" <=> pc \in {"stopping", "done"} /\ Registered(p)
  /\ \A p \in Proxies : stop[p] \in {"wait", "done"} => life[p] # "open"
  /\ pc = "done" => \A p \in Proxies : stop[p] \in {"none", "done"}

(* A proxy that was closed has an error, ErrShutdown only from the hub's   *)
(* own shutdown or the end of the process.                                 *)
Reasons ==
  /\ \A p \in Proxies : life[p] # "open" => err[p] # "nil"
  /\ \A p \in Proxies : err[p] = "ErrShutdown" => shutdown \/ ctxDone

(* A removal is reported once, by the goroutine that stopped the proxy or  *)
(* after its watcher's report took it out of the registry.                 *)
RemovedBy ==
  \A p \in Proxies : removed[p] # 0 =>
     /\ removed[p] = 1
     /\ stop[p] = "done" \/ (watcher[p] = "done" /\ ~Registered(p))

(* The inductive invariant of the hub.                                     *)
IInv == TypeOK /\ Roster /\ Replacing /\ OpenIsKept /\ Refused /\ Watched /\ Stopping
        /\ Reasons /\ RemovedBy /\ ErrorMeansTeardown

(* A publisher between its Add and its Del.                                *)
Listing == {"watching", "updating", "deleting"}

(* A publisher runs for an added proxy; unless a change is announced, what *)
(* it sent is current; it deletes only when its proxy has been closed.     *)
Published ==
  \A p \in Proxies :
    /\ pub[p] # "none" => p \in added
    /\ pub[p] \in {"adding", "watching", "updating"} => changed[p] \/ sent[p] = info[p]
    /\ pub[p] \in {"deleting", "done"} => life[p] \in {"ending", "over"} \/ ctxDone

(* The publishers of all rivals of p have ended; p never had a rival.      *)
Alone(p) == \A q \in added : q # p /\ IdOf[q] = IdOf[p] => pub[q] = "done"
Sole(p) == \A q \in added : IdOf[q] = IdOf[p] => q = p

(* An entry has a publisher that will delete it; that of a proxy whose     *)
(* rivals are gone is missing or what its publisher sent; that of a proxy  *)
(* that never had a rival is there.                                        *)
Listed ==
  ctxDone \/
  /\ \A id \in Ids : catalog[id] # None =>
        \E p \in Proxies : IdOf[p] = id /\ pub[p] \in Listing
  /\ \A p \in Proxies : pub[p] = "watching" /\ Alone(p) => catalog[IdOf[p]] \in {None, sent[p]}
  /\ \A p \in Proxies : pub[p] \in Listing /\ Sole(p) => catalog[IdOf[p]] # None

(* The inductive invariant of the hub and the catalog together.            *)
CatalogIInv == IInv /\ CatalogTypeOK /\ Published /\ Listed

-----------------------------------------------------------------------------
(* The initial state satisfies the inductive invariant.                    *)
LEMMA InitIInv == Init => IInv
<1> SUFFICES ASSUME Init PROVE IInv
  OBVIOUS
<1> USE IdOfAssumption, NoneAssumption DEF Init
<1>1. TypeOK
  BY DEF TypeOK, Errors, Whys
<1>2. Roster /\ Replacing
  BY DEF Roster, Replacing, Registered
<1>3. OpenIsKept /\ Refused /\ Watched
  BY DEF OpenIsKept, Refused, Watched
<1>4. Stopping /\ Reasons
  BY DEF Stopping, Reasons
<1>5. RemovedBy /\ ErrorMeansTeardown
  BY DEF RemovedBy, ErrorMeansTeardown
<1> QED
  BY <1>1, <1>2, <1>3, <1>4, <1>5 DEF IInv

(* The only errors classifyProxyRemoval does not tell apart are that of    *)
(* the context and a shutdown of the proxy while the hub runs.             *)
LEMMA ErrorClass ==
  ASSUME NEW e \in Errors \union {"ctxErr"}, NEW hubShuttingDown \in BOOLEAN,
         classifyProxyRemoval(e, hubShuttingDown) = "error"
  PROVE  e \in {"ctxErr", "nil"} \/ (e = "ErrShutdown" /\ ~hubShuttingDown)
BY DEF classifyProxyRemoval, Errors

(* Adding a proxy, step by step: while an old proxy is being replaced it   *)
(* is the only one outside the registry that may be open.                  *)
LEMMA AddingIInv ==
  ASSUME IInv, Adding
  PROVE  IInv'
<1> USE IdOfAssumption, NoneAssumption DEF IInv, TypeOK
<1>1. CASE RunInsert
  <2>1. TypeOK'
    BY <1>1 DEF RunInsert, proxyVars, closeVars
  <2>2. Roster'
    BY <1>1 DEF RunInsert, proxyVars, closeVars, Roster, Registered
  <2>3. Replacing'
    BY <1>1 DEF RunInsert, proxyVars, closeVars, Replacing
  <2>4. OpenIsKept'
    BY <1>1 DEF RunInsert, proxyVars, closeVars, OpenIsKept, Registered
  <2>5. Watched'
    BY <1>1 DEF RunInsert, proxyVars, closeVars, Watched
  <2>6. Stopping'
    BY <1>1 DEF RunInsert, proxyVars, closeVars, Stopping, Registered
  <2>7. RemovedBy'
    BY <1>1 DEF RunInsert, proxyVars, closeVars, RemovedBy, Roster, Registered
  <2>8. Refused' /\ Reasons' /\ ErrorMeansTeardown'
    BY <1>1 DEF RunInsert, proxyVars, closeVars, Refused, Reasons, ErrorMeansTeardown
  <2> QED
    BY <2>1, <2>2, <2>3, <2>4, <2>5, <2>6, <2>7, <2>8
<1>2. CASE RunEvict
  <2>1. TypeOK'
    BY <1>2 DEF RunEvict, proxyVars, endVars, closeVars
  <2>2. Roster'
    BY <1>2 DEF RunEvict, proxyVars, endVars, closeVars, Roster, Registered
  <2>3. Replacing'
    BY <1>2 DEF RunEvict, proxyVars, endVars, closeVars, Replacing, Roster, Registered
  <2>4. OpenIsKept'
    BY <1>2 DEF RunEvict, proxyVars, endVars, closeVars, OpenIsKept, Registered
  <2>5. Stopping'
    BY <1>2 DEF RunEvict, proxyVars, endVars, closeVars, Stopping, Registered
  <2>6. RemovedBy'
    BY <1>2 DEF RunEvict, proxyVars, endVars, closeVars, RemovedBy, Registered
  <2>7. Refused' /\ Watched' /\ Reasons' /\ ErrorMeansTeardown'
    BY <1>2 DEF RunEvict, proxyVars, endVars, closeVars, Refused, Watched, Reasons,
           ErrorMeansTeardown
  <2> QED
    BY <2>1, <2>2, <2>3, <2>4, <2>5, <2>6, <2>7
<1>3. CASE RunDisconnected
  <2>1. TypeOK'
    BY <1>3 DEF RunDisconnected, proxyVars, endVars, closeVars
  <2>2. Replacing'
    BY <1>3 DEF RunDisconnected, proxyVars, endVars, closeVars, Replacing
  <2>3. Stopping'
    BY <1>3 DEF RunDisconnected, proxyVars, endVars, closeVars, Stopping, Registered
  <2>4. Roster' /\ OpenIsKept' /\ Refused' /\ Watched' /\ Reasons'
        /\ RemovedBy' /\ ErrorMeansTeardown'
    BY <1>3 DEF RunDisconnected, proxyVars, endVars, closeVars, Roster, OpenIsKept, Refused,
           Watched, Reasons, RemovedBy, ErrorMeansTeardown, Registered
  <2> QED
    BY <2>1, <2>2, <2>3, <2>4
<1>4. CASE RunCloseOld
  <2>1. TypeOK'
    BY <1>4 DEF RunCloseOld, endVars, closeVars, proxyVars, Mark, Errors
  <2>2. Replacing'
    BY <1>4 DEF RunCloseOld, endVars, closeVars, proxyVars, Mark, Replacing
  <2>3. OpenIsKept'
    BY <1>4 DEF RunCloseOld, endVars, closeVars, proxyVars, Mark, OpenIsKept, Registered
  <2>4. Refused'
    BY <1>4 DEF RunCloseOld, endVars, closeVars, proxyVars, Mark, Refused
  <2>5. Watched'
    BY <1>4 DEF RunCloseOld, endVars, closeVars, proxyVars, Mark, Watched
  <2>6. Stopping'
    BY <1>4 DEF RunCloseOld, endVars, closeVars, proxyVars, Mark, Stopping, Registered
  <2>7. Reasons'
    BY <1>4 DEF RunCloseOld, endVars, closeVars, proxyVars, Mark, Reasons
  <2>8. Roster' /\ RemovedBy' /\ ErrorMeansTeardown'
    BY <1>4 DEF RunCloseOld, endVars, closeVars, proxyVars, Mark, Roster, RemovedBy,
           ErrorMeansTeardown, Registered
  <2> QED
    BY <2>1, <2>2, <2>3, <2>4, <2>5, <2>6, <2>7, <2>8
<1>5. CASE RunOldOver
  <2>1. TypeOK'
    BY <1>5 DEF RunOldOver, proxyVars, endVars, closeVars
  <2>2. Replacing'
    BY <1>5 DEF RunOldOver, proxyVars, endVars, closeVars, Replacing
  <2>3. OpenIsKept'
    BY <1>5 DEF RunOldOver, proxyVars, endVars, closeVars, OpenIsKept, Registered
  <2>4. Stopping'
    BY <1>5 DEF RunOldOver, proxyVars, endVars, closeVars, Stopping, Registered
  <2>5. Roster' /\ Refused' /\ Watched' /\ Reasons' /\ RemovedBy'
        /\ ErrorMeansTeardown'
    BY <1>5 DEF RunOldOver, proxyVars, endVars, closeVars, Roster, Refused, Watched, Reasons,
           RemovedBy, ErrorMeansTeardown, Registered
  <2> QED
    BY <2>1, <2>2, <2>3, <2>4, <2>5
<1> QED
  BY <1>1, <1>2, <1>3, <1>4, <1>5 DEF Adding

(* The handler of /join: a join is refused only when the hub stops or the  *)
(* process is torn down, and the refused proxy is closed.                  *)
LEMMA JoinIInv ==
  ASSUME IInv, NEW p \in Proxies, JoinCall(p) \/ JoinRefused(p) \/ RunNew(p)
  PROVE  IInv'
<1> USE IdOfAssumption, NoneAssumption DEF IInv, TypeOK
<1>1. CASE JoinCall(p)
  <2>1. TypeOK'
    BY <1>1 DEF JoinCall, proxyVars, runVars, endVars, closeVars
  <2>2. Roster'
    BY <1>1 DEF JoinCall, proxyVars, runVars, endVars, closeVars, Roster, Registered
  <2>3. Refused'
    BY <1>1 DEF JoinCall, proxyVars, runVars, endVars, closeVars, Refused
  <2>4. Replacing' /\ OpenIsKept' /\ Watched' /\ Stopping' /\ Reasons'
        /\ RemovedBy' /\ ErrorMeansTeardown'
    BY <1>1 DEF JoinCall, proxyVars, runVars, endVars, closeVars, Replacing, OpenIsKept,
           Watched, Stopping, Reasons, RemovedBy, ErrorMeansTeardown, Registered
  <2> QED
    BY <2>1, <2>2, <2>3, <2>4
<1>2. CASE JoinRefused(p)
  <2>1. TypeOK'
    BY <1>2 DEF JoinRefused, runVars, endVars, closeVars, proxyVars, Mark, Errors
  <2>2. Roster'
    BY <1>2 DEF JoinRefused, runVars, endVars, closeVars, proxyVars, Mark, Roster,
           Registered
  <2>3. Replacing'
    BY <1>2 DEF JoinRefused, runVars, endVars, closeVars, proxyVars, Mark, Replacing
  <2>4. OpenIsKept'
    BY <1>2 DEF JoinRefused, runVars, endVars, closeVars, proxyVars, Mark, OpenIsKept,
           Registered
  <2>5. Refused'
    BY <1>2 DEF JoinRefused, runVars, endVars, closeVars, proxyVars, Mark, Refused
  <2>6. Watched'
    BY <1>2 DEF JoinRefused, runVars, endVars, closeVars, proxyVars, Mark, Watched
  <2>7. Stopping'
    BY <1>2 DEF JoinRefused, runVars, endVars, closeVars, proxyVars, Mark, Stopping,
           Registered
  <2>8. Reasons'
    BY <1>2 DEF JoinRefused, runVars, endVars, closeVars, proxyVars, Mark, Reasons, Stopping,
           Registered
  <2>9. RemovedBy' /\ ErrorMeansTeardown'
    BY <1>2 DEF JoinRefused, runVars, endVars, closeVars, proxyVars, Mark, RemovedBy,
           ErrorMeansTeardown, Registered
  <2> QED
    BY <2>1, <2>2, <2>3, <2>4, <2>5, <2>6, <2>7, <2>8, <2>9
<1>3. CASE RunNew(p)
  <2>1. TypeOK'
    BY <1>3 DEF RunNew, proxyVars, endVars, closeVars
  <2>2. Roster'
    BY <1>3 DEF RunNew, proxyVars, endVars, closeVars, Roster, Registered
  <2>3. Replacing'
    BY <1>3 DEF RunNew, proxyVars, endVars, closeVars, Replacing
  <2>4. Refused'
    BY <1>3 DEF RunNew, proxyVars, endVars, closeVars, Refused
  <2>5. Stopping'
    BY <1>3 DEF RunNew, proxyVars, endVars, closeVars, Stopping, Registered
  <2>6. OpenIsKept' /\ Watched' /\ Reasons' /\ RemovedBy' /\ ErrorMeansTeardown'
    BY <1>3 DEF RunNew, proxyVars, endVars, closeVars, OpenIsKept, Watched, Reasons,
           RemovedBy, ErrorMeansTeardown, Registered
  <2> QED
    BY <2>1, <2>2, <2>3, <2>4, <2>5, <2>6
<1> QED
  BY <1>1, <1>2, <1>3

(* What a proxy does by itself only moves it towards its end.              *)
LEMMA ProxyIInv ==
  ASSUME IInv, NEW p \in Proxies, SessionEnds(p) \/ NoticeSession(p) \/ EndItself(p) \/ Announce(p) \/ Finish(p)
  PROVE  IInv'
<1> USE IdOfAssumption, NoneAssumption DEF IInv, TypeOK
<1>1. CASE SessionEnds(p)
  <2>1. TypeOK'
    BY <1>1 DEF SessionEnds, runVars, endVars, closeVars
  <2>2. Roster' /\ Replacing' /\ OpenIsKept' /\ Refused' /\ Watched'
        /\ Stopping' /\ Reasons' /\ RemovedBy' /\ ErrorMeansTeardown'
    BY <1>1 DEF SessionEnds, runVars, endVars, closeVars, Roster, Replacing, OpenIsKept,
           Refused, Watched, Stopping, Reasons, RemovedBy, ErrorMeansTeardown, Registered
  <2> QED
    BY <2>1, <2>2
<1>2. CASE NoticeSession(p)
  <2>1. TypeOK'
    BY <1>2 DEF NoticeSession, runVars, endVars, closeVars, Errors
  <2>2. Reasons'
    BY <1>2 DEF NoticeSession, runVars, endVars, closeVars, Reasons
  <2>3. Roster' /\ Replacing' /\ OpenIsKept' /\ Refused' /\ Watched'
        /\ Stopping' /\ RemovedBy' /\ ErrorMeansTeardown'
    BY <1>2 DEF NoticeSession, runVars, endVars, closeVars, Roster, Replacing, OpenIsKept,
           Refused, Watched, Stopping, RemovedBy, ErrorMeansTeardown, Registered
  <2> QED
    BY <2>1, <2>2, <2>3
<1>3. CASE EndItself(p)
  <2>1. TypeOK'
    BY <1>3 DEF EndItself, runVars, endVars, closeVars, Mark, Errors
  <2>2. Replacing'
    BY <1>3 DEF EndItself, runVars, endVars, closeVars, Mark, Replacing
  <2>3. OpenIsKept'
    BY <1>3 DEF EndItself, runVars, endVars, closeVars, Mark, OpenIsKept, Registered
  <2>4. Refused'
    BY <1>3 DEF EndItself, runVars, endVars, closeVars, Mark, Refused
  <2>5. Watched'
    BY <1>3 DEF EndItself, runVars, endVars, closeVars, Mark, Watched
  <2>6. Stopping'
    BY <1>3 DEF EndItself, runVars, endVars, closeVars, Mark, Stopping, Registered
  <2>7. Reasons'
    BY <1>3 DEF EndItself, runVars, endVars, closeVars, Mark, Reasons
  <2>8. Roster' /\ RemovedBy' /\ ErrorMeansTeardown'
    BY <1>3 DEF EndItself, runVars, endVars, closeVars, Mark, Roster, RemovedBy,
           ErrorMeansTeardown, Registered
  <2> QED
    BY <2>1, <2>2, <2>3, <2>4, <2>5, <2>6, <2>7, <2>8
<1>4. CASE Announce(p)
  <2>1. TypeOK'
    BY <1>4 DEF Announce, runVars, endVars, closeVars
  <2>2. Replacing'
    BY <1>4 DEF Announce, runVars, endVars, closeVars, Replacing
  <2>3. OpenIsKept'
    BY <1>4 DEF Announce, runVars, endVars, closeVars, OpenIsKept, Registered
  <2>4. Refused'
    BY <1>4 DEF Announce, runVars, endVars, closeVars, Refused
  <2>5. Watched'
    BY <1>4 DEF Announce, runVars, endVars, closeVars, Watched
  <2>6. Stopping'
    BY <1>4 DEF Announce, runVars, endVars, closeVars, Stopping, Registered
  <2>7. Reasons'
    BY <1>4 DEF Announce, runVars, endVars, closeVars, Reasons
  <2>8. Roster' /\ RemovedBy' /\ ErrorMeansTeardown'
    BY <1>4 DEF Announce, runVars, endVars, closeVars, Roster, RemovedBy, ErrorMeansTeardown,
           Registered
  <2> QED
    BY <2>1, <2>2, <2>3, <2>4, <2>5, <2>6, <2>7, <2>8
<1>5. CASE Finish(p)
  <2>1. TypeOK'
    BY <1>5 DEF Finish, runVars, endVars, closeVars
  <2>2. Replacing'
    BY <1>5 DEF Finish, runVars, endVars, closeVars, Replacing
  <2>3. OpenIsKept'
    BY <1>5 DEF Finish, runVars, endVars, closeVars, OpenIsKept, Registered
  <2>4. Refused'
    BY <1>5 DEF Finish, runVars, endVars, closeVars, Refused
  <2>5. Watched'
    BY <1>5 DEF Finish, runVars, endVars, closeVars, Watched
  <2>6. Stopping'
    BY <1>5 DEF Finish, runVars, endVars, closeVars, Stopping, Registered
  <2>7. Reasons'
    BY <1>5 DEF Finish, runVars, endVars, closeVars, Reasons
  <2>8. Roster' /\ RemovedBy' /\ ErrorMeansTeardown'
    BY <1>5 DEF Finish, runVars, endVars, closeVars, Roster, RemovedBy, ErrorMeansTeardown,
           Registered
  <2> QED
    BY <2>1, <2>2, <2>3, <2>4, <2>5, <2>6, <2>7, <2>8
<1> QED
  BY <1>1, <1>2, <1>3, <1>4, <1>5

(* A watcher reports a proxy that is over, or one that the process has     *)
(* given up, and run removes it at most once.                              *)
LEMMA WatchIInv ==
  ASSUME IInv, NEW p \in Proxies, WatchReturn(p) \/ WatchAbandon(p) \/ RunRemoval(p)
  PROVE  IInv'
<1> USE IdOfAssumption, NoneAssumption DEF IInv, TypeOK
<1>1. CASE WatchReturn(p)
  <2>1. TypeOK'
    BY <1>1 DEF WatchReturn, proxyVars, runVars, closeVars, Whys, classifyProxyRemoval
  <2>2. Roster'
    BY <1>1 DEF WatchReturn, proxyVars, runVars, closeVars, Roster, Registered
  <2>3. Watched'
    BY <1>1 DEF WatchReturn, proxyVars, runVars, closeVars, Watched
  <2>4. RemovedBy'
    BY <1>1 DEF WatchReturn, proxyVars, runVars, closeVars, RemovedBy, Registered
  <2>5. ErrorMeansTeardown'
    <3> DEFINE e == IF err[p] = "nil" THEN "ctxErr" ELSE err[p]
    <3>1. why' = [why EXCEPT ![p] = classifyProxyRemoval(e, shutdown)] /\ ctxDone' = ctxDone
      BY <1>1 DEF WatchReturn
    <3>2. e \in Errors \union {"ctxErr"} /\ e # "nil"
      OBVIOUS
    <3>3. e = "ctxErr" => ctxDone
      <4>1. life[p] = "over" \/ ctxDone
        BY <1>1 DEF WatchReturn
      <4> QED
        BY <4>1 DEF Reasons, Errors
    <3>4. e = "ErrShutdown" => shutdown \/ ctxDone
      BY DEF Reasons
    <3>5. classifyProxyRemoval(e, shutdown) = "error" => ctxDone
      <4> HIDE DEF e
      <4> QED
        BY <3>2, <3>3, <3>4, ErrorClass
    <3> HIDE DEF e
    <3> QED
      BY <3>1, <3>5 DEF ErrorMeansTeardown
  <2>6. Replacing' /\ OpenIsKept' /\ Refused' /\ Stopping' /\ Reasons'
    BY <1>1 DEF WatchReturn, proxyVars, runVars, closeVars, Replacing, OpenIsKept, Refused,
           Stopping, Reasons, Registered
  <2> QED
    BY <2>1, <2>2, <2>3, <2>4, <2>5, <2>6
<1>2. CASE WatchAbandon(p)
  <2>1. TypeOK'
    BY <1>2 DEF WatchAbandon, proxyVars, runVars, closeVars
  <2>2. Roster'
    BY <1>2 DEF WatchAbandon, proxyVars, runVars, closeVars, Roster, Registered
  <2>3. Watched'
    BY <1>2 DEF WatchAbandon, proxyVars, runVars, closeVars, Watched
  <2>4. RemovedBy'
    BY <1>2 DEF WatchAbandon, proxyVars, runVars, closeVars, RemovedBy, Registered
  <2>5. Replacing' /\ OpenIsKept' /\ Refused' /\ Stopping' /\ Reasons'
        /\ ErrorMeansTeardown'
    BY <1>2 DEF WatchAbandon, proxyVars, runVars, closeVars, Replacing, OpenIsKept, Refused,
           Stopping, Reasons, ErrorMeansTeardown, Registered
  <2> QED
    BY <2>1, <2>2, <2>3, <2>4, <2>5
<1>3. CASE RunRemoval(p)
  <2>1. TypeOK'
    BY <1>3 DEF RunRemoval, proxyVars, closeVars
  <2>2. Roster'
    BY <1>3 DEF RunRemoval, proxyVars, closeVars, Roster, Registered
  <2>3. Replacing'
    BY <1>3 DEF RunRemoval, proxyVars, closeVars, Replacing
  <2>4. OpenIsKept'
    BY <1>3 DEF RunRemoval, proxyVars, closeVars, OpenIsKept, Watched, Registered
  <2>5. Watched'
    BY <1>3 DEF RunRemoval, proxyVars, closeVars, Watched
  <2>6. Stopping'
    BY <1>3 DEF RunRemoval, proxyVars, closeVars, Stopping, Registered
  <2>7. RemovedBy'
    BY <1>3 DEF RunRemoval, proxyVars, closeVars, RemovedBy, Stopping, Registered
  <2>8. Refused' /\ Reasons' /\ ErrorMeansTeardown'
    BY <1>3 DEF RunRemoval, proxyVars, closeVars, Refused, Reasons, ErrorMeansTeardown
  <2> QED
    BY <2>1, <2>2, <2>3, <2>4, <2>5, <2>6, <2>7, <2>8
<1> QED
  BY <1>1, <1>2, <1>3

(* The goroutines that disconnect the registered proxies when the hub      *)
(* stops: each removes a proxy no watcher has removed.                     *)
LEMMA StopProxyIInv ==
  ASSUME IInv, NEW p \in Proxies, StopDisconnected(p) \/ StopClose(p) \/ StopOver(p)
  PROVE  IInv'
<1> USE IdOfAssumption, NoneAssumption DEF IInv, TypeOK
<1>1. CASE StopDisconnected(p)
  <2>1. TypeOK'
    BY <1>1 DEF StopDisconnected, proxyVars, runVars, closeVars
  <2>2. Stopping'
    BY <1>1 DEF StopDisconnected, proxyVars, runVars, closeVars, Stopping, Registered
  <2>3. RemovedBy'
    BY <1>1 DEF StopDisconnected, proxyVars, runVars, closeVars, RemovedBy, Registered
  <2>4. Roster' /\ Replacing' /\ OpenIsKept' /\ Refused' /\ Watched'
        /\ Reasons' /\ ErrorMeansTeardown'
    BY <1>1 DEF StopDisconnected, proxyVars, runVars, closeVars, Roster, Replacing,
           OpenIsKept, Refused, Watched, Reasons, ErrorMeansTeardown, Registered
  <2> QED
    BY <2>1, <2>2, <2>3, <2>4
<1>2. CASE StopClose(p)
  <2>1. TypeOK'
    BY <1>2 DEF StopClose, runVars, closeVars, proxyVars, Mark, Errors
  <2>2. Replacing'
    BY <1>2 DEF StopClose, runVars, closeVars, proxyVars, Mark, Replacing
  <2>3. OpenIsKept'
    BY <1>2 DEF StopClose, runVars, closeVars, proxyVars, Mark, OpenIsKept, Registered
  <2>4. Refused'
    BY <1>2 DEF StopClose, runVars, closeVars, proxyVars, Mark, Refused
  <2>5. Watched'
    BY <1>2 DEF StopClose, runVars, closeVars, proxyVars, Mark, Watched
  <2>6. Stopping'
    BY <1>2 DEF StopClose, runVars, closeVars, proxyVars, Mark, Stopping, Registered
  <2>7. Reasons'
    BY <1>2 DEF StopClose, runVars, closeVars, proxyVars, Mark, Reasons, Stopping,
           Registered
  <2>8. RemovedBy'
    BY <1>2 DEF StopClose, runVars, closeVars, proxyVars, Mark, RemovedBy, Stopping,
           Registered
  <2>9. Roster' /\ ErrorMeansTeardown'
    BY <1>2 DEF StopClose, runVars, closeVars, proxyVars, Mark, Roster, ErrorMeansTeardown,
           Registered
  <2> QED
    BY <2>1, <2>2, <2>3, <2>4, <2>5, <2>6, <2>7, <2>8, <2>9
<1>3. CASE StopOver(p)
  <2>1. TypeOK'
    BY <1>3 DEF StopOver, proxyVars, runVars, closeVars
  <2>2. Stopping'
    BY <1>3 DEF StopOver, proxyVars, runVars, closeVars, Stopping, Registered
  <2>3. RemovedBy'
    BY <1>3 DEF StopOver, proxyVars, runVars, closeVars, RemovedBy, Stopping, Registered
  <2>4. Roster' /\ Replacing' /\ OpenIsKept' /\ Refused' /\ Watched'
        /\ Reasons' /\ ErrorMeansTeardown'
    BY <1>3 DEF StopOver, proxyVars, runVars, closeVars, Roster, Replacing, OpenIsKept,
           Refused, Watched, Reasons, ErrorMeansTeardown, Registered
  <2> QED
    BY <2>1, <2>2, <2>3, <2>4
<1> QED
  BY <1>1, <1>2, <1>3

(* The loop of run ends, run returns, the context ends.                    *)
LEMMA StopIInv ==
  ASSUME IInv, RunStop \/ RunDone \/ CtxDone
  PROVE  IInv'
<1> USE IdOfAssumption, NoneAssumption DEF IInv, TypeOK
<1>1. CASE RunStop
  <2>1. TypeOK'
    BY <1>1 DEF RunStop, proxyVars, closeVars
  <2>2. Replacing'
    BY <1>1 DEF RunStop, proxyVars, closeVars, Replacing
  <2>3. Stopping'
    BY <1>1 DEF RunStop, proxyVars, closeVars, Stopping, Registered
  <2>4. RemovedBy'
    BY <1>1 DEF RunStop, proxyVars, closeVars, RemovedBy, Stopping, Registered
  <2>5. Roster' /\ OpenIsKept' /\ Refused' /\ Watched' /\ Reasons'
        /\ ErrorMeansTeardown'
    BY <1>1 DEF RunStop, proxyVars, closeVars, Roster, OpenIsKept, Refused, Watched, Reasons,
           ErrorMeansTeardown, Registered
  <2> QED
    BY <2>1, <2>2, <2>3, <2>4, <2>5
<1>2. CASE RunDone
  <2>1. TypeOK'
    BY <1>2 DEF RunDone, proxyVars, endVars, closeVars
  <2>2. Replacing'
    BY <1>2 DEF RunDone, proxyVars, endVars, closeVars, Replacing
  <2>3. Stopping'
    BY <1>2 DEF RunDone, proxyVars, endVars, closeVars, Stopping, Registered
  <2>4. Roster' /\ OpenIsKept' /\ Refused' /\ Watched' /\ Reasons'
        /\ RemovedBy' /\ ErrorMeansTeardown'
    BY <1>2 DEF RunDone, proxyVars, endVars, closeVars, Roster, OpenIsKept, Refused, Watched,
           Reasons, RemovedBy, ErrorMeansTeardown, Registered
  <2> QED
    BY <2>1, <2>2, <2>3, <2>4
<1>3. CASE CtxDone
  <2>1. TypeOK'
    BY <1>3 DEF CtxDone, proxyVars, runVars, endVars, closeVars
  <2>2. OpenIsKept'
    BY <1>3 DEF CtxDone, proxyVars, runVars, endVars, closeVars, OpenIsKept, Registered
  <2>3. Watched'
    BY <1>3 DEF CtxDone, proxyVars, runVars, endVars, closeVars, Watched
  <2>4. Reasons'
    BY <1>3 DEF CtxDone, proxyVars, runVars, endVars, closeVars, Reasons
  <2>5. ErrorMeansTeardown'
    BY <1>3 DEF CtxDone, proxyVars, runVars, endVars, closeVars, ErrorMeansTeardown
  <2>6. Roster' /\ Replacing' /\ Refused' /\ Stopping' /\ RemovedBy'
    BY <1>3 DEF CtxDone, proxyVars, runVars, endVars, closeVars, Roster, Replacing, Refused,
           Stopping, RemovedBy, Registered
  <2> QED
    BY <2>1, <2>2, <2>3, <2>4, <2>5, <2>6
<1> QED
  BY <1>1, <1>2, <1>3

(* Close marks the hub before it signals run.                              *)
LEMMA CloseIInv ==
  ASSUME IInv, NEW k \in Closers, CloseMark(k) \/ CloseSignal(k) \/ CloseWait(k)
  PROVE  IInv'
<1> USE IdOfAssumption, NoneAssumption DEF IInv, TypeOK
<1>1. CASE CloseMark(k)
  <2>1. TypeOK'
    BY <1>1 DEF CloseMark, proxyVars, runVars, endVars
  <2>2. Stopping'
    BY <1>1 DEF CloseMark, proxyVars, runVars, endVars, Stopping, Registered
  <2>3. Reasons'
    BY <1>1 DEF CloseMark, proxyVars, runVars, endVars, Reasons
  <2>4. Roster' /\ Replacing' /\ OpenIsKept' /\ Refused' /\ Watched'
        /\ RemovedBy' /\ ErrorMeansTeardown'
    BY <1>1 DEF CloseMark, proxyVars, runVars, endVars, Roster, Replacing, OpenIsKept,
           Refused, Watched, RemovedBy, ErrorMeansTeardown, Registered
  <2> QED
    BY <2>1, <2>2, <2>3, <2>4
<1>2. CASE CloseSignal(k)
  <2>1. TypeOK'
    BY <1>2 DEF CloseSignal, proxyVars, runVars, endVars
  <2>2. Stopping'
    BY <1>2 DEF CloseSignal, proxyVars, runVars, endVars, Stopping, Registered
  <2>3. Roster' /\ Replacing' /\ OpenIsKept' /\ Refused' /\ Watched'
        /\ Reasons' /\ RemovedBy' /\ ErrorMeansTeardown'
    BY <1>2 DEF CloseSignal, proxyVars, runVars, endVars, Roster, Replacing, OpenIsKept,
           Refused, Watched, Reasons, RemovedBy, ErrorMeansTeardown, Registered
  <2> QED
    BY <2>1, <2>2, <2>3
<1>3. CASE CloseWait(k)
  <2>1. TypeOK'
    BY <1>3 DEF CloseWait, proxyVars, runVars, endVars
  <2>2. Stopping'
    BY <1>3 DEF CloseWait, proxyVars, runVars, endVars, Stopping, Registered
  <2>3. Roster' /\ Replacing' /\ OpenIsKept' /\ Refused' /\ Watched'
        /\ Reasons' /\ RemovedBy' /\ ErrorMeansTeardown'
    BY <1>3 DEF CloseWait, proxyVars, runVars, endVars, Roster, Replacing, OpenIsKept,
           Refused, Watched, Reasons, RemovedBy, ErrorMeansTeardown, Registered
  <2> QED
    BY <2>1, <2>2, <2>3
<1> QED
  BY <1>1, <1>2, <1>3

-----------------------------------------------------------------------------
(* A stuttering step changes nothing.                                      *)
LEMMA StutterIInv == IInv /\ UNCHANGED hubVars => IInv'
BY DEF hubVars, IInv, TypeOK, Roster, Replacing, OpenIsKept, Refused, Watched, Stopping,
       Reasons, RemovedBy, ErrorMeansTeardown, Registered

(* Every step of the hub preserves the inductive invariant.                *)
LEMMA NextIInv == IInv /\ [Next]_hubVars => IInv'
<1> SUFFICES ASSUME IInv, [Next]_hubVars PROVE IInv'
  OBVIOUS
<1>1. CASE Adding
  BY <1>1, AddingIInv
<1>2. CASE RunStop \/ RunDone \/ CtxDone
  BY <1>2, StopIInv
<1>3. ASSUME NEW p \in Proxies,
             \/ SessionEnds(p) \/ NoticeSession(p) \/ EndItself(p) \/ Announce(p) \/ Finish(p)
      PROVE  IInv'
  BY <1>3, ProxyIInv
<1>4. ASSUME NEW p \in Proxies, JoinCall(p) \/ JoinRefused(p) \/ RunNew(p) PROVE IInv'
  BY <1>4, JoinIInv
<1>5. ASSUME NEW p \in Proxies, WatchReturn(p) \/ WatchAbandon(p) \/ RunRemoval(p) PROVE IInv'
  BY <1>5, WatchIInv
<1>6. ASSUME NEW p \in Proxies, StopDisconnected(p) \/ StopClose(p) \/ StopOver(p) PROVE IInv'
  BY <1>6, StopProxyIInv
<1>7. ASSUME NEW k \in Closers, CloseMark(k) \/ CloseSignal(k) \/ CloseWait(k) PROVE IInv'
  BY <1>7, CloseIInv
<1>8. CASE UNCHANGED hubVars
  BY <1>8, StutterIInv
<1> QED
  BY <1>1, <1>2, <1>3, <1>4, <1>5, <1>6, <1>7, <1>8 DEF Next

(* IInv holds in every reachable state of the hub.                         *)
LEMMA Invariance == Spec => []IInv
BY InitIInv, NextIInv, PTL DEF Spec

(* The variables of Hub keep their types, and the registry files a proxy   *)
(* under its own ID.                                                       *)
THEOREM TypeCorrect == Spec => []TypeOK
BY Invariance, PTL DEF IInv

(* One node per ID: an open proxy that was added is registered or is the   *)
(* one being replaced (OpenIsKept), and the ID of the one being replaced   *)
(* has no entry (Replacing).                                               *)
THEOREM SoleOpen == Spec => []SoleOpenPerID
<1>1. IInv => SoleOpenPerID
  BY NoneAssumption DEF IInv, TypeOK, OpenIsKept, Replacing, SoleOpenPerID, Registered
<1> QED
  BY <1>1, Invariance, PTL

(* OnProxyRemoved is called at most once for every proxy.                  *)
THEOREM RemovedAtMostOnce == Spec => []RemovedOnce
<1>1. IInv => RemovedOnce
  <2> SUFFICES ASSUME IInv, NEW p \in Proxies PROVE removed[p] <= 1
    BY DEF RemovedOnce
  <2>1. removed[p] = 0 \/ removed[p] = 1
    BY DEF IInv, RemovedBy
  <2> QED
    BY <2>1
<1> QED
  BY <1>1, Invariance, PTL

(* When run has returned no proxy that reached the hub is left open: a     *)
(* joined one is added and, if open, registered, hence stopped.            *)
THEOREM NothingLeftOpen == Spec => []NoneLeftOpen
<1>1. IInv => NoneLeftOpen
  <2> SUFFICES ASSUME IInv, pc = "done", ~ctxDone, NEW p \in Proxies,
                      join[p] \in {"joined", "refused"}
               PROVE  life[p] # "open"
    BY DEF NoneLeftOpen
  <2> USE DEF IInv
  <2>1. CASE join[p] = "refused"
    BY <2>1 DEF Refused
  <2>2. CASE join[p] = "joined"
    <3>1. cur = None /\ old = None
      BY DEF TypeOK
    <3>2. p \in added
      BY <2>2, <3>1, NoneAssumption DEF Roster
    <3>3. life[p] = "open" => Registered(p)
      BY <3>1, <3>2, NoneAssumption DEF OpenIsKept
    <3>4. Registered(p) => stop[p] = "done"
      BY DEF Stopping
    <3> QED
      BY <3>3, <3>4 DEF Stopping
  <2> QED
    BY <2>1, <2>2
<1> QED
  BY <1>1, Invariance, PTL

(* A removal is reported as an error only when the process is torn down.   *)
THEOREM ErrorOnlyAtTeardown == Spec => []ErrorMeansTeardown
BY Invariance, PTL DEF IInv

(* A proxy loses its registration only when it is over, when the process   *)
(* is torn down or to a newcomer with its ID.                              *)
THEOREM EntryLostForCause == Spec => LosesEntryForCause
<1> DEFINE Cause == \A id \in Ids : (proxies[id] # None /\ proxies'[id] # proxies[id]) =>
                       \/ life[proxies[id]] = "over" \/ ctxDone
                       \/ cur # None /\ IdOf[cur] = id
<1>1. IInv /\ [Next]_hubVars => [Cause]_hubVars
  <2> SUFFICES ASSUME IInv, Next PROVE Cause
    OBVIOUS
  <2> USE IdOfAssumption, NoneAssumption DEF IInv, TypeOK
  <2>1. CASE RunInsert \/ RunEvict
    BY <2>1 DEF RunInsert, RunEvict
  <2>2. ASSUME NEW p \in Proxies, RunRemoval(p) PROVE Cause
    BY <2>2 DEF RunRemoval, Watched
  <2>3. CASE UNCHANGED proxies
    BY <2>3
  <2> QED
    BY <2>1, <2>2, <2>3
       DEF Next, Adding, RunDisconnected, RunCloseOld, RunOldOver, RunStop, RunDone, CtxDone,
           SessionEnds, NoticeSession, EndItself, Announce, Finish, JoinCall, JoinRefused,
           RunNew, WatchReturn, WatchAbandon, StopDisconnected, StopClose, StopOver,
           CloseMark, CloseSignal, CloseWait, runVars
<1> QED
  BY <1>1, Invariance, PTL DEF Spec, LosesEntryForCause

-----------------------------------------------------------------------------
(* The catalog beside the registry.                                        *)

(* What a step of the hub may do to what the publishers look at: proxies   *)
(* are only added, a proxy that is ending stays so, the context stays done.*)
LEMMA HubMoves ==
  ASSUME IInv, [Next]_hubVars
  PROVE  /\ added \subseteq added'
         /\ \A p \in Proxies : life[p] \in {"ending", "over"} => life'[p] \in {"ending", "over"}
         /\ ctxDone => ctxDone'
<1> USE DEF IInv, TypeOK
<1>1. CASE Adding
  BY <1>1 DEF Adding, RunInsert, RunEvict, RunDisconnected, RunCloseOld, RunOldOver, Mark,
              proxyVars
<1>2. CASE RunStop \/ RunDone \/ CtxDone
  BY <1>2 DEF RunStop, RunDone, CtxDone, proxyVars, runVars
<1>3. ASSUME NEW p \in Proxies,
             \/ SessionEnds(p) \/ NoticeSession(p) \/ EndItself(p) \/ Announce(p) \/ Finish(p)
      PROVE  /\ added' = added /\ ctxDone' = ctxDone
             /\ \A q \in Proxies : life[q] \in {"ending", "over"} => life'[q] \in {"ending", "over"}
  BY <1>3 DEF SessionEnds, NoticeSession, EndItself, Announce, Finish, Mark, runVars
<1>4. ASSUME NEW p \in Proxies, JoinCall(p) \/ JoinRefused(p) \/ RunNew(p)
      PROVE  /\ added' = added /\ ctxDone' = ctxDone
             /\ \A q \in Proxies : life[q] \in {"ending", "over"} => life'[q] \in {"ending", "over"}
  BY <1>4 DEF JoinCall, JoinRefused, RunNew, Mark, runVars, proxyVars
<1>5. ASSUME NEW p \in Proxies, WatchReturn(p) \/ WatchAbandon(p) \/ RunRemoval(p)
      PROVE  added' = added /\ ctxDone' = ctxDone /\ life' = life
  BY <1>5 DEF WatchReturn, WatchAbandon, RunRemoval, runVars, proxyVars
<1>6. ASSUME NEW p \in Proxies, StopDisconnected(p) \/ StopClose(p) \/ StopOver(p)
      PROVE  /\ added' = added /\ ctxDone' = ctxDone
             /\ \A q \in Proxies : life[q] \in {"ending", "over"} => life'[q] \in {"ending", "over"}
  BY <1>6 DEF StopDisconnected, StopClose, StopOver, Mark, runVars, proxyVars
<1>7. ASSUME NEW k \in Closers, CloseMark(k) \/ CloseSignal(k) \/ CloseWait(k)
      PROVE  added' = added /\ ctxDone' = ctxDone /\ life' = life
  BY <1>7 DEF CloseMark, CloseSignal, CloseWait, runVars, proxyVars
<1>8. CASE UNCHANGED hubVars
  BY <1>8 DEF hubVars
<1> QED
  BY <1>1, <1>2, <1>3, <1>4, <1>5, <1>6, <1>7, <1>8 DEF Next

(* An Add is taken when the ID has no entry.                               *)
LEMMA PublishAdd ==
  ASSUME CatalogTypeOK, NEW id \in Ids, NEW x \in Infos, Publish(Ev!Add(id, x))
  PROVE  catalog' = [catalog EXCEPT ![id] = IF @ = None THEN x ELSE @]
BY DEF CatalogTypeOK, Publish, Ev!Add, Ev!Event, Ev!Ignored, Ev!Processed, Ev!Catalogs

(* An Update is taken when the ID has an entry.                            *)
LEMMA PublishUpdate ==
  ASSUME CatalogTypeOK, NEW id \in Ids, NEW x \in Infos, Publish(Ev!Update(id, x))
  PROVE  catalog' = [catalog EXCEPT ![id] = IF @ = None THEN @ ELSE x]
BY DEF CatalogTypeOK, Publish, Ev!Update, Ev!Event, Ev!Ignored, Ev!Processed, Ev!Catalogs

(* After a Del the ID has no entry, whoever published it.                  *)
LEMMA PublishDel ==
  ASSUME CatalogTypeOK, NEW id \in Ids, Publish(Ev!Del(id))
  PROVE  catalog' = [catalog EXCEPT ![id] = None]
BY DEF CatalogTypeOK, Publish, Ev!Del, Ev!Event, Ev!Ignored, Ev!Processed, Ev!Catalogs

(* A step of the hub leaves the publishers and the catalog alone.          *)
LEMMA HubCatalogIInv ==
  ASSUME CatalogIInv, [Next]_hubVars, UNCHANGED catalogVars
  PROVE  CatalogIInv'
<1> USE DEF CatalogIInv, catalogVars
<1>1. IInv'
  BY NextIInv
<1>2. CatalogTypeOK'
  BY DEF CatalogTypeOK
<1>3. Published'
  BY HubMoves DEF Published, CatalogTypeOK
<1>4. Listed'
  <2>1. \A p \in Proxies : (Alone(p)' => Alone(p)) /\ (Sole(p)' => Sole(p))
    BY HubMoves DEF Alone, Sole
  <2> QED
    BY <2>1, HubMoves DEF Listed
<1> QED
  BY <1>1, <1>2, <1>3, <1>4

(* The steps of a publisher that leave the catalog alone.                  *)
LEMMA QuietCatalogIInv ==
  ASSUME CatalogIInv, NEW p \in Proxies,
         UpdateInfo(p) \/ PubStart(p) \/ PubChanged(p) \/ PubClosed(p) \/ PubAbort(p)
  PROVE  CatalogIInv'
<1> USE InfosAssumption DEF CatalogIInv
<1>1. IInv' /\ UNCHANGED hubVars
  BY NextIInv DEF UpdateInfo, PubStart, PubChanged, PubClosed, PubAbort
<1>2. CatalogTypeOK'
  <2>1. CASE UpdateInfo(p)
    BY <2>1 DEF CatalogTypeOK, UpdateInfo
  <2>2. CASE PubStart(p) \/ PubChanged(p)
    <3>1. sent' = [sent EXCEPT ![p] = info[p]] /\ info' = info /\ catalog' = catalog
      BY <2>2 DEF PubStart, PubChanged, ReadInfo
    <3>2. info[p] \in Infos /\ info[p] # None
      BY DEF CatalogTypeOK
    <3>3. changed' \in [Proxies -> BOOLEAN]
      BY <2>2 DEF CatalogTypeOK, PubStart, PubChanged, ReadInfo
    <3>4. pub' = [pub EXCEPT ![p] = "adding"] \/ pub' = [pub EXCEPT ![p] = "updating"]
      BY <2>2 DEF PubStart, PubChanged
    <3> QED
      BY <3>1, <3>2, <3>3, <3>4 DEF CatalogTypeOK
  <2>3. CASE PubClosed(p) \/ PubAbort(p)
    BY <2>3 DEF CatalogTypeOK, PubClosed, PubAbort
  <2> QED
    BY <2>1, <2>2, <2>3
<1>3. Published'
  BY <1>1 DEF Published, CatalogTypeOK, UpdateInfo, PubStart, PubChanged, PubClosed, PubAbort,
              ReadInfo, hubVars
<1>4. Listed'
  <2>1. catalog' = catalog /\ ctxDone' = ctxDone /\ added' = added
    BY <1>1 DEF UpdateInfo, PubStart, PubChanged, PubClosed, PubAbort, hubVars
  <2>2. CASE PubAbort(p)
    BY <2>1, <2>2 DEF PubAbort, Listed
  <2>3. CASE UpdateInfo(p) \/ PubStart(p) \/ PubChanged(p) \/ PubClosed(p)
    <3>1. \A q \in Proxies : pub[q] = "done" <=> pub'[q] = "done"
      BY <2>3 DEF CatalogTypeOK, UpdateInfo, PubStart, PubChanged, PubClosed
    <3>2. \A q \in Proxies : (Alone(q)' => Alone(q)) /\ (Sole(q)' => Sole(q))
      BY <2>1, <3>1 DEF Alone, Sole, IInv, TypeOK
    <3>3. \A q \in Proxies : pub[q] \in Listing <=> pub'[q] \in Listing
      BY <2>3 DEF CatalogTypeOK, Listing, UpdateInfo, PubStart, PubChanged, PubClosed
    <3>4. \A q \in Proxies : pub'[q] = "watching" => pub[q] = "watching" /\ sent'[q] = sent[q]
      BY <2>3 DEF CatalogTypeOK, UpdateInfo, PubStart, PubChanged, PubClosed, ReadInfo
    <3> QED
      BY <2>1, <3>2, <3>3, <3>4 DEF Listed
  <2> QED
    BY <2>2, <2>3
<1> QED
  BY <1>1, <1>2, <1>3, <1>4

(* The steps of a publisher that reach the catalog.                        *)
LEMMA PublishCatalogIInv ==
  ASSUME CatalogIInv, NEW p \in Proxies, PubAdd(p) \/ PubUpdate(p) \/ PubDel(p)
  PROVE  CatalogIInv'
<1> USE IdOfAssumption, InfosAssumption DEF CatalogIInv
<1>1. IInv' /\ UNCHANGED hubVars /\ IdOf[p] \in Ids /\ p \in added /\ sent[p] \in Infos
  <2>1. UNCHANGED hubVars /\ pub[p] # "none"
    BY DEF PubAdd, PubUpdate, PubDel
  <2> QED
    BY <2>1, NextIInv DEF CatalogTypeOK, Published
<1>2. added' = added /\ ctxDone' = ctxDone /\ life' = life
  BY <1>1 DEF hubVars
<1>3. CASE PubAdd(p)
  <2>1. catalog' = [catalog EXCEPT ![IdOf[p]] = IF @ = None THEN sent[p] ELSE @]
    BY <1>1, <1>3, PublishAdd DEF PubAdd
  <2>2. pub' = [pub EXCEPT ![p] = "watching"] /\ pub[p] = "adding"
    BY <1>3 DEF PubAdd
  <2>3. UNCHANGED <<info, changed, sent>>
    BY <1>3 DEF PubAdd
  <2>4. CatalogTypeOK'
    BY <1>1, <2>1, <2>2, <2>3 DEF CatalogTypeOK, Ev!Catalogs
  <2>5. Published'
    BY <1>1, <1>2, <2>2, <2>3 DEF Published, CatalogTypeOK
  <2>6. Listed'
    <3>1. SUFFICES ASSUME ~ctxDone PROVE Listed'
      BY <1>2 DEF Listed
    <3>2. \A id \in Ids : catalog'[id] # None =>
             \E q \in Proxies : IdOf[q] = id /\ pub'[q] \in Listing
      BY <1>1, <2>1, <2>2, <3>1 DEF Listed, Listing, CatalogTypeOK, Ev!Catalogs
    <3>3. Alone(p) => catalog[IdOf[p]] = None
      <4>1. \A q \in Proxies : pub[q] \in Listing => q \in added /\ q # p /\ pub[q] # "done"
        BY <2>2 DEF Listing, Published
      <4> QED
        BY <1>1, <3>1, <4>1 DEF Listed, Alone
    <3>4. \A q \in Proxies : pub'[q] = "watching" /\ Alone(q)' =>
             catalog'[IdOf[q]] \in {None, sent'[q]}
      <4> SUFFICES ASSUME NEW q \in Proxies, pub'[q] = "watching", Alone(q)'
                   PROVE  catalog'[IdOf[q]] \in {None, sent'[q]}
        OBVIOUS
      <4>1. CASE q = p
        <5>1. Alone(p)
          BY <1>2, <2>2, <4>1 DEF Alone, CatalogTypeOK, IInv, TypeOK
        <5> QED
          BY <1>1, <2>1, <2>3, <3>3, <4>1, <5>1 DEF CatalogTypeOK, Ev!Catalogs
      <4>2. CASE q # p
        <5>1. IdOf[q] # IdOf[p]
          BY <1>1, <1>2, <2>2, <4>2 DEF Alone, CatalogTypeOK
        <5>2. pub[q] = "watching" /\ Alone(q)
          BY <1>2, <2>2, <4>2, <5>1 DEF Alone, CatalogTypeOK, IInv, TypeOK
        <5> QED
          BY <1>1, <2>1, <2>3, <3>1, <5>1, <5>2 DEF Listed, CatalogTypeOK, Ev!Catalogs
      <4> QED
        BY <4>1, <4>2
    <3>5. \A q \in Proxies : pub'[q] \in Listing /\ Sole(q)' => catalog'[IdOf[q]] # None
      BY <1>1, <1>2, <2>1, <2>2, <3>1 DEF Listed, Listing, Sole, CatalogTypeOK, Ev!Catalogs
    <3> QED
      BY <3>2, <3>4, <3>5 DEF Listed
  <2> QED
    BY <1>1, <2>4, <2>5, <2>6
<1>4. CASE PubUpdate(p)
  <2>1. catalog' = [catalog EXCEPT ![IdOf[p]] = IF @ = None THEN @ ELSE sent[p]]
    BY <1>1, <1>4, PublishUpdate DEF PubUpdate
  <2>2. pub' = [pub EXCEPT ![p] = "watching"] /\ pub[p] = "updating"
    BY <1>4 DEF PubUpdate
  <2>3. UNCHANGED <<info, changed, sent>>
    BY <1>4 DEF PubUpdate
  <2>4. CatalogTypeOK'
    BY <1>1, <2>1, <2>2, <2>3 DEF CatalogTypeOK, Ev!Catalogs
  <2>5. Published'
    BY <1>1, <1>2, <2>2, <2>3 DEF Published, CatalogTypeOK
  <2>6. Listed'
    <3>1. SUFFICES ASSUME ~ctxDone PROVE Listed'
      BY <1>2 DEF Listed
    <3>2. \A id \in Ids : catalog'[id] # None =>
             \E q \in Proxies : IdOf[q] = id /\ pub'[q] \in Listing
      BY <1>1, <2>1, <2>2, <3>1 DEF Listed, Listing, CatalogTypeOK, Ev!Catalogs
    <3>4. \A q \in Proxies : pub'[q] = "watching" /\ Alone(q)' =>
             catalog'[IdOf[q]] \in {None, sent'[q]}
      <4> SUFFICES ASSUME NEW q \in Proxies, pub'[q] = "watching", Alone(q)'
                   PROVE  catalog'[IdOf[q]] \in {None, sent'[q]}
        OBVIOUS
      <4>1. CASE q = p
        BY <1>1, <2>1, <2>3, <4>1 DEF CatalogTypeOK, Ev!Catalogs
      <4>2. CASE q # p
        <5>1. IdOf[q] # IdOf[p]
          BY <1>1, <1>2, <2>2, <4>2 DEF Alone, CatalogTypeOK
        <5>2. pub[q] = "watching" /\ Alone(q)
          BY <1>2, <2>2, <4>2, <5>1 DEF Alone, CatalogTypeOK, IInv, TypeOK
        <5> QED
          BY <1>1, <2>1, <2>3, <3>1, <5>1, <5>2 DEF Listed, CatalogTypeOK, Ev!Catalogs
      <4> QED
        BY <4>1, <4>2
    <3>5. \A q \in Proxies : pub'[q] \in Listing /\ Sole(q)' => catalog'[IdOf[q]] # None
      BY <1>1, <1>2, <2>1, <2>2, <3>1 DEF Listed, Listing, Sole, CatalogTypeOK, Ev!Catalogs
    <3> QED
      BY <3>2, <3>4, <3>5 DEF Listed
  <2> QED
    BY <1>1, <2>4, <2>5, <2>6
<1>5. CASE PubDel(p)
  <2>1. catalog' = [catalog EXCEPT ![IdOf[p]] = None]
    BY <1>1, <1>5, PublishDel DEF PubDel
  <2>2. pub' = [pub EXCEPT ![p] = "done"] /\ pub[p] = "deleting"
    BY <1>5 DEF PubDel
  <2>3. UNCHANGED <<info, changed, sent>>
    BY <1>5 DEF PubDel
  <2>4. CatalogTypeOK'
    BY <1>1, <2>1, <2>2, <2>3 DEF CatalogTypeOK, Ev!Catalogs
  <2>5. Published'
    BY <1>1, <1>2, <2>2, <2>3 DEF Published, CatalogTypeOK
  <2>6. Listed'
    <3>1. SUFFICES ASSUME ~ctxDone PROVE Listed'
      BY <1>2 DEF Listed
    <3>2. \A id \in Ids : catalog'[id] # None =>
             \E q \in Proxies : IdOf[q] = id /\ pub'[q] \in Listing
      BY <1>1, <2>1, <2>2, <3>1 DEF Listed, Listing, CatalogTypeOK, Ev!Catalogs
    <3>4. \A q \in Proxies : pub'[q] = "watching" /\ Alone(q)' =>
             catalog'[IdOf[q]] \in {None, sent'[q]}
      <4> SUFFICES ASSUME NEW q \in Proxies, pub'[q] = "watching", Alone(q)',
                          IdOf[q] # IdOf[p]
                   PROVE  catalog'[IdOf[q]] \in {None, sent'[q]}
        BY <1>1, <2>1 DEF CatalogTypeOK, Ev!Catalogs
      <4>1. pub[q] = "watching" /\ Alone(q)
        BY <1>2, <2>2 DEF Alone, CatalogTypeOK, IInv, TypeOK
      <4> QED
        BY <1>1, <2>1, <2>3, <3>1, <4>1 DEF Listed, CatalogTypeOK, Ev!Catalogs
    <3>5. \A q \in Proxies : pub'[q] \in Listing /\ Sole(q)' => catalog'[IdOf[q]] # None
      BY <1>1, <1>2, <2>1, <2>2, <3>1 DEF Listed, Listing, Sole, CatalogTypeOK, Ev!Catalogs
    <3> QED
      BY <3>2, <3>4, <3>5 DEF Listed
  <2> QED
    BY <1>1, <2>4, <2>5, <2>6
<1> QED
  BY <1>3, <1>4, <1>5

(* The catalog's invariant holds in every reachable state.                 *)
LEMMA CatalogInvariance == CatalogSpec => []CatalogIInv
<1>1. CatalogInit => CatalogIInv
  <2> SUFFICES ASSUME CatalogInit PROVE CatalogIInv
    OBVIOUS
  <2> USE InfosAssumption DEF CatalogInit
  <2>1. IInv
    BY InitIInv
  <2>2. CatalogTypeOK
    BY DEF CatalogTypeOK, Ev!Catalogs, Ev!EmptyCatalog
  <2>3. Published /\ Listed
    BY DEF Published, Listed, Listing, Ev!EmptyCatalog
  <2> QED
    BY <2>1, <2>2, <2>3 DEF CatalogIInv
<1>2. CatalogIInv /\ [CatalogNext]_allVars => CatalogIInv'
  BY HubCatalogIInv, QuietCatalogIInv, PublishCatalogIInv
     DEF CatalogNext, Publisher, allVars
<1> QED
  BY <1>1, <1>2, PTL DEF CatalogSpec

(* The variables of HubCatalog keep their types.                           *)
THEOREM CatalogTypeCorrect == CatalogSpec => [](TypeOK /\ CatalogTypeOK)
BY CatalogInvariance, PTL DEF CatalogIInv, IInv

(* In a settled state a publisher that is still watching has an open, and  *)
(* hence a registered, proxy: there is one at most per ID.                 *)
LEMMA SettledWatcher ==
  ASSUME CatalogIInv, Settled, NEW p \in Proxies, pub[p] = "watching"
  PROVE  /\ Available(p) /\ sent[p] = info[p]
         /\ Alone(p)
<1> USE DEF CatalogIInv
<1>1. \A q \in Proxies : pub[q] = "watching" => q \in added /\ life[q] = "open" /\ ~changed[q]
  BY DEF Settled, Quiet, Published
<1>2. old = None
  BY DEF Settled, IInv, TypeOK
<1>3. \A q \in Proxies : pub[q] = "watching" => Registered(q)
  BY <1>1, <1>2, NoneAssumption DEF Settled, IInv, OpenIsKept
<1>4. Alone(p)
  BY <1>3 DEF Alone, Settled, Quiet, Registered, IInv, TypeOK
<1> QED
  BY <1>1, <1>3, <1>4 DEF Available, Published

(* What the catalog lists in a settled state is there and is current.      *)
THEOREM ListedAreCurrent == CatalogSpec => []ListedIsCurrent
<1>1. CatalogIInv => ListedIsCurrent
  <2> SUFFICES ASSUME CatalogIInv, Settled, NEW id \in Ids, catalog[id] # None
               PROVE  \E p \in Proxies : IdOf[p] = id /\ Available(p) /\ catalog[id] = info[p]
    BY DEF ListedIsCurrent
  <2>1. PICK p \in Proxies : IdOf[p] = id /\ pub[p] \in Listing
    BY DEF CatalogIInv, Listed, Settled
  <2>2. pub[p] = "watching"
    BY <2>1 DEF CatalogIInv, Published, Settled, Quiet, Listing
  <2>3. Available(p) /\ sent[p] = info[p] /\ Alone(p)
    BY <2>2, SettledWatcher
  <2>4. catalog[id] = sent[p]
    BY <2>1, <2>2, <2>3 DEF CatalogIInv, Listed, Settled
  <2> QED
    BY <2>1, <2>3, <2>4
<1> QED
  BY <1>1, CatalogInvariance, PTL

(* An available proxy that is the only one ever added under its ID is      *)
(* listed with its current information in every settled state.             *)
THEOREM SoleAreListed == CatalogSpec => []SoleIsListed
<1>1. CatalogIInv => SoleIsListed
  <2> SUFFICES ASSUME CatalogIInv, Settled, NEW p \in Proxies, Available(p), Sole(p)
               PROVE  catalog[IdOf[p]] = info[p]
    BY DEF SoleIsListed, Sole
  <2>1. p \in added /\ life[p] = "open"
    BY DEF Available, CatalogIInv, IInv, Roster
  <2>2. pub[p] = "watching"
    BY <2>1 DEF Settled, Quiet, CatalogIInv, Published
  <2>3. sent[p] = info[p] /\ Alone(p)
    BY <2>2, SettledWatcher
  <2>4. catalog[IdOf[p]] # None /\ catalog[IdOf[p]] \in {None, sent[p]}
    BY <2>2, <2>3 DEF CatalogIInv, Listed, Listing, Settled
  <2> QED
    BY <2>3, <2>4
<1> QED
  BY <1>1, CatalogInvariance, PTL
=============================================================================
