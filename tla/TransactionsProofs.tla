------------------------- MODULE TransactionsProofs -------------------------
(***************************************************************************)
(* What is proved of any number of transactions and of session revisions.  *)
(***************************************************************************)
EXTENDS Transactions, TLAPS

-----------------------------------------------------------------------------
(* The inductive invariant *)

Unsent == {"idle", "preparing", "fee", "choose", "execute", "queued"}
Closed == {"refused", "simulationFailed", "credentialEnded"}

OnWire(t) == \E msg \in wire : msg.txn = t

(* A transaction is on its way once at most, is not submitted before it is, *)
(* and an answer that refuses it tells the truth.                           *)
CallOK(t) ==
  /\ told[t] # "pending" => pc[t] = "done"
  /\ pc[t] \notin {"sent", "asked"} => reply[t] = "none"
  /\ pc[t] \in Unsent => chain[t] \notin Submitted /\ ~OnWire(t)
  /\ OnWire(t) => chain[t] \notin Submitted
  /\ pc[t] = "sent" /\ reply[t] # "none" => ~OnWire(t)
  /\ pc[t] = "sent" /\ reply[t] \in Closed => chain[t] \notin Submitted
  /\ pc[t] = "sent" /\ reply[t] = "repriced" /\ t \in tron => chain[t] \notin Submitted
  /\ told[t] \in {"failed", "sessionExpired"} => chain[t] \notin Submitted /\ ~OnWire(t)

WireOK == \A m, n \in wire : m.txn = n.txn => m = n

(* A revision whose session ended, or whose credential did.                 *)
Past(r) == r \in dead \/ r < rev \/ (r = rev /\ ~active)

(* A rejection is of such a revision: that of an owned request whose        *)
(* credential was refused is one.                                           *)
SessionOK ==
  /\ active => rev < MaxRevision
  /\ \A r \in rejected : Past(r)
  /\ \A t \in owned : callRev[t] < rev \/ (callRev[t] = rev /\ active)
  /\ \A t \in owned : reply[t] = "credentialEnded" => Past(callRev[t])
  /\ \A msg \in wire : pc[msg.txn] = "sent" /\ msg.txn \in owned =>
       callRev[msg.txn] < rev \/ (msg.signedIn /\ msg.cred = callRev[msg.txn])

IInv == TypeOK /\ WireOK /\ SessionOK /\ \A t \in Txns : CallOK(t)

-----------------------------------------------------------------------------
(* Type correctness *)

LEMMA Revs ==
  ASSUME TypeOK
  PROVE  rev \in Nat /\ MaxRevision \in Nat /\ Revisions \subseteq Nat /\ 0 \in Revisions
         /\ (rev < MaxRevision => rev + 1 \in Revisions)
BY ConstantsAssumption DEF TypeOK, Revisions

LEMMA TellType ==
  ASSUME TypeOK, NEW t \in Txns, NEW what \in Failures \cup Reports, Tell(t, what)
  PROVE  /\ pc' \in [Txns -> PCs]
         /\ told' \in [Txns -> {"pending"} \cup Failures \cup Reports]
         /\ reply' \in [Txns -> {"none"} \cup Codes]
BY DEF Tell, Goto, TypeOK, PCs

LEMMA GotoType ==
  ASSUME TypeOK, NEW t \in Txns, NEW p \in PCs, Goto(t, p)
  PROVE  pc' \in [Txns -> PCs]
BY DEF Goto, TypeOK

LEMMA CallsType ==
  ASSUME TypeOK, NEW t \in Txns, Calls(t)
  PROVE  callRev' \in [Txns -> Revisions] /\ owned' \subseteq Txns
BY DEF Calls, TypeOK

LEMMA RejectType ==
  ASSUME TypeOK, NEW t \in Txns, NotesRejection(t)
  PROVE  rejected' \subseteq Revisions
BY DEF NotesRejection, TypeOK

LEMMA ExpireType ==
  ASSUME IInv, NEW t \in Txns, ExpireIfRejected(t)
  PROVE  rev' \in Revisions /\ active' \in BOOLEAN /\ expired' \subseteq Revisions
BY Revs DEF ExpireIfRejected, Expire, EndSession, EndsSession, IInv, SessionOK, TypeOK

LEMMA TypeNext ==
  ASSUME IInv, [Next]_vars
  PROVE  TypeOK'
<1>0. TypeOK
  BY DEF IInv
<1> USE <1>0, Revs DEF session, caller, waas
<1>1. ASSUME SignOut \/ SignIn \/ CredentialEnds \/ SessionExpires PROVE TypeOK'
  <2>1. rev' \in Revisions /\ active' \in BOOLEAN /\ expired' \subseteq Revisions
        /\ dead' \subseteq Revisions
    <3>1. ASSUME SignOut \/ SessionExpires
          PROVE  rev' = rev + 1 /\ active' = FALSE /\ expired' \in {expired, {rev}} /\ dead' = dead
                 /\ active
      BY <3>1 DEF SignOut, SessionExpires, Expire, EndSession
    <3>2. ASSUME SignIn PROVE rev' = rev + 1 /\ active' = TRUE /\ expired' = expired /\ dead' = dead
                              /\ rev + 1 < MaxRevision
      BY <3>2 DEF SignIn
    <3>3. ASSUME CredentialEnds
          PROVE  rev' = rev /\ active' = active /\ expired' = expired /\ dead' = dead \cup {rev}
      BY <3>3 DEF CredentialEnds
    <3>4. active => rev < MaxRevision
      BY DEF IInv, SessionOK
    <3>5. rev \in Revisions /\ active \in BOOLEAN /\ expired \subseteq Revisions
          /\ dead \subseteq Revisions
      BY DEF TypeOK
    <3>6. CASE SignOut \/ SessionExpires
      BY <3>1, <3>4, <3>5, <3>6
    <3>7. CASE SignIn
      BY <3>2, <3>5, <3>7
    <3>8. CASE CredentialEnds
      BY <3>3, <3>5, <3>8
    <3> QED
      BY <1>1, <3>6, <3>7, <3>8
  <2>2. UNCHANGED <<rejected, pc, opRev, callRev, owned, told, reply, late, wire, chain, tron>>
    BY <1>1 DEF SignOut, SignIn, CredentialEnds, SessionExpires
  <2> QED
    BY <2>1, <2>2 DEF TypeOK
<1>2. ASSUME NEW t \in Txns, Send(t) PROVE TypeOK'
  BY <1>2 DEF Send, Goto, TypeOK, PCs
<1>3. ASSUME NEW t \in Txns, Prepared(t) PROVE TypeOK'
  BY <1>3 DEF Prepared, Goto, TypeOK, PCs, States
<1>4. ASSUME NEW t \in Txns, PrepareFails(t) PROVE TypeOK'
  <2>1. \E what \in Failures : Tell(t, what)
    BY <1>4 DEF PrepareFails, Failures
  <2>2. /\ rejected' \subseteq Revisions /\ rev' \in Revisions /\ active' \in BOOLEAN
        /\ expired' \subseteq Revisions
    BY <1>4, ExpireType DEF PrepareFails, TypeOK
  <2>3. UNCHANGED <<opRev, callRev, owned, late, wire, waas>>
    BY <1>4 DEF PrepareFails
  <2> QED
    BY <2>1, <2>2, <2>3, TellType DEF TypeOK
<1>5. ASSUME NEW t \in Txns, DefaultFee(t) \/ ShowFees(t) \/ ChooseFee(t) \/ NoFee(t) PROVE TypeOK'
  BY <1>5 DEF DefaultFee, ShowFees, ChooseFee, NoFee, Tell, Goto, TypeOK, PCs, Failures
<1>6. ASSUME NEW t \in Txns, CallExecute(t) \/ AskStatus(t) PROVE TypeOK'
  <2>1. Calls(t) /\ \E p \in PCs : Goto(t, p)
    BY <1>6 DEF CallExecute, AskStatus, PCs
  <2>2. UNCHANGED <<session, opRev, told, reply, late, wire, waas>>
    BY <1>6 DEF CallExecute, AskStatus
  <2> QED
    BY <2>1, <2>2, CallsType, GotoType DEF TypeOK
<1>7. ASSUME NEW t \in Txns, SendExecute(t) PROVE TypeOK'
  BY <1>7 DEF SendExecute, Goto, TypeOK, PCs, Message
<1>8. ASSUME NEW t \in Txns, SendExecuteFails(t) \/ ExecuteLost(t) PROVE TypeOK'
  BY <1>8 DEF SendExecuteFails, ExecuteLost, Tell, Goto, TypeOK, PCs, Failures
<1>9. ASSUME NEW msg \in wire, TakeExecute(msg) PROVE TypeOK'
  BY <1>9 DEF TakeExecute, TypeOK, Message, Codes, ErrorCodes, States
<1>10. ASSUME NEW t \in Txns, ExecuteFails(t) PROVE TypeOK'
  <2>1. \E what \in Failures : Tell(t, what)
    BY <1>10 DEF ExecuteFails, Failures
  <2>2. rev' \in Revisions /\ active' \in BOOLEAN /\ expired' \subseteq Revisions
    BY <1>10, ExpireType DEF ExecuteFails, TypeOK
  <2>3. NotesRejection(t) /\ UNCHANGED <<opRev, callRev, owned, late, wire, waas>>
    BY <1>10 DEF ExecuteFails
  <2> QED
    BY <2>1, <2>2, <2>3, TellType, RejectType DEF TypeOK
<1>11. ASSUME NEW t \in Txns, Executed(t) PROVE TypeOK'
  BY <1>11 DEF Executed, Tell, Goto, TypeOK, PCs, Reports
<1>12. ASSUME NEW t \in Txns, ShowStatus(t) PROVE TypeOK'
  BY <1>12 DEF ShowStatus, StatusOf, TypeOK, Codes, ErrorCodes
<1>13. ASSUME NEW t \in Txns, StatusShown(t) PROVE TypeOK'
  BY <1>13 DEF StatusShown, Tell, Goto, TypeOK, PCs, Reports
<1>14. ASSUME NEW t \in Txns, StatusFails(t) PROVE TypeOK'
  <2>1. Tell(t, "lookupFailed") /\ "lookupFailed" \in Failures
    BY <1>14 DEF StatusFails, Failures
  <2>2. rev' \in Revisions /\ active' \in BOOLEAN /\ expired' \subseteq Revisions
    BY <1>14, ExpireType DEF StatusFails, TypeOK
  <2>3. NotesRejection(t) /\ UNCHANGED <<opRev, callRev, owned, late, wire, waas>>
    BY <1>14 DEF StatusFails
  <2> QED
    BY <2>1, <2>2, <2>3, TellType, RejectType DEF TypeOK
<1>15. ASSUME NEW t \in Txns, Delayed(t) PROVE TypeOK'
  BY <1>15 DEF Delayed, Tell, Goto, TypeOK, PCs, Reports
<1>16. ASSUME NEW t \in Txns, DeadlinePasses(t) \/ Progress(t) PROVE TypeOK'
  BY <1>16 DEF DeadlinePasses, Progress, TypeOK, States
<1>17. CASE UNCHANGED vars
  BY <1>17 DEF vars, TypeOK
<1> QED
  BY <1>1, <1>2, <1>3, <1>4, <1>5, <1>6, <1>7, <1>8, <1>9, <1>10, <1>11, <1>12, <1>13, <1>14,
     <1>15, <1>16, <1>17 DEF Next, CallStep

-----------------------------------------------------------------------------
(* The calls                                                                *)

LEMMA CallFrame ==
  ASSUME NEW u \in Txns, CallOK(u), pc'[u] = pc[u], told'[u] = told[u], reply'[u] = reply[u],
         chain'[u] = chain[u], OnWire(u)' => OnWire(u), UNCHANGED tron
  PROVE  CallOK(u)'
BY DEF CallOK

NotRun(t) == chain[t] \notin Submitted /\ ~OnWire(t)

LEMMA TellOK ==
  ASSUME IInv, NEW t \in Txns, NEW what, Tell(t, what), UNCHANGED <<wire, chain, tron>>,
         what \in {"failed", "sessionExpired"} => NotRun(t)
  PROVE  \A u \in Txns : CallOK(u)'
<1> SUFFICES ASSUME NEW u \in Txns PROVE CallOK(u)'
  OBVIOUS
<1>1. TypeOK /\ CallOK(u) /\ OnWire(u)' = OnWire(u)
  BY DEF IInv, OnWire
<1>2. CASE u = t
  BY <1>1, <1>2 DEF Tell, Goto, CallOK, NotRun, TypeOK, Unsent
<1>3. CASE u # t
  <2>1. pc'[u] = pc[u] /\ told'[u] = told[u] /\ reply'[u] = reply[u]
    BY <1>1, <1>3 DEF Tell, Goto, TypeOK
  <2> QED
    BY <1>1, <2>1, CallFrame
<1> QED
  BY <1>2, <1>3

LEMMA GotoOK ==
  ASSUME IInv, NEW t \in Txns, NEW p \in PCs, Goto(t, p), UNCHANGED <<told, wire, chain, tron>>,
         told[t] = "pending", p # "sent",
         \/ pc[t] \in Unsent /\ p \in Unsent /\ UNCHANGED reply
         \/ p \notin Unsent /\ UNCHANGED reply /\ reply[t] = "none"
         \/ p \notin Unsent /\ reply' = [reply EXCEPT ![t] = "none"]
  PROVE  \A u \in Txns : CallOK(u)'
<1> SUFFICES ASSUME NEW u \in Txns PROVE CallOK(u)'
  OBVIOUS
<1>1. TypeOK /\ CallOK(u) /\ OnWire(u)' = OnWire(u)
  BY DEF IInv, OnWire
<1>2. CASE u = t
  BY <1>1, <1>2 DEF Goto, CallOK, TypeOK, Unsent, Closed
<1>3. CASE u # t
  <2>1. pc'[u] = pc[u] /\ told'[u] = told[u] /\ reply'[u] = reply[u]
    BY <1>1, <1>3 DEF Goto, TypeOK
  <2> QED
    BY <1>1, <2>1, CallFrame
<1> QED
  BY <1>2, <1>3

(* Of a call under way nothing has been told.                               *)
LEMMA Pending ==
  ASSUME IInv, NEW t \in Txns, pc[t] # "done"
  PROVE  told[t] = "pending"
BY DEF IInv, CallOK, TypeOK

LEMMA UnsentNotRun ==
  ASSUME IInv, NEW t \in Txns, pc[t] \in Unsent
  PROVE  NotRun(t)
BY DEF IInv, CallOK, NotRun

LEMMA CallsNext ==
  ASSUME IInv, [Next]_vars
  PROVE  \A u \in Txns : CallOK(u)'
<1>0. TypeOK
  BY DEF IInv
<1> USE DEF caller, waas
<1>1. ASSUME SignOut \/ SignIn \/ CredentialEnds \/ SessionExpires PROVE \A u \in Txns : CallOK(u)'
  <2>1. UNCHANGED <<pc, told, reply, wire, chain, tron>>
    BY <1>1 DEF SignOut, SignIn, CredentialEnds, SessionExpires
  <2> QED
    BY <2>1, CallFrame DEF IInv, OnWire
<1>2. ASSUME NEW t \in Txns, Send(t) \/ DefaultFee(t) \/ ShowFees(t) \/ ChooseFee(t) \/ CallExecute(t)
      PROVE  \A u \in Txns : CallOK(u)'
  <2>1. pc[t] \in Unsent /\ \E p \in Unsent : Goto(t, p)
    BY <1>2 DEF Send, DefaultFee, ShowFees, ChooseFee, CallExecute, Unsent
  <2>2. UNCHANGED <<told, reply, wire, chain, tron>>
    BY <1>2 DEF Send, DefaultFee, ShowFees, ChooseFee, CallExecute
  <2>3. told[t] = "pending"
    BY <2>1, Pending DEF Unsent
  <2>4. \A p \in Unsent : p \in PCs /\ p # "sent"
    BY DEF Unsent, PCs
  <2> QED
    BY <2>1, <2>2, <2>3, <2>4, GotoOK
<1>3. ASSUME NEW t \in Txns, Prepared(t) PROVE \A u \in Txns : CallOK(u)'
  <2> SUFFICES ASSUME NEW u \in Txns PROVE CallOK(u)'
    OBVIOUS
  <2>1. CallOK(u) /\ OnWire(u)' = OnWire(u)
    BY <1>3 DEF IInv, OnWire, Prepared
  <2> QED
    BY <1>0, <1>3, <2>1 DEF Prepared, Goto, CallOK, TypeOK, Unsent, Submitted
<1>4. ASSUME NEW t \in Txns, PrepareFails(t) \/ NoFee(t) \/ SendExecuteFails(t)
      PROVE  \A u \in Txns : CallOK(u)'
  <2>1. pc[t] \in Unsent /\ \E what : Tell(t, what)
    BY <1>4 DEF PrepareFails, NoFee, SendExecuteFails, Unsent
  <2>2. UNCHANGED <<wire, chain, tron>>
    BY <1>4 DEF PrepareFails, NoFee, SendExecuteFails
  <2> QED
    BY <2>1, <2>2, UnsentNotRun, TellOK
<1>5. ASSUME NEW t \in Txns, SendExecute(t) PROVE \A u \in Txns : CallOK(u)'
  <2> SUFFICES ASSUME NEW u \in Txns PROVE CallOK(u)'
    OBVIOUS
  <2>1. CallOK(u) /\ UNCHANGED <<told, reply, chain, tron>> /\ told[t] = "pending"
    BY <1>5, Pending DEF IInv, SendExecute
  <2>2. CASE u = t
    BY <1>0, <1>5, <2>1, <2>2 DEF SendExecute, Goto, CallOK, TypeOK, Unsent, Closed
  <2>3. CASE u # t
    <3>1. pc'[u] = pc[u] /\ (OnWire(u)' => OnWire(u))
      BY <1>0, <1>5, <2>3 DEF SendExecute, Goto, TypeOK, OnWire
    <3> QED
      BY <2>1, <3>1, CallFrame
  <2> QED
    BY <2>2, <2>3
<1>6. ASSUME NEW msg \in wire, TakeExecute(msg) PROVE \A u \in Txns : CallOK(u)'
  <2> SUFFICES ASSUME NEW u \in Txns PROVE CallOK(u)'
    OBVIOUS
  <2>1. CallOK(u) /\ UNCHANGED <<pc, told, tron>> /\ wire' = wire \ {msg} /\ msg.txn \in Txns
    BY <1>0, <1>6 DEF IInv, TakeExecute, TypeOK, Message
  <2>2. CASE u = msg.txn
    <3>1. OnWire(u) /\ ~OnWire(u)'
      BY <2>1, <2>2 DEF OnWire, IInv, WireOK
    <3>2. pc[u] \notin Unsent /\ told[u] \notin {"failed", "sessionExpired"}
          /\ (pc[u] = "sent" => reply[u] = "none") /\ (pc[u] = "sent" => told[u] = "pending")
      BY <2>1, <3>1, Pending DEF CallOK
    <3>3. pc[u] # "sent" => reply' = reply
      BY <1>6, <2>2 DEF TakeExecute
    <3>4. pc[u] = "sent" =>
            /\ reply'[u] \in Closed => chain'[u] = chain[u] \/ chain'[u] = "closed"
            /\ reply'[u] = "repriced" /\ u \in tron => chain'[u] = chain[u]
      BY <1>0, <1>6, <2>2 DEF TakeExecute, TypeOK, Closed
    <3> QED
      BY <2>1, <3>1, <3>2, <3>3, <3>4 DEF CallOK, Submitted
  <2>3. CASE u # msg.txn
    <3>1. OnWire(u)' = OnWire(u)
      BY <2>1, <2>3 DEF OnWire
    <3>2. chain'[u] = chain[u] /\ reply'[u] = reply[u]
      BY <1>0, <1>6, <2>1, <2>3 DEF TakeExecute, TypeOK
    <3> QED
      BY <2>1, <3>1, <3>2, CallFrame
  <2> QED
    BY <2>2, <2>3
<1>7. ASSUME NEW t \in Txns, ExecuteFails(t) PROVE \A u \in Txns : CallOK(u)'
  <2>1. UNCHANGED <<wire, chain, tron>> /\ pc[t] = "sent" /\ reply[t] # "none"
    BY <1>7 DEF ExecuteFails, ErrorCodes
  <2>2. CallOK(t)
    BY DEF IInv
  <2>3. CASE reply[t] = "credentialEnded" \/ KnownNotSubmitted(t)
    <3>1. NotRun(t)
      BY <2>1, <2>2, <2>3 DEF CallOK, KnownNotSubmitted, NotRun, Closed
    <3>2. \E what : Tell(t, what)
      BY <1>7 DEF ExecuteFails
    <3> QED
      BY <2>1, <3>1, <3>2, TellOK
  <2>4. CASE ~(reply[t] = "credentialEnded" \/ KnownNotSubmitted(t))
    <3>1. Tell(t, "unconfirmed")
      BY <1>7, <2>4 DEF ExecuteFails
    <3> QED
      BY <2>1, <3>1, TellOK
  <2> QED
    BY <2>3, <2>4
<1>8. ASSUME NEW t \in Txns, ExecuteLost(t) PROVE \A u \in Txns : CallOK(u)'
  <2>1. Tell(t, "unconfirmed") /\ UNCHANGED <<wire, chain, tron>>
    BY <1>8 DEF ExecuteLost
  <2> QED
    BY <2>1, TellOK
<1>9. ASSUME NEW t \in Txns, Executed(t) PROVE \A u \in Txns : CallOK(u)'
  <2>1. UNCHANGED <<wire, chain, tron>> /\ told[t] = "pending"
    BY <1>9, Pending DEF Executed
  <2>2. \/ Tell(t, "notRequested")
        \/ Goto(t, "poll") /\ reply' = [reply EXCEPT ![t] = "none"] /\ UNCHANGED told
    BY <1>9 DEF Executed
  <2> QED
    BY <2>1, <2>2, TellOK, GotoOK DEF PCs, Unsent
<1>10. ASSUME NEW t \in Txns, AskStatus(t) PROVE \A u \in Txns : CallOK(u)'
  <2>1. /\ UNCHANGED <<told, reply, wire, chain, tron>> /\ told[t] = "pending"
        /\ Goto(t, "asked") /\ reply[t] = "none"
    BY <1>10, Pending DEF AskStatus, IInv, CallOK
  <2> QED
    BY <2>1, GotoOK DEF PCs, Unsent
<1>11. ASSUME NEW t \in Txns, ShowStatus(t) PROVE \A u \in Txns : CallOK(u)'
  <2> SUFFICES ASSUME NEW u \in Txns PROVE CallOK(u)'
    OBVIOUS
  <2>1. /\ UNCHANGED <<pc, told, wire, chain, tron>> /\ pc[t] = "asked" /\ CallOK(u)
        /\ \A v \in Txns \ {t} : reply'[v] = reply[v]
    BY <1>0, <1>11 DEF ShowStatus, IInv, TypeOK
  <2>2. OnWire(u)' = OnWire(u)
    BY <2>1 DEF OnWire
  <2>3. CASE u = t
    BY <2>1, <2>2, <2>3 DEF CallOK, Unsent
  <2>4. CASE u # t
    BY <2>1, <2>2, <2>4, CallFrame
  <2> QED
    BY <2>3, <2>4
<1>12. ASSUME NEW t \in Txns, StatusShown(t) PROVE \A u \in Txns : CallOK(u)'
  <2>1. UNCHANGED <<wire, chain, tron>> /\ told[t] = "pending"
    BY <1>12, Pending DEF StatusShown
  <2>2. \/ Tell(t, "resolved") \/ Tell(t, "timedOut")
        \/ Goto(t, "delay") /\ reply' = [reply EXCEPT ![t] = "none"] /\ UNCHANGED told
    BY <1>12 DEF StatusShown
  <2> QED
    BY <2>1, <2>2, TellOK, GotoOK DEF PCs, Unsent
<1>13. ASSUME NEW t \in Txns, StatusFails(t) PROVE \A u \in Txns : CallOK(u)'
  <2>1. Tell(t, "lookupFailed") /\ UNCHANGED <<wire, chain, tron>>
    BY <1>13 DEF StatusFails
  <2> QED
    BY <2>1, TellOK
<1>14. ASSUME NEW t \in Txns, Delayed(t) PROVE \A u \in Txns : CallOK(u)'
  <2>1. UNCHANGED <<wire, chain, tron>> /\ told[t] = "pending" /\ reply[t] = "none"
    BY <1>14, Pending DEF Delayed, IInv, CallOK
  <2>2. \/ Tell(t, "timedOut")
        \/ Goto(t, "poll") /\ UNCHANGED told /\ UNCHANGED reply
    BY <1>14 DEF Delayed
  <2> QED
    BY <2>1, <2>2, TellOK, GotoOK DEF PCs, Unsent
<1>15. ASSUME NEW t \in Txns, DeadlinePasses(t) PROVE \A u \in Txns : CallOK(u)'
  <2>1. UNCHANGED <<pc, told, reply, wire, chain, tron>>
    BY <1>15 DEF DeadlinePasses
  <2> QED
    BY <2>1, CallFrame DEF IInv, OnWire
<1>16. ASSUME NEW t \in Txns, Progress(t) PROVE \A u \in Txns : CallOK(u)'
  <2> SUFFICES ASSUME NEW u \in Txns PROVE CallOK(u)'
    OBVIOUS
  <2>1. UNCHANGED <<pc, told, reply, wire, tron>> /\ CallOK(u)
    BY <1>16 DEF Progress, IInv
  <2>2. OnWire(u)' = OnWire(u)
    BY <2>1 DEF OnWire
  <2>3. chain'[u] = chain[u] \/ chain[u] \in Submitted
    BY <1>0, <1>16 DEF Progress, TypeOK, Submitted
  <2> QED
    BY <2>1, <2>2, <2>3 DEF CallOK
<1>17. ASSUME UNCHANGED vars PROVE \A u \in Txns : CallOK(u)'
  <2>1. UNCHANGED <<pc, told, reply, wire, chain, tron>>
    BY <1>17 DEF vars
  <2> QED
    BY <2>1, CallFrame DEF IInv, OnWire
<1> QED
  BY <1>1, <1>2, <1>3, <1>4, <1>5, <1>6, <1>7, <1>8, <1>9, <1>10, <1>11, <1>12, <1>13, <1>14,
     <1>15, <1>16, <1>17 DEF Next, CallStep

-----------------------------------------------------------------------------
(* The wire *)

LEMMA WireNext ==
  ASSUME IInv, [Next]_vars
  PROVE  WireOK'
<1>1. wire' \subseteq wire \/ \E t \in Txns : SendExecute(t)
  BY DEF Next, CallStep, SignOut, SignIn, CredentialEnds, SessionExpires, Send, Prepared,
         PrepareFails, DefaultFee, ShowFees, ChooseFee, NoFee, CallExecute, SendExecuteFails,
         TakeExecute, ExecuteFails, ExecuteLost, Executed, AskStatus, ShowStatus, StatusShown,
         StatusFails, Delayed, DeadlinePasses, Progress, vars
<1>2. ASSUME NEW t \in Txns, SendExecute(t) PROVE WireOK'
  <2>1. ~OnWire(t)
    BY <1>2 DEF SendExecute, IInv, CallOK, Unsent
  <2> QED
    BY <1>2, <2>1 DEF SendExecute, IInv, WireOK, OnWire
<1> QED
  BY <1>1, <1>2 DEF IInv, WireOK

-----------------------------------------------------------------------------
(* The session *)

(* The session stays, or its revision is over.                              *)
Moves == rev' \in Nat /\ (rev' > rev \/ UNCHANGED <<rev, active>>) /\ dead \subseteq dead'

LEMMA PastStays ==
  ASSUME IInv, Moves, NEW r \in Revisions, Past(r)
  PROVE  Past(r)'
BY Revs DEF IInv, Moves, Past

LEMMA OwnedPast ==
  ASSUME IInv, Moves, UNCHANGED callRev, NEW t \in owned, reply[t] = "credentialEnded"
  PROVE  t \in Txns /\ Past(callRev[t])'
<1>1. t \in Txns /\ callRev[t] \in Revisions /\ Past(callRev[t])
  BY DEF IInv, TypeOK, SessionOK
<1>2. Past(callRev[t]) => (callRev[t] \in dead' \/ callRev[t] < rev'
                           \/ (callRev[t] = rev' /\ ~active'))
  BY <1>1, Revs DEF IInv, Moves, Past
<1> QED
  BY <1>1, <1>2 DEF Past

LEMMA SessionKeeps ==
  ASSUME IInv, Moves, UNCHANGED <<callRev, owned>>, wire' \subseteq wire,
         active' => rev' < MaxRevision,
         \A r \in rejected' : r \in Revisions /\ Past(r)',
         \A t \in Txns : pc'[t] = "sent" => pc[t] = "sent",
         \A t \in owned : reply'[t] = "credentialEnded" => Past(callRev[t])'
  PROVE  SessionOK'
<1>1. \A t \in owned : t \in Txns /\ callRev[t] \in Nat
  BY Revs DEF IInv, TypeOK
<1>2. \A t \in owned : callRev[t] < rev' \/ (callRev[t] = rev' /\ active')
  BY <1>1, Revs DEF IInv, SessionOK, Moves
<1>3. \A msg \in wire' : msg \in wire /\ msg.txn \in Txns
  BY DEF IInv, TypeOK, Message
<1>4. \A msg \in wire' : pc'[msg.txn] = "sent" /\ msg.txn \in owned =>
        callRev[msg.txn] < rev' \/ (msg.signedIn /\ msg.cred = callRev[msg.txn])
  BY <1>1, <1>3, Revs DEF IInv, SessionOK, Moves
<1> QED
  BY <1>2, <1>4 DEF SessionOK

LEMMA RejectedPast ==
  ASSUME IInv, NEW t \in Txns, NotesRejection(t)
  PROVE  \A r \in rejected' : r \in Revisions /\ Past(r)
BY DEF NotesRejection, IInv, TypeOK, SessionOK

LEMMA ExpireMoves ==
  ASSUME IInv, NEW t \in Txns, ExpireIfRejected(t), UNCHANGED dead
  PROVE  Moves /\ (active' => rev' < MaxRevision)
BY Revs DEF ExpireIfRejected, Expire, EndSession, Moves, IInv, SessionOK

LEMMA SessionNext ==
  ASSUME IInv, [Next]_vars
  PROVE  SessionOK'
<1>0. TypeOK /\ SessionOK
  BY DEF IInv
<1> USE DEF caller, waas, session
<1>1. ASSUME SignOut \/ SignIn \/ CredentialEnds \/ SessionExpires PROVE SessionOK'
  <2>1. Moves /\ (active' => rev' < MaxRevision)
    BY <1>0, <1>1, Revs DEF SignOut, SignIn, CredentialEnds, SessionExpires, Expire, EndSession,
                            Moves, SessionOK
  <2>2. UNCHANGED <<rejected, pc, callRev, owned, reply, wire>>
    BY <1>1 DEF SignOut, SignIn, CredentialEnds, SessionExpires
  <2>3. \A r \in rejected : r \in Revisions /\ Past(r)'
    BY <1>0, <2>1, PastStays DEF TypeOK, SessionOK
  <2>4. \A t \in owned : reply[t] = "credentialEnded" => Past(callRev[t])'
    BY <2>1, <2>2, OwnedPast
  <2> QED
    BY <2>1, <2>2, <2>3, <2>4, SessionKeeps
<1>2. ASSUME UNCHANGED <<session, callRev, owned, dead>>, wire' \subseteq wire,
             \A u \in Txns : pc'[u] = "sent" => pc[u] = "sent",
             \A u \in owned : reply'[u] = "credentialEnded" =>
               reply[u] = "credentialEnded" \/ Past(callRev[u])
      PROVE  SessionOK'
  <2>1. Moves /\ \A r : Past(r)' = Past(r)
    BY <1>2, Revs, <1>0 DEF Moves, Past
  <2> QED
    BY <1>0, <1>2, <2>1, SessionKeeps DEF SessionOK, TypeOK
<1>3. ASSUME NEW t \in Txns,
             Send(t) \/ Prepared(t) \/ DefaultFee(t) \/ ShowFees(t) \/ ChooseFee(t)
             \/ DeadlinePasses(t) \/ Progress(t) \/ SendExecuteFails(t) \/ ExecuteLost(t) \/ NoFee(t)
             \/ Executed(t) \/ StatusShown(t) \/ Delayed(t)
      PROVE  SessionOK'
  <2>1. UNCHANGED <<session, callRev, owned, dead, wire>>
    BY <1>3 DEF Send, Prepared, DefaultFee, ShowFees, ChooseFee, DeadlinePasses, Progress,
                SendExecuteFails, ExecuteLost, NoFee, Executed, StatusShown, Delayed
  <2>2. /\ UNCHANGED pc \/ \E p \in PCs \ {"sent"} : Goto(t, p)
        /\ UNCHANGED reply \/ reply' = [reply EXCEPT ![t] = "none"]
    BY <1>3 DEF Send, Prepared, DefaultFee, ShowFees, ChooseFee, DeadlinePasses, Progress,
                SendExecuteFails, ExecuteLost, NoFee, Executed, StatusShown, Delayed, Tell, PCs
  <2>3. \A u \in Txns : pc'[u] = "sent" => pc[u] = "sent"
    BY <1>0, <2>2 DEF Goto, TypeOK
  <2>4. \A u \in Txns : reply'[u] = "credentialEnded" => reply[u] = "credentialEnded"
    BY <1>0, <2>2 DEF TypeOK
  <2> QED
    BY <1>0, <1>2, <2>1, <2>3, <2>4 DEF TypeOK
<1>4. ASSUME NEW t \in Txns, PrepareFails(t) PROVE SessionOK'
  <2>1. UNCHANGED <<callRev, owned, wire, dead>> /\ \E what : Tell(t, what)
    BY <1>4 DEF PrepareFails
  <2>2. Moves /\ (active' => rev' < MaxRevision)
    BY <1>0, <1>4, <2>1, ExpireMoves, Revs DEF PrepareFails, Moves, SessionOK
  <2>3. \A r \in rejected' : r \in Revisions /\ Past(r)
    BY <1>0, <1>4 DEF PrepareFails, TypeOK, SessionOK, Past
  <2>4. \A r \in rejected' : r \in Revisions /\ Past(r)'
    BY <2>2, <2>3, PastStays
  <2>5. \A u \in Txns : /\ pc'[u] = "sent" => pc[u] = "sent"
                        /\ reply'[u] = "credentialEnded" => reply[u] = "credentialEnded"
    BY <1>0, <2>1 DEF Tell, Goto, TypeOK
  <2>6. \A u \in owned : reply'[u] = "credentialEnded" => Past(callRev[u])'
    BY <1>0, <2>1, <2>2, <2>5, OwnedPast DEF TypeOK
  <2> QED
    BY <2>1, <2>2, <2>4, <2>5, <2>6, SessionKeeps
<1>5. ASSUME NEW t \in Txns, CallExecute(t) \/ AskStatus(t) PROVE SessionOK'
  <2>1. /\ UNCHANGED <<session, reply, wire, dead>> /\ Calls(t)
        /\ pc[t] \notin {"sent", "asked"}
        /\ \E p \in PCs \ {"sent"} : Goto(t, p)
    BY <1>5 DEF CallExecute, AskStatus, PCs
  <2>2. reply[t] = "none"
    BY <2>1 DEF IInv, CallOK
  <2>3. \A u \in Txns : /\ pc'[u] = "sent" => pc[u] = "sent" /\ u # t
                        /\ u # t => callRev'[u] = callRev[u]
    BY <1>0, <2>1 DEF Goto, Calls, TypeOK
  <2>4. \A u \in owned' : u # t => u \in owned
    BY <2>1 DEF Calls
  <2>5. t \in owned' => active /\ callRev'[t] = rev
    BY <1>0, <2>1 DEF Calls, TypeOK
  <2>6. \A r : Past(r)' = Past(r)
    BY <2>1 DEF Past
  <2>7. owned' \subseteq Txns /\ \A msg \in wire : msg.txn \in Txns
    BY <1>0, <2>1 DEF Calls, TypeOK, Message
  <2>8. \A u \in owned' : callRev'[u] < rev \/ (callRev'[u] = rev /\ active)
    BY <1>0, <2>3, <2>4, <2>5, <2>7 DEF SessionOK
  <2>9. \A u \in owned' : reply[u] = "credentialEnded" => Past(callRev'[u])
    BY <1>0, <2>2, <2>3, <2>4, <2>7 DEF SessionOK
  <2>10. \A msg \in wire : pc'[msg.txn] = "sent" /\ msg.txn \in owned' =>
           callRev'[msg.txn] < rev \/ (msg.signedIn /\ msg.cred = callRev'[msg.txn])
    BY <1>0, <2>3, <2>4, <2>7 DEF SessionOK
  <2> QED
    BY <1>0, <2>1, <2>6, <2>8, <2>9, <2>10 DEF SessionOK, Past
<1>6. ASSUME NEW t \in Txns, SendExecute(t) PROVE SessionOK'
  <2>1. /\ UNCHANGED <<session, callRev, owned, reply, dead>> /\ Goto(t, "sent")
        /\ wire' = wire \cup {[txn |-> t, cred |-> rev, signedIn |-> active]}
    BY <1>6 DEF SendExecute
  <2>2. ~OnWire(t)
    BY <1>6 DEF SendExecute, IInv, CallOK, Unsent
  <2>3. \A u \in Txns : u # t => pc'[u] = pc[u]
    BY <1>0, <2>1 DEF Goto, TypeOK
  <2>4. t \in owned => callRev[t] < rev \/ (callRev[t] = rev /\ active)
    BY <1>0 DEF SessionOK
  <2>5. \A msg \in wire' : pc'[msg.txn] = "sent" /\ msg.txn \in owned =>
          callRev[msg.txn] < rev \/ (msg.signedIn /\ msg.cred = callRev[msg.txn])
    <3> SUFFICES ASSUME NEW msg \in wire', pc'[msg.txn] = "sent", msg.txn \in owned
                 PROVE  callRev[msg.txn] < rev \/ (msg.signedIn /\ msg.cred = callRev[msg.txn])
      OBVIOUS
    <3>1. CASE msg \in wire
      BY <1>0, <2>2, <2>3, <3>1 DEF OnWire, SessionOK, TypeOK, Message
    <3>2. CASE msg = [txn |-> t, cred |-> rev, signedIn |-> active]
      BY <2>4, <3>2
    <3> QED
      BY <2>1, <3>1, <3>2
  <2>6. \A r : Past(r)' = Past(r)
    BY <2>1 DEF Past
  <2> QED
    BY <1>0, <2>1, <2>5, <2>6 DEF SessionOK
<1>7. ASSUME NEW msg \in wire, TakeExecute(msg) PROVE SessionOK'
  <2> DEFINE t == msg.txn
  <2>1. /\ UNCHANGED <<session, pc, callRev, owned, dead>> /\ wire' \subseteq wire
        /\ t \in Txns
    BY <1>0, <1>7 DEF TakeExecute, TypeOK, Message
  <2>2. \A u \in Txns : u # t => reply'[u] = reply[u]
    BY <1>0, <1>7 DEF TakeExecute, TypeOK
  <2>3. reply'[t] = "credentialEnded" =>
          \/ reply[t] = "credentialEnded"
          \/ pc[t] = "sent" /\ ~(msg.signedIn /\ msg.cred \notin dead)
    BY <1>0, <1>7 DEF TakeExecute, TypeOK
  <2>4. t \in owned /\ reply'[t] = "credentialEnded" =>
          reply[t] = "credentialEnded" \/ Past(callRev[t])
    BY <1>0, <2>3 DEF SessionOK, Past
  <2> QED
    BY <1>0, <1>2, <2>1, <2>2, <2>4 DEF TypeOK
<1>8. ASSUME NEW t \in Txns, ExecuteFails(t) \/ StatusFails(t) PROVE SessionOK'
  <2>1. /\ UNCHANGED <<callRev, owned, wire, dead>> /\ NotesRejection(t)
        /\ \E what : Tell(t, what)
        /\ ExpireIfRejected(t) \/ UNCHANGED <<rev, active, expired>>
    BY <1>8 DEF ExecuteFails, StatusFails
  <2>2. Moves /\ (active' => rev' < MaxRevision)
    BY <1>0, <2>1, ExpireMoves, Revs DEF Moves, SessionOK
  <2>3. \A r \in rejected' : r \in Revisions /\ Past(r)'
    BY <2>1, <2>2, RejectedPast, PastStays
  <2>4. \A u \in Txns : /\ pc'[u] = "sent" => pc[u] = "sent"
                        /\ reply'[u] = "credentialEnded" => reply[u] = "credentialEnded"
    BY <1>0, <2>1 DEF Tell, Goto, TypeOK
  <2>5. \A u \in owned : reply'[u] = "credentialEnded" => Past(callRev[u])'
    BY <1>0, <2>1, <2>2, <2>4, OwnedPast DEF TypeOK
  <2> QED
    BY <2>1, <2>2, <2>3, <2>4, <2>5, SessionKeeps
<1>9. ASSUME NEW t \in Txns, ShowStatus(t) PROVE SessionOK'
  <2>1. /\ UNCHANGED <<session, pc, callRev, owned, wire, dead>>
        /\ \A u \in Txns : u # t => reply'[u] = reply[u]
    BY <1>0, <1>9 DEF ShowStatus, TypeOK
  <2>2. reply'[t] = "credentialEnded" => rev \in dead
    BY <1>0, <1>9 DEF ShowStatus, StatusOf, TypeOK
  <2>3. t \in owned /\ reply'[t] = "credentialEnded" => Past(callRev[t])
    BY <1>0, <2>2 DEF SessionOK, Past
  <2> QED
    BY <1>0, <1>2, <2>1, <2>3 DEF TypeOK
<1>10. ASSUME UNCHANGED vars PROVE SessionOK'
  <2>1. UNCHANGED <<session, pc, callRev, owned, reply, wire, dead>>
    BY <1>10 DEF vars
  <2> QED
    BY <1>2, <2>1
<1> QED
  BY <1>1, <1>3, <1>4, <1>5, <1>6, <1>7, <1>8, <1>9, <1>10 DEF Next, CallStep

-----------------------------------------------------------------------------
(* Theorems *)

LEMMA InitInv ==
  ASSUME Init
  PROVE  IInv
<1>1. TypeOK
  BY Revs, ConstantsAssumption
  DEF Init, TypeOK, Revisions, PCs, Codes, States, Failures, Reports
<1>2. WireOK /\ SessionOK
  BY ConstantsAssumption DEF Init, WireOK, SessionOK
<1>3. \A t \in Txns : CallOK(t)
  BY DEF Init, CallOK, OnWire, Unsent, Submitted
<1> QED
  BY <1>1, <1>2, <1>3 DEF IInv

(* The invariant holds in every state.                                      *)
THEOREM Invariance == Spec => []IInv
<1>1. IInv /\ [Next]_vars => IInv'
  BY TypeNext, WireNext, SessionNext, CallsNext DEF IInv
<1> QED
  BY <1>1, InitInv, PTL DEF Spec

(* The session, the calls and WaaS keep their types.                        *)
THEOREM TypeCorrect == Spec => []TypeOK
<1>1. IInv => TypeOK
  BY DEF IInv
<1> QED
  BY <1>1, Invariance, PTL

(* A caller that is not given its txnId may try again: nothing was          *)
(* submitted, or can be any more (executePreparedTransaction).              *)
THEOREM UntoldNeverRunsAlways == Spec => []UntoldNeverRuns
<1>1. IInv => UntoldNeverRuns
  BY DEF IInv, CallOK, OnWire, UntoldNeverRuns
<1> QED
  BY <1>1, Invariance, PTL

(* A session that ends by expiry is one whose credential WaaS has ended,    *)
(* whichever call of whichever session is rejected (operationError).        *)
THEOREM OnlyDeadSessionsExpireAlways == Spec => OnlyDeadSessionsExpire
<1>1. ASSUME IInv, [Next]_vars
      PROVE  [\A r \in expired' \ expired : r \in dead]_vars
  <2>0. TypeOK /\ SessionOK
    BY <1>1 DEF IInv
  <2>1. ASSUME NEW t \in Txns, ExpireIfRejected(t), \A r \in rejected' : Past(r)
        PROVE  \A r \in expired' \ expired : r \in dead
    BY <2>0, <2>1, Revs DEF ExpireIfRejected, EndsSession, Expire, Past
  <2>2. ASSUME NEW t \in Txns, PrepareFails(t)
        PROVE  \A r \in expired' \ expired : r \in dead
    <3>1. CASE UNCHANGED session
      BY <3>1 DEF session
    <3>2. CASE ExpireIfRejected(t) /\ opRev[t] \in dead /\ rejected' = {opRev[t]}
      BY <2>1, <3>2 DEF Past
    <3> QED
      BY <2>2, <3>1, <3>2 DEF PrepareFails
  <2>3. ASSUME NEW t \in Txns, ExecuteFails(t) \/ StatusFails(t)
        PROVE  \A r \in expired' \ expired : r \in dead
    <3>1. NotesRejection(t) /\ (ExpireIfRejected(t) \/ UNCHANGED expired)
      BY <2>3 DEF ExecuteFails, StatusFails
    <3> QED
      BY <1>1, <2>1, <3>1, RejectedPast
  <2>4. ASSUME SessionExpires PROVE \A r \in expired' \ expired : r \in dead
    BY <2>4 DEF SessionExpires, Expire
  <2>5. \/ UNCHANGED expired
        \/ SessionExpires
        \/ \E t \in Txns : PrepareFails(t) \/ ExecuteFails(t) \/ StatusFails(t)
    BY <1>1 DEF Next, CallStep, SignOut, SignIn, CredentialEnds, Send, Prepared, DefaultFee, ShowFees,
                ChooseFee, NoFee, CallExecute, SendExecute, SendExecuteFails, TakeExecute,
                ExecuteLost, Executed, AskStatus, ShowStatus, StatusShown, Delayed,
                DeadlinePasses, Progress, vars, session
  <2> QED
    BY <2>2, <2>3, <2>4, <2>5
<1> QED
  BY <1>1, Invariance, PTL DEF Spec, OnlyDeadSessionsExpire

=============================================================================
