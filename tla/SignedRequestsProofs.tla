------------------------ MODULE SignedRequestsProofs ------------------------
(***************************************************************************)
(* What is proved of the signed requests for any tabs, requests,           *)
(* credentials, retries and failures.                                      *)
(***************************************************************************)
EXTENDS SignedRequests, TLAPS

-----------------------------------------------------------------------------
(* The inductive invariant *)

(* A request that is past its gate holds it.                                *)
GateHeld(r) ==
  PastGate(r) => IF r \in Reads THEN reading[TabOf[r]] = r ELSE r \in counted

(* A request that is signed or sent holds the Web Lock of its queue.        *)
LockHeld(r) ==
  /\ pc[r] \in {"queued", "leaving", "lock", "inFlight"} \cup Signing
       => queueOf[r] \in Creds
  /\ WebLocks /\ Active(r) => lock[queueOf[r]] = r

(* Where a request is tells whether it was sent and given up.               *)
Progress(r) ==
  /\ pc[r] \in {"idle", "identify", "queued", "lock"} \cup AtGate => r \notin sent
  /\ pc[r] = "inFlight" => r \in sent /\ r \notin aborted
  /\ outcome[r] = "failed" => r \in aborted \/ pc[r] = "done"
  /\ outcome[r] \in {"accepted", "rejected"} => pc[r] = "done"
  /\ r \in aborted => outcome[r] # "pending"
  /\ pc[r] \notin {"inFlight", "body", "done"} => reply[r] = "none"
  /\ pc[r] = "body" => reply[r] # "none"

(* While the key is still the one the header names, the signer has no other.*)
HeaderKey(r) ==
  /\ pc[r] \in {"nonce", "sign", "compare"} => head[r].cred \in Creds \ fresh
  /\ pc[r] = "sign" /\ head[r].cred = key => held[TabOf[r]] \in {key, NoCred}
  /\ pc[r] = "compare" /\ head[r].cred = key => head[r].key = key

(* A message still on its way has not run. Its request awaits the answer or *)
(* is over.                                                                 *)
Underway(r) ==
  \A m \in wire :
    m.req = r =>
      /\ m.head.key = m.head.cred /\ m.head.cred \in Creds
      /\ r \in sent /\ runs[r] = 0
      /\ \/ pc[r] = "inFlight" /\ reply[r] = "none"
         \/ pc[r] = "done" /\ outcome[r] \in {"pending", "failed"}

OneMessage(r) == \A m, n \in wire : m.req = r /\ n.req = r => m = n

(* What WaaS has run, against what the request knows.                       *)
Ran(r) ==
  /\ runs[r] \in {0, 1}
  /\ r \notin sent => runs[r] = 0
  /\ pc[r] \in Signing => runs[r] = 0
  /\ pc[r] \in {"inFlight", "body"} /\ reply[r] = "rejected" => runs[r] = 0
  /\ pc[r] \in {"inFlight", "body"} /\ reply[r] = "accepted" => runs[r] = 1
  /\ outcome[r] = "accepted" => runs[r] = 1
  /\ outcome[r] = "rejected" => runs[r] = 0

ReqInv(r) ==
  /\ GateHeld(r) /\ LockHeld(r) /\ Progress(r) /\ HeaderKey(r)
  /\ Underway(r) /\ OneMessage(r) /\ Ran(r)

(* A tab has no counted request while it has a read.                        *)
GateInv ==
  \A t \in Tabs : reading[t] # NoReq =>
    /\ reading[t] \in Reads /\ TabOf[reading[t]] = t
    /\ Counted(t) = {}

IInv ==
  /\ TypeOK
  /\ GateInv
  /\ key \notin fresh
  /\ \A r \in Reqs : ReqInv(r)

-----------------------------------------------------------------------------
(* Type correctness *)

(* The end of a request's stay at a gate, in the queue and at the lock.     *)
LEMMA OpenGateType ==
  ASSUME TypeOK, NEW r \in Reqs, NEW p \in PCs, OpenGate(r, p)
  PROVE  /\ pc' \in [Reqs -> PCs]
         /\ counted' \subseteq Reqs
         /\ reading' \in [Tabs -> ReqOrNone]
BY DEF OpenGate, TypeOK, PCs, AtGate, ReqOrNone

LEMMA FreeTurnType ==
  ASSUME TypeOK, NEW r \in Reqs, FreeTurn(r)
  PROVE  /\ released' \subseteq Reqs
         /\ tail' \in [Tabs -> [Creds -> ReqOrNone]]
         /\ queueOf' = queueOf /\ prev' = prev
BY DEF FreeTurn, TypeOK, ReqOrNone

LEMMA FreeLockType ==
  ASSUME TypeOK, NEW r \in Reqs, FreeLock(r)
  PROVE  lock' \in [Creds -> ReqOrNone]
BY DEF FreeLock, TypeOK, ReqOrNone

LEMMA LeaveAllType ==
  ASSUME TypeOK, NEW r \in Reqs, NEW p \in PCs, LeaveAll(r, p)
  PROVE  /\ pc' \in [Reqs -> PCs]
         /\ counted' \subseteq Reqs
         /\ reading' \in [Tabs -> ReqOrNone]
         /\ released' \subseteq Reqs
         /\ tail' \in [Tabs -> [Creds -> ReqOrNone]]
         /\ queueOf' = queueOf /\ prev' = prev
         /\ lock' \in [Creds -> ReqOrNone]
BY OpenGateType, FreeTurnType, FreeLockType DEF LeaveAll

LEMMA FailType ==
  ASSUME TypeOK, NEW r \in Reqs, Fail(r)
  PROVE  /\ pc' \in [Reqs -> PCs]
         /\ counted' \subseteq Reqs
         /\ reading' \in [Tabs -> ReqOrNone]
         /\ released' \subseteq Reqs
         /\ tail' \in [Tabs -> [Creds -> ReqOrNone]]
         /\ queueOf' = queueOf /\ prev' = prev
         /\ lock' \in [Creds -> ReqOrNone]
         /\ outcome' \in [Reqs -> {"pending", "accepted", "rejected", "failed"}]
         /\ aborted' = aborted
<1>1. "done" \in PCs
  BY DEF PCs
<1> QED
  BY <1>1, LeaveAllType DEF Fail, Tell, TypeOK

LEMMA HeaderType ==
  ASSUME NEW h \in Header, NEW c \in CredOrNone, NEW n \in Nat
  PROVE  /\ [h EXCEPT !.cred = c] \in Header
         /\ [h EXCEPT !.nonce = n] \in Header
         /\ [h EXCEPT !.key = c] \in Header
BY DEF Header

LEMMA TypeInit == Init => TypeOK
BY ConstantsAssumption
DEF Init, TypeOK, PCs, ReqOrNone, CredOrNone, Header, NoHeader, ConstantsAssumption

(* Every step of every request, of WaaS and of the others keeps the types.  *)
LEMMA TypeStep == IInv /\ [Next]_vars => TypeOK'
<1> SUFFICES ASSUME TypeOK, \A r \in Reqs : Progress(r), [Next]_vars
             PROVE  TypeOK'
  BY DEF IInv, ReqInv
<1> USE ConstantsAssumption DEF ConstantsAssumption
<1>1. ASSUME NEW r \in Reqs, EnterGate(r) PROVE TypeOK'
  <2>1. pc' \in [Reqs -> PCs]
    <3>1. \E p \in PCs : Goto(r, p)
      BY <1>1 DEF EnterGate, PCs, AtGate
    <3> QED
      BY <3>1 DEF Goto, TypeOK
  <2>2. counted' \subseteq Reqs /\ reading' \in [Tabs -> ReqOrNone]
    BY <1>1 DEF EnterGate, TypeOK, ReqOrNone, gate
  <2> QED
    BY <1>1, <2>1, <2>2 DEF EnterGate, TypeOK, queue, signer, waas, told, tries
<1>2. ASSUME NEW r \in Reqs, TakeTurn(r) PROVE TypeOK'
  BY <1>2 DEF TakeTurn, Goto, TypeOK, PCs, Signing, gate, queue, signer, waas,
              told, tries
<1>3. ASSUME NEW r \in Reqs, PassTurn(r) PROVE TypeOK'
  BY <1>3, FreeTurnType
  DEF PassTurn, Goto, TypeOK, PCs, gate, signer, waas, told, tries
<1>4. ASSUME NEW r \in Reqs, TakeLock(r) PROVE TypeOK'
  BY <1>4 DEF TakeLock, Goto, TypeOK, PCs, Signing, ReqOrNone, gate, queue,
              signer, waas, told, tries
<1>5. ASSUME NEW r \in Reqs, Answer(r) PROVE TypeOK'
  <2>1. CASE Resends(r)
    <3>0. /\ Goto(r, "readKey")
          /\ retry' = [retry EXCEPT ![r] = @ + 1]
          /\ reply' = [reply EXCEPT ![r] = "none"]
          /\ UNCHANGED <<gate, queue, lock>>
      BY <1>5, <2>1 DEF Answer
    <3>1. pc' \in [Reqs -> PCs]
      BY <3>0 DEF Goto, TypeOK, PCs, Signing
    <3>2. /\ retry' \in [Reqs -> 0..MaxRetries]
          /\ reply' \in [Reqs -> {"none", "accepted", "rejected"}]
      BY <2>1, <3>0 DEF Resends, TypeOK
    <3> QED
      BY <1>5, <3>0, <3>1, <3>2 DEF Answer, TypeOK, gate, queue, signer, told
  <2>2. CASE ~Resends(r)
    <3>1. "body" \in PCs
      BY DEF PCs
    <3> QED
      BY <1>5, <2>2, <3>1, LeaveAllType DEF Answer, TypeOK, signer, told
  <2> QED
    BY <2>1, <2>2
<1>6. ASSUME NEW r \in Reqs, Join(r) PROVE TypeOK'
  BY <1>6 DEF Join, SyncSigner, Goto, TypeOK, PCs, ReqOrNone, CredOrNone, gate,
              waas, told, tries
<1>7. ASSUME NEW r \in Reqs, ReadKey(r) PROVE TypeOK'
  <2>1. pc' \in [Reqs -> PCs]
    BY <1>7 DEF ReadKey, Goto, TypeOK, PCs, Signing
  <2>2. head' \in [Reqs -> Header]
    <3>1. [head[r] EXCEPT !.cred = key] \in Header
      BY HeaderType DEF TypeOK
    <3>2. head' = [head EXCEPT ![r] = [head[r] EXCEPT !.cred = key]]
      BY <1>7 DEF ReadKey, TypeOK
    <3> QED
      BY <3>1, <3>2 DEF TypeOK
  <2>3. held' \in [Tabs -> CredOrNone] /\ nonce' \in Nat
    BY <1>7 DEF ReadKey, SyncSigner, TypeOK, CredOrNone
  <2> QED
    BY <1>7, <2>1, <2>2, <2>3 DEF ReadKey, TypeOK, gate, queue, waas, told
<1>8. ASSUME NEW r \in Reqs, NextNonce(r) PROVE TypeOK'
  <2>1. pc' \in [Reqs -> PCs]
    BY <1>8 DEF NextNonce, Goto, TypeOK, PCs, Signing
  <2>2. head' \in [Reqs -> Header]
    <3>1. [head[r] EXCEPT !.nonce = nonce + 1] \in Header
      <4>1. head[r] \in Header /\ nonce + 1 \in Nat /\ key \in CredOrNone
        BY DEF TypeOK
      <4> QED
        BY <4>1, HeaderType
    <3>2. head' = [head EXCEPT ![r] = [head[r] EXCEPT !.nonce = nonce + 1]]
      BY <1>8 DEF NextNonce, TypeOK
    <3> QED
      BY <3>1, <3>2 DEF TypeOK
  <2>3. held' \in [Tabs -> CredOrNone] /\ nonce' \in Nat
    BY <1>8 DEF NextNonce, SyncSigner, TypeOK, CredOrNone
  <2> QED
    BY <1>8, <2>1, <2>2, <2>3 DEF NextNonce, TypeOK, gate, queue, waas, told
<1>9. ASSUME NEW r \in Reqs, Sign(r) PROVE TypeOK'
  <2>1. pc' \in [Reqs -> PCs]
    BY <1>9 DEF Sign, Goto, TypeOK, PCs, Signing
  <2>2. head' \in [Reqs -> Header]
    <3> DEFINE k == IF held[TabOf[r]] = NoCred THEN key ELSE held[TabOf[r]]
    <3>1. [head[r] EXCEPT !.key = k] \in Header
      BY HeaderType DEF TypeOK, CredOrNone
    <3>2. head' = [head EXCEPT ![r] = [head[r] EXCEPT !.key = k]]
      BY <1>9 DEF Sign, TypeOK
    <3> QED
      BY <3>1, <3>2 DEF TypeOK
  <2>3. held' \in [Tabs -> CredOrNone] /\ nonce' \in Nat
    BY <1>9 DEF Sign, TypeOK, CredOrNone
  <2> QED
    BY <1>9, <2>1, <2>2, <2>3 DEF Sign, TypeOK, gate, queue, waas, told
<1>10. ASSUME NEW r \in Reqs, Send(r) PROVE TypeOK'
  BY <1>10 DEF Send, SyncSigner, Goto, TypeOK, PCs, Message, CredOrNone, gate,
               queue, told
<1>11. ASSUME NEW r \in Reqs, SendNot(r) PROVE TypeOK'
  BY <1>11, FailType DEF SendNot, SyncSigner, TypeOK, CredOrNone, waas, tries
<1>12. ASSUME NEW r \in Reqs, SignerFails(r) PROVE TypeOK'
  BY <1>12, FailType DEF SignerFails, TypeOK, signer, waas, tries
<1>13. ASSUME NEW r \in Reqs, Settle(r) PROVE TypeOK'
  <2>1. pc' \in [Reqs -> PCs]
    BY <1>13 DEF Settle, Goto, TypeOK, PCs
  <2>2. outcome' \in [Reqs -> {"pending", "accepted", "rejected", "failed"}]
    BY <1>13 DEF Settle, Tell, TypeOK, Progress
  <2> QED
    BY <1>13, <2>1, <2>2 DEF Settle, TypeOK, gate, queue, signer, waas, tries
<1>14. ASSUME NEW r \in Reqs, NetworkFails(r) PROVE TypeOK'
  BY <1>14, FailType DEF NetworkFails, TypeOK, signer, waas, tries
<1>15. ASSUME NEW r \in Reqs, Abort(r) PROVE TypeOK'
  BY <1>15, OpenGateType, LeaveAllType
  DEF Abort, AbortFrom, Tell, TypeOK, PCs, gate, queue, signer, waas, tries
<1>16. ASSUME NEW m \in wire, Receive(m) PROVE TypeOK'
  <2>1. m \in Message /\ wire' \subseteq Message
    BY <1>16 DEF Receive, TypeOK
  <2>2. last' \in [Creds -> Nat]
    BY <1>16, <2>1 DEF Receive, TypeOK, Message, Header
  <2>3. /\ runs' \in [Reqs -> Nat]
        /\ reply' \in [Reqs -> {"none", "accepted", "rejected"}]
    BY <1>16, <2>1 DEF Receive, TypeOK, Message
  <2> QED
    BY <1>16, <2>1, <2>2, <2>3 DEF Receive, TypeOK, gate, queue, signer, told, tries
<1>17. CASE SendElsewhere
  <2>1. /\ elsewhere' \in 0..MaxElsewhere
        /\ nonce' \in Nat
        /\ last' \in [Creds -> Nat]
    BY <1>17 DEF SendElsewhere, TypeOK, CredOrNone
  <2> QED
    BY <1>17, <2>1 DEF SendElsewhere, TypeOK, gate, queue, told, tries
<1>18. ASSUME NEW t \in Tabs, RemoveKey(t) PROVE TypeOK'
  BY <1>18 DEF RemoveKey, TypeOK, CredOrNone, gate, queue, waas, told, tries
<1>19. ASSUME NEW t \in Tabs, NEW c \in Creds, CreateKey(t, c) PROVE TypeOK'
  BY <1>19 DEF CreateKey, TypeOK, CredOrNone, gate, queue, waas, told, tries
<1>20. ASSUME NEW t \in Tabs, CloseTab(t) PROVE TypeOK'
  BY <1>20 DEF CloseTab, InTab, TypeOK, PCs, ReqOrNone, signer, waas, told, tries
<1>21. CASE UNCHANGED vars
  BY <1>21 DEF vars, TypeOK, gate, queue, signer, waas, told, tries
<1> QED
  BY <1>1, <1>2, <1>3, <1>4, <1>5, <1>6, <1>7, <1>8, <1>9, <1>10, <1>11, <1>12,
     <1>13, <1>14, <1>15, <1>16, <1>17, <1>18, <1>19, <1>20, <1>21
  DEF Next, Own, SignerStep, Others

-----------------------------------------------------------------------------
(* What a step of one request leaves to the others *)

(* Request s is where it was, or was woken at its gate, and holds and knows *)
(* what it did. Its signer has the key it had, or the stored one.           *)
SameReq(s) ==
  /\ pc'[s] = pc[s] \/ (pc[s] \in AtGate /\ pc'[s] = "recheck")
  /\ outcome'[s] = outcome[s] /\ reply'[s] = reply[s] /\ runs'[s] = runs[s]
  /\ head'[s] = head[s] /\ queueOf'[s] = queueOf[s]
  /\ s \in sent' <=> s \in sent
  /\ s \in aborted' <=> s \in aborted
  /\ s \in counted => s \in counted'
  /\ reading[TabOf[s]] = s => reading'[TabOf[s]] = s
  /\ \A c \in Creds : lock[c] = s => lock'[c] = s
  /\ \A m \in wire' : m.req = s => m \in wire
  /\ held'[TabOf[s]] \in {held[TabOf[s]], key}

KeyKept == key' = key /\ fresh' = fresh

LEMMA SameReqInv ==
  ASSUME TypeOK, TypeOK', NEW s \in Reqs, ReqInv(s), SameReq(s), KeyKept
  PROVE  ReqInv(s)'
<1>1. pc'[s] # pc[s] => pc[s] \in AtGate /\ pc'[s] = "recheck"
  BY DEF SameReq
<1>2. Active(s)' <=> Active(s)
  BY <1>1 DEF SameReq, Active, Signing, AtGate
<1>3. PastGate(s)' <=> PastGate(s)
  BY <1>1, <1>2 DEF PastGate, AtGate
<1>4. GateHeld(s)'
  BY <1>3 DEF ReqInv, GateHeld, SameReq
<1>5. LockHeld(s)'
  <2>1. pc'[s] \in {"queued", "leaving", "lock", "inFlight"} \cup Signing
          => pc[s] = pc'[s]
    BY <1>1 DEF AtGate, Signing
  <2>2. Active(s) => queueOf[s] \in Creds
    BY DEF ReqInv, LockHeld, Active
  <2>3. queueOf'[s] = queueOf[s] /\ \A c \in Creds : lock[c] = s => lock'[c] = s
    BY DEF SameReq
  <2>4. WebLocks /\ Active(s)' => lock'[queueOf'[s]] = s
    BY <1>2, <2>2, <2>3 DEF ReqInv, LockHeld
  <2> QED
    BY <2>1, <2>3, <2>4 DEF ReqInv, LockHeld
<1>6. Progress(s)'
  BY <1>1 DEF ReqInv, Progress, SameReq, AtGate
<1>7. HeaderKey(s)'
  BY <1>1 DEF ReqInv, HeaderKey, SameReq, AtGate, KeyKept
<1>8. Underway(s)' /\ OneMessage(s)'
  BY <1>1 DEF ReqInv, Underway, OneMessage, SameReq, AtGate
<1>9. Ran(s)'
  BY <1>1 DEF ReqInv, Ran, SameReq, AtGate, Signing
<1> QED
  BY <1>4, <1>5, <1>6, <1>7, <1>8, <1>9 DEF ReqInv

(* So a step of r is to be looked at for r and for the gates only.          *)
LEMMA StepInv ==
  ASSUME IInv, TypeOK', NEW r \in Reqs, KeyKept, GateInv', ReqInv(r)',
         \A s \in Reqs \ {r} : SameReq(s)
  PROVE  IInv'
<1>1. ASSUME NEW s \in Reqs PROVE ReqInv(s)'
  BY SameReqInv DEF IInv
<1> QED
  BY <1>1 DEF IInv, KeyKept

(* The gates stay sound when requests leave.                                *)
LEMMA GateShrinks ==
  ASSUME IInv, counted' \subseteq counted,
         \A t \in Tabs : reading'[t] \in {reading[t], NoReq}
  PROVE  GateInv'
BY DEF IInv, GateInv, Counted, InTab

LEMMA OpenGateSame ==
  ASSUME TypeOK, NEW r \in Reqs, NEW p, OpenGate(r, p)
  PROVE  /\ pc'[r] = p
         /\ counted' \subseteq counted /\ r \notin counted'
         /\ \A t \in Tabs : reading'[t] \in {reading[t], NoReq}
         /\ \A s \in Reqs \ {r} :
              /\ pc'[s] = pc[s] \/ (pc[s] \in AtGate /\ pc'[s] = "recheck")
              /\ s \in counted => s \in counted'
              /\ reading[TabOf[s]] = s => reading'[TabOf[s]] = s
BY ConstantsAssumption
DEF OpenGate, Woken, AtGate, TypeOK, InTab, ConstantsAssumption

LEMMA FreeLockSame ==
  ASSUME TypeOK, NEW r \in Reqs, FreeLock(r)
  PROVE  \A s \in Reqs \ {r}, c \in Creds : lock[c] = s => lock'[c] = s
BY DEF FreeLock

LEMMA LeaveAllSame ==
  ASSUME TypeOK, NEW r \in Reqs, NEW p, LeaveAll(r, p)
  PROVE  /\ pc'[r] = p
         /\ counted' \subseteq counted /\ r \notin counted'
         /\ \A t \in Tabs : reading'[t] \in {reading[t], NoReq}
         /\ queueOf' = queueOf
         /\ \A s \in Reqs \ {r} :
              /\ pc'[s] = pc[s] \/ (pc[s] \in AtGate /\ pc'[s] = "recheck")
              /\ s \in counted => s \in counted'
              /\ reading[TabOf[s]] = s => reading'[TabOf[s]] = s
              /\ \A c \in Creds : lock[c] = s => lock'[c] = s
BY OpenGateSame, FreeLockSame DEF LeaveAll, FreeTurn

(* A request that throws.                                                   *)
LEMMA FailInv ==
  ASSUME IInv, TypeOK', NEW r \in Reqs, pc[r] # "done", Fail(r), KeyKept,
         UNCHANGED <<waas, tries>>,
         \A t \in Tabs : held'[t] \in {held[t], key}
  PROVE  IInv'
<1> USE DEF waas, tries
<1>1. pc'[r] = "done" /\ outcome'[r] # "pending" /\ aborted' = aborted
  BY LeaveAllSame DEF Fail, Tell, IInv, TypeOK
<1>2. outcome[r] \in {"pending", "failed"} /\ outcome'[r] = "failed"
  BY DEF Fail, Tell, IInv, TypeOK, ReqInv, Progress
<1>3. GateHeld(r)' /\ LockHeld(r)' /\ HeaderKey(r)'
  BY <1>1 DEF GateHeld, LockHeld, HeaderKey, PastGate, Active, Signing
<1>4. Progress(r)'
  BY <1>1, <1>2 DEF Progress, AtGate
<1>5. Underway(r)' /\ OneMessage(r)' /\ Ran(r)'
  BY <1>1, <1>2 DEF IInv, ReqInv, Underway, OneMessage, Ran, Signing
<1>6. GateInv'
  BY LeaveAllSame, GateShrinks DEF Fail, IInv
<1>7. ASSUME NEW s \in Reqs \ {r} PROVE SameReq(s)
  <2>1. outcome'[s] = outcome[s]
    BY DEF Fail, Tell, IInv, TypeOK
  <2>2. held'[TabOf[s]] \in {held[TabOf[s]], key}
    BY ConstantsAssumption DEF ConstantsAssumption
  <2> QED
    BY <1>1, <2>1, <2>2, LeaveAllSame DEF SameReq, Fail, IInv
<1> QED
  BY <1>3, <1>4, <1>5, <1>6, <1>7, StepInv DEF ReqInv

-----------------------------------------------------------------------------
(* The steps of a request *)

LEMMA EnterGateInv ==
  ASSUME IInv, TypeOK', NEW r \in Reqs, EnterGate(r)
  PROVE  IInv'
<1> USE DEF queue, signer, waas, told, tries
<1>1. /\ pc[r] \in {"idle", "recheck"}
      /\ pc'[r] \in {"identify", "gateRead", "gateIdle"}
      /\ \A s \in Reqs \ {r} : pc'[s] = pc[s]
  BY DEF EnterGate, Goto, IInv, TypeOK
<1>2. GateHeld(r)'
  BY <1>1, ConstantsAssumption
  DEF EnterGate, Goto, GateHeld, PastGate, Active, Signing, gate, IInv, TypeOK,
      ConstantsAssumption
<1>3. /\ LockHeld(r)' /\ HeaderKey(r)'
      /\ Progress(r)' /\ Underway(r)' /\ OneMessage(r)' /\ Ran(r)'
  BY <1>1 DEF EnterGate, LockHeld, HeaderKey, Progress, Underway, OneMessage,
              Ran, Active, Signing, AtGate, IInv, ReqInv
<1>4. GateInv'
  <2>1. CASE ~Passes(r)
    BY <2>1, GateShrinks DEF EnterGate, gate
  <2>2. CASE Passes(r) /\ r \in Reads
    <3>1. counted' = counted /\ reading' = [reading EXCEPT ![TabOf[r]] = r]
      BY <2>2 DEF EnterGate
    <3> QED
      BY <2>2, <3>1 DEF Passes, IInv, GateInv, Counted, InTab, TypeOK
  <2>3. CASE Passes(r) /\ r \notin Reads
    <3>1. counted' = counted \cup {r} /\ reading' = reading
      BY <2>3 DEF EnterGate
    <3> QED
      BY <2>3, <3>1 DEF Passes, IInv, GateInv, Counted, InTab
  <2> QED
    BY <2>1, <2>2, <2>3
<1>5. ASSUME NEW s \in Reqs \ {r} PROVE SameReq(s)
  <2>1. s \in counted => s \in counted'
    BY DEF EnterGate, gate
  <2>2. reading[TabOf[s]] = s => reading'[TabOf[s]] = s
    BY ConstantsAssumption
    DEF EnterGate, Passes, gate, IInv, TypeOK, ConstantsAssumption
  <2> QED
    BY <1>1, <2>1, <2>2 DEF EnterGate, SameReq
<1>6. KeyKept
  BY DEF EnterGate, KeyKept
<1> QED
  BY <1>2, <1>3, <1>4, <1>5, <1>6, StepInv DEF ReqInv

(* A request that only moves, among the steps that hold the same.           *)
LEMMA JoinInv ==
  ASSUME IInv, TypeOK', NEW r \in Reqs, Join(r)
  PROVE  IInv'
<1> USE DEF gate, waas, told, tries
<1>1. pc[r] = "identify" /\ pc'[r] = "queued" /\ queueOf'[r] \in Creds
  BY DEF Join, SyncSigner, Goto, IInv, TypeOK, CredOrNone
<1>2. /\ GateHeld(r)' /\ LockHeld(r)' /\ HeaderKey(r)' /\ Progress(r)'
      /\ Underway(r)' /\ OneMessage(r)' /\ Ran(r)'
  BY <1>1 DEF Join, GateHeld, LockHeld, HeaderKey, Progress, Underway,
              OneMessage, Ran, PastGate, Active, Signing, AtGate, IInv, ReqInv
<1>3. ASSUME NEW s \in Reqs \ {r} PROVE SameReq(s)
  BY ConstantsAssumption
  DEF Join, SyncSigner, Goto, SameReq, IInv, TypeOK, ConstantsAssumption
<1>4. GateInv' /\ KeyKept
  BY GateShrinks DEF Join, KeyKept
<1> QED
  BY <1>2, <1>3, <1>4, StepInv DEF ReqInv

LEMMA TakeTurnInv ==
  ASSUME IInv, TypeOK', NEW r \in Reqs, TakeTurn(r)
  PROVE  IInv'
<1> USE DEF gate, queue, signer, waas, told, tries
<1>1. /\ pc[r] = "queued"
      /\ pc'[r] = IF WebLocks THEN "lock" ELSE "readKey"
      /\ \A s \in Reqs \ {r} : pc'[s] = pc[s]
  BY DEF TakeTurn, Goto, IInv, TypeOK
<1>2. /\ GateHeld(r)' /\ LockHeld(r)' /\ HeaderKey(r)' /\ Progress(r)'
      /\ Underway(r)' /\ OneMessage(r)' /\ Ran(r)'
  BY <1>1 DEF TakeTurn, GateHeld, LockHeld, HeaderKey, Progress, Underway,
              OneMessage, Ran, PastGate, Active, Signing, AtGate, IInv, ReqInv
<1>3. ASSUME NEW s \in Reqs \ {r} PROVE SameReq(s)
  BY <1>1 DEF TakeTurn, SameReq
<1>4. GateInv' /\ KeyKept
  BY GateShrinks DEF TakeTurn, KeyKept
<1> QED
  BY <1>2, <1>3, <1>4, StepInv DEF ReqInv

LEMMA PassTurnInv ==
  ASSUME IInv, TypeOK', NEW r \in Reqs, PassTurn(r)
  PROVE  IInv'
<1> USE DEF gate, signer, waas, told, tries
<1>1. /\ pc[r] = "leaving" /\ pc'[r] = "done"
      /\ \A s \in Reqs \ {r} : pc'[s] = pc[s]
      /\ queueOf' = queueOf
  BY DEF PassTurn, FreeTurn, Goto, IInv, TypeOK
<1>2. /\ GateHeld(r)' /\ LockHeld(r)' /\ HeaderKey(r)' /\ Progress(r)'
      /\ Underway(r)' /\ OneMessage(r)' /\ Ran(r)'
  BY <1>1 DEF PassTurn, GateHeld, LockHeld, HeaderKey, Progress, Underway,
              OneMessage, Ran, PastGate, Active, Signing, AtGate, IInv, ReqInv
<1>3. ASSUME NEW s \in Reqs \ {r} PROVE SameReq(s)
  BY <1>1 DEF PassTurn, SameReq
<1>4. GateInv' /\ KeyKept
  BY GateShrinks DEF PassTurn, KeyKept
<1> QED
  BY <1>2, <1>3, <1>4, StepInv DEF ReqInv

LEMMA TakeLockInv ==
  ASSUME IInv, TypeOK', NEW r \in Reqs, TakeLock(r)
  PROVE  IInv'
<1> USE DEF gate, queue, signer, waas, told, tries
<1>1. /\ pc[r] = "lock" /\ pc'[r] = "readKey"
      /\ \A s \in Reqs \ {r} : pc'[s] = pc[s]
  BY DEF TakeLock, Goto, IInv, TypeOK
<1>2. queueOf[r] \in Creds /\ queueOf' = queueOf /\ lock'[queueOf[r]] = r
  BY <1>1 DEF TakeLock, IInv, ReqInv, LockHeld, TypeOK
<1>3. /\ GateHeld(r)' /\ LockHeld(r)' /\ HeaderKey(r)' /\ Progress(r)'
      /\ Underway(r)' /\ OneMessage(r)' /\ Ran(r)'
  BY <1>1, <1>2
  DEF TakeLock, GateHeld, LockHeld, HeaderKey, Progress, Underway,
      OneMessage, Ran, PastGate, Active, Signing, AtGate, IInv, ReqInv
<1>4. ASSUME NEW s \in Reqs \ {r} PROVE SameReq(s)
  <2>1. \A c \in Creds : lock[c] = s => lock'[c] = s
    BY ConstantsAssumption
    DEF TakeLock, LockFree, IInv, TypeOK, ConstantsAssumption
  <2> QED
    BY <1>1, <2>1 DEF TakeLock, SameReq
<1>5. GateInv' /\ KeyKept
  BY GateShrinks DEF TakeLock, KeyKept
<1> QED
  BY <1>3, <1>4, <1>5, StepInv DEF ReqInv

(* A step of the signature: only the header, the nonce and the key in       *)
(* memory change.                                                           *)
LEMMA SignatureInv ==
  ASSUME IInv, TypeOK', NEW r \in Reqs, NEW p \in {"nonce", "sign", "compare"},
         pc[r] \in Signing, Goto(r, p), HeaderKey(r)', KeyKept,
         NEW h, head' = [head EXCEPT ![r] = h],
         \A t \in Tabs : held'[t] \in {held[t], key},
         UNCHANGED <<gate, queue, lock, waas, told, retry, sent>>
  PROVE  IInv'
<1> USE DEF gate, queue, waas, told
<1>1. pc'[r] = p /\ \A s \in Reqs \ {r} : pc'[s] = pc[s] /\ head'[s] = head[s]
  BY DEF Goto, IInv, TypeOK
<1>2. /\ GateHeld(r)' /\ LockHeld(r)' /\ Progress(r)'
      /\ Underway(r)' /\ OneMessage(r)' /\ Ran(r)'
  BY <1>1 DEF GateHeld, LockHeld, Progress, Underway, OneMessage, Ran,
              PastGate, Active, Signing, AtGate, IInv, ReqInv
<1>3. ASSUME NEW s \in Reqs \ {r} PROVE SameReq(s)
  BY <1>1, ConstantsAssumption DEF SameReq, ConstantsAssumption
<1>4. GateInv'
  BY GateShrinks
<1> QED
  BY <1>2, <1>3, <1>4, StepInv DEF ReqInv

LEMMA SyncHeld ==
  ASSUME IInv, NEW r \in Reqs, SyncSigner(r)
  PROVE  /\ key \in Creds \ fresh
         /\ held'[TabOf[r]] = key
         /\ \A t \in Tabs : held'[t] \in {held[t], key}
BY ConstantsAssumption
DEF SyncSigner, IInv, TypeOK, CredOrNone, ConstantsAssumption

LEMMA ReadKeyInv ==
  ASSUME IInv, TypeOK', NEW r \in Reqs, ReadKey(r)
  PROVE  IInv'
<1>1. head' = [head EXCEPT ![r] = [head[r] EXCEPT !.cred = key]]
  BY DEF ReadKey, IInv, TypeOK
<1>2. pc'[r] = "nonce" /\ head'[r].cred = key /\ KeyKept
  BY DEF ReadKey, Goto, KeyKept, IInv, TypeOK, Header
<1>3. HeaderKey(r)'
  BY <1>2, SyncHeld DEF ReadKey, HeaderKey, KeyKept
<1> QED
  BY <1>1, <1>2, <1>3, SyncHeld, SignatureInv DEF ReadKey, Signing

LEMMA NextNonceInv ==
  ASSUME IInv, TypeOK', NEW r \in Reqs, NextNonce(r)
  PROVE  IInv'
<1>1. head' = [head EXCEPT ![r] = [head[r] EXCEPT !.nonce = nonce + 1]]
  BY DEF NextNonce, IInv, TypeOK
<1>2. pc'[r] = "sign" /\ head'[r].cred = head[r].cred /\ KeyKept
  BY DEF NextNonce, Goto, KeyKept, IInv, TypeOK, Header
<1>3. HeaderKey(r)'
  BY <1>2, SyncHeld DEF NextNonce, HeaderKey, KeyKept, IInv, ReqInv
<1> QED
  BY <1>1, <1>2, <1>3, SyncHeld, SignatureInv DEF NextNonce, Signing

LEMMA SignInv ==
  ASSUME IInv, TypeOK', NEW r \in Reqs, Sign(r)
  PROVE  IInv'
<1> DEFINE k == IF held[TabOf[r]] = NoCred THEN key ELSE held[TabOf[r]]
<1>1. head' = [head EXCEPT ![r] = [head[r] EXCEPT !.key = k]]
  BY DEF Sign, IInv, TypeOK
<1>2. /\ pc'[r] = "compare" /\ KeyKept
      /\ head'[r].cred = head[r].cred /\ head'[r].key = k
  BY DEF Sign, Goto, KeyKept, IInv, TypeOK, Header
<1>3. HeaderKey(r)'
  BY <1>2 DEF Sign, HeaderKey, KeyKept, IInv, ReqInv
<1>4. \A t \in Tabs : held'[t] \in {held[t], key}
  BY DEF Sign, IInv, TypeOK
<1> QED
  BY <1>1, <1>2, <1>3, <1>4, SignatureInv DEF Sign, Signing

LEMMA SendInv ==
  ASSUME IInv, TypeOK', NEW r \in Reqs, Send(r)
  PROVE  IInv'
<1> USE DEF gate, queue, told
<1>1. /\ pc[r] = "compare" /\ pc'[r] = "inFlight"
      /\ \A s \in Reqs \ {r} : pc'[s] = pc[s]
      /\ r \notin aborted
  BY DEF Send, MaySend, Goto, IInv, TypeOK
<1>2. /\ head[r].key = head[r].cred /\ head[r].cred \in Creds
      /\ reply[r] = "none" /\ runs[r] = 0
      /\ \A m \in wire : m.req # r
  BY <1>1 DEF Send, MaySend, IInv, ReqInv, HeaderKey, Progress, Underway, Ran,
              Signing, AtGate
<1>3. GateHeld(r)' /\ LockHeld(r)'
  BY <1>1 DEF Send, GateHeld, LockHeld, PastGate, Active, Signing, IInv, ReqInv
<1>4. HeaderKey(r)' /\ Progress(r)' /\ Ran(r)'
  BY <1>1, <1>2 DEF Send, HeaderKey, Progress, Ran, Signing, AtGate, IInv, ReqInv
<1>5. Underway(r)' /\ OneMessage(r)'
  BY <1>1, <1>2 DEF Send, Underway, OneMessage
<1>6. ASSUME NEW s \in Reqs \ {r} PROVE SameReq(s)
  BY <1>1, SyncHeld, ConstantsAssumption DEF Send, SameReq, ConstantsAssumption
<1>7. GateInv' /\ KeyKept
  BY GateShrinks DEF Send, KeyKept
<1> QED
  BY <1>3, <1>4, <1>5, <1>6, <1>7, StepInv DEF ReqInv

LEMMA FailsInv ==
  ASSUME IInv, TypeOK', NEW r \in Reqs,
         SendNot(r) \/ SignerFails(r) \/ NetworkFails(r)
  PROVE  IInv'
<1>1. CASE SendNot(r)
  BY <1>1, SyncHeld, FailInv DEF SendNot, KeyKept
<1>2. CASE SignerFails(r)
  BY <1>2, FailInv DEF SignerFails, KeyKept, Signing, signer
<1>3. CASE NetworkFails(r)
  BY <1>3, FailInv DEF NetworkFails, KeyKept, signer
<1> QED
  BY <1>1, <1>2, <1>3

LEMMA AnswerInv ==
  ASSUME IInv, TypeOK', NEW r \in Reqs, Answer(r)
  PROVE  IInv'
<1> USE DEF signer, told
<1>1. pc[r] = "inFlight" /\ reply[r] # "none" /\ \A m \in wire : m.req # r
  BY DEF Answer, IInv, ReqInv, Underway
<1>2. CASE Resends(r)
  <2>1. /\ Goto(r, "readKey")
        /\ reply' = [reply EXCEPT ![r] = "none"]
        /\ UNCHANGED <<counted, reading, queue, lock>>
    BY <1>2 DEF Answer, gate
  <2>2. /\ pc'[r] = "readKey" /\ reply'[r] = "none"
        /\ \A s \in Reqs \ {r} : pc'[s] = pc[s] /\ reply'[s] = reply[s]
    BY <2>1 DEF Goto, IInv, TypeOK
  <2>3. GateHeld(r)' /\ LockHeld(r)' /\ HeaderKey(r)'
    BY <1>1, <2>1, <2>2
    DEF Answer, GateHeld, LockHeld, HeaderKey, PastGate, Active, Signing,
        queue, IInv, ReqInv
  <2>4. Progress(r)' /\ Underway(r)' /\ OneMessage(r)' /\ Ran(r)'
    BY <1>1, <1>2, <2>2
    DEF Answer, Resends, Progress, Underway, OneMessage, Ran, Signing, AtGate,
        IInv, ReqInv
  <2>5. ASSUME NEW s \in Reqs \ {r} PROVE SameReq(s)
    BY <2>1, <2>2 DEF Answer, SameReq, queue
  <2>6. GateInv' /\ KeyKept
    BY <2>1, GateShrinks DEF Answer, KeyKept
  <2> QED
    BY <2>3, <2>4, <2>5, <2>6, StepInv DEF ReqInv
<1>3. CASE ~Resends(r)
  <2>1. LeaveAll(r, "body") /\ reply' = reply
    BY <1>3 DEF Answer
  <2>2. pc'[r] = "body" /\ queueOf' = queueOf
    BY <2>1, LeaveAllSame DEF IInv
  <2>3. GateHeld(r)' /\ LockHeld(r)' /\ HeaderKey(r)'
    BY <2>2 DEF GateHeld, LockHeld, HeaderKey, PastGate, Active, Signing
  <2>4. Progress(r)' /\ Underway(r)' /\ OneMessage(r)' /\ Ran(r)'
    BY <1>1, <2>1, <2>2
    DEF Answer, Progress, Underway, OneMessage, Ran, Signing, AtGate, IInv,
        ReqInv
  <2>5. ASSUME NEW s \in Reqs \ {r} PROVE SameReq(s)
    BY <2>1, LeaveAllSame DEF Answer, SameReq, IInv
  <2>6. GateInv' /\ KeyKept
    BY <2>1, LeaveAllSame, GateShrinks DEF Answer, KeyKept, IInv
  <2> QED
    BY <2>3, <2>4, <2>5, <2>6, StepInv DEF ReqInv
<1> QED
  BY <1>2, <1>3

LEMMA SettleInv ==
  ASSUME IInv, TypeOK', NEW r \in Reqs, Settle(r)
  PROVE  IInv'
<1> USE DEF gate, queue, signer, waas, tries
<1>1. /\ pc[r] = "body" /\ pc'[r] = "done"
      /\ \A s \in Reqs \ {r} : pc'[s] = pc[s] /\ outcome'[s] = outcome[s]
  BY DEF Settle, Goto, Tell, IInv, TypeOK
<1>2. /\ reply[r] \in {"accepted", "rejected"}
      /\ \A m \in wire : m.req # r
      /\ outcome'[r] \in {"failed", reply[r]}
      /\ outcome'[r] = "failed" => outcome[r] = "failed"
  BY <1>1 DEF Settle, Tell, IInv, TypeOK, ReqInv, Progress, Underway
<1>3. /\ GateHeld(r)' /\ LockHeld(r)' /\ HeaderKey(r)'
      /\ Underway(r)' /\ OneMessage(r)'
  BY <1>1, <1>2 DEF Settle, GateHeld, LockHeld, HeaderKey, Underway,
                    OneMessage, PastGate, Active, Signing
<1>4. Progress(r)' /\ Ran(r)'
  BY <1>1, <1>2 DEF Settle, Progress, Ran, AtGate, Signing, IInv, ReqInv
<1>5. ASSUME NEW s \in Reqs \ {r} PROVE SameReq(s)
  BY <1>1 DEF Settle, SameReq
<1>6. GateInv' /\ KeyKept
  BY GateShrinks DEF Settle, KeyKept
<1> QED
  BY <1>3, <1>4, <1>5, <1>6, StepInv DEF ReqInv

(* What an abort does to the request itself: it goes on being signed, or it *)
(* waits to pass its turn on, or it is over.                                *)
LEMMA AbortSelf ==
  ASSUME IInv, NEW r \in Reqs, Abort(r)
  PROVE  /\ pc'[r] = IF pc[r] \in Signing THEN pc[r]
                     ELSE IF pc[r] = "queued" THEN "leaving"
                     ELSE "done"
         /\ queueOf' = queueOf
         /\ pc[r] \in Signing /\ r \in sent => UNCHANGED <<pc, gate, lock>>
         /\ counted' \subseteq counted
         /\ \A t \in Tabs : reading'[t] \in {reading[t], NoReq}
         /\ \A s \in Reqs \ {r} :
              /\ pc'[s] = pc[s] \/ (pc[s] \in AtGate /\ pc'[s] = "recheck")
              /\ s \in counted => s \in counted'
              /\ reading[TabOf[s]] = s => reading'[TabOf[s]] = s
              /\ \A c \in Creds : lock[c] = s => lock'[c] = s
<1>1. CASE pc[r] \in Signing /\ r \in sent
  BY <1>1 DEF Abort, AbortFrom, gate, queue
<1>2. CASE pc[r] \in Signing /\ r \notin sent
  BY <1>2, LeaveAllSame DEF Abort, AbortFrom, IInv
<1>3. CASE pc[r] = "queued"
  BY <1>3, OpenGateSame DEF Abort, AbortFrom, IInv, queue, Signing
<1>4. CASE pc[r] \notin Signing \cup {"queued"}
  BY <1>4, LeaveAllSame DEF Abort, AbortFrom, IInv
<1> QED
  BY <1>1, <1>2, <1>3, <1>4

LEMMA AbortInv ==
  ASSUME IInv, TypeOK', NEW r \in Reqs, Abort(r)
  PROVE  IInv'
<1> USE DEF waas, tries
<1>1. /\ pc[r] \notin {"idle", "recheck", "done"}
      /\ outcome[r] = "pending" /\ outcome'[r] = "failed"
      /\ r \in aborted'
      /\ \A s \in Reqs \ {r} :
           outcome'[s] = outcome[s] /\ (s \in aborted' <=> s \in aborted)
  BY DEF Abort, Tell, IInv, TypeOK
<1>2. GateHeld(r)' /\ LockHeld(r)'
  <2>1. CASE pc[r] \in Signing /\ r \in sent
    BY <2>1, AbortSelf DEF Abort, GateHeld, LockHeld, PastGate, Active,
                           Signing, gate, IInv, ReqInv
  <2>2. CASE ~(pc[r] \in Signing /\ r \in sent)
    <3>1. ~Active(r)' /\ ~PastGate(r)'
      BY <1>1, <2>2, AbortSelf DEF Abort, Active, PastGate, Signing
    <3> QED
      BY <3>1, AbortSelf DEF GateHeld, LockHeld, IInv, ReqInv, Signing
  <2> QED
    BY <2>1, <2>2
<1>3. HeaderKey(r)'
  BY AbortSelf DEF Abort, HeaderKey, IInv, ReqInv, Signing, signer
<1>4. Progress(r)'
  BY <1>1, AbortSelf DEF Abort, Progress, Signing, AtGate, IInv, ReqInv
<1>5. Underway(r)' /\ OneMessage(r)' /\ Ran(r)'
  BY <1>1, AbortSelf
  DEF Abort, Underway, OneMessage, Ran, Signing, IInv, ReqInv
<1>6. ASSUME NEW s \in Reqs \ {r} PROVE SameReq(s)
  BY <1>1, AbortSelf DEF Abort, SameReq, signer
<1>7. GateInv' /\ KeyKept
  BY AbortSelf, GateShrinks DEF Abort, KeyKept, signer
<1> QED
  BY <1>2, <1>3, <1>4, <1>5, <1>6, <1>7, StepInv DEF ReqInv

-----------------------------------------------------------------------------
(* The steps of WaaS and of the others *)

LEMMA ReceiveInv ==
  ASSUME IInv, TypeOK', NEW m \in wire, Receive(m)
  PROVE  IInv'
<1> DEFINE r == m.req
<1> USE DEF gate, queue, signer, told, tries
<1>1. r \in Reqs /\ m \in Message
  BY DEF IInv, TypeOK, Message
<1>2. /\ wire' = wire \ {m}
      /\ runs[r] = 0 /\ r \in sent /\ \A n \in wire' : n.req # r
  BY <1>1 DEF Receive, IInv, ReqInv, Underway, OneMessage
<1>3. \/ /\ pc[r] = "inFlight" /\ reply[r] = "none"
         /\ \/ runs'[r] = 1 /\ reply'[r] = "accepted"
            \/ runs'[r] = 0 /\ reply'[r] = "rejected"
      \/ /\ pc[r] = "done" /\ outcome[r] \in {"pending", "failed"}
         /\ runs'[r] \in {0, 1}
  BY <1>1, <1>2 DEF Receive, IInv, ReqInv, Underway, TypeOK
<1>4. GateHeld(r)' /\ LockHeld(r)' /\ HeaderKey(r)'
  BY <1>1 DEF Receive, GateHeld, LockHeld, HeaderKey, PastGate, Active, IInv,
              ReqInv
<1>5. Progress(r)' /\ Underway(r)' /\ OneMessage(r)'
  BY <1>1, <1>2, <1>3
  DEF Receive, Progress, Underway, OneMessage, AtGate, IInv, ReqInv
<1>6. Ran(r)'
  BY <1>1, <1>2, <1>3 DEF Receive, Ran, Progress, Signing, IInv, ReqInv
<1>7. ASSUME NEW s \in Reqs \ {r} PROVE SameReq(s)
  BY <1>1, <1>2 DEF Receive, SameReq, IInv, TypeOK
<1>8. GateInv' /\ KeyKept
  BY GateShrinks DEF Receive, KeyKept
<1> QED
  BY <1>1, <1>4, <1>5, <1>6, <1>7, <1>8, StepInv DEF ReqInv

(* The stored key is removed, or a new one is created: a header that named  *)
(* the old key no longer names the stored one.                              *)
LEMMA KeyInv ==
  ASSUME IInv, TypeOK', NEW t \in Tabs,
         RemoveKey(t) \/ \E c \in Creds : CreateKey(t, c)
  PROVE  IInv'
<1> USE DEF gate, queue, waas, told, tries
<1>1. /\ UNCHANGED <<pc, gate, queue, lock, waas, told, tries>>
      /\ fresh' \subseteq fresh
      /\ key' \notin fresh' /\ key' \in fresh \cup {NoCred}
  BY ConstantsAssumption
  DEF RemoveKey, CreateKey, IInv, TypeOK, ConstantsAssumption
<1>2. ASSUME NEW r \in Reqs PROVE HeaderKey(r)'
  BY <1>1, ConstantsAssumption
  DEF HeaderKey, IInv, ReqInv, ConstantsAssumption
<1>3. ASSUME NEW r \in Reqs PROVE ReqInv(r)'
  BY <1>1, <1>2 DEF IInv, ReqInv, GateHeld, LockHeld, Progress, Underway,
                    OneMessage, Ran, PastGate, Active
<1>4. GateInv'
  BY <1>1 DEF IInv, GateInv, Counted
<1> QED
  BY <1>1, <1>3, <1>4 DEF IInv

LEMMA CloseTabInv ==
  ASSUME IInv, TypeOK', NEW t \in Tabs, CloseTab(t)
  PROVE  IInv'
<1> USE DEF signer, waas, told, tries
<1>1. ASSUME NEW r \in InTab(t) PROVE ReqInv(r)'
  <2>1. r \in Reqs /\ pc'[r] = "done"
    BY DEF CloseTab, InTab
  <2>2. GateHeld(r)' /\ LockHeld(r)' /\ HeaderKey(r)'
    BY <2>1 DEF GateHeld, LockHeld, HeaderKey, PastGate, Active, Signing
  <2>3. Progress(r)' /\ Underway(r)' /\ OneMessage(r)' /\ Ran(r)'
    BY <2>1 DEF CloseTab, Progress, Underway, OneMessage, Ran, Signing, AtGate,
                IInv, ReqInv, TypeOK
  <2> QED
    BY <2>2, <2>3 DEF ReqInv
<1>2. ASSUME NEW r \in Reqs \ InTab(t) PROVE ReqInv(r)'
  <2>1. pc'[r] = pc[r] /\ TabOf[r] # t
    BY DEF CloseTab, InTab
  <2>2. SameReq(r) /\ KeyKept
    BY <2>1, ConstantsAssumption
    DEF CloseTab, SameReq, KeyKept, IInv, TypeOK, ConstantsAssumption
  <2> QED
    BY <2>2, SameReqInv DEF IInv
<1>3. GateInv'
  BY GateShrinks DEF CloseTab, IInv, TypeOK
<1> QED
  BY <1>1, <1>2, <1>3 DEF CloseTab, IInv

LEMMA StutterInv ==
  ASSUME IInv, TypeOK',
         UNCHANGED <<pc, gate, queue, lock, key, fresh, held, wire, runs, reply,
                     told, tries>>
  PROVE  IInv'
BY DEF IInv, GateInv, Counted, ReqInv, GateHeld, LockHeld, Progress, HeaderKey,
       Underway, OneMessage, Ran, PastGate, Active, gate, queue, told, tries

LEMMA NextInv == IInv /\ [Next]_vars => IInv'
<1> SUFFICES ASSUME IInv, [Next]_vars PROVE IInv'
  OBVIOUS
<1>1. TypeOK'
  BY TypeStep
<1>2. ASSUME NEW r \in Reqs,
             EnterGate(r) \/ Own(r) \/ Settle(r) \/ Abort(r)
      PROVE  IInv'
  BY <1>1, <1>2, EnterGateInv, TakeTurnInv, PassTurnInv, TakeLockInv,
     AnswerInv, SettleInv, AbortInv DEF Own
<1>3. ASSUME NEW r \in Reqs, SignerStep(r) \/ NetworkFails(r)
      PROVE  IInv'
  BY <1>1, <1>3, JoinInv, ReadKeyInv, NextNonceInv, SignInv, SendInv, FailsInv
  DEF SignerStep
<1>4. ASSUME NEW m \in wire, Receive(m) PROVE IInv'
  BY <1>1, <1>4, ReceiveInv
<1>5. CASE Others
  BY <1>1, <1>5, KeyInv, CloseTabInv, StutterInv DEF Others, SendElsewhere
<1>6. CASE UNCHANGED vars
  BY <1>1, <1>6, StutterInv DEF vars, signer, waas
<1> QED
  BY <1>2, <1>3, <1>4, <1>5, <1>6 DEF Next

LEMMA InitInv == Init => IInv
BY TypeInit, ConstantsAssumption
DEF Init, IInv, GateInv, Counted, ReqInv, GateHeld, LockHeld, Progress,
    HeaderKey, Underway, OneMessage, Ran, PastGate, Active, Signing, AtGate,
    ConstantsAssumption

LEMMA AlwaysInv == Spec => []IInv
BY InitInv, NextInv, PTL DEF Spec

-----------------------------------------------------------------------------
(* The theorems *)

(* Every variable keeps to its type: in particular a request is sent again  *)
(* at most MaxRetries times (createSignedFetch, MAX_NONCE_RETRIES).         *)
THEOREM TypeCorrect == Spec => []TypeOK
<1>1. IInv => TypeOK
  BY DEF IInv
<1> QED
  BY <1>1, AlwaysInv, PTL

(* While an expiry read is past its gate no other request of its tab is     *)
(* (sessionRequestFetch, credentialReadFetch), whatever is aborted, fails or*)
(* is closed meanwhile.                                                     *)
THEOREM GatesExclude == Spec => []ReadsAlone
<1>1. IInv => ReadsAlone
  <2> SUFFICES ASSUME IInv, NEW r \in Reads, NEW s \in Reqs,
                      TabOf[r] = TabOf[s], PastGate(r), PastGate(s)
               PROVE  r = s
    BY DEF ReadsAlone
  <2>1. r \in Reqs /\ TabOf[r] \in Tabs /\ r # NoReq
    BY ConstantsAssumption DEF ConstantsAssumption
  <2>2. reading[TabOf[r]] = r
    BY <2>1 DEF IInv, ReqInv, GateHeld
  <2>3. s \notin counted
    BY <2>1, <2>2 DEF IInv, GateInv, Counted, InTab
  <2> QED
    BY <2>2, <2>3 DEF IInv, ReqInv, GateHeld
<1> QED
  BY <1>1, AlwaysInv, PTL

(* No message leaves a tab that is signed with another key than its header  *)
(* names, however the key is replaced and however requests share the signer *)
(* (buildWalletSignatureHeader).                                            *)
THEOREM NamedKeySigns == Spec => []SignedByNamedKey
<1>1. IInv => SignedByNamedKey
  BY DEF IInv, TypeOK, Message, ReqInv, Underway, SignedByNamedKey
<1> QED
  BY <1>1, AlwaysInv, PTL

-----------------------------------------------------------------------------
(* The promise *)

reports == [r \in Reqs |-> Report(r)]

(* A step that neither runs, tells nor sends is none of the promise's.      *)
LEMMA PromiseStutters ==
  ASSUME UNCHANGED <<runs, outcome, sent>>
  PROVE  UNCHANGED <<runs, reports>>
BY DEF reports, Report

(* What a caller is told is true.                                           *)
LEMMA PromiseTells ==
  ASSUME IInv, NEW r \in Reqs, NEW o \in {"accepted", "rejected", "failed"},
         Tell(r, o), UNCHANGED <<runs, sent>>,
         o = "accepted" => runs[r] = 1,
         o = "rejected" => runs[r] = 0
  PROVE  [Promise!Next]_<<runs, reports>>
<1>1. CASE outcome[r] # "pending"
  <2>1. outcome' = outcome
    BY <1>1 DEF Tell, IInv, TypeOK
  <2> QED
    BY <2>1, PromiseStutters
<1>2. CASE outcome[r] = "pending"
  <2> DEFINE now == IF o # "failed" THEN o
                    ELSE IF r \in sent THEN "unknown" ELSE "unsent"
  <2>1. outcome' = [outcome EXCEPT ![r] = o]
    BY <1>2 DEF Tell, IInv, TypeOK
  <2>2. reports' = [reports EXCEPT ![r] = now]
    BY <2>1 DEF reports, Report, IInv, TypeOK
  <2>3. reports[r] = "pending"
    BY <1>2 DEF reports, Report
  <2>4. now \in {"unsent", "rejected"} => runs[r] = 0
    BY DEF IInv, ReqInv, Ran
  <2>5. Promise!Report(r, now)
    BY <2>2, <2>3, <2>4 DEF Promise!Report, reports
  <2>6. now \in Promise!Reports \ {"pending"}
    BY DEF Promise!Reports
  <2> QED
    BY <2>5, <2>6 DEF Promise!Next
<1> QED
  BY <1>1, <1>2

(* WaaS runs a request for the first time, and nobody was told that it      *)
(* would not.                                                               *)
LEMMA PromiseRuns ==
  ASSUME IInv, NEW m \in wire, Receive(m)
  PROVE  [Promise!Next]_<<runs, reports>>
<1> DEFINE r == m.req
<1>1. r \in Reqs
  BY DEF IInv, TypeOK, Message
<1>2. reports' = reports
  BY DEF Receive, told, tries, reports, Report
<1>3. CASE runs' = runs
  BY <1>2, <1>3
<1>4. CASE runs' # runs
  <2>1. r \in sent /\ runs[r] = 0
    BY <1>1 DEF IInv, ReqInv, Underway
  <2>2. runs' = [runs EXCEPT ![r] = 1]
    BY <1>1, <1>4, <2>1 DEF Receive, IInv, TypeOK
  <2>3. outcome[r] \in {"pending", "failed"}
    BY <1>1 DEF IInv, ReqInv, Underway, Progress, TypeOK
  <2>4. reports[r] \in {"pending", "unknown"}
    BY <1>1, <2>1, <2>3 DEF reports, Report
  <2>5. Promise!Run(r)
    BY <1>2, <2>1, <2>2, <2>4 DEF Promise!Run, reports
  <2> QED
    BY <1>1, <2>5 DEF Promise!Next
<1> QED
  BY <1>3, <1>4

(* A request is sent only while its caller waits.                           *)
LEMMA PromiseSends ==
  ASSUME IInv, NEW r \in Reqs, Send(r)
  PROVE  UNCHANGED <<runs, reports>>
<1>1. outcome[r] # "failed"
  BY DEF Send, MaySend, IInv, ReqInv, Progress
<1> QED
  BY <1>1 DEF Send, told, reports, Report

LEMMA PromiseStep == IInv /\ [Next]_vars => [Promise!Next]_<<runs, reports>>
<1> SUFFICES ASSUME IInv, [Next]_vars
             PROVE  [Promise!Next]_<<runs, reports>>
  OBVIOUS
<1> USE DEF waas, told, tries
<1>1. ASSUME NEW r \in Reqs, EnterGate(r) \/ Own(r)
      PROVE  UNCHANGED <<runs, outcome, sent>>
  BY <1>1 DEF EnterGate, Own, TakeTurn, PassTurn, TakeLock, Answer
<1>2. ASSUME NEW r \in Reqs, Join(r) \/ ReadKey(r) \/ NextNonce(r) \/ Sign(r)
      PROVE  UNCHANGED <<runs, outcome, sent>>
  BY <1>2 DEF Join, ReadKey, NextNonce, Sign
<1>3. ASSUME NEW r \in Reqs,
             SendNot(r) \/ SignerFails(r) \/ NetworkFails(r) \/ Abort(r)
      PROVE  [Promise!Next]_<<runs, reports>>
  <2>1. Tell(r, "failed") /\ UNCHANGED <<runs, sent>>
    BY <1>3 DEF SendNot, SignerFails, NetworkFails, Abort, Fail
  <2> QED
    BY <2>1, PromiseTells
<1>4. ASSUME NEW r \in Reqs, Settle(r)
      PROVE  [Promise!Next]_<<runs, reports>>
  <2>1. /\ Tell(r, reply[r]) /\ UNCHANGED <<runs, sent>>
        /\ pc[r] = "body" /\ reply[r] \in {"accepted", "rejected"}
    BY <1>4 DEF Settle, IInv, ReqInv, Progress, TypeOK
  <2>2. /\ reply[r] = "accepted" => runs[r] = 1
        /\ reply[r] = "rejected" => runs[r] = 0
    BY <2>1 DEF IInv, ReqInv, Ran
  <2> QED
    BY <2>1, <2>2, PromiseTells
<1>5. CASE Others
  <2>1. UNCHANGED <<runs, outcome, sent>>
    BY <1>5 DEF Others, SendElsewhere, RemoveKey, CreateKey, CloseTab
  <2> QED
    BY <2>1, PromiseStutters
<1>6. CASE UNCHANGED vars
  BY <1>6, PromiseStutters DEF vars
<1> QED
  BY <1>1, <1>2, <1>3, <1>4, <1>5, <1>6, PromiseStutters, PromiseRuns,
     PromiseSends DEF Next, SignerStep

(* The detailed protocol implements the promise: WaaS runs a request at most*)
(* once, and a caller told that its request was not sent, or was rejected,  *)
(* can rely on it for good (createSignedFetch, wasRequestSent).             *)
THEOREM KeepsPromise == Spec => RunsAtMostOnce
<1>1. Init => Promise!Init
  BY DEF Init, Promise!Init, Report
<1> QED
  BY <1>1, AlwaysInv, PromiseStep, PTL
  DEF Spec, RunsAtMostOnce, Promise!Spec, reports

-----------------------------------------------------------------------------
(* What a request holds, and until when *)

(* It has a turn in a queue of its tab.                                     *)
Queued(r) == pc[r] \in {"queued", "leaving", "lock", "inFlight"} \cup Signing

(* Whatever the tab and the browser keep for a request, the request is still*)
(* at a place it leaves by giving that back.                                *)
Held(r) ==
  /\ r \in counted \/ reading[TabOf[r]] = r => PastGate(r)
  /\ \A c \in Creds : lock[c] = r => Active(r)
  /\ \A t \in Tabs, c \in Creds : tail[t][c] = r => TabOf[r] = t /\ Queued(r)
  /\ r \in aborted \ sent => r \in released \/ pc[r] = "leaving"
  /\ pc[r] \in {"idle", "identify", "queued", "lock"} \cup AtGate => r \notin aborted
  /\ pc[r] = "leaving" => r \in aborted

HeldInv == \A r \in Reqs : Held(r)

(* Request s is where it was, or was woken at its gate, and holds no more.  *)
HoldsNoMore(s) ==
  /\ pc'[s] = pc[s] \/ (pc[s] \in AtGate /\ pc'[s] = "recheck")
  /\ s \in sent' <=> s \in sent
  /\ s \in aborted' <=> s \in aborted
  /\ s \in counted' => s \in counted
  /\ reading'[TabOf[s]] = s => reading[TabOf[s]] = s
  /\ \A c \in Creds : lock'[c] = s => lock[c] = s
  /\ \A t \in Tabs, c \in Creds : tail'[t][c] = s => tail[t][c] = s
  /\ s \in released => s \in released'

LEMMA HoldsNoMoreHeld ==
  ASSUME NEW s \in Reqs, Held(s), HoldsNoMore(s)
  PROVE  Held(s)'
<1>1. pc'[s] # pc[s] => pc[s] \in AtGate /\ pc'[s] = "recheck"
  BY DEF HoldsNoMore
<1>2. (Active(s)' <=> Active(s)) /\ (PastGate(s)' <=> PastGate(s))
  BY <1>1 DEF HoldsNoMore, Active, PastGate, Signing, AtGate
<1>3. Queued(s) => Queued(s)'
  BY <1>1 DEF Queued, Signing, AtGate
<1> QED
  BY <1>1, <1>2, <1>3 DEF Held, HoldsNoMore, AtGate

LEMMA HeldStep ==
  ASSUME HeldInv, NEW r \in Reqs, Held(r)',
         \A s \in Reqs \ {r} : HoldsNoMore(s)
  PROVE  HeldInv'
<1>1. ASSUME NEW s \in Reqs PROVE Held(s)'
  BY HoldsNoMoreHeld DEF HeldInv
<1> QED
  BY <1>1 DEF HeldInv

LEMMA OpenGateGives ==
  ASSUME TypeOK, NEW r \in Reqs, NEW p, OpenGate(r, p)
  PROVE  /\ pc'[r] = p /\ r \notin counted' /\ reading'[TabOf[r]] # r
         /\ \A s \in Reqs \ {r} :
              /\ pc'[s] = pc[s] \/ (pc[s] \in AtGate /\ pc'[s] = "recheck")
              /\ s \in counted' => s \in counted
              /\ reading'[TabOf[s]] = s => reading[TabOf[s]] = s
<1>1. TabOf[r] \in Tabs /\ r # NoReq /\ \A s \in Reqs : s # NoReq
  BY ConstantsAssumption DEF ConstantsAssumption
<1>2. r \notin counted' /\ \A s \in Reqs \ {r} : s \in counted' => s \in counted
  BY DEF OpenGate
<1>3. /\ reading'[TabOf[r]] # r
      /\ \A s \in Reqs : reading'[TabOf[s]] = s => reading[TabOf[s]] = s
  BY <1>1, ConstantsAssumption DEF OpenGate, TypeOK, ConstantsAssumption
<1> QED
  BY <1>2, <1>3, OpenGateSame

LEMMA FreeTurnGives ==
  ASSUME TypeOK, NEW r \in Reqs, FreeTurn(r)
  PROVE  /\ released' = released \cup {r}
         /\ \A c \in Creds : tail'[TabOf[r]][c] # r
         /\ \A t \in Tabs, c \in Creds : tail'[t][c] \in {tail[t][c], NoReq}
         /\ \A t \in Tabs, c \in Creds : tail[t][c] # r => tail'[t][c] = tail[t][c]
         /\ queueOf' = queueOf /\ prev' = prev
BY ConstantsAssumption DEF FreeTurn, TypeOK, ConstantsAssumption

LEMMA LeaveAllGives ==
  ASSUME TypeOK, NEW r \in Reqs, NEW p, LeaveAll(r, p), Held(r)
  PROVE  /\ pc'[r] = p
         /\ r \notin counted' /\ reading'[TabOf[r]] # r
         /\ \A c \in Creds : lock'[c] # r
         /\ \A t \in Tabs, c \in Creds : tail'[t][c] # r
         /\ r \in released'
         /\ \A s \in Reqs \ {r} :
              /\ pc'[s] = pc[s] \/ (pc[s] \in AtGate /\ pc'[s] = "recheck")
              /\ s \in counted' => s \in counted
              /\ reading'[TabOf[s]] = s => reading[TabOf[s]] = s
              /\ \A c \in Creds : lock'[c] = s => lock[c] = s
              /\ \A t \in Tabs, c \in Creds : tail'[t][c] = s => tail[t][c] = s
              /\ s \in released => s \in released'
<1>1. r # NoReq /\ \A s \in Reqs : s # NoReq
  BY ConstantsAssumption DEF ConstantsAssumption
<1>2. /\ \A c \in Creds : lock'[c] # r
      /\ \A s \in Reqs, c \in Creds : lock'[c] = s => lock[c] = s
  BY <1>1 DEF LeaveAll, FreeLock
<1>3. /\ \A t \in Tabs, c \in Creds : tail'[t][c] # r
      /\ \A s \in Reqs, t \in Tabs, c \in Creds :
           tail'[t][c] = s => tail[t][c] = s
      /\ released' = released \cup {r}
  BY <1>1, FreeTurnGives DEF LeaveAll, Held
<1> QED
  BY <1>2, <1>3, OpenGateGives DEF LeaveAll

(* A request that holds nothing any more.                                   *)
LEMMA LeavesHeld ==
  ASSUME TypeOK, HeldInv, NEW r \in Reqs, NEW p, LeaveAll(r, p),
         sent' = sent, p \in Signing \cup {"body", "done"},
         \A s \in Reqs \ {r} : s \in aborted' <=> s \in aborted
  PROVE  HeldInv'
<1>1. Held(r)
  BY DEF HeldInv
<1>2. Held(r)'
  BY <1>1, LeaveAllGives DEF Held, Signing, AtGate
<1>3. ASSUME NEW s \in Reqs \ {r} PROVE HoldsNoMore(s)
  BY <1>1, LeaveAllGives DEF HoldsNoMore
<1> QED
  BY <1>2, <1>3, HeldStep

(* A request that goes on with what it holds.                               *)
LEMMA GoesOnHeld ==
  ASSUME TypeOK, HeldInv, NEW r \in Reqs, NEW p, Goto(r, p),
         UNCHANGED <<gate, queue, lock, aborted>>,
         sent' \in {sent, sent \cup {r}},
         PastGate(r) => PastGate(r)', Active(r) => Active(r)',
         Queued(r) => Queued(r)', pc[r] # "leaving",
         \/ p \in {"readKey", "nonce", "sign", "compare", "inFlight", "body", "done"}
         \/ p = "lock" /\ r \notin aborted
  PROVE  HeldInv'
<1>1. \A s \in Reqs \ {r} : pc'[s] = pc[s]
  BY DEF Goto, TypeOK
<1>2. Held(r)'
  BY DEF HeldInv, Held, Goto, TypeOK, AtGate, gate, queue
<1>3. ASSUME NEW s \in Reqs \ {r} PROVE HoldsNoMore(s)
  BY <1>1 DEF HoldsNoMore, gate, queue
<1> QED
  BY <1>2, <1>3, HeldStep

LEMMA EnterGateHeld ==
  ASSUME IInv, HeldInv, NEW r \in Reqs, EnterGate(r)
  PROVE  HeldInv'
<1> USE DEF queue, told, tries
<1>1. /\ pc[r] \in {"idle", "recheck"}
      /\ \A s \in Reqs \ {r} : pc'[s] = pc[s]
  BY DEF EnterGate, Goto, IInv, TypeOK
<1>2. TypeOK /\ TabOf[r] \in Tabs
  BY ConstantsAssumption DEF IInv, ConstantsAssumption
<1>3. ~PastGate(r) /\ ~Active(r) /\ ~Queued(r)
  BY <1>1 DEF PastGate, Active, Queued, Signing
<1>4. r \notin counted /\ reading[TabOf[r]] # r
  BY <1>3 DEF HeldInv, Held
<1>5. r \in counted' \/ reading'[TabOf[r]] = r => PastGate(r)'
  <2>1. CASE Passes(r)
    BY <1>2, <2>1 DEF EnterGate, Goto, PastGate, TypeOK
  <2>2. CASE ~Passes(r)
    BY <1>4, <2>2 DEF EnterGate, gate
  <2> QED
    BY <2>1, <2>2
<1>6. Held(r)'
  <2>1. r \notin aborted /\ aborted' = aborted
    BY <1>1 DEF EnterGate, HeldInv, Held, AtGate
  <2>2. pc'[r] \in {"identify", "gateRead", "gateIdle"}
    BY DEF EnterGate, Goto, IInv, TypeOK
  <2> QED
    BY <1>3, <1>5, <2>1, <2>2 DEF EnterGate, HeldInv, Held
<1>7. ASSUME NEW s \in Reqs \ {r} PROVE HoldsNoMore(s)
  <2>1. s \in counted' => s \in counted
    BY DEF EnterGate, gate
  <2>2. reading'[TabOf[s]] = s => reading[TabOf[s]] = s
    BY <1>2, ConstantsAssumption DEF EnterGate, gate, TypeOK, ConstantsAssumption
  <2> QED
    BY <1>1, <2>1, <2>2 DEF EnterGate, HoldsNoMore
<1> QED
  BY <1>6, <1>7, HeldStep

LEMMA JoinHeld ==
  ASSUME IInv, HeldInv, NEW r \in Reqs, Join(r)
  PROVE  HeldInv'
<1> USE DEF gate, told, tries
<1>1. /\ pc[r] = "identify" /\ pc'[r] = "queued" /\ key \in Creds
      /\ \A s \in Reqs \ {r} : pc'[s] = pc[s]
  BY DEF Join, SyncSigner, Goto, IInv, TypeOK, CredOrNone
<1>2. TabOf[r] \in Tabs
  BY ConstantsAssumption DEF ConstantsAssumption
<1>3. \A t \in Tabs, c \in Creds :
        tail'[t][c] = IF t = TabOf[r] /\ c = key THEN r ELSE tail[t][c]
  BY <1>1, <1>2 DEF Join, IInv, TypeOK
<1>4. PastGate(r)' /\ Queued(r)' /\ ~Active(r) /\ ~Queued(r)
  BY <1>1 DEF PastGate, Queued, Active, Signing
<1>5. Held(r)'
  BY <1>1, <1>3, <1>4 DEF Join, HeldInv, Held
<1>6. ASSUME NEW s \in Reqs \ {r} PROVE HoldsNoMore(s)
  BY <1>1, <1>3 DEF Join, HoldsNoMore
<1> QED
  BY <1>5, <1>6, HeldStep

LEMMA PassTurnHeld ==
  ASSUME IInv, HeldInv, NEW r \in Reqs, PassTurn(r)
  PROVE  HeldInv'
<1> USE DEF gate, told, tries
<1>1. /\ pc[r] = "leaving" /\ pc'[r] = "done"
      /\ \A s \in Reqs \ {r} : pc'[s] = pc[s]
  BY DEF PassTurn, Goto, IInv, TypeOK
<1>2. ~PastGate(r) /\ ~Active(r)
  BY <1>1 DEF PastGate, Active, Signing
<1>3. /\ r \in released' /\ \A t \in Tabs, c \in Creds : tail'[t][c] # r
      /\ \A s \in Reqs : s \in released => s \in released'
      /\ \A s \in Reqs, t \in Tabs, c \in Creds : tail'[t][c] = s => tail[t][c] = s
  BY FreeTurnGives, ConstantsAssumption
  DEF PassTurn, IInv, HeldInv, Held, ConstantsAssumption
<1>4. Held(r)'
  BY <1>1, <1>2, <1>3 DEF PassTurn, HeldInv, Held, AtGate
<1>5. ASSUME NEW s \in Reqs \ {r} PROVE HoldsNoMore(s)
  BY <1>1, <1>3 DEF PassTurn, HoldsNoMore
<1> QED
  BY <1>4, <1>5, HeldStep

(* The steps of a request that stays in the queue.                          *)
LEMMA SignatureHeld ==
  ASSUME IInv, HeldInv, NEW r \in Reqs,
         TakeTurn(r) \/ ReadKey(r) \/ NextNonce(r) \/ Sign(r) \/ Send(r)
  PROVE  HeldInv'
<1> USE DEF gate, queue, signer, told, tries
<1>1. TypeOK /\ pc[r] \in {"queued"} \cup Signing
  BY DEF TakeTurn, ReadKey, NextNonce, Sign, Send, Signing, IInv
<1>2. PICK p \in {"lock", "readKey", "nonce", "sign", "compare", "inFlight"} :
        Goto(r, p) /\ (p = "lock" => pc[r] = "queued")
  BY DEF TakeTurn, ReadKey, NextNonce, Sign, Send
<1>3. pc'[r] = p
  BY <1>1, <1>2 DEF Goto, TypeOK
<1>4. UNCHANGED <<gate, queue, lock, aborted>>
  BY DEF TakeTurn, ReadKey, NextNonce, Sign, Send
<1>5. sent' \in {sent, sent \cup {r}}
  BY DEF TakeTurn, ReadKey, NextNonce, Sign, Send
<1>6. pc[r] = "queued" => r \notin aborted
  BY DEF HeldInv, Held
<1>7. /\ PastGate(r) => PastGate(r)'
      /\ Active(r) => Active(r)'
      /\ Queued(r) => Queued(r)'
  BY <1>1, <1>2, <1>3, <1>4, <1>5, <1>6 DEF PastGate, Active, Queued, Signing
<1> QED
  BY <1>1, <1>2, <1>4, <1>5, <1>6, <1>7, GoesOnHeld DEF Signing

LEMMA TakeLockHeld ==
  ASSUME IInv, HeldInv, NEW r \in Reqs, TakeLock(r)
  PROVE  HeldInv'
<1> USE DEF gate, queue, told, tries
<1>1. /\ pc[r] = "lock" /\ pc'[r] = "readKey"
      /\ \A s \in Reqs \ {r} : pc'[s] = pc[s]
  BY DEF TakeLock, Goto, IInv, TypeOK
<1>2. r \notin aborted /\ aborted' = aborted
  BY <1>1 DEF TakeLock, HeldInv, Held
<1>3. Active(r)' /\ PastGate(r)' /\ Queued(r)'
  BY <1>1, <1>2 DEF Active, PastGate, Queued, Signing
<1>4. Held(r)'
  BY <1>1, <1>2, <1>3 DEF TakeLock, HeldInv, Held, AtGate
<1>5. ASSUME NEW s \in Reqs \ {r} PROVE HoldsNoMore(s)
  <2>1. \A c \in Creds : lock'[c] = s => lock[c] = s
    BY DEF TakeLock, IInv, TypeOK
  <2> QED
    BY <1>1, <2>1 DEF TakeLock, HoldsNoMore
<1> QED
  BY <1>4, <1>5, HeldStep

LEMMA AnswerHeld ==
  ASSUME IInv, HeldInv, NEW r \in Reqs, Answer(r)
  PROVE  HeldInv'
<1> USE DEF told
<1>1. TypeOK /\ pc[r] = "inFlight" /\ UNCHANGED <<aborted, sent>>
  BY DEF Answer, IInv
<1>2. CASE Resends(r)
  <2>1. Goto(r, "readKey") /\ UNCHANGED <<gate, queue, lock>>
    BY <1>2 DEF Answer
  <2>2. pc'[r] = "readKey"
    BY <1>1, <2>1 DEF Goto, TypeOK
  <2>3. /\ PastGate(r) => PastGate(r)'
        /\ Active(r) => Active(r)'
        /\ Queued(r) => Queued(r)'
    BY <1>1, <2>2 DEF PastGate, Active, Queued, Signing
  <2> QED
    BY <1>1, <2>1, <2>3, GoesOnHeld
<1>3. CASE ~Resends(r)
  BY <1>1, <1>3, LeavesHeld DEF Answer
<1> QED
  BY <1>2, <1>3

LEMMA FailsHeld ==
  ASSUME IInv, HeldInv, NEW r \in Reqs,
         SendNot(r) \/ SignerFails(r) \/ NetworkFails(r)
  PROVE  HeldInv'
<1>1. LeaveAll(r, "done") /\ UNCHANGED <<aborted, sent>>
  BY DEF SendNot, SignerFails, NetworkFails, Fail, tries
<1> QED
  BY <1>1, LeavesHeld DEF IInv

LEMMA SettleHeld ==
  ASSUME IInv, HeldInv, NEW r \in Reqs, Settle(r)
  PROVE  HeldInv'
<1>1. /\ TypeOK /\ pc[r] = "body"
      /\ Goto(r, "done") /\ UNCHANGED <<gate, queue, lock, aborted, sent>>
  BY DEF Settle, IInv, tries
<1>2. ~PastGate(r) /\ ~Active(r) /\ ~Queued(r)
  BY <1>1 DEF PastGate, Active, Queued, Signing
<1> QED
  BY <1>1, <1>2, GoesOnHeld

(* A request that is aborted keeps its place in the queue if it waits there,*)
(* and all it holds if it was sent.                                         *)
LEMMA AbortHeld ==
  ASSUME IInv, HeldInv, NEW r \in Reqs, Abort(r)
  PROVE  HeldInv'
<1>1. /\ TypeOK /\ pc[r] \notin {"idle", "recheck", "done"} /\ sent' = sent
      /\ r \in aborted' /\ \A s \in Reqs \ {r} : s \in aborted' <=> s \in aborted
  BY DEF Abort, IInv, tries
<1>2. CASE pc[r] \in Signing /\ r \in sent
  <2>1. UNCHANGED <<pc, gate, queue, lock>>
    BY <1>2 DEF Abort, AbortFrom
  <2>2. Held(r)'
    BY <1>1, <1>2, <2>1
    DEF HeldInv, Held, Active, PastGate, Queued, Signing, AtGate, gate, queue
  <2>3. ASSUME NEW s \in Reqs \ {r} PROVE HoldsNoMore(s)
    BY <1>1, <2>1 DEF HoldsNoMore, gate, queue
  <2> QED
    BY <2>2, <2>3, HeldStep
<1>3. CASE pc[r] = "queued"
  <2>1. OpenGate(r, "leaving") /\ UNCHANGED <<queue, lock>>
    BY <1>3 DEF Abort, AbortFrom, Signing
  <2>2. ~Active(r) /\ Queued(r)' /\ pc'[r] = "leaving"
    BY <1>1, <1>3, <2>1, OpenGateGives DEF Active, Queued, Signing
  <2>3. Held(r)'
    BY <1>1, <1>3, <2>1, <2>2, OpenGateGives
    DEF HeldInv, Held, Queued, AtGate, queue
  <2>4. ASSUME NEW s \in Reqs \ {r} PROVE HoldsNoMore(s)
    BY <1>1, <2>1, OpenGateGives DEF HoldsNoMore, queue
  <2> QED
    BY <2>3, <2>4, HeldStep
<1>4. CASE ~(pc[r] \in Signing /\ r \in sent) /\ pc[r] # "queued"
  <2>1. \E p \in Signing \cup {"done"} : LeaveAll(r, p)
    BY <1>4 DEF Abort, AbortFrom
  <2> QED
    BY <1>1, <2>1, LeavesHeld
<1> QED
  BY <1>2, <1>3, <1>4

LEMMA CloseTabHeld ==
  ASSUME IInv, HeldInv, NEW t \in Tabs, CloseTab(t)
  PROVE  HeldInv'
<1> USE DEF told, tries
<1>1. NoReq \notin Reqs
  BY ConstantsAssumption DEF ConstantsAssumption
<1>2. ASSUME NEW r \in Reqs, TabOf[r] = t PROVE Held(r)'
  <2>1. r \in InTab(t) /\ pc'[r] = "done" /\ r \notin counted' /\ r \in released'
    BY <1>2 DEF CloseTab, InTab
  <2>2. reading'[TabOf[r]] # r /\ \A c \in Creds : lock'[c] # r
    BY <1>1, <1>2, <2>1 DEF CloseTab, IInv, TypeOK
  <2>3. \A u \in Tabs, c \in Creds : tail'[u][c] # r
    BY <1>1, <1>2 DEF CloseTab, HeldInv, Held, IInv, TypeOK
  <2> QED
    BY <2>1, <2>2, <2>3 DEF Held, AtGate
<1>3. ASSUME NEW r \in Reqs, TabOf[r] # t PROVE Held(r)'
  <2>1. r \notin InTab(t) /\ pc'[r] = pc[r] /\ TabOf[r] \in Tabs
    BY <1>3, ConstantsAssumption DEF CloseTab, InTab, ConstantsAssumption
  <2>2. \A u \in Tabs, c \in Creds : tail'[u][c] = r => tail[u][c] = r
    BY <1>1 DEF CloseTab, IInv, TypeOK
  <2>3. \A c \in Creds : lock'[c] = r => lock[c] = r
    BY <1>1 DEF CloseTab
  <2>4. HoldsNoMore(r)
    BY <1>3, <2>1, <2>2, <2>3 DEF CloseTab, HoldsNoMore, IInv, TypeOK
  <2> QED
    BY <2>4, HoldsNoMoreHeld DEF HeldInv
<1> QED
  BY <1>2, <1>3 DEF HeldInv

LEMMA StutterHeld ==
  ASSUME HeldInv, UNCHANGED <<pc, gate, queue, lock, aborted, sent>>
  PROVE  HeldInv'
BY DEF HeldInv, Held, Active, PastGate, Queued, gate, queue

LEMMA NextHeld == IInv /\ HeldInv /\ [Next]_vars => HeldInv'
<1> SUFFICES ASSUME IInv, HeldInv, [Next]_vars PROVE HeldInv'
  OBVIOUS
<1>1. ASSUME NEW r \in Reqs, EnterGate(r) \/ Own(r) \/ Settle(r) \/ Abort(r)
      PROVE  HeldInv'
  BY <1>1, EnterGateHeld, SignatureHeld, PassTurnHeld, TakeLockHeld,
     AnswerHeld, SettleHeld, AbortHeld DEF Own
<1>2. ASSUME NEW r \in Reqs, SignerStep(r) \/ NetworkFails(r)
      PROVE  HeldInv'
  BY <1>2, JoinHeld, SignatureHeld, FailsHeld DEF SignerStep
<1>3. ASSUME NEW m \in wire, Receive(m) PROVE HeldInv'
  BY <1>3, StutterHeld DEF Receive, told, tries
<1>4. CASE Others
  BY <1>4, CloseTabHeld, StutterHeld
  DEF Others, SendElsewhere, RemoveKey, CreateKey, told, tries
<1>5. CASE UNCHANGED vars
  BY <1>5, StutterHeld DEF vars, told, tries
<1> QED
  BY <1>1, <1>2, <1>3, <1>4, <1>5 DEF Next

LEMMA InitHeld == Init => HeldInv
BY ConstantsAssumption
DEF Init, HeldInv, Held, ConstantsAssumption

LEMMA AlwaysHeld == Spec => []HeldInv
BY InitHeld, NextHeld, AlwaysInv, PTL DEF Spec

(* A request aborted before it was sent holds nothing that another waits    *)
(* for, however late its signer ends: no count, no read, no lock, no turn   *)
(* but its place in the queue (finishIfNotSent, releaseIfNotSent,           *)
(* resolveIfNotSent).                                                       *)
THEOREM AbortLetsGo == Spec => []GaveUpHoldsNothing
<1>1. IInv /\ HeldInv => GaveUpHoldsNothing
  <2> SUFFICES ASSUME IInv, HeldInv, NEW r \in aborted \ sent
               PROVE  /\ r \notin counted /\ reading[TabOf[r]] # r
                      /\ \A c \in Creds : lock[c] # r
                      /\ r \in released \/ pc[r] = "leaving"
    BY DEF GaveUpHoldsNothing
  <2>1. r \in Reqs /\ Held(r)
    BY DEF IInv, TypeOK, HeldInv
  <2>2. ~Active(r)
    BY DEF Active
  <2>3. ~PastGate(r)
    BY <2>1, <2>2 DEF PastGate, Held
  <2> QED
    BY <2>1, <2>2, <2>3 DEF Held
<1> QED
  BY <1>1, AlwaysInv, AlwaysHeld, PTL

(* When all requests of a tab are over, nothing of the tab is left that     *)
(* would stop the next one: no count, no read, no turn, no lock             *)
(* (signedSessionRequestsInFlight, credentialReadInFlight,                  *)
(* signedRequestQueues, withWebLock).                                       *)
THEOREM LeavesNothing == Spec => []NothingLeftBehind
<1>1. IInv /\ HeldInv => NothingLeftBehind
  <2> SUFFICES ASSUME IInv, HeldInv, NEW t \in Tabs,
                      \A r \in InTab(t) : pc[r] \in {"idle", "done"}
               PROVE  /\ Counted(t) = {} /\ reading[t] = NoReq
                      /\ \A c \in Creds :
                           tail[t][c] = NoReq /\ lock[c] \notin InTab(t)
    BY DEF NothingLeftBehind
  <2>1. \A r \in InTab(t) : r \in Reqs /\ Held(r) /\ TabOf[r] = t
    BY DEF InTab, HeldInv
  <2>2. \A r \in InTab(t) : ~PastGate(r) /\ ~Active(r) /\ ~Queued(r)
    BY DEF PastGate, Active, Queued, Signing
  <2>3. Counted(t) = {}
    BY <2>1, <2>2 DEF Counted, Held
  <2>4. reading[t] = NoReq
    <3>1. reading[t] # NoReq => reading[t] \in InTab(t)
      BY ConstantsAssumption DEF IInv, GateInv, InTab, ConstantsAssumption
    <3> QED
      BY <2>1, <2>2, <3>1 DEF Held
  <2>5. ASSUME NEW c \in Creds PROVE tail[t][c] = NoReq
    <3>1. tail[t][c] \in Reqs \cup {NoReq}
      BY DEF IInv, TypeOK, ReqOrNone
    <3>2. tail[t][c] \in Reqs => tail[t][c] \in InTab(t) /\ Queued(tail[t][c])
      BY DEF HeldInv, Held, InTab
    <3> QED
      BY <2>2, <3>1, <3>2
  <2>6. ASSUME NEW c \in Creds PROVE lock[c] \notin InTab(t)
    BY <2>1, <2>2 DEF Held
  <2> QED
    BY <2>3, <2>4, <2>5, <2>6
<1> QED
  BY <1>1, AlwaysInv, AlwaysHeld, PTL

-----------------------------------------------------------------------------
(* The line of turns *)

(* The turns of one queue of one tab, in a line: all after the first wait   *)
(* for the one before, and the last is the one the next request will wait   *)
(* for. `place` numbers the places in the line.                             *)
InLine(r) == Queued(r) /\ r \notin released
Together(r, s) == TabOf[r] = TabOf[s] /\ queueOf[r] = queueOf[s]

LastInLine(place, r) ==
  LET z == tail[TabOf[r]][queueOf[r]] IN
  z \in Reqs /\ InLine(z) /\ Together(r, z) /\ place[r] <= place[z]

BehindItsPrev(place, r) ==
  \A s \in Reqs :
    InLine(s) /\ Together(r, s) /\ place[s] < place[r]
      => /\ prev[r] \in Reqs /\ InLine(prev[r]) /\ Together(r, prev[r])
         /\ place[s] <= place[prev[r]] /\ place[prev[r]] < place[r]

Lines(place) ==
  \A r \in Reqs :
    InLine(r) =>
      /\ LastInLine(place, r)
      /\ BehindItsPrev(place, r)
      /\ \A s \in Reqs : InLine(s) /\ Together(r, s) /\ place[r] = place[s] => r = s

(* Who is signed or sent has its turn, and has not passed it on.            *)
Turn(r) ==
  /\ pc[r] \in {"idle", "identify", "queued", "leaving", "lock"} \cup AtGate
       => r \notin released
  /\ pc[r] \in {"lock", "inFlight"} \cup Signing => HasTurn(r)
  /\ Active(r) => r \notin released
  /\ \A t \in Tabs, c \in Creds : tail[t][c] = r => queueOf[r] = c /\ r \notin released

TurnInv ==
  /\ \A r \in Reqs : Turn(r)
  /\ \E place \in [Reqs -> Nat] : Lines(place)

(* Request s has the place in the queue, and the turn, that it had.         *)
TurnSame(s) ==
  /\ pc'[s] = pc[s] \/ (pc[s] \in AtGate /\ pc'[s] = "recheck")
  /\ s \in sent' <=> s \in sent
  /\ s \in aborted' <=> s \in aborted
  /\ s \in released' <=> s \in released
  /\ prev'[s] = prev[s] /\ queueOf'[s] = queueOf[s]
  /\ \A t \in Tabs, c \in Creds : tail'[t][c] = s => tail[t][c] = s

LEMMA TurnSameTurn ==
  ASSUME NEW s \in Reqs, Turn(s), TurnSame(s), released \subseteq released'
  PROVE  /\ Turn(s)'
         /\ InLine(s)' <=> InLine(s)
<1>1. pc'[s] # pc[s] => pc[s] \in AtGate /\ pc'[s] = "recheck"
  BY DEF TurnSame
<1>2. Active(s)' => Active(s)
  BY <1>1 DEF TurnSame, Active, Signing
<1>3. InLine(s)' <=> InLine(s)
  BY <1>1 DEF TurnSame, InLine, Queued, Signing, AtGate
<1>4. HasTurn(s) => HasTurn(s)'
  BY DEF TurnSame, HasTurn
<1>5. pc'[s] \in {"lock", "inFlight"} \cup Signing => HasTurn(s)'
  BY <1>1, <1>4 DEF Turn, Signing
<1>6. pc'[s] \in {"idle", "identify", "queued", "leaving", "lock"} \cup AtGate
        => s \notin released'
  BY <1>1 DEF Turn, TurnSame, AtGate
<1> QED
  BY <1>2, <1>3, <1>5, <1>6 DEF Turn, TurnSame

(* Nobody joins a line or leaves one.                                       *)
LEMMA TurnKept ==
  ASSUME TurnInv, UNCHANGED queue, NEW r \in Reqs, Turn(r)',
         InLine(r)' <=> InLine(r),
         \A s \in Reqs \ {r} : TurnSame(s)
  PROVE  TurnInv'
<1> USE DEF queue
<1>1. ASSUME NEW s \in Reqs PROVE Turn(s)' /\ (InLine(s)' <=> InLine(s))
  BY TurnSameTurn DEF TurnInv
<1>2. PICK place \in [Reqs -> Nat] : Lines(place)
  BY DEF TurnInv
<1>3. \A s, u \in Reqs : Together(s, u)' <=> Together(s, u)
  BY DEF Together
<1>4. Lines(place)'
  BY <1>1, <1>2, <1>3 DEF Lines, LastInLine, BehindItsPrev
<1> QED
  BY <1>1, <1>2, <1>4 DEF TurnInv

(* The first of a line has the turn, and only the first.                    *)
LEMMA FirstHasTurn ==
  ASSUME NEW place \in [Reqs -> Nat], Lines(place), NoReq \notin Reqs,
         NEW r \in Reqs, InLine(r), HasTurn(r),
         NEW s \in Reqs, InLine(s), Together(r, s)
  PROVE  place[r] <= place[s]
<1> SUFFICES ASSUME place[s] < place[r] PROVE FALSE
  OBVIOUS
<1>1. prev[r] \in Reqs /\ InLine(prev[r])
  BY DEF Lines, BehindItsPrev
<1> QED
  BY <1>1 DEF HasTurn, InLine

(* The first of a line passes its turn on.                                  *)
LEMMA TurnPassed ==
  ASSUME IInv, HeldInv, TurnInv, NEW r \in Reqs, FreeTurn(r), Turn(r)',
         InLine(r) => HasTurn(r),
         \A s \in Reqs \ {r} :
           /\ pc'[s] = pc[s] \/ (pc[s] \in AtGate /\ pc'[s] = "recheck")
           /\ s \in sent' <=> s \in sent
           /\ s \in aborted' <=> s \in aborted
  PROVE  TurnInv'
<1>0. NoReq \notin Reqs /\ \A s \in Reqs : TabOf[s] \in Tabs
  BY ConstantsAssumption DEF ConstantsAssumption
<1>1. /\ released' = released \cup {r} /\ prev' = prev /\ queueOf' = queueOf
      /\ \A t \in Tabs, c \in Creds : tail'[t][c] \in {tail[t][c], NoReq}
      /\ \A t \in Tabs, c \in Creds : tail[t][c] # r => tail'[t][c] = tail[t][c]
  BY FreeTurnGives DEF IInv
<1>2. ASSUME NEW s \in Reqs \ {r} PROVE TurnSame(s)
  BY <1>0, <1>1 DEF TurnSame
<1>3. ASSUME NEW s \in Reqs PROVE Turn(s)'
  BY <1>1, <1>2, TurnSameTurn DEF TurnInv
<1>4. ASSUME NEW s \in Reqs PROVE InLine(s)' <=> InLine(s) /\ s # r
  BY <1>1, <1>2, TurnSameTurn DEF TurnInv, InLine
<1>5. PICK place \in [Reqs -> Nat] : Lines(place)
  BY DEF TurnInv
<1>6. \A s, u \in Reqs : Together(s, u)' <=> Together(s, u)
  BY <1>1 DEF Together
<1>7. ASSUME NEW s \in Reqs, InLine(s), s # r, InLine(r), Together(s, r)
      PROVE  place[r] < place[s]
  <2>1. place[r] <= place[s] /\ place[r] # place[s]
    BY <1>0, <1>5, <1>7, FirstHasTurn DEF Lines, Together
  <2> QED
    BY <2>1
<1>8. ASSUME NEW s \in Reqs, InLine(s)' PROVE LastInLine(place, s)'
  <2> DEFINE z == tail[TabOf[s]][queueOf[s]]
  <2>1. InLine(s) /\ s # r
    BY <1>4, <1>8
  <2>2. z \in Reqs /\ InLine(z) /\ Together(s, z) /\ place[s] <= place[z]
    BY <1>5, <2>1 DEF Lines, LastInLine
  <2>3. z # r
    BY <1>7, <2>1, <2>2
  <2>4. queueOf[s] \in Creds
    BY <2>1 DEF InLine, Queued, IInv, ReqInv, LockHeld
  <2>5. tail'[TabOf[s]][queueOf'[s]] = z
    BY <1>0, <1>1, <2>3, <2>4
  <2> QED
    BY <1>4, <1>6, <2>2, <2>3, <2>5 DEF LastInLine
<1>9. ASSUME NEW s \in Reqs, InLine(s)' PROVE BehindItsPrev(place, s)'
  <2> SUFFICES ASSUME NEW u \in Reqs, InLine(u)', Together(s, u), place[u] < place[s]
               PROVE  /\ prev[s] \in Reqs /\ InLine(prev[s])' /\ Together(s, prev[s])'
                      /\ place[u] <= place[prev[s]] /\ place[prev[s]] < place[s]
    BY <1>1, <1>6 DEF BehindItsPrev
  <2>1. InLine(s) /\ InLine(u) /\ u # r
    BY <1>4, <1>9
  <2>2. /\ prev[s] \in Reqs /\ InLine(prev[s]) /\ Together(s, prev[s])
        /\ place[u] <= place[prev[s]] /\ place[prev[s]] < place[s]
    BY <1>5, <2>1 DEF Lines, BehindItsPrev
  <2>3. prev[s] # r
    <3> SUFFICES ASSUME prev[s] = r PROVE FALSE
      OBVIOUS
    <3>1. InLine(r) /\ Together(u, r) /\ place[u] <= place[r]
      BY <2>2 DEF Together
    <3>2. place[r] < place[u]
      BY <1>7, <2>1, <3>1
    <3> QED
      BY <1>5, <3>1, <3>2
  <2> QED
    BY <1>1, <1>4, <1>6, <2>2, <2>3
<1>10. Lines(place)'
  BY <1>4, <1>5, <1>6, <1>8, <1>9 DEF Lines
<1> QED
  BY <1>3, <1>5, <1>10 DEF TurnInv

LEMMA LeavesTurn ==
  ASSUME IInv, HeldInv, TurnInv, NEW r \in Reqs,
         NEW p \in Signing \cup {"body", "done"}, LeaveAll(r, p),
         pc[r] \notin {"queued", "leaving"},
         p \in Signing => pc[r] \in Signing /\ r \in aborted' /\ r \notin sent,
         sent' = sent,
         \A s \in Reqs \ {r} : s \in aborted' <=> s \in aborted
  PROVE  TurnInv'
<1>1. FreeTurn(r) /\ TypeOK /\ Held(r) /\ Turn(r)
  BY DEF LeaveAll, IInv, HeldInv, TurnInv
<1>2. InLine(r) => HasTurn(r)
  BY <1>1 DEF InLine, Queued, Turn
<1>3. pc'[r] = p /\ r \in released' /\ \A t \in Tabs, c \in Creds : tail'[t][c] # r
  BY <1>1, LeaveAllGives
<1>4. ~Active(r)'
  BY <1>3 DEF Active, Signing
<1>5. p \in Signing => HasTurn(r)'
  BY <1>1, FreeTurnGives DEF Turn, HasTurn
<1>6. Turn(r)'
  BY <1>3, <1>4, <1>5 DEF Turn, Signing, AtGate
<1> QED
  BY <1>1, <1>2, <1>6, LeaveAllGives, TurnPassed

LEMMA PassTurnTurn ==
  ASSUME IInv, HeldInv, TurnInv, NEW r \in Reqs, PassTurn(r)
  PROVE  TurnInv'
<1> USE DEF told, tries
<1>1. /\ pc[r] = "leaving" /\ pc'[r] = "done" /\ FreeTurn(r) /\ HasTurn(r)
      /\ \A s \in Reqs \ {r} : pc'[s] = pc[s]
  BY DEF PassTurn, Goto, IInv, TypeOK
<1>2. \A t \in Tabs, c \in Creds : tail'[t][c] # r
  BY <1>1, FreeTurnGives, ConstantsAssumption
  DEF IInv, HeldInv, Held, ConstantsAssumption
<1>3. Turn(r)'
  BY <1>1, <1>2 DEF Turn, Active, Signing, AtGate
<1> QED
  BY <1>1, <1>3, TurnPassed DEF PassTurn

(* A request joins at the end.                                              *)
LEMMA JoinTurn ==
  ASSUME IInv, HeldInv, TurnInv, NEW r \in Reqs, Join(r)
  PROVE  TurnInv'
<1> USE DEF told, tries
<1>z. PICK z : z = tail[TabOf[r]][key]
  OBVIOUS
<1>0. NoReq \notin Reqs /\ \A s \in Reqs : TabOf[s] \in Tabs
  BY ConstantsAssumption DEF ConstantsAssumption
<1>1. /\ pc[r] = "identify" /\ pc'[r] = "queued" /\ key \in Creds
      /\ \A s \in Reqs \ {r} : pc'[s] = pc[s]
      /\ released' = released /\ r \notin released
  BY DEF Join, SyncSigner, Goto, IInv, TypeOK, CredOrNone, TurnInv, Turn
<1>2. /\ prev'[r] = z /\ queueOf'[r] = key /\ z \in Reqs \cup {NoReq}
      /\ \A s \in Reqs \ {r} : prev'[s] = prev[s] /\ queueOf'[s] = queueOf[s]
      /\ \A t \in Tabs, c \in Creds :
           tail'[t][c] = IF t = TabOf[r] /\ c = key THEN r ELSE tail[t][c]
  BY <1>z, <1>0, <1>1 DEF Join, IInv, TypeOK, ReqOrNone
<1>3. ~InLine(r) /\ InLine(r)'
  BY <1>1 DEF InLine, Queued, Signing
<1>4. \A t \in Tabs, c \in Creds : tail[t][c] # r
  BY <1>1 DEF HeldInv, Held, Queued, Signing
<1>5. Turn(r)'
  BY <1>1, <1>2, <1>4 DEF Turn, Active, Signing, AtGate
<1>6. ASSUME NEW s \in Reqs \ {r} PROVE TurnSame(s)
  BY <1>0, <1>1, <1>2 DEF Join, TurnSame
<1>7. ASSUME NEW s \in Reqs PROVE Turn(s)' /\ (InLine(s)' <=> InLine(s) \/ s = r)
  BY <1>1, <1>3, <1>5, <1>6, TurnSameTurn DEF TurnInv
<1>8. PICK place \in [Reqs -> Nat] : Lines(place)
  BY DEF TurnInv
<1>9. PICK next \in [Reqs -> Nat] :
        /\ \A s \in Reqs \ {r} : next[s] = place[s]
        /\ z \in Reqs => z # r /\ next[r] = place[z] + 1
  <2> DEFINE n == [place EXCEPT ![r] = IF z \in Reqs THEN place[z] + 1 ELSE 0]
  <2>1. z # r /\ n \in [Reqs -> Nat]
    BY <1>z, <1>0, <1>1, <1>4, <1>8
  <2>2. /\ \A s \in Reqs \ {r} : n[s] = place[s]
        /\ z \in Reqs => n[r] = place[z] + 1
    BY <1>8
  <2> QED
    BY <2>1, <2>2
<1>10. ASSUME NEW s \in Reqs \ {r}, InLine(s), Together(s, r)'
       PROVE  /\ z \in Reqs /\ InLine(z) /\ Together(s, z)
              /\ next[s] <= next[z] /\ next[z] < next[r]
  <2>1. TabOf[s] = TabOf[r] /\ queueOf[s] = key
    BY <1>2, <1>10 DEF Together
  <2>2. z \in Reqs /\ InLine(z) /\ Together(s, z) /\ place[s] <= place[z]
    BY <1>z, <1>8, <1>10, <2>1 DEF Lines, LastInLine
  <2> QED
    BY <1>8, <1>9, <2>2
<1>11. \A s, u \in Reqs \ {r} : Together(s, u)' <=> Together(s, u)
  BY <1>2 DEF Together
<1>12. ASSUME NEW s \in Reqs, InLine(s)' PROVE LastInLine(next, s)'
  <2>1. CASE Together(s, r)'
    <3>1. tail'[TabOf[s]][queueOf'[s]] = r
      BY <1>0, <1>1, <1>2, <2>1 DEF Together
    <3>2. next[s] <= next[r]
      BY <1>7, <1>9, <1>10, <1>12, <2>1
    <3> QED
      BY <1>3, <2>1, <3>1, <3>2 DEF LastInLine
  <2>2. CASE ~Together(s, r)'
    <3>1. s # r /\ InLine(s)
      BY <1>7, <1>12, <2>2 DEF Together
    <3> DEFINE y == tail[TabOf[s]][queueOf[s]]
    <3>2. y \in Reqs /\ InLine(y) /\ Together(s, y) /\ place[s] <= place[y]
      BY <1>8, <3>1 DEF Lines, LastInLine
    <3>3. queueOf[s] \in Creds
      BY <3>1 DEF InLine, Queued, IInv, ReqInv, LockHeld
    <3>4. tail'[TabOf[s]][queueOf'[s]] = y
      BY <1>0, <1>1, <1>2, <2>2, <3>1, <3>3 DEF Together
    <3> QED
      BY <1>3, <1>7, <1>9, <1>11, <3>1, <3>2, <3>4 DEF LastInLine
  <2> QED
    BY <2>1, <2>2
<1>13. ASSUME NEW s \in Reqs, InLine(s)' PROVE BehindItsPrev(next, s)'
  <2> SUFFICES ASSUME NEW u \in Reqs, InLine(u)', Together(s, u)', next[u] < next[s]
               PROVE  /\ prev'[s] \in Reqs /\ InLine(prev[s])'
                      /\ Together(s, prev[s])'
                      /\ next[u] <= next[prev'[s]] /\ next[prev'[s]] < next[s]
    BY DEF BehindItsPrev
  <2>1. CASE s = r
    <3>1. u \in Reqs \ {r} /\ InLine(u) /\ Together(u, r)'
      BY <1>7, <1>9, <2>1 DEF Together
    <3>2. /\ z \in Reqs \ {r} /\ InLine(z) /\ Together(u, z)
          /\ next[u] <= next[z] /\ next[z] < next[r]
      BY <1>9, <1>10, <3>1
    <3>3. Together(r, z)'
      BY <1>11, <2>1, <3>1, <3>2 DEF Together
    <3> QED
      BY <1>2, <1>7, <2>1, <3>2, <3>3
  <2>2. CASE s # r
    <3>1. InLine(s) /\ u # r /\ InLine(u) /\ Together(s, u)
      <4>1. InLine(s)
        BY <1>7, <1>13, <2>2
      <4>2. u # r
        <5>1. u = r => next[s] <= next[z] /\ next[z] < next[r] /\ z \in Reqs
          BY <1>10, <2>2, <4>1
        <5> QED
          BY <1>9, <5>1
      <4> QED
        BY <1>7, <1>11, <2>2, <4>1, <4>2
    <3>2. /\ prev[s] \in Reqs /\ InLine(prev[s]) /\ Together(s, prev[s])
          /\ place[u] <= place[prev[s]] /\ place[prev[s]] < place[s]
      BY <1>8, <1>9, <2>2, <3>1 DEF Lines, BehindItsPrev
    <3>3. prev[s] # r /\ prev'[s] = prev[s]
      BY <1>2, <1>3, <2>2, <3>2
    <3> QED
      BY <1>7, <1>9, <1>11, <2>2, <3>1, <3>2, <3>3
  <2> QED
    BY <2>1, <2>2
<1>14. ASSUME NEW s \in Reqs, NEW u \in Reqs, InLine(s)', InLine(u)',
              Together(s, u)', next[s] = next[u]
       PROVE  s = u
  <2>1. CASE s # r /\ u # r
    BY <1>7, <1>8, <1>9, <1>11, <1>14, <2>1 DEF Lines
  <2>2. CASE s = r /\ u # r
    <3>1. InLine(u) /\ Together(u, r)'
      BY <1>7, <1>14, <2>2 DEF Together
    <3> QED
      BY <1>9, <1>10, <1>14, <2>2, <3>1
  <2>3. CASE s # r /\ u = r
    <3>1. InLine(s) /\ Together(s, r)'
      BY <1>7, <1>14, <2>3
    <3> QED
      BY <1>9, <1>10, <1>14, <2>3, <3>1
  <2> QED
    BY <2>1, <2>2, <2>3
<1>15. Lines(next)'
  BY <1>12, <1>13, <1>14 DEF Lines
<1> QED
  BY <1>7, <1>9, <1>15 DEF TurnInv

(* The requests that keep their place.                                      *)
LEMMA GoesOnTurn ==
  ASSUME IInv, HeldInv, TurnInv, NEW r \in Reqs,
         TakeTurn(r) \/ TakeLock(r) \/ ReadKey(r) \/ NextNonce(r) \/ Sign(r)
           \/ Send(r) \/ Settle(r) \/ EnterGate(r)
  PROVE  TurnInv'
<1> USE DEF gate, signer, told, tries
<1>1. /\ pc[r] \in {"idle", "recheck", "queued", "lock", "body"} \cup Signing
      /\ TypeOK /\ UNCHANGED queue
      /\ aborted' = aborted
      /\ sent' = sent \/ (sent' = sent \cup {r} /\ r \notin aborted)
  BY DEF TakeTurn, TakeLock, ReadKey, NextNonce, Sign, Send, MaySend, Settle,
         EnterGate, Signing, IInv
<1>2. PICK p \in {"identify", "gateRead", "gateIdle", "lock", "done", "inFlight"}
                 \cup Signing :
        /\ Goto(r, p)
        /\ p \in {"identify", "gateRead", "gateIdle"} => pc[r] \in {"idle", "recheck"}
        /\ p = "done" => pc[r] = "body"
        /\ p \in {"lock", "inFlight"} \cup Signing
             => pc[r] \in {"queued", "lock"} \cup Signing
        /\ p = "lock" => pc[r] = "queued"
        /\ pc[r] = "queued" => HasTurn(r)
  BY DEF TakeTurn, TakeLock, ReadKey, NextNonce, Sign, Send, Settle, EnterGate,
         Signing
<1>3. pc'[r] = p /\ \A s \in Reqs \ {r} : pc'[s] = pc[s]
  BY <1>1, <1>2 DEF Goto, TypeOK
<1>4. Turn(r) /\ Held(r)
  BY DEF TurnInv, HeldInv
<1>5. Queued(r)' <=> Queued(r)
  BY <1>1, <1>2, <1>3 DEF Queued, Signing
<1>6. Active(r)' => r \notin released
  BY <1>1, <1>2, <1>3, <1>4 DEF Active, Turn, Held, Signing
<1>7. pc'[r] \in {"lock", "inFlight"} \cup Signing => HasTurn(r)
  BY <1>1, <1>2, <1>3, <1>4 DEF Turn, Signing
<1>8. Turn(r)'
  BY <1>1, <1>2, <1>3, <1>4, <1>6, <1>7
  DEF Turn, HasTurn, queue, AtGate, Signing
<1>9. ASSUME NEW s \in Reqs \ {r} PROVE TurnSame(s)
  BY <1>1, <1>3 DEF TurnSame, queue
<1> QED
  BY <1>1, <1>5, <1>8, <1>9, TurnKept DEF InLine, queue

LEMMA AnswerTurn ==
  ASSUME IInv, HeldInv, TurnInv, NEW r \in Reqs, Answer(r)
  PROVE  TurnInv'
<1> USE DEF told
<1>1. TypeOK /\ pc[r] = "inFlight" /\ UNCHANGED <<aborted, sent>>
  BY DEF Answer, IInv
<1>2. CASE Resends(r)
  <2>1. Goto(r, "readKey") /\ UNCHANGED <<gate, queue, lock>>
    BY <1>2 DEF Answer
  <2>2. pc'[r] = "readKey" /\ \A s \in Reqs \ {r} : pc'[s] = pc[s]
    BY <1>1, <2>1 DEF Goto, TypeOK
  <2>3. Turn(r)' /\ (InLine(r)' <=> InLine(r))
    BY <1>1, <2>1, <2>2
    DEF TurnInv, Turn, Active, HasTurn, InLine, Queued, Signing, AtGate, queue
  <2>4. ASSUME NEW s \in Reqs \ {r} PROVE TurnSame(s)
    BY <1>1, <2>1, <2>2 DEF TurnSame, queue
  <2> QED
    BY <2>1, <2>3, <2>4, TurnKept
<1>3. CASE ~Resends(r)
  BY <1>1, <1>3, LeavesTurn DEF Answer, Signing
<1> QED
  BY <1>2, <1>3

LEMMA FailsTurn ==
  ASSUME IInv, HeldInv, TurnInv, NEW r \in Reqs,
         SendNot(r) \/ SignerFails(r) \/ NetworkFails(r)
  PROVE  TurnInv'
<1>1. /\ LeaveAll(r, "done") /\ UNCHANGED <<aborted, sent>>
      /\ pc[r] \notin {"queued", "leaving"}
  BY DEF SendNot, SignerFails, NetworkFails, Fail, Signing, tries
<1> QED
  BY <1>1, LeavesTurn DEF Signing

LEMMA AbortTurn ==
  ASSUME IInv, HeldInv, TurnInv, NEW r \in Reqs, Abort(r)
  PROVE  TurnInv'
<1>1. /\ TypeOK /\ sent' = sent /\ Turn(r)
      /\ r \in aborted' /\ \A s \in Reqs \ {r} : s \in aborted' <=> s \in aborted
  BY DEF Abort, IInv, TurnInv, tries
<1>2. CASE pc[r] \in Signing /\ r \in sent
  <2>1. UNCHANGED <<pc, gate, queue, lock>>
    BY <1>2 DEF Abort, AbortFrom
  <2>2. Turn(r)' /\ (InLine(r)' <=> InLine(r))
    BY <1>1, <1>2, <2>1 DEF Turn, Active, HasTurn, InLine, Queued, queue
  <2>3. ASSUME NEW s \in Reqs \ {r} PROVE TurnSame(s)
    BY <1>1, <2>1 DEF TurnSame, queue
  <2> QED
    BY <2>1, <2>2, <2>3, TurnKept
<1>3. CASE pc[r] = "queued"
  <2>1. OpenGate(r, "leaving") /\ UNCHANGED <<queue, lock>>
    BY <1>3 DEF Abort, AbortFrom, Signing
  <2>2. pc'[r] = "leaving"
    BY <1>1, <2>1, OpenGateGives
  <2>3. Turn(r)' /\ (InLine(r)' <=> InLine(r))
    BY <1>1, <1>3, <2>1, <2>2
    DEF Turn, Active, InLine, Queued, Signing, AtGate, queue
  <2>4. ASSUME NEW s \in Reqs \ {r} PROVE TurnSame(s)
    BY <1>1, <2>1, OpenGateGives DEF TurnSame, queue
  <2> QED
    BY <2>1, <2>3, <2>4, TurnKept
<1>4. CASE ~(pc[r] \in Signing /\ r \in sent) /\ pc[r] # "queued"
  <2>1. pc[r] # "leaving"
    BY DEF Abort, IInv, ReqInv, Progress, HeldInv, Held
  <2>2. PICK p \in Signing \cup {"done"} :
          /\ LeaveAll(r, p)
          /\ p \in Signing => pc[r] \in Signing /\ r \notin sent
    BY <1>4 DEF Abort, AbortFrom, Signing
  <2> QED
    BY <1>1, <1>4, <2>1, <2>2, LeavesTurn
<1> QED
  BY <1>2, <1>3, <1>4

(* The lines of a closed tab end; those of the other tabs stay.             *)
LEMMA CloseTabTurn ==
  ASSUME IInv, HeldInv, TurnInv, NEW t \in Tabs, CloseTab(t)
  PROVE  TurnInv'
<1> USE DEF told, tries
<1>0. NoReq \notin Reqs /\ \A s \in Reqs : TabOf[s] \in Tabs
  BY ConstantsAssumption DEF ConstantsAssumption
<1>1. /\ \A s \in Reqs : TabOf[s] = t => pc'[s] = "done"
      /\ \A s \in Reqs : TabOf[s] # t => pc'[s] = pc[s]
      /\ \A s \in Reqs : s \in released' <=> s \in released \/ TabOf[s] = t
      /\ \A c \in Creds : tail'[t][c] = NoReq
      /\ \A u \in Tabs \ {t} : tail'[u] = tail[u]
      /\ UNCHANGED <<queueOf, prev, sent, aborted>>
  BY DEF CloseTab, InTab, IInv, TypeOK
<1>2. ASSUME NEW s \in Reqs, TabOf[s] = t PROVE Turn(s)' /\ ~InLine(s)'
  <2>1. \A u \in Tabs, c \in Creds : tail'[u][c] # s
    BY <1>0, <1>1, <1>2 DEF HeldInv, Held
  <2> QED
    BY <1>1, <1>2, <2>1 DEF Turn, InLine, Active, Signing, AtGate
<1>3. ASSUME NEW s \in Reqs, TabOf[s] # t
      PROVE  Turn(s)' /\ (InLine(s)' <=> InLine(s))
  <2>1. TurnSame(s)
    BY <1>0, <1>1, <1>3 DEF TurnSame
  <2> QED
    BY <1>3, <2>1, TurnSameTurn DEF TurnInv, CloseTab
<1>4. PICK place \in [Reqs -> Nat] : Lines(place)
  BY DEF TurnInv
<1>5. \A s, u \in Reqs : Together(s, u)' <=> Together(s, u)
  BY <1>1 DEF Together
<1>6. ASSUME NEW s \in Reqs, InLine(s)'
      PROVE  /\ LastInLine(place, s)'
             /\ BehindItsPrev(place, s)'
             /\ \A u \in Reqs :
                  InLine(u)' /\ Together(s, u)' /\ place[s] = place[u] => s = u
  <2>1. TabOf[s] # t /\ InLine(s) /\ \A u \in Reqs : Together(s, u) => TabOf[u] # t
    BY <1>2, <1>3, <1>6 DEF Together
  <2>2. tail'[TabOf[s]] = tail[TabOf[s]]
    BY <1>0, <1>1, <2>1
  <2>3. LastInLine(place, s)'
    BY <1>1, <1>3, <1>4, <1>5, <2>1, <2>2 DEF Lines, LastInLine
  <2>4. BehindItsPrev(place, s)'
    BY <1>1, <1>3, <1>4, <1>5, <2>1 DEF Lines, BehindItsPrev
  <2> QED
    BY <1>3, <1>4, <1>5, <2>1, <2>3, <2>4 DEF Lines
<1>7. Lines(place)'
  BY <1>6 DEF Lines
<1> QED
  BY <1>2, <1>3, <1>4, <1>7 DEF TurnInv

LEMMA StutterTurn ==
  ASSUME TurnInv, UNCHANGED <<pc, queue, aborted, sent>>
  PROVE  TurnInv'
BY DEF TurnInv, Turn, Active, HasTurn, Lines, LastInLine, BehindItsPrev, InLine,
       Queued, Together, queue

LEMMA NextTurn == IInv /\ HeldInv /\ TurnInv /\ [Next]_vars => TurnInv'
<1> SUFFICES ASSUME IInv, HeldInv, TurnInv, [Next]_vars PROVE TurnInv'
  OBVIOUS
<1>1. ASSUME NEW r \in Reqs, EnterGate(r) \/ Own(r) \/ Settle(r) \/ Abort(r)
      PROVE  TurnInv'
  BY <1>1, GoesOnTurn, PassTurnTurn, AnswerTurn, AbortTurn DEF Own
<1>2. ASSUME NEW r \in Reqs, SignerStep(r) \/ NetworkFails(r)
      PROVE  TurnInv'
  BY <1>2, JoinTurn, GoesOnTurn, FailsTurn DEF SignerStep
<1>3. ASSUME NEW m \in wire, Receive(m) PROVE TurnInv'
  BY <1>3, StutterTurn DEF Receive, told, tries
<1>4. CASE Others
  BY <1>4, CloseTabTurn, StutterTurn
  DEF Others, SendElsewhere, RemoveKey, CreateKey, told, tries
<1>5. CASE UNCHANGED vars
  BY <1>5, StutterTurn DEF vars, told, tries
<1> QED
  BY <1>1, <1>2, <1>3, <1>4, <1>5 DEF Next

LEMMA InitTurn == Init => TurnInv
<1> SUFFICES ASSUME Init PROVE TurnInv
  OBVIOUS
<1>1. \A r \in Reqs : Turn(r) /\ ~InLine(r)
  BY ConstantsAssumption
  DEF Init, Turn, InLine, Queued, Active, Signing, AtGate, ConstantsAssumption
<1>2. Lines([r \in Reqs |-> 0]) /\ [r \in Reqs |-> 0] \in [Reqs -> Nat]
  BY <1>1 DEF Lines
<1> QED
  BY <1>1, <1>2 DEF TurnInv

LEMMA AlwaysTurn == Spec => []TurnInv
BY InitTurn, NextTurn, AlwaysInv, AlwaysHeld, PTL DEF Spec

LEMMA OnlyOne == IInv /\ TurnInv => OneAtATime
<1> SUFFICES ASSUME IInv, TurnInv, NEW r \in Reqs, NEW s \in Reqs, r # s,
                    queueOf[r] = queueOf[s]
             PROVE  /\ TabOf[r] = TabOf[s] => ~(HoldsTurn(r) /\ HoldsTurn(s))
                    /\ WebLocks => ~(Active(r) /\ Active(s))
  BY DEF OneAtATime
<1>1. WebLocks => ~(Active(r) /\ Active(s))
  BY DEF IInv, ReqInv, LockHeld
<1>2. ASSUME TabOf[r] = TabOf[s], HoldsTurn(r), HoldsTurn(s)
      PROVE  FALSE
  <2>1. InLine(r) /\ InLine(s) /\ HasTurn(r) /\ HasTurn(s)
    BY <1>2 DEF TurnInv, Turn, InLine, Queued, Active, HoldsTurn
  <2>2. Together(r, s) /\ Together(s, r)
    BY <1>2 DEF Together
  <2>3. PICK place \in [Reqs -> Nat] : Lines(place)
    BY DEF TurnInv
  <2>4. place[r] <= place[s] /\ place[s] <= place[r]
    BY <2>1, <2>2, <2>3, FirstHasTurn, ConstantsAssumption
    DEF ConstantsAssumption
  <2>5. place[r] = place[s]
    BY <2>4
  <2> QED
    BY <2>1, <2>2, <2>3, <2>5 DEF Lines
<1> QED
  BY <1>1, <1>2

(* Of any number of requests of one tab in one queue one at a time has the  *)
(* turn, whichever of them give up, and under Web Locks one at a time is    *)
(* signed or sent in all tabs together (createSerialFetch, withWebLock).    *)
THEOREM SentOneByOne == Spec => []OneAtATime
BY OnlyOne, AlwaysInv, AlwaysTurn, PTL

-----------------------------------------------------------------------------
(* The nonces of one key *)

(* As long as one key is stored, and nobody sends past the queue.           *)
OneKey == [][UNCHANGED <<key, elsewhere>>]_vars

(* All requests that could be signed share one queue or one lock.           *)
OneSender == WebLocks \/ \A r, s \in Reqs : TabOf[r] = TabOf[s]

(* Its nonce is drawn, and it has not given up.                             *)
Drawn(r) == Active(r) /\ pc[r] \in {"sign", "compare"}

(* A nonce that is drawn is higher than all that WaaS took and will get     *)
(* before it.                                                               *)
Nonces(r) ==
  /\ Queued(r) => queueOf[r] = key
  /\ pc[r] \in {"nonce", "sign", "compare", "inFlight"} => head[r].cred = key
  /\ pc[r] \in {"sign", "compare"} => head[r].nonce <= nonce
  /\ Drawn(r) => /\ head[r].nonce > last[key]
                 /\ \A m \in wire : head[r].nonce > m.head.nonce
  /\ reply[r] # "rejected"

NonceInv ==
  /\ key \in Creds
  /\ last[key] <= nonce
  /\ \A r \in Reqs : Nonces(r)
  /\ \A m \in wire :
       /\ m.head.cred = key /\ m.head.nonce <= nonce
       /\ pc[m.req] = "inFlight" =>
            /\ m.head.nonce > last[key]
            /\ \A n \in wire : n # m => m.head.nonce > n.head.nonce

LEMMA SoleSender ==
  ASSUME IInv, TurnInv, NonceInv, OneSender,
         NEW r \in Reqs, Active(r), NEW s \in Reqs, Active(s)
  PROVE  r = s
<1>1. queueOf[r] = key /\ queueOf[s] = key
  BY DEF NonceInv, Nonces, Queued, Active
<1> QED
  BY <1>1, OnlyOne DEF OneAtATime, OneSender, HoldsTurn

(* A step that draws, sends and receives nothing.                           *)
LEMMA NoncesKept ==
  ASSUME IInv, NonceInv, UNCHANGED <<key, nonce, last, wire, reply, head>>,
         \A s \in Reqs :
           /\ Queued(s)' => queueOf'[s] = key
           /\ pc'[s] \in {"nonce", "sign", "compare", "inFlight"} => pc'[s] = pc[s]
           /\ Drawn(s)' => Drawn(s)
  PROVE  NonceInv'
<1>1. \A m \in wire : m.req \in Reqs
  BY DEF IInv, TypeOK, Message
<1> QED
  BY <1>1 DEF NonceInv, Nonces

(* A step that only moves request r, not to a place where it signs.         *)
LEMMA MovesNonces ==
  ASSUME IInv, NonceInv, NEW r \in Reqs,
         UNCHANGED <<key, nonce, last, wire, reply, head, sent>>,
         aborted \subseteq aborted',
         \/ pc'[r] \notin {"nonce", "sign", "compare", "inFlight"}
         \/ pc'[r] = pc[r],
         Queued(r)' => queueOf'[r] = key,
         \A s \in Reqs \ {r} :
           /\ pc'[s] = pc[s] \/ (pc[s] \in AtGate /\ pc'[s] = "recheck")
           /\ queueOf'[s] = queueOf[s]
  PROVE  NonceInv'
<1>1. ASSUME NEW s \in Reqs, pc'[s] \in {"nonce", "sign", "compare", "inFlight"}
      PROVE  pc'[s] = pc[s]
  BY <1>1
<1>2. ASSUME NEW s \in Reqs, Drawn(s)' PROVE Drawn(s)
  BY <1>1, <1>2 DEF Drawn, Active
<1>3. ASSUME NEW s \in Reqs, Queued(s)' PROVE queueOf'[s] = key
  BY <1>3 DEF NonceInv, Nonces, Queued, AtGate, Signing
<1> QED
  BY <1>1, <1>2, <1>3, NoncesKept

LEMMA QueueNonces ==
  ASSUME IInv, NonceInv, NEW r \in Reqs, UNCHANGED key,
         EnterGate(r) \/ TakeTurn(r) \/ PassTurn(r) \/ TakeLock(r) \/ Join(r)
           \/ Settle(r)
  PROVE  NonceInv'
<1> USE DEF gate, queue, signer, waas, told, tries
<1>1. UNCHANGED <<nonce, last, wire, reply, head, sent, aborted>>
  BY DEF EnterGate, TakeTurn, PassTurn, TakeLock, Join, Settle
<1>2. PICK p \in {"identify", "gateRead", "gateIdle", "lock", "readKey", "done",
                  "queued"} : Goto(r, p)
  BY DEF EnterGate, TakeTurn, PassTurn, TakeLock, Join, Settle
<1>3. pc'[r] = p /\ \A s \in Reqs \ {r} : pc'[s] = pc[s]
  BY <1>2 DEF Goto, IInv, TypeOK
<1>4. /\ Queued(r)' => queueOf'[r] = key
      /\ \A s \in Reqs \ {r} : queueOf'[s] = queueOf[s]
  <2>1. CASE Join(r)
    BY <2>1 DEF Join, IInv, TypeOK
  <2>2. CASE TakeTurn(r) \/ TakeLock(r)
    BY <2>2 DEF TakeTurn, TakeLock, NonceInv, Nonces, Queued, IInv, TypeOK
  <2>3. CASE EnterGate(r) \/ PassTurn(r) \/ Settle(r)
    <3>1. pc'[r] \in {"identify", "gateRead", "gateIdle", "done"} /\ queueOf' = queueOf
      BY <2>3 DEF EnterGate, PassTurn, FreeTurn, Settle, Goto, IInv, TypeOK
    <3> QED
      BY <3>1 DEF Queued, Signing
  <2> QED
    BY <2>1, <2>2, <2>3
<1> QED
  BY <1>1, <1>3, <1>4, MovesNonces

LEMMA LeavesNonces ==
  ASSUME IInv, NonceInv, NEW r \in Reqs, UNCHANGED key,
         Answer(r) \/ SendNot(r) \/ SignerFails(r) \/ NetworkFails(r) \/ Abort(r)
  PROVE  NonceInv'
<1> USE DEF signer, waas, tries
<1>1. ~Resends(r)
  BY DEF Resends, NonceInv, Nonces
<1>2. UNCHANGED <<nonce, last, wire, reply, head, sent>> /\ aborted \subseteq aborted'
  BY <1>1 DEF Answer, SendNot, SignerFails, NetworkFails, Fail, Abort, told
<1>3. /\ pc'[r] \in {"body", "done", "leaving", pc[r]}
      /\ pc'[r] = "leaving" => pc[r] = "queued"
      /\ queueOf' = queueOf
      /\ \A s \in Reqs \ {r} :
           pc'[s] = pc[s] \/ (pc[s] \in AtGate /\ pc'[s] = "recheck")
  <2>1. CASE Abort(r)
    BY <2>1, AbortSelf DEF Signing
  <2>2. CASE ~Abort(r)
    <3>1. LeaveAll(r, "body") \/ LeaveAll(r, "done")
      BY <1>1, <2>2 DEF Answer, SendNot, SignerFails, NetworkFails, Fail
    <3> QED
      BY <3>1, LeaveAllSame DEF IInv
  <2> QED
    BY <2>1, <2>2
<1>4. Queued(r)' => queueOf'[r] = key
  BY <1>3 DEF Queued, Signing, NonceInv, Nonces
<1> QED
  BY <1>2, <1>3, <1>4, MovesNonces

LEMMA CloseTabNonces ==
  ASSUME IInv, NonceInv, NEW t \in Tabs, CloseTab(t)
  PROVE  NonceInv'
<1> USE DEF signer, waas, told, tries
<1>1. \A s \in Reqs : pc'[s] \in {pc[s], "done"}
  BY DEF CloseTab
<1>2. \A s \in Reqs : Drawn(s)' => Drawn(s)
  BY <1>1 DEF CloseTab, Drawn, Active
<1>3. \A s \in Reqs : Queued(s)' => queueOf'[s] = key
  BY <1>1 DEF CloseTab, Queued, Signing, NonceInv, Nonces
<1>4. \A s \in Reqs : pc'[s] \in {"nonce", "sign", "compare", "inFlight"} => pc'[s] = pc[s]
  BY <1>1
<1> QED
  BY <1>2, <1>3, <1>4, NoncesKept DEF CloseTab

(* The key is read, and the signature made: the nonce was drawn before.     *)
LEMMA SignNonces ==
  ASSUME IInv, NonceInv, NEW r \in Reqs, UNCHANGED key, ReadKey(r) \/ Sign(r)
  PROVE  NonceInv'
<1> USE DEF gate, queue, waas, told
<1>1. UNCHANGED <<nonce, last, wire, reply, sent, aborted, queueOf>>
  BY DEF ReadKey, Sign
<1>2. /\ pc[r] \in {"readKey", "sign"}
      /\ pc'[r] = IF pc[r] = "readKey" THEN "nonce" ELSE "compare"
      /\ \A s \in Reqs \ {r} : pc'[s] = pc[s]
  BY DEF ReadKey, Sign, Goto, IInv, TypeOK
<1>3. /\ head'[r].nonce = head[r].nonce
      /\ head'[r].cred = IF pc[r] = "readKey" THEN key ELSE head[r].cred
      /\ \A s \in Reqs \ {r} : head'[s] = head[s]
  BY DEF ReadKey, Sign, IInv, TypeOK, Header
<1>4. ASSUME NEW s \in Reqs PROVE Nonces(s)'
  BY <1>1, <1>2, <1>3
  DEF NonceInv, Nonces, Drawn, Active, Queued, Signing
<1>5. \A m \in wire : m.req \in Reqs /\ (pc'[m.req] = "inFlight" => pc[m.req] = "inFlight")
  BY <1>2 DEF IInv, TypeOK, Message
<1> QED
  BY <1>1, <1>4, <1>5 DEF NonceInv

(* A nonce is drawn: it is higher than all before.                          *)
LEMMA DrawNonces ==
  ASSUME IInv, NonceInv, NEW r \in Reqs, UNCHANGED key, NextNonce(r)
  PROVE  NonceInv'
<1> USE DEF gate, queue, waas, told
<1>1. UNCHANGED <<last, wire, reply, sent, aborted, queueOf>>
  BY DEF NextNonce
<1>2. /\ pc[r] = "nonce" /\ pc'[r] = "sign"
      /\ \A s \in Reqs \ {r} : pc'[s] = pc[s] /\ head'[s] = head[s]
      /\ head'[r].nonce = nonce + 1 /\ head'[r].cred = head[r].cred
      /\ nonce' = nonce + 1
  BY DEF NextNonce, Goto, IInv, TypeOK, Header
<1>3. /\ nonce \in Nat /\ last[key] \in Nat
      /\ \A m \in wire : m.head.nonce \in Nat /\ m.req \in Reqs
      /\ \A s \in Reqs : head[s].nonce \in Nat
  BY DEF IInv, TypeOK, Message, Header, NonceInv
<1>4. Nonces(r)'
  BY <1>1, <1>2, <1>3 DEF NonceInv, Nonces, Queued, Signing
<1>5. ASSUME NEW s \in Reqs \ {r} PROVE Nonces(s)'
  BY <1>1, <1>2, <1>3 DEF NonceInv, Nonces, Drawn, Active, Queued
<1>6. \A m \in wire : pc'[m.req] = "inFlight" => pc[m.req] = "inFlight"
  BY <1>2, <1>3
<1>7. last[key] <= nonce' /\ \A m \in wire : m.head.nonce <= nonce'
  BY <1>2, <1>3 DEF NonceInv
<1> QED
  BY <1>1, <1>4, <1>5, <1>6, <1>7 DEF NonceInv

(* Only one request is signed or sent, so that no message is older than one *)
(* that is awaited.                                                         *)
LEMMA SendNonces ==
  ASSUME IInv, TurnInv, NonceInv, OneSender, NEW r \in Reqs, UNCHANGED key, Send(r)
  PROVE  NonceInv'
<1> USE DEF gate, queue, told
<1> DEFINE new == [req |-> r, head |-> head[r]]
<1>1. /\ UNCHANGED <<last, reply, nonce, aborted, queueOf, head>>
      /\ wire' = wire \cup {new} /\ sent' = sent \cup {r}
  BY DEF Send
<1>2. /\ pc[r] = "compare" /\ pc'[r] = "inFlight"
      /\ \A s \in Reqs \ {r} : pc'[s] = pc[s]
      /\ r \notin aborted
  BY DEF Send, MaySend, Goto, IInv, TypeOK
<1>3. Drawn(r) /\ Active(r)
  BY <1>2 DEF Drawn, Active, Signing
<1>4. /\ head[r].nonce > last[key] /\ head[r].cred = key /\ head[r].nonce <= nonce
      /\ \A m \in wire : head[r].nonce > m.head.nonce
  BY <1>2, <1>3 DEF NonceInv, Nonces
<1>5. ASSUME NEW s \in Reqs \ {r} PROVE ~Active(s)
  BY <1>3, SoleSender
<1>6. ASSUME NEW s \in Reqs PROVE Nonces(s)'
  <2>1. CASE s = r
    BY <1>1, <1>2, <1>4, <2>1 DEF NonceInv, Nonces, Drawn, Queued, Signing
  <2>2. CASE s # r
    <3>1. ~Drawn(s)'
      BY <1>1, <1>2, <1>5, <2>2 DEF Drawn, Active
    <3> QED
      BY <1>1, <1>2, <2>2, <3>1 DEF NonceInv, Nonces, Queued
  <2> QED
    BY <2>1, <2>2
<1>7. ASSUME NEW m \in wire PROVE m.req \in Reqs /\ pc'[m.req] # "inFlight"
  <2>1. m.req \in Reqs
    BY DEF IInv, TypeOK, Message
  <2>2. m.req # r
    BY <1>2, <2>1 DEF IInv, ReqInv, Underway
  <2>3. pc[m.req] # "inFlight"
    BY <1>5, <2>1, <2>2 DEF Active, IInv, ReqInv, Progress
  <2> QED
    BY <1>2, <2>1, <2>2, <2>3
<1>8. ASSUME NEW m \in wire'
      PROVE  /\ m.head.cred = key /\ m.head.nonce <= nonce
             /\ pc'[m.req] = "inFlight" =>
                  /\ m.head.nonce > last[key]
                  /\ \A n \in wire' : n # m => m.head.nonce > n.head.nonce
  BY <1>1, <1>4, <1>7 DEF NonceInv
<1> QED
  BY <1>1, <1>6, <1>8 DEF NonceInv

(* WaaS takes the nonce of a request that awaits its answer. A message that *)
(* nobody awaits any more may come too late.                                *)
LEMMA ReceiveNonces ==
  ASSUME IInv, NonceInv, NEW m \in wire, UNCHANGED key, Receive(m)
  PROVE  NonceInv'
<1> USE DEF gate, queue, signer, told, tries
<1>1. /\ wire' = wire \ {m} /\ UNCHANGED <<pc, nonce, head, sent, aborted, queueOf>>
  BY DEF Receive
<1>2. /\ m.req \in Reqs /\ m.head.nonce \in Nat /\ last[key] \in Nat
      /\ nonce \in Nat /\ m.head.cred = key /\ key \in Creds
  BY DEF IInv, TypeOK, Message, Header, NonceInv
<1>3. last'[key] = IF m.head.nonce > last[key] THEN m.head.nonce ELSE last[key]
  BY <1>2 DEF Receive, IInv, TypeOK
<1>4. last'[key] <= nonce'
  BY <1>1, <1>2, <1>3 DEF NonceInv
<1>5. \A s \in Reqs : reply'[s] # "rejected"
  BY <1>2 DEF Receive, IInv, TypeOK, NonceInv, Nonces
<1>6. ASSUME NEW s \in Reqs PROVE Nonces(s)'
  BY <1>1, <1>2, <1>3, <1>5 DEF NonceInv, Nonces, Drawn, Active, Queued
<1>7. ASSUME NEW n \in wire', pc[n.req] = "inFlight"
      PROVE  n.head.nonce > last'[key]
  BY <1>1, <1>2, <1>3, <1>7 DEF NonceInv
<1> QED
  BY <1>1, <1>2, <1>4, <1>6, <1>7 DEF NonceInv

LEMMA NextNonces ==
  ASSUME OneSender, IInv, TurnInv, NonceInv, [Next]_vars,
         [UNCHANGED <<key, elsewhere>>]_vars
  PROVE  NonceInv'
<1>0. UNCHANGED <<key, elsewhere>>
  BY DEF vars, signer
<1>1. ASSUME NEW r \in Reqs, EnterGate(r) \/ Own(r) \/ Settle(r) \/ Abort(r)
      PROVE  NonceInv'
  BY <1>0, <1>1, QueueNonces, LeavesNonces DEF Own
<1>2. ASSUME NEW r \in Reqs, SignerStep(r) \/ NetworkFails(r)
      PROVE  NonceInv'
  BY <1>0, <1>2, QueueNonces, LeavesNonces, SignNonces, DrawNonces, SendNonces
  DEF SignerStep
<1>3. ASSUME NEW m \in wire, Receive(m) PROVE NonceInv'
  BY <1>0, <1>3, ReceiveNonces
<1>4. CASE Others
  <2>1. \A t \in Tabs : ~RemoveKey(t) /\ \A c \in Creds : ~CreateKey(t, c)
    BY <1>0, ConstantsAssumption
    DEF RemoveKey, CreateKey, NonceInv, ConstantsAssumption
  <2>2. ~SendElsewhere
    BY <1>0 DEF SendElsewhere, IInv, TypeOK
  <2> QED
    BY <1>4, <2>1, <2>2, CloseTabNonces DEF Others
<1>5. CASE UNCHANGED vars
  <2>1. UNCHANGED <<pc, queueOf, key, nonce, last, wire, reply, head, aborted, sent>>
    BY <1>5 DEF vars, queue, signer, waas, told, tries
  <2>2. \A s \in Reqs : (Drawn(s)' => Drawn(s)) /\ (Queued(s)' => queueOf'[s] = key)
    BY <2>1 DEF Drawn, Active, Queued, NonceInv, Nonces
  <2> QED
    BY <2>1, <2>2, NoncesKept
<1> QED
  BY <1>1, <1>2, <1>3, <1>4, <1>5 DEF Next

LEMMA InitNonces == Init => NonceInv
BY DEF Init, NonceInv, Nonces, Drawn, Active, Queued, Signing, NoHeader

(* While one key is stored and no copy of the SDK sends past the queue, WaaS*)
(* rejects no nonce of a request that is awaited, whatever is aborted, fails*)
(* or is closed: in all tabs under Web Locks, without them in a single tab  *)
(* (createSerialFetch: the signatures reach WaaS in the order of their      *)
(* nonces).                                                                 *)
THEOREM NoncesInOrder ==
  ASSUME OneSender
  PROVE  Spec /\ OneKey => []NoNonceRejected
<1>1. IInv /\ TurnInv /\ NonceInv /\ [Next]_vars /\ [UNCHANGED <<key, elsewhere>>]_vars
        => NonceInv'
  BY NextNonces
<1>2. NonceInv => NoNonceRejected
  BY DEF NonceInv, Nonces, NoNonceRejected
<1> QED
  BY <1>1, <1>2, InitNonces, AlwaysInv, AlwaysTurn, PTL DEF Spec, OneKey

(* So it is for good of an origin that ever has one key, under Web Locks or *)
(* with one tab, when all its pages share the queue.                        *)
THEOREM OneKeyNoncesInOrder ==
  ASSUME OneSender, NEW c, Creds = {c}, MaxElsewhere = 0
  PROVE  Spec => []NoNonceRejected
<1>1. ASSUME IInv, NonceInv, [Next]_vars
      PROVE  [UNCHANGED <<key, elsewhere>>]_vars
  <2>1. fresh = {} /\ key = c /\ key # NoCred
    BY <1>1, ConstantsAssumption DEF IInv, TypeOK, NonceInv, ConstantsAssumption
  <2>2. \A t \in Tabs : ~RemoveKey(t) /\ ~CreateKey(t, c)
    BY <2>1 DEF RemoveKey, CreateKey
  <2>3. ~SendElsewhere
    BY <1>1 DEF SendElsewhere, IInv, TypeOK
  <2>4. ASSUME NEW r \in Reqs,
               EnterGate(r) \/ Own(r) \/ SignerStep(r) \/ Settle(r)
                 \/ NetworkFails(r) \/ Abort(r)
        PROVE  UNCHANGED <<key, elsewhere>>
    BY <2>4 DEF EnterGate, Own, TakeTurn, PassTurn, TakeLock, Answer, SignerStep,
                Join, ReadKey, NextNonce, Sign, Send, SendNot, SignerFails, Settle,
                NetworkFails, Abort, signer
  <2>5. ASSUME NEW m \in wire, Receive(m) PROVE UNCHANGED <<key, elsewhere>>
    BY <2>5 DEF Receive, signer
  <2>6. ASSUME NEW t \in Tabs, CloseTab(t) PROVE UNCHANGED <<key, elsewhere>>
    BY <2>6 DEF CloseTab, signer
  <2> QED
    BY <1>1, <2>2, <2>3, <2>4, <2>5, <2>6 DEF Next, Others
<1>2. IInv /\ TurnInv /\ NonceInv /\ [Next]_vars => NonceInv'
  BY <1>1, NextNonces
<1>3. NonceInv => NoNonceRejected
  BY DEF NonceInv, Nonces, NoNonceRejected
<1> QED
  BY <1>2, <1>3, InitNonces, AlwaysInv, AlwaysTurn, PTL DEF Spec

=============================================================================
