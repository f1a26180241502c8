---------------------------- MODULE Transactions ----------------------------
(***************************************************************************)
(* Sending transactions: executePreparedTransaction of walletClient.ts, the*)
(* fee choice before it and the status polling after it, in one client     *)
(* whose session may end or be replaced at any time.                       *)
(*                                                                         *)
(* What the caller is told of a transaction whose Execute failed depends on*)
(* how it failed: as long as it may have been submitted, the caller must   *)
(* get its txnId, and must not be told that nothing was.                   *)
(*                                                                         *)
(* Abstractions: a session is its revision, and its credential too; prices,*)
(* balances and calldata are left out, a fee option is taken or not; a     *)
(* deadline passes at any moment; a nonce refused by WaaS and sent again   *)
(* (SignedRequests) is one request; sign-in and sign-out are one step      *)
(* (SharedSession has theirs).                                             *)
(***************************************************************************)
EXTENDS Naturals, FiniteSets

CONSTANTS
  Txns,          \* the transactions ever sent
  MaxRevision    \* bound: sessionRevision

ASSUME ConstantsAssumption == MaxRevision \in Nat \ {0}

VARIABLES
  rev,           \* sessionRevision
  active,        \* whether there is an active session
  expired,       \* expiredSessionRevision: the sessions that ended by expiry
  rejected,      \* rejectedSessionCredentialRevision
  pc,            \* where each transaction is in its caller
  opRev,         \* the revision in which it was called (runOperation)
  callRev,       \* the revision in which its last request was called
  owned,         \* the transactions whose last request was called in a session
  told,          \* what its caller has been told
  reply,         \* what WaaS answered to the request under way
  late,          \* the transactions whose polling deadline has passed
  wire,          \* the Execute requests on their way, with their credential
  dead,          \* WaaS: the credentials that have ended
  chain,         \* WaaS: the state of each transaction
  tron           \* the transactions on a Tron network

session == <<rev, active, expired, rejected>>
caller == <<pc, opRev, callRev, owned, told, reply, late>>
waas == <<dead, chain, tron>>
vars == <<session, caller, wire, waas>>

-----------------------------------------------------------------------------
(* Types *)

Revisions == 0..MaxRevision
PCs == {"idle", "preparing", "fee", "choose", "execute", "queued", "sent", "poll",
        "asked", "delay", "done"}

Failures == {"failed", "sessionExpired", "unconfirmed", "lookupFailed"}
Reports == {"notRequested", "resolved", "timedOut"}

(* WaaS's answers: to an Execute, and to a status lookup (open or final).   *)
ErrorCodes == {"credentialEnded", "refused", "simulationFailed", "repriced", "error"}
Codes == ErrorCodes \cup {"ok", "open", "final"}

(* A claimed transaction is "hashed" once it has a hash.                    *)
States == {"unknown", "prepared", "closed", "claimed", "hashed", "executed", "failed"}
Submitted == {"claimed", "hashed", "executed", "failed"}

Message == [txn : Txns, cred : Revisions, signedIn : BOOLEAN]

TypeOK ==
  /\ rev \in Revisions
  /\ active \in BOOLEAN
  /\ expired \subseteq Revisions
  /\ rejected \subseteq Revisions
  /\ pc \in [Txns -> PCs]
  /\ opRev \in [Txns -> Revisions]
  /\ callRev \in [Txns -> Revisions]
  /\ owned \subseteq Txns
  /\ told \in [Txns -> {"pending"} \cup Failures \cup Reports]
  /\ reply \in [Txns -> {"none"} \cup Codes]
  /\ late \subseteq Txns
  /\ wire \subseteq Message
  /\ dead \subseteq Revisions
  /\ chain \in [Txns -> States]
  /\ tron \subseteq Txns

-----------------------------------------------------------------------------
(* The session *)

EndSession ==
  /\ rev' = rev + 1
  /\ active' = FALSE

SignOut ==
  /\ active
  /\ EndSession
  /\ UNCHANGED <<expired, rejected, caller, wire, waas>>

(* A sign-in is a new revision; WaaS may end its credential at any time.    *)
SignIn ==
  /\ ~active
  /\ rev + 1 < MaxRevision
  /\ rev' = rev + 1
  /\ active' = TRUE
  /\ UNCHANGED <<expired, rejected, caller, wire, waas>>

CredentialEnds ==
  /\ active
  /\ rev \notin dead
  /\ dead' = dead \cup {rev}
  /\ UNCHANGED <<session, caller, wire, chain, tron>>

(* expireSession                                                            *)
Expire ==
  /\ EndSession
  /\ expired' = {rev}

(* The session ends by its clock or by another request (SessionExpiry).     *)
SessionExpires ==
  /\ active
  /\ rev \in dead
  /\ Expire
  /\ UNCHANGED <<rejected, caller, wire, waas>>

-----------------------------------------------------------------------------
(* The end of a call *)

Goto(t, p) == pc' = [pc EXCEPT ![t] = p]

Tell(t, what) ==
  /\ Goto(t, "done")
  /\ told' = [told EXCEPT ![t] = what]
  /\ reply' = [reply EXCEPT ![t] = "none"]

(* Mutant: whichever session there is.                                      *)
EndsAnySession(t) == opRev[t] \in rejected' /\ active

(* operationError: a rejected request ends its call's session, if that is   *)
(* still there.                                                             *)
EndsSession(t) == opRev[t] \in rejected' /\ opRev[t] = rev /\ active

SaysExpired(t) ==
  opRev[t] \in rejected' /\ (EndsSession(t) \/ opRev[t] \in expired)

(* sessionActivityFetch: the session of a request, and its rejection.       *)
Calls(t) ==
  /\ callRev' = [callRev EXCEPT ![t] = rev]
  /\ owned' = IF active THEN owned \cup {t} ELSE owned \ {t}

NotesRejection(t) ==
  rejected' = IF reply[t] = "credentialEnded" /\ t \in owned
              THEN {callRev[t]} ELSE rejected

ExpireIfRejected(t) ==
  \/ EndsSession(t) /\ Expire
  \/ ~EndsSession(t) /\ UNCHANGED <<rev, active, expired>>

-----------------------------------------------------------------------------
(* Prepare and fee *)

(* sendTransaction, sendSolanaTransfer, sendTronTransaction, callContract   *)
(* and callTronContract, once their session was found active.               *)
Send(t) ==
  /\ pc[t] = "idle"
  /\ active
  /\ Goto(t, "preparing")
  /\ opRev' = [opRev EXCEPT ![t] = rev]
  /\ UNCHANGED <<session, callRev, owned, told, reply, late, wire, waas>>

Prepared(t) ==
  /\ pc[t] = "preparing"
  /\ opRev[t] \notin dead
  /\ chain' = [chain EXCEPT ![t] = "prepared"]
  /\ Goto(t, "fee")
  /\ UNCHANGED <<session, opRev, callRev, owned, told, reply, late, wire, dead, tron>>

(* The request fails, or WaaS rejects the credential.                       *)
PrepareFails(t) ==
  /\ pc[t] = "preparing"
  /\ \/ /\ Tell(t, "failed")
        /\ UNCHANGED session
     \/ /\ opRev[t] \in dead
        /\ rejected' = {opRev[t]}
        /\ ExpireIfRejected(t)
        /\ Tell(t, IF SaysExpired(t) THEN "sessionExpired" ELSE "failed")
  /\ UNCHANGED <<opRev, callRev, owned, late, wire, waas>>

(* selectFeeOption: without a selector the first option is taken, and a     *)
(* sponsored transaction needs none.                                        *)
DefaultFee(t) ==
  /\ pc[t] = "fee"
  /\ Goto(t, "execute")
  /\ UNCHANGED <<session, opRev, callRev, owned, told, reply, late, wire, waas>>

(* A selector is shown the options with the balances of the wallet that is  *)
(* active now; those that cannot be read are left out.                      *)
ShowFees(t) ==
  /\ pc[t] = "fee"
  /\ active
  /\ Goto(t, "choose")
  /\ UNCHANGED <<session, opRev, callRev, owned, told, reply, late, wire, waas>>

ChooseFee(t) ==
  /\ pc[t] = "choose"
  /\ Goto(t, "execute")
  /\ UNCHANGED <<session, opRev, callRev, owned, told, reply, late, wire, waas>>

(* The polling options are invalid, no option is offered or no wallet is    *)
(* active any more; the selector takes none, or throws.                     *)
NoFee(t) ==
  /\ pc[t] \in {"fee", "choose"}
  /\ Tell(t, "failed")
  /\ UNCHANGED <<session, opRev, callRev, owned, late, wire, waas>>

-----------------------------------------------------------------------------
(* Execute *)

CallExecute(t) ==
  /\ pc[t] = "execute"
  /\ Calls(t)
  /\ Goto(t, "queued")
  /\ UNCHANGED <<session, opRev, told, reply, late, wire, waas>>

(* It is signed with the key there is now, and sent.                        *)
SendExecute(t) ==
  /\ pc[t] = "queued"
  /\ wire' = wire \cup {[txn |-> t, cred |-> rev, signedIn |-> active]}
  /\ Goto(t, "sent")
  /\ UNCHANGED <<session, opRev, callRev, owned, told, reply, late, waas>>

(* It fails before it is sent: in the queue, at a gate, or in the signer.   *)
SendExecuteFails(t) ==
  /\ pc[t] = "queued"
  /\ Tell(t, "failed")
  /\ UNCHANGED <<session, opRev, callRev, owned, late, wire, waas>>

(* WaaS takes an Execute. It refuses what it does not submit with codes of  *)
(* its own; a new price it refuses before submission on Tron only, and any  *)
(* other error says nothing.                                                *)
TakeExecute(msg) ==
  LET t == msg.txn
      knows == msg.signedIn /\ msg.cred \notin dead
      answer(code, state) ==
        /\ chain' = [chain EXCEPT ![t] = state]
        /\ reply' = IF pc[t] = "sent" THEN [reply EXCEPT ![t] = code] ELSE reply
  IN
  /\ wire' = wire \ {msg}
  /\ \/ ~knows /\ answer("credentialEnded", chain[t])
     \/ \E code \in {"refused", "error"} : answer(code, chain[t])
     \/ knows /\ answer("simulationFailed", "closed")
     \/ knows /\ \E state \in {chain[t]} \cup (IF t \in tron THEN {} ELSE {"claimed"}) :
                   answer("repriced", state)
     \/ knows /\ \E code \in {"ok", "error"} : answer(code, "claimed")
  /\ UNCHANGED <<session, pc, opRev, callRev, owned, told, late, dead, tron>>

(* Mutant: a new price is a refusal on every network.                       *)
RepricedNotSubmitted(t) == reply[t] \in {"refused", "simulationFailed", "repriced"}

(* The codes with which nothing was submitted, or the outcome is known.     *)
KnownNotSubmitted(t) ==
  \/ reply[t] \in {"refused", "simulationFailed"}
  \/ reply[t] = "repriced" /\ t \in tron

ExecuteFails(t) ==
  /\ pc[t] = "sent"
  /\ reply[t] \in ErrorCodes
  /\ NotesRejection(t)
  /\ \/ /\ reply[t] = "credentialEnded" /\ callRev[t] \in rejected'
        /\ ExpireIfRejected(t)
        /\ Tell(t, IF SaysExpired(t) THEN "sessionExpired" ELSE "failed")
     \/ /\ ~(reply[t] = "credentialEnded" /\ callRev[t] \in rejected')
        /\ Tell(t, IF KnownNotSubmitted(t) THEN "failed" ELSE "unconfirmed")
        /\ UNCHANGED <<rev, active, expired>>
  /\ UNCHANGED <<opRev, callRev, owned, late, wire, waas>>

(* No answer comes in time, or the connection fails.                        *)
ExecuteLost(t) ==
  /\ pc[t] = "sent"
  /\ Tell(t, "unconfirmed")
  /\ UNCHANGED <<session, opRev, callRev, owned, late, wire, waas>>

(* The caller does not wait for the status, or it is polled.                *)
Executed(t) ==
  /\ pc[t] = "sent"
  /\ reply[t] = "ok"
  /\ \/ Tell(t, "notRequested")
     \/ /\ Goto(t, "poll")
        /\ reply' = [reply EXCEPT ![t] = "none"]
        /\ UNCHANGED told
  /\ UNCHANGED <<session, opRev, callRev, owned, late, wire, waas>>

-----------------------------------------------------------------------------
(* Status polling: waitForTransactionStatus *)

AskStatus(t) ==
  /\ pc[t] = "poll"
  /\ Calls(t)
  /\ Goto(t, "asked")
  /\ UNCHANGED <<session, opRev, told, reply, late, wire, waas>>

(* A final status, or a hash, ends the polling.                             *)
StatusOf(t) == IF chain[t] \in {"hashed", "executed", "failed"} THEN "final" ELSE "open"

(* WaaS looks the status up, while a session's credential signs the request.*)
ShowStatus(t) ==
  /\ pc[t] = "asked"
  /\ reply[t] = "none"
  /\ \/ active /\ rev \notin dead /\ reply' = [reply EXCEPT ![t] = StatusOf(t)]
     \/ active /\ rev \in dead /\ reply' = [reply EXCEPT ![t] = "credentialEnded"]
     \/ reply' = [reply EXCEPT ![t] = "error"]
  /\ UNCHANGED <<session, pc, opRev, callRev, owned, told, late, wire, waas>>

(* Mutant: every look has a deadline of its own.                            *)
NeverPastDeadline(t) == FALSE

(* The deadline is set once, before the first look.                         *)
PastDeadline(t) == t \in late

(* Else the deadline ends it, or there is a delay.                          *)
StatusShown(t) ==
  /\ pc[t] = "asked"
  /\ \/ reply[t] = "final" /\ Tell(t, "resolved")
     \/ reply[t] = "open" /\ PastDeadline(t) /\ Tell(t, "timedOut")
     \/ /\ reply[t] = "open" /\ ~PastDeadline(t)
        /\ Goto(t, "delay")
        /\ reply' = [reply EXCEPT ![t] = "none"]
        /\ UNCHANGED told
  /\ UNCHANGED <<session, opRev, callRev, owned, late, wire, waas>>

(* A failed lookup keeps the txnId, even if the session ends with it.       *)
StatusFails(t) ==
  /\ pc[t] = "asked"
  /\ reply[t] \in ErrorCodes
  /\ NotesRejection(t)
  /\ \/ reply[t] = "credentialEnded" /\ ExpireIfRejected(t)
     \/ reply[t] # "credentialEnded" /\ UNCHANGED <<rev, active, expired>>
  /\ Tell(t, "lookupFailed")
  /\ UNCHANGED <<opRev, callRev, owned, late, wire, waas>>

(* The delay is cut to the deadline, at which nothing is asked any more.    *)
Delayed(t) ==
  /\ pc[t] = "delay"
  /\ \/ PastDeadline(t) /\ Tell(t, "timedOut")
     \/ ~PastDeadline(t) /\ Goto(t, "poll") /\ UNCHANGED <<told, reply>>
  /\ UNCHANGED <<session, opRev, callRev, owned, late, wire, waas>>

DeadlinePasses(t) ==
  /\ pc[t] \in {"poll", "asked", "delay"}
  /\ t \notin late
  /\ late' = late \cup {t}
  /\ UNCHANGED <<session, pc, opRev, callRev, owned, told, reply, wire, waas>>

(* The chain: a claimed transaction gets a hash, and is executed or fails.  *)
Progress(t) ==
  /\ chain[t] \in {"claimed", "hashed"}
  /\ \E state \in {"hashed", "executed", "failed"} : chain' = [chain EXCEPT ![t] = state]
  /\ UNCHANGED <<session, caller, wire, dead, tron>>

-----------------------------------------------------------------------------
(* The system *)

Init ==
  /\ rev = 0
  /\ active \in BOOLEAN   \* a stored session may have been restored
  /\ expired = {}
  /\ rejected = {}
  /\ pc = [t \in Txns |-> "idle"]
  /\ opRev = [t \in Txns |-> 0]
  /\ callRev = [t \in Txns |-> 0]
  /\ owned = {}
  /\ told = [t \in Txns |-> "pending"]
  /\ reply = [t \in Txns |-> "none"]
  /\ late = {}
  /\ wire = {}
  /\ dead = {}
  /\ tron \in SUBSET Txns
  /\ chain = [t \in Txns |-> "unknown"]

CallStep(t) ==
  \/ Prepared(t) \/ PrepareFails(t)
  \/ DefaultFee(t) \/ ShowFees(t) \/ ChooseFee(t) \/ NoFee(t)
  \/ CallExecute(t) \/ SendExecute(t) \/ SendExecuteFails(t)
  \/ ExecuteFails(t) \/ ExecuteLost(t) \/ Executed(t)
  \/ AskStatus(t) \/ ShowStatus(t) \/ StatusShown(t) \/ StatusFails(t)
  \/ Delayed(t)

Next ==
  \/ SignIn \/ SignOut \/ SessionExpires \/ CredentialEnds
  \/ \E t \in Txns : Send(t) \/ CallStep(t) \/ DeadlinePasses(t) \/ Progress(t)
  \/ \E msg \in wire : TakeExecute(msg)

Spec == Init /\ [][Next]_vars

(* A call goes on: requests are answered or time out, the user chooses, and *)
(* deadlines pass. WaaS and the chain owe nothing.                          *)
Fairness == \A t \in Txns : WF_vars(CallStep(t)) /\ WF_vars(DeadlinePasses(t))

FairSpec == Spec /\ Fairness

-----------------------------------------------------------------------------
(* Properties *)

(* A caller that is not given the txnId is right to try again: nothing of   *)
(* the transaction has been submitted, or can be any more, whatever was     *)
(* lost, refused or timed out (executePreparedTransaction).                 *)
UntoldNeverRuns ==
  \A t \in Txns : told[t] \in {"failed", "sessionExpired"} =>
    /\ chain[t] \notin Submitted
    /\ \A msg \in wire : msg.txn # t

(* The late rejection of a call of an earlier session does not end the      *)
(* session there is now: one that ends by expiry was ended by WaaS          *)
(* (operationError).                                                        *)
OnlyDeadSessionsExpire == [][\A r \in expired' \ expired : r \in dead]_vars

(* Every call ends, though its session is replaced meanwhile, its Execute   *)
(* is lost, or the chain never decides.                                     *)
EveryCallEnds == \A t \in Txns : pc[t] = "preparing" ~> pc[t] = "done"
=============================================================================
