--------------------------- MODULE SignedRequests ---------------------------
(***************************************************************************)
(* The requests that are signed with the session credential: signedFetch.ts*)
(* and the two gates of walletClient.ts in front of it.                    *)
(*                                                                         *)
(* A request is bounded by a deadline (createDeadlineFetch). It waits at a *)
(* gate of its tab: an expiry read waits until no signed request is in     *)
(* flight, any other request until no expiry read is. It then joins the    *)
(* queue of its tab for its credential, takes the Web Lock of the          *)
(* credential, which all tabs of the origin share, is signed with the key  *)
(* in IndexedDB, and is sent. WaaS takes a nonce only if it is higher than *)
(* the last; a request rejected for its nonce is signed and sent again.    *)
(*                                                                         *)
(* A segment of JavaScript between two awaits is one action; what one      *)
(* call of the signer awaits inside is one step.                           *)
(*                                                                         *)
(* Abstractions: a nonce is the stored one plus one, as only their order   *)
(* matters; Web Locks are granted in any order; a request's bytes are      *)
(* left out. An abort does not come between the end of a wait at a gate    *)
(* and the check that follows it in the same turn of the event loop.       *)
(***************************************************************************)
EXTENDS Naturals, FiniteSets

CONSTANTS
  Tabs,          \* the browser tabs
  Reqs,          \* the requests ever made
  Reads,         \* those that are expiry reads (GetCredential)
  TabOf,         \* the tab that makes each request
  Creds,         \* the credentials (key pairs) that can ever be generated
  NoReq,         \* no request
  NoCred,        \* no key
  WebLocks,      \* whether the browser has Web Locks
  Failures,      \* whether the signer and the network can fail
  ClosingTabs,   \* the tabs that can be closed
  MaxRetries,    \* MAX_NONCE_RETRIES
  MaxElsewhere   \* bound: requests sent by copies of the SDK without the queue

ASSUME ConstantsAssumption ==
  /\ Reads \subseteq Reqs
  /\ TabOf \in [Reqs -> Tabs]
  /\ NoReq \notin Reqs
  /\ NoCred \notin Creds
  /\ WebLocks \in BOOLEAN
  /\ Failures \in BOOLEAN
  /\ ClosingTabs \subseteq Tabs
  /\ MaxRetries \in Nat
  /\ MaxElsewhere \in Nat

VARIABLES
  pc,            \* where each request is
  outcome,       \* what its caller has been told
  aborted,       \* the requests whose signal is aborted
  sent,          \* sentRequestSignals: the requests that reached fetch
  counted,       \* the requests signedSessionRequestsInFlight counts
  reading,       \* each tab's credentialReadInFlight: the read it stands for
  queueOf,       \* the credential in whose queue each request is
  prev,          \* the request whose turn each request waits for
  released,      \* the requests whose turn is over
  tail,          \* signedRequestQueues of each tab: the last turn, by credential
  lock,          \* the holder of the Web Lock of each credential
  head,          \* each request's signature header
  retry,         \* how often each request has been sent again
  reply,         \* what WaaS has answered to the attempt under way
  key,           \* the credential whose key IndexedDB holds
  fresh,         \* the credentials not generated yet
  nonce,         \* the nonce stored with the key
  held,          \* the credential each tab's signer has in memory
  last,          \* the last nonce WaaS took from each credential
  wire,          \* the messages on their way to WaaS
  runs,          \* how often WaaS has run each request
  elsewhere      \* how many requests were sent outside the queue

gate == <<counted, reading>>
queue == <<queueOf, prev, released, tail>>
signer == <<key, fresh, nonce, held>>
waas == <<last, wire, runs, reply>>
told == <<outcome, aborted>>
tries == <<head, retry, sent>>
vars == <<pc, gate, queue, lock, signer, waas, told, tries, elsewhere>>

-----------------------------------------------------------------------------
(* Types *)

ReqOrNone == Reqs \cup {NoReq}
CredOrNone == Creds \cup {NoCred}

AtGate == {"gateRead", "gateIdle", "recheck"}
Signing == {"readKey", "nonce", "sign", "compare"}
PCs == {"idle", "identify", "queued", "leaving", "lock", "inFlight", "body",
        "done"} \cup AtGate \cup Signing

Header == [cred : CredOrNone, nonce : Nat, key : CredOrNone]
NoHeader == [cred |-> NoCred, nonce |-> 0, key |-> NoCred]
Message == [req : Reqs, head : Header]

TypeOK ==
  /\ pc \in [Reqs -> PCs]
  /\ outcome \in [Reqs -> {"pending", "accepted", "rejected", "failed"}]
  /\ aborted \subseteq Reqs
  /\ sent \subseteq Reqs
  /\ counted \subseteq Reqs
  /\ reading \in [Tabs -> ReqOrNone]
  /\ queueOf \in [Reqs -> CredOrNone]
  /\ prev \in [Reqs -> ReqOrNone]
  /\ released \subseteq Reqs
  /\ tail \in [Tabs -> [Creds -> ReqOrNone]]
  /\ lock \in [Creds -> ReqOrNone]
  /\ head \in [Reqs -> Header]
  /\ retry \in [Reqs -> 0..MaxRetries]
  /\ reply \in [Reqs -> {"none", "accepted", "rejected"}]
  /\ key \in CredOrNone
  /\ fresh \subseteq Creds
  /\ nonce \in Nat
  /\ held \in [Tabs -> CredOrNone]
  /\ last \in [Creds -> Nat]
  /\ wire \subseteq Message
  /\ runs \in [Reqs -> Nat]
  /\ elsewhere \in 0..MaxElsewhere

-----------------------------------------------------------------------------
(* Leaving what a request holds *)

InTab(t) == {r \in Reqs : TabOf[r] = t}
Counted(t) == counted \cap InTab(t)

Goto(r, p) == pc' = [pc EXCEPT ![r] = p]

(* Mutant: the requests waiting for no request to be in flight are forgotten.*)
WokenReaders(r) == {s \in InTab(TabOf[r]) :
                      pc[s] = "gateRead" /\ reading[TabOf[r]] = r}

(* The requests at the gates that wait for the end of r: for the read that  *)
(* r is, or for the last signed request in flight.                          *)
Woken(r) ==
  {s \in InTab(TabOf[r]) :
     \/ pc[s] = "gateRead" /\ reading[TabOf[r]] = r
     \/ pc[s] = "gateIdle" /\ r \in counted /\ Counted(TabOf[r]) = {r}}

(* finish of the gates: r is no longer in flight, and goes to p.            *)
OpenGate(r, p) ==
  /\ pc' = [s \in Reqs |-> IF s = r THEN p
                           ELSE IF s \in Woken(r) THEN "recheck" ELSE pc[s]]
  /\ counted' = counted \ {r}
  /\ reading' = [reading EXCEPT ![TabOf[r]] = IF @ = r THEN NoReq ELSE @]

(* Mutant: the last turn is never removed from the map. *)
KeepsTail(r) ==
  /\ released' = released \cup {r}
  /\ UNCHANGED <<tail, queueOf, prev>>

(* release of createSerialFetch *)
FreeTurn(r) ==
  /\ released' = released \cup {r}
  /\ tail' = [tail EXCEPT ![TabOf[r]] =
                [c \in Creds |-> IF @[c] = r THEN NoReq ELSE @[c]]]
  /\ UNCHANGED <<queueOf, prev>>

FreeLock(r) == lock' = [c \in Creds |-> IF lock[c] = r THEN NoReq ELSE lock[c]]

LeaveAll(r, p) == OpenGate(r, p) /\ FreeTurn(r) /\ FreeLock(r)

(* The caller hears of the outcome once.                                    *)
Tell(r, o) == outcome' = [outcome EXCEPT ![r] = IF @ = "pending" THEN o ELSE @]

(* The request throws: every finally on the way out runs.                   *)
Fail(r) ==
  /\ LeaveAll(r, "done")
  /\ Tell(r, "failed")
  /\ UNCHANGED aborted

-----------------------------------------------------------------------------
(* The gates *)

(* Mutant: what was woken does not look again. *)
PassesUnchecked(r) ==
  \/ pc[r] = "recheck"
  \/ reading[TabOf[r]] = NoReq /\ (r \in Reads => Counted(TabOf[r]) = {})

Passes(r) ==
  reading[TabOf[r]] = NoReq /\ (r \in Reads => Counted(TabOf[r]) = {})

(* The request is made, or is woken at a gate and looks again.              *)
EnterGate(r) ==
  LET t == TabOf[r] IN
  /\ pc[r] \in {"idle", "recheck"}
  /\ IF Passes(r)
       THEN /\ Goto(r, "identify")
            /\ counted' = IF r \in Reads THEN counted ELSE counted \cup {r}
            /\ reading' = IF r \in Reads THEN [reading EXCEPT ![t] = r]
                                         ELSE reading
       ELSE /\ Goto(r, IF reading[t] # NoReq THEN "gateRead" ELSE "gateIdle")
            /\ UNCHANGED gate
  /\ UNCHANGED <<queue, lock, signer, waas, told, tries, elsewhere>>

-----------------------------------------------------------------------------
(* The queue and the Web Lock *)

(* credentialId() of the signer: memory is matched to the stored key.       *)
SyncSigner(r) ==
  /\ key # NoCred
  /\ held' = [held EXCEPT ![TabOf[r]] = key]

(* The signer has named the credential: the request joins its queue.        *)
Join(r) ==
  /\ pc[r] = "identify"
  /\ SyncSigner(r)
  /\ queueOf' = [queueOf EXCEPT ![r] = key]
  /\ prev' = [prev EXCEPT ![r] = tail[TabOf[r]][key]]
  /\ tail' = [tail EXCEPT ![TabOf[r]][key] = r]
  /\ Goto(r, "queued")
  /\ UNCHANGED <<gate, released, lock, key, fresh, nonce, waas, told, tries,
                 elsewhere>>

(* Mutant: a request that gives up hands its turn on at once. *)
HandsOnEarly(r) == prev[r] = NoReq \/ prev[r] \in released \/ prev[r] \in aborted

(* The turns before that of r are over.                                     *)
HasTurn(r) == prev[r] = NoReq \/ prev[r] \in released

TakeTurn(r) ==
  /\ pc[r] = "queued" /\ HasTurn(r)
  /\ Goto(r, IF WebLocks THEN "lock" ELSE "readKey")
  /\ UNCHANGED <<gate, queue, lock, signer, waas, told, tries, elsewhere>>

(* A request that gave up in the queue passes its turn on when it comes.    *)
PassTurn(r) ==
  /\ pc[r] = "leaving" /\ HasTurn(r)
  /\ FreeTurn(r)
  /\ Goto(r, "done")
  /\ UNCHANGED <<gate, lock, signer, waas, told, tries, elsewhere>>

(* Mutant: a lock per request, not per credential. *)
AlwaysFree(r) == TRUE

LockFree(r) == lock[queueOf[r]] = NoReq

TakeLock(r) ==
  /\ pc[r] = "lock" /\ LockFree(r)
  /\ lock' = [lock EXCEPT ![queueOf[r]] = r]
  /\ Goto(r, "readKey")
  /\ UNCHANGED <<gate, queue, signer, waas, told, tries, elsewhere>>

-----------------------------------------------------------------------------
(* buildWalletSignatureHeader and createSignedFetch *)

ReadKey(r) ==
  /\ pc[r] = "readKey"
  /\ SyncSigner(r)
  /\ head' = [head EXCEPT ![r].cred = key]
  /\ Goto(r, "nonce")
  /\ UNCHANGED <<gate, queue, lock, key, fresh, nonce, waas, told, retry, sent,
                 elsewhere>>

(* nextNonce: from the stored key, whichever it is by now.                  *)
NextNonce(r) ==
  /\ pc[r] = "nonce"
  /\ SyncSigner(r)
  /\ nonce' = nonce + 1
  /\ head' = [head EXCEPT ![r].nonce = nonce + 1]
  /\ Goto(r, "sign")
  /\ UNCHANGED <<gate, queue, lock, key, fresh, waas, told, retry, sent,
                 elsewhere>>

(* sign: with the key in memory, loaded from IndexedDB if there is none.    *)
Sign(r) ==
  LET t == TabOf[r]
      k == IF held[t] = NoCred THEN key ELSE held[t]
  IN
  /\ pc[r] = "sign"
  /\ k # NoCred
  /\ held' = [held EXCEPT ![t] = k]
  /\ head' = [head EXCEPT ![r].key = k]
  /\ Goto(r, "compare")
  /\ UNCHANGED <<gate, queue, lock, key, fresh, nonce, waas, told, retry, sent,
                 elsewhere>>

(* Mutants: the key is not compared again; the signal is not looked at. *)
MaySendAnyKey(r) == r \notin aborted
MaySendAborted(r) == key = head[r].cred

(* The key is still the one the header names, and nobody has given up.      *)
MaySend(r) == key = head[r].cred /\ r \notin aborted

Send(r) ==
  /\ pc[r] = "compare"
  /\ SyncSigner(r)
  /\ MaySend(r)
  /\ sent' = sent \cup {r}
  /\ wire' = wire \cup {[req |-> r, head |-> head[r]]}
  /\ Goto(r, "inFlight")
  /\ UNCHANGED <<gate, queue, lock, key, fresh, nonce, last, runs, reply, told,
                 head, retry, elsewhere>>

SendNot(r) ==
  /\ pc[r] = "compare"
  /\ SyncSigner(r)
  /\ ~MaySend(r)
  /\ Fail(r)
  /\ UNCHANGED <<key, fresh, nonce, waas, tries, elsewhere>>

(* The signer throws: it fails, or its key was removed from IndexedDB.      *)
SignerFails(r) ==
  /\ pc[r] \in Signing \cup {"identify"}
  /\ Failures \/ key = NoCred
  /\ Fail(r)
  /\ UNCHANGED <<signer, waas, tries, elsewhere>>

(* WaaS has answered: a rejected nonce is tried again, anything else ends   *)
(* the request's turn. The body is still to be read.                        *)
Resends(r) == reply[r] = "rejected" /\ retry[r] < MaxRetries

Answer(r) ==
  /\ pc[r] = "inFlight" /\ reply[r] # "none"
  /\ IF Resends(r)
       THEN /\ Goto(r, "readKey")
            /\ retry' = [retry EXCEPT ![r] = @ + 1]
            /\ reply' = [reply EXCEPT ![r] = "none"]
            /\ UNCHANGED <<gate, queue, lock>>
       ELSE /\ LeaveAll(r, "body")
            /\ UNCHANGED <<retry, reply>>
  /\ UNCHANGED <<signer, last, wire, runs, told, head, sent, elsewhere>>

NetworkFails(r) ==
  /\ Failures
  /\ pc[r] = "inFlight"
  /\ Fail(r)
  /\ UNCHANGED <<signer, waas, tries, elsewhere>>

-----------------------------------------------------------------------------
(* createDeadlineFetch *)

Settle(r) ==
  /\ pc[r] = "body"
  /\ Tell(r, reply[r])
  /\ Goto(r, "done")
  /\ UNCHANGED <<gate, queue, lock, signer, waas, aborted, tries, elsewhere>>

(* Mutant: a request that is aborted while it is signed keeps what it holds.*)
AbortKeepsAll(r) ==
  IF pc[r] \in Signing THEN UNCHANGED <<pc, gate, queue, lock>>
  ELSE IF pc[r] = "queued"
    THEN OpenGate(r, "leaving") /\ UNCHANGED <<queue, lock>>
    ELSE LeaveAll(r, "done")

(* The listeners of the signal: a wait ends, and a request not sent lets go *)
(* of all it holds, even while it is still being signed. One that was sent  *)
(* keeps its turn until it settles. In the queue it keeps its place.        *)
AbortFrom(r) ==
  IF pc[r] \in Signing
    THEN IF r \in sent THEN UNCHANGED <<pc, gate, queue, lock>>
                       ELSE LeaveAll(r, pc[r])
  ELSE IF pc[r] = "queued"
    THEN OpenGate(r, "leaving") /\ UNCHANGED <<queue, lock>>
    ELSE LeaveAll(r, "done")

(* The deadline passes, or the caller's signal aborts.                      *)
Abort(r) ==
  /\ outcome[r] = "pending"
  /\ pc[r] \notin {"idle", "recheck", "done"}
  /\ aborted' = aborted \cup {r}
  /\ Tell(r, "failed")
  /\ AbortFrom(r)
  /\ UNCHANGED <<signer, waas, tries, elsewhere>>

-----------------------------------------------------------------------------
(* WaaS, the other clients of the origin and the browser *)

(* A nonce is taken if it is higher than the last one: the request runs.    *)
Receive(m) ==
  LET higher == m.head.nonce > last[m.head.cred] IN
  /\ m \in wire
  /\ wire' = wire \ {m}
  /\ last' = IF higher THEN [last EXCEPT ![m.head.cred] = m.head.nonce] ELSE last
  /\ runs' = IF higher THEN [runs EXCEPT ![m.req] = @ + 1] ELSE runs
  /\ reply' = IF pc[m.req] = "inFlight"
                THEN [reply EXCEPT ![m.req] =
                        IF higher THEN "accepted" ELSE "rejected"]
                ELSE reply
  /\ UNCHANGED <<pc, gate, queue, lock, signer, told, tries, elsewhere>>

(* A copy of the SDK that does not share the queue sends a request.         *)
SendElsewhere ==
  /\ elsewhere < MaxElsewhere
  /\ key # NoCred
  /\ elsewhere' = elsewhere + 1
  /\ nonce' = nonce + 1
  /\ last' = [last EXCEPT ![key] = nonce + 1]
  /\ UNCHANGED <<pc, gate, queue, lock, key, fresh, held, wire, runs, reply,
                 told, tries>>

(* clear: a tab signs out. *)
RemoveKey(t) ==
  /\ fresh # {} /\ key # NoCred
  /\ key' = NoCred
  /\ held' = [held EXCEPT ![t] = NoCred]
  /\ UNCHANGED <<pc, gate, queue, lock, fresh, nonce, waas, told, tries,
                 elsewhere>>

(* loadOrCreate: a tab that needs a key finds none. *)
CreateKey(t, c) ==
  /\ key = NoCred /\ c \in fresh
  /\ key' = c
  /\ fresh' = fresh \ {c}
  /\ nonce' = 0
  /\ held' = [held EXCEPT ![t] = c]
  /\ UNCHANGED <<pc, gate, queue, lock, waas, told, tries, elsewhere>>

(* The page goes away and all its work with it; the browser frees its locks.*)
CloseTab(t) ==
  LET mine == InTab(t) IN
  /\ t \in ClosingTabs
  /\ \E r \in mine : pc[r] # "done"
  /\ pc' = [r \in Reqs |-> IF r \in mine THEN "done" ELSE pc[r]]
  /\ counted' = counted \ mine
  /\ reading' = [reading EXCEPT ![t] = NoReq]
  /\ released' = released \cup mine
  /\ tail' = [tail EXCEPT ![t] = [c \in Creds |-> NoReq]]
  /\ lock' = [c \in Creds |-> IF lock[c] \in mine THEN NoReq ELSE lock[c]]
  /\ UNCHANGED <<queueOf, prev, signer, waas, told, tries, elsewhere>>

-----------------------------------------------------------------------------

Init ==
  /\ pc = [r \in Reqs |-> "idle"]
  /\ outcome = [r \in Reqs |-> "pending"]
  /\ aborted = {} /\ sent = {} /\ counted = {} /\ released = {}
  /\ reading = [t \in Tabs |-> NoReq]
  /\ queueOf = [r \in Reqs |-> NoCred]
  /\ prev = [r \in Reqs |-> NoReq]
  /\ tail = [t \in Tabs |-> [c \in Creds |-> NoReq]]
  /\ lock = [c \in Creds |-> NoReq]
  /\ head = [r \in Reqs |-> NoHeader]
  /\ retry = [r \in Reqs |-> 0]
  /\ reply = [r \in Reqs |-> "none"]
  /\ key \in Creds
  /\ fresh = Creds \ {key}
  /\ nonce = 0
  /\ held = [t \in Tabs |-> NoCred]
  /\ last = [c \in Creds |-> 0]
  /\ wire = {}
  /\ runs = [r \in Reqs |-> 0]
  /\ elsewhere = 0

(* What the tab itself does with a request, without waiting for anybody.    *)
Own(r) ==
  TakeTurn(r) \/ PassTurn(r) \/ TakeLock(r) \/ Answer(r)

SignerStep(r) ==
  \/ Join(r) \/ ReadKey(r) \/ NextNonce(r) \/ Sign(r)
  \/ Send(r) \/ SendNot(r) \/ SignerFails(r)

Others ==
  \/ SendElsewhere
  \/ \E t \in Tabs : \/ RemoveKey(t) \/ CloseTab(t)
                     \/ \E c \in Creds : CreateKey(t, c)

Next ==
  \/ \E r \in Reqs : \/ EnterGate(r) \/ Own(r) \/ SignerStep(r)
                     \/ Settle(r) \/ NetworkFails(r) \/ Abort(r)
  \/ \E m \in wire : Receive(m)
  \/ Others

Spec == Init /\ [][Next]_vars

(* The event loop runs what is ready, Web Locks are granted, the signer and *)
(* WaaS answer and the body arrives. No deadline is needed for progress.    *)
Fairness ==
  /\ \A r \in Reqs :
       /\ WF_vars(pc[r] = "recheck" /\ EnterGate(r))
       /\ WF_vars(Own(r))
       /\ WF_vars(SignerStep(r))
       /\ WF_vars(Settle(r))
       /\ WF_vars(\E m \in wire : m.req = r /\ Receive(m))
  /\ \A t \in Tabs : WF_vars(\E c \in Creds : CreateKey(t, c))

FairSpec == Spec /\ Fairness

-----------------------------------------------------------------------------
(* Safety *)

(* WaaS runs a request at most once, however often it is sent again, and    *)
(* never after the caller was told that it failed and wasRequestSent is     *)
(* false ("a request whose signal is not here was never sent"), nor after   *)
(* it was told of a rejection.                                              *)
Report(r) ==
  IF outcome[r] # "failed" THEN outcome[r]
  ELSE IF r \in sent THEN "unknown" ELSE "unsent"

Promise == INSTANCE AtMostOnce WITH report <- [r \in Reqs |-> Report(r)]

RunsAtMostOnce == Promise!Spec

(* A message is signed with the key its header names, though other tabs     *)
(* replace the key and other requests load it while this one is signed:     *)
(* buildWalletSignatureHeader ("Such a request is never sent").             *)
SignedByNamedKey == \A m \in wire : m.head.key = m.head.cred

(* Signed or sent, and not given up before it was sent.                     *)
Active(r) == /\ pc[r] \in Signing \cup {"inFlight"}
             /\ r \in aborted => r \in sent

(* Let through by its gate, and not given up since before it was sent.      *)
PastGate(r) == pc[r] \in {"identify", "queued", "lock"} \/ Active(r)

(* While an expiry read is past its gate no other request of its tab is:    *)
(* the read's answer is not overtaken by what a session request does to the *)
(* expiry (sessionRequestFetch, credentialReadFetch).                       *)
ReadsAlone ==
  \A r \in Reads, s \in Reqs :
    TabOf[r] = TabOf[s] /\ PastGate(r) /\ PastGate(s) => r = s

(* Its turn has come and is not over: it waits for the lock or has it.      *)
HoldsTurn(r) == pc[r] = "lock" \/ Active(r)

(* Of the requests of one tab in one queue one at a time has the turn, and a*)
(* request that gives up does not let those behind it overtake those ahead  *)
(* ("the requests behind it still wait for the ones ahead"): the queue alone*)
(* does it, without the lock. In all tabs one at a time is signed or sent,  *)
(* by the Web Lock. A request that gave up before it was sent no longer     *)
(* counts (createSerialFetch, withWebLock).                                 *)
OneAtATime ==
  \A r, s \in Reqs :
    r # s /\ queueOf[r] = queueOf[s]
      => /\ TabOf[r] = TabOf[s] => ~(HoldsTurn(r) /\ HoldsTurn(s))
         /\ WebLocks => ~(Active(r) /\ Active(s))

(* Requests sent one at a time from one nonce source are never rejected for *)
(* their nonce (createSerialFetch): it holds of one key that all tabs share *)
(* under Web Locks, whatever is aborted, fails or is closed.                *)
NoNonceRejected == \A r \in Reqs : reply[r] # "rejected"

(* A request aborted before it was sent holds up no other, even while a     *)
(* slow signer is still finishing: finishIfNotSent, releaseIfNotSent,       *)
(* resolveIfNotSent. In the queue it keeps only its place.                  *)
GaveUpHoldsNothing ==
  \A r \in aborted \ sent :
    /\ r \notin counted /\ reading[TabOf[r]] # r
    /\ \A c \in Creds : lock[c] # r
    /\ r \in released \/ pc[r] = "leaving"

(* When all requests of a tab are over the tab has left nothing behind that *)
(* would stop the next one: no count, no read, no turn, no lock.            *)
NothingLeftBehind ==
  \A t \in Tabs :
    (\A r \in InTab(t) : pc[r] \in {"idle", "done"})
      => /\ Counted(t) = {} /\ reading[t] = NoReq
         /\ \A c \in Creds : tail[t][c] = NoReq /\ lock[c] \notin InTab(t)

-----------------------------------------------------------------------------
(* Liveness *)

(* The gates, the queue and the lock never wait for each other for good:    *)
(* without any deadline every request that was made comes to an end.        *)
EveryRequestEnds == \A r \in Reqs : pc[r] # "idle" ~> pc[r] = "done"

=============================================================================
