# Verification of the OMS Wallet TypeScript SDK

TLA+ models of the SDK (`packages/oms-wallet`), of its wagmi connector
(`packages/oms-wallet-wagmi-connector`) and of the smart-session example
(`examples/smart-session`), the TLC runs that check them and the proofs that
TLAPS checks. Paths below are relative to `src/` of the repository;
`walletClient.ts` is `packages/oms-wallet/src/clients/walletClient.ts`, `WC:n`
its line n.

## The system

The SDK keeps a *wallet session* in a web page: a signing key that never leaves
the browser, a credential of that key which WaaS (the wallet service) accepts
for a limited time, and the wallet that is active. There is no server of its
own; what makes it hard is that every tab of an origin runs the same client over
shared browser storage, every step waits for the network, IndexedDB or a timer,
and what was read before an `await` may be stale after it.

| Component | State | Operations | Hard behaviour | What makes it correct |
|---|---|---|---|---|
| Session of the tabs (`walletClient.ts`) | wallet, expiry, credential, `sessionRevision`, `publishedSessionState` in memory; the stored record in localStorage | sign in, sign out, `useWallet`, restore, expire, reconcile | tabs interleave; clean-up fails; sign-out during a sign-in; the record changes during a pass | tabs agree when quiet; no live key or record is lost; every lasting change reaches every tab |
| Credential signer (`credentialSigner.ts`) | key, credential ID, nonce; IndexedDB record | create, load, sign, nonce, clear | two tabs create, one deletes | one key per origin, rising nonces |
| Signed requests (`signedFetch.ts`, `WC:3830-3938`) | queue per credential, Web Lock, sent signals, session gate | sign, queue, time out, resend | time limits against slow signers and queues | one at a time, never sent after giving up, no lost turn |
| Session expiry (`WC:756-794, 3584-3800`) | expiry, cap, timer, last read, retry delay | timer, foreground read, refresh, retry | answer after the end, hidden tab, clock edges | no end before the expiry, an end at the cap |
| Change events (`WC:835-916`) | published state, queue, listeners | subscribe, publish, deliver | listeners that act during delivery | each listener sees the changes of its time, in order |
| E-mail sign-in, wallet selection (`WC:923-998, 2185-2217, 2587-2727`) | active attempt, active selection, `inFlight` | start, complete, select, create, import | two attempts or choices at once | only the current attempt sets a session |
| OIDC sign-in (`WC:1020-1335, 2816-2931`) | pending redirect in sessionStorage | start, complete, ID token | reload, repeated callback | a callback is consumed once |
| Transactions (`WC:2961-3304`) | none kept | prepare, choose a fee, execute, poll | unknown outcome of a submission | who is not given the ID may try again |
| Wagmi connector (`omsWalletConnector.ts`, `provider.ts`) | connected address, followed session, disconnect flag | connect, reconnect, accounts, disconnect, follow | session changes during connect, failing storage | wagmi shows the active wallet |
| Smart-session example (`worker/index.ts`, `client/src/main.tsx`) | D1: key, requests, sessions, transactions | request, approve, reject, transfer, refresh, dismiss, rotate | handlers overlap, WaaS answers are lost | a request is decided once, nothing is spent unrecorded |
| Client sharing, remote access, indexer, attestation, errors, generated client, other examples | none, or a registry | construct, requests, conversions | - | - |

The components interact through one object per tab (`WalletClientImpl`): its
sign-ins, calls, reads, timer and reconcile passes are asynchronous functions
that share its fields and are told apart by `sessionRevision`. Tabs interact
through the record in localStorage (with its `storage` events), the key in
IndexedDB, Web Locks, and WaaS. The connector follows the client through its
session-change events; the Worker uses WaaS with a key of its own, and the
owner's page answers it through approval links.

## Modules

| Module | Models | Instance | Theorems |
|---|---|---|---|
| `SharedSession` | the session of several tabs over one record and one key | `SharedSessionMC` | `SharedSessionProofs` |
| `SignedRequests`, `AtMostOnce` | what is under every call: gate, queue, lock, signature, resend; and what it promises | `SignedRequestsMC` | `SignedRequestsProofs` |
| `CredentialSigner` | the signers of the tabs over one stored key | `CredentialSignerMC` | `CredentialSignerProofs` |
| `SessionExpiry` | one client against the clock | `SessionExpiryMC` | `SessionExpiryProofs` |
| `SignIn` | every way to sign in, overlapping in one client | `SignInMC` | `SignInProofs` |
| `Transactions` | sending a transaction in one client | `TransactionsMC` | `TransactionsProofs` |
| `Connector` | the wagmi connector on a client that publishes changes | `ConnectorMC` | `ConnectorProofs` |
| `SmartSession` | the Worker, the owner's page and WaaS | `SmartSessionMC` | `SmartSessionProofs` |

Each stretch of JavaScript between two awaits is one action. The modules cut the
client along its asynchronous concerns: each has the session (its revision and
what ends it) as far as its own question needs it, and names in its header the
module that has the rest.

### SharedSession

One record, one key, the state of every credential at WaaS, and for each tab its
session, its revision, what it has published, a sign-in, a `useWallet` call, an
expiry read, a reconcile pass and the key deletions it awaits.

| Model | Code |
|---|---|
| `record`, `notice` | the stored session record and its `storage` events; `notice` also stands for `reconcileStoredSessionAgain` |
| `key` | the IndexedDB record of the default signer |
| `status` | the credential at WaaS: not generated, new, live, ended, or ended by its lifetime cap |
| `mem`, `rev`, `published` | the session fields, `sessionRevision`, `publishedSessionState` |
| `auth`, `SignIn*` | `signInWithOidcIdToken` with automatic selection, one at a time in a tab |
| `task[t]["call"]`, `Call*` | `useWallet`: `requireActiveSession`, the request, `requireSameActiveWalletSession`, `activateWallet` |
| `task[t]["read"]`, `Read*` | `refreshSessionCredential` |
| `task[t]["reconcile"]`, `Reconcile*` | `reconcileWithStoredSession` |
| `Mismatch`, `Resolve*` | `clearSessionWithMismatchedSigner`: the session's key is gone |
| `cleanups`, `DeleteKey`, `DeleteKeyFails` | the awaited part of `clearSession` |
| `Reload` | a reload of the page: the constructor |

Abstractions: expiry times are left out (`SessionExpiry` has them), except that a
credential may be past its lifetime cap, which a tab knows without asking; a
stored session that is locally expired but below its cap counts as not expired.
Reads of the signer in one check are one read, taken when the check begins.
IndexedDB serves the operations of one tab in the order they were asked for.
localStorage does not fail. A reload drops a deletion that has not been done.

### SignedRequests and AtMostOnce

A request goes through the gate of its tab, the queue of its tab for its
credential, the Web Lock of the credential, the signature and `fetch`, under a
deadline that may strike anywhere.

| Model | Code |
|---|---|
| `counted`, `reading`, `EnterGate`, `OpenGate`, `Woken` | `signedSessionRequestsInFlight`, `credentialReadInFlight`, `sessionRequestFetch`, `credentialReadFetch` and their `finish` |
| `queueOf`, `prev`, `released`, `tail`, `Join`, `TakeTurn`, `FreeTurn`, `PassTurn` | `createSerialFetch`: the credential's queue as a chain of turns; a request that gave up in the queue passes its turn on when it comes |
| `lock`, `TakeLock`, `FreeLock` | `withWebLock` |
| `key`, `fresh`, `nonce`, `held`, `SyncSigner` | the IndexedDB record and each tab's copy of its key |
| `ReadKey`, `NextNonce`, `Sign`, `Send`, `SendNot` | `buildWalletSignatureHeader`, `createSignedFetch` |
| `sent`, `aborted`, `outcome`, `Abort`, `Settle` | `sentRequestSignals`, the signals, what the caller of `createDeadlineFetch` gets |
| `last`, `wire`, `runs`, `Receive` | WaaS: a nonce is taken if it is higher than the last; messages may be late, also after their request was aborted |
| `SendElsewhere`, `RemoveKey`, `CreateKey`, `CloseTab` | other copies of the SDK, sign-outs and sign-ins, a closed page |

Where a promise wakes several waiters the model wakes them all and lets them look
again in any order (`recheck`), as the `while` loops of the gates do. A nonce is
the stored one plus one: `nextNonceValue` also jumps to the clock, but only the
order matters. IndexedDB is there; a signer that keeps its key in memory only is
left out. `AtMostOnce` is the abstract specification: what a caller is told of a
request ("unsent", "unknown", "rejected", "accepted") and how often WaaS runs it.
`Transactions` builds on it: a failure of an unsent `Execute` is reported as
"nothing was submitted".

### CredentialSigner

| Model | Code |
|---|---|
| `stored`, `DeleteStoredKey` | the IndexedDB record; any other user of the store deletes it |
| `memory[s]`, `initialized[s]` | `keyPair`, `credentialIdValue`, `nonceValue` and the `initialized` promise of a signer, in the states none, under way, done, failed |
| `call`, `CallStep` | `credentialId`, `nextNonce`, `clear`, several at once |
| `load`, `LoadStep` | `loadOrCreate`: read, generate, export, persist with "the first one wins" |
| `Reload` | a new page: an empty signer, its old operations gone |

A key is a number; a pair and a credential ID are the key they belong to, so that
a record can be of two minds. A failed load stays memoized until `clear`, as in
the code. Where there is no IndexedDB (`indexed = FALSE`) each signer is alone.
`drawn`, `kept`, `restored` and `unsaved` are history for the properties.

### SessionExpiry

| Model | Code |
|---|---|
| `now`, `Tick`, `visible`, `Show`, `Hide` | the clock; `visibilitychange` |
| `session`, `timer`, `TimerFires` | expiry and cap in memory; `scheduleSessionExpiry`, its limit of 2^31-1 ms (`MaxTimer`), `expireSessionFromTimer` |
| `wait`, `delay`, `RetryDue`, `pending`, `readers` | `readSessionExpiryInForeground`, `scheduleSessionReadRetry`, `cancelSessionRead` |
| `read`, `ReadStep` | `refreshSessionCredential`, one request per revision shared by its callers, `requestCredentialRefresh` |
| `op`, `BeginOp`, `OpStep` | a wallet call: `requireActiveSession`, the request, `operationError` |
| `rejected`, `replay`, `unsupported` | `rejectedSessionCredentialRevision`, `latestExpiredChange`, `credentialRefreshUnsupportedUntil` |
| `SignInNow`, `SignOut`, `Reload`, `Revoke` | the events around it |

Time is a few ticks, timers run in the order they are due, and the last tick does
not pass a retry that is due. WaaS extends a used credential by `Idle` up to its
cap. `RetryMax < Idle` and `RetryMax < MaxTimer`: WaaS keeps an unused credential
for days, the longest retry delay is minutes.

### SignIn

| Model | Code |
|---|---|
| `Start`, `Cleared`, `SendCommit`, `Committed` | `startEmailAuth`, `startOidcRedirectAuth`, `signInWithOidcIdToken`: the session ends at once, the key is deleted, CommitVerifier |
| `CompleteEmail`, `Hashed` | `completeEmailAuth`: one completion of an attempt at a time |
| `SaveRedirect`, `Callback`, `SignerValidated`, `redirect` | the pending redirect: stored, read, consumed before anything can fail |
| `SendComplete`, `Completed`, `Identify`, `SendList`, `Listed`, `SendUse`, `Used` | CompleteAuth, and the automatic choice of a wallet |
| `CreatePendingWalletSelection`, `Select`, `CheckSelection`, `SelectedUsed`, `inFlight` | the manual selection: select and create, claim and import |
| `SelectionExpires`, `ExpiredKeyDeleted`, `Reload` | the selection's expiry, a page load |

A call is used once and names the attempt, verifier or selection it made. Requests
of one client are one at a time, in any order. WaaS is not assumed to bind a
verifier to the key that committed it: the client checks that itself.

### Transactions

`Send` to `CallStep` follow one call through `prepare`, the fee choice,
`executePreparedTransaction` and the status polling; `DeadlinePasses` is any of
its deadlines. `wire` has the Execute requests that may still reach WaaS, also
after their caller gave up; `TakeExecute` lets WaaS run, refuse or reprice them;
`Progress` is the chain. `opRev` and `callRev` are the revisions captured by
`runOperation` and by the last request; `rev`, `expired`, `rejected` the client's.
On a Tron network a transaction is final without a hash.

### Connector

| Model | Code |
|---|---|
| `wallet`, `ending`, `SetWallet`, `EndSession`, `EndPublished` | the client: a session set, ended, and its end published later |
| `queue`, `draining`, `Deliver` | `publishSessionChange`, `deliverSessionChanges` for the connector's listeners |
| `listener`, `account` | `stopFollowingSession`, `connectedAddress` |
| `flag`, `fresh`, `touched`, `storage`, `Serve`, `Settled` | `manuallyDisconnected`, its version, and wagmi's storage |
| `call`, `CallStep` | `connect` (first, again, through `eth_requestAccounts`), `isAuthorized`, `getAccounts`, `disconnect`, a signing request |
| `app`, `hears` | what wagmi shows and whether it listens |
| `raced` | history: a change of the wallet met a call to connect in a way that the connector does not put right |

While changes are delivered (`draining`) nothing that was waiting goes on (`Free`), but
a listener may start anything there and then, a sign-out or a call
(`walletClient.ts:901-916`). A call started like that may read its account before the
changes left are delivered: it is `behind` them, and goes on after them.

### SmartSession

| Model | Code |
|---|---|
| `rac`, `approvals`, `records`, `rows` | the D1 tables `backend_racs`, `approval_requests`, `smart_sessions`, `transactions` |
| `CredentialStep` | registering the Worker's credential, creating a request |
| `ApprovalStep` | the owner's page authorises a session and confirms it, or rejects |
| `TransactionStep` | quote, insert, execute, status, write |
| `AdminStep` | refresh, dismiss, rotate: revoke at WaaS, then one batch |
| `creds`, `sessions`, `chain`, `RevokeSession`, `RequestExpires`, `CredentialExpires`, `Progress` | WaaS, the owner and time |

An answer of WaaS may be lost after it took effect. A D1 query or batch is one
step. Left out: `getApproval` beyond its read, `generateBackendRac`, quotas, fees,
the dashboards' polling.

## Runs

| Run | Instance | Shows |
|---|---|---|
| `SharedSessionReads` | 2 tabs, 2 credentials, 1 wallet, one sign-in or sign-out beyond a tab's first revision; one tab reads the expiry, is shown and reloaded; failures, endings, the cap | publication, clean-up, agreement, live key and record (1.8M states, 2 min) |
| `SharedSessionLive` | 2 tabs, 2 wallets: one signs in, the other switches and signs out; failures | under fairness, lasting changes reach both tabs |
| `SharedSessionLateSignOut` | one tab signs in and out | violation of `SignOutWins` |
| `SignedRequestsTabs` | 2 tabs, 4 requests in one of them, of which one is an expiry read, and 1 in the other, Web Locks, a tab closed at any moment, at most 5 requests made or given up | the gates exclude, one at a time, no nonce rejected (386,000) |
| `SignedRequestsKeys` | 1 tab, 2 requests, 2 keys, failures, deadlines, 1 resend, 2 requests sent past the queue | named keys, refinement of `AtMostOnce`, nothing left behind, every request ends |
| `CredentialSignerKeys` | 2 signers, one of them with 2 calls at once, 2 loads each, 2 keys, 1 nonce | ready keys were stored, nonces rise (1M) |
| `CredentialSignerMixed` | the same with 2 calls at once in both and 2 nonces | violation of `StoredKeyIsWhole` |
| `SessionExpiryLive` | 6 instants, 2 sign-ins, 1 wallet call at a time, 1 failure, reload or further sign-in; idle 3, lifetime 4, longest timer 2 | expiries belong to their session, it is always watched, not ended early, and decided in the end |
| `SignInCalls` | 3 calls of any kinds, 2 keys, 1 reload | authorised sessions, callbacks sent once, exclusive selections, overtaken sign-ins set nothing |
| `TransactionsEnd` | 1 transaction, 6 changes of the session | untold transactions never run, only dead sessions expire, every call ends |
| `ConnectorFollows` | 2 calls, 2 Ethereum wallets and another, 2 session changes, 2 listeners, 2 storage requests | the connector follows the session, its flag is the stored one, wagmi shows the wallet (2.1M) |
| `SmartSessionWorker` | 3 calls, 1 request, 2 credentials, 2 sessions, 1 failure | decided once, records of this key, spent is recorded, dismissed is over (2.3M) |

Why these are enough. The hazards are races of one step against one write of
another actor: two tabs, signers or calls meet them, and one revision, key or
session more than the first lets something be overtaken. The hazards of three are
named: a turn of the queue is lost or taken twice between two other requests (3
session requests of a tab, the middle one of which gives up; `FewRequests` bounds the
requests made and those given up together, and `GatesExclude`, `SentOneByOne` and
`OneKeyNoncesInOrder` have no such bound); a sign-in overtaken by another and a sign-out is three calls; a decision
against a rotation against a transfer is three calls of the Worker; a longest timer
of 2 under a lifetime of 4 makes the timer be armed again before, at and after the
expiry. `CredentialSignerKeys` has two loads of a signer because `clear` lets the
second begin while the first runs, and two keys for these. Initial states are "nobody signed in" and "every tab open
on one live session" (in `SmartSession`, a Worker with its key and no request). Credentials, calls of one kind and
requests of one kind and tab are symmetric; no run with a liveness property uses
symmetry. Deadlock is not checked: a system in which the user does nothing more may
stop; that nothing waits for ever is what `EveryRequestEnds`, `EveryCallEnds` and
`ExpiredSessionDecided` say.

The two violations are places where the code does not do what a comment or test
says; PROJECT.json ("findings") quotes both sides.

## Fairness

Weak fairness of the steps of a tab's event loop: a promise that is settled runs
on, an answer or the 30 s limit (`createDeadlineFetch`) ends every request,
IndexedDB completes or fails, a storage event is delivered, a timer fires. Users,
page loads and WaaS owe nothing. Weak fairness suffices because each of these
steps stays enabled until it is taken or made pointless by the tab itself.

- `SharedSession`: the steps of tasks and deletions, and storage events.
- `SignedRequests`: the signer, WaaS and Web Locks answer, the deadline owes
  nothing: `EveryRequestEnds` is about the gates, the queue and the lock alone.
  Weak fairness of taking a lock is enough because there are finitely many requests.
- `SessionExpiry`: the clock, timers, retries, reads and calls go on, and the user
  looks at the page again (`Show`): a hidden page does not read.
- `Transactions`: requests are answered or time out, the fee selector answers,
  deadlines pass. The chain owes nothing.

## Proofs

For every set of the constants' values that satisfies the `ConstantsAssumption` of
the module, which TLC evaluates in every run.

**SharedSession.** `TypeCorrect`: `TypeOK` is inductive. It includes what a task
has captured (`TasksOK`): without it, a `useWallet` call that finds its session
could store no session at all. `EndsPublished`, `SessionSafeFromCleanup`: from the
inductive invariant `EndInv`, a conjunction over the tabs. A step that captured the
revision of its tab when no key deletion was pending, and finds the same revision
later, finds no deletion pending, because every deletion begins with a new revision
(`SignInAlone`, `FollowAlone`, with `RevsPast`: nothing has captured a revision that
does not exist yet). A step of one tab changes nothing the invariant says of another
(`OtherTabs`), so each action is one of four kinds of step: a session ends with a
deletion, is dropped at once, is set with no deletion pending, or only the tab's
work goes on.

`QuietTabsAgreeAlways`, and of every step `LiveKeyKeptAlways` and
`LiveRecordKeptAlways`, for any number of tabs, from `AgreeInv`. It rests on
credentials getting only older (`Ages`): once the shared key is another one (`Gone`),
or WaaS has ended the session (`Dead`), it stays so, because the key is only
replaced by a new one (a signer that stores again a key that was deleted, see below,
is in `CredentialSigner` only). So what a task has found of a credential still holds when the
task goes on, after the storage read or the request (`TaskOK`), and an automatic
deletion under way is of a dead credential (`CleanupOK`). What a task has found of
its tab's session holds as long as the tab's revision is the captured one (`Still`,
`Found`, `AuthOK`). A tab that differs from the stored record has an event to
handle, or a reconcile pass under way that will find the difference (`Agrees`). The
two action properties then look at the few steps that take a key or remove a record:
`clearSessionWithMismatchedSigner` is the one that leaves `JudgesOlder`.

**SignedRequests.** `TypeCorrect`, `GatesExclude`, `NamedKeySigns` and `KeepsPromise`
(it implements `AtMostOnce`), from `IInv`. It says of each request what it holds
while it may still be sent (`GateHeld`, `LockHeld`), that the signer has no older key
than the one its header names (`HeaderKey`), and that a message still on its way
belongs to a request that has not run and whose caller has not been told so
(`Underway`, `Ran`). A step of one request leaves what `IInv` says of every other
(`SameReq`, `SameReqInv`), so each action is looked at for its own request; a woken
request only looks again.

`AbortLetsGo` and `LeavesNothing`, from `HeldInv`: a request holds a count, a read,
a lock or a turn only at the steps that give it back (`Held`). `SentOneByOne`, with
and without Web Locks, from `TurnInv`: the turns of a queue make one line (`Lines`),
no two requests wait for the same turn, a request that takes part has not given its
own back, and whoever it waits for came before it. Without Web Locks only one tab's
requests share a line. `OneAtATime` counts a request from its turn on, also while it
waits for the Web Lock: the queue alone keeps the order of a tab's requests, and a
turn handed on early would not be hidden by the lock. `NoncesInOrder` adds
`NonceInv`: all drawn nonces are higher than those that WaaS took or will get before
them. It assumes `OneSender` (Web Locks, or one tab), and of the behaviour `OneKey`:
the key is not replaced and no other copy of the SDK sends with it. Both are needed:
a request queued under the old key is signed with the new one past that key's queue
(see below), and `MAX_NONCE_RETRIES` is there for copies that share no lock.
`OneKeyNoncesInOrder` draws the conclusion from the constants alone.

**CredentialSigner.** `TypeCorrect`; `NoncesIncreaseAlways` and
`ReadyKeyWasStoredAlways`, with any number of calls and loads of a signer at once.
`IInv` splits on IndexedDB: where it is there (`SharedOK`) what a call has read from
the store is no higher than what has been drawn of that key, unless the key was stored
again; where it is not (`AloneOK`) a key is in one signer only, and its copy has the
last nonce. For `ReadyKeyWasStored`, `ReadsOK` and `ReadyOK`: a record that was read is
not a credential without its key pair, and a ready signer has a key that was stored or
that a load of its own is storing. A load that `clear` gave up still puts its key in memory, so a signer can be
ready before that key is stored, which the property says (`Storing`); and if that load
fails the key stays, which is the one case it leaves out (`unsaved`). `StoredKeyIsWhole`
has no theorem: it is false (`CredentialSignerMixed`).

**SessionExpiry.** `TypeCorrect`, `ExpiryIsItsOwnAlways`, `WatchedAlways`,
`OneForegroundReadAlways` and, of every step, `NoEarlyEndAlways`. `IInv` says of a read
that its credential is the session's as long as its revision is (`ReadOK`), and that
what an answer under way says of a credential is still so: WaaS takes no other request
meanwhile, and what is over stays over (`Grows`). So each place that ends a session
finds its reason in the invariant (`EndIsJustified`, one lemma per such place).
`WatchOK` carries the watching: without a timer a session has expired and a read is
pending, and a retry that a later read has made moot is due before that read's timer,
unless that timer ends the session at its cap. This is where `RetryMax < Idle` and
`RetryMax < MaxTimer` are needed. Most steps end the session (`OverInv`) or leave it as
it is (`SameInv`); a refreshed expiry, a sign-in and a reload are looked at by
themselves.

**SignIn.** `TypeCorrect`, `SessionIsAuthorisedAlways`, `CallbackSentOnceAlways`,
`SelectionIsExclusiveAlways` and, of every step, `OvertakenNeverSignsInAlways`.
`SessionIsAuthorised` is not inductive: `IInv` adds, of each sign-in that WaaS has
taken and none has overtaken, that the signer still has the key WaaS authorised and no
deletion is under way (`AuthOK`); that a choice that has looked at its selection has it
for itself (`ExclusiveOK`); that an attempt or selection still there was not overtaken
(`BeganOK`); and that of each redirect one callback at most may yet send the answer,
and none while its record is not consumed (`RedirectOK`).

**Connector.** `TypeCorrect`, `ListensOnlyConnectedAlways`, `FlagIsStoredAlways`. A
listener without an account belongs to a connect that is about to have one
(`ListenOK`). The flag is what the last write on its way will write, or what is stored
(`FlagOK`), and what a call reads of it and will trust is no older than that write
(`FreshOK`), because a call has one storage request at a time (`AskedOK`).
`AppShowsWalletAlways`: `ShowInv` says what the app will show once all is delivered.
While a call connects or a wallet is shown, the changes under way are the listener's
and the last of them has the wallet of now (`AlignOK`); a call that has read its
account will report the active wallet, once the changes it is behind are delivered
(`LinkOK`); what is shown is followed and up to date with what has been delivered
(`ShownOK`); nothing on its way would clear a wallet that is active (`ClearedOK`).
It holds until `raced`, or until storage fails. A change of the wallet before a call to
connect has read its account is not `raced`, nor is one after wagmi shows it: the call
or the listener makes up for those.

**Transactions.** `TypeCorrect`, `UntoldNeverRunsAlways`,
`OnlyDeadSessionsExpireAlways`. `IInv`: a transaction is on the wire at most once
(`WireOK`); it is neither there nor submitted before its call has sent it, nor after
the caller was told of a failure (`CallOK`); a revision that was rejected is of a
session that has ended, in the client or at WaaS (`SessionOK`, `Past`).

**SmartSession.** `TypeCorrect` and the four properties of the run, from an
invariant of WaaS (`WaasOK`), of each request (`RequestOK`) and of each call
(`CallOK`). A step of one call that no rotation is part of leaves the other calls'
part alone (`Kept`, `OtherCall`), because WaaS forgets nothing and what is over
stays over (`Grows`); a rotation is looked at for every call: what keeps the
others' work from outliving it is that its one batch deletes the rows of the old key.

Only model-checked: the liveness properties (fairness and ENABLED are beyond the
prover): `EveryRequestEnds`, `EveryCallEnds`, `ExpiredSessionDecided` and those of
`SharedSessionLive`. Every invariant and every action property of the passing runs is
proved, `NoNonceRejected` under the assumptions that its run satisfies; the two findings
are counterexamples of the runs.

## Known divergences

Places where the models show the code to do less than one might expect, apart from
the two findings. Where a model has the step, its property says so by what it leaves
out.

- An expiry read answered after another tab's sign-out stores the session again
  (`WC:3814`; `docs/session-expiry-flow.md:44`). The record has no key, so the next
  check ends it.
- A late `useWallet` overwrites a newer sign-in of the same wallet from another tab
  (`WC:2533`, `WC:1351`; comment `WC:2104-2106`). The record it leaves names a key
  that is gone, so `QuietTabsAgree`, which is about live records, says nothing of it.
- A tab that found another key than its session's judges by the record it read before
  (`WC:3421`; comment `WC:3413-3414`) and may delete the one another tab has stored
  since. Two tabs and three sign-ins do it: B signs in again while A still has the
  first session; the second ends, and B's expiry keeps the record; A reads that
  record and finds no key; B signs in a third time; A deletes the third record. B
  still has its session until the next event. `LiveRecordKept` leaves out just this
  (`JudgesOlder`).
- A request queued under one credential may be signed with the next
  (`signedFetch.ts:34, 172`), past that credential's queue; `SignedByNamedKey` still holds.
- `startOidcRedirectAuth` (`WC:1110`) and `completeOidcRedirectAuth` (`WC:1248`) take
  their revision after an await, as the ID-token sign-in of the finding does;
  `OvertakenNeverSignsIn` is about e-mail codes and choices.
- The `finally` of a callback (`WC:1280-1284`) deletes a newer redirect's record.
- A key that was deleted is stored again by a signer that still held it, with an
  older nonce: only the clock keeps its nonces rising (`NoncesIncrease` leaves such
  keys out).
- A load that `clear` gave up goes on (`credentialSigner.ts:125-143`) and puts its key
  into a signer that another load has made ready; if it then fails to store that key,
  the signer keeps it until the next `clear`. `ReadyKeyWasStored` leaves this out
  (`unsaved`).
- `provider.ts:109` checks the account and then signs with whichever wallet is
  active. A change between wagmi's reading of the accounts and its subscription is
  missed (`omsWalletConnector.ts:168`); a `disconnect` with failing storage leaves
  wagmi connected but unfollowed; a second `connect` that fails, and a disconnection
  during a `connect`, stop the following of the other; a listener that connects while
  changes are delivered is not told of those already queued. `AppShowsWallet` leaves
  these to `raced` and `storage.failed`.
- Smart sessions: a lost answer to a revocation blocks rotations until the credential
  expires (`worker/index.ts:976-979`); an approval that is authorised but whose
  confirmation is lost leaves a live session the Worker does not know
  (`client/src/main.tsx:79`); a late status write can set an executed row back to pending until
  the next refresh (`index.ts:870`); a handler that read the key before a rotation
  registers the old key again (`index.ts:894`).

## Not modelled

- The indexer client: stateless reads and conversions. Attestation: cryptographic
  verification, pure. The generated WaaS client, networks, key parsing: generated
  code and constants. Wording and mapping of errors. The other examples: pages that
  call the SDK one operation at a time, without state of their own worth a model.
- Client sharing on one page: one synchronous constructor over a registry.
- Remote access: requests without state between them; `SmartSession` has them as
  calls to WaaS. Grants and their conversion are left out.
- `Transactions`: balances, prices, calldata. `SignIn`: URLs, scopes, wallet types.
  `Connector`: chain switching, capabilities, request formats.

The eight modules cover the code that keeps state across an await, and each has a
theorem module. Most of the implementation's lines are outside it: generated
code, types, request and error formats, React pages, stylesheets and documentation.

## Plan

1. `OvertakenNeverSignsIn` for more kinds of sign-ins, where the code takes the
   revision before its first await.
2. `SharedSession` with expiry times of several tabs, when a smaller model of the
   clock makes that checkable.
3. What the six hazards without a property could still promise: for instance that the
   next check ends a record stored again after a sign-out (`WC:3814`), its key deleted.
