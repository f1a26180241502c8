---------------------------- MODULE SharedSession ----------------------------
(***************************************************************************)
(* The wallet session that the tabs of one browser origin share.           *)
(*                                                                         *)
(* Every tab runs one WalletClientImpl. The tabs share the session record  *)
(* in localStorage (`record`) and the signing key of the default signer in *)
(* IndexedDB (`key`); WaaS keeps the state of every credential (`status`). *)
(* A tab keeps its own copy of the session (`mem`, `rev`, `published`) and *)
(* can have under way a sign-in (`auth`), a wallet switch, an expiry read  *)
(* and a reconcile (`task`), and key deletions (`cleanups`).               *)
(*                                                                         *)
(* A segment of JavaScript between two awaits is one action. A localStorage*)
(* write by one tab raises a `storage` event in every other tab (`notice`).*)
(*                                                                         *)
(* Abstractions: expiry times are left out; a credential is "live" or      *)
(* "ended" at WaaS, or "capped": ended because its lifetime cap passed,    *)
(* which every tab knows without asking. The IndexedDB reads of one signer *)
(* check (hasCredential, credentialId) are one read, at the start of the   *)
(* step that awaits it; a check made just before a request is one action   *)
(* with it, as the key can change before WaaS gets the request anyway.     *)
(* localStorage calls succeed. Wallet selection is automatic.              *)
(***************************************************************************)
EXTENDS Naturals, FiniteSets

CONSTANTS
  Tabs,          \* the browser tabs
  Creds,         \* the credentials (key pairs) that can ever be generated
  Wallets,       \* the wallets the user can make active
  NoCred,        \* no key
  NoSession,     \* no session, no stored record
  NoWallet,      \* no wallet asked for
  SignInTabs,    \* the tabs in which the user signs in
  SignOutTabs,   \* the tabs in which the user signs out
  SwitchTabs,    \* the tabs in which the app calls useWallet
  ReadTabs,      \* the tabs that read the expiry from WaaS
  ShownTabs,     \* the tabs that become visible, which reconciles them
  ReloadTabs,    \* the tabs that can be reloaded
  Ends,          \* how WaaS may end a credential: "ended", "capped"
  Failures,      \* whether requests and IndexedDB can fail
  MaxRev         \* bound: no sign-in or sign-out in a tab past this revision

ASSUME ConstantsAssumption ==
  /\ NoCred \notin Creds
  /\ NoWallet \notin Wallets
  /\ NoSession \notin [cred : Creds, wallet : Wallets]
  /\ SignInTabs \subseteq Tabs
  /\ SignOutTabs \subseteq Tabs
  /\ SwitchTabs \subseteq Tabs
  /\ ReadTabs \subseteq Tabs
  /\ ShownTabs \subseteq Tabs
  /\ ReloadTabs \subseteq Tabs
  /\ Ends \subseteq {"ended", "capped"}
  /\ Failures \in BOOLEAN
  /\ MaxRev \in Nat

VARIABLES
  record,        \* the stored session record, shared by all tabs
  key,           \* the credential whose key IndexedDB holds, shared by all tabs
  status,        \* the state of each credential at WaaS
  mem,           \* each tab's session in memory
  rev,           \* each tab's sessionRevision
  published,     \* each tab's publishedSessionState
  notice,        \* the tabs with a storage event to handle or a new pass due
  auth,          \* each tab's sign-in under way
  task,          \* each tab's useWallet call, expiry read and reconcile
  cleanups       \* the key deletions that clearSession awaits

shared == <<record, key, status>>
vars == <<record, key, status, mem, rev, published, notice, auth, task,
          cleanups>>

-----------------------------------------------------------------------------
(* Types *)

Session == [cred : Creds, wallet : Wallets]
SessionOrNone == Session \cup {NoSession}
CredOrNone == Creds \cup {NoCred}

Kinds == {"call", "read", "reconcile"}
(* rev, session: what the task captured; wallet: the one it asked for;      *)
(* seen: the key the signer check in progress has read.                     *)
TaskPC == {"idle", "request", "answered", "refused", "checked", "own",
           "follow", "judgeOwn", "judgeOther"}
Task == [pc : TaskPC, rev : Nat, session : SessionOrNone,
         wallet : Wallets \cup {NoWallet}, seen : CredOrNone]
IdleTask == [pc |-> "idle", rev |-> 0, session |-> NoSession,
             wallet |-> NoWallet, seen |-> NoCred]

(* What a task under way has captured: a session and, if it is a useWallet  *)
(* call, the wallet asked for.                                              *)
Captured(k, r) ==
  r.pc \notin {"idle", "judgeOwn", "judgeOther"}
    => r.session \in Session /\ (k = "call" => r.wallet \in Wallets)

TasksOK ==
  /\ task \in [Tabs -> [Kinds -> Task]]
  /\ \A t \in Tabs, k \in Kinds : Captured(k, task[t][k])

AuthPC == {"idle", "clearing", "commit", "complete", "identify", "select",
           "persist"}
(* rev: its authRevision; session: what it will store; signedOut (no part   *)
(* of the code's state): the user has signed out since it began.            *)
Auth == [pc : AuthPC, rev : Nat, session : SessionOrNone, signedOut : BOOLEAN]
IdleAuth == [pc |-> "idle", rev |-> 0, session |-> NoSession,
             signedOut |-> FALSE]

Cleanup == [tab : Tabs, rev : Nat, automatic : BOOLEAN, cred : CredOrNone,
            end : {"signedOut", "expired"}, signIn : BOOLEAN]

TypeOK ==
  /\ record \in SessionOrNone
  /\ key \in CredOrNone
  /\ status \in [Creds -> {"unused", "new", "live", "ended", "capped"}]
  /\ mem \in [Tabs -> SessionOrNone]
  /\ rev \in [Tabs -> Nat]
  /\ published \in [Tabs -> SessionOrNone]
  /\ notice \in [Tabs -> BOOLEAN]
  /\ auth \in [Tabs -> Auth]
  /\ TasksOK
  /\ cleanups \subseteq Cleanup

-----------------------------------------------------------------------------
(* Helpers *)

CredOf(s) == IF s = NoSession THEN NoCred ELSE s.cred

(* A session at its lifetime cap: it has expired and nothing can extend it. *)
PastCap(s) == s # NoSession /\ status[s.cred] = "capped"

(* The credential a request is signed with. Without a key in IndexedDB the  *)
(* signer fails (it was reset: NoCred), or creates and stores a new key.    *)
SignerCreds ==
  IF key # NoCred THEN {key}
  ELSE {NoCred} \cup {c \in Creds : status[c] = "unused"}

Use(c) ==
  /\ key' = c
  /\ status' = IF c \in Creds /\ status[c] = "unused"
                 THEN [status EXCEPT ![c] = "new"] ELSE status

(* IndexedDB serves a tab in order: its signer gets at the key only when    *)
(* every deletion the tab asked for before is done.                         *)
KeyAccess(t) == \A c \in cleanups : c.tab # t
Oldest(c) == \A d \in cleanups : d.tab = c.tab => d.rev >= c.rev

(* Whether the signer holds the key of session s. *)
Holds(s) == s # NoSession /\ key = s.cred

(* Mutant: nobody hears of the write. *)
NoNotice(t) == notice

(* The storage event of a write by tab t. *)
NoticeFrom(t) == [u \in Tabs |-> u # t \/ notice[u]]

(* Tab t writes the stored record: the other tabs get a storage event if it *)
(* changed.                                                                 *)
Store(t, r) ==
  /\ record' = r
  /\ notice' = IF r = record THEN notice ELSE NoticeFrom(t)

(* publishSessionChange: the listeners of tab t hear of session m if it     *)
(* differs from the published one.                                          *)
Publish(t, m) == published' = [published EXCEPT ![t] = m]

SetTask(t, k, r) == task' = [task EXCEPT ![t][k] = r]
At(t, k, pc) == task[t][k].pc = pc
Goto(t, k, pc) == SetTask(t, k, [task[t][k] EXCEPT !.pc = pc])
Finish(t, k) == SetTask(t, k, IdleTask)

-----------------------------------------------------------------------------
(* clearSession *)

(* Ends the session of tab t and starts the deletion of its key: any stored *)
(* key for a sign-out or sign-in (not automatic), only the session's own    *)
(* key otherwise. A sign-in (signIn) awaits the deletion.                   *)
EndSession(t, automatic, keepRecord, end, signIn) ==
  /\ Store(t, IF keepRecord THEN record ELSE NoSession)
  /\ mem' = [mem EXCEPT ![t] = NoSession]
  /\ rev' = [rev EXCEPT ![t] = @ + 1]
  /\ cleanups' = cleanups \cup
       {[tab |-> t, rev |-> rev[t] + 1, automatic |-> automatic,
         cred |-> CredOf(mem[t]), end |-> end, signIn |-> signIn]}
  /\ UNCHANGED <<key, status, published>>

(* A sign-out or sign-in: nothing of the session is kept. *)
SignedOut(t, signIn) == EndSession(t, FALSE, FALSE, "signedOut", signIn)

(* expireSession: the record stays. *)
Expired(t) == EndSession(t, TRUE, TRUE, "expired", FALSE)

(* Ends the session of tab t in memory only: another tab owns the shared    *)
(* state. Nothing is awaited, so the change is published at once.           *)
ForgetSession(t) ==
  /\ mem' = [mem EXCEPT ![t] = NoSession]
  /\ rev' = [rev EXCEPT ![t] = @ + 1]
  /\ Publish(t, NoSession)
  /\ UNCHANGED <<record, key, status, cleanups>>

(* Mutant: without `finally`, a failed deletion publishes nothing. *)
PublishesUnlessFailed(c, deleted) == deleted /\ rev[c.tab] = c.rev

(* The end of a session is published unless a newer change was made         *)
(* meanwhile, whether or not the key was deleted.                           *)
PublishesEnd(c, deleted) == rev[c.tab] = c.rev

(* The end of a key deletion. A sign-in that awaited it takes its revision  *)
(* only now, and fails if the key was not deleted.                          *)
AfterCleanup(c, deleted) ==
  LET t == c.tab IN
  /\ cleanups' = cleanups \ {c}
  /\ IF PublishesEnd(c, deleted) THEN Publish(t, mem[t])
                                 ELSE UNCHANGED published
  /\ auth' = IF ~c.signIn THEN auth
             ELSE [auth EXCEPT ![t] =
                     IF deleted THEN [@ EXCEPT !.pc = "commit",
                                               !.rev = rev[t]]
                                ELSE IdleAuth]
  /\ UNCHANGED <<record, status, mem, rev, notice, task>>

(* Mutant: an automatic end clears the signer, whatever key it holds. *)
DeletesAnyKey(c) == TRUE

(* deleteStoredWebCryptoCredential or, for the user's own sign-out or       *)
(* sign-in, the signer's clear.                                             *)
DeletesKey(c) == ~c.automatic \/ key = c.cred

DeleteKey(c) ==
  /\ c \in cleanups /\ Oldest(c)
  /\ key' = IF DeletesKey(c) THEN NoCred ELSE key
  /\ AfterCleanup(c, TRUE)

(* IndexedDB fails: the session ended all the same. *)
DeleteKeyFails(c) ==
  /\ Failures
  /\ c \in cleanups /\ Oldest(c)
  /\ AfterCleanup(c, FALSE)
  /\ UNCHANGED key

SignOut(t) ==
  /\ t \in SignOutTabs
  /\ rev[t] < MaxRev
  /\ SignedOut(t, FALSE)
  /\ auth' = [auth EXCEPT ![t].signedOut = auth[t].pc # "idle"]
  /\ UNCHANGED task

(* The expiry timer, or a protected operation, at the lifetime cap. *)
ExpireAtCap(t) ==
  /\ PastCap(mem[t])
  /\ Expired(t)
  /\ UNCHANGED <<auth, task>>

-----------------------------------------------------------------------------
(* signInWithOidcIdToken, automatic wallet selection *)

SignInStart(t) ==
  /\ t \in SignInTabs
  /\ auth[t].pc = "idle"
  /\ rev[t] < MaxRev
  /\ SignedOut(t, TRUE)
  /\ auth' = [auth EXCEPT ![t].pc = "clearing"]
  /\ UNCHANGED task

(* CommitVerifier is the first signed request: it creates the key if there  *)
(* is none.                                                                 *)
SignInCommit(t) ==
  /\ auth[t].pc = "commit" /\ KeyAccess(t)
  /\ \E c \in SignerCreds \ {NoCred} : Use(c)
  /\ auth' = [auth EXCEPT ![t].pc = "complete"]
  /\ UNCHANGED <<record, mem, rev, published, notice, task, cleanups>>

(* CompleteAuth authenticates the credential that signed it. *)
SignInComplete(t) ==
  /\ auth[t].pc = "complete" /\ KeyAccess(t)
  /\ \E c \in SignerCreds \ {NoCred} :
       /\ status[c] \in {"unused", "new", "live"}
       /\ key' = c
       /\ status' = [status EXCEPT ![c] = "live"]
  /\ auth' = [auth EXCEPT ![t].pc = "identify"]
  /\ UNCHANGED <<record, mem, rev, published, notice, task, cleanups>>

(* The credential the signer reports for the session's metadata. *)
Identity == SignerCreds \ {NoCred}

(* Mutant: the sign-in does not look at the revision. *)
AnyRevision(t) == TRUE

(* requireCurrentSessionRevision *)
RevisionCurrent(t) == rev[t] = auth[t].rev

(* The metadata's credential is read from the signer after CompleteAuth;    *)
(* then the guard checks the revision, and the wallet to activate is picked.*)
SignInIdentify(t) ==
  /\ auth[t].pc = "identify" /\ KeyAccess(t)
  /\ \E c \in Identity, w \in Wallets :
       /\ Use(c)
       /\ auth' = [auth EXCEPT ![t] =
            IF RevisionCurrent(t)
              THEN [@ EXCEPT !.pc = "select",
                             !.session = [cred |-> c, wallet |-> w]]
              ELSE IdleAuth]
  /\ UNCHANGED <<record, mem, rev, published, notice, task, cleanups>>

(* UseWallet, ClaimWallet or CreateWallet succeeds at WaaS. *)
SignInSelect(t) ==
  /\ auth[t].pc = "select" /\ KeyAccess(t)
  /\ key # NoCred /\ status[key] = "live"
  /\ auth' = [auth EXCEPT ![t].pc = "persist"]
  /\ UNCHANGED <<shared, mem, rev, published, notice, task, cleanups>>

SignInPersist(t) ==
  LET s == auth[t].session IN
  /\ auth[t].pc = "persist"
  /\ IF RevisionCurrent(t)
       THEN /\ Store(t, s)
            /\ mem' = [mem EXCEPT ![t] = s]
            /\ Publish(t, s)
       ELSE UNCHANGED <<record, notice, mem, published>>
  /\ auth' = [auth EXCEPT ![t] = IdleAuth]
  /\ UNCHANGED <<key, status, rev, task, cleanups>>

(* A request of the sign-in fails: the network, the signer (without a key), *)
(* or WaaS, which does not accept the credential.                           *)
AcceptedAt(pc) == CASE pc = "complete" -> {"new", "live"}
                    [] pc = "select" -> {"live"}
                    [] OTHER -> {"new", "live", "ended", "capped"}

SignInFails(t) ==
  /\ auth[t].pc \in {"commit", "complete", "identify", "select"}
  /\ \/ Failures
     \/ key = NoCred /\ auth[t].pc # "commit"
     \/ key # NoCred /\ status[key] \notin AcceptedAt(auth[t].pc)
  /\ auth' = [auth EXCEPT ![t] = IdleAuth]
  /\ UNCHANGED <<shared, mem, rev, published, notice, task, cleanups>>

-----------------------------------------------------------------------------
(* Requests of a session, and a session whose key is gone *)

(* A signed request of task k reaches WaaS, which answers by the state of   *)
(* the credential that signed it.                                           *)
Request(t, k) ==
  /\ k \in {"call", "read"}
  /\ At(t, k, "request") /\ KeyAccess(t)
  /\ \E c \in SignerCreds \ {NoCred} :
       /\ Use(c)
       /\ Goto(t, k, IF status[c] = "live" THEN "answered" ELSE "refused")
  /\ UNCHANGED <<record, mem, rev, published, notice, auth, cleanups>>

(* No answer: the network, the signer, or another error of WaaS. *)
RequestFails(t, k) ==
  /\ Failures \/ key = NoCred
  /\ At(t, k, "request")
  /\ Finish(t, k)
  /\ UNCHANGED <<shared, mem, rev, published, notice, auth, cleanups>>

(* The signer does not hold the key of the session of tab t, task k found.  *)
(* With a stored record, clearSessionWithMismatchedSigner first reads the   *)
(* signer again, to tell how the session ended; without, it awaits nothing. *)
Lost(t) == EndSession(t, TRUE, FALSE,
                      IF PastCap(mem[t]) THEN "expired" ELSE "signedOut", FALSE)

Judging(t, k, revision) ==
  SetTask(t, k,
    [IdleTask EXCEPT !.pc = IF CredOf(record) = CredOf(mem[t])
                              THEN "judgeOwn" ELSE "judgeOther",
                     !.rev = revision, !.session = record, !.seen = key])

Mismatch(t, k) ==
  IF record = NoSession
    THEN Lost(t) /\ Finish(t, k)
    ELSE /\ Judging(t, k, rev[t])
         /\ UNCHANGED <<shared, mem, rev, published, notice, cleanups>>

JudgedStill(t, k) == rev[t] = task[t][k].rev /\ mem[t] # NoSession

(* hasSessionEndedOnItsOwn read the signer: without a key the session ended *)
(* on its own. Otherwise isSessionReplacedElsewhere reads the record again, *)
(* and then the signer if the record is not this session's.                 *)
ResolveOwn(t, k) ==
  LET work == task[t][k]
      other == record # NoSession /\ record.cred # CredOf(mem[t])
  IN
  /\ work.pc = "judgeOwn"
  /\ IF work.seen # NoCred /\ other
       THEN /\ Judging(t, k, work.rev)
            /\ UNCHANGED <<shared, mem, rev, published, notice, cleanups>>
       ELSE /\ Finish(t, k)
            /\ IF ~JudgedStill(t, k)
                 THEN UNCHANGED <<shared, mem, rev, published, notice, cleanups>>
               ELSE IF work.seen = NoCred THEN Expired(t) ELSE Lost(t)
  /\ UNCHANGED auth

(* Mutant: every session with a mismatched signer is cleared alike. *)
NeverReplaced(work) == FALSE

(* The signer holds the key of the stored session: a sign-in elsewhere      *)
(* replaced this one, and owns the record and the key.                      *)
ReplacedElsewhere(work) == work.seen = CredOf(work.session)

ResolveOther(t, k) ==
  LET work == task[t][k] IN
  /\ work.pc = "judgeOther"
  /\ IF ~JudgedStill(t, k)
       THEN UNCHANGED <<shared, mem, rev, published, notice, cleanups>>
     ELSE IF ReplacedElsewhere(work)
       THEN ForgetSession(t) /\ UNCHANGED notice
       ELSE Lost(t)
  /\ Finish(t, k)
  /\ UNCHANGED auth

-----------------------------------------------------------------------------
(* useWallet *)

(* requireActiveSession, then the activation context is captured. *)
CallStart(t) ==
  /\ t \in SwitchTabs
  /\ At(t, "call", "idle") /\ KeyAccess(t)
  /\ mem[t] # NoSession /\ ~PastCap(mem[t])
  /\ IF Holds(mem[t])
       THEN /\ \E w \in Wallets :
                 SetTask(t, "call", [IdleTask EXCEPT !.pc = "request",
                                                     !.rev = rev[t],
                                                     !.session = mem[t],
                                                     !.wallet = w])
            /\ UNCHANGED <<shared, mem, rev, published, notice, cleanups>>
       ELSE Mismatch(t, "call")
  /\ UNCHANGED auth

(* WaaS rejected the credential (7202, 7203): the session ends as expired   *)
(* if the call began in it.                                                 *)
CallRefused(t) ==
  /\ At(t, "call", "refused")
  /\ IF rev[t] = task[t]["call"].rev /\ mem[t] # NoSession
       THEN Expired(t)
       ELSE UNCHANGED <<shared, mem, rev, published, notice, cleanups>>
  /\ Finish(t, "call")
  /\ UNCHANGED auth

(* The response: requireActiveSession again, which begins a signer check. *)
CallAnswered(t) ==
  /\ At(t, "call", "answered")
  /\ IF mem[t] = NoSession \/ PastCap(mem[t])
       THEN /\ IF PastCap(mem[t])
                 THEN Expired(t)
                 ELSE UNCHANGED <<shared, mem, rev, published, notice,
                                  cleanups>>
            /\ Finish(t, "call")
       ELSE /\ KeyAccess(t)
            /\ SetTask(t, "call", [task[t]["call"] EXCEPT !.pc = "checked",
                                                          !.rev = rev[t],
                                                          !.seen = key])
            /\ UNCHANGED <<shared, mem, rev, published, notice, cleanups>>
  /\ UNCHANGED auth

(* The check is judged by the session of now; requireSameActiveWalletSession*)
(* then compares the wallet ID only, and activateWallet stores the          *)
(* credential that was captured before the request.                         *)
SignerMatched(t, k) == mem[t] # NoSession /\ task[t][k].seen = mem[t].cred

SameActiveWalletSession(t) == mem[t].wallet = task[t]["call"].session.wallet

CallApply(t) ==
  LET work == task[t]["call"]
      s == [work.session EXCEPT !.wallet = work.wallet]
  IN
  /\ At(t, "call", "checked")
  /\ IF ~SignerMatched(t, "call") /\ rev[t] = work.rev
       THEN Mismatch(t, "call")
       ELSE /\ IF SignerMatched(t, "call") /\ SameActiveWalletSession(t)
                 THEN /\ Store(t, s)
                      /\ mem' = [mem EXCEPT ![t] = s]
                      /\ Publish(t, s)
                 ELSE UNCHANGED <<record, notice, mem, published>>
            /\ Finish(t, "call")
            /\ UNCHANGED <<key, status, rev, cleanups>>
  /\ UNCHANGED auth

-----------------------------------------------------------------------------
(* refreshSessionCredential *)

(* Started by a restore, the expiry timer, a session request, or a 7207.    *)
ReadStart(t) ==
  /\ t \in ReadTabs
  /\ At(t, "read", "idle") /\ KeyAccess(t)
  /\ mem[t] # NoSession
  /\ IF Holds(mem[t])
       THEN /\ SetTask(t, "read", [IdleTask EXCEPT !.pc = "request",
                                                   !.rev = rev[t],
                                                   !.session = mem[t]])
            /\ UNCHANGED <<shared, mem, rev, published, notice, cleanups>>
       ELSE Mismatch(t, "read")
  /\ UNCHANGED auth

(* A result is applied only while the same session is current. *)
ReadIsCurrent(t) ==
  /\ rev[t] = task[t]["read"].rev
  /\ mem[t] # NoSession
  /\ CredOf(mem[t]) = CredOf(task[t]["read"].session)

(* With no stored record the session is stored again; of this credential's  *)
(* record only the expiry is written; another's is left alone.              *)
RefreshedRecord(t) == IF record = NoSession THEN mem[t] ELSE record

(* A later expiry was read. *)
ReadApply(t) ==
  /\ At(t, "read", "answered")
  /\ IF ReadIsCurrent(t)
       THEN /\ record' = RefreshedRecord(t)
            /\ notice' = IF CredOf(record') = CredOf(mem[t])
                           THEN NoticeFrom(t) ELSE notice
            /\ Publish(t, mem[t])
       ELSE UNCHANGED <<record, notice, published>>
  /\ Finish(t, "read")
  /\ UNCHANGED <<key, status, mem, rev, auth, cleanups>>

ReadRefused(t) ==
  /\ At(t, "read", "refused")
  /\ IF ReadIsCurrent(t)
       THEN Expired(t)
       ELSE UNCHANGED <<shared, mem, rev, published, notice, cleanups>>
  /\ Finish(t, "read")
  /\ UNCHANGED auth

-----------------------------------------------------------------------------
(* reconcileWithStoredSession *)

(* Mutant: a pass that finds something changed is the last. *)
PassOnce(t, changed) == notice

(* reconcileStoredSessionAgain *)
PassAgain(t, changed) == [notice EXCEPT ![t] = @ \/ changed]

(* One pass begins, for a storage event, for a pass that found something    *)
(* changed, or because the page became visible. Without a record the        *)
(* session ends at once; otherwise the signer is asked for its key.         *)
Reconcile(t) ==
  LET own == CredOf(mem[t]) = CredOf(record) IN
  /\ At(t, "reconcile", "idle")
  /\ KeyAccess(t) \/ record = NoSession
  /\ notice[t] \/ (t \in ShownTabs /\ rev[t] <= MaxRev)
  /\ notice' = [notice EXCEPT ![t] = FALSE]
  /\ IF record = NoSession /\ mem[t] # NoSession
       THEN ForgetSession(t) /\ UNCHANGED task
       ELSE /\ IF record = NoSession \/ (~own /\ PastCap(record))
                 THEN UNCHANGED task
                 ELSE SetTask(t, "reconcile",
                        [IdleTask EXCEPT !.pc = IF own THEN "own" ELSE "follow",
                                         !.rev = rev[t],
                                         !.session = record,
                                         !.seen = key])
            /\ UNCHANGED <<shared, mem, rev, published, cleanups>>
  /\ UNCHANGED auth

(* Mutant: the tab keeps its own wallet. *)
OwnWallet(t, stored) == mem[t]

(* The session of tab t with the wallet of the stored one. *)
StoredWallet(t, stored) == [mem[t] EXCEPT !.wallet = stored.wallet]

(* The same sign-in: follow its stored wallet, unless its key is gone. *)
ReconcileOwn(t) ==
  LET work == task[t]["reconcile"]
      current == rev[t] = work.rev /\ mem[t] # NoSession
      changed == current /\ record # work.session
      followed == StoredWallet(t, work.session)
  IN
  /\ work.pc = "own"
  /\ IF current /\ ~changed /\ ~SignerMatched(t, "reconcile")
       THEN Mismatch(t, "reconcile")
       ELSE /\ IF current /\ ~changed
                 THEN /\ mem' = [mem EXCEPT ![t] = followed]
                      /\ Publish(t, followed)
                 ELSE UNCHANGED <<mem, published>>
            /\ notice' = PassAgain(t, changed)
            /\ Finish(t, "reconcile")
            /\ UNCHANGED <<shared, rev, cleanups>>
  /\ UNCHANGED auth

(* Mutant: only a tab without a session follows another tab's sign-in. *)
FollowsIfSignedOut(t) ==
  /\ task[t]["reconcile"].seen = task[t]["reconcile"].session.cred
  /\ mem[t] = NoSession

(* Another tab's sign-in is followed if this signer holds its key. *)
Follows(t) == task[t]["reconcile"].seen = task[t]["reconcile"].session.cred

ReconcileFollow(t) ==
  LET work == task[t]["reconcile"]
      changed == rev[t] # work.rev \/ record # work.session
  IN
  /\ work.pc = "follow"
  /\ IF ~changed /\ Follows(t)
       THEN /\ mem' = [mem EXCEPT ![t] = work.session]
            /\ rev' = [rev EXCEPT ![t] = @ + 1]
            /\ Publish(t, work.session)
       ELSE UNCHANGED <<mem, rev, published>>
  /\ notice' = PassAgain(t, changed)
  /\ Finish(t, "reconcile")
  /\ UNCHANGED <<shared, auth, cleanups>>

-----------------------------------------------------------------------------
(* The page is reloaded, and WaaS *)

(* The stored session, unless it is past its cap.                           *)
Restored == IF PastCap(record) THEN NoSession ELSE record

(* The work under way is lost. The constructor restores the stored session, *)
(* or, past its cap, only deletes its key.                                  *)
Reload(t) ==
  LET lapsed == [tab |-> t, rev |-> 0, automatic |-> TRUE,
                 cred |-> CredOf(record), end |-> "expired", signIn |-> FALSE]
  IN
  /\ t \in ReloadTabs
  /\ mem' = [mem EXCEPT ![t] = Restored]
  /\ rev' = [rev EXCEPT ![t] = 0]
  /\ published' = [published EXCEPT ![t] = Restored]
  /\ notice' = [notice EXCEPT ![t] = FALSE]
  /\ auth' = [auth EXCEPT ![t] = IdleAuth]
  /\ task' = [task EXCEPT ![t] = [k \in Kinds |-> IdleTask]]
  /\ cleanups' = {c \in cleanups : c.tab # t} \cup
                 (IF PastCap(record) THEN {lapsed} ELSE {})
  /\ UNCHANGED shared

(* WaaS ends a session: it was not used for long, or it was revoked. *)
WaasEnds(c) ==
  /\ "ended" \in Ends
  /\ status[c] = "live"
  /\ status' = [status EXCEPT ![c] = "ended"]
  /\ UNCHANGED <<record, key, mem, rev, published, notice, auth, task,
                 cleanups>>

CapPasses(c) ==
  /\ "capped" \in Ends
  /\ status[c] \in {"live", "ended"}
  /\ status' = [status EXCEPT ![c] = "capped"]
  /\ UNCHANGED <<record, key, mem, rev, published, notice, auth, task,
                 cleanups>>

-----------------------------------------------------------------------------

(* Either nobody has signed in, or every tab was opened on a live session.  *)
Init ==
  /\ record \in SessionOrNone
  /\ key = CredOf(record)
  /\ status = [c \in Creds |-> IF c = key THEN "live" ELSE "unused"]
  /\ mem = [t \in Tabs |-> record]
  /\ rev = [t \in Tabs |-> 0]
  /\ published = mem
  /\ notice = [t \in Tabs |-> FALSE]
  /\ auth = [t \in Tabs |-> IdleAuth]
  /\ task = [t \in Tabs |-> [k \in Kinds |-> IdleTask]]
  /\ cleanups = {}

(* What the users, the pages' lives and WaaS do, in their own time. *)
Environment ==
  \/ \E t \in Tabs : \/ SignOut(t) \/ SignInStart(t) \/ CallStart(t)
                     \/ ReadStart(t) \/ Reload(t)
  \/ \E c \in Creds : WaasEnds(c) \/ CapPasses(c)

SignIn(t) ==
  \/ SignInCommit(t) \/ SignInComplete(t) \/ SignInIdentify(t)
  \/ SignInSelect(t) \/ SignInPersist(t) \/ SignInFails(t)

Call(t) == CallRefused(t) \/ CallAnswered(t) \/ CallApply(t)

Read(t) == ReadApply(t) \/ ReadRefused(t)

Follow(t) == Reconcile(t) \/ ReconcileOwn(t) \/ ReconcileFollow(t)

Next ==
  \/ Environment
  \/ \E t \in Tabs : SignIn(t) \/ Call(t) \/ Read(t) \/ Follow(t)
                     \/ ExpireAtCap(t)
  \/ \E t \in Tabs, k \in Kinds : Request(t, k) \/ RequestFails(t, k)
                                  \/ ResolveOwn(t, k) \/ ResolveOther(t, k)
  \/ \E c \in cleanups : DeleteKey(c) \/ DeleteKeyFails(c)

Spec == Init /\ [][Next]_vars

(* The event loop of a tab runs what is ready, an answer or a time limit    *)
(* ends every request, IndexedDB serves every tab and a storage event is    *)
(* delivered. Users, page loads, visibility and WaaS owe nothing.           *)
Fairness ==
  \A t \in Tabs :
    /\ WF_vars(SignIn(t))
    /\ WF_vars(Call(t))
    /\ WF_vars(Read(t))
    /\ WF_vars(notice[t] /\ Reconcile(t))
    /\ WF_vars(ReconcileOwn(t) \/ ReconcileFollow(t))
    /\ WF_vars(ExpireAtCap(t))
    /\ WF_vars(\E c \in cleanups : c.tab = t /\ (DeleteKey(c) \/ DeleteKeyFails(c)))
    /\ \A k \in Kinds : /\ WF_vars(Request(t, k) \/ RequestFails(t, k))
                        /\ WF_vars(ResolveOwn(t, k) \/ ResolveOther(t, k))

FairSpec == Spec /\ Fairness

-----------------------------------------------------------------------------
(* Safety *)

(* The session the listeners of a tab heard of last is the session the tab  *)
(* has, unless the tab still awaits the key deletion of the end it is to    *)
(* publish: publishSessionChange, clearSession.                             *)
PublishedFollowsState ==
  \A t \in Tabs :
    published[t] # mem[t] => \E c \in cleanups : c.tab = t /\ c.rev = rev[t]

(* A tab that has a session has no key deletion of its own under way: what  *)
(* ended its last session cannot take the key of this one (clearSession:    *)
(* "so a sign-in they start keeps its new key").                            *)
SessionMeansNoCleanup == \A c \in cleanups : mem[c.tab] = NoSession

(* When every event was handled and nothing is under way, all tabs agree    *)
(* with the stored record: no tab keeps a session that was removed, or a    *)
(* wallet or credential that was replaced, while the stored session is live.*)
Quiet ==
  /\ cleanups = {}
  /\ \A t \in Tabs : ~notice[t] /\ auth[t].pc = "idle"
  /\ \A t \in Tabs, k \in Kinds : task[t][k].pc = "idle"

StoredIsLive == Holds(record) /\ status[key] = "live"

QuietTabsAgree ==
  Quiet /\ (record = NoSession \/ StoredIsLive)
    => \A t \in Tabs : mem[t] = record

(* A key whose session WaaS accepts is only deleted for a sign-out or a     *)
(* sign-in, never for a session that ended on its own: clearSessionSignerKey.*)
LiveKeyKept ==
  [][ \A c \in Creds :
        key = c /\ status[c] = "live" /\ key' # c
          => \E d \in cleanups \ cleanups' : ~d.automatic ]_vars

(* Task k of tab t judges the tab's session by a record it read before the  *)
(* signer, and another one is stored by now.                                *)
JudgesOlder(t, k) == At(t, k, "judgeOther") /\ task[t][k].session # record

(* A live stored session whose key is held is only removed by a sign-out or *)
(* a sign-in, or by a tab that judged its own session by an older record:   *)
(* clearSessionWithMismatchedSigner ("the newer session keeps its stored    *)
(* record and key") keeps the record it has read, not one stored since.     *)
LiveRecordKept ==
  [][ StoredIsLive /\ record' = NoSession
        => \/ \E c \in cleanups' \ cleanups : ~c.automatic
           \/ \E t \in Tabs, k \in Kinds :
                JudgesOlder(t, k) /\ task'[t][k].pc = "idle" ]_vars

-----------------------------------------------------------------------------
(* Liveness *)

(* A sign-out in one tab ends the session in every tab.                     *)
SignOutReachesTabs ==
  <>[](record = NoSession) => <>[](\A t \in Tabs : mem[t] = NoSession)

(* A stored session that stays live becomes the session of every tab.       *)
SignInReachesTabs ==
  \A s \in Session :
    <>[](record = s /\ StoredIsLive) => <>[](\A t \in Tabs : mem[t] = s)

-----------------------------------------------------------------------------
(* What a test promises and the code does not do *)

Activates(t) == auth[t].pc = "persist" /\ auth'[t].pc = "idle"

(* A sign-in during which the user signed out does not activate a session   *)
(* (tests/oidcIdTokenAuth.test.ts:269).                                     *)
SignOutWins ==
  [][ \A t \in Tabs :
        Activates(t) /\ auth[t].signedOut => mem'[t] = mem[t] ]_vars

=============================================================================
