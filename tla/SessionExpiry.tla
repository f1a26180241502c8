---------------------------- MODULE SessionExpiry ----------------------------
(***************************************************************************)
(* How a session ends by time: walletClient.ts, the expiry timer, the reads*)
(* of the expiry from WaaS with GetCredential, their retries, and the      *)
(* lifetime cap, in one client with the page around it.                    *)
(*                                                                         *)
(* WaaS moves the expiry of a credential forward with use, up to its cap;  *)
(* the client knows the expiry WaaS last reported. When that passes, a     *)
(* timer or an operation asks WaaS, which may have extended the session.   *)
(*                                                                         *)
(* Abstractions: time is a small number of ticks, and any time may pass    *)
(* between two steps; a promise that settles runs what waits for it in the *)
(* same step, as the event loop does; a session has one wallet; the stored *)
(* record and the key are this tab's alone (SharedSession has the others); *)
(* WaaS takes no request of the session while it answers another, which is *)
(* what the gates and the queue of SignedRequests see to.                  *)
(***************************************************************************)
EXTENDS Naturals, FiniteSets

CONSTANTS
  MaxTime,       \* bound: the clock stops here
  MaxSignIns,    \* bound: sign-ins made
  MaxRevision,   \* bound: sessionRevision of one page load
  MaxTroubles,   \* bound: requests that fail, reloads, and further sign-ins
  Latency,       \* bound: how long CompleteAuth takes
  Ops,           \* the wallet calls that can be under way at once
  Idle,          \* how long WaaS keeps a credential without use
  Lifetime,      \* the lifetime asked for at sign-in
  MaxTimer,      \* MAX_SESSION_EXPIRY_TIMER_MS
  RetryMin,      \* CREDENTIAL_REFRESH_RETRY_MIN_MS
  RetryMax,      \* CREDENTIAL_REFRESH_RETRY_MAX_MS
  Interval,      \* CREDENTIAL_REFRESH_INTERVAL_MS
  Unsupported,   \* CREDENTIAL_REFRESH_UNSUPPORTED_RETRY_MS
  BadRoutes      \* whether GetCredential may be answered WebrpcBadRoute

(* WaaS keeps an unused credential for days, longer than the longest retry  *)
(* delay: a skipped retry is never the last look at the session.            *)
ASSUME ConstantsAssumption ==
  /\ {MaxTime, MaxSignIns, MaxRevision, MaxTroubles} \subseteq Nat
  /\ Latency \in Nat
  /\ {Idle, Lifetime, MaxTimer, RetryMin, RetryMax} \subseteq Nat \ {0}
  /\ {Interval, Unsupported} \subseteq Nat \ {0}
  /\ RetryMin <= RetryMax
  /\ RetryMax < Idle
  /\ RetryMax < MaxTimer
  /\ BadRoutes \in BOOLEAN

VARIABLES
  now,           \* the clock
  visible,       \* whether the page is in the foreground
  rev,           \* sessionRevision
  session,       \* the active session: its credential, expiry and lifetime cap
  lastRead,      \* lastCredentialRefreshAt, 0 when unset
  timer,         \* sessionExpiryTimer: when it fires, for which expiry
  pending,       \* sessionReadPending
  wait,          \* what cancelSessionRead cancels
  delay,         \* sessionReadRetryDelayMs
  read,          \* the GetCredential under way of each revision
  readers,       \* the revisions whose foreground read awaits it
  op,            \* the wallet calls under way
  unsupported,   \* credentialRefreshUnsupportedUntil, 0 when unset
  rejected,      \* rejectedSessionCredentialRevision
  replay,        \* latestExpiredChange: the credential whose expiry is replayed
  stored,        \* the stored session record
  key,           \* the credential whose key the signer holds
  signIns,       \* how many sign-ins have been made
  ends,          \* WaaS: the expiry of each credential
  caps,          \* WaaS: the lifetime cap of each credential
  revoked,       \* WaaS: the credentials it has revoked
  troubles       \* how many requests failed, reloads and further sign-ins were

waiting == <<timer, pending, wait, delay>>
memory == <<rev, session, lastRead, waiting, replay>>
calls == <<read, readers, op>>
kept == <<stored, key>>
waas == <<signIns, ends, caps, revoked>>
answers == <<unsupported, rejected>>
vars == <<now, visible, memory, calls, kept, waas, answers, troubles>>

-----------------------------------------------------------------------------
(* Types *)

Times == Nat
Creds == 0..MaxSignIns          \* 0 is no credential
Revisions == 0..MaxRevision

Session == [cred : Creds, expiresAt : Times, ceiling : Times]
NoSession == [cred |-> 0, expiresAt |-> 0, ceiling |-> 0]

Timer == [on : BOOLEAN, at : Times, expiry : Times]
NoTimer == [on |-> FALSE, at |-> 0, expiry |-> 0]

Wait == [for : {"none", "foreground", "retry"}, at : Times, before : Times]
NoWait == [for |-> "none", at |-> 0, before |-> 0]

Outcomes == {"refreshed", "ended", "unauthorized", "badRoute", "failed"}
Read == [at : {"none", "signer", "asked", "replied"}, cred : Creds,
         outcome : Outcomes, expiresAt : Times]
NoRead == [at |-> "none", cred |-> 0, outcome |-> "failed", expiresAt |-> 0]

Replies == {"ok", "ended", "unauthorized", "failed", "publicEnded"}
Op == [at : {"idle", "reading", "sent", "replied"}, rev : Revisions,
       cred : Creds, reply : Replies]
NoOp == [at |-> "idle", rev |-> 0, cred |-> 0, reply |-> "failed"]

TypeOK ==
  /\ now \in Times
  /\ visible \in BOOLEAN
  /\ rev \in Revisions
  /\ session \in Session
  /\ lastRead \in Times
  /\ timer \in Timer
  /\ pending \in BOOLEAN
  /\ wait \in Wait
  /\ delay \in RetryMin..RetryMax
  /\ read \in [Revisions -> Read]
  /\ readers \subseteq Revisions
  /\ op \in [Ops -> Op]
  /\ unsupported \in Times
  /\ rejected \subseteq Revisions
  /\ replay \in Creds
  /\ stored \in Session
  /\ key \in Creds
  /\ signIns \in Creds
  /\ ends \in [Creds -> Times]
  /\ caps \in [Creds -> Times]
  /\ revoked \subseteq Creds
  /\ troubles \in Nat

-----------------------------------------------------------------------------
(* What the client knows of its session *)

Least(i, j) == IF i < j THEN i ELSE j
Greatest(i, j) == IF i < j THEN j ELSE i

SignedIn == session.cred # 0
IsExpired(s) == s.expiresAt <= now
PastCap(s) == s.ceiling <= now
IsUnsupported == now < unsupported
SignerMatches(s) == key = s.cred

(* The timer of an expiry, no longer than a browser's timers can be.        *)
TimerFor(expiry) ==
  [on |-> TRUE, expiry |-> expiry,
   at |-> now + Least(IF expiry > now THEN expiry - now ELSE 0, MaxTimer)]

(* resetSessionStateInMemory: a new revision without timer, wait or retry.  *)
Reset ==
  /\ rev' = rev + 1
  /\ pending' = FALSE
  /\ wait' = NoWait
  /\ delay' = RetryMin

(* expireSession: the record stays as the hint, the key is deleted.         *)
Expire ==
  /\ Reset
  /\ lastRead' = 0
  /\ session' = NoSession
  /\ timer' = NoTimer
  /\ replay' = session.cred
  /\ key' = IF key = session.cred THEN 0 ELSE key
  /\ UNCHANGED stored

Keep == UNCHANGED <<memory, kept>>

-----------------------------------------------------------------------------
(* Reading the expiry *)

(* refreshSessionCredential: the read of this revision, begun unless it is  *)
(* under way.                                                               *)
ReadStarted ==
  IF read[rev].at # "none" THEN read
  ELSE [read EXCEPT ![rev] = [NoRead EXCEPT !.at = "signer", !.cred = session.cred]]

(* readSessionExpiry, while the timer becomes tm.                           *)
ReadExpiry(tm) ==
  \/ /\ ~IsUnsupported
     /\ read' = ReadStarted
     /\ readers' = readers \cup {rev}
     /\ pending' = TRUE
     /\ wait' = NoWait
     /\ timer' = tm
     /\ UNCHANGED <<rev, session, lastRead, delay, replay, kept>>
  \/ /\ IsUnsupported
     /\ IsExpired(session)
     /\ Expire
     /\ UNCHANGED <<read, readers>>
  \/ /\ IsUnsupported
     /\ ~IsExpired(session)
     /\ pending' = FALSE
     /\ wait' = NoWait
     /\ delay' = RetryMin
     /\ timer' = tm
     /\ UNCHANGED <<rev, session, lastRead, replay, kept, read, readers>>

(* readSessionExpiryInForeground, when no read is pending.                  *)
ReadInForeground(tm) ==
  \/ visible /\ ReadExpiry(tm)
  \/ /\ ~visible
     /\ pending' = TRUE
     /\ wait' = [NoWait EXCEPT !.for = "foreground"]
     /\ timer' = tm
     /\ UNCHANGED <<rev, session, lastRead, delay, replay, kept, read, readers>>

(* The timer ends the session without asking WaaS.                          *)
EndsUnasked == PastCap(session) \/ IsUnsupported

TimerIsCurrent == timer.expiry = session.expiresAt

(* Mutant: a read is begun though one is pending.                           *)
TimerActsAnyway == TimerIsCurrent

(* Mutant: a capped timer that fires before the expiry is not set anew.     *)
TimerActsOnce ==
  /\ TimerIsCurrent
  /\ IsExpired(session)
  /\ ~EndsUnasked => ~pending

TimerActs ==
  /\ TimerIsCurrent
  /\ (IsExpired(session) /\ ~EndsUnasked) => ~pending

(* The timer fires: expireSessionFromTimer. Timers run in the order in which*)
(* they are due.                                                            *)
TimerFires ==
  /\ timer.on
  /\ timer.at <= now
  /\ wait.for = "retry" => timer.at <= wait.at
  /\ \/ /\ TimerActs /\ ~IsExpired(session)
        /\ timer' = TimerFor(session.expiresAt)
        /\ UNCHANGED <<rev, session, lastRead, pending, wait, delay, replay, kept, read, readers>>
     \/ /\ TimerActs /\ IsExpired(session) /\ EndsUnasked
        /\ Expire
        /\ UNCHANGED <<read, readers>>
     \/ /\ TimerActs /\ IsExpired(session) /\ ~EndsUnasked
        /\ ReadInForeground(NoTimer)
     \/ /\ ~TimerActs
        /\ timer' = NoTimer
        /\ UNCHANGED <<rev, session, lastRead, pending, wait, delay, replay, kept, read, readers>>
  /\ UNCHANGED <<now, visible, op, answers, waas, troubles>>

(* The retry of a failed read is due; a read made meanwhile makes it moot.  *)
(* When the clock has stopped at its bound, every retry is due.             *)
RetryDue ==
  /\ wait.for = "retry"
  /\ wait.at <= now \/ now = MaxTime
  /\ timer.on => wait.at <= timer.at
  /\ \/ /\ lastRead # wait.before
        /\ pending' = FALSE
        /\ wait' = NoWait
        /\ UNCHANGED <<rev, session, lastRead, timer, delay, replay, kept, read, readers>>
     \/ /\ lastRead = wait.before
        /\ ReadInForeground(timer)
  /\ UNCHANGED <<now, visible, op, answers, waas, troubles>>

(* The page comes to the foreground, where a read may be waiting for it.    *)
Show ==
  /\ ~visible
  /\ visible' = TRUE
  /\ \/ wait.for = "foreground" /\ ReadExpiry(timer)
     \/ wait.for # "foreground" /\ Keep /\ UNCHANGED <<read, readers>>
  /\ UNCHANGED <<now, op, answers, waas, troubles>>

Hide ==
  /\ SignedIn
  /\ visible
  /\ visible' = FALSE
  /\ Keep
  /\ UNCHANGED <<now, calls, answers, waas, troubles>>

-----------------------------------------------------------------------------
(* The end of a read *)

(* The wallet calls waiting for the read of revision r.                     *)
OpsReading(r) == {o \in Ops : op[o].at = "reading" /\ op[o].rev = r}
OpsAfter(r, next) ==
  [o \in Ops |-> IF o \in OpsReading(r) THEN next[o] ELSE op[o]]
OpsGiveUp(r) == OpsAfter(r, [o \in Ops |-> NoOp])
OpsGoOn(r) == OpsAfter(r, [o \in Ops |-> [op[o] EXCEPT !.at = "sent"]])

ReadOver(r) ==
  /\ read' = [read EXCEPT ![r] = NoRead]
  /\ readers' = readers \ {r}

(* Mutant: the result is taken for the session there is now.                *)
CurrentAnyway(r) == SignedIn

IsCurrent(r) == r = rev /\ read[r].cred = session.cred

(* The result of a read of another session, and one that no caller waits for*)
(* because the session has ended, change nothing.                           *)
ReadStale(r) ==
  /\ ~IsCurrent(r)
  /\ Keep
  /\ op' = OpsGiveUp(r)

(* Mutant: the next delay is doubled, but no retry is scheduled.            *)
RetryForgotten ==
  /\ wait' = NoWait
  /\ delay' = Least(2 * delay, RetryMax)

(* Mutant: the delay grows without limit.                                   *)
RetryUnlimited ==
  /\ wait' = [for |-> "retry", at |-> now + delay, before |-> lastRead]
  /\ delay' = 2 * delay

(* scheduleSessionReadRetry, for the foreground read that failed.           *)
RetryScheduled ==
  /\ wait' = [for |-> "retry", at |-> now + delay, before |-> lastRead]
  /\ delay' = Least(2 * delay, RetryMax)

(* WaaS was not reached: the session is kept.                               *)
ReadUnavailable(r) ==
  /\ IsCurrent(r)
  /\ \/ r \in readers /\ RetryScheduled
     \/ r \notin readers /\ UNCHANGED <<wait, delay>>
  /\ op' = OpsGiveUp(r)
  /\ UNCHANGED <<rev, session, lastRead, timer, pending, replay, kept>>

(* The session ended, on WaaS or with the key of its signer.                *)
ReadEnded(r) ==
  /\ IsCurrent(r)
  /\ Expire
  /\ op' = OpsGiveUp(r)

(* GetCredential is not there: the local expiry is final.                   *)
ReadUnsupported(r) ==
  /\ IsCurrent(r)
  /\ \/ /\ OpsReading(r) # {} \/ (r \in readers /\ IsExpired(session))
        /\ Expire
     \/ /\ ~(OpsReading(r) # {} \/ (r \in readers /\ IsExpired(session)))
        /\ pending' = (pending /\ r \notin readers)
        /\ delay' = IF r \in readers THEN RetryMin ELSE delay
        /\ UNCHANGED <<rev, session, lastRead, timer, wait, replay, kept>>
  /\ op' = OpsGiveUp(r)

(* applyRefreshedSessionExpiry, and the callers' second look at the expiry. *)
(* The record keeps the old one when the storage fails.                     *)
ReadRefreshed(r, expiry) ==
  LET refreshed == [session EXCEPT !.expiresAt = expiry]
      awaited == r \in readers \/ OpsReading(r) # {}
  IN
  /\ IsCurrent(r)
  /\ stored' \in {stored, [stored EXCEPT !.expiresAt = expiry]}
  /\ \/ /\ awaited /\ IsExpired(refreshed)
        /\ Reset
        /\ lastRead' = 0
        /\ session' = NoSession
        /\ timer' = NoTimer
        /\ replay' = session.cred
        /\ key' = IF key = session.cred THEN 0 ELSE key
        /\ op' = OpsGiveUp(r)
     \/ /\ ~(awaited /\ IsExpired(refreshed))
        /\ session' = refreshed
        /\ lastRead' = now
        /\ timer' = TimerFor(expiry)
        /\ pending' = (pending /\ r \notin readers)
        /\ delay' = IF r \in readers THEN RetryMin ELSE delay
        /\ op' = OpsGoOn(r)
        /\ UNCHANGED <<rev, wait, replay, key>>

-----------------------------------------------------------------------------
(* requestCredentialRefresh *)

Idles(r) == read[r].at = "none"
(* What can go wrong, or is done again, at most MaxTroubles times.          *)
Trouble == troubles < MaxTroubles /\ troubles' = troubles + 1

(* The signer is asked for its key before WaaS is asked for the expiry.     *)
CheckSigner(r) ==
  /\ read[r].at = "signer"
  /\ \/ /\ ~IsCurrent(r)
        /\ ReadStale(r) /\ ReadOver(r)
        /\ UNCHANGED troubles
     \/ /\ IsCurrent(r) /\ ~SignerMatches(session)
        /\ ReadEnded(r) /\ ReadOver(r)
        /\ UNCHANGED troubles
     \/ /\ IsCurrent(r) /\ SignerMatches(session)
        /\ read' = [read EXCEPT ![r].at = "asked"]
        /\ Keep
        /\ UNCHANGED <<readers, op, troubles>>
     \/ /\ IsCurrent(r) /\ Trouble
        /\ ReadUnavailable(r) /\ ReadOver(r)
  /\ UNCHANGED <<now, visible, answers, waas>>

(* The answer of GetCredential arrives.                                     *)
ReadAnswered(r) ==
  /\ read[r].at = "replied"
  /\ ReadOver(r)
  /\ \/ ReadStale(r)
     \/ read[r].outcome = "refreshed" /\ ReadRefreshed(r, read[r].expiresAt)
     \/ read[r].outcome \in {"ended", "unauthorized"} /\ ReadEnded(r)
     \/ read[r].outcome = "badRoute" /\ ReadUnsupported(r)
     \/ read[r].outcome = "failed" /\ ReadUnavailable(r)
  /\ unsupported' = IF read[r].outcome = "badRoute" THEN now + Unsupported
                    ELSE unsupported
  /\ UNCHANGED <<now, visible, rejected, waas, troubles>>

-----------------------------------------------------------------------------
(* WaaS *)

Live(c) == c \notin revoked /\ now < ends[c]
Used(c) == [ends EXCEPT ![c] = Least(now + Idle, caps[c])]

(* No answer of WaaS to a signed request of this client is on its way.      *)
NoneReplied ==
  /\ \A r \in Revisions : read[r].at # "replied"
  /\ \A o \in Ops : op[o].at # "replied"

(* GetCredential reaches WaaS, which counts it as use; or it does not.      *)
TakeRead(r) ==
  LET c == read[r].cred
      replied(outcome) ==
        read' = [read EXCEPT ![r].at = "replied", ![r].outcome = outcome,
                             ![r].expiresAt = ends'[c]]
  IN
  /\ read[r].at = "asked"
  /\ NoneReplied
  /\ \/ /\ Live(c)
        /\ ends' = Used(c)
        /\ replied("refreshed")
        /\ UNCHANGED troubles
     \/ /\ ~Live(c)
        /\ UNCHANGED ends
        /\ replied(IF c \in revoked THEN "unauthorized" ELSE "ended")
        /\ UNCHANGED troubles
     \/ /\ BadRoutes /\ Trouble
        /\ UNCHANGED ends
        /\ replied("badRoute")
     \/ /\ Trouble
        /\ ends' \in {ends} \cup (IF Live(c) THEN {Used(c)} ELSE {})
        /\ replied("failed")
  /\ Keep
  /\ UNCHANGED <<now, visible, readers, op, answers, signIns, caps,
                 revoked>>

(* A request of a wallet call reaches WaaS. WaaS may refuse it the wallet,  *)
(* and a public request may be refused for somebody else's credential.      *)
TakeOp(o) ==
  LET c == op[o].cred
      replied(reply) ==
        op' = [op EXCEPT ![o].at = "replied", ![o].reply = reply]
  IN
  /\ op[o].at = "sent"
  /\ NoneReplied
  /\ \/ /\ Live(c)
        /\ ends' = Used(c)
        /\ \E reply \in {"ok", "unauthorized"} : replied(reply)
     \/ /\ ~Live(c)
        /\ UNCHANGED ends
        /\ replied(IF c \in revoked THEN "unauthorized" ELSE "ended")
     \/ /\ UNCHANGED ends
        /\ \E reply \in {"failed", "publicEnded"} : replied(reply)
  /\ Keep
  /\ UNCHANGED <<now, visible, read, readers, answers, signIns, caps, revoked,
                 troubles>>

(* The user, or WaaS, ends a credential elsewhere.                          *)
Revoke ==
  /\ SignedIn
  /\ session.cred \notin revoked
  /\ revoked' = revoked \cup {session.cred}
  /\ Keep
  /\ UNCHANGED <<now, visible, calls, answers, signIns, ends, caps, troubles>>

-----------------------------------------------------------------------------
(* Wallet calls *)

OpAt(o, at) ==
  op' = [op EXCEPT ![o] = [NoOp EXCEPT !.at = at, !.rev = rev, !.cred = session.cred]]

(* requireActiveSession: a session found expired is read before its use, or *)
(* ends when nothing can have extended it; one without its key ends.        *)
BeginOp(o) ==
  /\ op[o].at = "idle"
  /\ SignedIn
  /\ \/ /\ ~IsExpired(session) /\ SignerMatches(session)
        /\ OpAt(o, "sent")
        /\ Keep
        /\ UNCHANGED read
     \/ /\ \/ ~IsExpired(session) /\ ~SignerMatches(session)
           \/ IsExpired(session) /\ EndsUnasked
        /\ Expire
        /\ UNCHANGED <<op, read>>
     \/ /\ IsExpired(session) /\ ~EndsUnasked
        /\ read' = ReadStarted
        /\ OpAt(o, "reading")
        /\ Keep
  /\ UNCHANGED <<now, visible, readers, answers, waas, troubles>>

(* refreshSessionCredentialIfDue                                            *)
ReadDue == ~IsUnsupported /\ (lastRead = 0 \/ now - lastRead >= Interval)

(* What the answer of a wallet call starts (sessionActivityFetch).          *)
StartsRead(o) ==
  /\ op[o].rev = rev
  /\ SignedIn
  /\ \/ op[o].reply = "ok" /\ ReadDue
     \/ op[o].reply = "unauthorized" /\ ~IsUnsupported

(* Mutant: whichever credential was rejected.                               *)
EndsWhateverRejected(o) ==
  /\ op[o].reply \in {"ended", "publicEnded"}
  /\ op[o].rev = rev
  /\ SignedIn

(* Whether the answer ends the session (operationError): WaaS rejected a    *)
(* request signed with its credential, not some other credential.           *)
EndsSession(o) ==
  /\ op[o].reply \in {"ended", "publicEnded"}
  /\ op[o].rev \in rejected'
  /\ op[o].rev = rev
  /\ SignedIn

OpAnswered(o) ==
  /\ op[o].at = "replied"
  /\ op' = [op EXCEPT ![o] = NoOp]
  /\ rejected' = IF op[o].reply = "ended" THEN {op[o].rev} ELSE rejected
  /\ read' = IF StartsRead(o) THEN ReadStarted ELSE read
  /\ \/ EndsSession(o) /\ Expire
     \/ ~EndsSession(o) /\ Keep
  /\ UNCHANGED <<now, visible, readers, unsupported, waas, troubles>>

-----------------------------------------------------------------------------
(* Sign-in, sign-out, reload, time *)

(* A sign-in whose CompleteAuth was sent at s and reached WaaS at t.        *)
SignIn(s, t) ==
  LET c == signIns + 1
      expiry == t + Least(Idle, Lifetime)
  IN
  /\ signIns < MaxSignIns
  /\ signIns > 0 => troubles < MaxTroubles
  /\ troubles' = IF signIns > 0 THEN troubles + 1 ELSE troubles
  /\ rev + 1 < MaxRevision
  /\ 0 < s
  /\ Reset
  /\ signIns' = c
  /\ ends' = [ends EXCEPT ![c] = expiry]
  /\ caps' = [caps EXCEPT ![c] = t + Lifetime]
  /\ session' = [cred |-> c, expiresAt |-> expiry,
                 ceiling |-> Greatest(s + Lifetime, expiry)]
  /\ lastRead' = s
  /\ timer' = TimerFor(expiry)
  /\ stored' = session'
  /\ key' = c
  /\ replay' = 0
  /\ UNCHANGED <<now, visible, calls, answers, revoked>>

(* persistSession takes the time CompleteAuth was sent as the last read.    *)
SignInNow ==
  \E s \in (now - Latency)..now : \E t \in s..now : SignIn(s, t)

SignOut ==
  /\ SignedIn
  /\ Reset
  /\ lastRead' = 0
  /\ session' = NoSession
  /\ timer' = NoTimer
  /\ replay' = 0
  /\ stored' = NoSession
  /\ key' = 0
  /\ UNCHANGED <<now, visible, calls, answers, waas, troubles>>

(* The stored session is not restored: its cap has passed.                  *)
NotRestored ==
  /\ IsExpired(stored) /\ PastCap(stored)
  /\ session' = NoSession
  /\ timer' = NoTimer
  /\ replay' = stored.cred
  /\ key' = IF key = stored.cred THEN 0 ELSE key
  /\ pending' = FALSE
  /\ wait' = NoWait
  /\ readers' = {}
  /\ read' = [r \in Revisions |-> NoRead]

(* installStoredSession, and the read of a restored session's expiry.       *)
Restored ==
  /\ ~(IsExpired(stored) /\ PastCap(stored))
  /\ session' = stored
  /\ timer' = TimerFor(stored.expiresAt)
  /\ replay' = 0
  /\ pending' = TRUE
  /\ wait' = [NoWait EXCEPT !.for = IF visible THEN "none" ELSE "foreground"]
  /\ readers' = IF visible THEN {0} ELSE {}
  /\ read' = [r \in Revisions |->
               IF visible /\ r = 0
               THEN [NoRead EXCEPT !.at = "signer", !.cred = stored.cred]
               ELSE NoRead]
  /\ UNCHANGED key

(* The page is loaded anew (constructor).                                   *)
Reload ==
  /\ stored.cred # 0
  /\ Trouble
  /\ NotRestored \/ Restored
  /\ rev' = 0
  /\ lastRead' = 0
  /\ delay' = RetryMin
  /\ op' = [o \in Ops |-> NoOp]
  /\ unsupported' = 0
  /\ rejected' = {}
  /\ UNCHANGED <<now, visible, stored, waas>>

Tick ==
  /\ now < MaxTime
  /\ now' = now + 1
  /\ Keep
  /\ UNCHANGED <<visible, calls, answers, waas, troubles>>

-----------------------------------------------------------------------------
(* The system *)

Init ==
  /\ now = 1
  /\ visible \in BOOLEAN
  /\ rev = 0
  /\ session = NoSession
  /\ lastRead = 0
  /\ timer = NoTimer
  /\ pending = FALSE
  /\ wait = NoWait
  /\ delay = RetryMin
  /\ read = [r \in Revisions |-> NoRead]
  /\ readers = {}
  /\ op = [o \in Ops |-> NoOp]
  /\ unsupported = 0
  /\ rejected = {}
  /\ replay = 0
  /\ stored = NoSession
  /\ key = 0
  /\ signIns = 0
  /\ ends = [c \in Creds |-> 0]
  /\ caps = [c \in Creds |-> 0]
  /\ revoked = {}
  /\ troubles = 0

ReadStep(r) == CheckSigner(r) \/ TakeRead(r) \/ ReadAnswered(r)
OpStep(o) == TakeOp(o) \/ OpAnswered(o)

Next ==
  \/ TimerFires
  \/ RetryDue
  \/ Show
  \/ Hide
  \/ \E r \in Revisions : ReadStep(r)
  \/ \E o \in Ops : BeginOp(o) \/ OpStep(o)
  \/ SignInNow
  \/ SignOut
  \/ Reload
  \/ Revoke
  \/ Tick

Spec == Init /\ [][Next]_vars

(* Timers fire, promises settle, requests are answered or time out, and the *)
(* user looks at the page again.                                            *)
Fairness ==
  /\ WF_vars(TimerFires)
  /\ WF_vars(RetryDue)
  /\ WF_vars(Show)
  /\ WF_vars(Tick)
  /\ \A r \in Revisions : WF_vars(ReadStep(r))
  /\ \A o \in Ops : WF_vars(OpStep(o))

FairSpec == Spec /\ Fairness

-----------------------------------------------------------------------------
(* Properties *)

(* The expiry the client believes, and any it is being told of a session,   *)
(* is one WaaS gave that very session: no answer of an earlier session is   *)
(* applied to its successor (requestCredentialRefresh: isCurrent).          *)
ExpiryIsItsOwn ==
  /\ SignedIn => session.expiresAt <= ends[session.cred]
  /\ stored.cred # 0 => stored.expiresAt <= ends[stored.cred]
  /\ \A r \in Revisions :
       read[r].at = "replied" /\ read[r].outcome = "refreshed" =>
         read[r].expiresAt <= ends[read[r].cred]

(* An active session is watched: a timer, a wait for the foreground or a    *)
(* retry, or a foreground read that is under way will look at its expiry    *)
(* again, whatever was cancelled, skipped or joined before                  *)
(* (scheduleSessionExpiry, readSessionExpiryInForeground,                   *)
(* scheduleSessionReadRetry).                                               *)
Watched ==
  SignedIn => timer.on \/ wait.for # "none" \/ rev \in readers

(* The timer, the restore and the retries share one foreground read: none   *)
(* waits while one is under way, and pending tells whether there is one     *)
(* (readSessionExpiryInForeground).                                         *)
OneForegroundRead ==
  /\ ~(wait.for # "none" /\ rev \in readers)
  /\ pending = (wait.for # "none" \/ rev \in readers)
  /\ rev \in readers => read[rev].at # "none"

(* WaaS is past it, the client's cap has passed, the key is gone, or WaaS   *)
(* has no GetCredential and its last word has passed.                       *)
Over(s) ==
  \/ ~Live(s.cred)
  \/ PastCap(s)
  \/ ~SignerMatches(s)
  \/ BadRoutes /\ IsExpired(s)

(* A session that WaaS keeps alive is never ended as expired: neither by a  *)
(* late timer, nor by the answer of an earlier read, nor by a rejection of  *)
(* some other credential (expireSessionFromTimer, operationError).          *)
NoEarlyEnd ==
  [][\A c \in Creds \ {0} :
       session.cred = c /\ session'.cred = 0 /\ replay' = c => Over(session)]_vars

(* A session whose expiry passes is extended or ends, though reads fail and *)
(* the page is hidden and shown at any time.                                *)
ExpiredSessionDecided ==
  (SignedIn /\ IsExpired(session)) ~> ~(SignedIn /\ IsExpired(session))
=============================================================================
