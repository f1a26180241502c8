------------------------- MODULE SessionExpiryProofs -------------------------
(***************************************************************************)
(* What is proved of any clock, any number of sign-ins, reads and calls.   *)
(***************************************************************************)
EXTENDS SessionExpiry, TLAPS

-----------------------------------------------------------------------------
(* The inductive invariant *)

(* Nothing is of a revision that does not exist yet.                        *)
RevisionsOK ==
  /\ readers \cup rejected \subseteq 0..rev
  /\ \A r \in Revisions : r > rev => read[r].at = "none"
  /\ \A o \in Ops : op[o].rev <= rev
  /\ SignedIn => rev < MaxRevision
  /\ stored.cred # 0 => 1 < MaxRevision

(* The record is of the session, as far as WaaS knows of either.            *)
WaasOK == \A c \in Creds : ends[c] <= caps[c] /\ ends[c] <= now + Idle
RecordOK ==
  stored.cred # 0 =>
    /\ stored.cred <= signIns
    /\ stored.expiresAt <= ends[stored.cred]
    /\ stored.ceiling <= caps[stored.cred]
SessionOK ==
  /\ RecordOK
  /\ SignedIn =>
       /\ stored.cred = session.cred /\ stored.ceiling = session.ceiling
       /\ session.expiresAt <= ends[session.cred]
       /\ rev \in rejected => ~Live(session.cred)
  /\ unsupported # 0 => BadRoutes

(* What an answer on its way says of a credential is still so: WaaS takes no*)
(* other request meanwhile, and what is over stays over.                    *)
ReadOK(r) ==
  read[r].at # "none" =>
    /\ 0 < read[r].cred /\ read[r].cred <= signIns
    /\ r = rev => read[r].cred = session.cred
    /\ read[r].at = "replied" =>
         /\ read[r].outcome = "refreshed" => read[r].expiresAt = ends[read[r].cred]
         /\ read[r].outcome \in {"ended", "unauthorized"} => ~Live(read[r].cred)
         /\ read[r].outcome = "badRoute" => BadRoutes

OpOK(o) ==
  op[o].at # "idle" =>
    /\ 0 < op[o].cred /\ op[o].cred <= signIns
    /\ op[o].at = "replied" /\ op[o].reply = "ended" => ~Live(op[o].cred)
    /\ op[o].rev = rev /\ SignedIn =>
         /\ op[o].cred = session.cred
         /\ op[o].at = "reading" => IsExpired(session)

CallsOK == (\A r \in Revisions : ReadOK(r)) /\ (\A o \in Ops : OpOK(o))

(* Only a session is watched, by a timer that is its own; without a timer it*)
(* has expired and a read is pending. A retry that a read has made moot is  *)
(* due before the timer of that read, unless that timer is the session's    *)
(* last: it will then end at its cap.                                       *)
LastTimer == session.ceiling <= session.expiresAt
WatchOK ==
  /\ timer.on \/ pending => SignedIn
  /\ timer.on => timer.expiry = session.expiresAt
  /\ SignedIn /\ ~timer.on => pending /\ IsExpired(session)
  /\ wait.for = "retry" =>
       /\ wait.at <= now + RetryMax
       /\ lastRead # wait.before => timer.on /\ (wait.at < timer.at \/ LastTimer)
       /\ read[rev].at = "replied" /\ read[rev].outcome = "refreshed" =>
            wait.at < read[rev].expiresAt \/ read[rev].expiresAt = caps[read[rev].cred]

IInv == TypeOK /\ RevisionsOK /\ WaasOK /\ SessionOK /\ CallsOK /\ OneForegroundRead /\ WatchOK

-----------------------------------------------------------------------------
(* Numbers *)

LEMMA Constants ==
  /\ MaxRevision \in Nat /\ MaxSignIns \in Nat /\ MaxTroubles \in Nat /\ MaxTime \in Nat
  /\ Latency \in Nat
  /\ Idle \in Nat /\ Lifetime \in Nat /\ MaxTimer \in Nat /\ Unsupported \in Nat
  /\ RetryMin \in Nat /\ RetryMax \in Nat
  /\ 0 < Idle /\ 0 < Lifetime /\ 0 < RetryMin /\ RetryMin <= RetryMax
  /\ RetryMax < Idle /\ RetryMax < MaxTimer
  /\ RetryMin \in RetryMin..RetryMax /\ 0 \in Times /\ 0 \in Creds
BY ConstantsAssumption DEF Times, Creds

LEMMA Numbers ==
  ASSUME TypeOK
  PROVE  /\ now \in Nat /\ rev \in Nat /\ rev <= MaxRevision /\ lastRead \in Nat
         /\ signIns \in Nat /\ signIns <= MaxSignIns /\ delay \in Nat
         /\ RetryMin <= delay /\ delay <= RetryMax
         /\ session.cred \in Nat /\ session.expiresAt \in Nat /\ session.ceiling \in Nat
         /\ stored.cred \in Nat /\ stored.expiresAt \in Nat /\ stored.ceiling \in Nat
         /\ timer.at \in Nat /\ timer.expiry \in Nat /\ wait.at \in Nat /\ wait.before \in Nat
         /\ \A c \in Creds : c \in Nat /\ ends[c] \in Nat /\ caps[c] \in Nat
         /\ \A r \in Revisions : r \in Nat /\ r <= MaxRevision
         /\ \A r \in Revisions : read[r].cred \in Creds /\ read[r].expiresAt \in Nat
         /\ \A o \in Ops : op[o].rev \in Nat /\ op[o].cred \in Creds
         /\ session.cred \in Creds /\ stored.cred \in Creds /\ rev \in Revisions
<1>1. /\ now \in Nat /\ rev \in Nat /\ rev <= MaxRevision /\ lastRead \in Nat /\ rev \in Revisions
      /\ signIns \in Nat /\ signIns <= MaxSignIns /\ delay \in Nat
      /\ RetryMin <= delay /\ delay <= RetryMax
  BY Constants DEF TypeOK, Revisions, Creds, Times
<1>2. /\ session.cred \in Creds /\ session.expiresAt \in Nat /\ session.ceiling \in Nat
      /\ stored.cred \in Creds /\ stored.expiresAt \in Nat /\ stored.ceiling \in Nat
  BY DEF TypeOK, Times, Session
<1>3. timer.at \in Nat /\ timer.expiry \in Nat /\ wait.at \in Nat /\ wait.before \in Nat
  BY DEF TypeOK, Times, Timer, Wait
<1>4. \A c \in Creds : c \in Nat /\ ends[c] \in Nat /\ caps[c] \in Nat
  BY Constants DEF TypeOK, Creds, Times
<1>5. \A r \in Revisions : r \in Nat /\ r <= MaxRevision
  BY Constants DEF Revisions
<1>6. \A r \in Revisions : read[r].cred \in Creds /\ read[r].expiresAt \in Nat
  BY DEF TypeOK, Read, Times
<1>7. \A o \in Ops : op[o].rev \in Revisions /\ op[o].cred \in Creds
  BY DEF TypeOK, Op
<1> QED
  BY <1>1, <1>2, <1>3, <1>4, <1>5, <1>6, <1>7

(* A timer set now fires no later than its expiry, or at the longest delay. *)
LEMMA TimerForFacts ==
  ASSUME TypeOK, NEW expiry \in Nat
  PROVE  /\ TimerFor(expiry) \in Timer
         /\ TimerFor(expiry).on /\ TimerFor(expiry).expiry = expiry
         /\ \A w \in Nat : w < expiry /\ w < now + MaxTimer => w < TimerFor(expiry).at
<1>1. Least(IF expiry > now THEN expiry - now ELSE 0, MaxTimer) \in Nat
  BY Constants, Numbers DEF Least
<1>2. now + Least(IF expiry > now THEN expiry - now ELSE 0, MaxTimer) \in Nat
  BY <1>1, Numbers
<1>3. \A w \in Nat : w < expiry /\ w < now + MaxTimer =>
        w < now + Least(IF expiry > now THEN expiry - now ELSE 0, MaxTimer)
  BY Constants, Numbers DEF Least
<1> QED
  BY <1>2, <1>3 DEF TimerFor, Timer, Times

LEMMA ReadStartedFacts ==
  ASSUME TypeOK, SignedIn
  PROVE  /\ ReadStarted \in [Revisions -> Read]
         /\ \A r \in Revisions : r # rev => ReadStarted[r] = read[r]
         /\ ReadStarted[rev].at # "none"
         /\ \/ ReadStarted[rev] = read[rev]
            \/ ReadStarted[rev].at = "signer" /\ ReadStarted[rev].cred = session.cred
<1>1. CASE read[rev].at # "none"
  BY <1>1 DEF ReadStarted, TypeOK
<1>2. CASE read[rev].at = "none"
  <2> DEFINE new == [NoRead EXCEPT !.at = "signer", !.cred = session.cred]
  <2>1. NoRead \in Read /\ session.cred \in Creds
    BY Numbers, Constants DEF NoRead, Read, Outcomes, Times, Creds
  <2>2. new \in Read /\ new.at = "signer" /\ new.cred = session.cred
    BY <2>1 DEF Read
  <2>3. ReadStarted = [read EXCEPT ![rev] = new]
    BY <1>2 DEF ReadStarted
  <2> HIDE DEF new
  <2> QED
    BY <2>2, <2>3, Numbers DEF TypeOK
<1> QED
  BY <1>1, <1>2

LEMMA NothingTypes ==
  /\ NoSession \in Session /\ NoTimer \in Timer /\ NoWait \in Wait
  /\ NoRead \in Read /\ NoOp \in Op
  /\ NoSession.cred = 0 /\ ~NoTimer.on /\ NoWait.for = "none" /\ NoRead.at = "none"
  /\ NoOp.at = "idle" /\ NoOp.rev = 0
BY Constants DEF NoSession, Session, NoTimer, Timer, NoWait, Wait, NoRead, Read, NoOp, Op, Creds,
   Times, Outcomes, Revisions, Replies

-----------------------------------------------------------------------------
(* WaaS *)

(* What WaaS keeps of the credentials that there are, in any step.          *)
Grows ==
  /\ now \in Nat /\ now' \in Nat /\ now <= now' /\ signIns' \in Nat /\ signIns <= signIns'
  /\ \A c \in Creds : c <= signIns =>
       /\ ends[c] <= ends'[c] /\ caps'[c] = caps[c]
       /\ ~Live(c) => ~Live(c)'
       /\ ends'[c] = ends[c] \/ NoneReplied
  /\ WaasOK'

LEMMA QuietGrows ==
  ASSUME IInv, UNCHANGED <<now, signIns, ends, caps, revoked>>
  PROVE  Grows
BY Numbers DEF IInv, Grows, Live, WaasOK

LEMMA TickGrows ==
  ASSUME IInv, now' = now + 1, UNCHANGED <<signIns, ends, caps, revoked>>
  PROVE  Grows
BY Numbers, Constants DEF IInv, Grows, Live, WaasOK

LEMMA RevokeGrows ==
  ASSUME IInv, NEW c \in Creds, revoked' = revoked \cup {c}, UNCHANGED <<now, signIns, ends, caps>>
  PROVE  Grows
BY Numbers DEF IInv, Grows, Live, WaasOK

(* A use moves the expiry forward, up to the cap.                           *)
LEMMA UseGrows ==
  ASSUME IInv, NEW c \in Creds, NoneReplied, ends' \in {ends, Used(c)}, ends' # ends => Live(c),
         UNCHANGED <<now, signIns, caps, revoked>>
  PROVE  Grows /\ ends' \in [Creds -> Times]
         /\ (Live(c) /\ ends' = Used(c) => ends'[c] = now + Idle \/ ends'[c] = caps[c])
<1>0. TypeOK /\ WaasOK /\ ends \in [Creds -> Nat]
  BY DEF IInv, TypeOK, Times
<1>1. CASE ends' = ends
  BY <1>0, <1>1, QuietGrows, Numbers DEF Used, Least, Times
<1>2. CASE ends' = Used(c) /\ Live(c)
  <2>1. Least(now + Idle, caps[c]) \in Nat
    BY <1>0, Numbers, Constants DEF Least
  <2>2. ends' \in [Creds -> Nat] /\ \A d \in Creds : d # c => ends'[d] = ends[d]
    BY <1>0, <1>2, <2>1 DEF Used
  <2>3. ends'[c] = Least(now + Idle, caps[c])
    BY <1>0, <1>2 DEF Used
  <2>4. ends[c] <= ends'[c] /\ ends'[c] <= caps[c] /\ ends'[c] <= now + Idle
    BY <1>0, <2>3, Numbers, Constants DEF Least, WaasOK
  <2>5. WaasOK'
    BY <1>0, <2>2, <2>4, Numbers, Constants DEF WaasOK
  <2>6. Grows
    BY <1>0, <1>2, <2>2, <2>4, <2>5, Numbers DEF Grows, Live
  <2> QED
    BY <2>2, <2>3, <2>6 DEF Least, Times
<1> QED
  BY <1>1, <1>2

-----------------------------------------------------------------------------
(* Reads and calls that a step leaves alone *)

LEMMA ReadKept ==
  ASSUME IInv, Grows, NEW r \in Revisions, read'[r] = read[r],
         r = rev' => rev' = rev /\ session'.cred = session.cred
  PROVE  ReadOK(r)'
<1>1. ReadOK(r) /\ read[r].cred \in Creds /\ read[r].cred \in Nat /\ signIns \in Nat
  BY Numbers DEF IInv, CallsOK
<1>2. read[r].at = "replied" => ~NoneReplied
  BY DEF NoneReplied
<1> QED
  BY <1>1, <1>2 DEF Grows, ReadOK

LEMMA OpKept ==
  ASSUME IInv, Grows, NEW o \in Ops, op'[o] = op[o],
         op[o].rev = rev' /\ session'.cred # 0 =>
           /\ rev' = rev /\ SignedIn /\ session'.cred = session.cred
           /\ op[o].at = "reading" => session'.expiresAt = session.expiresAt
  PROVE  OpOK(o)'
<1>1. OpOK(o) /\ op[o].cred \in Creds /\ op[o].cred \in Nat /\ signIns \in Nat
      /\ session.expiresAt \in Nat
  BY Numbers DEF IInv, CallsOK
<1> QED
  BY <1>1 DEF Grows, OpOK, SignedIn, IsExpired

-----------------------------------------------------------------------------
(* Steps of the session *)

(* The session is over: a new revision that nothing has captured.           *)
Over1 ==
  /\ rev' = rev + 1 /\ session' = NoSession
  /\ timer' = NoTimer /\ pending' = FALSE /\ wait' = NoWait

LEMMA OverInv ==
  ASSUME IInv, Over1, Grows, TypeOK', RecordOK',
         readers' \cup rejected' \subseteq 0..rev,
         \A r \in Revisions : read'[r] = read[r] \/ read'[r].at = "none",
         \A o \in Ops : op'[o] = op[o] \/ op'[o] = NoOp,
         stored'.cred # 0 => stored.cred # 0,
         unsupported' # 0 => BadRoutes
  PROVE  IInv'
<1>0. TypeOK /\ RevisionsOK /\ rev \in Nat /\ NoSession.cred = 0 /\ NoOp.rev = 0 /\ NoOp.at = "idle"
      /\ ~NoTimer.on /\ NoWait.for = "none"
  BY Numbers, NothingTypes DEF IInv
<1>1. RevisionsOK'
  <2>1. \A o \in Ops : op'[o].rev <= rev'
    BY <1>0, Numbers DEF RevisionsOK, Over1
  <2>2. \A r \in Revisions : r > rev' => read'[r].at = "none"
    BY <1>0, Numbers DEF RevisionsOK, Over1
  <2> QED
    BY <1>0, <2>1, <2>2, Constants DEF RevisionsOK, Over1, SignedIn
<1>2. SessionOK'
  BY <1>0 DEF SessionOK, Over1, SignedIn
<1>3. CallsOK'
  <2>1. ASSUME NEW r \in Revisions
        PROVE  ReadOK(r)'
    <3>1. CASE read'[r] = read[r] /\ r # rev'
      BY <3>1, ReadKept
    <3>2. CASE read'[r].at = "none"
      BY <3>2 DEF ReadOK
    <3>3. CASE read'[r] = read[r] /\ r = rev'
      BY <1>0, <3>2, <3>3 DEF RevisionsOK, Over1
    <3> QED
      BY <3>1, <3>2, <3>3
  <2>2. ASSUME NEW o \in Ops
        PROVE  OpOK(o)'
    <3>1. session'.cred = 0
      BY <1>0 DEF Over1
    <3>2. CASE op'[o] = op[o]
      BY <3>1, <3>2, OpKept
    <3>3. CASE op'[o] = NoOp
      BY <1>0, <3>3 DEF OpOK
    <3> QED
      BY <3>2, <3>3
  <2> QED
    BY <2>1, <2>2 DEF CallsOK
<1>4. rev' \notin readers'
  BY <1>0 DEF Over1
<1>5. OneForegroundRead' /\ WatchOK'
  BY <1>0, <1>4 DEF OneForegroundRead, WatchOK, Over1, SignedIn
<1> QED
  BY <1>1, <1>2, <1>3, <1>5 DEF IInv, Grows

(* The session goes on, with what is known of it.                           *)
LEMMA SameInv ==
  ASSUME IInv, Grows, TypeOK', UNCHANGED <<rev, session, stored>>,
         readers' \cup rejected' \subseteq 0..rev,
         \A r \in Revisions :
           read'[r] = read[r] \/ read'[r].at = "none" \/ (r <= rev /\ ReadOK(r)'),
         \A o \in Ops : op'[o] = op[o] \/ (op'[o].rev <= rev /\ OpOK(o)'),
         SignedIn /\ rev \in rejected' => ~Live(session.cred)',
         unsupported' # 0 => BadRoutes,
         OneForegroundRead', WatchOK'
  PROVE  IInv'
<1>0. TypeOK /\ RevisionsOK /\ rev \in Nat /\ SessionOK /\ signIns \in Nat
  BY Numbers DEF IInv
<1>1. RevisionsOK'
  BY <1>0, Numbers DEF RevisionsOK, SignedIn
<1>2. CallsOK'
  <2>1. ASSUME NEW r \in Revisions
        PROVE  ReadOK(r)'
    <3>1. CASE read'[r].at = "none"
      BY <3>1 DEF ReadOK
    <3> QED
      BY <3>1, ReadKept
  <2>2. ASSUME NEW o \in Ops
        PROVE  OpOK(o)'
    <3>1. CASE op'[o] = op[o]
      BY <3>1, OpKept DEF SignedIn
    <3> QED
      BY <3>1
  <2> QED
    BY <2>1, <2>2 DEF CallsOK
<1>3. SessionOK'
  <2>1. stored.cred \in Creds /\ stored.cred \in Nat /\ session.cred \in Creds /\ session.cred \in Nat
        /\ stored.expiresAt \in Nat /\ session.expiresAt \in Nat
        /\ \A c \in Creds : ends[c] \in Nat
    BY <1>0, Numbers
  <2>2. \A c \in Creds : ends'[c] \in Nat
    BY DEF TypeOK, Times
  <2>3. RecordOK'
    BY <1>0, <2>1, <2>2 DEF SessionOK, RecordOK, Grows
  <2>4. SignedIn => session.cred <= signIns
    BY <1>0 DEF SessionOK, RecordOK, SignedIn
  <2>5. SignedIn => session.expiresAt <= ends'[session.cred]
    BY <1>0, <2>1, <2>2, <2>4 DEF SessionOK, Grows
  <2> QED
    BY <1>0, <2>3, <2>5 DEF SessionOK, SignedIn
<1> QED
  BY <1>1, <1>2, <1>3 DEF IInv, Grows

(* What watches the session is left alone.                                  *)
LEMMA WatchKept ==
  ASSUME IInv, Grows, UNCHANGED <<rev, session, lastRead, timer, pending, wait, readers>>,
         rev \in readers => read'[rev].at # "none",
         \/ read'[rev] = read[rev]
         \/ read'[rev].at # "replied" \/ read'[rev].outcome # "refreshed"
         \/ wait.for = "retry" =>
              wait.at < read'[rev].expiresAt \/ read'[rev].expiresAt = caps'[read'[rev].cred]
  PROVE  OneForegroundRead' /\ WatchOK'
<1>0. TypeOK /\ OneForegroundRead /\ WatchOK /\ rev \in Nat /\ rev \in Revisions /\ wait.at \in Nat
      /\ now \in Nat /\ now' \in Nat /\ now <= now' /\ session.expiresAt \in Nat
      /\ RetryMax \in Nat
  BY Numbers, Constants DEF IInv, Grows
<1>1. OneForegroundRead'
  BY <1>0 DEF OneForegroundRead
<1>2. /\ timer' = timer /\ session' = session /\ wait' = wait /\ pending' = pending
      /\ rev' = rev /\ lastRead' = lastRead
  OBVIOUS
<1>3. /\ timer.on \/ pending => SignedIn
      /\ timer.on => timer.expiry = session.expiresAt
      /\ SignedIn /\ ~timer.on => pending /\ IsExpired(session)'
  BY <1>0, <1>2 DEF WatchOK, IsExpired
<1>4. wait.for = "retry" =>
        /\ wait.at <= now' + RetryMax
        /\ lastRead # wait.before => timer.on /\ (wait.at < timer.at \/ LastTimer)
  BY <1>0 DEF WatchOK
<1>5. wait.for = "retry" /\ read'[rev].at = "replied" /\ read'[rev].outcome = "refreshed" =>
        wait.at < read'[rev].expiresAt \/ read'[rev].expiresAt = caps'[read'[rev].cred]
  <2>1. CASE read'[rev] = read[rev]
    <3>1. read[rev].at = "replied" => read[rev].cred \in Creds /\ read[rev].cred <= signIns
      BY <1>0, Numbers DEF IInv, CallsOK, ReadOK
    <3> QED
      BY <1>0, <2>1, <3>1 DEF WatchOK, Grows
  <2> QED
    BY <2>1
<1> QED
  BY <1>1, <1>2, <1>3, <1>4, <1>5 DEF WatchOK, SignedIn, LastTimer

-----------------------------------------------------------------------------
(* The end of a session, and its foreground reads *)

MemoryTypes ==
  /\ rev \in Revisions /\ session \in Session /\ lastRead \in Times /\ timer \in Timer
  /\ pending \in BOOLEAN /\ wait \in Wait /\ delay \in RetryMin..RetryMax /\ replay \in Creds
  /\ stored \in Session /\ key \in Creds
CallTypes == read \in [Revisions -> Read] /\ readers \subseteq Revisions /\ op \in [Ops -> Op]
OtherTypes ==
  /\ now \in Times /\ visible \in BOOLEAN /\ unsupported \in Times /\ rejected \subseteq Revisions
  /\ signIns \in Creds /\ ends \in [Creds -> Times] /\ caps \in [Creds -> Times]
  /\ revoked \subseteq Creds /\ troubles \in Nat

LEMMA AllTypes ==
  /\ TypeOK <=> MemoryTypes /\ CallTypes /\ OtherTypes
  /\ TypeOK' <=> MemoryTypes' /\ CallTypes' /\ OtherTypes'
BY DEF TypeOK, MemoryTypes, CallTypes, OtherTypes

LEMMA KeepFacts ==
  ASSUME IInv, Keep
  PROVE  /\ MemoryTypes' /\ TypeOK /\ MemoryTypes /\ CallTypes /\ OtherTypes
         /\ UNCHANGED <<rev, session, lastRead, timer, pending, wait, delay, replay, stored, key>>
BY AllTypes DEF IInv, Keep, memory, waiting, kept, MemoryTypes

LEMMA RevisionFacts ==
  ASSUME IInv
  PROVE  /\ readers \cup rejected \subseteq 0..rev /\ (unsupported # 0 => BadRoutes)
         /\ RecordOK /\ (SignedIn /\ rev \in rejected => ~Live(session.cred))
         /\ SignedIn => session.cred \in 1..signIns /\ session.cred \in Creds /\ rev + 1 \in Revisions
         /\ (rev \in readers => pending) /\ (wait.for # "none" => pending)
         /\ (pending => SignedIn)
<1>0. TypeOK /\ RevisionsOK /\ SessionOK /\ OneForegroundRead /\ WatchOK
  BY DEF IInv
<1>1. /\ readers \cup rejected \subseteq 0..rev /\ (unsupported # 0 => BadRoutes)
      /\ RecordOK /\ (SignedIn /\ rev \in rejected => ~Live(session.cred))
  BY <1>0 DEF RevisionsOK, SessionOK
<1>2. SignedIn => session.cred \in 1..signIns /\ session.cred \in Creds
  BY <1>0, Numbers DEF SessionOK, RecordOK, SignedIn
<1>3. SignedIn => rev + 1 \in Revisions
  BY <1>0, Numbers, Constants DEF RevisionsOK, Revisions
<1>4. (rev \in readers => pending) /\ (wait.for # "none" => pending) /\ (pending => SignedIn)
  BY <1>0 DEF OneForegroundRead, WatchOK
<1> QED
  BY <1>1, <1>2, <1>3, <1>4

LEMMA ExpireInv ==
  ASSUME IInv, SignedIn, Expire, UNCHANGED <<now, signIns, ends, caps, revoked>>,
         CallTypes', OtherTypes',
         readers' \cup rejected' \subseteq 0..rev,
         \A r \in Revisions : read'[r] = read[r] \/ read'[r].at = "none",
         \A o \in Ops : op'[o] = op[o] \/ op'[o] = NoOp,
         unsupported' # 0 => BadRoutes
  PROVE  IInv'
<1>1. Over1 /\ stored' = stored /\ rev + 1 \in Revisions
  BY RevisionFacts DEF Expire, Reset, Over1
<1>2. TypeOK'
  <2>1. TypeOK
    BY DEF IInv
  <2>2. key' \in Creds /\ replay' \in Creds /\ lastRead' = 0 /\ delay' = RetryMin
    BY <2>1, Numbers, Constants DEF Expire, Reset, TypeOK, Creds
  <2>3. MemoryTypes'
    BY <1>1, <2>1, <2>2, Constants, NothingTypes DEF MemoryTypes, Over1, TypeOK
  <2> QED
    BY <2>3, AllTypes
<1>3. Grows
  BY QuietGrows
<1>4. RecordOK'
  BY <1>1, RevisionFacts DEF RecordOK
<1> QED
  BY <1>1, <1>2, <1>3, <1>4, OverInv

(* A read that is begun is of the session's credential.                     *)
LEMMA StartedOK ==
  ASSUME IInv, SignedIn, read' = ReadStarted, UNCHANGED <<now, rev, session, signIns, ends, revoked>>
  PROVE  /\ read' \in [Revisions -> Read] /\ read'[rev].at # "none"
         /\ \A r \in Revisions : read'[r] = read[r] \/ (r <= rev /\ ReadOK(r)')
         /\ read'[rev] = read[rev] \/ read'[rev].at = "signer"
<1>0. TypeOK /\ rev \in Nat /\ session.cred \in 1..signIns /\ rev \in Revisions
  BY RevisionFacts, Numbers DEF IInv
<1>1. ASSUME NEW r \in Revisions, read'[r] # read[r]
      PROVE  r <= rev /\ ReadOK(r)'
  <2>1. r = rev /\ read'[r].at = "signer" /\ read'[r].cred = session.cred
    BY <1>0, <1>1, ReadStartedFacts
  <2> QED
    BY <1>0, <2>1, Numbers DEF ReadOK
<1> QED
  BY <1>0, <1>1, ReadStartedFacts

LEMMA ReadExpiryInv ==
  ASSUME IInv, SignedIn, NEW tm, ReadExpiry(tm), rev \notin readers,
         tm = timer \/ (tm = NoTimer /\ IsExpired(session) /\ ~IsUnsupported),
         visible' \in BOOLEAN, UNCHANGED <<now, op, answers, waas, troubles>>
  PROVE  IInv'
<1>0. TypeOK /\ MemoryTypes /\ CallTypes /\ OtherTypes /\ rev \in Nat /\ WatchOK /\ OneForegroundRead
  BY AllTypes, Numbers DEF IInv
<1>1. /\ UNCHANGED <<now, signIns, ends, caps, revoked>> /\ UNCHANGED <<unsupported, rejected>>
      /\ OtherTypes' /\ op' = op /\ Grows
  BY <1>0, QuietGrows DEF answers, waas, OtherTypes
<1>2. readers \cup rejected' \subseteq 0..rev /\ (unsupported' # 0 => BadRoutes)
  BY <1>1, RevisionFacts
<1>3. CASE IsUnsupported /\ IsExpired(session) /\ Expire /\ UNCHANGED <<read, readers>>
  BY <1>0, <1>1, <1>2, <1>3, ExpireInv DEF CallTypes
<1>4. ASSUME /\ read' = ReadStarted /\ readers' = readers \cup {rev} /\ pending' = TRUE
             /\ wait' = NoWait /\ timer' = tm
             /\ UNCHANGED <<rev, session, lastRead, delay, replay, kept>>
      PROVE  IInv'
  <2>1. /\ read' \in [Revisions -> Read] /\ read'[rev].at # "none"
        /\ \A r \in Revisions : read'[r] = read[r] \/ (r <= rev /\ ReadOK(r)')
    BY <1>1, <1>4, StartedOK
  <2>2. stored' = stored /\ key' = key
    BY <1>4 DEF kept
  <2>3. TypeOK'
    <3>1. MemoryTypes'
      BY <1>0, <1>4, <2>2, NothingTypes DEF MemoryTypes
    <3>2. CallTypes'
      BY <1>0, <1>1, <1>4, <2>1, Numbers DEF CallTypes
    <3> QED
      BY <1>1, <3>1, <3>2, AllTypes
  <2>4. OneForegroundRead'
    BY <1>4, <2>1, NothingTypes DEF OneForegroundRead
  <2>5. WatchOK'
    BY <1>0, <1>1, <1>4, NothingTypes DEF WatchOK, SignedIn, IsExpired
  <2>6. readers' \cup rejected' \subseteq 0..rev
    BY <1>0, <1>2, <1>4
  <2>7. SignedIn /\ rev \in rejected' => ~Live(session.cred)'
    BY <1>1, <1>4, RevisionFacts DEF Live
  <2>8. UNCHANGED <<rev, session, stored>> /\ \A o \in Ops : op'[o] = op[o]
    BY <1>1, <1>4, <2>2
  <2> QED
    BY <1>1, <1>2, <2>1, <2>3, <2>4, <2>5, <2>6, <2>7, <2>8, SameInv
<1>5. ASSUME /\ IsUnsupported /\ ~IsExpired(session)
             /\ pending' = FALSE /\ wait' = NoWait /\ delay' = RetryMin /\ timer' = tm
             /\ UNCHANGED <<rev, session, lastRead, replay, kept, read, readers>>
      PROVE  IInv'
  <2>1. stored' = stored /\ key' = key /\ timer' = timer /\ timer.on
    BY <1>0, <1>5 DEF kept, WatchOK
  <2>2. TypeOK'
    <3>1. MemoryTypes'
      BY <1>0, <1>5, <2>1, NothingTypes, Constants DEF MemoryTypes
    <3>2. CallTypes'
      BY <1>0, <1>1, <1>5 DEF CallTypes
    <3> QED
      BY <1>1, <3>1, <3>2, AllTypes
  <2>3. OneForegroundRead'
    BY <1>5, NothingTypes DEF OneForegroundRead
  <2>4. WatchOK'
    BY <1>0, <1>5, <2>1, NothingTypes DEF WatchOK, SignedIn
  <2>5. SignedIn /\ rev \in rejected' => ~Live(session.cred)'
    BY <1>1, <1>5, RevisionFacts DEF Live
  <2>6. readers' \cup rejected' \subseteq 0..rev
    BY <1>2, <1>5
  <2>7. /\ UNCHANGED <<rev, session, stored>>
        /\ (\A o \in Ops : op'[o] = op[o]) /\ \A r \in Revisions : read'[r] = read[r]
    BY <1>1, <1>5, <2>1
  <2> QED
    BY <1>1, <1>2, <2>2, <2>3, <2>4, <2>5, <2>6, <2>7, SameInv
<1> QED
  BY <1>3, <1>4, <1>5 DEF ReadExpiry

LEMMA ReadInForegroundInv ==
  ASSUME IInv, SignedIn, NEW tm, ReadInForeground(tm), rev \notin readers,
         tm = timer \/ (tm = NoTimer /\ IsExpired(session) /\ ~IsUnsupported),
         UNCHANGED <<now, visible, op, answers, waas, troubles>>
  PROVE  IInv'
<1>0. TypeOK /\ MemoryTypes /\ CallTypes /\ OtherTypes /\ rev \in Nat /\ WatchOK /\ OneForegroundRead
  BY AllTypes, Numbers DEF IInv
<1>1. CASE ReadExpiry(tm)
  BY <1>0, <1>1, ReadExpiryInv DEF OtherTypes
<1>2. ASSUME /\ pending' = TRUE /\ wait' = [NoWait EXCEPT !.for = "foreground"] /\ timer' = tm
             /\ UNCHANGED <<rev, session, lastRead, delay, replay, kept, read, readers>>
      PROVE  IInv'
  <2>1. /\ UNCHANGED <<now, signIns, ends, caps, revoked>> /\ UNCHANGED <<unsupported, rejected>>
        /\ OtherTypes' /\ op' = op /\ Grows /\ stored' = stored /\ key' = key
    BY <1>0, <1>2, QuietGrows DEF answers, waas, OtherTypes, kept
  <2>2. wait' \in Wait /\ wait'.for = "foreground"
    BY <1>2 DEF NoWait, Wait, Times
  <2>3. TypeOK'
    <3>1. MemoryTypes'
      BY <1>0, <1>2, <2>1, <2>2, NothingTypes DEF MemoryTypes
    <3>2. CallTypes'
      BY <1>0, <1>2, <2>1 DEF CallTypes
    <3> QED
      BY <2>1, <3>1, <3>2, AllTypes
  <2>4. OneForegroundRead'
    BY <1>2, <2>2 DEF OneForegroundRead
  <2>5. WatchOK'
    BY <1>0, <1>2, <2>1, <2>2, NothingTypes DEF WatchOK, SignedIn, IsExpired
  <2>6. SignedIn /\ rev \in rejected' => ~Live(session.cred)'
    BY <1>2, <2>1, RevisionFacts DEF Live
  <2>7. readers' \cup rejected' \subseteq 0..rev /\ (unsupported' # 0 => BadRoutes)
    BY <1>2, <2>1, RevisionFacts
  <2>8. /\ UNCHANGED <<rev, session, stored>>
        /\ (\A o \in Ops : op'[o] = op[o]) /\ \A r \in Revisions : read'[r] = read[r]
    BY <1>2, <2>1
  <2> QED
    BY <2>1, <2>3, <2>4, <2>5, <2>6, <2>7, <2>8, SameInv
<1> QED
  BY <1>1, <1>2 DEF ReadInForeground

(* The session is left alone.                                               *)
LEMMA KeepInv ==
  ASSUME IInv, Keep, Grows, CallTypes', OtherTypes', UNCHANGED readers, rejected' \subseteq 0..rev,
         \A r \in Revisions :
           \/ read'[r] = read[r]
           \/ r <= rev /\ ReadOK(r)' /\ read'[r].at # "none"
           \/ r \notin readers /\ read'[r].at = "none",
         \A o \in Ops : op'[o] = op[o] \/ (op'[o].rev <= rev /\ OpOK(o)'),
         SignedIn /\ rev \in rejected' => ~Live(session.cred)',
         unsupported' # 0 => BadRoutes,
         \/ read'[rev] = read[rev]
         \/ read'[rev].at # "replied" \/ read'[rev].outcome # "refreshed"
         \/ wait.for = "retry" =>
              wait.at < read'[rev].expiresAt \/ read'[rev].expiresAt = caps'[read'[rev].cred]
  PROVE  IInv'
<1>1. /\ MemoryTypes' /\ TypeOK
      /\ UNCHANGED <<rev, session, lastRead, timer, pending, wait, delay, replay, stored, key>>
  BY KeepFacts
<1>2. TypeOK'
  BY <1>1, AllTypes
<1>3. rev \in Revisions /\ (rev \in readers => read[rev].at # "none")
  BY <1>1, Numbers DEF IInv, OneForegroundRead
<1>4. OneForegroundRead' /\ WatchOK'
  BY <1>1, <1>3, WatchKept
<1>5. /\ readers' \cup rejected' \subseteq 0..rev
      /\ \A r \in Revisions :
           read'[r] = read[r] \/ read'[r].at = "none" \/ (r <= rev /\ ReadOK(r)')
  BY RevisionFacts
<1> QED
  BY <1>1, <1>2, <1>4, <1>5, SameInv

LEMMA HideTickRevokeInv ==
  ASSUME IInv, Hide \/ Tick \/ Revoke
  PROVE  IInv'
<1>1. Keep /\ UNCHANGED <<read, readers, op>> /\ UNCHANGED <<unsupported, rejected, troubles>>
  BY DEF Hide, Tick, Revoke, calls, answers
<1>2. CallTypes /\ OtherTypes /\ TypeOK
  BY <1>1, KeepFacts
<1>3. Grows /\ OtherTypes'
  <2>1. CASE Hide
    BY <1>1, <1>2, <2>1, QuietGrows DEF Hide, waas, OtherTypes
  <2>2. CASE Tick
    BY <1>1, <1>2, <2>2, TickGrows DEF Tick, waas, OtherTypes, Times
  <2>3. CASE Revoke
    <3>1. session.cred \in Creds
      BY <1>2, Numbers
    <3> QED
      BY <1>1, <1>2, <2>3, <3>1, RevokeGrows DEF Revoke, OtherTypes
  <2> QED
    BY <2>1, <2>2, <2>3
<1>4. CallTypes'
  BY <1>1, <1>2 DEF CallTypes
<1>5. SignedIn /\ rev \in rejected' => ~Live(session.cred)'
  <2>1. UNCHANGED session
    BY <1>1, KeepFacts
  <2> QED
    BY <1>1, <1>2, <1>3, <2>1, RevisionFacts, Numbers DEF Grows
<1>6. (unsupported' # 0 => BadRoutes) /\ rejected' \subseteq 0..rev
  BY <1>1, RevisionFacts
<1> QED
  BY <1>1, <1>3, <1>4, <1>5, <1>6, KeepInv

LEMMA TimerFiresInv ==
  ASSUME IInv, TimerFires
  PROVE  IInv'
<1>0. TypeOK /\ MemoryTypes /\ CallTypes /\ OtherTypes /\ WatchOK /\ OneForegroundRead /\ rev \in Nat
      /\ now \in Nat /\ session.ceiling \in Nat /\ session.expiresAt \in Nat /\ wait.at \in Nat
      /\ timer.at \in Nat
  BY AllTypes, Numbers DEF IInv
<1>1. /\ UNCHANGED <<now, visible, op, answers, waas, troubles>>
      /\ UNCHANGED <<now, signIns, ends, caps, revoked>> /\ UNCHANGED <<unsupported, rejected>>
      /\ OtherTypes' /\ op' = op /\ Grows
  BY <1>0, QuietGrows DEF TimerFires, answers, waas, OtherTypes
<1>2. SignedIn /\ timer.expiry = session.expiresAt /\ timer.on
      /\ (wait.for = "retry" => timer.at <= wait.at)
  BY <1>0 DEF TimerFires, WatchOK
<1>3. readers \cup rejected' \subseteq 0..rev /\ (unsupported' # 0 => BadRoutes)
      /\ (SignedIn /\ rev \in rejected' => ~Live(session.cred))
  BY <1>1, RevisionFacts
<1>4. CASE Expire /\ UNCHANGED <<read, readers>>
  BY <1>0, <1>1, <1>2, <1>3, <1>4, ExpireInv DEF CallTypes
<1>5. CASE TimerActs /\ IsExpired(session) /\ ~EndsUnasked /\ ReadInForeground(NoTimer)
  <2>1. ~pending /\ rev \notin readers /\ ~IsUnsupported
    BY <1>5, RevisionFacts DEF TimerActs, EndsUnasked
  <2> QED
    BY <1>1, <1>2, <1>5, <2>1, ReadInForegroundInv
<1>6. ASSUME NEW tm \in Timer, timer' = tm,
             UNCHANGED <<rev, session, lastRead, pending, wait, delay, replay, kept, read, readers>>,
             \/ tm.on /\ tm.expiry = session.expiresAt /\ ~IsExpired(session)
             \/ ~tm.on /\ IsExpired(session) /\ ~EndsUnasked /\ pending
      PROVE  IInv'
  <2>1. stored' = stored /\ key' = key
    BY <1>6 DEF kept
  <2>2. TypeOK'
    <3>1. MemoryTypes'
      BY <1>0, <1>6, <2>1 DEF MemoryTypes
    <3>2. CallTypes'
      BY <1>0, <1>1, <1>6 DEF CallTypes
    <3> QED
      BY <1>1, <3>1, <3>2, AllTypes
  <2>3. OneForegroundRead'
    BY <1>0, <1>6 DEF OneForegroundRead
  <2>4. wait.for = "retry" /\ lastRead # wait.before => LastTimer
    BY <1>0, <1>2 DEF WatchOK
  <2>5. LastTimer /\ IsExpired(session) => EndsUnasked
    BY <1>0 DEF LastTimer, IsExpired, EndsUnasked, PastCap
  <2>6. WatchOK'
    BY <1>0, <1>1, <1>2, <1>6, <2>4, <2>5 DEF WatchOK, SignedIn, IsExpired, LastTimer
  <2>7. SignedIn /\ rev \in rejected' => ~Live(session.cred)'
    BY <1>1, <1>3, <1>6 DEF Live
  <2>8. /\ UNCHANGED <<rev, session, stored>> /\ readers' \cup rejected' \subseteq 0..rev
        /\ (\A o \in Ops : op'[o] = op[o]) /\ \A r \in Revisions : read'[r] = read[r]
    BY <1>1, <1>3, <1>6, <2>1
  <2> QED
    BY <1>1, <1>3, <2>2, <2>3, <2>6, <2>7, <2>8, SameInv
<1>7. CASE /\ TimerActs /\ ~IsExpired(session) /\ timer' = TimerFor(session.expiresAt)
           /\ UNCHANGED <<rev, session, lastRead, pending, wait, delay, replay, kept, read, readers>>
  <2>1. /\ TimerFor(session.expiresAt) \in Timer /\ TimerFor(session.expiresAt).on
        /\ TimerFor(session.expiresAt).expiry = session.expiresAt
    BY <1>0, TimerForFacts
  <2> QED
    BY <1>6, <1>7, <2>1
<1>8. CASE /\ ~TimerActs /\ timer' = NoTimer
           /\ UNCHANGED <<rev, session, lastRead, pending, wait, delay, replay, kept, read, readers>>
  <2>1. IsExpired(session) /\ ~EndsUnasked /\ pending
    BY <1>2, <1>8 DEF TimerActs, TimerIsCurrent
  <2> QED
    BY <1>6, <1>8, <2>1, NothingTypes
<1> QED
  BY <1>4, <1>5, <1>7, <1>8 DEF TimerFires

LEMMA RetryDueInv ==
  ASSUME IInv, RetryDue
  PROVE  IInv'
<1>0. TypeOK /\ MemoryTypes /\ CallTypes /\ OtherTypes /\ WatchOK /\ OneForegroundRead /\ rev \in Nat
  BY AllTypes, Numbers DEF IInv
<1>1. /\ UNCHANGED <<now, visible, op, answers, waas, troubles>>
      /\ UNCHANGED <<now, signIns, ends, caps, revoked>> /\ UNCHANGED <<unsupported, rejected>>
      /\ OtherTypes' /\ op' = op /\ Grows /\ wait.for = "retry"
  BY <1>0, QuietGrows DEF RetryDue, answers, waas, OtherTypes
<1>2. SignedIn /\ rev \notin readers
  BY <1>0, <1>1, RevisionFacts DEF OneForegroundRead
<1>3. CASE ReadInForeground(timer)
  BY <1>1, <1>2, <1>3, ReadInForegroundInv
<1>4. ASSUME lastRead # wait.before, pending' = FALSE, wait' = NoWait,
             UNCHANGED <<rev, session, lastRead, timer, delay, replay, kept, read, readers>>
      PROVE  IInv'
  <2>1. stored' = stored /\ key' = key
    BY <1>4 DEF kept
  <2>2. TypeOK'
    <3>1. MemoryTypes'
      BY <1>0, <1>4, <2>1, NothingTypes DEF MemoryTypes
    <3>2. CallTypes'
      BY <1>0, <1>1, <1>4 DEF CallTypes
    <3> QED
      BY <1>1, <3>1, <3>2, AllTypes
  <2>3. OneForegroundRead'
    BY <1>2, <1>4, NothingTypes DEF OneForegroundRead
  <2>4. timer.on
    BY <1>0, <1>1, <1>4 DEF WatchOK
  <2>5. WatchOK'
    BY <1>0, <1>4, <2>4, NothingTypes DEF WatchOK, SignedIn
  <2>6. /\ SignedIn /\ rev \in rejected' => ~Live(session.cred)'
        /\ unsupported' # 0 => BadRoutes
        /\ readers' \cup rejected' \subseteq 0..rev
    BY <1>1, <1>4, RevisionFacts DEF Live
  <2>7. /\ UNCHANGED <<rev, session, stored>>
        /\ (\A o \in Ops : op'[o] = op[o]) /\ \A r \in Revisions : read'[r] = read[r]
    BY <1>1, <1>4, <2>1
  <2> QED
    BY <1>1, <2>2, <2>3, <2>5, <2>6, <2>7, SameInv
<1> QED
  BY <1>3, <1>4 DEF RetryDue

LEMMA ShowInv ==
  ASSUME IInv, Show
  PROVE  IInv'
<1>0. TypeOK /\ CallTypes /\ OtherTypes /\ OneForegroundRead
  BY AllTypes DEF IInv
<1>1. /\ UNCHANGED <<now, op, answers, waas, troubles>> /\ visible' \in BOOLEAN
      /\ UNCHANGED <<now, signIns, ends, caps, revoked>> /\ UNCHANGED <<unsupported, rejected>>
      /\ OtherTypes' /\ op' = op /\ Grows
  BY <1>0, QuietGrows DEF Show, answers, waas, OtherTypes
<1>2. CASE wait.for = "foreground" /\ ReadExpiry(timer)
  <2>1. SignedIn /\ rev \notin readers
    BY <1>0, <1>2, RevisionFacts DEF OneForegroundRead
  <2> QED
    BY <1>1, <1>2, <2>1, ReadExpiryInv
<1>3. CASE Keep /\ UNCHANGED <<read, readers>>
  <2>1. SignedIn /\ rev \in rejected' => ~Live(session.cred)'
    <3>1. UNCHANGED session
      BY <1>3, KeepFacts
    <3> QED
      BY <1>1, <3>1, RevisionFacts DEF Live
  <2>2. (unsupported' # 0 => BadRoutes) /\ rejected' \subseteq 0..rev
    BY <1>1, RevisionFacts
  <2>3. CallTypes'
    BY <1>0, <1>1, <1>3 DEF CallTypes
  <2> QED
    BY <1>1, <1>3, <2>1, <2>2, <2>3, KeepInv
<1> QED
  BY <1>2, <1>3 DEF Show

-----------------------------------------------------------------------------
(* The end of a read *)

LEMMA GiveUpFacts ==
  ASSUME TypeOK, NEW r \in Revisions, op' = OpsGiveUp(r)
  PROVE  /\ op' \in [Ops -> Op]
         /\ \A o \in Ops : op'[o] = op[o] \/ op'[o] = NoOp
         /\ \A o \in Ops : op[o].at = "reading" /\ op[o].rev = r => op'[o] = NoOp
<1>1. op' = [o \in Ops |-> IF o \in OpsReading(r) THEN NoOp ELSE op[o]]
  BY DEF OpsGiveUp, OpsAfter
<1> QED
  BY <1>1, NothingTypes DEF OpsReading, TypeOK

LEMMA GoOnFacts ==
  ASSUME TypeOK, NEW r \in Revisions, op' = OpsGoOn(r)
  PROVE  /\ op' \in [Ops -> Op]
         /\ \A o \in Ops :
              \/ op'[o] = op[o] /\ ~(op[o].at = "reading" /\ op[o].rev = r)
              \/ /\ op[o].at = "reading" /\ op'[o].at = "sent"
                 /\ op'[o].rev = op[o].rev /\ op'[o].cred = op[o].cred
<1>1. op' = [o \in Ops |-> IF o \in OpsReading(r) THEN [op[o] EXCEPT !.at = "sent"] ELSE op[o]]
  BY DEF OpsGoOn, OpsAfter
<1>2. ASSUME NEW o \in Ops
      PROVE  /\ [op[o] EXCEPT !.at = "sent"] \in Op
             /\ [op[o] EXCEPT !.at = "sent"].at = "sent"
             /\ [op[o] EXCEPT !.at = "sent"].rev = op[o].rev
             /\ [op[o] EXCEPT !.at = "sent"].cred = op[o].cred
  BY DEF TypeOK, Op
<1> QED
  BY <1>1, <1>2 DEF OpsReading, TypeOK

LEMMA ReadOverFacts ==
  ASSUME IInv, NEW r \in Revisions, ReadOver(r)
  PROVE  /\ read' \in [Revisions -> Read] /\ readers' \subseteq Revisions
         /\ readers' \subseteq 0..rev /\ read'[r].at = "none"
         /\ \A s \in Revisions : s # r => read'[s] = read[s]
         /\ \A s \in Revisions : s \in readers' <=> s \in readers /\ s # r
<1>1. readers \subseteq 0..rev /\ TypeOK
  BY RevisionFacts DEF IInv
<1> QED
  BY <1>1, NothingTypes DEF ReadOver, TypeOK

(* A read ends, and the session goes on: it is still watched.               *)
LEMMA ReadOverInv ==
  ASSUME IInv, NEW r \in Revisions, r = rev, ReadOver(r), SignedIn,
         MemoryTypes', OtherTypes', op' \in [Ops -> Op],
         UNCHANGED <<now, signIns, ends, caps, revoked, rejected>>,
         UNCHANGED <<rev, session, stored, lastRead, timer>>,
         \A o \in Ops : op'[o] = op[o] \/ op'[o] = NoOp,
         unsupported' # 0 => BadRoutes,
         \/ r \in readers /\ pending' = TRUE /\ wait'.for = "retry" /\ wait'.before = lastRead
            /\ wait'.at <= now + RetryMax
         \/ r \in readers /\ pending' = FALSE /\ wait' = wait /\ ~IsExpired(session)
         \/ r \notin readers /\ pending' = pending /\ wait' = wait
  PROVE  IInv'
<1>0. TypeOK /\ OneForegroundRead /\ WatchOK /\ rev \in Nat /\ 0 <= rev
  BY Numbers DEF IInv
<1>1. /\ CallTypes' /\ readers' \subseteq 0..rev /\ read'[r].at = "none" /\ r \notin readers'
      /\ \A s \in Revisions : s # r => read'[s] = read[s]
  BY ReadOverFacts DEF CallTypes
<1>2. TypeOK' /\ Grows
  BY <1>1, AllTypes, QuietGrows
<1>3. OneForegroundRead'
  BY <1>0, <1>1 DEF OneForegroundRead
<1>4. WatchOK'
  BY <1>0, <1>1 DEF WatchOK, OneForegroundRead, SignedIn, IsExpired, LastTimer
<1>5. \A s \in Revisions : read'[s] = read[s] \/ read'[s].at = "none"
  BY <1>1
<1>6. \A o \in Ops : op'[o] = op[o] \/ (op'[o].rev <= rev /\ OpOK(o)')
  BY <1>0, NothingTypes DEF OpOK
<1>7. readers' \cup rejected' \subseteq 0..rev /\ (SignedIn /\ rev \in rejected' => ~Live(session.cred)')
  BY <1>1, RevisionFacts DEF Live
<1> QED
  BY <1>2, <1>3, <1>4, <1>5, <1>6, <1>7, SameInv

LEMMA CurrentFacts ==
  ASSUME IInv, NEW r \in Revisions, read[r].at # "none", IsCurrent(r)
  PROVE  r = rev /\ SignedIn /\ read[r].cred = session.cred /\ session.cred <= signIns
<1>1. 0 < read[r].cred /\ read[r].cred \in Creds /\ read[r].cred <= signIns /\ TypeOK
  BY Numbers DEF IInv, CallsOK, ReadOK
<1> QED
  BY <1>1, Numbers DEF IsCurrent, SignedIn

LEMMA ReadStaleInv ==
  ASSUME IInv, NEW r \in Revisions, read[r].at # "none", ReadStale(r), ReadOver(r), OtherTypes',
         UNCHANGED <<now, signIns, ends, caps, revoked, rejected>>, unsupported' # 0 => BadRoutes
  PROVE  IInv'
<1>0. TypeOK /\ Keep /\ OneForegroundRead /\ WatchOK /\ rev \in Nat /\ 0 <= rev /\ CallsOK
      /\ rev \in Revisions
  BY Numbers DEF IInv, ReadStale
<1>1. /\ CallTypes' /\ readers' \subseteq 0..rev /\ read'[r].at = "none"
      /\ \A s \in Revisions : s # r => read'[s] = read[s]
      /\ \A s \in Revisions : s \in readers' <=> s \in readers /\ s # r
  BY <1>0, ReadOverFacts, GiveUpFacts DEF CallTypes, ReadStale
<1>2. /\ MemoryTypes'
      /\ UNCHANGED <<rev, session, lastRead, timer, pending, wait, delay, replay, stored, key>>
  BY <1>0, KeepFacts
<1>3. TypeOK' /\ Grows
  BY <1>1, <1>2, AllTypes, QuietGrows
<1>4. r # rev
  BY <1>0 DEF ReadStale, IsCurrent, CallsOK, ReadOK
<1>5. read'[rev] = read[rev] /\ (rev \in readers' <=> rev \in readers)
  BY <1>0, <1>1, <1>4
<1>6. OneForegroundRead'
  BY <1>0, <1>2, <1>5 DEF OneForegroundRead
<1>7. WatchOK'
  BY <1>0, <1>2, <1>5 DEF WatchOK, SignedIn, IsExpired, LastTimer
<1>8. \A s \in Revisions : read'[s] = read[s] \/ read'[s].at = "none"
  BY <1>1
<1>9. \A o \in Ops : op'[o] = op[o] \/ (op'[o].rev <= rev /\ OpOK(o)')
  BY <1>0, GiveUpFacts, NothingTypes DEF OpOK, ReadStale
<1>10. readers' \cup rejected' \subseteq 0..rev /\ (SignedIn /\ rev \in rejected' => ~Live(session.cred)')
  BY <1>1, <1>2, RevisionFacts DEF Live
<1> QED
  BY <1>2, <1>3, <1>6, <1>7, <1>8, <1>9, <1>10, SameInv

(* A read that ends the session.                                            *)
LEMMA ReadExpiresInv ==
  ASSUME IInv, NEW r \in Revisions, ReadOver(r), SignedIn, Expire, op' = OpsGiveUp(r), OtherTypes',
         UNCHANGED <<now, signIns, ends, caps, revoked, rejected>>, unsupported' # 0 => BadRoutes
  PROVE  IInv'
<1>0. TypeOK
  BY DEF IInv
<1>1. /\ CallTypes' /\ readers' \subseteq 0..rev
      /\ \A s \in Revisions : read'[s] = read[s] \/ read'[s].at = "none"
      /\ \A o \in Ops : op'[o] = op[o] \/ op'[o] = NoOp
  BY <1>0, ReadOverFacts, GiveUpFacts DEF CallTypes
<1>2. readers' \cup rejected' \subseteq 0..rev
  BY <1>1, RevisionFacts
<1> QED
  BY <1>1, <1>2, ExpireInv

LEMMA ReadUnavailableInv ==
  ASSUME IInv, NEW r \in Revisions, read[r].at # "none", ReadUnavailable(r), ReadOver(r), OtherTypes',
         UNCHANGED <<now, signIns, ends, caps, revoked, rejected>>, unsupported' # 0 => BadRoutes
  PROVE  IInv'
<1>0. TypeOK /\ MemoryTypes /\ r = rev /\ SignedIn
  BY AllTypes, CurrentFacts DEF IInv, ReadUnavailable
<1>1. /\ UNCHANGED <<rev, session, lastRead, timer, pending, replay, stored, key>>
      /\ op' = OpsGiveUp(r)
  BY DEF ReadUnavailable, kept
<1>2. op' \in [Ops -> Op] /\ \A o \in Ops : op'[o] = op[o] \/ op'[o] = NoOp
  BY <1>0, <1>1, GiveUpFacts
<1>3. CASE r \in readers /\ RetryScheduled
  <2>1. wait' = [for |-> "retry", at |-> now + delay, before |-> lastRead]
        /\ delay' = Least(2 * delay, RetryMax)
    BY <1>3 DEF RetryScheduled
  <2>2. wait' \in Wait /\ wait'.for = "retry" /\ wait'.before = lastRead /\ wait'.at <= now + RetryMax
    BY <1>0, <2>1, Numbers, Constants DEF Wait, Times
  <2>3. delay' \in RetryMin..RetryMax
    BY <1>0, <2>1, Numbers, Constants DEF Least
  <2>4. MemoryTypes'
    BY <1>0, <1>1, <2>2, <2>3 DEF MemoryTypes
  <2>5. pending' = TRUE
    BY <1>0, <1>1, <1>3, RevisionFacts DEF MemoryTypes
  <2> QED
    BY <1>0, <1>1, <1>2, <1>3, <2>2, <2>4, <2>5, ReadOverInv
<1>4. CASE r \notin readers /\ UNCHANGED <<wait, delay>>
  <2>1. MemoryTypes'
    BY <1>0, <1>1, <1>4 DEF MemoryTypes
  <2> QED
    BY <1>0, <1>1, <1>2, <1>4, <2>1, ReadOverInv
<1> QED
  BY <1>3, <1>4 DEF ReadUnavailable

LEMMA ReadUnsupportedInv ==
  ASSUME IInv, NEW r \in Revisions, read[r].at # "none", ReadUnsupported(r), ReadOver(r), OtherTypes',
         UNCHANGED <<now, signIns, ends, caps, revoked, rejected>>, unsupported' # 0 => BadRoutes
  PROVE  IInv'
<1>0. TypeOK /\ MemoryTypes /\ r = rev /\ SignedIn /\ op' = OpsGiveUp(r)
  BY AllTypes, CurrentFacts DEF IInv, ReadUnsupported
<1>1. op' \in [Ops -> Op] /\ \A o \in Ops : op'[o] = op[o] \/ op'[o] = NoOp
  BY <1>0, GiveUpFacts
<1>2. CASE Expire
  BY <1>0, <1>2, ReadExpiresInv
<1>3. ASSUME ~(r \in readers /\ IsExpired(session)), pending' = (pending /\ r \notin readers),
             delay' = IF r \in readers THEN RetryMin ELSE delay,
             UNCHANGED <<rev, session, lastRead, timer, wait, replay, kept>>
      PROVE  IInv'
  <2>1. stored' = stored /\ key' = key /\ pending' \in BOOLEAN /\ delay' \in RetryMin..RetryMax
    BY <1>0, <1>3, Constants DEF kept, MemoryTypes
  <2>2. MemoryTypes'
    BY <1>0, <1>3, <2>1 DEF MemoryTypes
  <2>3. \/ r \in readers /\ pending' = FALSE /\ wait' = wait /\ ~IsExpired(session)
        \/ r \notin readers /\ pending' = pending /\ wait' = wait
    BY <1>0, <1>3 DEF MemoryTypes
  <2> QED
    BY <1>0, <1>1, <1>3, <2>1, <2>2, <2>3, ReadOverInv
<1> QED
  BY <1>2, <1>3 DEF ReadUnsupported

(* A read that WaaS answered with the expiry of the session's credential.   *)
LEMMA ReadRefreshedInv ==
  ASSUME IInv, NEW r \in Revisions, read[r].at = "replied", read[r].outcome = "refreshed",
         ReadRefreshed(r, read[r].expiresAt), ReadOver(r), OtherTypes',
         UNCHANGED <<now, signIns, ends, caps, revoked, rejected, unsupported>>
  PROVE  IInv'
<1> DEFINE expiry == read[r].expiresAt
           refreshed == [session EXCEPT !.expiresAt = expiry]
<1>0. TypeOK /\ MemoryTypes /\ r = rev /\ SignedIn /\ session.cred <= signIns
      /\ read[r].cred = session.cred /\ IsCurrent(r)
  BY AllTypes, CurrentFacts DEF IInv, ReadRefreshed
<1>1. expiry \in Nat /\ expiry = ends[session.cred] /\ session.cred \in Creds
      /\ stored.cred = session.cred /\ stored.ceiling = session.ceiling
      /\ session.ceiling <= caps[session.cred]
  BY <1>0, Numbers DEF IInv, CallsOK, ReadOK, SessionOK, RecordOK
<1>2. refreshed \in Session /\ refreshed.cred = session.cred /\ refreshed.expiresAt = expiry
      /\ refreshed.ceiling = session.ceiling
  BY <1>0, <1>1 DEF MemoryTypes, Session, Times
<1>3. stored' \in Session /\ stored'.cred = stored.cred /\ stored'.ceiling = stored.ceiling
      /\ (stored'.expiresAt = stored.expiresAt \/ stored'.expiresAt = expiry)
  BY <1>0, <1>1 DEF ReadRefreshed, MemoryTypes, Session, Times
<1>4. Grows
  BY QuietGrows
<1>5. RecordOK'
  BY <1>1, <1>3, RevisionFacts, Numbers DEF RecordOK
<1>6. /\ read' \in [Revisions -> Read] /\ readers' \subseteq Revisions
      /\ readers' \cup rejected' \subseteq 0..rev /\ read'[r].at = "none"
      /\ \A s \in Revisions : s # r => read'[s] = read[s]
      /\ \A s \in Revisions : s \in readers' <=> s \in readers /\ s # r
  BY ReadOverFacts, RevisionFacts
<1>7. (unsupported' # 0 => BadRoutes) /\ (rev \in rejected' => ~Live(session.cred))
  BY <1>0, RevisionFacts
<1>8. ASSUME Reset, lastRead' = 0, session' = NoSession, timer' = NoTimer, replay' = session.cred,
             key' = (IF key = session.cred THEN 0 ELSE key), op' = OpsGiveUp(r)
      PROVE  IInv'
  <2>1. Over1 /\ rev + 1 \in Revisions
    BY <1>0, <1>8, RevisionFacts DEF Reset, Over1
  <2>2. op' \in [Ops -> Op] /\ \A o \in Ops : op'[o] = op[o] \/ op'[o] = NoOp
    BY <1>0, <1>8, GiveUpFacts
  <2>3. MemoryTypes'
    <3>1. key' \in Creds /\ replay' \in Creds
      BY <1>0, <1>1, <1>8, Constants DEF MemoryTypes
    <3> QED
      BY <1>3, <1>8, <2>1, <3>1, Constants, NothingTypes DEF MemoryTypes, Reset
  <2>4. TypeOK'
    BY <1>6, <2>2, <2>3, AllTypes DEF CallTypes
  <2>5. \A s \in Revisions : read'[s] = read[s] \/ read'[s].at = "none"
    BY <1>6
  <2>6. stored'.cred # 0 => stored.cred # 0
    BY <1>3
  <2> QED
    BY <1>4, <1>5, <1>6, <1>7, <2>1, <2>2, <2>4, <2>5, <2>6, OverInv
<1>9. ASSUME session' = refreshed, lastRead' = now, timer' = TimerFor(expiry),
             pending' = (pending /\ r \notin readers),
             delay' = IF r \in readers THEN RetryMin ELSE delay,
             op' = OpsGoOn(r), UNCHANGED <<rev, wait, replay, key>>
      PROVE  IInv'
  <2>0. RevisionsOK /\ OneForegroundRead /\ WatchOK /\ rev \in Nat /\ CallsOK /\ rev \in Revisions
    BY <1>0, Numbers DEF IInv
  <2>1. /\ timer' \in Timer /\ timer'.on /\ timer'.expiry = expiry
        /\ \A w \in Nat : w < expiry /\ w < now + MaxTimer => w < timer'.at
    BY <1>0, <1>1, <1>9, TimerForFacts
  <2>2. /\ op' \in [Ops -> Op]
        /\ \A o \in Ops :
             \/ op'[o] = op[o] /\ ~(op[o].at = "reading" /\ op[o].rev = r)
             \/ /\ op[o].at = "reading" /\ op'[o].at = "sent"
                /\ op'[o].rev = op[o].rev /\ op'[o].cred = op[o].cred
    BY <1>0, <1>9, GoOnFacts
  <2>3. TypeOK'
    <3>1. pending' \in BOOLEAN /\ delay' \in RetryMin..RetryMax
      BY <1>0, <1>9, Constants DEF MemoryTypes
    <3>2. lastRead' \in Times
      BY <1>0, <1>9 DEF TypeOK
    <3>3. MemoryTypes'
      BY <1>0, <1>2, <1>3, <1>9, <2>1, <3>1, <3>2 DEF MemoryTypes
    <3> QED
      BY <1>6, <2>2, <3>3, AllTypes DEF CallTypes
  <2>4. RevisionsOK'
    <3>1. \A s \in Revisions : s > rev' => read'[s].at = "none"
      BY <1>6, <1>9, <2>0 DEF RevisionsOK
    <3>2. \A o \in Ops : op'[o].rev <= rev'
      BY <1>9, <2>0, <2>2 DEF RevisionsOK
    <3> QED
      BY <1>0, <1>2, <1>3, <1>6, <1>9, <2>0, <3>1, <3>2 DEF RevisionsOK, SignedIn
  <2>5. SessionOK'
    BY <1>0, <1>1, <1>2, <1>3, <1>5, <1>7, <1>9, <2>0 DEF SessionOK, Live
  <2>6. CallsOK'
    <3>1. ASSUME NEW s \in Revisions
          PROVE  ReadOK(s)'
      <4>1. CASE s = r
        BY <1>6, <4>1 DEF ReadOK
      <4>2. CASE s # r
        BY <1>2, <1>4, <1>6, <1>9, <4>2, ReadKept
      <4> QED
        BY <4>1, <4>2
    <3>2. ASSUME NEW o \in Ops
          PROVE  OpOK(o)'
      <4>1. CASE op'[o] = op[o] /\ ~(op[o].at = "reading" /\ op[o].rev = r)
        BY <1>0, <1>2, <1>4, <1>9, <4>1, OpKept
      <4>2. CASE /\ op[o].at = "reading" /\ op'[o].at = "sent"
                 /\ op'[o].rev = op[o].rev /\ op'[o].cred = op[o].cred
        BY <1>0, <1>2, <1>9, <2>0, <4>2 DEF CallsOK, OpOK
      <4> QED
        BY <2>2, <4>1, <4>2
    <3> QED
      BY <3>1, <3>2 DEF CallsOK
  <2>7. OneForegroundRead'
    BY <1>0, <1>6, <1>9, <2>0 DEF OneForegroundRead
  <2>8. ASSUME wait.for = "retry"
        PROVE  wait.at <= now + RetryMax /\ (wait.at < timer'.at \/ LastTimer')
    <3>1. wait.at \in Nat /\ wait.at <= now + RetryMax /\ wait.at < now + MaxTimer
      BY <1>0, <2>0, <2>8, Numbers, Constants DEF WatchOK
    <3>2. wait.at < expiry \/ expiry = caps[session.cred]
      BY <1>0, <2>0, <2>8 DEF WatchOK
    <3>3. expiry = caps[session.cred] => LastTimer'
      BY <1>1, <1>2, <1>9 DEF LastTimer
    <3> QED
      BY <2>1, <3>1, <3>2, <3>3
  <2>9. WatchOK'
    BY <1>0, <1>2, <1>6, <1>9, <2>1, <2>8 DEF WatchOK, SignedIn
  <2>10. WaasOK'
    BY <1>4 DEF Grows
  <2> QED
    BY <2>3, <2>4, <2>5, <2>6, <2>7, <2>9, <2>10 DEF IInv
<1> QED
  BY <1>8, <1>9 DEF ReadRefreshed

-----------------------------------------------------------------------------
(* The steps of a read and of a wallet call *)

LEMMA CheckSignerInv ==
  ASSUME IInv, NEW r \in Revisions, CheckSigner(r)
  PROVE  IInv'
<1>0. TypeOK /\ CallTypes /\ OtherTypes /\ read[r].at = "signer"
  BY AllTypes DEF IInv, CheckSigner
<1>1. /\ UNCHANGED <<now, signIns, ends, caps, revoked, rejected>> /\ visible' = visible
      /\ unsupported' = unsupported /\ rejected' = rejected
      /\ UNCHANGED <<now, signIns, ends, caps, revoked>> /\ Grows
  BY QuietGrows DEF CheckSigner, answers, waas
<1>2. troubles' \in Nat
  BY <1>0 DEF CheckSigner, Trouble, OtherTypes
<1>3. OtherTypes'
  BY <1>0, <1>1, <1>2 DEF OtherTypes
<1>4. (unsupported' # 0 => BadRoutes) /\ rejected' \subseteq 0..rev
  BY <1>1, RevisionFacts
<1>5. CASE ReadStale(r) /\ ReadOver(r)
  BY <1>0, <1>1, <1>3, <1>4, <1>5, ReadStaleInv
<1>6. CASE ReadEnded(r) /\ ReadOver(r)
  <2>1. SignedIn /\ Expire /\ op' = OpsGiveUp(r)
    BY <1>0, <1>6, CurrentFacts DEF ReadEnded
  <2> QED
    BY <1>1, <1>3, <1>4, <1>6, <2>1, ReadExpiresInv
<1>7. CASE ReadUnavailable(r) /\ ReadOver(r)
  BY <1>0, <1>1, <1>3, <1>4, <1>7, ReadUnavailableInv
<1>8. CASE IsCurrent(r) /\ Keep /\ read' = [read EXCEPT ![r].at = "asked"] /\ UNCHANGED <<readers, op>>
  <2>1. r = rev /\ SignedIn /\ read[r].cred = session.cred /\ rev <= rev
    BY <1>0, <1>8, CurrentFacts, Numbers
  <2>2. UNCHANGED <<rev, session>>
    BY <1>8, KeepFacts
  <2>3. read' \in [Revisions -> Read] /\ read'[r].at = "asked" /\ read'[r].cred = read[r].cred
        /\ \A s \in Revisions : s # r => read'[s] = read[s]
    BY <1>0, <1>8 DEF CallTypes, Read
  <2>4. ReadOK(r)'
    BY <1>0, <1>1, <2>1, <2>2, <2>3 DEF IInv, CallsOK, ReadOK
  <2>5. \A s \in Revisions : read'[s] = read[s] \/ (s <= rev /\ ReadOK(s)' /\ read'[s].at # "none")
    BY <2>1, <2>3, <2>4
  <2>6. CallTypes'
    BY <1>0, <1>8, <2>3 DEF CallTypes
  <2>7. SignedIn /\ rev \in rejected' => ~Live(session.cred)'
    BY <1>1, <2>2, RevisionFacts DEF Live
  <2>8. \A o \in Ops : op'[o] = op[o]
    BY <1>8
  <2>9. read'[rev].at # "replied"
    BY <2>1, <2>3
  <2> QED
    BY <1>1, <1>3, <1>4, <1>8, <2>5, <2>6, <2>7, <2>8, <2>9, KeepInv
<1> QED
  BY <1>5, <1>6, <1>7, <1>8 DEF CheckSigner

LEMMA ReadAnsweredInv ==
  ASSUME IInv, NEW r \in Revisions, ReadAnswered(r)
  PROVE  IInv'
<1>0. TypeOK /\ OtherTypes /\ read[r].at = "replied" /\ ReadOver(r) /\ ReadOK(r)
  BY AllTypes DEF IInv, ReadAnswered, CallsOK
<1>1. /\ UNCHANGED <<now, signIns, ends, caps, revoked, rejected>> /\ visible' = visible
      /\ troubles' = troubles
      /\ unsupported' = IF read[r].outcome = "badRoute" THEN now + Unsupported ELSE unsupported
  BY DEF ReadAnswered, waas
<1>2. OtherTypes' /\ (unsupported' # 0 => BadRoutes)
  <2>1. unsupported' \in Times
    BY <1>0, <1>1, Numbers, Constants DEF OtherTypes, Times
  <2> QED
    BY <1>0, <1>1, <2>1, RevisionFacts DEF OtherTypes, ReadOK
<1>3. CASE ReadStale(r)
  BY <1>0, <1>1, <1>2, <1>3, ReadStaleInv
<1>4. CASE read[r].outcome = "refreshed" /\ ReadRefreshed(r, read[r].expiresAt)
  <2>1. unsupported' = unsupported
    BY <1>1, <1>4
  <2> QED
    BY <1>0, <1>1, <1>2, <1>4, <2>1, ReadRefreshedInv
<1>5. CASE ReadEnded(r)
  <2>1. SignedIn /\ Expire /\ op' = OpsGiveUp(r)
    BY <1>0, <1>5, CurrentFacts DEF ReadEnded
  <2> QED
    BY <1>0, <1>1, <1>2, <2>1, ReadExpiresInv
<1>6. CASE ReadUnsupported(r)
  BY <1>0, <1>1, <1>2, <1>6, ReadUnsupportedInv
<1>7. CASE ReadUnavailable(r)
  BY <1>0, <1>1, <1>2, <1>7, ReadUnavailableInv
<1> QED
  BY <1>3, <1>4, <1>5, <1>6, <1>7 DEF ReadAnswered

LEMMA TakeReadInv ==
  ASSUME IInv, NEW r \in Revisions, TakeRead(r)
  PROVE  IInv'
<1> DEFINE c == read[r].cred
<1>0. TypeOK /\ CallTypes /\ OtherTypes /\ read[r].at = "asked" /\ NoneReplied /\ ReadOK(r)
      /\ RevisionsOK /\ WatchOK /\ rev \in Nat /\ rev \in Revisions /\ r \in Nat /\ now \in Nat
  BY AllTypes, Numbers DEF IInv, TakeRead, CallsOK
<1>1. /\ Keep /\ readers' = readers /\ op' = op /\ visible' = visible
      /\ UNCHANGED <<unsupported, rejected, now, signIns, caps, revoked>>
      /\ UNCHANGED <<now, signIns, caps, revoked>>
  BY DEF TakeRead, answers
<1>2. /\ c \in Creds /\ c \in Nat /\ 0 < c /\ c <= signIns /\ r <= rev
      /\ (r = rev => c = session.cred)
  BY <1>0, Numbers DEF ReadOK, RevisionsOK
<1>3. troubles' \in Nat
  BY <1>0 DEF TakeRead, Trouble, OtherTypes
<1>4. /\ ends' \in {ends, Used(c)} /\ (ends' # ends => Live(c))
      /\ \E outcome \in Outcomes :
           /\ read' = [read EXCEPT ![r].at = "replied", ![r].outcome = outcome, ![r].expiresAt = ends'[c]]
           /\ outcome = "refreshed" => Live(c) /\ ends' = Used(c)
           /\ outcome \in {"ended", "unauthorized"} => ~Live(c) /\ ends' = ends
           /\ outcome = "badRoute" => BadRoutes
  BY DEF TakeRead, Outcomes
<1>5. Grows /\ ends' \in [Creds -> Times]
      /\ (Live(c) /\ ends' = Used(c) => ends'[c] = now + Idle \/ ends'[c] = caps[c])
  BY <1>0, <1>1, <1>2, <1>4, UseGrows
<1>6. PICK outcome \in Outcomes :
        /\ read' = [read EXCEPT ![r].at = "replied", ![r].outcome = outcome, ![r].expiresAt = ends'[c]]
        /\ outcome = "refreshed" => Live(c) /\ ends' = Used(c)
        /\ outcome \in {"ended", "unauthorized"} => ~Live(c) /\ ends' = ends
        /\ outcome = "badRoute" => BadRoutes
  BY <1>4
<1>7. /\ read' \in [Revisions -> Read] /\ read'[r].at = "replied" /\ read'[r].cred = c
      /\ read'[r].outcome = outcome /\ read'[r].expiresAt = ends'[c]
      /\ \A s \in Revisions : s # r => read'[s] = read[s]
  <2>1. ends'[c] \in Times
    BY <1>2, <1>5
  <2> QED
    BY <1>0, <1>6, <2>1 DEF CallTypes, Read
<1>8. UNCHANGED <<rev, session, wait, timer>>
  BY <1>1, KeepFacts
<1>9. ReadOK(r)'
  BY <1>1, <1>2, <1>6, <1>7, <1>8 DEF ReadOK, Live
<1>10. \A s \in Revisions : read'[s] = read[s] \/ (s <= rev /\ ReadOK(s)' /\ read'[s].at # "none")
  BY <1>2, <1>7, <1>9
<1>11. wait.for = "retry" /\ read'[rev].at = "replied" /\ read'[rev].outcome = "refreshed" =>
         wait.at < read'[rev].expiresAt \/ read'[rev].expiresAt = caps'[read'[rev].cred]
  <2>1. CASE r # rev
    <3>1. read'[rev] = read[rev]
      BY <1>0, <1>7, <2>1
    <3> QED
      BY <1>0, <3>1 DEF NoneReplied
  <2>2. CASE r = rev
    <3>1. wait.for = "retry" => wait.at <= now + RetryMax /\ wait.at \in Nat
      BY <1>0, Numbers DEF WatchOK
    <3>2. read'[rev].outcome = "refreshed" => ends'[c] = now + Idle \/ ends'[c] = caps[c]
      BY <1>5, <1>6, <1>7, <2>2
    <3> QED
      BY <1>0, <1>1, <1>7, <2>2, <3>1, <3>2, Constants
  <2> QED
    BY <2>1, <2>2
<1>12. CallTypes' /\ OtherTypes'
  BY <1>0, <1>1, <1>3, <1>5, <1>7 DEF CallTypes, OtherTypes
<1>13. SignedIn /\ rev \in rejected' => ~Live(session.cred)'
  BY <1>0, <1>1, <1>5, <1>8, RevisionFacts, Numbers DEF Grows
<1>14. (unsupported' # 0 => BadRoutes) /\ rejected' \subseteq 0..rev
  BY <1>1, RevisionFacts
<1> QED
  BY <1>1, <1>5, <1>10, <1>11, <1>12, <1>13, <1>14, KeepInv

LEMMA TakeOpInv ==
  ASSUME IInv, NEW o \in Ops, TakeOp(o)
  PROVE  IInv'
<1> DEFINE c == op[o].cred
<1>0. TypeOK /\ CallTypes /\ OtherTypes /\ op[o].at = "sent" /\ NoneReplied /\ OpOK(o)
      /\ RevisionsOK /\ rev \in Nat /\ rev \in Revisions
  BY AllTypes, Numbers DEF IInv, TakeOp, CallsOK
<1>1. /\ Keep /\ readers' = readers /\ read' = read /\ visible' = visible /\ troubles' = troubles
      /\ UNCHANGED <<unsupported, rejected, now, signIns, caps, revoked>>
      /\ UNCHANGED <<now, signIns, caps, revoked>>
  BY DEF TakeOp, answers
<1>2. c \in Creds /\ c \in Nat /\ 0 < c /\ c <= signIns /\ op[o].rev <= rev
  BY <1>0, Numbers DEF OpOK, RevisionsOK
<1>3. /\ ends' \in {ends, Used(c)} /\ (ends' # ends => Live(c))
      /\ \E reply \in Replies :
           /\ op' = [op EXCEPT ![o].at = "replied", ![o].reply = reply]
           /\ reply = "ended" => ~Live(c) /\ ends' = ends
  BY DEF TakeOp, Replies
<1>4. Grows /\ ends' \in [Creds -> Times]
  BY <1>0, <1>1, <1>2, <1>3, UseGrows
<1>5. PICK reply \in Replies :
        /\ op' = [op EXCEPT ![o].at = "replied", ![o].reply = reply]
        /\ reply = "ended" => ~Live(c) /\ ends' = ends
  BY <1>3
<1>6. /\ op' \in [Ops -> Op] /\ op'[o].at = "replied" /\ op'[o].cred = c /\ op'[o].rev = op[o].rev
      /\ op'[o].reply = reply /\ \A x \in Ops : x # o => op'[x] = op[x]
  BY <1>0, <1>5 DEF CallTypes, Op
<1>7. UNCHANGED <<rev, session>>
  BY <1>1, KeepFacts
<1>8. OpOK(o)'
  BY <1>0, <1>1, <1>2, <1>5, <1>6, <1>7 DEF OpOK, Live, SignedIn
<1>9. \A x \in Ops : op'[x] = op[x] \/ (op'[x].rev <= rev /\ OpOK(x)')
  BY <1>2, <1>6, <1>8
<1>10. CallTypes' /\ OtherTypes'
  BY <1>0, <1>1, <1>4, <1>6 DEF CallTypes, OtherTypes
<1>11. SignedIn /\ rev \in rejected' => ~Live(session.cred)'
  BY <1>0, <1>1, <1>4, <1>7, RevisionFacts, Numbers DEF Grows
<1>12. (unsupported' # 0 => BadRoutes) /\ rejected' \subseteq 0..rev
  BY <1>1, RevisionFacts
<1>13. read'[rev] = read[rev] /\ \A r \in Revisions : read'[r] = read[r]
  BY <1>1
<1> QED
  BY <1>1, <1>4, <1>9, <1>10, <1>11, <1>12, <1>13, KeepInv

LEMMA BeginOpInv ==
  ASSUME IInv, NEW o \in Ops, BeginOp(o)
  PROVE  IInv'
<1>0. TypeOK /\ CallTypes /\ OtherTypes /\ SignedIn /\ rev \in Nat /\ session.cred \in 1..signIns
      /\ session.cred \in Creds /\ rev \in Revisions
  BY AllTypes, RevisionFacts, Numbers DEF IInv, BeginOp
<1>1. /\ UNCHANGED <<now, visible, readers, answers, waas, troubles>>
      /\ UNCHANGED <<now, signIns, ends, caps, revoked>> /\ UNCHANGED <<unsupported, rejected>>
      /\ UNCHANGED <<now, signIns, ends, revoked>>
      /\ OtherTypes' /\ Grows
  BY <1>0, QuietGrows DEF BeginOp, answers, waas, OtherTypes
<1>2. readers \cup rejected' \subseteq 0..rev /\ rejected' \subseteq 0..rev
      /\ (unsupported' # 0 => BadRoutes)
  BY <1>1, RevisionFacts
<1>3. CASE Expire /\ UNCHANGED <<op, read>>
  BY <1>0, <1>1, <1>2, <1>3, ExpireInv DEF CallTypes
<1>4. ASSUME NEW at \in {"sent", "reading"}, OpAt(o, at), Keep, at = "reading" => IsExpired(session),
             \/ read' = read
             \/ read' = ReadStarted
      PROVE  IInv'
  <2>1. /\ UNCHANGED <<rev, session>> /\ UNCHANGED <<now, rev, session, signIns, ends, revoked>>
    BY <1>1, <1>4, KeepFacts
  <2>2. /\ op' \in [Ops -> Op] /\ op'[o].at = at /\ op'[o].rev = rev /\ op'[o].cred = session.cred
        /\ \A x \in Ops : x # o => op'[x] = op[x]
    BY <1>0, <1>4, NothingTypes DEF OpAt, CallTypes, Op
  <2>3. OpOK(o)'
    BY <1>0, <1>1, <2>1, <2>2, <1>4 DEF OpOK, IsExpired
  <2>4. \A x \in Ops : op'[x] = op[x] \/ (op'[x].rev <= rev /\ OpOK(x)')
    BY <1>0, <2>2, <2>3
  <2>5. /\ read' \in [Revisions -> Read]
        /\ \A r \in Revisions : read'[r] = read[r] \/ (r <= rev /\ ReadOK(r)' /\ read'[r].at # "none")
        /\ read'[rev] = read[rev] \/ read'[rev].at = "signer"
    <3>1. CASE read' = read
      BY <1>0, <3>1 DEF CallTypes
    <3>2. CASE read' = ReadStarted
      <4>1. /\ read' \in [Revisions -> Read] /\ read'[rev].at # "none"
            /\ \A r \in Revisions : read'[r] = read[r] \/ (r <= rev /\ ReadOK(r)')
            /\ read'[rev] = read[rev] \/ read'[rev].at = "signer"
        BY <1>0, <2>1, <3>2, StartedOK
      <4>2. \A r \in Revisions : r # rev => read'[r] = read[r]
        BY <1>0, <3>2, ReadStartedFacts
      <4> QED
        BY <4>1, <4>2
    <3> QED
      BY <1>4, <3>1, <3>2
  <2>6. CallTypes'
    BY <1>0, <1>1, <2>2, <2>5 DEF CallTypes
  <2>7. SignedIn /\ rev \in rejected' => ~Live(session.cred)'
    BY <1>1, <2>1, RevisionFacts DEF Live
  <2> QED
    BY <1>1, <1>2, <1>4, <2>4, <2>5, <2>6, <2>7, KeepInv
<1>5. CASE OpAt(o, "sent") /\ Keep /\ UNCHANGED read
  BY <1>4, <1>5
<1>6. CASE IsExpired(session) /\ read' = ReadStarted /\ OpAt(o, "reading") /\ Keep
  BY <1>4, <1>6
<1> QED
  BY <1>3, <1>5, <1>6 DEF BeginOp

LEMMA OpAnsweredInv ==
  ASSUME IInv, NEW o \in Ops, OpAnswered(o)
  PROVE  IInv'
<1>0. TypeOK /\ CallTypes /\ OtherTypes /\ rev \in Nat /\ op[o].at = "replied" /\ OpOK(o)
      /\ op[o].rev \in Nat /\ op[o].rev <= rev /\ rev \in Revisions
  BY AllTypes, Numbers DEF IInv, OpAnswered, CallsOK, RevisionsOK
<1>1. /\ UNCHANGED <<now, visible, readers, unsupported, waas, troubles>>
      /\ UNCHANGED <<now, signIns, ends, caps, revoked>> /\ unsupported' = unsupported
      /\ UNCHANGED <<now, signIns, ends, revoked>> /\ Grows
      /\ rejected' = IF op[o].reply = "ended" THEN {op[o].rev} ELSE rejected
  BY QuietGrows DEF OpAnswered, waas
<1>2. /\ op' = [op EXCEPT ![o] = NoOp] /\ op' \in [Ops -> Op]
      /\ \A x \in Ops : op'[x] = op[x] \/ op'[x] = NoOp
  BY <1>0, NothingTypes DEF OpAnswered, CallTypes
<1>3. rejected' \subseteq 0..rev /\ rejected' \subseteq Revisions /\ (unsupported' # 0 => BadRoutes)
      /\ readers \subseteq 0..rev
  <2>1. op[o].rev \in 0..rev /\ op[o].rev \in Revisions
    BY <1>0, Numbers, Constants DEF Revisions
  <2>2. readers \cup rejected \subseteq 0..rev /\ (unsupported # 0 => BadRoutes)
    BY RevisionFacts
  <2>3. rejected \subseteq Revisions
    BY <1>0 DEF OtherTypes
  <2>4. rejected' = {op[o].rev} \/ rejected' = rejected
    BY <1>1
  <2> QED
    BY <1>1, <2>1, <2>2, <2>3, <2>4
<1>4. OtherTypes'
  BY <1>0, <1>1, <1>3 DEF OtherTypes, waas
<1>5. SignedIn /\ rev \in rejected' => ~Live(session.cred)
  <2>1. CASE op[o].reply = "ended"
    BY <1>0, <1>1, <2>1 DEF OpOK
  <2>2. CASE op[o].reply # "ended"
    BY <1>1, <2>2, RevisionFacts
  <2> QED
    BY <2>1, <2>2
<1>6. CASE EndsSession(o) /\ Expire
  <2>1. SignedIn /\ op[o].reply \in {"ended", "publicEnded"} /\ read' = read
    BY <1>6 DEF EndsSession, OpAnswered, StartsRead
  <2>2. CallTypes'
    BY <1>0, <1>1, <1>2, <2>1 DEF CallTypes
  <2>3. readers' \cup rejected' \subseteq 0..rev /\ \A r \in Revisions : read'[r] = read[r]
    BY <1>1, <1>3, <2>1
  <2> QED
    BY <1>1, <1>2, <1>3, <1>4, <1>6, <2>1, <2>2, <2>3, ExpireInv
<1>7. CASE Keep
  <2>1. UNCHANGED <<rev, session>> /\ UNCHANGED <<now, rev, session, signIns, ends, revoked>>
    BY <1>1, <1>7, KeepFacts
  <2>2. /\ read' \in [Revisions -> Read]
        /\ \A r \in Revisions : read'[r] = read[r] \/ (r <= rev /\ ReadOK(r)' /\ read'[r].at # "none")
        /\ read'[rev] = read[rev] \/ read'[rev].at = "signer"
    <3>1. CASE read' = read
      BY <1>0, <3>1 DEF CallTypes
    <3>2. CASE SignedIn /\ read' = ReadStarted
      <4>1. /\ read' \in [Revisions -> Read] /\ read'[rev].at # "none"
            /\ \A r \in Revisions : read'[r] = read[r] \/ (r <= rev /\ ReadOK(r)')
            /\ read'[rev] = read[rev] \/ read'[rev].at = "signer"
        BY <1>0, <2>1, <3>2, StartedOK
      <4>2. \A r \in Revisions : r # rev => read'[r] = read[r]
        BY <1>0, <3>2, ReadStartedFacts
      <4> QED
        BY <4>1, <4>2
    <3> QED
      BY <3>1, <3>2 DEF OpAnswered, StartsRead
  <2>3. CallTypes'
    BY <1>0, <1>1, <1>2, <2>2 DEF CallTypes
  <2>4. \A x \in Ops : op'[x] = op[x] \/ (op'[x].rev <= rev /\ OpOK(x)')
    BY <1>0, <1>2, NothingTypes DEF OpOK
  <2>5. SignedIn /\ rev \in rejected' => ~Live(session.cred)'
    BY <1>1, <1>5, <2>1 DEF Live, SignedIn
  <2> QED
    BY <1>1, <1>3, <1>4, <1>7, <2>2, <2>3, <2>4, <2>5, KeepInv
<1> QED
  BY <1>6, <1>7 DEF OpAnswered

-----------------------------------------------------------------------------
(* Sign-in, sign-out, reload *)

LEMMA SignInNowInv ==
  ASSUME IInv, SignInNow
  PROVE  IInv'
<1>1. PICK s \in (now - Latency)..now : \E t \in s..now : SignIn(s, t)
  BY DEF SignInNow
<1>2. PICK t \in s..now : SignIn(s, t)
  BY <1>1
<1> DEFINE c == signIns + 1
           expiry == t + Least(Idle, Lifetime)
<1>0. TypeOK /\ MemoryTypes /\ CallTypes /\ OtherTypes /\ rev \in Nat /\ now \in Nat /\ signIns \in Nat
      /\ RevisionsOK /\ WaasOK /\ SessionOK
  BY AllTypes, Numbers DEF IInv
<1>3. s \in Nat /\ t \in Nat /\ 0 < s /\ s <= t /\ t <= now
  BY <1>0, <1>2, Constants DEF SignIn
<1>4. /\ expiry \in Nat /\ expiry <= t + Lifetime /\ expiry <= now + Idle
      /\ Greatest(s + Lifetime, expiry) \in Nat /\ Greatest(s + Lifetime, expiry) <= t + Lifetime
  BY <1>0, <1>3, Constants DEF Least, Greatest
<1>5. /\ c \in Creds /\ c \in Nat /\ 0 < c /\ rev + 1 \in Revisions /\ rev + 1 < MaxRevision
      /\ 1 < MaxRevision
  BY <1>0, <1>2, Constants DEF SignIn, Creds, Revisions
<1>6. /\ rev' = rev + 1 /\ pending' = FALSE /\ wait' = NoWait /\ delay' = RetryMin
      /\ signIns' = c /\ ends' = [ends EXCEPT ![c] = expiry]
      /\ caps' = [caps EXCEPT ![c] = t + Lifetime]
      /\ session' = [cred |-> c, expiresAt |-> expiry, ceiling |-> Greatest(s + Lifetime, expiry)]
      /\ lastRead' = s /\ timer' = TimerFor(expiry) /\ stored' = session' /\ key' = c /\ replay' = 0
      /\ UNCHANGED <<now, visible, read, readers, op, unsupported, rejected, revoked>>
  BY <1>2 DEF SignIn, Reset, calls, answers
<1>7. troubles' \in Nat
  BY <1>0, <1>2 DEF SignIn, OtherTypes
<1>8. TimerFor(expiry) \in Timer /\ TimerFor(expiry).on /\ TimerFor(expiry).expiry = expiry
  BY <1>0, <1>4, TimerForFacts
<1>9. TypeOK'
  <2>1. session' \in Session
    BY <1>4, <1>5, <1>6 DEF Session, Times
  <2>2. MemoryTypes'
    BY <1>3, <1>5, <1>6, <1>8, <2>1, Constants, NothingTypes DEF MemoryTypes, Times
  <2>3. OtherTypes'
    BY <1>0, <1>3, <1>4, <1>5, <1>6, <1>7, Constants DEF OtherTypes, Times
  <2>4. CallTypes'
    BY <1>0, <1>6 DEF CallTypes
  <2> QED
    BY <2>2, <2>3, <2>4, AllTypes
<1>10. /\ ends'[c] = expiry /\ caps'[c] = t + Lifetime
       /\ \A d \in Creds : d # c => ends'[d] = ends[d] /\ caps'[d] = caps[d]
  BY <1>0, <1>5, <1>6 DEF OtherTypes
<1>11. Grows
  <2>1. WaasOK'
    BY <1>0, <1>4, <1>6, <1>10 DEF WaasOK
  <2>2. \A d \in Creds : d <= signIns => d # c
    BY <1>0
  <2> QED
    BY <1>0, <1>6, <1>10, <2>1, <2>2, Numbers DEF Grows, Live
<1>12. rev' \notin readers /\ rev' \notin rejected /\ read[rev'].at = "none"
  BY <1>0, <1>5, <1>6 DEF RevisionsOK
<1>13. RevisionsOK'
  <2>1. \A r \in Revisions : r > rev' => read'[r].at = "none"
    BY <1>0, <1>6, Numbers DEF RevisionsOK
  <2>2. \A o \in Ops : op'[o].rev <= rev'
    BY <1>0, <1>6, Numbers DEF RevisionsOK
  <2> QED
    BY <1>0, <1>5, <1>6, <2>1, <2>2 DEF RevisionsOK, SignedIn
<1>14. SessionOK'
  BY <1>0, <1>4, <1>6, <1>10, <1>12 DEF SessionOK, RecordOK
<1>15. CallsOK'
  <2>1. ASSUME NEW r \in Revisions
        PROVE  ReadOK(r)'
    <3>1. CASE r = rev'
      BY <1>6, <1>12, <3>1 DEF ReadOK
    <3>2. CASE r # rev'
      BY <1>6, <1>11, <3>2, ReadKept
    <3> QED
      BY <3>1, <3>2
  <2>2. ASSUME NEW o \in Ops
        PROVE  OpOK(o)'
    <3>1. op[o].rev <= rev /\ op[o].rev \in Nat
      BY <1>0, Numbers DEF RevisionsOK
    <3> QED
      BY <1>0, <1>6, <1>11, <3>1, OpKept
  <2> QED
    BY <2>1, <2>2 DEF CallsOK
<1>16. OneForegroundRead'
  <2>1. wait'.for = "none" /\ ~pending' /\ pending' = FALSE /\ rev' \notin readers'
    BY <1>6, <1>12, NothingTypes
  <2> QED
    BY <2>1 DEF OneForegroundRead
<1>17. WatchOK'
  <2>1. /\ timer'.on /\ timer'.expiry = expiry /\ wait'.for = "none" /\ ~pending'
        /\ session'.cred = c /\ session'.expiresAt = expiry
    BY <1>6, <1>8, NothingTypes
  <2> QED
    BY <1>5, <2>1 DEF WatchOK, SignedIn
<1> QED
  BY <1>9, <1>11, <1>13, <1>14, <1>15, <1>16, <1>17 DEF IInv, Grows

LEMMA SignOutInv ==
  ASSUME IInv, SignOut
  PROVE  IInv'
<1>0. TypeOK /\ CallTypes /\ OtherTypes /\ SignedIn
  BY AllTypes DEF IInv, SignOut
<1>1. /\ Over1 /\ rev' = rev + 1 /\ rev + 1 \in Revisions /\ delay' = RetryMin /\ lastRead' = 0
      /\ replay' = 0 /\ key' = 0 /\ stored' = NoSession
      /\ UNCHANGED <<now, visible, read, readers, op, unsupported, rejected, troubles>>
      /\ UNCHANGED <<now, signIns, ends, caps, revoked>>
  BY <1>0, RevisionFacts DEF SignOut, Reset, Over1, calls, answers, waas
<1>2. MemoryTypes'
  BY <1>1, Constants, NothingTypes DEF MemoryTypes, Over1
<1>3. CallTypes' /\ OtherTypes'
  BY <1>0, <1>1 DEF CallTypes, OtherTypes
<1>4. TypeOK' /\ Grows /\ RecordOK' /\ stored'.cred = 0
  BY <1>1, <1>2, <1>3, AllTypes, QuietGrows, NothingTypes DEF RecordOK
<1>5. readers' \cup rejected' \subseteq 0..rev /\ (unsupported' # 0 => BadRoutes)
  BY <1>1, RevisionFacts
<1> QED
  BY <1>1, <1>4, <1>5, OverInv

LEMMA ReloadInv ==
  ASSUME IInv, Reload
  PROVE  IInv'
<1>0. TypeOK /\ MemoryTypes /\ CallTypes /\ OtherTypes /\ RevisionsOK /\ SessionOK
      /\ stored.cred \in Creds /\ stored.cred \in Nat /\ stored.expiresAt \in Nat
  BY AllTypes, Numbers DEF IInv
<1>1. /\ stored.cred # 0 /\ rev' = 0 /\ lastRead' = 0 /\ delay' = RetryMin
      /\ op' = [o \in Ops |-> NoOp] /\ unsupported' = 0 /\ rejected' = {} /\ troubles' \in Nat
      /\ UNCHANGED <<now, visible, stored>> /\ UNCHANGED <<now, signIns, ends, caps, revoked>>
  BY <1>0 DEF Reload, Trouble, waas, OtherTypes
<1>2. Grows /\ RecordOK' /\ 1 < MaxRevision /\ 0 \in Revisions
  BY <1>0, <1>1, QuietGrows, RevisionFacts, Constants DEF RecordOK, RevisionsOK, Revisions
<1>3. OtherTypes' /\ op' \in [Ops -> Op]
  BY <1>0, <1>1, NothingTypes, Constants DEF OtherTypes
<1>4. \A o \in Ops : op'[o].at = "idle" /\ op'[o].rev = 0
  BY <1>1, NothingTypes
<1>5. CASE NotRestored
  <2>1. /\ session' = NoSession /\ timer' = NoTimer /\ replay' = stored.cred
        /\ key' = (IF key = stored.cred THEN 0 ELSE key) /\ pending' = FALSE /\ wait' = NoWait
        /\ readers' = {} /\ read' = [r \in Revisions |-> NoRead]
    BY <1>5 DEF NotRestored
  <2>2. /\ read' \in [Revisions -> Read] /\ \A r \in Revisions : read'[r].at = "none"
    BY <2>1, NothingTypes
  <2>3. MemoryTypes'
    BY <1>0, <1>1, <1>2, <2>1, Constants, NothingTypes DEF MemoryTypes
  <2>4. TypeOK'
    BY <1>3, <2>1, <2>2, <2>3, AllTypes DEF CallTypes
  <2>5. RevisionsOK'
    BY <1>1, <1>2, <1>4, <2>1, <2>2, NothingTypes DEF RevisionsOK, SignedIn
  <2>6. SessionOK'
    BY <1>1, <1>2, <2>1, NothingTypes DEF SessionOK, SignedIn
  <2>7. CallsOK'
    BY <1>4, <2>2 DEF CallsOK, ReadOK, OpOK
  <2>8. OneForegroundRead' /\ WatchOK'
    BY <2>1, NothingTypes DEF OneForegroundRead, WatchOK, SignedIn
  <2> QED
    BY <1>2, <2>4, <2>5, <2>6, <2>7, <2>8 DEF IInv, Grows
<1>6. CASE Restored
  <2>1. /\ session' = stored /\ timer' = TimerFor(stored.expiresAt) /\ replay' = 0 /\ key' = key
        /\ pending' = TRUE /\ readers' = (IF visible THEN {0} ELSE {})
        /\ wait' = [NoWait EXCEPT !.for = IF visible THEN "none" ELSE "foreground"]
    BY <1>6 DEF Restored
  <2>2. wait' \in Wait /\ wait'.for = (IF visible THEN "none" ELSE "foreground")
    BY <2>1, NothingTypes DEF Wait, NoWait
  <2>3. /\ read' \in [Revisions -> Read]
        /\ \A r \in Revisions : r # 0 => read'[r].at = "none"
        /\ visible => read'[0].at = "signer" /\ read'[0].cred = stored.cred
        /\ ~visible => read'[0].at = "none"
    <3> DEFINE new == [NoRead EXCEPT !.at = "signer", !.cred = stored.cred]
    <3>1. new \in Read /\ new.at = "signer" /\ new.cred = stored.cred
      BY <1>0 DEF NoRead, Read, Outcomes, Times
    <3>2. read' = [r \in Revisions |-> IF visible /\ r = 0 THEN new ELSE NoRead]
      BY <1>6 DEF Restored
    <3> HIDE DEF new
    <3> QED
      BY <1>2, <3>1, <3>2, NothingTypes
  <2>4. /\ TimerFor(stored.expiresAt) \in Timer /\ TimerFor(stored.expiresAt).on
        /\ TimerFor(stored.expiresAt).expiry = stored.expiresAt
    BY <1>0, TimerForFacts
  <2>5. TypeOK'
    <3>1. MemoryTypes'
      BY <1>0, <1>1, <1>2, <2>1, <2>2, <2>4, Constants DEF MemoryTypes
    <3> QED
      BY <1>2, <1>3, <2>1, <2>3, <3>1, AllTypes DEF CallTypes
  <2>6. RevisionsOK'
    <3>1. \A r \in Revisions : r > rev' => read'[r].at = "none"
      BY <1>1, <2>3
    <3>2. readers' \cup rejected' \subseteq 0..rev'
      BY <1>1, <2>1
    <3> QED
      BY <1>1, <1>2, <1>4, <3>1, <3>2, Constants DEF RevisionsOK
  <2>7. SessionOK'
    BY <1>0, <1>1, <1>2, <2>1 DEF SessionOK, RecordOK
  <2>8. CallsOK'
    <3>1. ASSUME NEW r \in Revisions
          PROVE  ReadOK(r)'
      <4>1. stored.cred <= signIns /\ 0 < stored.cred
        BY <1>0, <1>1, RevisionFacts DEF RecordOK
      <4>2. read'[r].at = "none" \/ (r = 0 /\ read'[r].at = "signer" /\ read'[r].cred = stored.cred)
        BY <2>3
      <4> QED
        BY <1>1, <2>1, <4>1, <4>2 DEF ReadOK
    <3>2. \A o \in Ops : OpOK(o)'
      BY <1>4 DEF OpOK
    <3> QED
      BY <3>1, <3>2 DEF CallsOK
  <2>9. OneForegroundRead'
    <3>1. visible \in BOOLEAN
      BY <1>0 DEF OtherTypes
    <3>2. CASE visible
      BY <1>1, <2>1, <2>2, <2>3, <3>2 DEF OneForegroundRead
    <3>3. CASE ~visible
      <4>1. rev' \notin readers' /\ pending' = TRUE /\ wait'.for # "none"
        BY <2>1, <2>2, <3>3
      <4> QED
        BY <4>1 DEF OneForegroundRead
    <3> QED
      BY <3>2, <3>3
  <2>10. WatchOK'
    BY <1>1, <2>1, <2>2, <2>4 DEF WatchOK, SignedIn
  <2> QED
    BY <1>2, <2>5, <2>6, <2>7, <2>8, <2>9, <2>10 DEF IInv, Grows
<1> QED
  BY <1>5, <1>6 DEF Reload

-----------------------------------------------------------------------------
(* The invariant *)

LEMMA InitInv ==
  ASSUME Init
  PROVE  IInv
<1>1. \A r \in Revisions : read[r] = NoRead
  BY DEF Init
<1>2. \A o \in Ops : op[o] = NoOp
  BY DEF Init
<1>3. \A c \in Creds : ends[c] = 0 /\ caps[c] = 0
  BY DEF Init
<1>4. TypeOK
  <2>1. MemoryTypes
    <3>1. rev \in Revisions
      BY Constants DEF Init, Revisions
    <3> QED
      BY <3>1, NothingTypes, Constants DEF Init, MemoryTypes
  <2>2. CallTypes
    BY NothingTypes DEF Init, CallTypes
  <2>3. OtherTypes
    BY Constants DEF Init, OtherTypes, Times
  <2> QED
    BY <2>1, <2>2, <2>3, AllTypes
<1>5. RevisionsOK
  BY <1>1, <1>2, NothingTypes DEF Init, RevisionsOK, SignedIn
<1>6. WaasOK
  BY <1>3, Constants DEF Init, WaasOK
<1>7. SessionOK
  BY NothingTypes DEF Init, SessionOK, RecordOK, SignedIn
<1>8. CallsOK
  BY <1>1, <1>2, NothingTypes DEF CallsOK, ReadOK, OpOK
<1>9. OneForegroundRead /\ WatchOK
  BY NothingTypes DEF Init, OneForegroundRead, WatchOK, SignedIn
<1> QED
  BY <1>4, <1>5, <1>6, <1>7, <1>8, <1>9 DEF IInv

LEMMA StutterInv ==
  ASSUME IInv, UNCHANGED vars
  PROVE  IInv'
<1>1. /\ Keep /\ UNCHANGED <<read, readers, op>> /\ UNCHANGED <<unsupported, rejected, troubles, visible>>
      /\ UNCHANGED <<now, signIns, ends, caps, revoked>> /\ UNCHANGED session
  BY DEF vars, Keep, calls, answers, waas, memory
<1>2. CallTypes' /\ OtherTypes' /\ Grows
  BY <1>1, KeepFacts, QuietGrows DEF CallTypes, OtherTypes
<1>3. SignedIn /\ rev \in rejected' => ~Live(session.cred)'
  BY <1>1, RevisionFacts DEF Live
<1>4. (unsupported' # 0 => BadRoutes) /\ rejected' \subseteq 0..rev
  BY <1>1, RevisionFacts
<1> QED
  BY <1>1, <1>2, <1>3, <1>4, KeepInv

LEMMA NextInv ==
  ASSUME IInv, [Next]_vars
  PROVE  IInv'
<1>1. ASSUME NEW r \in Revisions, ReadStep(r)
      PROVE  IInv'
  BY <1>1, CheckSignerInv, TakeReadInv, ReadAnsweredInv DEF ReadStep
<1>2. ASSUME NEW o \in Ops, BeginOp(o) \/ OpStep(o)
      PROVE  IInv'
  BY <1>2, BeginOpInv, TakeOpInv, OpAnsweredInv DEF OpStep
<1>3. CASE TimerFires \/ RetryDue \/ Show \/ Hide \/ Tick \/ Revoke
  BY <1>3, TimerFiresInv, RetryDueInv, ShowInv, HideTickRevokeInv
<1>4. CASE SignInNow \/ SignOut \/ Reload
  BY <1>4, SignInNowInv, SignOutInv, ReloadInv
<1>5. CASE UNCHANGED vars
  BY <1>5, StutterInv
<1> QED
  BY <1>1, <1>2, <1>3, <1>4, <1>5 DEF Next

(* The inductive invariant holds in every state.                            *)
THEOREM Invariance == Spec => []IInv
<1>1. Init => IInv
  BY InitInv
<1>2. IInv /\ [Next]_vars => IInv'
  BY NextInv
<1> QED
  BY <1>1, <1>2, PTL DEF Spec

(* Every variable has its type.                                             *)
THEOREM TypeCorrect == Spec => []TypeOK
<1>1. IInv => TypeOK
  BY DEF IInv
<1> QED
  BY <1>1, Invariance, PTL

(* The expiry the client believes is one WaaS gave that very session.       *)
THEOREM ExpiryIsItsOwnAlways == Spec => []ExpiryIsItsOwn
<1>1. ASSUME IInv
      PROVE  ExpiryIsItsOwn
  <2>1. TypeOK /\ SessionOK /\ CallsOK
    BY <1>1 DEF IInv
  <2>2. \A r \in Revisions : read[r].at = "replied" /\ read[r].outcome = "refreshed" =>
          read[r].expiresAt <= ends[read[r].cred]
    BY <2>1, Numbers DEF CallsOK, ReadOK
  <2> QED
    BY <2>1, <2>2 DEF ExpiryIsItsOwn, SessionOK, RecordOK
<1> QED
  BY <1>1, Invariance, PTL

(* An active session is watched: by a timer, a wait or a read under way.    *)
THEOREM WatchedAlways == Spec => []Watched
<1>1. IInv => Watched
  BY DEF IInv, WatchOK, OneForegroundRead, Watched
<1> QED
  BY <1>1, Invariance, PTL

(* The foreground reads share one read, and pending tells of it.            *)
THEOREM OneForegroundReadAlways == Spec => []OneForegroundRead
<1>1. IInv => OneForegroundRead
  BY DEF IInv
<1> QED
  BY <1>1, Invariance, PTL

-----------------------------------------------------------------------------
(* Why a session ends                                                       *)

Ends == SignedIn /\ session'.cred = 0 /\ replay' = session.cred

(* What ends a session that WaaS is not asked about.                        *)
LEMMA UnaskedOver ==
  ASSUME IInv, EndsUnasked, IsExpired(session)
  PROVE  Over(session)
<1>1. IsUnsupported => BadRoutes
  BY RevisionFacts, Numbers DEF IInv, IsUnsupported
<1> QED
  BY <1>1 DEF EndsUnasked, Over

LEMMA ForegroundEnds ==
  ASSUME IInv, Ends, NEW tm, ReadExpiry(tm) \/ ReadInForeground(tm)
  PROVE  Over(session)
<1>1. CASE IsUnsupported /\ IsExpired(session)
  BY <1>1, UnaskedOver DEF EndsUnasked
<1>2. CASE UNCHANGED session
  BY <1>2 DEF Ends, SignedIn
<1> QED
  BY <1>1, <1>2 DEF ReadInForeground, ReadExpiry

LEMMA KeepNeverEnds ==
  ASSUME Ends, Keep \/ UNCHANGED session
  PROVE  FALSE
BY DEF Ends, SignedIn, Keep, memory

LEMMA CheckSignerEnds ==
  ASSUME IInv, Ends, NEW r \in Revisions, CheckSigner(r)
  PROVE  Over(session)
<1>1. CASE ReadStale(r) \/ Keep
  BY <1>1, KeepNeverEnds DEF ReadStale
<1>2. CASE ~SignerMatches(session)
  BY <1>2 DEF Over
<1>3. CASE ReadUnavailable(r)
  BY <1>3, KeepNeverEnds DEF ReadUnavailable
<1> QED
  BY <1>1, <1>2, <1>3 DEF CheckSigner

LEMMA ReadAnsweredEnds ==
  ASSUME IInv, Ends, NEW r \in Revisions, ReadAnswered(r)
  PROVE  Over(session)
<1>0. read[r].at = "replied" /\ ReadOK(r) /\ TypeOK /\ CallsOK
  BY DEF IInv, ReadAnswered, CallsOK
<1>1. CASE ReadStale(r)
  BY <1>1, KeepNeverEnds DEF ReadStale
<1>2. CASE read[r].outcome = "refreshed" /\ ReadRefreshed(r, read[r].expiresAt)
  <2> DEFINE refreshed == [session EXCEPT !.expiresAt = read[r].expiresAt]
  <2>1. r = rev /\ SignedIn /\ read[r].cred = session.cred
    BY <1>0, <1>2, CurrentFacts DEF ReadRefreshed
  <2>2. refreshed.expiresAt = read[r].expiresAt /\ refreshed.cred = session.cred
    BY <1>0 DEF TypeOK, Session
  <2>3. IsExpired(refreshed) => ~Live(session.cred)
    BY <1>0, <1>2, <2>1, <2>2, Numbers DEF ReadOK, IsExpired, Live
  <2>4. CASE session' = refreshed
    BY <2>1, <2>2, <2>4 DEF Ends, SignedIn
  <2> QED
    BY <1>2, <2>3, <2>4 DEF ReadRefreshed, Over
<1>3. CASE read[r].outcome \in {"ended", "unauthorized"} /\ ReadEnded(r)
  <2>1. read[r].cred = session.cred
    BY <1>0, <1>3, CurrentFacts DEF ReadEnded
  <2> QED
    BY <1>0, <1>3, <2>1 DEF ReadOK, Over
<1>4. CASE read[r].outcome = "badRoute" /\ ReadUnsupported(r)
  <2>1. r = rev /\ SignedIn /\ BadRoutes
    BY <1>0, <1>4, CurrentFacts DEF ReadUnsupported, ReadOK
  <2>2. OpsReading(r) # {} => IsExpired(session)
    BY <1>0, <2>1 DEF OpsReading, CallsOK, OpOK
  <2>3. CASE IsExpired(session)
    BY <2>1, <2>3 DEF Over
  <2>4. CASE UNCHANGED session
    BY <2>4, KeepNeverEnds
  <2> QED
    BY <1>4, <2>2, <2>3, <2>4 DEF ReadUnsupported
<1>5. CASE ReadUnavailable(r)
  BY <1>5, KeepNeverEnds DEF ReadUnavailable
<1> QED
  BY <1>1, <1>2, <1>3, <1>4, <1>5 DEF ReadAnswered

LEMMA OpAnsweredEnds ==
  ASSUME IInv, Ends, NEW o \in Ops, OpAnswered(o)
  PROVE  Over(session)
<1>1. CASE Keep
  BY <1>1, KeepNeverEnds
<1>2. CASE EndsSession(o)
  <2>1. op[o].rev = rev /\ rev \in rejected' /\ op[o].at = "replied" /\ OpOK(o) /\ SignedIn
    BY <1>2 DEF EndsSession, OpAnswered, IInv, CallsOK
  <2>2. CASE op[o].reply = "ended"
    BY <2>1, <2>2 DEF OpOK, Over
  <2>3. CASE op[o].reply # "ended"
    BY <2>1, <2>3, RevisionFacts DEF OpAnswered, Over
  <2> QED
    BY <2>2, <2>3
<1> QED
  BY <1>1, <1>2 DEF OpAnswered

LEMMA ReloadEnds ==
  ASSUME IInv, Ends, Reload
  PROVE  Over(session)
<1>1. stored.cred = session.cred /\ stored.ceiling = session.ceiling
  BY DEF Ends, IInv, SessionOK
<1>2. CASE NotRestored
  BY <1>1, <1>2 DEF NotRestored, PastCap, Over
<1>3. CASE Restored
  BY <1>1, <1>3 DEF Restored, Ends, SignedIn
<1> QED
  BY <1>2, <1>3 DEF Reload

LEMMA EndIsJustified ==
  ASSUME IInv, Ends, [Next]_vars
  PROVE  Over(session)
<1>1. CASE TimerFires
  <2>1. CASE IsExpired(session) /\ EndsUnasked
    BY <2>1, UnaskedOver
  <2>2. CASE ReadInForeground(NoTimer)
    BY <2>2, ForegroundEnds
  <2>3. CASE UNCHANGED session
    BY <2>3, KeepNeverEnds
  <2> QED
    BY <1>1, <2>1, <2>2, <2>3 DEF TimerFires
<1>2. CASE RetryDue
  <2>1. CASE ReadInForeground(timer)
    BY <2>1, ForegroundEnds
  <2>2. CASE UNCHANGED session
    BY <2>2, KeepNeverEnds
  <2> QED
    BY <1>2, <2>1, <2>2 DEF RetryDue
<1>3. CASE Show
  BY <1>3, ForegroundEnds, KeepNeverEnds DEF Show
<1>4. CASE Hide \/ Tick \/ Revoke \/ UNCHANGED vars
  BY <1>4, KeepNeverEnds DEF Hide, Tick, Revoke, vars, memory
<1>5. ASSUME NEW r \in Revisions, ReadStep(r)
      PROVE  Over(session)
  BY <1>5, CheckSignerEnds, ReadAnsweredEnds, KeepNeverEnds DEF ReadStep, TakeRead
<1>6. ASSUME NEW o \in Ops, BeginOp(o)
      PROVE  Over(session)
  <2>1. CASE ~SignerMatches(session)
    BY <2>1 DEF Over
  <2>2. CASE IsExpired(session) /\ EndsUnasked
    BY <2>2, UnaskedOver
  <2>3. CASE Keep
    BY <2>3, KeepNeverEnds
  <2> QED
    BY <1>6, <2>1, <2>2, <2>3 DEF BeginOp
<1>7. ASSUME NEW o \in Ops, OpStep(o)
      PROVE  Over(session)
  BY <1>7, OpAnsweredEnds, KeepNeverEnds DEF OpStep, TakeOp
<1>8. CASE SignInNow
  <2>1. session'.cred = signIns + 1 /\ signIns \in Nat
    BY <1>8, Numbers DEF SignInNow, SignIn, IInv
  <2> QED
    BY <2>1 DEF Ends
<1>9. CASE SignOut
  BY <1>9 DEF SignOut, Ends, SignedIn
<1>10. CASE Reload
  BY <1>10, ReloadEnds
<1> QED
  BY <1>1, <1>2, <1>3, <1>4, <1>5, <1>6, <1>7, <1>8, <1>9, <1>10 DEF Next

(* A session is ended as expired only when it is over: WaaS is past it or   *)
(* has revoked it, its cap has passed, its key is gone, or WaaS cannot be   *)
(* asked and its last word has passed.                                      *)
THEOREM NoEarlyEndAlways == Spec => NoEarlyEnd
<1>1. IInv /\ [Next]_vars =>
        [\A c \in Creds \ {0} :
           session.cred = c /\ session'.cred = 0 /\ replay' = c => Over(session)]_vars
  BY EndIsJustified DEF Ends, SignedIn
<1> QED
  BY <1>1, Invariance, PTL DEF Spec, NoEarlyEnd

=============================================================================
