------------------------- MODULE SharedSessionProofs -------------------------
(* Proofs about SharedSession, for any tabs, credentials, wallets and       *)
(* bounds.                                                                  *)
EXTENDS SharedSession, TLAPS

-----------------------------------------------------------------------------
(* What the operators the actions are built from do to the types. *)

LEMMA SetTaskType ==
  ASSUME TypeOK, NEW t \in Tabs, NEW k \in Kinds, NEW r \in Task,
         Captured(k, r), SetTask(t, k, r)
  PROVE  TasksOK'
<1>1. task' \in [Tabs -> [Kinds -> Task]]
  BY DEF TypeOK, TasksOK, SetTask
<1>2. ASSUME NEW u \in Tabs, NEW j \in Kinds
      PROVE  Captured(j, task'[u][j])
  <2>1. task'[u][j] = IF u = t /\ j = k THEN r ELSE task[u][j]
    BY DEF TypeOK, TasksOK, SetTask
  <2> QED BY <2>1 DEF TypeOK, TasksOK
<1> QED BY <1>1, <1>2 DEF TasksOK

LEMMA IdleTaskType == IdleTask \in Task
BY DEF IdleTask, Task, TaskPC, SessionOrNone, CredOrNone

LEMMA IdleAuthType == IdleAuth \in Auth
BY DEF IdleAuth, Auth, AuthPC, SessionOrNone

LEMMA FinishType ==
  ASSUME TypeOK, NEW t \in Tabs, NEW k \in Kinds, Finish(t, k)
  PROVE  TasksOK'
<1>1. Captured(k, IdleTask)
  BY DEF Captured, IdleTask
<1> QED BY <1>1, SetTaskType, IdleTaskType DEF Finish

LEMMA GotoType ==
  ASSUME TypeOK, NEW t \in Tabs, NEW k \in Kinds, NEW pc \in TaskPC,
         ~At(t, k, "idle"), ~At(t, k, "judgeOwn"), ~At(t, k, "judgeOther"),
         Goto(t, k, pc)
  PROVE  TasksOK'
<1>1. task[t][k] \in Task /\ Captured(k, task[t][k])
  BY DEF TypeOK, TasksOK
<1>2. [task[t][k] EXCEPT !.pc = pc] \in Task
  BY <1>1 DEF Task
<1>3. Captured(k, [task[t][k] EXCEPT !.pc = pc])
  BY <1>1 DEF Captured, Task, At
<1> QED BY <1>2, <1>3, SetTaskType DEF Goto

LEMMA StoreType ==
  ASSUME TypeOK, NEW t \in Tabs, NEW r \in SessionOrNone, Store(t, r)
  PROVE  record' \in SessionOrNone /\ notice' \in [Tabs -> BOOLEAN]
BY DEF TypeOK, Store, NoticeFrom

LEMMA UseType ==
  ASSUME TypeOK, NEW c \in CredOrNone, Use(c)
  PROVE  /\ key' \in CredOrNone
         /\ status' \in [Creds -> {"unused", "new", "live", "ended", "capped"}]
BY DEF TypeOK, Use, CredOrNone

LEMMA CredOfType == ASSUME NEW s \in SessionOrNone PROVE CredOf(s) \in CredOrNone
BY ConstantsAssumption DEF CredOf, SessionOrNone, CredOrNone, Session

LEMMA EndSessionType ==
  ASSUME TypeOK, NEW t \in Tabs, NEW automatic \in BOOLEAN,
         NEW keepRecord \in BOOLEAN, NEW end \in {"signedOut", "expired"},
         NEW signIn \in BOOLEAN,
         EndSession(t, automatic, keepRecord, end, signIn)
  PROVE  /\ record' \in SessionOrNone
         /\ notice' \in [Tabs -> BOOLEAN]
         /\ mem' \in [Tabs -> SessionOrNone]
         /\ rev' \in [Tabs -> Nat]
         /\ cleanups' \subseteq Cleanup
         /\ UNCHANGED <<key, status, published>>
<1>1. record' \in SessionOrNone /\ notice' \in [Tabs -> BOOLEAN]
  BY StoreType DEF EndSession, TypeOK, SessionOrNone
<1>2. mem' \in [Tabs -> SessionOrNone] /\ rev' \in [Tabs -> Nat]
  BY DEF EndSession, TypeOK, SessionOrNone
<1>3. CredOf(mem[t]) \in CredOrNone
  BY CredOfType DEF TypeOK
<1>4. cleanups' \subseteq Cleanup
  BY <1>3 DEF EndSession, TypeOK, Cleanup
<1> QED BY <1>1, <1>2, <1>4 DEF EndSession

LEMMA ForgetSessionType ==
  ASSUME TypeOK, NEW t \in Tabs, ForgetSession(t)
  PROVE  /\ mem' \in [Tabs -> SessionOrNone]
         /\ rev' \in [Tabs -> Nat]
         /\ published' \in [Tabs -> SessionOrNone]
         /\ UNCHANGED <<record, key, status, cleanups>>
BY DEF TypeOK, ForgetSession, Publish, SessionOrNone

LEMMA JudgingType ==
  ASSUME TypeOK, NEW t \in Tabs, NEW k \in Kinds, NEW r \in Nat,
         Judging(t, k, r)
  PROVE  TasksOK'
<1> DEFINE pc == IF CredOf(record) = CredOf(mem[t]) THEN "judgeOwn"
                                                     ELSE "judgeOther"
<1>1. pc \in TaskPC
  BY DEF TaskPC
<1>2. [IdleTask EXCEPT !.pc = pc, !.rev = r, !.session = record, !.seen = key]
        \in Task
  BY <1>1 DEF IdleTask, Task, TypeOK
<1>3. Captured(k, [IdleTask EXCEPT !.pc = pc, !.rev = r, !.session = record,
                                   !.seen = key])
  BY DEF IdleTask, Captured
<1> QED BY <1>2, <1>3, SetTaskType DEF Judging

LEMMA LostType ==
  ASSUME TypeOK, NEW t \in Tabs, Lost(t)
  PROVE  /\ record' \in SessionOrNone
         /\ notice' \in [Tabs -> BOOLEAN]
         /\ mem' \in [Tabs -> SessionOrNone]
         /\ rev' \in [Tabs -> Nat]
         /\ cleanups' \subseteq Cleanup
         /\ UNCHANGED <<key, status, published>>
BY EndSessionType DEF Lost

LEMMA ExpiredType ==
  ASSUME TypeOK, NEW t \in Tabs, Expired(t)
  PROVE  /\ record' \in SessionOrNone
         /\ notice' \in [Tabs -> BOOLEAN]
         /\ mem' \in [Tabs -> SessionOrNone]
         /\ rev' \in [Tabs -> Nat]
         /\ cleanups' \subseteq Cleanup
         /\ UNCHANGED <<key, status, published>>
BY EndSessionType DEF Expired

LEMMA MismatchType ==
  ASSUME TypeOK, NEW t \in Tabs, NEW k \in Kinds, Mismatch(t, k), UNCHANGED auth
  PROVE  TypeOK'
<1>1. CASE record = NoSession
  BY <1>1, LostType, FinishType DEF Mismatch, TypeOK
<1>2. CASE record # NoSession
  <2>1. rev[t] \in Nat
    BY DEF TypeOK
  <2>2. TasksOK'
    BY <1>2, <2>1, JudgingType DEF Mismatch
  <2> QED BY <1>2, <2>2 DEF Mismatch, TypeOK, shared
<1> QED BY <1>1, <1>2

-----------------------------------------------------------------------------
(* Every step preserves the types. *)

LEMMA CleanupStepType ==
  ASSUME TypeOK, NEW c \in cleanups, DeleteKey(c) \/ DeleteKeyFails(c)
  PROVE  TypeOK'
<1>1. c \in Cleanup
  BY DEF TypeOK
<1>2. c.tab \in Tabs
  BY <1>1 DEF Cleanup
<1>3. key' \in CredOrNone
  BY DEF TypeOK, DeleteKey, DeleteKeyFails, CredOrNone
<1>4. PICK deleted \in BOOLEAN : AfterCleanup(c, deleted)
  BY DEF DeleteKey, DeleteKeyFails
<1>5. published' \in [Tabs -> SessionOrNone]
  BY <1>2, <1>4 DEF AfterCleanup, Publish, TypeOK
<1>6. auth' \in [Tabs -> Auth]
  <2>1. auth[c.tab] \in Auth /\ rev[c.tab] \in Nat
    BY <1>2 DEF TypeOK
  <2>2. [auth[c.tab] EXCEPT !.pc = "commit", !.rev = rev[c.tab]] \in Auth
    BY <2>1 DEF Auth, AuthPC
  <2> QED BY <1>2, <1>4, <2>2, IdleAuthType DEF AfterCleanup, TypeOK
<1>7. cleanups' \subseteq Cleanup
  BY <1>4 DEF AfterCleanup, TypeOK
<1> QED BY <1>3, <1>4, <1>5, <1>6, <1>7 DEF AfterCleanup, TypeOK, TasksOK

LEMMA SignOutType ==
  ASSUME TypeOK, NEW t \in Tabs,
         SignOut(t) \/ SignInStart(t) \/ ExpireAtCap(t)
  PROVE  TypeOK'
<1>1. auth[t] \in Auth
  BY DEF TypeOK
<1>2. auth' \in [Tabs -> Auth] /\ UNCHANGED task
  <2>1. CASE SignOut(t)
    <3> DEFINE b == auth[t].pc # "idle"
    <3>1. b \in BOOLEAN /\ auth' = [auth EXCEPT ![t].signedOut = b]
      BY <2>1 DEF SignOut
    <3> HIDE DEF b
    <3> QED BY <1>1, <2>1, <3>1 DEF SignOut, TypeOK, Auth
  <2>2. CASE SignInStart(t)
    BY <1>1, <2>2 DEF TypeOK, SignInStart, Auth, AuthPC
  <2>3. CASE ExpireAtCap(t)
    BY <2>3 DEF TypeOK, ExpireAtCap
  <2> QED BY <2>1, <2>2, <2>3
<1>3. PICK automatic \in BOOLEAN, keepRecord \in BOOLEAN,
           end \in {"signedOut", "expired"}, signIn \in BOOLEAN :
        EndSession(t, automatic, keepRecord, end, signIn)
  BY DEF SignOut, SignInStart, ExpireAtCap, SignedOut, Expired
<1> QED BY <1>2, <1>3, EndSessionType DEF TypeOK, TasksOK

LEMMA SignInType ==
  ASSUME TypeOK, NEW t \in Tabs, SignIn(t)
  PROVE  TypeOK'
<1>1. auth[t] \in Auth
  BY DEF TypeOK
<1>2. \A pc \in AuthPC : [auth EXCEPT ![t].pc = pc] \in [Tabs -> Auth]
  BY <1>1 DEF TypeOK, Auth
<1>3. SignerCreds \subseteq CredOrNone
  BY DEF SignerCreds, TypeOK, CredOrNone
<1>4. CASE SignInCommit(t)
  <2>1. PICK c \in SignerCreds \ {NoCred} : Use(c)
    BY <1>4 DEF SignInCommit
  <2> QED BY <1>2, <1>3, <1>4, <2>1, UseType DEF SignInCommit, AuthPC, TypeOK, TasksOK
<1>5. CASE SignInComplete(t)
  <2>1. PICK c \in SignerCreds \ {NoCred} :
          /\ key' = c
          /\ status' = [status EXCEPT ![c] = "live"]
    BY <1>5 DEF SignInComplete
  <2>2. key' \in CredOrNone
    BY <1>3, <2>1
  <2>3. status' \in [Creds -> {"unused", "new", "live", "ended", "capped"}]
    BY <2>1 DEF TypeOK
  <2>4. auth' \in [Tabs -> Auth]
    BY <1>2, <1>5 DEF SignInComplete, AuthPC
  <2> QED BY <1>5, <2>2, <2>3, <2>4 DEF SignInComplete, TypeOK, TasksOK
<1>6. CASE SignInIdentify(t)
  <2>1. PICK c \in SignerCreds \ {NoCred}, w \in Wallets :
          /\ Use(c)
          /\ auth' = [auth EXCEPT ![t] =
               IF RevisionCurrent(t)
                 THEN [@ EXCEPT !.pc = "select",
                                !.session = [cred |-> c, wallet |-> w]]
                 ELSE IdleAuth]
    BY <1>6 DEF SignInIdentify, Identity
  <2>2. [cred |-> c, wallet |-> w] \in SessionOrNone
    BY <1>3, <2>1 DEF SessionOrNone, Session, CredOrNone
  <2>3. auth' \in [Tabs -> Auth]
    BY <1>1, <2>1, <2>2, IdleAuthType DEF TypeOK, Auth, AuthPC
  <2> QED BY <1>3, <1>6, <2>1, <2>3, UseType DEF SignInIdentify, TypeOK, TasksOK
<1>7. CASE SignInSelect(t)
  BY <1>2, <1>7 DEF SignInSelect, AuthPC, TypeOK, TasksOK, shared
<1>8. CASE SignInPersist(t)
  <2>1. auth[t].session \in SessionOrNone
    BY <1>1 DEF Auth
  <2> QED BY <1>8, <2>1, StoreType, IdleAuthType 
       DEF SignInPersist, Publish, TypeOK, TasksOK
<1>9. CASE SignInFails(t)
  BY <1>9, IdleAuthType DEF SignInFails, TypeOK, TasksOK, shared
<1> QED BY <1>4, <1>5, <1>6, <1>7, <1>8, <1>9 DEF SignIn

LEMMA RequestType ==
  ASSUME TypeOK, NEW t \in Tabs, NEW k \in Kinds,
         Request(t, k) \/ RequestFails(t, k)
  PROVE  TypeOK'
<1>1. CASE Request(t, k)
  <2>1. PICK c \in SignerCreds \ {NoCred} :
          /\ Use(c)
          /\ Goto(t, k, IF status[c] = "live" THEN "answered" ELSE "refused")
    BY <1>1 DEF Request
  <2>2. c \in CredOrNone
    BY <2>1 DEF SignerCreds, TypeOK, CredOrNone
  <2>3. (IF status[c] = "live" THEN "answered" ELSE "refused") \in TaskPC
    BY DEF TaskPC
  <2>4. TasksOK'
    BY <1>1, <2>1, <2>3, GotoType DEF Request, At
  <2> QED BY <1>1, <2>1, <2>2, <2>4, UseType DEF Request, TypeOK
<1>2. CASE RequestFails(t, k)
  BY <1>2, FinishType DEF RequestFails, TypeOK, shared
<1> QED BY <1>1, <1>2

LEMMA ResolveType ==
  ASSUME TypeOK, NEW t \in Tabs, NEW k \in Kinds,
         ResolveOwn(t, k) \/ ResolveOther(t, k)
  PROVE  TypeOK'
<1>1. task[t][k] \in Task
  BY DEF TypeOK, TasksOK
<1>2. TasksOK'
  <2>1. task[t][k].rev \in Nat
    BY <1>1 DEF Task
  <2> QED BY <2>1, FinishType, JudgingType DEF ResolveOwn, ResolveOther
<1>3. UNCHANGED <<key, status, auth>>
  BY ExpiredType, LostType DEF ResolveOwn, ResolveOther, ForgetSession, shared
<1>4. /\ record' \in SessionOrNone
      /\ notice' \in [Tabs -> BOOLEAN]
      /\ mem' \in [Tabs -> SessionOrNone]
      /\ rev' \in [Tabs -> Nat]
      /\ published' \in [Tabs -> SessionOrNone]
      /\ cleanups' \subseteq Cleanup
  <2>1. CASE ResolveOwn(t, k)
    BY <2>1, ExpiredType, LostType DEF ResolveOwn, TypeOK, shared
  <2>2. CASE ResolveOther(t, k)
    BY <2>2, ForgetSessionType, LostType DEF ResolveOther, TypeOK, shared
  <2> QED BY <2>1, <2>2
<1> QED BY <1>2, <1>3, <1>4 DEF TypeOK

LEMMA CallType ==
  ASSUME TypeOK, NEW t \in Tabs, CallStart(t) \/ Call(t)
  PROVE  TypeOK'
<1>1. /\ "call" \in Kinds /\ task[t]["call"] \in Task
      /\ Captured("call", task[t]["call"])
  BY DEF TypeOK, TasksOK, Kinds
<1>2. CASE CallStart(t)
  <2>1. CASE Holds(mem[t])
    <3>1. PICK w \in Wallets :
            SetTask(t, "call", [IdleTask EXCEPT !.pc = "request", !.rev = rev[t],
                                                !.session = mem[t], !.wallet = w])
      BY <1>2, <2>1 DEF CallStart
    <3>2. [IdleTask EXCEPT !.pc = "request", !.rev = rev[t],
                           !.session = mem[t], !.wallet = w] \in Task
      BY DEF IdleTask, Task, TaskPC, TypeOK, CredOrNone
    <3>4. Captured("call", [IdleTask EXCEPT !.pc = "request", !.rev = rev[t],
                                            !.session = mem[t], !.wallet = w])
      BY <2>1 DEF Captured, IdleTask, Holds, TypeOK, SessionOrNone
    <3>3. TasksOK'
      BY <1>1, <3>1, <3>2, <3>4, SetTaskType
    <3> QED BY <1>2, <2>1, <3>3 DEF CallStart, TypeOK, shared
  <2>2. CASE ~Holds(mem[t])
    BY <1>1, <1>2, <2>2, MismatchType DEF CallStart
  <2> QED BY <2>1, <2>2
<1>3. CASE CallRefused(t)
  BY <1>1, <1>3, FinishType, ExpiredType DEF CallRefused, TypeOK, shared
<1>4. CASE CallAnswered(t)
  <2>1. [task[t]["call"] EXCEPT !.pc = "checked", !.rev = rev[t], !.seen = key]
          \in Task
    BY <1>1 DEF Task, TaskPC, TypeOK
  <2>3. Captured("call", [task[t]["call"] EXCEPT !.pc = "checked", !.rev = rev[t],
                                                 !.seen = key])
    BY <1>1, <1>4 DEF CallAnswered, At, Captured, Task
  <2>2. TasksOK'
    BY <1>1, <1>4, <2>1, <2>3, SetTaskType, FinishType DEF CallAnswered
  <2> QED BY <1>4, <2>2, ExpiredType DEF CallAnswered, TypeOK, shared
<1>5. CASE CallApply(t)
  <2> DEFINE s == [task[t]["call"].session EXCEPT !.wallet = task[t]["call"].wallet]
  <2>1. CASE ~SignerMatched(t, "call") /\ rev[t] = task[t]["call"].rev
    BY <1>1, <1>5, <2>1, MismatchType DEF CallApply
  <2>2. CASE SignerMatched(t, "call") /\ SameActiveWalletSession(t)
    <3>1. s \in SessionOrNone
      BY <1>1, <1>5 DEF CallApply, At, Captured, SessionOrNone, Session
    <3>2. Store(t, s) /\ mem' = [mem EXCEPT ![t] = s] /\ Publish(t, s)
      BY <1>5, <2>2 DEF CallApply
    <3>3. Finish(t, "call") /\ UNCHANGED <<key, status, rev, cleanups, auth>>
      BY <1>5, <2>2 DEF CallApply
    <3> QED BY <1>1, <3>1, <3>2, <3>3, StoreType, FinishType DEF Publish, TypeOK
  <2>3. CASE /\ ~(~SignerMatched(t, "call") /\ rev[t] = task[t]["call"].rev)
             /\ ~(SignerMatched(t, "call") /\ SameActiveWalletSession(t))
    BY <1>1, <1>5, <2>3, FinishType DEF CallApply, TypeOK
  <2> QED BY <2>1, <2>2, <2>3
<1> QED BY <1>2, <1>3, <1>4, <1>5 DEF Call
LEMMA ReadType ==
  ASSUME TypeOK, NEW t \in Tabs, ReadStart(t) \/ Read(t)
  PROVE  TypeOK'
<1>1. "read" \in Kinds
  BY DEF Kinds
<1>2. CASE ReadStart(t)
  <2> DEFINE r == [IdleTask EXCEPT !.pc = "request", !.rev = rev[t],
                                   !.session = mem[t]]
  <2>1. CASE Holds(mem[t])
    <3>1. r \in Task
      BY DEF IdleTask, Task, TaskPC, TypeOK, CredOrNone
    <3>2. Captured("read", r)
      BY <2>1 DEF Captured, IdleTask, Holds, TypeOK, SessionOrNone
    <3>3. TasksOK'
      BY <1>1, <1>2, <2>1, <3>1, <3>2, SetTaskType DEF ReadStart
    <3> QED BY <1>2, <2>1, <3>3 DEF ReadStart, TypeOK, shared
  <2>2. CASE ~Holds(mem[t])
    BY <1>1, <1>2, <2>2, MismatchType DEF ReadStart
  <2> QED BY <2>1, <2>2
<1>3. CASE ReadApply(t)
  <2>1. record' \in SessionOrNone /\ notice' \in [Tabs -> BOOLEAN]
    BY <1>3 DEF ReadApply, RefreshedRecord, NoticeFrom, TypeOK
  <2> QED BY <1>1, <1>3, <2>1, FinishType DEF ReadApply, Publish, TypeOK
<1>4. CASE ReadRefused(t)
  BY <1>1, <1>4, FinishType, ExpiredType DEF ReadRefused, TypeOK, shared
<1> QED BY <1>2, <1>3, <1>4 DEF Read

LEMMA FollowType ==
  ASSUME TypeOK, NEW t \in Tabs, Follow(t)
  PROVE  TypeOK'
<1> DEFINE work == task[t]["reconcile"]
<1>1. "reconcile" \in Kinds /\ work \in Task /\ Captured("reconcile", work)
  BY DEF Kinds, TypeOK, TasksOK
<1>2. \A changed \in BOOLEAN : PassAgain(t, changed) \in [Tabs -> BOOLEAN]
  BY DEF PassAgain, TypeOK
<1>3. CASE Reconcile(t)
  <2> DEFINE own == CredOf(mem[t]) = CredOf(record)
             r == [IdleTask EXCEPT !.pc = IF own THEN "own" ELSE "follow",
                                   !.rev = rev[t], !.session = record,
                                   !.seen = key]
  <2>1. notice' \in [Tabs -> BOOLEAN]
    BY <1>3 DEF Reconcile, TypeOK
  <2>2. CASE record = NoSession
    BY <1>3, <2>1, <2>2, ForgetSessionType DEF Reconcile, TypeOK, TasksOK, shared
  <2>3. CASE record # NoSession
    <3>1. r \in Task
      BY DEF IdleTask, Task, TaskPC, TypeOK
    <3>2. Captured("reconcile", r)
      BY <2>3 DEF Captured, IdleTask, TypeOK, SessionOrNone
    <3>3. TasksOK'
      <4>1. UNCHANGED task \/ SetTask(t, "reconcile", r)
        BY <1>3, <2>3 DEF Reconcile
      <4> QED BY <1>1, <3>1, <3>2, <4>1, SetTaskType DEF TypeOK, TasksOK
    <3> QED BY <1>3, <2>1, <2>3, <3>3 DEF Reconcile, TypeOK, shared
  <2> QED BY <2>2, <2>3
<1>4. CASE ReconcileOwn(t)
  <2> DEFINE current == rev[t] = work.rev /\ mem[t] # NoSession
             changed == current /\ record # work.session
  <2>1. CASE current /\ ~changed /\ ~SignerMatched(t, "reconcile")
    BY <1>1, <1>4, <2>1, MismatchType DEF ReconcileOwn
  <2>2. CASE ~(current /\ ~changed /\ ~SignerMatched(t, "reconcile"))
    <3>1. current => StoredWallet(t, work.session) \in SessionOrNone
      BY <1>1, <1>4
         DEF ReconcileOwn, StoredWallet, Captured, TypeOK, SessionOrNone, Session
    <3>2. /\ mem' \in [Tabs -> SessionOrNone]
          /\ published' \in [Tabs -> SessionOrNone]
      BY <1>4, <2>2, <3>1 DEF ReconcileOwn, Publish, TypeOK
    <3>3. notice' \in [Tabs -> BOOLEAN]
      <4>1. PICK b \in BOOLEAN : notice' = PassAgain(t, b)
        BY <1>4, <2>2 DEF ReconcileOwn
      <4> QED BY <1>2, <4>1
    <3>4. Finish(t, "reconcile") /\ UNCHANGED <<shared, rev, cleanups, auth>>
      BY <1>4, <2>2 DEF ReconcileOwn
    <3> QED BY <1>1, <3>2, <3>3, <3>4, FinishType DEF TypeOK, shared
  <2> QED BY <2>1, <2>2
<1>5. CASE ReconcileFollow(t)
  <2>1. work.session \in SessionOrNone
    BY <1>1 DEF Task
  <2>2. /\ mem' \in [Tabs -> SessionOrNone]
        /\ published' \in [Tabs -> SessionOrNone]
        /\ rev' \in [Tabs -> Nat]
    BY <1>5, <2>1 DEF ReconcileFollow, Publish, TypeOK
  <2>3. notice' \in [Tabs -> BOOLEAN]
    <3>1. PICK b \in BOOLEAN : notice' = PassAgain(t, b)
      BY <1>5 DEF ReconcileFollow
    <3> QED BY <1>2, <3>1
  <2> QED BY <1>1, <1>5, <2>2, <2>3, FinishType DEF ReconcileFollow, TypeOK, shared
<1> QED BY <1>3, <1>4, <1>5 DEF Follow

LEMMA ReloadType ==
  ASSUME TypeOK, NEW t \in Tabs, Reload(t)
  PROVE  TypeOK'
<1> DEFINE lapsed == [tab |-> t, rev |-> 0, automatic |-> TRUE, cred |-> CredOf(record),
                      end |-> "expired", signIn |-> FALSE]
<1>1. Restored \in SessionOrNone
  BY DEF Restored, TypeOK, SessionOrNone
<1>2. lapsed \in Cleanup
  BY CredOfType DEF TypeOK, Cleanup
<1>3. cleanups' \subseteq Cleanup
  BY <1>2 DEF Reload, TypeOK
<1>4. TasksOK'
  <2>1. task' = [task EXCEPT ![t] = [k \in Kinds |-> IdleTask]]
    BY DEF Reload
  <2>2. task' \in [Tabs -> [Kinds -> Task]]
    BY <2>1, IdleTaskType DEF TypeOK, TasksOK
  <2>3. ASSUME NEW u \in Tabs, NEW k \in Kinds
        PROVE  Captured(k, task'[u][k])
    <3>1. task'[u][k] = IF u = t THEN IdleTask ELSE task[u][k]
      BY <2>1 DEF TypeOK, TasksOK
    <3> QED BY <3>1 DEF TypeOK, TasksOK, Captured, IdleTask
  <2> QED BY <2>2, <2>3 DEF TasksOK
<1> QED BY <1>1, <1>3, <1>4, IdleAuthType DEF Reload, TypeOK, shared

LEMMA WaasType ==
  ASSUME TypeOK, NEW c \in Creds, WaasEnds(c) \/ CapPasses(c)
  PROVE  TypeOK'
BY DEF TypeOK, TasksOK, WaasEnds, CapPasses

LEMMA InitType == Init => TypeOK
<1> SUFFICES ASSUME Init PROVE TypeOK
  OBVIOUS
<1>1. TasksOK
  BY IdleTaskType DEF Init, TasksOK, Captured, IdleTask
<1> QED BY <1>1, IdleAuthType, CredOfType DEF Init, TypeOK

LEMMA NextType == TypeOK /\ [Next]_vars => TypeOK'
<1> SUFFICES ASSUME TypeOK, [Next]_vars PROVE TypeOK'
  OBVIOUS
<1>1. CASE Environment
  BY <1>1, SignOutType, CallType, ReadType, ReloadType, WaasType DEF Environment
<1>2. ASSUME NEW t \in Tabs,
             SignIn(t) \/ Call(t) \/ Read(t) \/ Follow(t) \/ ExpireAtCap(t)
      PROVE  TypeOK'
  BY <1>2, SignInType, CallType, ReadType, FollowType, SignOutType
<1>3. ASSUME NEW t \in Tabs, NEW k \in Kinds,
             Request(t, k) \/ RequestFails(t, k) \/ ResolveOwn(t, k)
               \/ ResolveOther(t, k)
      PROVE  TypeOK'
  BY <1>3, RequestType, ResolveType
<1>4. ASSUME NEW c \in cleanups, DeleteKey(c) \/ DeleteKeyFails(c)
      PROVE  TypeOK'
  BY <1>4, CleanupStepType
<1>5. CASE UNCHANGED vars
  BY <1>5 DEF vars, shared, TypeOK, TasksOK
<1> QED BY <1>1, <1>2, <1>3, <1>4, <1>5 DEF Next

(* The state of every tab and what the tabs share keep their types, and a   *)
(* task under way has captured a session: see TypeOK.                       *)
THEOREM TypeCorrect == Spec => []TypeOK
BY InitType, NextType, PTL DEF Spec
-----------------------------------------------------------------------------
(* The end of a session is published, and a tab with a session awaits no    *)
(* key deletion. Both are about one tab; what makes them inductive is that  *)
(* a step that captured the tab's revision, when no deletion was pending,   *)
(* and still finds that revision, finds no deletion pending: every deletion *)
(* begins with a new revision.                                              *)

RevsPast(t) ==
  /\ auth[t].rev <= rev[t]
  /\ \A k \in Kinds : task[t][k].rev <= rev[t]

SignInAlone(t) ==
  /\ auth[t].pc \in {"complete", "identify", "select", "persist"}
  /\ auth[t].rev = rev[t]
  => KeyAccess(t)

FollowAlone(t) ==
  /\ task[t]["reconcile"].pc = "follow"
  /\ task[t]["reconcile"].rev = rev[t]
  => KeyAccess(t)

SessionAlone(t) == mem[t] # NoSession => KeyAccess(t)

PublishedOrEnding(t) ==
  published[t] # mem[t] => \E c \in cleanups : c.tab = t /\ c.rev = rev[t]

TabInv(t) ==
  /\ RevsPast(t)
  /\ SignInAlone(t)
  /\ FollowAlone(t)
  /\ SessionAlone(t)
  /\ PublishedOrEnding(t)

EndInv == TypeOK /\ \A t \in Tabs : TabInv(t)

LEMMA EndInvImplies == EndInv => SessionMeansNoCleanup /\ PublishedFollowsState
<1> SUFFICES ASSUME EndInv PROVE SessionMeansNoCleanup /\ PublishedFollowsState
  OBVIOUS
<1>1. \A c \in cleanups : c.tab \in Tabs
  BY DEF EndInv, TypeOK, Cleanup
<1> QED
  BY <1>1 DEF EndInv, TabInv, SessionAlone, KeyAccess, PublishedOrEnding,
              SessionMeansNoCleanup, PublishedFollowsState

LEMMA InitEndInv == Init => EndInv
<1> SUFFICES ASSUME Init, NEW t \in Tabs PROVE TabInv(t)
  BY InitType DEF EndInv
<1> QED
  BY DEF Init, TabInv, RevsPast, SignInAlone, FollowAlone, SessionAlone,
         PublishedOrEnding, KeyAccess, IdleAuth, IdleTask, Kinds

(* A step of tab t, seen from the other tabs.                               *)
OthersKept(t) ==
  \A u \in Tabs \ {t} :
    /\ mem'[u] = mem[u]
    /\ rev'[u] = rev[u]
    /\ published'[u] = published[u]
    /\ auth'[u] = auth[u]
    /\ task'[u] = task[u]
    /\ \A c : c.tab = u => (c \in cleanups' <=> c \in cleanups)

LEMMA OtherTabs ==
  ASSUME EndInv, NEW t \in Tabs, OthersKept(t), TypeOK', TabInv(t)'
  PROVE  EndInv'
<1> SUFFICES ASSUME NEW u \in Tabs \ {t} PROVE TabInv(u)'
  BY DEF EndInv
<1>1. TabInv(u)
  BY DEF EndInv
<1>2. KeyAccess(u) => KeyAccess(u)'
  BY DEF KeyAccess, OthersKept
<1> QED
  BY <1>1, <1>2 DEF TabInv, RevsPast, SignInAlone, FollowAlone, SessionAlone,
                    PublishedOrEnding, OthersKept

(* The sign-in and the tasks of tab t, after a step, are of past revisions. *)
RevsStayPast(t) ==
  /\ auth'[t].rev <= rev[t]
  /\ \A k \in Kinds : task'[t][k].rev <= rev[t]

LEMMA TasksStayPast ==
  ASSUME EndInv, NEW t \in Tabs, NEW k \in Kinds, NEW r, SetTask(t, k, r),
         r.rev <= rev[t]
  PROVE  /\ \A j \in Kinds : task'[t][j].rev <= rev[t]
         /\ \A u \in Tabs \ {t} : task'[u] = task[u]
<1>1. \A j \in Kinds : task[t][j].rev <= rev[t]
  BY DEF EndInv, TabInv, RevsPast
<1> QED BY <1>1 DEF SetTask, EndInv, TypeOK, TasksOK

(* A session that ends leaves its deletion, of the new revision.            *)
LEMMA EndSessionInv ==
  ASSUME EndInv, NEW t \in Tabs, NEW automatic, NEW keepRecord, NEW end, NEW signIn,
         EndSession(t, automatic, keepRecord, end, signIn), RevsStayPast(t), TypeOK'
  PROVE  TabInv(t)'
<1>1. rev[t] \in Nat /\ rev'[t] = rev[t] + 1 /\ mem'[t] = NoSession
  BY DEF EndInv, TypeOK, EndSession
<1>5. auth'[t].rev \in Nat /\ \A k \in Kinds : task'[t][k].rev \in Nat
  BY DEF TypeOK, TasksOK, Auth, Task
<1>2. auth'[t].rev < rev'[t] /\ \A k \in Kinds : task'[t][k].rev < rev'[t]
  BY <1>1, <1>5 DEF RevsStayPast
<1>6. auth'[t].rev <= rev'[t] /\ \A k \in Kinds : task'[t][k].rev <= rev'[t]
  BY <1>1, <1>2, <1>5
<1>3. RevsPast(t)'
  BY <1>6 DEF RevsPast
<1>4. \E c \in cleanups' : c.tab = t /\ c.rev = rev'[t]
  <2> DEFINE d == [tab |-> t, rev |-> rev[t] + 1, automatic |-> automatic,
                   cred |-> CredOf(mem[t]), end |-> end, signIn |-> signIn]
  <2>1. d \in cleanups'
    BY DEF EndSession
  <2>2. d.tab = t /\ d.rev = rev'[t]
    BY <1>1
  <2> QED BY <2>1, <2>2
<1> QED
  BY <1>1, <1>2, <1>3, <1>4, <1>5
     DEF TabInv, SignInAlone, FollowAlone, SessionAlone, PublishedOrEnding, Kinds

(* A session dropped at once is published at once.                          *)
LEMMA ForgetSessionInv ==
  ASSUME EndInv, NEW t \in Tabs, ForgetSession(t), RevsStayPast(t), TypeOK'
  PROVE  TabInv(t)'
<1>1. /\ rev[t] \in Nat /\ rev'[t] = rev[t] + 1
      /\ mem'[t] = NoSession /\ published'[t] = NoSession
  BY DEF EndInv, TypeOK, ForgetSession, Publish
<1>2. auth'[t].rev \in Nat /\ \A k \in Kinds : task'[t][k].rev \in Nat
  BY DEF TypeOK, TasksOK, Auth, Task
<1>3. auth'[t].rev < rev'[t] /\ \A k \in Kinds : task'[t][k].rev < rev'[t]
  BY <1>1, <1>2 DEF RevsStayPast
<1>4. auth'[t].rev <= rev'[t] /\ \A k \in Kinds : task'[t][k].rev <= rev'[t]
  BY <1>1, <1>2, <1>3
<1> QED
  BY <1>1, <1>2, <1>3, <1>4
     DEF TabInv, RevsPast, SignInAlone, FollowAlone, SessionAlone,
         PublishedOrEnding, Kinds

(* Nothing of the session of tab t changes.                                 *)
LEMMA SessionKeptInv ==
  ASSUME EndInv, NEW t \in Tabs, TypeOK',
         UNCHANGED <<mem, rev, published, cleanups>>, RevsStayPast(t),
         SignInAlone(t)', FollowAlone(t)'
  PROVE  TabInv(t)'
<1>1. TabInv(t)
  BY DEF EndInv
<1> QED
  BY <1>1 DEF TabInv, RevsPast, SessionAlone, KeyAccess, PublishedOrEnding,
              RevsStayPast

(* A session stored, or changed, and published at once, no deletion pending.*)
LEMMA SessionSetInv ==
  ASSUME EndInv, NEW t \in Tabs, TypeOK', UNCHANGED cleanups,
         published'[t] = mem'[t], KeyAccess(t), RevsPast(t)'
  PROVE  TabInv(t)'
BY DEF TabInv, SignInAlone, FollowAlone, SessionAlone, KeyAccess, PublishedOrEnding

(* The same, for all tabs: the four kinds of step that the actions are.     *)
OtherWorkKept(t) ==
  \A u \in Tabs \ {t} : auth'[u] = auth[u] /\ task'[u] = task[u]

LEMMA EndSessionStep ==
  ASSUME EndInv, NEW t \in Tabs, NEW automatic, NEW keepRecord, NEW end, NEW signIn,
         EndSession(t, automatic, keepRecord, end, signIn), RevsStayPast(t),
         OtherWorkKept(t), TypeOK'
  PROVE  EndInv'
<1>1. TabInv(t)'
  BY EndSessionInv
<1>2. \A c : c.tab # t => (c \in cleanups' <=> c \in cleanups)
  BY DEF EndSession
<1>3. \A u \in Tabs \ {t} : mem'[u] = mem[u] /\ rev'[u] = rev[u]
                            /\ published'[u] = published[u]
  BY DEF EndSession, EndInv, TypeOK
<1> QED BY <1>1, <1>2, <1>3, OtherTabs DEF OthersKept, OtherWorkKept

LEMMA ForgetSessionStep ==
  ASSUME EndInv, NEW t \in Tabs, ForgetSession(t), RevsStayPast(t),
         OtherWorkKept(t), TypeOK'
  PROVE  EndInv'
<1>1. TabInv(t)'
  BY ForgetSessionInv
<1>2. UNCHANGED cleanups
  BY DEF ForgetSession
<1>3. \A u \in Tabs \ {t} : mem'[u] = mem[u] /\ rev'[u] = rev[u]
                            /\ published'[u] = published[u]
  BY DEF ForgetSession, Publish, EndInv, TypeOK
<1> QED BY <1>1, <1>2, <1>3, OtherTabs DEF OthersKept, OtherWorkKept

(* A task of tab t goes on; to "follow" only when no deletion is pending.   *)
LEMMA TaskStep ==
  ASSUME EndInv, NEW t \in Tabs, NEW k \in Kinds, NEW r, SetTask(t, k, r),
         r.rev <= rev[t], r.pc = "follow" => KeyAccess(t),
         UNCHANGED <<mem, rev, published, auth, cleanups>>, TypeOK'
  PROVE  EndInv'
<1>1. /\ \A j \in Kinds : task'[t][j].rev <= rev[t]
      /\ \A u \in Tabs \ {t} : task'[u] = task[u]
  BY TasksStayPast
<1>2. TabInv(t)
  BY DEF EndInv
<1>3. SignInAlone(t)'
  BY <1>2 DEF TabInv, SignInAlone, KeyAccess
<1>4. task'[t]["reconcile"] = IF k = "reconcile" THEN r ELSE task[t]["reconcile"]
  BY DEF SetTask, EndInv, TypeOK, TasksOK, Kinds
<1>5. FollowAlone(t)'
  BY <1>2, <1>4 DEF TabInv, FollowAlone, KeyAccess
<1>6. RevsStayPast(t)
  BY <1>1, <1>2 DEF RevsStayPast, TabInv, RevsPast
<1>7. TabInv(t)'
  BY <1>3, <1>5, <1>6, SessionKeptInv
<1> QED BY <1>1, <1>7, OtherTabs DEF OthersKept

(* The sign-in of tab t goes on; after CommitVerifier no deletion is        *)
(* pending if it is still of the tab's revision.                            *)
LEMMA SignInStep ==
  ASSUME EndInv, NEW t \in Tabs, NEW a, auth' = [auth EXCEPT ![t] = a],
         a.rev <= rev[t],
         /\ a.pc \in {"complete", "identify", "select", "persist"}
         /\ a.rev = rev[t]
         => KeyAccess(t),
         UNCHANGED <<mem, rev, published, task, cleanups>>, TypeOK'
  PROVE  EndInv'
<1>1. TabInv(t)
  BY DEF EndInv
<1>2. auth'[t] = a /\ \A u \in Tabs \ {t} : auth'[u] = auth[u]
  BY DEF EndInv, TypeOK
<1>3. SignInAlone(t)' /\ FollowAlone(t)'
  BY <1>1, <1>2 DEF TabInv, SignInAlone, FollowAlone, KeyAccess
<1>4. RevsStayPast(t)
  BY <1>1, <1>2 DEF RevsStayPast, TabInv, RevsPast
<1>5. TabInv(t)'
  BY <1>3, <1>4, SessionKeptInv
<1> QED BY <1>2, <1>5, OtherTabs DEF OthersKept

LEMMA SessionSetStep ==
  ASSUME EndInv, NEW t \in Tabs, NEW s, mem' = [mem EXCEPT ![t] = s],
         Publish(t, s), KeyAccess(t), rev'[t] >= rev[t],
         \A u \in Tabs \ {t} : rev'[u] = rev[u],
         RevsStayPast(t), OtherWorkKept(t), UNCHANGED cleanups, TypeOK'
  PROVE  EndInv'
<1>1. /\ mem'[t] = s /\ published'[t] = s
      /\ \A u \in Tabs \ {t} : mem'[u] = mem[u] /\ published'[u] = published[u]
  BY DEF Publish, EndInv, TypeOK
<1>2. /\ rev[t] \in Nat /\ rev'[t] \in Nat /\ auth'[t].rev \in Nat
      /\ \A k \in Kinds : task'[t][k].rev \in Nat
  BY DEF EndInv, TypeOK, TasksOK, Auth, Task
<1>3. RevsPast(t)'
  <2>1. auth'[t].rev <= rev'[t] /\ \A k \in Kinds : task'[t][k].rev <= rev'[t]
    BY <1>2 DEF RevsStayPast
  <2> QED BY <2>1 DEF RevsPast
<1>4. TabInv(t)'
  BY <1>1, <1>3, SessionSetInv
<1> QED BY <1>1, <1>4, OtherTabs DEF OthersKept, OtherWorkKept

LEMMA FinishPast ==
  ASSUME EndInv, NEW t \in Tabs, NEW k \in Kinds, Finish(t, k), UNCHANGED auth
  PROVE  RevsStayPast(t) /\ OtherWorkKept(t)
<1>1. auth[t].rev <= rev[t] /\ rev[t] \in Nat
  BY DEF EndInv, TabInv, RevsPast, TypeOK
<1>2. IdleTask.rev <= rev[t]
  BY <1>1 DEF IdleTask
<1> QED BY <1>1, <1>2, TasksStayPast DEF Finish, RevsStayPast, OtherWorkKept

LEMMA SignInPast ==
  ASSUME EndInv, NEW t \in Tabs, NEW a, auth' = [auth EXCEPT ![t] = a],
         a.rev <= rev[t], UNCHANGED task
  PROVE  RevsStayPast(t) /\ OtherWorkKept(t)
BY DEF EndInv, TabInv, RevsPast, TypeOK, RevsStayPast, OtherWorkKept

LEMMA FinishStep ==
  ASSUME EndInv, NEW t \in Tabs, NEW k \in Kinds, Finish(t, k),
         UNCHANGED <<mem, rev, published, auth, cleanups>>, TypeOK'
  PROVE  EndInv'
<1>1. IdleTask.rev <= rev[t] /\ IdleTask.pc # "follow"
  BY DEF IdleTask, EndInv, TypeOK
<1> QED BY <1>1, TaskStep DEF Finish

LEMMA MismatchInv ==
  ASSUME EndInv, NEW t \in Tabs, NEW k \in Kinds, Mismatch(t, k), UNCHANGED auth,
         TypeOK'
  PROVE  EndInv'
<1>1. CASE record = NoSession
  BY <1>1, FinishPast, EndSessionStep DEF Mismatch, Lost
<1>2. CASE record # NoSession
  <2> DEFINE r == [IdleTask EXCEPT !.pc = IF CredOf(record) = CredOf(mem[t])
                                            THEN "judgeOwn" ELSE "judgeOther",
                                   !.rev = rev[t], !.session = record,
                                   !.seen = key]
  <2>1. r.rev <= rev[t] /\ r.pc # "follow"
    BY DEF IdleTask, EndInv, TypeOK
  <2>2. SetTask(t, k, r)
    BY <1>2 DEF Mismatch, Judging
  <2> HIDE DEF r
  <2> QED BY <1>2, <2>1, <2>2, TaskStep DEF Mismatch
<1> QED BY <1>1, <1>2

-----------------------------------------------------------------------------
(* Every step preserves the invariant.                                      *)

LEMMA CleanupStepInv ==
  ASSUME EndInv, NEW c \in cleanups, DeleteKey(c) \/ DeleteKeyFails(c), TypeOK'
  PROVE  EndInv'
<1> DEFINE t == c.tab
<1>1. t \in Tabs /\ rev[t] \in Nat
  BY DEF EndInv, TypeOK, Cleanup
<1>2. PICK deleted \in BOOLEAN : AfterCleanup(c, deleted)
  BY DEF DeleteKey, DeleteKeyFails
<1>3. TabInv(t)
  BY <1>1 DEF EndInv
<1>4. KeyAccess(t) => KeyAccess(t)'
  BY <1>2 DEF AfterCleanup, KeyAccess
<1>5. \/ auth'[t] = auth[t]
      \/ auth'[t].pc = "commit" /\ auth'[t].rev = rev[t]
      \/ auth'[t].pc = "idle" /\ auth'[t].rev = 0
  <2>1. auth[t] \in Auth
    BY <1>1 DEF EndInv, TypeOK
  <2> QED BY <1>1, <1>2, <2>1 DEF AfterCleanup, IdleAuth, EndInv, TypeOK, Auth
<1>6. RevsPast(t)'
  BY <1>1, <1>2, <1>3, <1>5 DEF AfterCleanup, TabInv, RevsPast
<1>7. SignInAlone(t)' /\ FollowAlone(t)' /\ SessionAlone(t)'
  BY <1>2, <1>3, <1>4, <1>5
     DEF AfterCleanup, TabInv, SignInAlone, FollowAlone, SessionAlone
<1>8. PublishedOrEnding(t)'
  <2>1. CASE PublishesEnd(c, deleted)
    BY <1>1, <1>2, <2>1
       DEF AfterCleanup, Publish, PublishedOrEnding, EndInv, TypeOK
  <2>2. CASE ~PublishesEnd(c, deleted)
    BY <1>2, <1>3, <2>2
       DEF AfterCleanup, PublishesEnd, PublishedOrEnding, TabInv
  <2> QED BY <2>1, <2>2
<1>9. TabInv(t)'
  BY <1>6, <1>7, <1>8 DEF TabInv
<1>10. OthersKept(t)
  BY <1>1, <1>2 DEF OthersKept, AfterCleanup, Publish, EndInv, TypeOK
<1> QED BY <1>1, <1>9, <1>10, OtherTabs

LEMMA SignOutInv ==
  ASSUME EndInv, NEW t \in Tabs,
         SignOut(t) \/ SignInStart(t) \/ ExpireAtCap(t), TypeOK'
  PROVE  EndInv'
<1>1. PICK automatic \in BOOLEAN, keepRecord \in BOOLEAN,
           end \in {"signedOut", "expired"}, signIn \in BOOLEAN :
        EndSession(t, automatic, keepRecord, end, signIn)
  BY DEF SignOut, SignInStart, ExpireAtCap, SignedOut, Expired
<1>2. PICK a : a.rev = auth[t].rev /\ auth' = [auth EXCEPT ![t] = a]
  <2>1. auth[t] \in Auth
    BY DEF EndInv, TypeOK
  <2>2. CASE SignOut(t)
    <3> DEFINE b == auth[t].pc # "idle"
               a == [auth[t] EXCEPT !.signedOut = b]
    <3>1. auth' = [auth EXCEPT ![t] = a]
      BY <2>2 DEF SignOut
    <3>2. a.rev = auth[t].rev
      BY <2>1 DEF Auth
    <3> QED BY <3>1, <3>2
  <2>3. CASE SignInStart(t)
    <3> DEFINE a == [auth[t] EXCEPT !.pc = "clearing"]
    <3>1. auth' = [auth EXCEPT ![t] = a]
      BY <2>3 DEF SignInStart
    <3>2. a.rev = auth[t].rev
      BY <2>1 DEF Auth
    <3> QED BY <3>1, <3>2
  <2>4. CASE ExpireAtCap(t)
    BY <2>4 DEF ExpireAtCap, EndInv, TypeOK
  <2> QED BY <2>2, <2>3, <2>4
<1>3. auth[t].rev <= rev[t]
  BY DEF EndInv, TabInv, RevsPast
<1>4. UNCHANGED task
  BY DEF SignOut, SignInStart, ExpireAtCap
<1>5. RevsStayPast(t) /\ OtherWorkKept(t)
  BY <1>2, <1>3, <1>4, SignInPast
<1> QED BY <1>1, <1>5, EndSessionStep

LEMMA SignInInv ==
  ASSUME EndInv, NEW t \in Tabs, SignIn(t), TypeOK'
  PROVE  EndInv'
<1>1. /\ auth[t] \in Auth /\ rev[t] \in Nat /\ auth[t].rev \in Nat
      /\ auth[t].rev <= rev[t] /\ SignInAlone(t)
  BY DEF EndInv, TabInv, RevsPast, TypeOK, Auth
<1>2. CASE /\ auth[t].pc \in {"commit", "complete", "select"}
           /\ KeyAccess(t)
           /\ \E pc : auth' = [auth EXCEPT ![t].pc = pc]
           /\ UNCHANGED <<mem, rev, published, task, cleanups>>
  <2>1. PICK pc : auth' = [auth EXCEPT ![t].pc = pc]
    BY <1>2
  <2> DEFINE a == [auth[t] EXCEPT !.pc = pc]
  <2>2. auth' = [auth EXCEPT ![t] = a] /\ a.rev <= rev[t]
    BY <1>1, <2>1 DEF Auth
  <2> HIDE DEF a
  <2> QED BY <1>2, <2>2, SignInStep
<1>3. CASE SignInIdentify(t)
  <2>1. PICK s : auth' = [auth EXCEPT ![t] =
                   IF RevisionCurrent(t)
                     THEN [@ EXCEPT !.pc = "select", !.session = s]
                     ELSE IdleAuth]
    BY <1>3 DEF SignInIdentify
  <2> DEFINE a == IF RevisionCurrent(t)
                    THEN [auth[t] EXCEPT !.pc = "select", !.session = s]
                    ELSE IdleAuth
  <2>2. auth' = [auth EXCEPT ![t] = a] /\ a.rev <= rev[t]
    BY <1>1, <2>1 DEF Auth, IdleAuth
  <2>3. KeyAccess(t) /\ UNCHANGED <<mem, rev, published, task, cleanups>>
    BY <1>3 DEF SignInIdentify
  <2> HIDE DEF a
  <2> QED BY <2>2, <2>3, SignInStep
<1>4. CASE SignInPersist(t)
  <2>1. IdleAuth.rev <= rev[t] /\ IdleAuth.pc = "idle"
    BY <1>1 DEF IdleAuth
  <2>2. auth' = [auth EXCEPT ![t] = IdleAuth] /\ UNCHANGED <<rev, task, cleanups>>
    BY <1>4 DEF SignInPersist
  <2>3. CASE RevisionCurrent(t)
    <3>1. KeyAccess(t)
      BY <1>1, <1>4, <2>3 DEF SignInPersist, RevisionCurrent, SignInAlone
    <3>2. /\ mem' = [mem EXCEPT ![t] = auth[t].session]
          /\ Publish(t, auth[t].session)
      BY <1>4, <2>3 DEF SignInPersist
    <3>3. RevsStayPast(t) /\ OtherWorkKept(t)
      BY <2>1, <2>2, SignInPast
    <3>4. rev'[t] >= rev[t] /\ \A u \in Tabs \ {t} : rev'[u] = rev[u]
      BY <1>1, <2>2
    <3> DEFINE s == auth[t].session
    <3> HIDE DEF s
    <3> QED BY <2>2, <3>1, <3>2, <3>3, <3>4, SessionSetStep DEF s
  <2>4. CASE ~RevisionCurrent(t)
    BY <1>4, <2>1, <2>2, <2>4, SignInStep DEF SignInPersist
  <2> QED BY <2>3, <2>4
<1>5. CASE SignInFails(t)
  <2>1. IdleAuth.rev <= rev[t] /\ IdleAuth.pc = "idle"
    BY <1>1 DEF IdleAuth
  <2> QED BY <1>5, <2>1, SignInStep DEF SignInFails
<1> QED BY <1>2, <1>3, <1>4, <1>5 DEF SignIn, SignInCommit, SignInComplete, SignInSelect

LEMMA RequestInv ==
  ASSUME EndInv, NEW t \in Tabs, NEW k \in Kinds,
         Request(t, k) \/ RequestFails(t, k), TypeOK'
  PROVE  EndInv'
<1>1. CASE Request(t, k)
  <2>1. PICK pc : pc # "follow" /\ Goto(t, k, pc)
    BY <1>1 DEF Request
  <2> DEFINE r == [task[t][k] EXCEPT !.pc = pc]
  <2>2. task[t][k] \in Task /\ task[t][k].rev <= rev[t]
    BY DEF EndInv, TabInv, RevsPast, TypeOK, TasksOK
  <2>3. r.rev <= rev[t] /\ r.pc = pc
    BY <2>2 DEF Task
  <2>4. SetTask(t, k, r)
    BY <2>1 DEF Goto
  <2> HIDE DEF r
  <2> QED BY <1>1, <2>1, <2>3, <2>4, TaskStep DEF Request
<1>2. CASE RequestFails(t, k)
  BY <1>2, FinishStep DEF RequestFails
<1> QED BY <1>1, <1>2

LEMMA ResolveInv ==
  ASSUME EndInv, NEW t \in Tabs, NEW k \in Kinds,
         ResolveOwn(t, k) \/ ResolveOther(t, k), TypeOK'
  PROVE  EndInv'
<1>1. CASE Judging(t, k, task[t][k].rev) /\ UNCHANGED <<mem, rev, published, cleanups, auth>>
  <2> DEFINE r == [IdleTask EXCEPT !.pc = IF CredOf(record) = CredOf(mem[t])
                                            THEN "judgeOwn" ELSE "judgeOther",
                                   !.rev = task[t][k].rev, !.session = record,
                                   !.seen = key]
  <2>1. r.rev <= rev[t] /\ r.pc # "follow"
    BY DEF IdleTask, EndInv, TabInv, RevsPast
  <2>2. SetTask(t, k, r)
    BY <1>1 DEF Judging
  <2> HIDE DEF r
  <2> QED BY <1>1, <2>1, <2>2, TaskStep
<1>2. CASE Finish(t, k) /\ UNCHANGED auth
  <2>1. RevsStayPast(t) /\ OtherWorkKept(t)
    BY <1>2, FinishPast
  <2>2. CASE Expired(t) \/ Lost(t)
    BY <2>1, <2>2, EndSessionStep DEF Expired, Lost
  <2>3. CASE ForgetSession(t)
    BY <2>1, <2>3, ForgetSessionStep
  <2>4. CASE UNCHANGED <<mem, rev, published, cleanups>>
    BY <1>2, <2>4, FinishStep
  <2> QED BY <1>2, <2>2, <2>3, <2>4 DEF ResolveOwn, ResolveOther, shared
<1> QED BY <1>1, <1>2 DEF ResolveOwn, ResolveOther

LEMMA CallInv ==
  ASSUME EndInv, NEW t \in Tabs, CallStart(t) \/ Call(t), TypeOK'
  PROVE  EndInv'
<1> DEFINE work == task[t]["call"]
<1>1. /\ "call" \in Kinds /\ work \in Task /\ work.rev <= rev[t] /\ rev[t] \in Nat
      /\ SessionAlone(t)
  BY DEF EndInv, TabInv, RevsPast, TypeOK, TasksOK, Kinds
<1>2. CASE Mismatch(t, "call") /\ UNCHANGED auth
  BY <1>1, <1>2, MismatchInv
<1>3. CASE /\ \E r : SetTask(t, "call", r) /\ r.rev <= rev[t] /\ r.pc # "follow"
           /\ UNCHANGED <<mem, rev, published, auth, cleanups>>
  BY <1>1, <1>3, TaskStep
<1>4. CASE Finish(t, "call") /\ Expired(t) /\ UNCHANGED auth
  BY <1>1, <1>4, FinishPast, EndSessionStep DEF Expired
<1>5. CASE Finish(t, "call") /\ UNCHANGED <<mem, rev, published, auth, cleanups>>
  BY <1>1, <1>5, FinishStep
<1>6. CASE CallStart(t)
  <2>1. CASE Holds(mem[t])
    <3>1. PICK w \in Wallets :
            SetTask(t, "call", [IdleTask EXCEPT !.pc = "request", !.rev = rev[t],
                                                !.session = mem[t], !.wallet = w])
      BY <1>6, <2>1 DEF CallStart
    <3> DEFINE r == [IdleTask EXCEPT !.pc = "request", !.rev = rev[t],
                                     !.session = mem[t], !.wallet = w]
    <3>2. r.rev <= rev[t] /\ r.pc # "follow"
      BY <1>1 DEF IdleTask
    <3> HIDE DEF r
    <3> QED BY <1>3, <1>6, <2>1, <3>1, <3>2 DEF CallStart, r
  <2> QED BY <1>2, <1>6, <2>1 DEF CallStart
<1>7. CASE CallRefused(t)
  BY <1>4, <1>5, <1>7 DEF CallRefused
<1>8. CASE CallAnswered(t)
  <2> DEFINE r == [work EXCEPT !.pc = "checked", !.rev = rev[t], !.seen = key]
  <2>1. r.rev <= rev[t] /\ r.pc # "follow"
    BY <1>1 DEF Task
  <2>2. CASE mem[t] = NoSession \/ PastCap(mem[t])
    BY <1>4, <1>5, <1>8, <2>2 DEF CallAnswered
  <2>3. CASE ~(mem[t] = NoSession \/ PastCap(mem[t]))
    <3>1. SetTask(t, "call", r) /\ UNCHANGED <<mem, rev, published, auth, cleanups>>
      BY <1>8, <2>3 DEF CallAnswered
    <3> HIDE DEF r
    <3> QED BY <1>3, <2>1, <3>1
  <2> QED BY <2>2, <2>3
<1>9. CASE CallApply(t)
  <2> DEFINE s == [work.session EXCEPT !.wallet = work.wallet]
  <2>1. CASE SignerMatched(t, "call") /\ SameActiveWalletSession(t)
    <3>1. /\ mem' = [mem EXCEPT ![t] = s] /\ Publish(t, s) /\ Finish(t, "call")
          /\ UNCHANGED <<rev, auth, cleanups>>
      BY <1>9, <2>1 DEF CallApply
    <3>2. KeyAccess(t)
      BY <1>1, <2>1 DEF SignerMatched, SessionAlone
    <3>3. RevsStayPast(t) /\ OtherWorkKept(t)
      BY <1>1, <3>1, FinishPast
    <3>4. rev'[t] >= rev[t] /\ \A u \in Tabs \ {t} : rev'[u] = rev[u]
      BY <1>1, <3>1
    <3> HIDE DEF s
    <3> QED BY <3>1, <3>2, <3>3, <3>4, SessionSetStep
  <2>2. CASE ~(SignerMatched(t, "call") /\ SameActiveWalletSession(t))
    BY <1>2, <1>5, <1>9, <2>2 DEF CallApply
  <2> QED BY <2>1, <2>2
<1> QED BY <1>6, <1>7, <1>8, <1>9 DEF Call

LEMMA ReadInv ==
  ASSUME EndInv, NEW t \in Tabs, ReadStart(t) \/ Read(t), TypeOK'
  PROVE  EndInv'
<1>1. /\ "read" \in Kinds /\ rev[t] \in Nat /\ mem \in [Tabs -> SessionOrNone]
      /\ SessionAlone(t)
  BY DEF EndInv, TabInv, TypeOK, Kinds
<1>2. CASE ReadStart(t)
  <2> DEFINE r == [IdleTask EXCEPT !.pc = "request", !.rev = rev[t],
                                   !.session = mem[t]]
  <2>1. r.rev <= rev[t] /\ r.pc # "follow"
    BY <1>1 DEF IdleTask
  <2>2. CASE Holds(mem[t])
    <3>1. SetTask(t, "read", r) /\ UNCHANGED <<mem, rev, published, auth, cleanups>>
      BY <1>2, <2>2 DEF ReadStart
    <3> HIDE DEF r
    <3> QED BY <1>1, <2>1, <3>1, TaskStep
  <2>3. CASE ~Holds(mem[t])
    BY <1>1, <1>2, <2>3, MismatchInv DEF ReadStart
  <2> QED BY <2>2, <2>3
<1>3. CASE ReadApply(t)
  <2>1. Finish(t, "read") /\ UNCHANGED <<mem, rev, auth, cleanups>>
    BY <1>3 DEF ReadApply
  <2>2. CASE ReadIsCurrent(t)
    <3>1. mem' = [mem EXCEPT ![t] = mem[t]] /\ Publish(t, mem[t])
      BY <1>1, <1>3, <2>2 DEF ReadApply
    <3>2. KeyAccess(t)
      BY <1>1, <2>2 DEF ReadIsCurrent, SessionAlone
    <3>3. RevsStayPast(t) /\ OtherWorkKept(t)
      BY <1>1, <2>1, FinishPast
    <3>4. rev'[t] >= rev[t] /\ \A u \in Tabs \ {t} : rev'[u] = rev[u]
      BY <1>1, <2>1
    <3> QED BY <2>1, <3>1, <3>2, <3>3, <3>4, SessionSetStep
  <2>3. CASE ~ReadIsCurrent(t)
    BY <1>1, <1>3, <2>1, <2>3, FinishStep DEF ReadApply
  <2> QED BY <2>2, <2>3
<1>4. CASE ReadRefused(t)
  <2>1. CASE ReadIsCurrent(t)
    BY <1>1, <1>4, <2>1, FinishPast, EndSessionStep DEF ReadRefused, Expired
  <2>2. CASE ~ReadIsCurrent(t)
    BY <1>1, <1>4, <2>2, FinishStep DEF ReadRefused
  <2> QED BY <2>1, <2>2
<1> QED BY <1>2, <1>3, <1>4 DEF Read

LEMMA FollowInv ==
  ASSUME EndInv, NEW t \in Tabs, Follow(t), TypeOK'
  PROVE  EndInv'
<1> DEFINE work == task[t]["reconcile"]
<1>1. /\ "reconcile" \in Kinds /\ rev[t] \in Nat /\ rev \in [Tabs -> Nat]
      /\ SessionAlone(t) /\ FollowAlone(t)
  BY DEF EndInv, TabInv, TypeOK, Kinds
<1>2. CASE Reconcile(t)
  <2> DEFINE own == CredOf(mem[t]) = CredOf(record)
             r == [IdleTask EXCEPT !.pc = IF own THEN "own" ELSE "follow",
                                   !.rev = rev[t], !.session = record,
                                   !.seen = key]
  <2>1. CASE record = NoSession /\ mem[t] # NoSession
    <3>1. ForgetSession(t) /\ UNCHANGED <<auth, task>>
      BY <1>2, <2>1 DEF Reconcile
    <3>2. RevsStayPast(t) /\ OtherWorkKept(t)
      BY <3>1 DEF RevsStayPast, OtherWorkKept, EndInv, TabInv, RevsPast
    <3> QED BY <3>1, <3>2, ForgetSessionStep
  <2>2. CASE ~(record = NoSession /\ mem[t] # NoSession)
    <3>1. /\ UNCHANGED <<mem, rev, published, auth, cleanups>>
          /\ UNCHANGED task
               \/ (record # NoSession /\ SetTask(t, "reconcile", r))
      BY <1>2, <2>2 DEF Reconcile
    <3>2. CASE UNCHANGED task
      <4>1. TabInv(t)
        BY DEF EndInv
      <4>2. TabInv(t)'
        BY <3>1, <3>2, <4>1 DEF TabInv, RevsPast, SignInAlone, FollowAlone,
                                SessionAlone, KeyAccess, PublishedOrEnding
      <4> QED BY <3>1, <3>2, <4>2, OtherTabs DEF OthersKept
    <3>3. CASE record # NoSession /\ SetTask(t, "reconcile", r)
      <4>1. r.rev <= rev[t] /\ KeyAccess(t)
        BY <1>1, <1>2, <3>3 DEF IdleTask, Reconcile
      <4> HIDE DEF r
      <4> QED BY <1>1, <3>1, <3>3, <4>1, TaskStep
    <3> QED BY <3>1, <3>2, <3>3
  <2> QED BY <2>1, <2>2
<1>3. CASE ReconcileOwn(t)
  <2> DEFINE current == rev[t] = work.rev /\ mem[t] # NoSession
             changed == current /\ record # work.session
             s == StoredWallet(t, work.session)
  <2>1. CASE current /\ ~changed /\ ~SignerMatched(t, "reconcile")
    BY <1>1, <1>3, <2>1, MismatchInv DEF ReconcileOwn
  <2>2. CASE current /\ ~changed /\ SignerMatched(t, "reconcile")
    <3>1. /\ mem' = [mem EXCEPT ![t] = s] /\ Publish(t, s)
          /\ Finish(t, "reconcile") /\ UNCHANGED <<rev, auth, cleanups>>
      BY <1>3, <2>2 DEF ReconcileOwn
    <3>2. KeyAccess(t)
      BY <1>1, <2>2 DEF SessionAlone
    <3>3. RevsStayPast(t) /\ OtherWorkKept(t)
      BY <1>1, <3>1, FinishPast
    <3>4. rev'[t] >= rev[t] /\ \A u \in Tabs \ {t} : rev'[u] = rev[u]
      BY <1>1, <3>1
    <3> HIDE DEF s
    <3> QED BY <3>1, <3>2, <3>3, <3>4, SessionSetStep
  <2>3. CASE ~(current /\ ~changed)
    BY <1>1, <1>3, <2>3, FinishStep DEF ReconcileOwn
  <2> QED BY <2>1, <2>2, <2>3
<1>4. CASE ReconcileFollow(t)
  <2> DEFINE changed == rev[t] # work.rev \/ record # work.session
             s == work.session
  <2>1. Finish(t, "reconcile") /\ UNCHANGED <<auth, cleanups>>
    BY <1>4 DEF ReconcileFollow
  <2>2. CASE ~changed /\ Follows(t)
    <3>1. /\ mem' = [mem EXCEPT ![t] = s] /\ Publish(t, s)
          /\ rev' = [rev EXCEPT ![t] = @ + 1]
      BY <1>4, <2>2 DEF ReconcileFollow
    <3>2. KeyAccess(t)
      BY <1>1, <1>4, <2>2 DEF ReconcileFollow, FollowAlone
    <3>3. RevsStayPast(t) /\ OtherWorkKept(t)
      BY <1>1, <2>1, FinishPast
    <3>4. rev'[t] >= rev[t] /\ \A u \in Tabs \ {t} : rev'[u] = rev[u]
      BY <1>1, <3>1
    <3> HIDE DEF s
    <3> QED BY <2>1, <3>1, <3>2, <3>3, <3>4, SessionSetStep
  <2>3. CASE ~(~changed /\ Follows(t))
    BY <1>1, <1>4, <2>1, <2>3, FinishStep DEF ReconcileFollow
  <2> QED BY <2>2, <2>3
<1> QED BY <1>2, <1>3, <1>4 DEF Follow

LEMMA ReloadInv ==
  ASSUME EndInv, NEW t \in Tabs, Reload(t), TypeOK'
  PROVE  EndInv'
<1>1. /\ auth'[t] = IdleAuth /\ task'[t] = [k \in Kinds |-> IdleTask]
      /\ rev'[t] = 0 /\ published'[t] = mem'[t]
  BY DEF Reload, EndInv, TypeOK, TasksOK
<1>2. mem'[t] # NoSession => KeyAccess(t)'
  BY DEF Reload, Restored, KeyAccess, EndInv, TypeOK
<1>3. TabInv(t)'
  BY <1>1, <1>2 DEF TabInv, RevsPast, SignInAlone, FollowAlone, SessionAlone,
                    PublishedOrEnding, IdleAuth, IdleTask, Kinds
<1>4. OthersKept(t)
  BY DEF Reload, OthersKept, EndInv, TypeOK, TasksOK
<1> QED BY <1>3, <1>4, OtherTabs

LEMMA NextEndInv == EndInv /\ [Next]_vars => EndInv'
<1> SUFFICES ASSUME EndInv, [Next]_vars PROVE EndInv'
  OBVIOUS
<1>1. TypeOK'
  BY NextType DEF EndInv
<1>2. CASE UNCHANGED <<mem, rev, published, auth, task, cleanups>>
  BY <1>1, <1>2 DEF EndInv, TabInv, RevsPast, SignInAlone, FollowAlone,
                    SessionAlone, KeyAccess, PublishedOrEnding
<1>3. CASE Environment
  BY <1>1, <1>2, <1>3, SignOutInv, CallInv, ReadInv, ReloadInv
     DEF Environment, WaasEnds, CapPasses
<1>4. ASSUME NEW t \in Tabs,
             SignIn(t) \/ Call(t) \/ Read(t) \/ Follow(t) \/ ExpireAtCap(t)
      PROVE  EndInv'
  BY <1>1, <1>4, SignInInv, CallInv, ReadInv, FollowInv, SignOutInv
<1>5. ASSUME NEW t \in Tabs, NEW k \in Kinds,
             Request(t, k) \/ RequestFails(t, k) \/ ResolveOwn(t, k)
               \/ ResolveOther(t, k)
      PROVE  EndInv'
  BY <1>1, <1>5, RequestInv, ResolveInv
<1>6. ASSUME NEW c \in cleanups, DeleteKey(c) \/ DeleteKeyFails(c)
      PROVE  EndInv'
  BY <1>1, <1>6, CleanupStepInv
<1> QED BY <1>2, <1>3, <1>4, <1>5, <1>6 DEF Next, vars

(* The listeners of a tab know the tab's session, or the tab still awaits   *)
(* the deletion after which it tells them (publishSessionChange).           *)
THEOREM EndsPublished == Spec => []PublishedFollowsState
<1>1. Spec => []EndInv
  BY InitEndInv, NextEndInv, PTL DEF Spec
<1> QED BY <1>1, EndInvImplies, PTL

(* A tab that has a session has no key deletion under way, however sign-ins,*)
(* sign-outs, expiries and other tabs' sign-ins interleave (clearSession).  *)
THEOREM SessionSafeFromCleanup == Spec => []SessionMeansNoCleanup
<1>1. Spec => []EndInv
  BY InitEndInv, NextEndInv, PTL DEF Spec
<1> QED BY <1>1, EndInvImplies, PTL

-----------------------------------------------------------------------------
(* Quiet tabs agree, and what is live is kept. A credential only ever gets  *)
(* older: once its key is gone, or WaaS has ended it, it stays so, because  *)
(* the shared key is only replaced by a new one. So what a task has found   *)
(* of a credential still holds when the task goes on, and what it has found *)
(* of its tab's session holds while the revision is the one it captured.    *)

Gone(c) == key # c /\ status[c] # "unused"
Dead(c) == Gone(c) \/ status[c] \in {"ended", "capped"}
Sound(c) == Gone(c) \/ status[c] \in {"live", "ended", "capped"}

SharedOK ==
  /\ key # NoCred => status[key] # "unused"
  /\ record # NoSession => Sound(record.cred)

(* An automatic deletion is of a credential that is dead already.           *)
CleanupOK(c) ==
  /\ c.automatic /\ c.cred # NoCred => Dead(c.cred)
  /\ c.rev <= rev[c.tab]

(* The signer was asked for the key of the session a task captured.         *)
Asked(r) == r.pc \in {"checked", "follow", "judgeOther"}

(* The task is about the session of now, unless a newer revision outdates   *)
(* it. Only "follow" begins in a tab that may have no session.              *)
Still(t, k) ==
  task[t][k].rev = rev[t] /\ task[t][k].pc \notin {"idle", "follow"}

(* What a task under way has found of its tab's session, whose key may be   *)
(* gone since.                                                              *)
Found(t, k) ==
  LET r == task[t][k] IN
  /\ r.pc \notin {"judgeOwn", "judgeOther"}
  /\ r.pc \in {"checked", "own"} => mem[t].cred = r.seen
  /\ k = "call" /\ r.pc \in {"request", "answered", "refused"}
       => mem[t].cred = r.session.cred

TaskOK(t, k) ==
  LET r == task[t][k] IN
  /\ r.session # NoSession => Sound(r.session.cred)
  /\ r.pc = "refused" => Dead(r.session.cred)
  /\ Asked(r) => /\ r.session # NoSession
                 /\ r.session.cred = r.seen \/ Gone(r.session.cred)
  /\ Still(t, k) => mem[t] # NoSession /\ (Gone(mem[t].cred) \/ Found(t, k))

(* A sign-in of the revision of now is of a tab without a session.          *)
AuthOK(t) ==
  LET s == auth[t].session IN
  /\ s # NoSession => status[s.cred] # "unused"
  /\ auth[t].pc \in {"select", "persist"} => s # NoSession
  /\ auth[t].pc = "persist" => Sound(s.cred)
  /\ auth[t].pc \notin {"idle", "clearing"} /\ auth[t].rev = rev[t]
       => mem[t] = NoSession

FollowsOwn(t) ==
  LET r == task[t]["reconcile"] IN
  /\ r.pc = "own" /\ r.rev = rev[t]
  /\ r.session = record /\ CredOf(mem[t]) = CredOf(record)

(* The tab agrees with the stored record, or has an event to handle, or a   *)
(* reconcile pass under way will find that it does not.                     *)
Agrees(t) ==
  /\ record = NoSession => mem[t] = NoSession \/ notice[t]
  /\ StoredIsLive => \/ mem[t] = record \/ notice[t]
                     \/ task[t]["reconcile"].pc = "follow" \/ FollowsOwn(t)

TabAgrees(t) ==
  /\ mem[t] # NoSession => Sound(mem[t].cred)
  /\ AuthOK(t)
  /\ Agrees(t)
  /\ \A k \in Kinds : TaskOK(t, k)

AgreeInv ==
  /\ SharedOK
  /\ \A c \in cleanups : CleanupOK(c)
  /\ \A t \in Tabs : TabAgrees(t)

LEMMA AgreeInvImplies == AgreeInv => QuietTabsAgree
BY DEF AgreeInv, TabAgrees, Agrees, FollowsOwn, QuietTabsAgree, Quiet, Kinds

LEMMA InitAgreeInv == Init => AgreeInv
<1> SUFFICES ASSUME Init PROVE AgreeInv
  OBVIOUS
<1>1. record \in SessionOrNone /\ (record # NoSession => record.cred \in Creds)
  BY DEF Init, SessionOrNone, Session
<1>2. SharedOK
  BY <1>1, ConstantsAssumption DEF Init, SharedOK, CredOf, Sound
<1>3. ASSUME NEW t \in Tabs PROVE TabAgrees(t)
  <2>1. /\ mem[t] = record /\ auth[t] = IdleAuth
        /\ \A k \in Kinds : task[t][k] = IdleTask
    BY DEF Init
  <2>2. AuthOK(t) /\ Agrees(t)
    BY <2>1 DEF AuthOK, Agrees, IdleAuth
  <2>3. \A k \in Kinds : TaskOK(t, k)
    BY <2>1 DEF TaskOK, Asked, Still, IdleTask
  <2> QED BY <1>2, <2>1, <2>2, <2>3 DEF TabAgrees, SharedOK
<1> QED BY <1>2, <1>3 DEF AgreeInv, Init

(* What is said of credentials above stays true.                            *)
Ages ==
  /\ key' # NoCred => status'[key'] # "unused"
  /\ \A c \in Creds :
       /\ status[c] # "unused" => status'[c] # "unused"
       /\ Gone(c) => Gone(c)'
       /\ Dead(c) => Dead(c)'
       /\ Sound(c) => Sound(c)'

LEMMA SharedKeptAges ==
  ASSUME SharedOK, UNCHANGED <<key, status>>
  PROVE  Ages
BY DEF SharedOK, Ages, Gone, Dead, Sound

LEMMA UseAges ==
  ASSUME TypeOK, SharedOK, NEW c \in SignerCreds \ {NoCred}, Use(c)
  PROVE  Ages
<1>1. c \in Creds /\ (key = c \/ (key = NoCred /\ status[c] = "unused"))
  BY DEF SignerCreds, TypeOK, CredOrNone
<1>2. \A d \in Creds : status'[d] = IF d = c /\ status[c] = "unused"
                                      THEN "new" ELSE status[d]
  BY <1>1 DEF Use, TypeOK
<1>3. key' = c
  BY DEF Use
<1> QED BY <1>1, <1>2, <1>3, ConstantsAssumption DEF Ages, Gone, Dead, Sound

LEMMA CompleteAges ==
  ASSUME TypeOK, SharedOK, NEW t \in Tabs, SignInComplete(t)
  PROVE  Ages
<1>1. PICK c \in SignerCreds \ {NoCred} :
        /\ status[c] \in {"unused", "new", "live"}
        /\ key' = c
        /\ status' = [status EXCEPT ![c] = "live"]
  BY DEF SignInComplete
<1>2. c \in Creds /\ (key = c \/ (key = NoCred /\ status[c] = "unused"))
  BY <1>1 DEF SignerCreds, TypeOK, CredOrNone
<1>3. \A d \in Creds : status'[d] = IF d = c THEN "live" ELSE status[d]
  BY <1>1, <1>2 DEF TypeOK
<1> QED BY <1>1, <1>2, <1>3, ConstantsAssumption DEF Ages, Gone, Dead, Sound

LEMMA DeletionAges ==
  ASSUME TypeOK, SharedOK, UNCHANGED status, key' \in {key, NoCred}
  PROVE  Ages
<1>1. \A c \in Creds : c # NoCred
  BY ConstantsAssumption
<1> QED BY <1>1 DEF SharedOK, Ages, Gone, Dead, Sound

LEMMA WaasAges ==
  ASSUME TypeOK, SharedOK, NEW c \in Creds, WaasEnds(c) \/ CapPasses(c)
  PROVE  Ages
<1>1. PICK s \in {"ended", "capped"} : 
        /\ status[c] \in {"live", "ended"} /\ (s = "ended" => status[c] = "live")
        /\ status' = [status EXCEPT ![c] = s] /\ UNCHANGED key
  BY DEF WaasEnds, CapPasses
<1>2. \A d \in Creds : status'[d] = IF d = c THEN s ELSE status[d]
  BY <1>1 DEF TypeOK
<1> QED
  BY <1>1, <1>2, ConstantsAssumption
     DEF SharedOK, Ages, Gone, Dead, Sound, TypeOK, CredOrNone

(* A stored session that is live after a step that keeps the record was     *)
(* live before it.                                                          *)
LEMMA WasLive ==
  ASSUME TypeOK, SharedOK, Ages, UNCHANGED record, StoredIsLive'
  PROVE  StoredIsLive
<1>1. record # NoSession /\ record.cred \in Creds /\ key' = record.cred
      /\ status'[record.cred] = "live"
  BY DEF StoredIsLive, Holds, TypeOK, SessionOrNone, Session
<1>2. ~Dead(record.cred)'
  BY <1>1 DEF Dead, Gone
<1>3. ~Dead(record.cred)
  <2> DEFINE c == record.cred
  <2>1. c' = c
    OBVIOUS
  <2>2. ~Dead(c)
    BY <1>1, <1>2 DEF Ages, Dead, Gone
  <2> QED BY <2>2
<1> QED BY <1>1, <1>3 DEF SharedOK, Sound, Dead, Gone, StoredIsLive, Holds

-----------------------------------------------------------------------------
(* What a step leaves alone.                                                *)

(* A tab that does not take part in a step, but may hear of it.             *)
Untouched(u) ==
  /\ mem'[u] = mem[u] /\ rev'[u] = rev[u]
  /\ auth'[u] = auth[u] /\ task'[u] = task[u]
  /\ notice[u] => notice'[u]
  /\ record' # record => notice'[u]

(* The session that the tasks of tab t captured is the same, or outdated.   *)
SessionKept(t) ==
  \/ rev'[t] > rev[t]
  \/ /\ rev'[t] = rev[t]
     /\ \/ mem'[t] = mem[t] \/ mem[t] = NoSession
        \/ /\ mem'[t] # NoSession
           /\ mem'[t].cred = mem[t].cred \/ Gone(mem[t].cred)'

(* Ages, for the primed operators.                                          *)
LEMMA GoneStays == ASSUME Ages, NEW c \in Creds, Gone(c)
                   PROVE  key' # c /\ status'[c] # "unused"
BY DEF Ages, Gone

LEMMA DeadStays ==
  ASSUME Ages, NEW c \in Creds, Dead(c)
  PROVE  (key' # c /\ status'[c] # "unused") \/ status'[c] \in {"ended", "capped"}
BY DEF Ages, Dead, Gone

LEMMA SoundStays ==
  ASSUME Ages, NEW c \in Creds, Sound(c)
  PROVE  \/ key' # c /\ status'[c] # "unused"
         \/ status'[c] \in {"live", "ended", "capped"}
BY DEF Ages, Sound, Gone

LEMMA TaskAges ==
  ASSUME EndInv, TypeOK', Ages, NEW t \in Tabs, NEW k \in Kinds, TaskOK(t, k),
         task'[t][k] = task[t][k], SessionKept(t)
  PROVE  TaskOK(t, k)'
<1> DEFINE r == task[t][k]
<1>1. /\ r \in Task /\ Captured(k, r) /\ r.rev <= rev[t] /\ r.rev \in Nat
      /\ rev[t] \in Nat /\ rev'[t] \in Nat
      /\ mem[t] \in SessionOrNone /\ mem'[t] \in SessionOrNone
  BY DEF EndInv, TabInv, RevsPast, TypeOK, TasksOK, Task
<1>2. /\ r.session # NoSession => r.session.cred \in Creds
      /\ mem[t] # NoSession => mem[t].cred \in Creds
  BY <1>1 DEF Task, SessionOrNone, Session
<1>3. r.session # NoSession => Sound(task[t][k].session.cred)'
  BY <1>2, SoundStays DEF TaskOK, Sound, Gone
<1>4. r.pc = "refused" => Dead(task[t][k].session.cred)'
  <2>1. r.pc = "refused" => r.session # NoSession
    BY <1>1, ConstantsAssumption DEF Captured, Session
  <2> QED BY <1>2, <2>1, DeadStays DEF TaskOK, Dead, Gone
<1>5. Asked(r) => /\ r.session # NoSession
                  /\ r.session.cred = r.seen \/ Gone(task[t][k].session.cred)'
  BY <1>2, GoneStays DEF TaskOK, Gone
<1>6. ASSUME Still(t, k)'
      PROVE  mem'[t] # NoSession /\ (Gone(mem[t].cred)' \/ Found(t, k)')
  <2>1. Still(t, k) /\ rev'[t] = rev[t]
    BY <1>1, <1>6 DEF Still, SessionKept
  <2>2. mem[t] # NoSession /\ (Gone(mem[t].cred) \/ Found(t, k))
    BY <2>1 DEF TaskOK
  <2>3. mem'[t] # NoSession /\ (mem'[t].cred = mem[t].cred \/ Gone(mem[t].cred)')
    BY <1>1, <2>1, <2>2 DEF SessionKept
  <2>4. CASE Gone(mem[t].cred)
    BY <1>2, <2>2, <2>3, <2>4, GoneStays DEF Gone
  <2>5. CASE Found(t, k)
    BY <2>3, <2>5 DEF Found
  <2> QED BY <2>2, <2>3, <2>4, <2>5
<1> QED BY <1>3, <1>4, <1>5, <1>6 DEF TaskOK, Asked

(* The sign-in of tab t is where it was, or waits for a deletion.           *)
AuthKept(t) ==
  /\ auth'[t].session = auth[t].session
  /\ auth'[t].rev = auth[t].rev
  /\ auth'[t].pc \in {auth[t].pc, "clearing"}

LEMMA AuthAges ==
  ASSUME EndInv, TypeOK', Ages, NEW t \in Tabs, AuthOK(t), AuthKept(t),
         \/ rev'[t] > rev[t]
         \/ rev'[t] = rev[t] /\ (mem[t] # NoSession \/ mem'[t] = NoSession)
  PROVE  AuthOK(t)'
<1>1. /\ auth[t].rev <= rev[t] /\ auth[t].rev \in Nat
      /\ rev[t] \in Nat /\ rev'[t] \in Nat
      /\ auth[t].session # NoSession => auth[t].session.cred \in Creds
  BY DEF EndInv, TabInv, RevsPast, TypeOK, Auth, SessionOrNone, Session
<1>2. auth'[t].rev = rev'[t] => auth[t].rev = rev[t] /\ rev'[t] = rev[t]
  BY <1>1 DEF AuthKept
<1>3. auth[t].session # NoSession
        => status'[auth[t].session.cred] # "unused"
  BY <1>1 DEF AuthOK, Ages
<1>4. auth[t].pc = "persist" => Sound(auth[t].session.cred)'
  <2>1. auth[t].pc = "persist" => auth[t].session # NoSession
    BY DEF AuthOK
  <2> QED BY <1>1, <2>1, SoundStays DEF AuthOK, AuthKept, Sound, Gone
<1>5. auth'[t].pc \notin {"idle", "clearing"} /\ auth'[t].rev = rev'[t]
        => mem'[t] = NoSession
  <2>1. rev'[t] = rev[t] => mem[t] # NoSession \/ mem'[t] = NoSession
    BY <1>1
  <2> QED BY <1>2, <2>1 DEF AuthOK, AuthKept
<1>6. /\ auth'[t].session = auth[t].session
      /\ auth'[t].pc \in {"select", "persist"} => auth[t].session # NoSession
      /\ auth'[t].pc = "persist" => auth[t].pc = "persist"
  BY DEF AuthOK, AuthKept
<1>7. auth'[t].pc = "persist" => Sound(auth[t].session.cred)'
  BY <1>4, <1>6
<1> QED BY <1>3, <1>5, <1>6, <1>7 DEF AuthOK

LEMMA UntouchedAgrees ==
  ASSUME EndInv, AgreeInv, TypeOK', Ages, NEW u \in Tabs, Untouched(u)
  PROVE  TabAgrees(u)'
<1>1. TabAgrees(u) /\ SharedOK /\ TypeOK
  BY DEF AgreeInv, EndInv
<1>2. mem'[u] # NoSession => Sound(mem[u].cred)'
  <2>1. mem[u] # NoSession => mem[u].cred \in Creds
    BY <1>1 DEF TypeOK, SessionOrNone, Session
  <2> QED BY <1>1, <2>1, SoundStays DEF TabAgrees, Untouched, Sound, Gone
<1>3. AuthOK(u)'
  <2>1. AuthKept(u) /\ rev'[u] = rev[u]
    BY DEF Untouched, AuthKept
  <2>2. CASE mem[u] # NoSession
    BY <1>1, <2>1, <2>2, AuthAges DEF TabAgrees
  <2>3. CASE mem[u] = NoSession
    BY <1>1, <2>1, <2>3, AuthAges DEF TabAgrees, Untouched
  <2> QED BY <2>2, <2>3
<1>4. \A k \in Kinds : TaskOK(u, k)'
  BY <1>1, TaskAges DEF TabAgrees, Untouched, SessionKept
<1>5. Agrees(u)'
  <2>1. CASE notice'[u]
    BY <2>1 DEF Agrees
  <2>2. CASE ~notice'[u]
    <3>1. record' = record /\ ~notice[u]
      BY <2>2 DEF Untouched
    <3>2. StoredIsLive' => StoredIsLive
      BY <1>1, <3>1, WasLive
    <3> QED BY <1>1, <3>1, <3>2 DEF TabAgrees, Agrees, Untouched, FollowsOwn, CredOf
  <2> QED BY <2>1, <2>2
<1> QED BY <1>2, <1>3, <1>4, <1>5 DEF TabAgrees

LEMMA CleanupsAge ==
  ASSUME EndInv, AgreeInv, TypeOK', Ages, NEW c \in cleanups,
         rev'[c.tab] >= rev[c.tab]
  PROVE  CleanupOK(c)'
<1>1. /\ c.tab \in Tabs /\ c.rev \in Nat /\ rev[c.tab] \in Nat
      /\ rev'[c.tab] \in Nat /\ (c.cred # NoCred => c.cred \in Creds)
  BY DEF EndInv, TypeOK, Cleanup, CredOrNone
<1>2. CleanupOK(c)
  BY DEF AgreeInv
<1>3. c.rev <= rev'[c.tab]
  BY <1>1, <1>2 DEF CleanupOK
<1> QED BY <1>1, <1>2, <1>3, DeadStays DEF CleanupOK, Dead, Gone

(* A step of tab t and its task k.                                          *)
LEMMA TabStepAgrees ==
  ASSUME EndInv, AgreeInv, TypeOK', Ages, SharedOK',
         \A c \in cleanups' : CleanupOK(c)',
         NEW t \in Tabs, \A u \in Tabs \ {t} : Untouched(u),
         (mem[t] # NoSession => Sound(mem[t].cred))', AuthOK(t)', Agrees(t)',
         SessionKept(t),
         \A k \in Kinds : TaskOK(t, k)' \/ task'[t][k] = task[t][k]
  PROVE  AgreeInv'
<1>1. TabAgrees(t)
  BY DEF AgreeInv
<1>2. \A k \in Kinds : TaskOK(t, k)'
  BY <1>1, TaskAges DEF TabAgrees
<1>3. TabAgrees(t)'
  BY <1>2 DEF TabAgrees
<1> QED BY <1>3, UntouchedAgrees DEF AgreeInv

LEMMA IdleTaskOK ==
  ASSUME NEW t \in Tabs, NEW k \in Kinds, task'[t][k] = IdleTask
  PROVE  TaskOK(t, k)'
BY DEF TaskOK, Asked, Still, IdleTask

LEMMA IdleAuthOK ==
  ASSUME NEW t \in Tabs, auth'[t] = IdleAuth
  PROVE  AuthOK(t)'
BY DEF AuthOK, IdleAuth

-----------------------------------------------------------------------------
(* The kinds of step that the actions are.                                  *)

(* A session that is dead is not the stored one, if that one is live.       *)
LEMMA DeadIsNotStored ==
  ASSUME NEW s, s # NoSession, Dead(s.cred), StoredIsLive
  PROVE  CredOf(s) # CredOf(record)
BY DEF Dead, Gone, StoredIsLive, Holds, CredOf

(* Tasks of tab t that end with its session.                                *)
TasksEnd(t) == \A k \in Kinds : task'[t][k] \in {task[t][k], IdleTask}

(* The reconcile pass of tab t does not lose another tab's sign-in.         *)
FollowKept(t) == \/ task'[t]["reconcile"] = task[t]["reconcile"]
                 \/ task[t]["reconcile"].pc # "follow"

(* A session that ends in the tab alone was dead, so the tab loses nothing  *)
(* of a stored session that is live.                                        *)
LEMMA DeadSessionAgrees ==
  ASSUME AgreeInv, NEW t \in Tabs, UNCHANGED <<record, key, status>>,
         mem[t] # NoSession, Dead(mem[t].cred), mem'[t] \in {mem[t], NoSession},
         notice[t] => notice'[t], FollowKept(t)
  PROVE  Agrees(t)'
<1>1. Agrees(t)
  BY DEF AgreeInv, TabAgrees
<1>2. CASE StoredIsLive
  <2>1. CredOf(mem[t]) # CredOf(record)
    BY <1>2, DeadIsNotStored
  <2>2. notice[t] \/ task[t]["reconcile"].pc = "follow"
    BY <1>1, <1>2, <2>1 DEF Agrees, FollowsOwn
  <2> QED BY <1>2, <2>2 DEF Agrees, FollowKept, StoredIsLive, Holds
<1>3. CASE ~StoredIsLive
  BY <1>1, <1>3 DEF Agrees, StoredIsLive, Holds
<1> QED BY <1>2, <1>3

LEMMA EndSessionAgrees ==
  ASSUME EndInv, AgreeInv, TypeOK', NEW t \in Tabs, NEW automatic, NEW keepRecord,
         NEW end, NEW signIn,
         EndSession(t, automatic, keepRecord, end, signIn),
         automatic => mem[t] # NoSession /\ Dead(mem[t].cred),
         keepRecord => automatic /\ FollowKept(t),
         OtherWorkKept(t), AuthKept(t), TasksEnd(t)
  PROVE  AgreeInv'
<1>1. /\ TypeOK /\ SharedOK /\ TabAgrees(t)
      /\ UNCHANGED <<key, status>>
      /\ rev[t] \in Nat /\ rev'[t] = rev[t] + 1 /\ mem'[t] = NoSession
      /\ record' = record \/ (record' = NoSession /\ ~keepRecord)
      /\ keepRecord => record' = record
  BY DEF EndInv, TypeOK, AgreeInv, EndSession, Store
<1>2. Ages
  BY <1>1, SharedKeptAges
<1>3. SharedOK'
  BY <1>1 DEF SharedOK, Sound, Gone
<1>4. ASSUME NEW c \in cleanups' PROVE CleanupOK(c)'
  <2> DEFINE d == [tab |-> t, rev |-> rev[t] + 1, automatic |-> automatic,
                   cred |-> CredOf(mem[t]), end |-> end, signIn |-> signIn]
  <2>1. c \in cleanups \/ c = d
    BY DEF EndSession
  <2>2. CASE c \in cleanups
    <3>1. c.tab \in Tabs /\ rev[c.tab] \in Nat
      BY <1>1, <2>2 DEF TypeOK, Cleanup
    <3>2. rev'[c.tab] >= rev[c.tab]
      BY <1>1, <3>1 DEF EndSession, TypeOK
    <3> QED BY <2>2, <3>2, <1>2, CleanupsAge
  <2>3. CASE c = d
    <3>1. c.tab = t /\ c.rev = rev'[t] /\ c.automatic = automatic
          /\ c.cred = CredOf(mem[t])
      BY <1>1, <2>3
    <3>2. c.automatic /\ c.cred # NoCred => Dead(c.cred)'
      BY <1>1, <3>1 DEF CredOf, Dead, Gone
    <3>3. c.rev <= rev'[c.tab]
      BY <1>1, <3>1
    <3> QED BY <3>2, <3>3 DEF CleanupOK
  <2> QED BY <2>1, <2>2, <2>3
<1>5. \A u \in Tabs \ {t} : Untouched(u)
  BY DEF EndSession, Store, NoticeFrom, OtherWorkKept, Untouched, EndInv, TypeOK
<1>6. AuthOK(t)'
  BY <1>1, <1>2, AuthAges DEF TabAgrees
<1>7. Agrees(t)'
  <2>1. CASE keepRecord
    <3>1. notice' = notice
      BY <2>1 DEF EndSession, Store
    <3> QED BY <1>1, <2>1, <3>1, DeadSessionAgrees
  <2>2. CASE ~keepRecord
    <3>1. record' = NoSession
      BY <2>2 DEF EndSession, Store
    <3> QED BY <1>1, <3>1 DEF Agrees, StoredIsLive, Holds
  <2> QED BY <2>1, <2>2
<1>8. SessionKept(t)
  BY <1>1 DEF SessionKept
<1>9. \A k \in Kinds : TaskOK(t, k)' \/ task'[t][k] = task[t][k]
  BY IdleTaskOK DEF TasksEnd
<1> QED BY <1>1, <1>2, <1>3, <1>4, <1>5, <1>6, <1>7, <1>8, <1>9, TabStepAgrees

LEMMA ForgetSessionAgrees ==
  ASSUME EndInv, AgreeInv, TypeOK', NEW t \in Tabs, ForgetSession(t), Agrees(t)',
         \A u \in Tabs \ {t} : notice'[u] = notice[u],
         OtherWorkKept(t), AuthKept(t), TasksEnd(t)
  PROVE  AgreeInv'
<1>1. /\ TypeOK /\ SharedOK /\ TabAgrees(t)
      /\ UNCHANGED <<record, key, status, cleanups>>
      /\ rev[t] \in Nat /\ rev'[t] = rev[t] + 1 /\ mem'[t] = NoSession
  BY DEF EndInv, TypeOK, AgreeInv, ForgetSession
<1>2. Ages
  BY <1>1, SharedKeptAges
<1>3. SharedOK'
  BY <1>1 DEF SharedOK, Sound, Gone
<1>4. ASSUME NEW c \in cleanups' PROVE CleanupOK(c)'
  <2>1. c \in cleanups /\ c.tab \in Tabs /\ rev[c.tab] \in Nat
    BY <1>1 DEF TypeOK, Cleanup
  <2>2. rev'[c.tab] >= rev[c.tab]
    BY <1>1, <2>1 DEF ForgetSession, TypeOK
  <2> QED BY <1>2, <2>1, <2>2, CleanupsAge
<1>5. \A u \in Tabs \ {t} : Untouched(u)
  BY <1>1 DEF ForgetSession, OtherWorkKept, Untouched, TypeOK
<1>6. AuthOK(t)'
  BY <1>1, <1>2, AuthAges DEF TabAgrees
<1>8. SessionKept(t)
  BY <1>1 DEF SessionKept
<1>9. \A k \in Kinds : TaskOK(t, k)' \/ task'[t][k] = task[t][k]
  BY IdleTaskOK DEF TasksEnd
<1> QED BY <1>1, <1>2, <1>3, <1>4, <1>5, <1>6, <1>8, <1>9, TabStepAgrees

(* A task of tab t goes on, and the tab's session stays as it is.           *)
LEMMA TaskStepAgrees ==
  ASSUME EndInv, AgreeInv, TypeOK', Ages, NEW t \in Tabs, NEW k \in Kinds, NEW r,
         SetTask(t, k, r), TaskOK(t, k)', Agrees(t)',
         UNCHANGED <<record, mem, rev, auth, cleanups>>,
         \A u \in Tabs \ {t} : notice'[u] = notice[u]
  PROVE  AgreeInv'
<1>1. TypeOK /\ SharedOK /\ TabAgrees(t)
  BY DEF EndInv, AgreeInv
<1>2. SharedOK'
  <2>1. record # NoSession => record.cred \in Creds
    BY <1>1 DEF TypeOK, SessionOrNone, Session
  <2> QED BY <1>1, <2>1, SoundStays DEF SharedOK, Ages, Sound, Gone
<1>3. \A c \in cleanups' : CleanupOK(c)'
  <2>1. \A c \in cleanups : rev'[c.tab] >= rev[c.tab]
    BY <1>1 DEF TypeOK, Cleanup
  <2> QED BY <2>1, CleanupsAge
<1>4. /\ \A u \in Tabs \ {t} : task'[u] = task[u]
      /\ \A j \in Kinds : j # k => task'[t][j] = task[t][j]
  BY <1>1 DEF SetTask, TypeOK, TasksOK
<1>5. \A u \in Tabs \ {t} : Untouched(u)
  BY <1>4 DEF Untouched
<1>6. (mem[t] # NoSession => Sound(mem[t].cred))'
  <2>1. mem[t] # NoSession => mem[t].cred \in Creds
    BY <1>1 DEF TypeOK, SessionOrNone, Session
  <2> QED BY <1>1, <2>1, SoundStays DEF TabAgrees, Sound, Gone
<1>7. AuthOK(t)'
  <2>1. AuthKept(t) /\ rev'[t] = rev[t]
    BY DEF AuthKept
  <2>2. mem[t] # NoSession \/ mem'[t] = NoSession
    OBVIOUS
  <2> QED BY <1>1, <2>1, <2>2, AuthAges DEF TabAgrees
<1>8. SessionKept(t)
  BY DEF SessionKept
<1>9. \A j \in Kinds : TaskOK(t, j)' \/ task'[t][j] = task[t][j]
  BY <1>4
<1> QED BY <1>2, <1>3, <1>5, <1>6, <1>7, <1>8, <1>9, TabStepAgrees

-----------------------------------------------------------------------------
(* The actions.                                                             *)

(* What the signer told of a credential that has been used.                 *)
LEMMA SoundIsHeldOrGone ==
  ASSUME SharedOK, NEW c, Sound(c)
  PROVE  key = c \/ Gone(c)
BY DEF Sound, Gone

LEMMA TaskSet ==
  ASSUME TypeOK, NEW t \in Tabs, NEW k \in Kinds, NEW r, SetTask(t, k, r)
  PROVE  /\ task'[t][k] = r
         /\ \A j \in Kinds \ {k} : task'[t][j] = task[t][j]
         /\ \A u \in Tabs \ {t} : task'[u] = task[u]
BY DEF SetTask, TypeOK, TasksOK

LEMMA FinishSet ==
  ASSUME TypeOK, NEW t \in Tabs, NEW k \in Kinds, Finish(t, k), UNCHANGED auth
  PROVE  /\ task'[t][k] = IdleTask
         /\ \A j \in Kinds \ {k} : task'[t][j] = task[t][j]
         /\ TasksEnd(t) /\ OtherWorkKept(t) /\ AuthKept(t)
         /\ k # "reconcile" \/ task[t][k].pc # "follow" => FollowKept(t)
BY TaskSet DEF Finish, TasksEnd, OtherWorkKept, AuthKept, FollowKept, Kinds

LEMMA SameSessionAgrees ==
  ASSUME EndInv, AgreeInv, Ages, NEW t \in Tabs, UNCHANGED <<record, mem, rev>>,
         notice[t] => notice'[t],
         \/ task'[t]["reconcile"] = task[t]["reconcile"]
         \/ task[t]["reconcile"].pc \notin {"follow", "own"}
  PROVE  Agrees(t)'
<1>1. Agrees(t)
  BY DEF AgreeInv, TabAgrees
<1>2. StoredIsLive' => StoredIsLive
  BY WasLive DEF EndInv, AgreeInv
<1> QED BY <1>1, <1>2 DEF Agrees, FollowsOwn, CredOf

LEMMA JudgingAgrees ==
  ASSUME EndInv, AgreeInv, TypeOK', NEW t \in Tabs, NEW k \in Kinds,
         NEW revision \in Nat, Judging(t, k, revision), record # NoSession,
         revision = rev[t] => mem[t] # NoSession /\ Gone(mem[t].cred),
         Agrees(t)', UNCHANGED <<shared, mem, rev, notice, auth, cleanups>>
  PROVE  AgreeInv'
<1> DEFINE pc == IF CredOf(record) = CredOf(mem[t]) THEN "judgeOwn" ELSE "judgeOther"
           r == [IdleTask EXCEPT !.pc = pc, !.rev = revision,
                                 !.session = record, !.seen = key]
<1>1. TypeOK /\ SharedOK /\ Ages
  BY SharedKeptAges DEF EndInv, AgreeInv, shared
<1>2. SetTask(t, k, r)
  BY DEF Judging
<1>3. /\ r.pc \in {"judgeOwn", "judgeOther"} /\ r.rev = revision
      /\ r.session = record /\ r.seen = key
  BY DEF IdleTask
<1> HIDE DEF r
<1>4. task'[t][k] = r
  BY <1>1, <1>2, TaskSet
<1>5. Sound(record.cred) /\ (key = record.cred \/ Gone(record.cred))
  BY <1>1, SoundIsHeldOrGone DEF SharedOK
<1>6. TaskOK(t, k)'
  <2>1. UNCHANGED <<key, status, mem, rev, record>>
    BY DEF shared
  <2> QED
    BY <1>3, <1>4, <1>5, <2>1 DEF TaskOK, Asked, Still, Sound, Gone
<1> QED BY <1>1, <1>2, <1>6, TaskStepAgrees DEF shared

LEMMA MismatchAgrees ==
  ASSUME EndInv, AgreeInv, TypeOK', NEW t \in Tabs, NEW k \in Kinds,
         Mismatch(t, k), UNCHANGED auth, mem[t] # NoSession, Gone(mem[t].cred),
         k # "reconcile" \/ task[t][k].pc # "follow"
  PROVE  AgreeInv'
<1>1. TypeOK /\ rev[t] \in Nat /\ Dead(mem[t].cred)
  BY DEF EndInv, TypeOK, Dead
<1>2. CASE record = NoSession
  <2>1. Lost(t) /\ Finish(t, k)
    BY <1>2 DEF Mismatch
  <2>2. TasksEnd(t) /\ OtherWorkKept(t) /\ AuthKept(t)
    BY <1>1, <2>1, FinishSet
  <2> QED BY <1>1, <2>1, <2>2, EndSessionAgrees DEF Lost
<1>3. CASE record # NoSession
  <2>1. /\ Judging(t, k, rev[t])
        /\ UNCHANGED <<shared, mem, rev, published, notice, cleanups>>
    BY <1>3 DEF Mismatch
  <2>2. FollowKept(t)
    BY <1>1, <2>1, TaskSet DEF Judging, FollowKept, Kinds
  <2>3. Agrees(t)'
    BY <1>1, <2>1, <2>2, DeadSessionAgrees DEF shared
  <2> QED BY <1>1, <1>3, <2>1, <2>3, JudgingAgrees
<1> QED BY <1>2, <1>3

LEMMA SignOutAgrees ==
  ASSUME EndInv, AgreeInv, TypeOK', NEW t \in Tabs,
         SignOut(t) \/ SignInStart(t) \/ ExpireAtCap(t)
  PROVE  AgreeInv'
<1>1. TypeOK /\ auth[t] \in Auth
  BY DEF EndInv, TypeOK
<1>2. UNCHANGED task /\ TasksEnd(t) /\ FollowKept(t)
  BY DEF SignOut, SignInStart, ExpireAtCap, TasksEnd, FollowKept
<1>3. AuthKept(t) /\ OtherWorkKept(t)
  <2>1. CASE SignOut(t)
    <3> DEFINE b == auth[t].pc # "idle"
    <3>1. auth' = [auth EXCEPT ![t].signedOut = b]
      BY <2>1 DEF SignOut
    <3> HIDE DEF b
    <3> QED BY <1>1, <1>2, <3>1 DEF AuthKept, OtherWorkKept, TypeOK, Auth
  <2>2. CASE SignInStart(t)
    BY <1>1, <1>2, <2>2 DEF SignInStart, AuthKept, OtherWorkKept, TypeOK, Auth
  <2>3. CASE ExpireAtCap(t)
    BY <1>2, <2>3 DEF ExpireAtCap, AuthKept, OtherWorkKept
  <2> QED BY <2>1, <2>2, <2>3
<1>4. CASE SignOut(t) \/ SignInStart(t)
  <2>1. PICK signIn \in BOOLEAN : EndSession(t, FALSE, FALSE, "signedOut", signIn)
    BY <1>4 DEF SignOut, SignInStart, SignedOut
  <2> QED BY <1>2, <1>3, <2>1, EndSessionAgrees
<1>5. CASE ExpireAtCap(t)
  <2>1. mem[t] # NoSession /\ Dead(mem[t].cred)
    BY <1>5 DEF ExpireAtCap, PastCap, Dead
  <2>2. EndSession(t, TRUE, TRUE, "expired", FALSE)
    BY <1>5 DEF ExpireAtCap, Expired
  <2> QED BY <1>2, <1>3, <2>1, <2>2, EndSessionAgrees
<1> QED BY <1>4, <1>5

LEMMA RequestAgrees ==
  ASSUME EndInv, AgreeInv, TypeOK', NEW t \in Tabs, NEW k \in Kinds,
         Request(t, k) \/ RequestFails(t, k)
  PROVE  AgreeInv'
<1>1. TypeOK /\ SharedOK /\ TaskOK(t, k) /\ task[t][k] \in Task
      /\ Captured(k, task[t][k])
  BY DEF EndInv, AgreeInv, TabAgrees, TypeOK, TasksOK
<1>2. CASE Request(t, k)
  <2>1. PICK c \in SignerCreds \ {NoCred} :
          /\ Use(c)
          /\ Goto(t, k, IF status[c] = "live" THEN "answered" ELSE "refused")
    BY <1>2 DEF Request
  <2> DEFINE pc == IF status[c] = "live" THEN "answered" ELSE "refused"
             r == [task[t][k] EXCEPT !.pc = pc]
             s == task[t][k].session
  <2>2. Ages
    BY <1>1, <2>1, UseAges
  <2>3. /\ SetTask(t, k, r) /\ r.pc = pc /\ r.session = s
        /\ r.rev = task[t][k].rev /\ r.seen = task[t][k].seen
    BY <1>1, <2>1 DEF Goto, Task
  <2>4. s # NoSession /\ s.cred \in Creds /\ task[t][k].pc = "request"
        /\ k \in {"call", "read"}
    BY <1>1, <1>2, ConstantsAssumption DEF Request, At, Captured, Session
  <2>5. Sound(s.cred)
    BY <1>1, <2>4 DEF TaskOK
  <2>6. status[c] # "live" => Dead(s.cred)
    BY <2>1, <2>4, <2>5, ConstantsAssumption DEF Sound, Dead, Gone, SignerCreds
  <2> HIDE DEF r, pc
  <2>7. task'[t][k] = r
    BY <1>1, <2>3, TaskSet
  <2>8. UNCHANGED <<record, mem, rev, published, notice, auth, cleanups>>
    BY <1>2 DEF Request
  <2>9. pc \in {"answered", "refused"} /\ (pc = "refused" => status[c] # "live")
    BY DEF pc
  <2>10. TaskOK(t, k)'
    <3>1. Sound(task[t][k].session.cred)'
      BY <2>2, <2>3, <2>4, <2>5, <2>7, SoundStays DEF Sound, Gone
    <3>2. pc = "refused" => Dead(task[t][k].session.cred)'
      BY <2>2, <2>3, <2>4, <2>6, <2>7, <2>9, DeadStays DEF Dead, Gone
    <3>3. ASSUME Still(t, k)'
          PROVE  mem'[t] # NoSession /\ (Gone(mem[t].cred)' \/ Found(t, k)')
      <4>1. Still(t, k)
        BY <2>3, <2>4, <2>7, <2>8, <3>3 DEF Still
      <4>2. mem[t] # NoSession /\ mem[t].cred \in Creds
            /\ (Gone(mem[t].cred) \/ Found(t, k))
        BY <1>1, <4>1 DEF TaskOK, TypeOK, SessionOrNone, Session
      <4>3. Gone(mem[t].cred) => Gone(mem[t].cred)'
        BY <2>2, <2>8, <4>2, GoneStays DEF Gone
      <4>4. Found(t, k) => Found(t, k)'
        BY <2>3, <2>4, <2>7, <2>8, <2>9 DEF Found
      <4> QED BY <2>8, <4>2, <4>3, <4>4
    <3> QED BY <2>7, <2>3, <2>9, <3>1, <3>2, <3>3 DEF TaskOK, Asked
  <2>11. Agrees(t)'
    BY <1>1, <2>2, <2>3, <2>4, <2>8, TaskSet, SameSessionAgrees DEF Kinds
  <2> QED BY <2>2, <2>3, <2>8, <2>10, <2>11, TaskStepAgrees
<1>3. CASE RequestFails(t, k)
  <2>1. /\ Finish(t, k) /\ task[t][k].pc = "request"
        /\ UNCHANGED <<shared, mem, rev, published, notice, auth, cleanups>>
    BY <1>3 DEF RequestFails, At
  <2>2. /\ Ages
        /\ task'[t]["reconcile"] = task[t]["reconcile"]
           \/ task[t]["reconcile"].pc = "request"
    BY <1>1, <2>1, SharedKeptAges, FinishSet DEF shared, Kinds
  <2>3. Agrees(t)'
    BY <2>1, <2>2, SameSessionAgrees DEF shared
  <2>4. TaskOK(t, k)'
    BY <1>1, <2>1, FinishSet, IdleTaskOK
  <2> QED BY <2>1, <2>2, <2>3, <2>4, TaskStepAgrees DEF Finish, shared
<1> QED BY <1>2, <1>3

LEMMA ResolveAgrees ==
  ASSUME EndInv, AgreeInv, TypeOK', NEW t \in Tabs, NEW k \in Kinds,
         ResolveOwn(t, k) \/ ResolveOther(t, k)
  PROVE  AgreeInv'
<1> DEFINE work == task[t][k]
<1>1. TypeOK /\ SharedOK /\ TaskOK(t, k) /\ work \in Task /\ work.rev \in Nat
  BY DEF EndInv, AgreeInv, TabAgrees, TypeOK, TasksOK, Task
<1>2. work.pc \in {"judgeOwn", "judgeOther"} /\ UNCHANGED auth
  BY DEF ResolveOwn, ResolveOther
<1>3. work.rev = rev[t] => mem[t] # NoSession /\ Gone(mem[t].cred)
  BY <1>1, <1>2 DEF TaskOK, Still, Found
<1>4. CASE Judging(t, k, work.rev) /\ ResolveOwn(t, k)
                /\ work.seen # NoCred /\ record # NoSession
                /\ record.cred # CredOf(mem[t])
  <2>1. UNCHANGED <<shared, mem, rev, published, notice, cleanups>>
    BY <1>4 DEF ResolveOwn
  <2>2. \/ task'[t]["reconcile"] = task[t]["reconcile"]
        \/ task[t]["reconcile"].pc \notin {"follow", "own"}
    BY <1>1, <1>2, <1>4, TaskSet DEF Judging, Kinds
  <2>3. Agrees(t)'
    BY <1>1, <2>1, <2>2, SharedKeptAges, SameSessionAgrees DEF shared
  <2> QED BY <1>1, <1>2, <1>3, <1>4, <2>1, <2>3, JudgingAgrees
<1>5. CASE Finish(t, k)
  <2>1. /\ TasksEnd(t) /\ OtherWorkKept(t) /\ AuthKept(t) /\ FollowKept(t)
        /\ task'[t][k] = IdleTask
    BY <1>1, <1>2, <1>5, FinishSet
  <2>2. CASE JudgedStill(t, k) /\ (Expired(t) \/ Lost(t))
    <3>1. mem[t] # NoSession /\ Dead(mem[t].cred)
      BY <1>3, <2>2 DEF JudgedStill, Dead
    <3> QED BY <2>1, <2>2, <3>1, EndSessionAgrees DEF Expired, Lost
  <2>3. CASE JudgedStill(t, k) /\ ForgetSession(t) /\ UNCHANGED notice
    <3>1. mem[t] # NoSession /\ Dead(mem[t].cred)
      BY <1>3, <2>3 DEF JudgedStill, Dead
    <3>2. Agrees(t)'
      BY <1>1, <2>1, <2>3, <3>1, DeadSessionAgrees DEF ForgetSession, TypeOK
    <3> QED BY <2>1, <2>3, <3>2, ForgetSessionAgrees
  <2>4. CASE UNCHANGED <<shared, mem, rev, published, notice, cleanups>>
    <3>1. \/ task'[t]["reconcile"] = task[t]["reconcile"]
          \/ task[t]["reconcile"].pc \notin {"follow", "own"}
      BY <1>1, <1>2, <1>5, FinishSet DEF Kinds
    <3>2. Ages
      BY <1>1, <2>4, SharedKeptAges DEF shared
    <3>3. Agrees(t)'
      BY <2>4, <3>1, <3>2, SameSessionAgrees DEF shared
    <3>4. TaskOK(t, k)'
      BY <2>1, IdleTaskOK
    <3> QED BY <1>2, <1>5, <2>4, <3>2, <3>3, <3>4, TaskStepAgrees DEF Finish, shared
  <2> QED BY <1>5, <2>2, <2>3, <2>4 DEF ResolveOwn, ResolveOther, Judging
<1> QED BY <1>4, <1>5 DEF ResolveOwn, ResolveOther

(* A task ends and changes nothing.                                         *)
LEMMA FinishAgrees ==
  ASSUME EndInv, AgreeInv, TypeOK', NEW t \in Tabs, NEW k \in {"call", "read"},
         Finish(t, k), UNCHANGED <<shared, mem, rev, notice, auth, cleanups>>
  PROVE  AgreeInv'
<1>1. TypeOK /\ SharedOK /\ k \in Kinds /\ "reconcile" \in Kinds \ {k}
  BY DEF EndInv, AgreeInv, Kinds
<1>2. Ages
  BY <1>1, SharedKeptAges DEF shared
<1>3. task'[t][k] = IdleTask /\ task'[t]["reconcile"] = task[t]["reconcile"]
  BY <1>1, FinishSet
<1>4. Agrees(t)'
  BY <1>2, <1>3, SameSessionAgrees DEF shared
<1>5. TaskOK(t, k)'
  BY <1>1, <1>3, IdleTaskOK
<1> QED BY <1>1, <1>2, <1>4, <1>5, TaskStepAgrees DEF Finish, shared

LEMMA FinishExpiredAgrees ==
  ASSUME EndInv, AgreeInv, TypeOK', NEW t \in Tabs, NEW k \in {"call", "read"},
         Finish(t, k), Expired(t), UNCHANGED auth,
         mem[t] # NoSession, Dead(mem[t].cred)
  PROVE  AgreeInv'
<1>1. TypeOK /\ k \in Kinds /\ k # "reconcile"
  BY DEF EndInv, Kinds
<1>2. TasksEnd(t) /\ OtherWorkKept(t) /\ AuthKept(t) /\ FollowKept(t)
  BY <1>1, FinishSet
<1> QED BY <1>2, EndSessionAgrees DEF Expired

(* A call or read begins, in the session of now.                            *)
LEMMA RequestBegins ==
  ASSUME EndInv, AgreeInv, TypeOK', NEW t \in Tabs, NEW k \in {"call", "read"},
         mem[t] # NoSession, NEW r, SetTask(t, k, r),
         r.pc = "request", r.rev = rev[t], r.session = mem[t],
         UNCHANGED <<shared, mem, rev, notice, auth, cleanups>>
  PROVE  AgreeInv'
<1>1. TypeOK /\ SharedOK /\ k \in Kinds /\ "reconcile" \in Kinds \ {k} /\ TabAgrees(t)
  BY DEF EndInv, AgreeInv, Kinds
<1>2. Ages
  BY <1>1, SharedKeptAges DEF shared
<1>3. task'[t][k] = r /\ task'[t]["reconcile"] = task[t]["reconcile"]
  BY <1>1, TaskSet
<1>4. Agrees(t)'
  BY <1>2, <1>3, SameSessionAgrees DEF shared
<1>5. UNCHANGED <<key, status, mem, rev>>
  BY DEF shared
<1>6. Sound(mem[t].cred)
  BY <1>1 DEF TabAgrees
<1>7. TaskOK(t, k)'
  BY <1>3, <1>5, <1>6 DEF TaskOK, Asked, Found, Sound, Gone
<1> QED BY <1>1, <1>2, <1>4, <1>7, TaskStepAgrees DEF shared

(* A session is set, and stored if the record changes.                      *)
LEMMA SessionSetAgrees ==
  ASSUME EndInv, AgreeInv, TypeOK', NEW t \in Tabs, NEW s,
         mem' = [mem EXCEPT ![t] = s], s # NoSession, Sound(s.cred),
         record' = record \/ record' = s,
         \A u \in Tabs \ {t} : (record' # record => notice'[u])
                               /\ (notice[u] => notice'[u]),
         UNCHANGED <<key, status, cleanups>>, \A u \in Tabs : rev'[u] >= rev[u],
         \A u \in Tabs \ {t} : rev'[u] = rev[u],
         OtherWorkKept(t), TasksEnd(t), SessionKept(t), AuthOK(t)', Agrees(t)'
  PROVE  AgreeInv'
<1>1. TypeOK /\ SharedOK /\ TabAgrees(t)
  BY DEF EndInv, AgreeInv
<1>2. Ages
  BY <1>1, SharedKeptAges
<1>3. SharedOK'
  BY <1>1 DEF SharedOK, Sound, Gone
<1>4. ASSUME NEW c \in cleanups' PROVE CleanupOK(c)'
  <2>1. c \in cleanups /\ c.tab \in Tabs
    BY <1>1 DEF TypeOK, Cleanup
  <2> QED BY <1>2, <2>1, CleanupsAge
<1>5. \A u \in Tabs \ {t} : Untouched(u)
  BY <1>1 DEF OtherWorkKept, Untouched, TypeOK
<1>6. (mem[t] # NoSession => Sound(mem[t].cred))'
  BY <1>1 DEF Sound, Gone, TypeOK
<1>7. \A k \in Kinds : TaskOK(t, k)' \/ task'[t][k] = task[t][k]
  BY IdleTaskOK DEF TasksEnd
<1> QED BY <1>2, <1>3, <1>4, <1>5, <1>6, <1>7, TabStepAgrees

(* The call captures the session and asks for another wallet, or finds that *)
(* the key is gone.                                                         *)
LEMMA CallStartDoes ==
  ASSUME NEW t \in Tabs, CallStart(t)
  PROVE  /\ mem[t] # NoSession /\ UNCHANGED auth
         /\ \/ ~Holds(mem[t]) /\ Mismatch(t, "call")
            \/ /\ \E w \in Wallets :
                    SetTask(t, "call", [IdleTask EXCEPT !.pc = "request",
                                                        !.rev = rev[t],
                                                        !.session = mem[t],
                                                        !.wallet = w])
               /\ UNCHANGED <<shared, mem, rev, notice, cleanups>>
BY DEF CallStart

LEMMA CallAgrees ==
  ASSUME EndInv, AgreeInv, TypeOK', NEW t \in Tabs, CallStart(t) \/ Call(t)
  PROVE  AgreeInv'
<1> DEFINE work == task[t]["call"]
<1>1. /\ TypeOK /\ SharedOK /\ TabAgrees(t) /\ TaskOK(t, "call")
      /\ "call" \in Kinds /\ "reconcile" \in Kinds \ {"call"}
      /\ work \in Task /\ Captured("call", work)
  BY DEF EndInv, AgreeInv, TabAgrees, TypeOK, TasksOK, Kinds
<1>2. mem[t] # NoSession => Sound(mem[t].cred) /\ mem[t] \in Session
  BY <1>1 DEF TabAgrees, TypeOK, SessionOrNone
<1>3. CASE CallStart(t)
  <2>1. mem[t] # NoSession /\ UNCHANGED auth
    BY <1>3, CallStartDoes
  <2>2. CASE ~Holds(mem[t]) /\ Mismatch(t, "call")
    <3>1. Gone(mem[t].cred)
      BY <1>1, <1>2, <2>1, <2>2, SoundIsHeldOrGone DEF Holds
    <3> QED BY <1>1, <2>1, <2>2, <3>1, MismatchAgrees
  <2>3. ASSUME NEW w \in Wallets,
               SetTask(t, "call", [IdleTask EXCEPT !.pc = "request", !.rev = rev[t],
                                                   !.session = mem[t], !.wallet = w]),
               UNCHANGED <<shared, mem, rev, notice, cleanups>>
        PROVE  AgreeInv'
    <3> DEFINE r == [IdleTask EXCEPT !.pc = "request", !.rev = rev[t],
                                     !.session = mem[t], !.wallet = w]
    <3>1. r.pc = "request" /\ r.rev = rev[t] /\ r.session = mem[t]
      BY DEF IdleTask
    <3>2. SetTask(t, "call", r)
      BY <2>3
    <3> HIDE DEF r
    <3> QED BY <2>1, <2>3, <3>1, <3>2, RequestBegins
  <2> QED BY <1>3, <2>2, <2>3, CallStartDoes
<1>4. CASE CallRefused(t)
  <2>1. work.pc = "refused" /\ Finish(t, "call") /\ UNCHANGED auth
    BY <1>4 DEF CallRefused, At
  <2>2. CASE rev[t] = work.rev /\ mem[t] # NoSession
    <3>1. Gone(mem[t].cred) \/ mem[t].cred = work.session.cred
      BY <1>1, <2>1, <2>2 DEF TaskOK, Still, Found
    <3>2. Dead(mem[t].cred)
      BY <1>1, <2>1, <3>1 DEF TaskOK, Dead
    <3> QED BY <1>4, <2>1, <2>2, <3>2, FinishExpiredAgrees DEF CallRefused
  <2>3. CASE ~(rev[t] = work.rev /\ mem[t] # NoSession)
    BY <1>4, <2>1, <2>3, FinishAgrees DEF CallRefused
  <2> QED BY <2>2, <2>3
<1>5. CASE CallAnswered(t)
  <2>1. work.pc = "answered" /\ UNCHANGED auth
    BY <1>5 DEF CallAnswered, At
  <2>2. CASE PastCap(mem[t])
    <3>1. mem[t] # NoSession /\ Dead(mem[t].cred)
      BY <2>2 DEF PastCap, Dead
    <3> QED BY <1>5, <2>1, <2>2, <3>1, FinishExpiredAgrees DEF CallAnswered
  <2>3. CASE mem[t] = NoSession /\ ~PastCap(mem[t])
    BY <1>5, <2>1, <2>3, FinishAgrees DEF CallAnswered
  <2>4. CASE mem[t] # NoSession /\ ~PastCap(mem[t])
    <3> DEFINE r == [work EXCEPT !.pc = "checked", !.rev = rev[t], !.seen = key]
    <3>1. /\ SetTask(t, "call", r)
          /\ UNCHANGED <<shared, mem, rev, published, notice, cleanups>>
      BY <1>5, <2>4 DEF CallAnswered
    <3>2. /\ r.pc = "checked" /\ r.rev = rev[t] /\ r.seen = key
          /\ r.session = work.session
      BY <1>1 DEF Task
    <3> HIDE DEF r
    <3>3. task'[t]["call"] = r /\ task'[t]["reconcile"] = task[t]["reconcile"]
      BY <1>1, <3>1, TaskSet
    <3>4. Ages
      BY <1>1, <3>1, SharedKeptAges DEF shared
    <3>5. Agrees(t)'
      BY <3>1, <3>3, <3>4, SameSessionAgrees DEF shared
    <3>6. work.session # NoSession /\ Sound(work.session.cred)
      BY <1>1, <2>1, ConstantsAssumption DEF TaskOK, Captured, Session
    <3>7. /\ key = work.session.cred \/ Gone(work.session.cred)
          /\ key = mem[t].cred \/ Gone(mem[t].cred)
      BY <1>1, <1>2, <2>4, <3>6, SoundIsHeldOrGone
    <3>8. UNCHANGED <<key, status, mem, rev>>
      BY <3>1 DEF shared
    <3>9. TaskOK(t, "call")'
      BY <2>4, <3>2, <3>3, <3>6, <3>7, <3>8
         DEF TaskOK, Asked, Still, Found, Sound, Gone
    <3> QED BY <1>1, <2>1, <3>1, <3>4, <3>5, <3>9, TaskStepAgrees DEF shared
  <2> QED BY <2>2, <2>3, <2>4
<1>6. CASE CallApply(t)
  <2> DEFINE s == [work.session EXCEPT !.wallet = work.wallet]
  <2>1. work.pc = "checked" /\ UNCHANGED auth
    BY <1>6 DEF CallApply, At
  <2>2. CASE ~SignerMatched(t, "call") /\ rev[t] = work.rev
    <3>1. mem[t] # NoSession /\ Gone(mem[t].cred)
      BY <1>1, <2>1, <2>2 DEF TaskOK, Still, Found, SignerMatched
    <3> QED BY <1>1, <1>6, <2>1, <2>2, <3>1, MismatchAgrees DEF CallApply
  <2>3. CASE SignerMatched(t, "call") /\ SameActiveWalletSession(t)
    <3>1. /\ Store(t, s) /\ mem' = [mem EXCEPT ![t] = s] /\ Finish(t, "call")
          /\ UNCHANGED <<key, status, rev, cleanups>>
      BY <1>6, <2>3 DEF CallApply
    <3>2. /\ s # NoSession /\ s.cred = work.session.cred /\ Sound(s.cred)
          /\ s.cred = work.seen \/ Gone(s.cred)
      BY <1>1, <2>1, ConstantsAssumption DEF TaskOK, Asked, Captured, Session
    <3> HIDE DEF s
    <3>3. /\ mem'[t] = s /\ record' = s /\ mem[t] # NoSession
          /\ work.seen = mem[t].cred
      BY <1>1, <2>3, <3>1 DEF SignerMatched, Store, TypeOK
    <3>4. SessionKept(t)
      BY <3>1, <3>2, <3>3 DEF SessionKept, Gone
    <3>5. TasksEnd(t) /\ OtherWorkKept(t) /\ AuthKept(t)
      BY <1>1, <2>1, <3>1, FinishSet
    <3>6. Ages
      BY <1>1, <3>1, SharedKeptAges
    <3>7. AuthOK(t)'
      BY <1>1, <3>1, <3>3, <3>5, <3>6, AuthAges DEF TabAgrees
    <3>8. Agrees(t)'
      BY <3>2, <3>3 DEF Agrees
    <3>9. \A u \in Tabs \ {t} : (record' # record => notice'[u])
                                /\ (notice[u] => notice'[u])
      BY <1>1, <3>1 DEF Store, NoticeFrom, TypeOK
    <3>10. UNCHANGED <<key, status, cleanups>> /\ \A u \in Tabs : rev'[u] >= rev[u]
      BY <1>1, <3>1 DEF TypeOK
    <3> QED BY <3>1, <3>2, <3>3, <3>4, <3>5, <3>7, <3>8, <3>9, <3>10, SessionSetAgrees
  <2>4. CASE /\ ~(~SignerMatched(t, "call") /\ rev[t] = work.rev)
             /\ ~(SignerMatched(t, "call") /\ SameActiveWalletSession(t))
    BY <1>6, <2>1, <2>4, FinishAgrees DEF CallApply, shared
  <2> QED BY <2>2, <2>3, <2>4
<1> QED BY <1>3, <1>4, <1>5, <1>6 DEF Call

LEMMA ReadAgrees ==
  ASSUME EndInv, AgreeInv, TypeOK', NEW t \in Tabs, ReadStart(t) \/ Read(t)
  PROVE  AgreeInv'
<1> DEFINE work == task[t]["read"]
<1>1. /\ TypeOK /\ SharedOK /\ TabAgrees(t) /\ TaskOK(t, "read")
      /\ "read" \in Kinds /\ "reconcile" \in Kinds \ {"read"}
      /\ work \in Task /\ Captured("read", work)
  BY DEF EndInv, AgreeInv, TabAgrees, TypeOK, TasksOK, Kinds
<1>2. mem[t] # NoSession => Sound(mem[t].cred) /\ mem[t] \in Session
  BY <1>1 DEF TabAgrees, TypeOK, SessionOrNone
<1>3. CASE ReadStart(t)
  <2> DEFINE r == [IdleTask EXCEPT !.pc = "request", !.rev = rev[t],
                                   !.session = mem[t]]
  <2>1. mem[t] # NoSession /\ UNCHANGED auth
    BY <1>3 DEF ReadStart
  <2>2. CASE Holds(mem[t])
    <3>1. SetTask(t, "read", r) /\ UNCHANGED <<shared, mem, rev, notice, cleanups>>
      BY <1>3, <2>2 DEF ReadStart
    <3>2. r.pc = "request" /\ r.rev = rev[t] /\ r.session = mem[t]
      BY DEF IdleTask
    <3> HIDE DEF r
    <3> QED BY <2>1, <3>1, <3>2, RequestBegins
  <2>3. CASE ~Holds(mem[t])
    <3>1. Gone(mem[t].cred)
      BY <1>1, <1>2, <2>1, <2>3, SoundIsHeldOrGone DEF Holds
    <3>2. Mismatch(t, "read")
      BY <1>3, <2>3 DEF ReadStart
    <3> QED BY <1>1, <2>1, <3>1, <3>2, MismatchAgrees
  <2> QED BY <2>2, <2>3
<1>4. CASE ReadApply(t)
  <2>1. Finish(t, "read") /\ UNCHANGED <<key, status, mem, rev, auth, cleanups>>
    BY <1>4 DEF ReadApply
  <2>2. CASE ~ReadIsCurrent(t)
    BY <1>4, <2>1, <2>2, FinishAgrees DEF ReadApply, shared
  <2>3. CASE ReadIsCurrent(t)
    <3> DEFINE s == mem[t]
    <3>1. /\ s # NoSession /\ Sound(s.cred) /\ mem' = [mem EXCEPT ![t] = s]
          /\ record' = IF record = NoSession THEN s ELSE record
          /\ notice' = IF CredOf(record') = CredOf(s) THEN NoticeFrom(t) ELSE notice
      BY <1>1, <1>2, <1>4, <2>1, <2>3
         DEF ReadApply, ReadIsCurrent, RefreshedRecord, TypeOK
    <3>2. \A u \in Tabs \ {t} : (record' # record => notice'[u])
                                /\ (notice[u] => notice'[u])
      BY <1>1, <3>1 DEF NoticeFrom, TypeOK
    <3>3. notice'[t] = notice[t]
      BY <1>1, <3>1 DEF NoticeFrom, TypeOK
    <3>4. /\ TasksEnd(t) /\ OtherWorkKept(t) /\ AuthKept(t)
          /\ task'[t]["reconcile"] = task[t]["reconcile"]
      BY <1>1, <2>1, FinishSet
    <3>5. Ages
      BY <1>1, <2>1, SharedKeptAges
    <3>6. AuthOK(t)' /\ SessionKept(t)
      BY <1>1, <2>1, <3>1, <3>4, <3>5, AuthAges DEF TabAgrees, SessionKept
    <3>7. Agrees(t)'
      <4>1. CASE record = NoSession
        BY <2>1, <3>1, <4>1 DEF Agrees
      <4>2. CASE record # NoSession
        BY <2>1, <3>1, <3>3, <3>4, <3>5, <4>2, SameSessionAgrees
      <4> QED BY <4>1, <4>2
    <3>8. record' = record \/ record' = s
      BY <3>1
    <3>9. \A u \in Tabs : rev'[u] = rev[u] /\ rev'[u] >= rev[u]
      BY <1>1, <2>1 DEF TypeOK
    <3> HIDE DEF s
    <3> QED BY <2>1, <3>1, <3>2, <3>4, <3>6, <3>7, <3>8, <3>9, SessionSetAgrees
  <2> QED BY <2>2, <2>3
<1>5. CASE ReadRefused(t)
  <2>1. work.pc = "refused" /\ Finish(t, "read") /\ UNCHANGED auth
    BY <1>5 DEF ReadRefused, At
  <2>2. CASE ReadIsCurrent(t)
    <3>1. mem[t] # NoSession /\ mem[t].cred = work.session.cred
      BY <1>1, <2>1, <2>2, ConstantsAssumption
         DEF ReadIsCurrent, Captured, CredOf, Session
    <3>2. Dead(mem[t].cred)
      BY <1>1, <2>1, <3>1 DEF TaskOK
    <3> QED BY <1>5, <2>1, <2>2, <3>1, <3>2, FinishExpiredAgrees DEF ReadRefused
  <2>3. CASE ~ReadIsCurrent(t)
    BY <1>5, <2>1, <2>3, FinishAgrees DEF ReadRefused
  <2> QED BY <2>2, <2>3
<1> QED BY <1>3, <1>4, <1>5 DEF Read

LEMMA ReloadAgrees ==
  ASSUME EndInv, AgreeInv, TypeOK', NEW t \in Tabs, Reload(t)
  PROVE  AgreeInv'
<1>1. /\ TypeOK /\ SharedOK
      /\ auth'[t] = IdleAuth /\ rev'[t] = 0 /\ mem'[t] = Restored
      /\ \A k \in Kinds : task'[t][k] = IdleTask
      /\ UNCHANGED <<record, key, status>>
      /\ \A u \in Tabs \ {t} : /\ mem'[u] = mem[u] /\ rev'[u] = rev[u]
                               /\ auth'[u] = auth[u] /\ task'[u] = task[u]
                               /\ notice'[u] = notice[u]
  BY DEF Reload, EndInv, AgreeInv, TypeOK, TasksOK, shared
<1>2. Ages
  BY <1>1, SharedKeptAges
<1>3. SharedOK'
  BY <1>1 DEF SharedOK, Sound, Gone
<1>4. ASSUME NEW c \in cleanups' PROVE CleanupOK(c)'
  <2> DEFINE d == [tab |-> t, rev |-> 0, automatic |-> TRUE, cred |-> CredOf(record),
                   end |-> "expired", signIn |-> FALSE]
  <2>1. (c \in cleanups /\ c.tab # t) \/ (c = d /\ PastCap(record))
    BY DEF Reload
  <2>2. CASE c \in cleanups /\ c.tab # t
    <3>1. c.tab \in Tabs /\ rev[c.tab] \in Nat
      BY <1>1, <2>2 DEF TypeOK, Cleanup
    <3> QED BY <1>1, <1>2, <2>2, <3>1, CleanupsAge
  <2>3. CASE c = d /\ PastCap(record)
    <3>1. c.tab = t /\ c.rev = 0 /\ c.cred = CredOf(record)
      BY <2>3
    <3>2. Dead(c.cred)'
      BY <1>1, <2>3, <3>1 DEF PastCap, CredOf, Dead
    <3>3. c.rev <= rev'[c.tab]
      BY <1>1, <3>1
    <3> QED BY <3>2, <3>3 DEF CleanupOK
  <2> QED BY <2>1, <2>2, <2>3
<1>5. ASSUME NEW u \in Tabs \ {t} PROVE TabAgrees(u)'
  BY <1>1, <1>2, UntouchedAgrees DEF Untouched
<1>6. Agrees(t)'
  BY <1>1 DEF Agrees, Restored, PastCap, StoredIsLive, Holds
<1>7. (mem[t] # NoSession => Sound(mem[t].cred))'
  BY <1>1, <1>3 DEF SharedOK, Restored, Sound, Gone
<1>8. TabAgrees(t)'
  BY <1>1, <1>6, <1>7, IdleTaskOK, IdleAuthOK DEF TabAgrees
<1> QED BY <1>3, <1>4, <1>5, <1>8 DEF AgreeInv

(* WaaS ends a credential: no tab is told.                                  *)
LEMMA WaasAgrees ==
  ASSUME EndInv, AgreeInv, TypeOK', NEW c \in Creds, WaasEnds(c) \/ CapPasses(c)
  PROVE  AgreeInv'
<1>1. /\ TypeOK /\ SharedOK
      /\ UNCHANGED <<record, key, mem, rev, published, notice, auth, task, cleanups>>
  BY DEF EndInv, AgreeInv, WaasEnds, CapPasses
<1>2. Ages
  BY <1>1, WaasAges
<1>3. SharedOK'
  <2>1. record # NoSession => record.cred \in Creds
    BY <1>1 DEF TypeOK, SessionOrNone, Session
  <2> QED BY <1>1, <1>2, <2>1, SoundStays DEF SharedOK, Ages, Sound, Gone
<1>4. \A d \in cleanups' : CleanupOK(d)'
  <2>1. \A d \in cleanups : rev'[d.tab] >= rev[d.tab]
    BY <1>1 DEF TypeOK, Cleanup
  <2> QED BY <1>1, <1>2, <2>1, CleanupsAge
<1>5. \A u \in Tabs : TabAgrees(u)'
  BY <1>1, <1>2, UntouchedAgrees DEF Untouched
<1> QED BY <1>3, <1>4, <1>5 DEF AgreeInv

(* Only the sign-in of tab t goes on.                                       *)
LEMMA AuthStepAgrees ==
  ASSUME EndInv, AgreeInv, TypeOK', Ages, NEW t \in Tabs, AuthOK(t)',
         \A u \in Tabs \ {t} : auth'[u] = auth[u],
         UNCHANGED <<record, mem, rev, notice, task>>, cleanups' \subseteq cleanups
  PROVE  AgreeInv'
<1>1. TypeOK /\ SharedOK /\ TabAgrees(t)
  BY DEF EndInv, AgreeInv
<1>2. SharedOK'
  <2>1. record # NoSession => record.cred \in Creds
    BY <1>1 DEF TypeOK, SessionOrNone, Session
  <2> QED BY <1>1, <2>1, SoundStays DEF SharedOK, Ages, Sound, Gone
<1>3. \A c \in cleanups' : CleanupOK(c)'
  <2>1. \A c \in cleanups : rev'[c.tab] >= rev[c.tab]
    BY <1>1 DEF TypeOK, Cleanup
  <2> QED BY <2>1, CleanupsAge
<1>4. \A u \in Tabs \ {t} : Untouched(u)
  BY DEF Untouched
<1>5. (mem[t] # NoSession => Sound(mem[t].cred))'
  <2>1. mem[t] # NoSession => mem[t].cred \in Creds
    BY <1>1 DEF TypeOK, SessionOrNone, Session
  <2> QED BY <1>1, <2>1, SoundStays DEF TabAgrees, Sound, Gone
<1>6. Agrees(t)'
  BY SameSessionAgrees
<1>7. SessionKept(t)
  BY DEF SessionKept
<1> QED BY <1>2, <1>3, <1>4, <1>5, <1>6, <1>7, TabStepAgrees

LEMMA CleanupStepAgrees ==
  ASSUME EndInv, AgreeInv, TypeOK', NEW c \in cleanups, DeleteKey(c) \/ DeleteKeyFails(c)
  PROVE  AgreeInv'
<1> DEFINE t == c.tab
<1>1. TypeOK /\ SharedOK /\ t \in Tabs /\ TabAgrees(t) /\ mem[t] = NoSession
  BY EndInvImplies DEF EndInv, AgreeInv, TypeOK, Cleanup, SessionMeansNoCleanup
<1>2. PICK deleted \in BOOLEAN : AfterCleanup(c, deleted)
  BY DEF DeleteKey, DeleteKeyFails
<1>3. /\ UNCHANGED <<record, status, mem, rev, notice, task>>
      /\ cleanups' \subseteq cleanups
      /\ \A u \in Tabs \ {t} : auth'[u] = auth[u]
      /\ \/ auth'[t] = auth[t] \/ auth'[t] = IdleAuth
         \/ auth'[t] = [auth[t] EXCEPT !.pc = "commit", !.rev = rev[t]]
  BY <1>1, <1>2 DEF AfterCleanup, TypeOK
<1>4. Ages
  BY <1>1, <1>3, DeletionAges DEF DeleteKey, DeleteKeyFails
<1>5. AuthOK(t)'
  <2>1. CASE auth'[t] = auth[t]
    <3>1. AuthKept(t) /\ rev'[t] = rev[t] /\ mem'[t] = NoSession
      BY <1>1, <1>3, <2>1 DEF AuthKept
    <3> QED BY <1>1, <1>4, <3>1, AuthAges DEF TabAgrees
  <2>2. CASE auth'[t] = IdleAuth
    BY <1>1, <2>2, IdleAuthOK
  <2>3. CASE auth'[t] = [auth[t] EXCEPT !.pc = "commit", !.rev = rev[t]]
    <3>1. /\ auth[t] \in Auth
          /\ auth[t].session # NoSession => auth[t].session.cred \in Creds
      BY <1>1 DEF TypeOK, Auth, SessionOrNone, Session
    <3>2. auth'[t].pc = "commit" /\ auth'[t].session = auth[t].session
      BY <2>3, <3>1 DEF Auth
    <3> QED BY <1>1, <1>3, <1>4, <3>1, <3>2 DEF AuthOK, TabAgrees, Ages
  <2> QED BY <1>3, <2>1, <2>2, <2>3
<1> QED BY <1>1, <1>3, <1>4, <1>5, AuthStepAgrees

LEMMA SignInAgrees ==
  ASSUME EndInv, AgreeInv, TypeOK', NEW t \in Tabs, SignIn(t)
  PROVE  AgreeInv'
<1>1. /\ TypeOK /\ SharedOK /\ TabAgrees(t) /\ AuthOK(t) /\ auth[t] \in Auth
      /\ auth[t].session # NoSession => auth[t].session.cred \in Creds
  BY DEF EndInv, AgreeInv, TabAgrees, TypeOK, Auth, SessionOrNone, Session
<1>2. ASSUME NEW pc \in {"complete", "identify", "persist"},
             auth' = [auth EXCEPT ![t].pc = pc],
             auth[t].pc \in {"commit", "complete", "select"}, Ages,
             pc = "persist" => /\ auth[t].session # NoSession
                               /\ Sound(auth[t].session.cred),
             UNCHANGED <<record, mem, rev, notice, task, cleanups>>
      PROVE  AgreeInv'
  <2>1. /\ auth'[t].pc = pc /\ auth'[t].rev = auth[t].rev
        /\ auth'[t].session = auth[t].session
        /\ \A u \in Tabs \ {t} : auth'[u] = auth[u]
    BY <1>1, <1>2 DEF TypeOK, Auth
  <2>2. pc = "persist" => Sound(auth[t].session.cred)'
    BY <1>1, <1>2, <2>1, SoundStays DEF Sound, Gone
  <2>3. AuthOK(t)'
    BY <1>1, <1>2, <2>1, <2>2 DEF AuthOK, Ages
  <2> QED BY <1>2, <2>1, <2>3, AuthStepAgrees
<1>3. ASSUME auth' = [auth EXCEPT ![t] = IdleAuth], Ages,
             UNCHANGED <<record, mem, rev, notice, task, cleanups>>
      PROVE  AgreeInv'
  <2>1. auth'[t] = IdleAuth /\ \A u \in Tabs \ {t} : auth'[u] = auth[u]
    BY <1>1, <1>3 DEF TypeOK
  <2> QED BY <1>3, <2>1, IdleAuthOK, AuthStepAgrees
<1>4. CASE SignInCommit(t)
  <2>1. Ages
    BY <1>1, <1>4, UseAges DEF SignInCommit
  <2> QED BY <1>2, <1>4, <2>1 DEF SignInCommit
<1>5. CASE SignInComplete(t)
  <2>1. Ages
    BY <1>1, <1>5, CompleteAges
  <2> QED BY <1>2, <1>5, <2>1 DEF SignInComplete
<1>6. CASE SignInIdentify(t)
  <2>1. PICK c \in SignerCreds \ {NoCred}, w \in Wallets :
          /\ Use(c)
          /\ auth' = [auth EXCEPT ![t] =
               IF RevisionCurrent(t)
                 THEN [@ EXCEPT !.pc = "select",
                                !.session = [cred |-> c, wallet |-> w]]
                 ELSE IdleAuth]
    BY <1>6 DEF SignInIdentify, Identity
  <2>2. /\ Ages /\ auth[t].pc = "identify"
        /\ UNCHANGED <<record, mem, rev, notice, task, cleanups>>
    BY <1>1, <1>6, <2>1, UseAges DEF SignInIdentify
  <2>3. CASE RevisionCurrent(t)
    <3> DEFINE s == [cred |-> c, wallet |-> w]
               a == [auth[t] EXCEPT !.pc = "select", !.session = s]
    <3>1. s \in Session /\ s # NoSession /\ s.cred = c /\ status'[c] # "unused"
      <4>1. c \in Creds
        BY <1>1, <2>1 DEF SignerCreds, TypeOK, CredOrNone
      <4> QED BY <1>1, <2>1, <4>1, ConstantsAssumption DEF Use, Session, TypeOK
    <3> HIDE DEF s
    <3>2. auth' = [auth EXCEPT ![t] = a]
      BY <2>1, <2>3 DEF s
    <3>3. a.pc = "select" /\ a.session = s /\ a.rev = auth[t].rev
      BY <1>1 DEF Auth
    <3> HIDE DEF a
    <3>4. auth'[t] = a /\ \A u \in Tabs \ {t} : auth'[u] = auth[u]
      BY <1>1, <3>2 DEF TypeOK
    <3>5. AuthOK(t)'
      BY <1>1, <2>2, <3>1, <3>3, <3>4 DEF AuthOK
    <3> QED BY <2>2, <3>4, <3>5, AuthStepAgrees
  <2>4. CASE ~RevisionCurrent(t)
    BY <1>3, <2>1, <2>2, <2>4
  <2> QED BY <2>3, <2>4
<1>7. CASE SignInSelect(t)
  <2>1. /\ auth[t].pc = "select" /\ status[key] = "live"
        /\ auth' = [auth EXCEPT ![t].pc = "persist"]
        /\ UNCHANGED <<key, status, record, mem, rev, notice, task, cleanups>>
    BY <1>7 DEF SignInSelect, shared
  <2>2. auth[t].session # NoSession /\ Sound(auth[t].session.cred)
    BY <1>1, <2>1 DEF AuthOK, Sound, Gone
  <2> QED BY <1>1, <1>2, <2>1, <2>2, SharedKeptAges
<1>8. CASE SignInPersist(t)
  <2> DEFINE s == auth[t].session
  <2>1. /\ auth[t].pc = "persist" /\ auth' = [auth EXCEPT ![t] = IdleAuth]
        /\ UNCHANGED <<key, status, rev, task, cleanups>>
    BY <1>8 DEF SignInPersist
  <2>2. Ages
    BY <1>1, <2>1, SharedKeptAges
  <2>3. CASE ~RevisionCurrent(t)
    BY <1>3, <1>8, <2>1, <2>2, <2>3 DEF SignInPersist
  <2>4. CASE RevisionCurrent(t)
    <3>1. s # NoSession /\ Sound(s.cred) /\ mem[t] = NoSession
      BY <1>1, <2>1, <2>4 DEF AuthOK, RevisionCurrent
    <3>2. Store(t, s) /\ mem' = [mem EXCEPT ![t] = s]
      BY <1>8, <2>4 DEF SignInPersist
    <3>3. mem'[t] = s /\ record' = s
      BY <1>1, <3>2 DEF Store, TypeOK
    <3>4. \A u \in Tabs \ {t} : (record' # record => notice'[u])
                                /\ (notice[u] => notice'[u])
      BY <1>1, <3>2 DEF Store, NoticeFrom, TypeOK
    <3>5. auth'[t] = IdleAuth /\ OtherWorkKept(t) /\ TasksEnd(t)
      BY <1>1, <2>1 DEF OtherWorkKept, TasksEnd, TypeOK
    <3>6. SessionKept(t) /\ AuthOK(t)' /\ Agrees(t)'
      BY <2>1, <3>1, <3>3, <3>5, IdleAuthOK DEF SessionKept, Agrees
    <3>7. \A u \in Tabs : rev'[u] = rev[u] /\ rev'[u] >= rev[u]
      BY <1>1, <2>1 DEF TypeOK
    <3> HIDE DEF s
    <3> QED BY <2>1, <3>1, <3>2, <3>3, <3>4, <3>5, <3>6, <3>7, SessionSetAgrees
  <2> QED BY <2>3, <2>4
<1>9. CASE SignInFails(t)
  <2>1. Ages
    BY <1>1, <1>9, SharedKeptAges DEF SignInFails, shared
  <2> QED BY <1>3, <1>9, <2>1 DEF SignInFails, shared
<1> QED BY <1>4, <1>5, <1>6, <1>7, <1>8, <1>9 DEF SignIn

LEMMA ReconcileAgrees ==
  ASSUME EndInv, AgreeInv, TypeOK', NEW t \in Tabs, Reconcile(t)
  PROVE  AgreeInv'
<1> DEFINE own == CredOf(mem[t]) = CredOf(record)
           pc == IF own THEN "own" ELSE "follow"
           r == [IdleTask EXCEPT !.pc = pc, !.rev = rev[t], !.session = record,
                                 !.seen = key]
<1>1. /\ TypeOK /\ SharedOK /\ TabAgrees(t) /\ TaskOK(t, "reconcile")
      /\ "reconcile" \in Kinds /\ UNCHANGED auth
      /\ notice' = [notice EXCEPT ![t] = FALSE]
  BY DEF EndInv, AgreeInv, TabAgrees, Kinds, Reconcile
<1>2. \A u \in Tabs \ {t} : notice'[u] = notice[u]
  BY <1>1 DEF TypeOK
<1>3. CASE record = NoSession /\ mem[t] # NoSession
  <2>1. ForgetSession(t) /\ UNCHANGED task
    BY <1>3 DEF Reconcile
  <2>2. record' = NoSession /\ mem'[t] = NoSession
    BY <1>1, <1>3, <2>1 DEF ForgetSession, TypeOK
  <2>3. Agrees(t)'
    BY <2>2 DEF Agrees, StoredIsLive, Holds
  <2>4. OtherWorkKept(t) /\ AuthKept(t) /\ TasksEnd(t)
    BY <1>1, <2>1 DEF OtherWorkKept, AuthKept, TasksEnd
  <2> QED BY <1>2, <2>1, <2>3, <2>4, ForgetSessionAgrees
<1>4. CASE ~(record = NoSession /\ mem[t] # NoSession)
  <2>1. /\ UNCHANGED <<shared, mem, rev, published, cleanups>>
        /\ \/ (record = NoSession \/ PastCap(record)) /\ UNCHANGED task
           \/ record # NoSession /\ SetTask(t, "reconcile", r)
    BY <1>4 DEF Reconcile
  <2>2. UNCHANGED <<record, key, status, mem, rev, auth, cleanups>> /\ Ages
    BY <1>1, <2>1, SharedKeptAges DEF shared
  <2>3. CASE (record = NoSession \/ PastCap(record)) /\ UNCHANGED task
    <3>1. Agrees(t)'
      BY <1>4, <2>2, <2>3 DEF Agrees, StoredIsLive, Holds, PastCap
    <3>2. TaskOK(t, "reconcile")'
      BY <1>1, <2>2, <2>3, TaskAges DEF SessionKept
    <3>3. SetTask(t, "reconcile", task[t]["reconcile"])
      BY <1>1, <2>3 DEF SetTask, TypeOK, TasksOK
    <3> QED BY <1>1, <1>2, <2>2, <3>1, <3>2, <3>3, TaskStepAgrees
  <2>4. CASE record # NoSession /\ SetTask(t, "reconcile", r)
    <3>1. /\ r.pc = pc /\ r.rev = rev[t] /\ r.session = record /\ r.seen = key
      BY DEF IdleTask
    <3>2. /\ pc = "own" => CredOf(mem[t]) = CredOf(record)
          /\ pc \in {"own", "follow"}
      OBVIOUS
    <3> HIDE DEF r, pc
    <3>3. task'[t]["reconcile"] = r
      BY <1>1, <2>4, TaskSet
    <3>4. Sound(record.cred) /\ (key = record.cred \/ Gone(record.cred))
      BY <1>1, <2>4, SoundIsHeldOrGone DEF SharedOK
    <3>5. pc = "own" => /\ mem[t] # NoSession
                        /\ key = mem[t].cred \/ Gone(mem[t].cred)
      <4>1. ASSUME mem[t] # NoSession
            PROVE  key = mem[t].cred \/ Gone(mem[t].cred)
        BY <1>1, <4>1, SoundIsHeldOrGone DEF TabAgrees
      <4>2. record.cred # NoCred
        BY <1>1, <2>4, ConstantsAssumption DEF TypeOK, SessionOrNone, Session
      <4> QED BY <2>4, <3>2, <4>1, <4>2 DEF CredOf
    <3>6. TaskOK(t, "reconcile")'
      BY <2>2, <2>4, <3>1, <3>2, <3>3, <3>4, <3>5
         DEF TaskOK, Asked, Still, Found, Sound, Gone
    <3>7. Agrees(t)'
      BY <2>2, <2>4, <3>1, <3>2, <3>3 DEF Agrees, FollowsOwn, CredOf
    <3> QED BY <1>1, <1>2, <2>2, <2>4, <3>6, <3>7, TaskStepAgrees
  <2> QED BY <2>1, <2>3, <2>4
<1> QED BY <1>3, <1>4

LEMMA SameSession ==
  ASSUME NEW s \in Session, NEW m \in Session, m.cred = s.cred
  PROVE  [m EXCEPT !.wallet = s.wallet] = s
BY DEF Session

LEMMA FollowAgrees ==
  ASSUME EndInv, AgreeInv, TypeOK', NEW t \in Tabs, ReconcileOwn(t) \/ ReconcileFollow(t)
  PROVE  AgreeInv'
<1> DEFINE work == task[t]["reconcile"]
<1>1. /\ TypeOK /\ SharedOK /\ TabAgrees(t) /\ TaskOK(t, "reconcile") /\ Agrees(t)
      /\ "reconcile" \in Kinds /\ work \in Task /\ Captured("reconcile", work)
      /\ work.pc \in {"own", "follow"} /\ UNCHANGED auth
  BY DEF EndInv, AgreeInv, TabAgrees, TypeOK, TasksOK, Kinds, ReconcileOwn,
         ReconcileFollow
<1>2. work.session \in Session /\ work.session # NoSession /\ Sound(work.session.cred)
  <2>1. work.session \in Session
    BY <1>1 DEF Captured
  <2>2. work.session # NoSession
    BY <2>1, ConstantsAssumption DEF Session
  <2> QED BY <1>1, <2>1, <2>2 DEF TaskOK
<1>3. mem[t] # NoSession => Sound(mem[t].cred) /\ mem[t] \in Session
  BY <1>1 DEF TabAgrees, TypeOK, SessionOrNone
<1>4. ASSUME NEW changed \in BOOLEAN, notice' = PassAgain(t, changed),
             Finish(t, "reconcile"),
             UNCHANGED <<record, key, status, mem, rev, cleanups>>,
             ~changed /\ ~notice[t] => (StoredIsLive => mem[t] = record)
      PROVE  AgreeInv'
  <2>1. /\ notice'[t] <=> (notice[t] \/ changed)
        /\ \A u \in Tabs \ {t} : notice'[u] = notice[u]
    BY <1>1, <1>4, Zenon DEF PassAgain, TypeOK
  <2>2. Agrees(t)'
    BY <1>1, <1>4, <2>1 DEF Agrees, StoredIsLive, Holds
  <2>3. TaskOK(t, "reconcile")'
    BY <1>1, <1>4, FinishSet, IdleTaskOK
  <2> QED BY <1>1, <1>4, <2>1, <2>2, <2>3, SharedKeptAges, TaskStepAgrees DEF Finish
<1>5. CASE ReconcileOwn(t)
  <2> DEFINE current == rev[t] = work.rev /\ mem[t] # NoSession
             changed == current /\ record # work.session
             s == StoredWallet(t, work.session)
  <2>1. work.pc = "own"
    BY <1>5 DEF ReconcileOwn
  <2>2. CASE current /\ ~changed /\ ~SignerMatched(t, "reconcile")
    <3>1. Mismatch(t, "reconcile")
      BY <1>5, <2>2 DEF ReconcileOwn
    <3>2. mem[t] # NoSession /\ Gone(mem[t].cred)
      BY <1>1, <2>1, <2>2 DEF TaskOK, Still, Found, SignerMatched
    <3> QED BY <1>1, <2>1, <3>1, <3>2, MismatchAgrees
  <2>3. CASE current /\ ~changed /\ SignerMatched(t, "reconcile")
    <3>1. /\ mem' = [mem EXCEPT ![t] = s] /\ Finish(t, "reconcile")
          /\ notice' = PassAgain(t, FALSE)
          /\ UNCHANGED <<record, key, status, rev, cleanups>>
      BY <1>5, <2>3, Zenon DEF ReconcileOwn, shared
    <3>2. \A u \in Tabs : notice'[u] <=> notice[u]
      BY <1>1, <3>1, Zenon DEF PassAgain, TypeOK
    <3>3. /\ s.cred = mem[t].cred /\ s # NoSession /\ Sound(s.cred)
          /\ mem[t] # NoSession /\ record = work.session
      BY <1>2, <1>3, <2>3, ConstantsAssumption DEF StoredWallet, Session
    <3>4. CredOf(mem[t]) = CredOf(record) => s = record
      BY <1>2, <1>3, <3>3, SameSession DEF StoredWallet, CredOf
    <3> HIDE DEF s
    <3>5. mem'[t] = s
      BY <1>1, <3>1 DEF TypeOK
    <3>6. Agrees(t)'
      <4>1. StoredIsLive => mem[t] = record \/ notice[t] \/ FollowsOwn(t)
        BY <1>1, <2>1 DEF Agrees
      <4>2. StoredIsLive => s = record \/ notice[t]
        BY <3>4, <4>1 DEF FollowsOwn
      <4> QED BY <1>2, <3>1, <3>2, <3>3, <3>5, <4>2 DEF Agrees, StoredIsLive, Holds
    <3>7. /\ TasksEnd(t) /\ OtherWorkKept(t) /\ AuthKept(t)
      BY <1>1, <3>1, FinishSet
    <3>8. AuthOK(t)'
      BY <1>1, <3>1, <3>3, <3>7, SharedKeptAges, AuthAges DEF TabAgrees
    <3>9. SessionKept(t)
      BY <3>1, <3>3, <3>5 DEF SessionKept
    <3>10. \A u \in Tabs : rev'[u] = rev[u] /\ rev'[u] >= rev[u]
      BY <1>1, <3>1 DEF TypeOK
    <3> QED BY <3>1, <3>2, <3>3, <3>6, <3>7, <3>8, <3>9, <3>10, SessionSetAgrees
  <2>4. CASE ~(current /\ ~changed)
    <3>1. /\ notice' = PassAgain(t, changed) /\ Finish(t, "reconcile")
          /\ UNCHANGED <<record, key, status, mem, rev, cleanups>>
      BY <1>5, <2>4, Zenon DEF ReconcileOwn, shared
    <3>2. ~changed /\ ~notice[t] => (StoredIsLive => mem[t] = record)
      <4>1. ~changed => rev[t] # work.rev
        BY <1>1, <2>1, <2>4 DEF TaskOK, Still
      <4> QED BY <1>1, <2>1, <4>1 DEF Agrees, FollowsOwn
    <3>3. changed \in BOOLEAN
      OBVIOUS
    <3> HIDE DEF changed
    <3> QED BY <1>4, <3>1, <3>2, <3>3
  <2> QED BY <2>2, <2>3, <2>4
<1>6. CASE ReconcileFollow(t)
  <2> DEFINE changed == rev[t] # work.rev \/ record # work.session
             s == work.session
  <2>1. /\ work.pc = "follow" /\ Finish(t, "reconcile")
        /\ notice' = PassAgain(t, changed)
        /\ UNCHANGED <<record, key, status, cleanups>>
    BY <1>6 DEF ReconcileFollow, shared
  <2>2. CASE ~changed /\ Follows(t)
    <3>1. /\ mem' = [mem EXCEPT ![t] = s] /\ rev' = [rev EXCEPT ![t] = @ + 1]
          /\ record = s
      BY <1>6, <2>2 DEF ReconcileFollow
    <3>2. \A u \in Tabs : notice'[u] <=> notice[u]
      BY <1>1, <2>1, <2>2, Zenon DEF PassAgain, TypeOK
    <3> HIDE DEF s
    <3>3. /\ mem'[t] = s /\ rev[t] \in Nat /\ rev'[t] = rev[t] + 1
          /\ s # NoSession /\ Sound(s.cred)
      BY <1>1, <1>2, <3>1 DEF TypeOK, s
    <3>4. Agrees(t)'
      BY <2>1, <3>1, <3>3 DEF Agrees
    <3>5. SessionKept(t)
      BY <3>3 DEF SessionKept
    <3>6. TasksEnd(t) /\ OtherWorkKept(t) /\ AuthKept(t)
      BY <1>1, <2>1, FinishSet
    <3>7. AuthOK(t)'
      <4>1. rev'[t] > rev[t]
        BY <3>3
      <4> QED BY <1>1, <2>1, <3>6, <4>1, SharedKeptAges, AuthAges DEF TabAgrees
    <3>8. /\ \A u \in Tabs : rev'[u] >= rev[u]
          /\ \A u \in Tabs \ {t} : rev'[u] = rev[u]
      BY <1>1, <3>1 DEF TypeOK
    <3> QED BY <2>1, <3>1, <3>2, <3>3, <3>4, <3>5, <3>6, <3>7, <3>8, SessionSetAgrees
  <2>3. CASE ~(~changed /\ Follows(t))
    <3>1. UNCHANGED <<mem, rev>>
      BY <1>6, <2>3 DEF ReconcileFollow
    <3>2. ~changed => ~StoredIsLive
      <4>1. ASSUME ~changed PROVE record = s /\ Gone(s.cred)
        BY <1>1, <2>1, <2>3, <4>1 DEF TaskOK, Asked, Follows
      <4> QED BY <4>1 DEF StoredIsLive, Holds, Gone
    <3>3. changed \in BOOLEAN
      OBVIOUS
    <3> HIDE DEF changed
    <3> QED BY <1>4, <2>1, <3>1, <3>2, <3>3
  <2> QED BY <2>2, <2>3
<1> QED BY <1>5, <1>6

LEMMA NextAgreeInv == EndInv /\ AgreeInv /\ [Next]_vars => AgreeInv'
<1> SUFFICES ASSUME EndInv, AgreeInv, [Next]_vars PROVE AgreeInv'
  OBVIOUS
<1>1. TypeOK'
  BY NextType DEF EndInv
<1>2. CASE UNCHANGED vars
  <2>1. UNCHANGED <<record, key, status, mem, rev, notice, auth, task, cleanups>>
    BY <1>2 DEF vars
  <2>2. /\ Ages /\ TypeOK /\ SharedOK'
    BY <2>1, SharedKeptAges DEF EndInv, AgreeInv, SharedOK, Sound, Gone
  <2>3. \A u \in Tabs : TabAgrees(u)'
    BY <1>1, <2>1, <2>2, UntouchedAgrees DEF Untouched
  <2>4. \A c \in cleanups' : CleanupOK(c)'
    <3>1. \A c \in cleanups : rev'[c.tab] >= rev[c.tab]
      BY <2>1, <2>2 DEF TypeOK, Cleanup
    <3> QED BY <1>1, <2>1, <2>2, <3>1, CleanupsAge
  <2> QED BY <2>2, <2>3, <2>4 DEF AgreeInv
<1>3. CASE Environment
  BY <1>1, <1>3, SignOutAgrees, CallAgrees, ReadAgrees, ReloadAgrees, WaasAgrees
     DEF Environment
<1>4. ASSUME NEW t \in Tabs,
             SignIn(t) \/ Call(t) \/ Read(t) \/ Follow(t) \/ ExpireAtCap(t)
      PROVE  AgreeInv'
  BY <1>1, <1>4, SignInAgrees, CallAgrees, ReadAgrees, ReconcileAgrees, FollowAgrees,
     SignOutAgrees DEF Follow
<1>5. ASSUME NEW t \in Tabs, NEW k \in Kinds,
             Request(t, k) \/ RequestFails(t, k) \/ ResolveOwn(t, k)
               \/ ResolveOther(t, k)
      PROVE  AgreeInv'
  BY <1>1, <1>5, RequestAgrees, ResolveAgrees
<1>6. ASSUME NEW c \in cleanups, DeleteKey(c) \/ DeleteKeyFails(c)
      PROVE  AgreeInv'
  BY <1>1, <1>6, CleanupStepAgrees
<1> QED BY <1>2, <1>3, <1>4, <1>5, <1>6 DEF Next

LEMMA AgreeInvariance == Spec => [](EndInv /\ AgreeInv)
<1>1. Init => EndInv /\ AgreeInv
  BY InitEndInv, InitAgreeInv
<1>2. EndInv /\ AgreeInv /\ [Next]_vars => (EndInv /\ AgreeInv)'
  BY NextEndInv, NextAgreeInv
<1> QED BY <1>1, <1>2, PTL DEF Spec

(* Once every event is handled and nothing is under way, every tab has the  *)
(* stored session, if that one is live, and none if none is stored: for any *)
(* number of tabs and however their steps interleave.                       *)
THEOREM QuietTabsAgreeAlways == Spec => []QuietTabsAgree
BY AgreeInvariance, AgreeInvImplies, PTL

-----------------------------------------------------------------------------
(* What is live is kept: what a step does to the shared key and record.     *)

LEMMA EndsKeepKey ==
  ASSUME NEW t \in Tabs, NEW k \in Kinds,
         \/ SignOut(t) \/ SignInStart(t) \/ ExpireAtCap(t) \/ Lost(t) \/ Expired(t)
         \/ ForgetSession(t) \/ Mismatch(t, k)
  PROVE  UNCHANGED key
BY DEF SignOut, SignInStart, ExpireAtCap, SignedOut, Lost, Expired, EndSession,
       ForgetSession, Mismatch, shared

(* The key is only changed by a request, which uses it or makes a new one,  *)
(* and by a deletion.                                                       *)
LEMMA KeyMoves ==
  ASSUME [Next]_vars
  PROVE  \/ UNCHANGED key
         \/ \E c \in SignerCreds \ {NoCred} : key' = c
         \/ \E c \in cleanups : DeleteKey(c)
<1>1. CASE Environment
  <2>1. ASSUME NEW t \in Tabs, SignOut(t) \/ SignInStart(t) PROVE UNCHANGED key
    BY <2>1, EndsKeepKey DEF Kinds
  <2>2. ASSUME NEW t \in Tabs, CallStart(t) PROVE UNCHANGED key
    BY <2>2, EndsKeepKey, Zenon DEF CallStart, Kinds, shared
  <2>3. ASSUME NEW t \in Tabs, ReadStart(t) PROVE UNCHANGED key
    BY <2>3, EndsKeepKey, Zenon DEF ReadStart, Kinds, shared
  <2>4. ASSUME NEW t \in Tabs, Reload(t) PROVE UNCHANGED key
    BY <2>4 DEF Reload, shared
  <2>5. ASSUME NEW c \in Creds, WaasEnds(c) \/ CapPasses(c) PROVE UNCHANGED key
    BY <2>5 DEF WaasEnds, CapPasses
  <2> QED BY <1>1, <2>1, <2>2, <2>3, <2>4, <2>5 DEF Environment
<1>2. ASSUME NEW t \in Tabs, SignIn(t)
      PROVE  UNCHANGED key \/ \E c \in SignerCreds \ {NoCred} : key' = c
  BY <1>2 DEF SignIn, SignInCommit, SignInComplete, SignInIdentify, Identity,
              SignInSelect, SignInPersist, SignInFails, Use, shared
<1>3. ASSUME NEW t \in Tabs, Call(t) PROVE UNCHANGED key
  <2>1. CASE CallRefused(t)
    BY <2>1, EndsKeepKey DEF CallRefused, Kinds, shared
  <2>2. CASE CallAnswered(t)
    BY <2>2, EndsKeepKey DEF CallAnswered, Kinds, shared
  <2>3. CASE CallApply(t)
    BY <2>3, EndsKeepKey DEF CallApply, Kinds
  <2> QED BY <1>3, <2>1, <2>2, <2>3 DEF Call
<1>4. ASSUME NEW t \in Tabs, Read(t) \/ ExpireAtCap(t) PROVE UNCHANGED key
  BY <1>4, EndsKeepKey DEF Read, ReadApply, ReadRefused, Kinds, shared
<1>5. ASSUME NEW t \in Tabs, Follow(t) PROVE UNCHANGED key
  <2>1. CASE Reconcile(t)
    BY <2>1, EndsKeepKey DEF Reconcile, Kinds, shared
  <2>2. CASE ReconcileOwn(t)
    BY <2>2, EndsKeepKey DEF ReconcileOwn, Kinds, shared
  <2>3. CASE ReconcileFollow(t)
    BY <2>3 DEF ReconcileFollow, shared
  <2> QED BY <1>5, <2>1, <2>2, <2>3 DEF Follow
<1>6. ASSUME NEW t \in Tabs, NEW k \in Kinds, Request(t, k)
      PROVE  \E c \in SignerCreds \ {NoCred} : key' = c
  BY <1>6 DEF Request, Use
<1>7. ASSUME NEW t \in Tabs, NEW k \in Kinds,
             RequestFails(t, k) \/ ResolveOwn(t, k) \/ ResolveOther(t, k)
      PROVE  UNCHANGED key
  BY <1>7, EndsKeepKey DEF RequestFails, ResolveOwn, ResolveOther, shared
<1>8. ASSUME NEW c \in cleanups, DeleteKey(c) \/ DeleteKeyFails(c)
      PROVE  UNCHANGED key \/ DeleteKey(c)
  BY <1>8 DEF DeleteKeyFails
<1>9. CASE UNCHANGED vars
  BY <1>9 DEF vars
<1> QED BY <1>1, <1>2, <1>3, <1>4, <1>5, <1>6, <1>7, <1>8, <1>9 DEF Next

LEMMA StepKeepsLiveKey ==
  ASSUME EndInv, AgreeInv, [Next]_vars, NEW x \in Creds,
         key = x, status[x] = "live", key' # x
  PROVE  \E d \in cleanups \ cleanups' : ~d.automatic
<1>1. key # NoCred
  BY ConstantsAssumption
<1>2. \A c \in SignerCreds \ {NoCred} : c = x
  BY <1>1 DEF SignerCreds
<1>3. PICK d \in cleanups : DeleteKey(d)
  BY <1>2, KeyMoves
<1>4. d \notin cleanups' /\ DeletesKey(d)
  BY <1>3 DEF DeleteKey, AfterCleanup
<1>5. CASE d.automatic
  <2>1. d.cred = x /\ CleanupOK(d)
    BY <1>4, <1>5 DEF DeletesKey, AgreeInv
  <2> QED BY <1>1, <1>5, <2>1 DEF CleanupOK, Dead, Gone
<1> QED BY <1>4, <1>5

LEMMA RecordNotEnded ==
  ASSUME NEW t \in Tabs, NEW k \in Kinds, record # NoSession,
         ExpireAtCap(t) \/ Expired(t) \/ ForgetSession(t) \/ Mismatch(t, k)
  PROVE  record' # NoSession
BY DEF ExpireAtCap, Expired, EndSession, Store, ForgetSession, Mismatch, shared

LEMMA RemovedBy ==
  ASSUME EndInv, AgreeInv, [Next]_vars, record # NoSession, record' = NoSession
  PROVE  \/ \E t \in Tabs : SignOut(t) \/ SignInStart(t)
         \/ \E t \in Tabs, k \in Kinds :
              (ResolveOwn(t, k) \/ ResolveOther(t, k)) /\ JudgedStill(t, k) /\ Lost(t)
<1> SUFFICES ASSUME ~\E t \in Tabs : SignOut(t) \/ SignInStart(t)
             PROVE  \E t \in Tabs, k \in Kinds :
                      /\ ResolveOwn(t, k) \/ ResolveOther(t, k)
                      /\ JudgedStill(t, k) /\ Lost(t)
  OBVIOUS
<1>1. ASSUME Environment PROVE FALSE
  <2>1. ASSUME NEW t \in Tabs, CallStart(t) PROVE FALSE
    BY <2>1, RecordNotEnded, Zenon DEF CallStart, Kinds, shared
  <2>2. ASSUME NEW t \in Tabs, ReadStart(t) PROVE FALSE
    BY <2>2, RecordNotEnded, Zenon DEF ReadStart, Kinds, shared
  <2>3. ASSUME NEW t \in Tabs, Reload(t) PROVE FALSE
    BY <2>3 DEF Reload, shared
  <2>4. ASSUME NEW c \in Creds, WaasEnds(c) \/ CapPasses(c) PROVE FALSE
    BY <2>4 DEF WaasEnds, CapPasses
  <2> QED BY <1>1, <2>1, <2>2, <2>3, <2>4 DEF Environment
<1>2. ASSUME NEW t \in Tabs, SignIn(t) PROVE FALSE
  <2>1. auth[t].pc = "persist" => auth[t].session # NoSession
    BY DEF AgreeInv, TabAgrees, AuthOK
  <2> QED BY <1>2, <2>1 DEF SignIn, SignInCommit, SignInComplete, SignInIdentify,
            SignInSelect, SignInPersist, SignInFails, Store, shared
<1>3. ASSUME NEW t \in Tabs, Call(t) PROVE FALSE
  <2>1. CASE CallRefused(t)
    BY <2>1, RecordNotEnded DEF CallRefused, Kinds, shared
  <2>2. CASE CallAnswered(t)
    BY <2>2, RecordNotEnded DEF CallAnswered, Kinds, shared
  <2>3. CASE CallApply(t)
    <3> DEFINE work == task[t]["call"]
               s == [work.session EXCEPT !.wallet = work.wallet]
    <3>1. work.session \in Session /\ work.wallet \in Wallets
      BY <2>3 DEF CallApply, At, EndInv, TypeOK, TasksOK, Captured, Kinds
    <3>2. s # NoSession
      BY <3>1, ConstantsAssumption DEF Session
    <3> HIDE DEF s
    <3>3. Mismatch(t, "call") \/ Store(t, s) \/ UNCHANGED record
      BY <2>3 DEF CallApply, s
    <3> QED BY <3>2, <3>3, RecordNotEnded DEF Store, Kinds
  <2> QED BY <1>3, <2>1, <2>2, <2>3 DEF Call
<1>4. ASSUME NEW t \in Tabs, Read(t) \/ ExpireAtCap(t) PROVE FALSE
  BY <1>4, RecordNotEnded
     DEF Read, ReadApply, RefreshedRecord, ReadRefused, Kinds, shared
<1>5. ASSUME NEW t \in Tabs, Follow(t) PROVE FALSE
  <2>1. CASE Reconcile(t)
    BY <2>1, RecordNotEnded DEF Reconcile, Kinds, shared
  <2>2. CASE ReconcileOwn(t)
    BY <2>2, RecordNotEnded DEF ReconcileOwn, Kinds, shared
  <2>3. CASE ReconcileFollow(t)
    BY <2>3 DEF ReconcileFollow, shared
  <2> QED BY <1>5, <2>1, <2>2, <2>3 DEF Follow
<1>6. ASSUME NEW t \in Tabs, NEW k \in Kinds, Request(t, k) \/ RequestFails(t, k)
      PROVE  FALSE
  BY <1>6 DEF Request, RequestFails, shared
<1>7. ASSUME NEW t \in Tabs, NEW k \in Kinds, ResolveOwn(t, k) \/ ResolveOther(t, k)
      PROVE  JudgedStill(t, k) /\ Lost(t)
  BY <1>7, RecordNotEnded DEF ResolveOwn, ResolveOther, shared
<1>8. ASSUME NEW c \in cleanups, DeleteKey(c) \/ DeleteKeyFails(c) PROVE FALSE
  BY <1>8 DEF DeleteKey, DeleteKeyFails, AfterCleanup
<1>9. ASSUME UNCHANGED vars PROVE FALSE
  BY <1>9 DEF vars
<1> QED BY <1>1, <1>2, <1>3, <1>4, <1>5, <1>6, <1>7, <1>8, <1>9 DEF Next

LEMMA StepKeepsLiveRecord ==
  ASSUME EndInv, AgreeInv, [Next]_vars, StoredIsLive, record' = NoSession
  PROVE  \/ \E c \in cleanups' \ cleanups : ~c.automatic
         \/ \E t \in Tabs, k \in Kinds : JudgesOlder(t, k) /\ task'[t][k].pc = "idle"
<1>1. TypeOK /\ record # NoSession /\ ~Gone(record.cred)
  BY DEF EndInv, StoredIsLive, Holds, Gone
<1>2. ASSUME NEW t \in Tabs, SignOut(t) \/ SignInStart(t)
      PROVE  \E c \in cleanups' \ cleanups : ~c.automatic
  <2>1. PICK signIn \in BOOLEAN : EndSession(t, FALSE, FALSE, "signedOut", signIn)
    BY <1>2 DEF SignOut, SignInStart, SignedOut
  <2> DEFINE d == [tab |-> t, rev |-> rev[t] + 1, automatic |-> FALSE,
                   cred |-> CredOf(mem[t]), end |-> "signedOut", signIn |-> signIn]
  <2>2. d \in cleanups' /\ ~d.automatic /\ d.rev = rev[t] + 1 /\ d.tab = t
    BY <2>1 DEF EndSession
  <2>3. d \notin cleanups
    <3>1. \A c \in cleanups : c.rev <= rev[c.tab]
      BY DEF AgreeInv, CleanupOK
    <3>2. rev[t] \in Nat
      BY <1>1 DEF TypeOK
    <3> HIDE DEF d
    <3> QED BY <2>2, <3>1, <3>2
  <2> HIDE DEF d
  <2> QED BY <2>2, <2>3
<1>3. ASSUME NEW t \in Tabs, NEW k \in Kinds,
             ResolveOwn(t, k) \/ ResolveOther(t, k), JudgedStill(t, k), Lost(t)
      PROVE  JudgesOlder(t, k) /\ task'[t][k].pc = "idle"
  <2> DEFINE work == task[t][k]
  <2>1. /\ work.pc \in {"judgeOwn", "judgeOther"} /\ UNCHANGED auth
        /\ rev'[t] # rev[t]
    BY <1>1, <1>3 DEF ResolveOwn, ResolveOther, Lost, EndSession, TypeOK
  <2>2. TaskOK(t, k)
    BY DEF AgreeInv, TabAgrees
  <2>3. mem[t] # NoSession /\ Gone(mem[t].cred)
    BY <1>3, <2>1, <2>2 DEF TaskOK, Still, Found, JudgedStill
  <2>4. CredOf(record) # CredOf(mem[t])
    BY <1>1, <2>3 DEF CredOf
  <2>5. Finish(t, k)
    BY <1>3, <2>1, <2>3 DEF ResolveOwn, ResolveOther
  <2>6. task'[t][k].pc = "idle"
    BY <1>1, <2>1, <2>5, FinishSet DEF IdleTask
  <2>7. CASE ResolveOwn(t, k)
    <3>1. record.cred = CredOf(mem[t])
      BY <1>1, <1>3, <2>3, <2>7, RecordNotEnded
         DEF ResolveOwn, JudgedStill, shared
    <3> QED BY <1>1, <2>4, <3>1 DEF CredOf
  <2>8. CASE ResolveOther(t, k)
    <3>1. work.pc = "judgeOther" /\ work.seen # CredOf(work.session)
      BY <1>1, <1>3, <2>8, RecordNotEnded
         DEF ResolveOther, JudgedStill, ReplacedElsewhere, shared
    <3>2. Gone(work.session.cred)
      BY <2>2, <3>1 DEF TaskOK, Asked, CredOf
    <3> QED BY <1>1, <2>6, <3>1, <3>2 DEF JudgesOlder, At
  <2> QED BY <1>3, <2>7, <2>8
<1> QED BY <1>2, <1>3, <1>1, RemovedBy

(* A key whose session WaaS accepts is only deleted for a sign-out or a     *)
(* sign-in, whatever other tabs' expiries, reloads and sign-ins do meanwhile*)
(* (clearSessionSignerKey).                                                 *)
THEOREM LiveKeyKeptAlways == Spec => LiveKeyKept
<1>1. EndInv /\ AgreeInv /\ [Next]_vars
        => [ \A c \in Creds :
               key = c /\ status[c] = "live" /\ key' # c
                 => \E d \in cleanups \ cleanups' : ~d.automatic ]_vars
  BY StepKeepsLiveKey
<1> QED BY <1>1, AgreeInvariance, PTL DEF Spec, LiveKeyKept

(* A live stored session is only removed for a sign-out or a sign-in, or by *)
(* a tab that judged an older record (clearSessionWithMismatchedSigner).    *)
THEOREM LiveRecordKeptAlways == Spec => LiveRecordKept
<1>1. EndInv /\ AgreeInv /\ [Next]_vars
        => [ StoredIsLive /\ record' = NoSession
               => \/ \E c \in cleanups' \ cleanups : ~c.automatic
                  \/ \E t \in Tabs, k \in Kinds :
                       JudgesOlder(t, k) /\ task'[t][k].pc = "idle" ]_vars
  BY StepKeepsLiveRecord
<1> QED BY <1>1, AgreeInvariance, PTL DEF Spec, LiveRecordKept


=============================================================================
