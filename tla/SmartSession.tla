---------------------------- MODULE SmartSession ----------------------------
(***************************************************************************)
(* The smart-session example: a Worker (worker/index.ts) that keeps the    *)
(* approval requests, smart sessions and transactions of one backend       *)
(* credential (RAC) in D1, the wallet owner's page that approves or        *)
(* rejects a request, and WaaS.                                            *)
(*                                                                         *)
(* Every await of a handler is a step: D1 runs one query or batch at a     *)
(* time, WaaS answers, refuses, or its answer is lost. Two dashboards and  *)
(* two owner pages may be open.                                            *)
(*                                                                         *)
(* Abstractions: a request's network, asset, recipients and allowance are  *)
(* its identity, and a session authorised for it has just these; time is   *)
(* the requests and credentials that have expired by now; the usage and    *)
(* fee of a transfer only make it fail; texts, links and balances are left *)
(* out. WaaS serves a request signed with a key while a credential         *)
(* registered for that key lives, and a session only to its credential.    *)
(***************************************************************************)
EXTENDS Naturals, Sequences

CONSTANTS
  Calls,          \* requests to the Worker, each made once
  Scripts,        \* the kinds of the calls: functions on Calls
  Approvals,      \* approval requests, and the session record of each
  MaxCredential,  \* bound: registrations at WaaS
  MaxSession,     \* bound: sessions the owner authorises
  MaxTrouble      \* bound: WaaS requests that fail though nothing is wrong

Kinds == {"create", "approve", "reject", "transact", "refresh", "dismiss", "rotate"}
None == "none"

ASSUME ConstantsAssumption ==
  /\ Scripts \subseteq [Calls -> Kinds]
  /\ None \notin Calls \cup Approvals
  /\ MaxCredential \in Nat \ {0} /\ MaxSession \in Nat \ {0} /\ MaxTrouble \in Nat

VARIABLES
  rac,         \* backend_racs: the key, and the credential registered for a key
  approvals,   \* approval_requests: the credential and the decision
  records,     \* smart_sessions: the session of an approved request
  rows,        \* transactions, by the call that made them
  expired,     \* the requests past their expiry
  creds,       \* WaaS: the credentials, with their key
  sessions,    \* WaaS: the sessions, with their credential and request
  chain,       \* WaaS: the transactions, by the call that made them
  call,        \* the calls under way
  trouble      \* WaaS requests that failed so far

d1 == <<rac, approvals, records, rows>>
waas == <<creds, sessions, chain>>
vars == <<d1, expired, waas, call, trouble>>

-----------------------------------------------------------------------------
(* Types *)

Keys == 1..(1 + MaxCredential)
CredIds == 1..MaxCredential
SessionIds == 1..MaxSession

Decisions == {"unused", "pending", "approved", "rejected", "deleted"}
Statuses == {"quoted", "pending", "executed", "failed"}
PCs == {"start", "authorize", "read", "key", "row", "register", "store", "go", "rac", "ask",
        "prepare", "insert", "execute", "status", "write", "error", "revoke", "batch", "commit",
        "done"}

CallRec ==
  [kind : Kinds, pc : PCs, for : Approvals, of : Calls, key : Keys \cup {0},
   cred : CredIds \cup {0}, session : SessionIds \cup {0}, status : Statuses \cup {None}]

TypeOK ==
  /\ rac \in [key : Keys, signer : Keys \cup {0}, cred : CredIds \cup {0}]
  /\ approvals \in [Approvals -> [cred : CredIds \cup {0}, is : Decisions]]
  /\ \A a \in Approvals : approvals[a].is # "unused" => approvals[a].cred # 0
  /\ records \in [Approvals -> [session : SessionIds \cup {0}, dismissed : BOOLEAN]]
  /\ rows \in [Calls -> Statuses \cup {None}]
  /\ expired \subseteq Approvals
  /\ creds \in Seq([key : Keys, is : {"live", "revoked", "lapsed"}]) /\ Len(creds) <= MaxCredential
  /\ sessions \in Seq([cred : CredIds, for : Approvals, live : BOOLEAN])
  /\ Len(sessions) <= MaxSession
  /\ chain \in [Calls -> Statuses \cup {None}]
  /\ call \in [Calls -> CallRec]
  /\ trouble \in 0..MaxTrouble

-----------------------------------------------------------------------------
(* Helpers *)

At(c, pc) == call[c].pc = pc
Is(c, kind) == call[c].kind = kind
Goto(c, pc) == call' = [call EXCEPT ![c].pc = pc]
End(c) == Goto(c, "done")

(* The handler answers with an error, or a request to WaaS fails.           *)
Trouble(c) ==
  /\ trouble < MaxTrouble
  /\ trouble' = trouble + 1
  /\ End(c)

(* WaaS serves requests signed with key k.                                  *)
Accepted(k) == \E i \in DOMAIN creds : creds[i].key = k /\ creds[i].is = "live"

(* WaaS shows session s to the credential of key k.                         *)
Visible(s, k) ==
  /\ s # 0
  /\ sessions[s].live /\ sessions[s].for \notin expired
  /\ creds[sessions[s].cred].key = k /\ creds[sessions[s].cred].is = "live"

Final == {"executed", "failed"}

-----------------------------------------------------------------------------
(* requireCredential and createRac *)

(* createRac reads the key.                                                 *)
ReadKey(c) ==
  /\ At(c, "key") \/ At(c, "rac")
  /\ call' = [call EXCEPT ![c].key = rac.key,
                          ![c].pc = IF At(c, "key") THEN "row"
                                    ELSE IF Is(c, "rotate")
                                      THEN IF call[c].key = rac.key THEN "revoke" ELSE "batch"
                                      ELSE "ask"]
  /\ UNCHANGED <<d1, expired, waas, trouble>>

(* The recorded credential serves if it is this key's and has not expired.  *)
Registered(k) == rac.signer = k /\ rac.cred # 0 /\ creds[rac.cred].is # "lapsed"

ReadRow(c) ==
  /\ At(c, "row")
  /\ call' = IF Registered(call[c].key)
               THEN [call EXCEPT ![c].pc = "go", ![c].cred = rac.cred]
               ELSE [call EXCEPT ![c].pc = "register"]
  /\ UNCHANGED <<d1, expired, waas, trouble>>

Register(c) ==
  /\ At(c, "register")
  /\ Len(creds) < MaxCredential
  /\ creds' = Append(creds, [key |-> call[c].key, is |-> "live"])
  /\ \/ /\ call' = [call EXCEPT ![c].pc = "store", ![c].cred = Len(creds) + 1]
        /\ UNCHANGED trouble
     \/ Trouble(c)
  /\ UNCHANGED <<d1, expired, sessions, chain>>

StoreCredential(c) ==
  /\ At(c, "store")
  /\ rac' = [rac EXCEPT !.signer = call[c].key, !.cred = call[c].cred]
  /\ Goto(c, "go")
  /\ UNCHANGED <<approvals, records, rows, expired, waas, trouble>>

(* With a credential, a handler goes on; a request of another credential    *)
(* is refused.                                                              *)
Serves(c) == call[c].kind \in {"approve", "reject"} => approvals[call[c].for].cred = call[c].cred

Go(c) ==
  /\ At(c, "go") /\ ~Is(c, "create")
  /\ Goto(c, IF Is(c, "rotate") \/ ~Serves(c) THEN "done"
             ELSE IF Is(c, "reject") THEN "commit" ELSE "rac")
  /\ UNCHANGED <<d1, expired, waas, trouble>>

-----------------------------------------------------------------------------
(* Approval requests *)

CreateApproval(c) ==
  /\ At(c, "go") /\ Is(c, "create")
  /\ LET a == call[c].for IN
       approvals' = IF approvals[a].is = "unused"
                      THEN [approvals EXCEPT ![a] = [cred |-> call[c].cred, is |-> "pending"]]
                      ELSE approvals
  /\ End(c)
  /\ UNCHANGED <<rac, records, rows, expired, waas, trouble>>

(* The owner's page shows a pending request of the recorded credential.     *)
(* Loading it may register one, as any other call here.                     *)
ShowRequest(c) ==
  /\ At(c, "start") /\ call[c].kind \in {"approve", "reject"}
  /\ LET a == call[c].for IN
       IF approvals[a].is = "pending" /\ a \notin expired /\ Registered(rac.key)
            /\ approvals[a].cred = rac.cred
         THEN call' = [call EXCEPT ![c].pc = IF Is(c, "approve") THEN "authorize" ELSE "read",
                                   ![c].cred = approvals[a].cred]
         ELSE End(c)
  /\ UNCHANGED <<d1, expired, waas, trouble>>

(* authorizeRemoteAccess of the owner's wallet; then the page posts it.     *)
Authorize(c) ==
  /\ At(c, "authorize")
  /\ LET i == call[c].cred
         a == call[c].for
     IN IF creds[i].is # "live" \/ a \in expired THEN End(c) /\ UNCHANGED <<sessions, trouble>>
        ELSE /\ Len(sessions) < MaxSession
             /\ sessions' = Append(sessions, [cred |-> i, for |-> a, live |-> TRUE])
             /\ \/ /\ call' = [call EXCEPT ![c].pc = "read", ![c].session = Len(sessions) + 1]
                   /\ UNCHANGED trouble
                \/ Trouble(c)
  /\ UNCHANGED <<d1, expired, creds, chain>>

Undecided(a) == approvals[a].is = "pending"

ReadApproval(c) ==
  /\ At(c, "read") /\ call[c].kind \in {"approve", "reject"}
  /\ Goto(c, IF Undecided(call[c].for) /\ call[c].for \notin expired THEN "key" ELSE "done")
  /\ UNCHANGED <<d1, expired, waas, trouble>>

(* getSessionAfterAuthorization; a session that cannot be read is refused.  *)
VerifySession(c) ==
  /\ At(c, "ask") /\ Is(c, "approve")
  /\ \/ /\ Goto(c, IF Visible(call[c].session, call[c].key) THEN "commit" ELSE "done")
        /\ UNCHANGED trouble
     \/ Trouble(c)
  /\ UNCHANGED <<d1, expired, waas>>

(* Mutant: the record is inserted whether or not the request was updated.   *)
ApproveAlways(c) ==
  /\ At(c, "commit") /\ Is(c, "approve")
  /\ records' = [records EXCEPT ![call[c].for].session = call[c].session]
  /\ approvals' = IF Undecided(call[c].for)
                    THEN [approvals EXCEPT ![call[c].for].is = "approved"] ELSE approvals
  /\ End(c)
  /\ UNCHANGED <<rac, rows, expired, waas, trouble>>

(* approveRequest: one batch.                                               *)
Approve(c) ==
  /\ At(c, "commit") /\ Is(c, "approve")
  /\ LET a == call[c].for IN
       IF Undecided(a) /\ \A b \in Approvals : records[b].session # call[c].session
         THEN /\ approvals' = [approvals EXCEPT ![a].is = "approved"]
              /\ records' = [records EXCEPT ![a].session = call[c].session]
         ELSE UNCHANGED <<approvals, records>>
  /\ End(c)
  /\ UNCHANGED <<rac, rows, expired, waas, trouble>>

Reject(c) ==
  /\ At(c, "commit") /\ Is(c, "reject")
  /\ LET a == call[c].for IN
       approvals' = IF Undecided(a) THEN [approvals EXCEPT ![a].is = "rejected"] ELSE approvals
  /\ End(c)
  /\ UNCHANGED <<rac, records, rows, expired, waas, trouble>>

-----------------------------------------------------------------------------
(* Transactions *)

Recorded(a) == records[a].session # 0 /\ ~records[a].dismissed

(* requireSessionRecord                                                     *)
ReadRecord(c) ==
  /\ At(c, "start") /\ call[c].kind \in {"transact", "dismiss"}
  /\ LET a == call[c].for IN
       call' = [call EXCEPT ![c].session = records[a].session,
                            ![c].pc = IF ~Recorded(a) THEN "done"
                                      ELSE IF a \notin expired THEN "key"
                                      ELSE IF Is(c, "dismiss") THEN "commit" ELSE "done"]
  /\ UNCHANGED <<d1, expired, waas, trouble>>

(* getSession and getSessionUsage                                           *)
CheckSession(c) ==
  /\ At(c, "ask") /\ Is(c, "transact")
  /\ \/ /\ Goto(c, IF Visible(call[c].session, call[c].key) THEN "prepare" ELSE "done")
        /\ UNCHANGED trouble
     \/ Trouble(c)
  /\ UNCHANGED <<d1, expired, waas>>

(* Mutant: the transaction is executed before its row is inserted.          *)
ExecutesFirst(c) ==
  /\ At(c, "prepare")
  /\ IF Visible(call[c].session, call[c].key)
       THEN chain' = [chain EXCEPT ![c] = "pending"] /\ Goto(c, "insert") /\ UNCHANGED trouble
       ELSE End(c) /\ UNCHANGED <<chain, trouble>>
  /\ UNCHANGED <<d1, expired, creds, sessions>>

Prepare(c) ==
  /\ At(c, "prepare")
  /\ IF Visible(call[c].session, call[c].key)
       THEN chain' = [chain EXCEPT ![c] = "quoted"] /\ Goto(c, "insert") /\ UNCHANGED trouble
       ELSE End(c) /\ UNCHANGED <<chain, trouble>>
  /\ UNCHANGED <<d1, expired, creds, sessions>>

(* The row is inserted first; it refers to a session record.                *)
Insert(c) ==
  /\ At(c, "insert")
  /\ IF records[call[c].for].session = 0 THEN End(c) /\ UNCHANGED rows
     ELSE rows' = [rows EXCEPT ![c] = "quoted"] /\ Goto(c, "execute")
  /\ UNCHANGED <<rac, approvals, records, expired, waas, trouble>>

Execute(c) ==
  /\ At(c, "execute")
  /\ IF ~Visible(call[c].session, call[c].key)
       THEN Goto(c, "error") /\ UNCHANGED <<chain, trouble>>
       ELSE /\ chain' = [chain EXCEPT ![c] = "pending"]
            /\ \/ Goto(c, "status") /\ UNCHANGED trouble
               \/ /\ trouble < MaxTrouble
                  /\ trouble' = trouble + 1
                  /\ Goto(c, "error")
  /\ UNCHANGED <<d1, expired, creds, sessions>>

(* The status once more, if it can be read.                                 *)
ReadStatus(c) ==
  /\ At(c, "status")
  /\ \E s \in {"pending", IF Accepted(call[c].key) THEN chain[c] ELSE "pending"} :
       call' = [call EXCEPT ![c].pc = "write", ![c].status = s]
  /\ UNCHANGED <<d1, expired, waas, trouble>>

(* refreshTransaction: a row whose status may change still.                 *)
Refresh(c) ==
  /\ At(c, "start") /\ Is(c, "refresh")
  /\ Goto(c, IF rows[call[c].of] \in {None} \cup Final THEN "done" ELSE "key")
  /\ UNCHANGED <<d1, expired, waas, trouble>>

AskStatus(c) ==
  /\ At(c, "ask") /\ Is(c, "refresh")
  /\ \/ /\ call' = IF Accepted(call[c].key)
                     THEN [call EXCEPT ![c].pc = "write", ![c].status = chain[call[c].of]]
                     ELSE [call EXCEPT ![c].pc = "done"]
        /\ UNCHANGED trouble
     \/ Trouble(c)
  /\ UNCHANGED <<d1, expired, waas>>

(* The answer is written if the row is still there; an error changes no     *)
(* status.                                                                  *)
Write(c) ==
  /\ At(c, "write") \/ At(c, "error")
  /\ LET t == IF Is(c, "refresh") THEN call[c].of ELSE c IN
       rows' = IF At(c, "write") /\ rows[t] # None THEN [rows EXCEPT ![t] = call[c].status] ELSE rows
  /\ End(c)
  /\ UNCHANGED <<rac, approvals, records, expired, waas, trouble>>

-----------------------------------------------------------------------------
(* Dismissal and rotation *)

(* WaaS serves the key, and does not show it the session: the key is still  *)
(* accepted when the sessions are listed, and a session not listed stays so.*)
(* Whether getSession then says 404, or 401 for a key that has ended since, *)
(* isMissingSessionError makes no difference.                               *)
Gone(s, k) == Accepted(k) /\ ~Visible(s, k)

(* Mutant: a session that cannot be read counts as gone.                    *)
GoneIfUnread(c) ==
  /\ At(c, "ask") /\ Is(c, "dismiss")
  /\ \/ Goto(c, IF Gone(call[c].session, call[c].key) THEN "commit" ELSE "done") /\ UNCHANGED trouble
     \/ trouble < MaxTrouble /\ trouble' = trouble + 1 /\ Goto(c, "commit")
  /\ UNCHANGED <<d1, expired, waas>>

(* listSessions and resolveSessionRecords.                                  *)
ResolveSession(c) ==
  /\ At(c, "ask") /\ Is(c, "dismiss")
  /\ \/ /\ Goto(c, IF Gone(call[c].session, call[c].key) THEN "commit" ELSE "done")
        /\ UNCHANGED trouble
     \/ Trouble(c)
  /\ UNCHANGED <<d1, expired, waas>>

DismissSession(c) ==
  /\ At(c, "commit") /\ Is(c, "dismiss")
  /\ records' = IF Recorded(call[c].for)
                  THEN [records EXCEPT ![call[c].for].dismissed = TRUE] ELSE records
  /\ End(c)
  /\ UNCHANGED <<rac, approvals, rows, expired, waas, trouble>>

(* A credential that has not expired is revoked first.                      *)
StartRotation(c) ==
  /\ At(c, "start") /\ Is(c, "rotate")
  /\ call' = IF rac.cred # 0 /\ creds[rac.cred].is # "lapsed"
               THEN [call EXCEPT ![c].pc = "rac", ![c].key = rac.signer, ![c].cred = rac.cred]
               ELSE [call EXCEPT ![c].pc = "batch"]
  /\ UNCHANGED <<d1, expired, waas, trouble>>

RevokeCredential(c) ==
  /\ At(c, "revoke")
  /\ IF ~Accepted(call[c].key) THEN End(c) /\ UNCHANGED <<creds, trouble>>
     ELSE /\ creds' = [creds EXCEPT ![call[c].cred].is = "revoked"]
          /\ \/ Goto(c, "batch") /\ UNCHANGED trouble
             \/ Trouble(c)
  /\ UNCHANGED <<d1, expired, sessions, chain>>

(* Mutant: the requests stay.                                               *)
KeepsApprovals(c) ==
  /\ At(c, "batch")
  /\ rac.key + 1 \in Keys
  /\ rows' = [t \in Calls |-> None]
  /\ records' = [a \in Approvals |-> [session |-> 0, dismissed |-> FALSE]]
  /\ rac' = [key |-> rac.key + 1, signer |-> 0, cred |-> 0]
  /\ Goto(c, "key")
  /\ UNCHANGED <<approvals, expired, waas, trouble>>

(* One batch; then a credential is registered for the new key.              *)
RotateKey(c) ==
  /\ At(c, "batch")
  /\ rac.key + 1 \in Keys
  /\ rows' = [t \in Calls |-> None]
  /\ records' = [a \in Approvals |-> [session |-> 0, dismissed |-> FALSE]]
  /\ approvals' = [a \in Approvals |-> IF approvals[a].is = "unused" THEN approvals[a]
                                       ELSE [approvals[a] EXCEPT !.is = "deleted"]]
  /\ rac' = [key |-> rac.key + 1, signer |-> 0, cred |-> 0]
  /\ Goto(c, "key")
  /\ UNCHANGED <<expired, waas, trouble>>

StartCreate(c) ==
  /\ At(c, "start") /\ Is(c, "create")
  /\ Goto(c, "key")
  /\ UNCHANGED <<d1, expired, waas, trouble>>

-----------------------------------------------------------------------------
(* WaaS and time *)

(* The owner revokes a session.                                             *)
RevokeSession ==
  /\ \E s \in DOMAIN sessions : sessions[s].live /\ sessions' = [sessions EXCEPT ![s].live = FALSE]
  /\ UNCHANGED <<d1, expired, creds, chain, call, trouble>>

RequestExpires ==
  /\ \E a \in Approvals : /\ a \notin expired /\ approvals[a].is # "unused"
                          /\ expired' = expired \cup {a}
  /\ UNCHANGED <<d1, waas, call, trouble>>

(* A request expires with its credential at the latest.                     *)
CredentialExpires ==
  /\ \E i \in DOMAIN creds :
       /\ creds[i].is = "live"
       /\ creds' = [creds EXCEPT ![i].is = "lapsed"]
       /\ expired' = expired \cup {a \in Approvals : approvals[a].cred = i}
  /\ UNCHANGED <<d1, sessions, chain, call, trouble>>

Progress ==
  /\ \E t \in Calls : chain[t] = "pending" /\ \E s \in Final : chain' = [chain EXCEPT ![t] = s]
  /\ UNCHANGED <<d1, expired, creds, sessions, call, trouble>>

-----------------------------------------------------------------------------
(* The specification *)

(* A request is new, pending, or approved with a session.                   *)
InitialApproval == [cred : {1}, is : {"pending", "approved"}] \cup {[cred |-> 0, is |-> "unused"]}

Init ==
  /\ rac = [key |-> 1, signer |-> 1, cred |-> 1]
  /\ creds = <<[key |-> 1, is |-> "live"]>>
  /\ approvals \in {f \in [Approvals -> InitialApproval] :
                      \A a, b \in Approvals : f[a].is = "approved" /\ f[b].is = "approved" => a = b}
  /\ LET approved == {a \in Approvals : approvals[a].is = "approved"} IN
       /\ sessions = IF approved = {} THEN <<>>
                     ELSE <<[cred |-> 1, for |-> CHOOSE a \in approved : TRUE, live |-> TRUE]>>
       /\ records = [a \in Approvals |-> [session |-> IF a \in approved THEN 1 ELSE 0,
                                          dismissed |-> FALSE]]
  /\ rows = [t \in Calls |-> None] /\ chain = [t \in Calls |-> None]
  /\ expired = {} /\ trouble = 0
  /\ \E kind \in Scripts, for \in [Calls -> Approvals], of \in [Calls -> Calls] :
       /\ \A c \in Calls : of[c] = c \/ (kind[c] = "refresh" /\ kind[of[c]] = "transact")
       /\ call = [c \in Calls |-> [kind |-> kind[c], pc |-> "start", for |-> for[c], of |-> of[c],
                                   key |-> 0, cred |-> 0, session |-> 0, status |-> None]]

CredentialStep(c) == ReadKey(c) \/ ReadRow(c) \/ Register(c) \/ StoreCredential(c) \/ Go(c)

ApprovalStep(c) ==
  \/ StartCreate(c) \/ CreateApproval(c) \/ ShowRequest(c) \/ Authorize(c) \/ ReadApproval(c)
  \/ VerifySession(c) \/ Approve(c) \/ Reject(c)

TransactionStep(c) ==
  \/ ReadRecord(c) \/ CheckSession(c) \/ Prepare(c) \/ Insert(c) \/ Execute(c) \/ ReadStatus(c)
  \/ Refresh(c) \/ AskStatus(c) \/ Write(c)

AdminStep(c) ==
  \/ ResolveSession(c) \/ DismissSession(c) \/ StartRotation(c) \/ RevokeCredential(c) \/ RotateKey(c)

Next ==
  \/ \E c \in Calls : CredentialStep(c) \/ ApprovalStep(c) \/ TransactionStep(c) \/ AdminStep(c)
  \/ RevokeSession \/ RequestExpires \/ CredentialExpires \/ Progress

Spec == Init /\ [][Next]_vars

-----------------------------------------------------------------------------
(* Properties *)

(* A request is decided once: it has a session record exactly if it was     *)
(* approved, however approvals, rejections and rotations overlap.           *)
DecidedOnce ==
  \A a \in Approvals : (records[a].session # 0) = (approvals[a].is = "approved")

(* A rotation ends what the old key could do: a session record always       *)
(* belongs to the key of now, though an approval may have been under way.   *)
RecordsOfThisKey ==
  \A a \in Approvals : records[a].session # 0 => creds[sessions[records[a].session].cred].key = rac.key

(* The Worker spends nothing it has no record of: a transaction WaaS may    *)
(* have executed has a row, unless the key that signed it was rotated out   *)
(* and the rows with it (createTransaction inserts before it executes).     *)
SpentIsRecorded ==
  \A t \in Calls : chain[t] \in {"pending"} \cup Final /\ rows[t] = None
                     => creds[sessions[call[t].session].cred].key # rac.key

(* Only a session that can no longer be used is dismissed.                  *)
DismissedIsOver ==
  \A a \in Approvals : records[a].dismissed => ~Visible(records[a].session, rac.key)

=============================================================================
