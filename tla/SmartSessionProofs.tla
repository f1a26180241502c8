------------------------- MODULE SmartSessionProofs -------------------------
(***************************************************************************)
(* What is proved of the smart-session Worker for any calls, requests,     *)
(* credentials, sessions and failures.                                     *)
(***************************************************************************)
EXTENDS SmartSession, TLAPS

-----------------------------------------------------------------------------
(* The inductive invariant *)

(* The key of the credential a session was authorised for.                  *)
KeyOf(s) == creds[sessions[s].cred].key

(* WaaS knows no key that the Worker has not had.                           *)
WaasOK ==
  /\ \A s \in DOMAIN sessions : sessions[s].cred \in 1..Len(creds)
  /\ \A i \in DOMAIN creds : creds[i].key <= rac.key
  /\ rac.cred <= Len(creds) /\ rac.signer <= rac.key

(* A request names a credential; its record is of this key and not of a     *)
(* session that can still be used once it is dismissed.                     *)
RequestOK(a) ==
  /\ approvals[a].is # "unused" => approvals[a].cred \in 1..Len(creds)
  /\ (records[a].session # 0) = (approvals[a].is = "approved")
  /\ records[a].session # 0 =>
       /\ records[a].session \in 1..Len(sessions)
       /\ sessions[records[a].session].for = a
       /\ KeyOf(records[a].session) = rac.key
  /\ records[a].dismissed => records[a].session # 0 /\ ~Visible(records[a].session, rac.key)

Ended(c) == approvals[call[c].for].is = "deleted"

(* A call carries what it was told.                                         *)
CarriesOK(c) ==
  /\ call[c].cred <= Len(creds) /\ call[c].session <= Len(sessions) /\ call[c].key <= rac.key
  /\ call[c].pc \in {"row", "register"} => call[c].key # 0
  /\ call[c].pc \in {"authorize", "store", "go", "revoke"} => call[c].cred # 0
  /\ Is(c, "rotate") /\ call[c].pc = "rac" => call[c].cred # 0
  /\ call[c].pc = "authorize" => Is(c, "approve")
  /\ call[c].pc \in {"prepare", "insert", "execute", "status"} => Is(c, "transact")
  /\ call[c].pc = "write" => call[c].status # None
  /\ Is(c, "refresh") /\ call[c].pc \notin {"start", "done"} => chain[call[c].of] # None

(* An approval under way has an authorised session of its request, and      *)
(* commits it with the key of now, or the request is gone.                  *)
ApproveOK(c) ==
  Is(c, "approve") =>
    /\ call[c].pc \notin {"start", "done"} => approvals[call[c].for].is # "unused"
    /\ call[c].pc \notin {"start", "authorize", "done"}
         => call[c].session # 0 /\ sessions[call[c].session].for = call[c].for
    /\ call[c].pc = "ask" => call[c].key = rac.key \/ Ended(c)
    /\ call[c].pc = "commit" => KeyOf(call[c].session) = rac.key \/ Ended(c)

(* A dismissal under way is of the recorded session, or the request is gone.*)
DismissOK(c) ==
  Is(c, "dismiss") /\ call[c].pc \notin {"start", "done"} =>
    \/ Ended(c)
    \/ /\ call[c].session # 0 /\ records[call[c].for].session = call[c].session
       /\ call[c].pc = "ask" => call[c].key = rac.key
       /\ call[c].pc = "commit" => ~Visible(call[c].session, rac.key)

Spent == {"pending"} \cup Final

(* What may be spent has a row, or its key was rotated out.                 *)
SpendOK(c) ==
  /\ rows[c] # None \/ call[c].pc \in {"insert", "execute", "status"} => chain[c] # None
  /\ chain[c] # None => call[c].pc \notin {"start", "authorize"} /\ call[c].session # 0
  /\ chain[c] \in Spent \/ call[c].pc = "execute"
       => rows[c] # None \/ KeyOf(call[c].session) < rac.key

CallOK(c) == CarriesOK(c) /\ ApproveOK(c) /\ DismissOK(c) /\ SpendOK(c)

IInv ==
  /\ TypeOK /\ WaasOK
  /\ \A a \in Approvals : RequestOK(a)
  /\ \A c \in Calls : CallOK(c)


-----------------------------------------------------------------------------
(* What every step but a rotation leaves true *)

(* WaaS forgets nothing, and what is over stays over.                       *)
Grows ==
  /\ Len(creds) <= Len(creds') /\ Len(sessions) <= Len(sessions')
  /\ \A i \in 1..Len(creds) : /\ creds'[i].key = creds[i].key
                              /\ creds'[i].is = "live" => creds[i].is = "live"
  /\ \A s \in 1..Len(sessions) : /\ sessions'[s].cred = sessions[s].cred
                                 /\ sessions'[s].for = sessions[s].for
                                 /\ sessions'[s].live => sessions[s].live
  /\ expired \subseteq expired'
  /\ \A t \in Calls : chain[t] # None => chain'[t] # None

(* A request that was made stays made, an ended one ended, and a record     *)
(* keeps its session.                                                       *)
KeepsRequests ==
  \A a \in Approvals :
    /\ approvals'[a].is = "unused" => approvals[a].is = "unused"
    /\ approvals[a].is = "deleted" => approvals'[a].is = "deleted"
    /\ records[a].session # 0 => records'[a].session = records[a].session

KeepsRows(t) ==
  /\ rows[t] # None <=> rows'[t] # None
  /\ chain'[t] # None => chain[t] # None
  /\ chain'[t] \in Spent => chain[t] \in Spent

LEMMA Kept ==
  ASSUME IInv, Grows, NEW s \in 1..Len(sessions)
  PROVE  /\ s \in 1..Len(sessions')
         /\ KeyOf(s)' = KeyOf(s)
         /\ sessions'[s].for = sessions[s].for
         /\ \A k \in Nat : Visible(s, k)' => Visible(s, k)
<1>1. s \in Nat /\ Len(sessions) \in Nat /\ Len(sessions') \in Nat /\ Len(creds) \in Nat
  BY DEF IInv, TypeOK
<1>2. sessions[s].cred \in 1..Len(creds)
  BY DEF IInv, WaasOK, TypeOK
<1> QED
  BY <1>1, <1>2 DEF Grows, KeyOf, Visible

LEMMA OtherCall ==
  ASSUME IInv, TypeOK', Grows, KeepsRequests, rac'.key = rac.key,
         NEW d \in Calls, call'[d] = call[d], KeepsRows(d)
  PROVE  CallOK(d)'
<1>1. call[d] \in CallRec /\ call[d].for \in Approvals /\ rac.key \in Nat
  BY DEF IInv, TypeOK, CallRec, Keys
<1>2. CallOK(d)
  BY DEF IInv
<1>3. call[d].session \in Nat /\ (call[d].session # 0 => call[d].session \in 1..Len(sessions))
  BY <1>1, <1>2 DEF CallOK, CarriesOK, CallRec, SessionIds
<1>4. CarriesOK(d)'
  BY <1>1, <1>2 DEF Grows, CallOK, CarriesOK, Is, CallRec, CredIds, SessionIds, IInv, TypeOK
<1>5. ApproveOK(d)'
  BY <1>1, <1>2, <1>3, Kept DEF CallOK, ApproveOK, KeepsRequests, Ended, Is
<1>6. DismissOK(d)'
  BY <1>1, <1>2, <1>3, Kept DEF CallOK, DismissOK, KeepsRequests, Ended, Is
<1>7. SpendOK(d)'
  <2>1. chain[d] # None => chain'[d] # None
    BY DEF Grows
  <2> QED
    BY <1>1, <1>2, <1>3, <2>1, Kept DEF CallOK, SpendOK, KeepsRows, Spent, Final, None
<1> QED
  BY <1>4, <1>5, <1>6, <1>7 DEF CallOK

(* It is enough to look at the call that makes a step.                      *)
LEMMA Others ==
  ASSUME IInv, TypeOK', Grows, KeepsRequests, rac'.key = rac.key, NEW c \in Calls,
         \A d \in Calls \ {c} : call'[d] = call[d] /\ KeepsRows(d),
         CallOK(c)', WaasOK', \A a \in Approvals : RequestOK(a)'
  PROVE  IInv'
<1>1. \A d \in Calls : CallOK(d)'
  BY OtherCall
<1> QED
  BY <1>1 DEF IInv

(* A step that only changes what a call carries.                            *)
LEMMA Quiet ==
  ASSUME IInv, UNCHANGED <<d1, expired, waas>>, NEW c \in Calls,
         call' \in [Calls -> CallRec], trouble' \in 0..MaxTrouble,
         \A d \in Calls \ {c} : call'[d] = call[d],
         CallOK(c)'
  PROVE  IInv'
<1>1. TypeOK'
  BY DEF IInv, TypeOK, d1, waas
<1>2. Grows /\ KeepsRequests /\ rac'.key = rac.key
  BY DEF Grows, KeepsRequests, d1, waas, IInv, TypeOK
<1>3. \A d \in Calls : KeepsRows(d)
  BY DEF KeepsRows, d1, waas
<1>4. WaasOK'
  BY DEF IInv, WaasOK, d1, waas
<1>5. \A a \in Approvals : RequestOK(a)'
  BY DEF IInv, RequestOK, Visible, KeyOf, d1, waas
<1> QED
  BY <1>1, <1>2, <1>3, <1>4, <1>5, Others

(* What a call carries has its type, and ends as it was.                    *)
LEMMA CallFacts ==
  ASSUME IInv, NEW c \in Calls
  PROVE  /\ call \in [Calls -> CallRec] /\ call[c] \in CallRec /\ CallOK(c)
         /\ call[c].for \in Approvals /\ call[c].of \in Calls
         /\ rac.key \in Nat \ {0} /\ rac.key \in Keys
         /\ rac.cred \in Nat /\ rac.cred \in CredIds \cup {0}
         /\ rac.signer \in Nat /\ rac.signer \in Keys \cup {0}
         /\ call[c].session \in Nat /\ call[c].key \in Nat /\ call[c].cred \in Nat
         /\ Len(creds) \in Nat /\ Len(sessions) \in Nat /\ trouble \in 0..MaxTrouble
BY DEF IInv, TypeOK, CallRec, Keys, CredIds, SessionIds

(* What a call carries after its step; the other calls are as they were.    *)
Carries(c, p, k, i, s) ==
  /\ call' \in [Calls -> CallRec]
  /\ \A d \in Calls \ {c} : call'[d] = call[d]
  /\ call'[c].pc = p /\ call'[c].kind = call[c].kind /\ call'[c].for = call[c].for
  /\ call'[c].of = call[c].of
  /\ call'[c].key = k /\ call'[c].cred = i /\ call'[c].session = s

LEMMA GotoFacts ==
  ASSUME call \in [Calls -> CallRec], NEW c \in Calls, NEW p \in PCs, Goto(c, p)
  PROVE  Carries(c, p, call[c].key, call[c].cred, call[c].session)
<1>1. call' \in [Calls -> CallRec]
  BY DEF Goto, CallRec
<1>2. \A d \in Calls \ {c} : call'[d] = call[d]
  BY DEF Goto
<1>3. call'[c] = [call[c] EXCEPT !.pc = p] /\ call[c] \in CallRec
  BY DEF Goto
<1> QED
  BY <1>1, <1>2, <1>3 DEF CallRec, Carries

LEMMA KeyFacts ==
  ASSUME call \in [Calls -> CallRec], NEW c \in Calls, NEW p \in PCs, NEW k \in Keys \cup {0},
         call' = [call EXCEPT ![c].key = k, ![c].pc = p]
  PROVE  Carries(c, p, k, call[c].cred, call[c].session)
<1> DEFINE r == [call[c] EXCEPT !.key = k, !.pc = p]
<1>1. call' = [call EXCEPT ![c] = r]
  OBVIOUS
<1>2. \A d \in Calls \ {c} : call'[d] = call[d]
  BY <1>1
<1>3. r \in CallRec /\ call'[c] = r /\ call[c] \in CallRec
  <2>1. call[c] \in CallRec
    OBVIOUS
  <2>2. r \in CallRec
    BY <2>1 DEF CallRec
  <2> QED
    BY <2>1, <2>2
<1>4. call' \in [Calls -> CallRec]
  BY <1>1, <1>3
<1> QED
  BY <1>2, <1>3, <1>4 DEF CallRec, Carries

LEMMA CredFacts ==
  ASSUME call \in [Calls -> CallRec], NEW c \in Calls, NEW p \in PCs, NEW i \in CredIds \cup {0},
         call' = [call EXCEPT ![c].pc = p, ![c].cred = i]
  PROVE  Carries(c, p, call[c].key, i, call[c].session)
<1> DEFINE r == [call[c] EXCEPT !.pc = p, !.cred = i]
<1>1. call' = [call EXCEPT ![c] = r]
  OBVIOUS
<1>2. \A d \in Calls \ {c} : call'[d] = call[d]
  BY <1>1
<1>3. r \in CallRec /\ call'[c] = r /\ call[c] \in CallRec
  <2>1. call[c] \in CallRec
    OBVIOUS
  <2>2. r \in CallRec
    BY <2>1 DEF CallRec
  <2> QED
    BY <2>1, <2>2
<1>4. call' \in [Calls -> CallRec]
  BY <1>1, <1>3
<1> QED
  BY <1>2, <1>3, <1>4 DEF CallRec, Carries

LEMMA SessionFacts ==
  ASSUME call \in [Calls -> CallRec], NEW c \in Calls, NEW p \in PCs, NEW s \in SessionIds \cup {0},
         call' = [call EXCEPT ![c].pc = p, ![c].session = s]
  PROVE  Carries(c, p, call[c].key, call[c].cred, s)
<1> DEFINE r == [call[c] EXCEPT !.pc = p, !.session = s]
<1>1. call' = [call EXCEPT ![c] = r]
  OBVIOUS
<1>2. \A d \in Calls \ {c} : call'[d] = call[d]
  BY <1>1
<1>3. r \in CallRec /\ call'[c] = r /\ call[c] \in CallRec
  <2>1. call[c] \in CallRec
    OBVIOUS
  <2>2. r \in CallRec
    BY <2>1 DEF CallRec
  <2> QED
    BY <2>1, <2>2
<1>4. call' \in [Calls -> CallRec]
  BY <1>1, <1>3
<1> QED
  BY <1>2, <1>3, <1>4 DEF CallRec, Carries

LEMMA RecordFacts ==
  ASSUME call \in [Calls -> CallRec], NEW c \in Calls, NEW p \in PCs, NEW s \in SessionIds \cup {0},
         call' = [call EXCEPT ![c].session = s, ![c].pc = p]
  PROVE  Carries(c, p, call[c].key, call[c].cred, s)
<1> DEFINE r == [call[c] EXCEPT !.session = s, !.pc = p]
<1>1. call' = [call EXCEPT ![c] = r]
  OBVIOUS
<1>2. \A d \in Calls \ {c} : call'[d] = call[d]
  BY <1>1
<1>3. r \in CallRec /\ call'[c] = r /\ call[c] \in CallRec
  <2>1. call[c] \in CallRec
    OBVIOUS
  <2>2. r \in CallRec
    BY <2>1 DEF CallRec
  <2> QED
    BY <2>1, <2>2
<1>4. call' \in [Calls -> CallRec]
  BY <1>1, <1>3
<1> QED
  BY <1>2, <1>3, <1>4 DEF CallRec, Carries

LEMMA StatusFacts ==
  ASSUME call \in [Calls -> CallRec], NEW c \in Calls, NEW p \in PCs, NEW s \in Statuses \cup {None},
         call' = [call EXCEPT ![c].pc = p, ![c].status = s]
  PROVE  Carries(c, p, call[c].key, call[c].cred, call[c].session) /\ call'[c].status = s
<1> DEFINE r == [call[c] EXCEPT !.pc = p, !.status = s]
<1>1. call' = [call EXCEPT ![c] = r]
  OBVIOUS
<1>2. \A d \in Calls \ {c} : call'[d] = call[d]
  BY <1>1
<1>3. r \in CallRec /\ call'[c] = r /\ call[c] \in CallRec
  <2>1. call[c] \in CallRec
    OBVIOUS
  <2>2. r \in CallRec
    BY <2>1 DEF CallRec
  <2> QED
    BY <2>1, <2>2
<1>4. call' \in [Calls -> CallRec]
  BY <1>1, <1>3
<1> QED
  BY <1>2, <1>3, <1>4 DEF CallRec, Carries

LEMMA RacFacts ==
  ASSUME call \in [Calls -> CallRec], NEW c \in Calls, NEW p \in PCs, NEW k \in Keys \cup {0},
         NEW i \in CredIds \cup {0},
         call' = [call EXCEPT ![c].pc = p, ![c].key = k, ![c].cred = i]
  PROVE  Carries(c, p, k, i, call[c].session)
<1> DEFINE r == [call[c] EXCEPT !.pc = p, !.key = k, !.cred = i]
<1>1. call' = [call EXCEPT ![c] = r]
  OBVIOUS
<1>2. \A d \in Calls \ {c} : call'[d] = call[d]
  BY <1>1
<1>3. r \in CallRec /\ call'[c] = r /\ call[c] \in CallRec
  <2>1. call[c] \in CallRec
    OBVIOUS
  <2>2. r \in CallRec
    BY <2>1 DEF CallRec
  <2> QED
    BY <2>1, <2>2
<1>4. call' \in [Calls -> CallRec]
  BY <1>1, <1>3
<1> QED
  BY <1>2, <1>3, <1>4 DEF CallRec, Carries

-----------------------------------------------------------------------------
(* Steps that only change what a call carries *)

LEMMA QuietStep ==
  ASSUME IInv, NEW c \in Calls, NEW p, NEW k, NEW i, NEW s, Carries(c, p, k, i, s),
         UNCHANGED <<d1, expired, waas>>, trouble' \in 0..MaxTrouble,
         CarriesOK(c)', ApproveOK(c)', DismissOK(c)', SpendOK(c)'
  PROVE  IInv'
BY Quiet DEF CallOK, Carries

LEMMA EndInv ==
  ASSUME IInv, NEW c \in Calls, End(c), UNCHANGED <<d1, expired, waas>>,
         trouble' \in 0..MaxTrouble
  PROVE  IInv'
<1>1. Carries(c, "done", call[c].key, call[c].cred, call[c].session)
  BY CallFacts, GotoFacts DEF End, PCs
<1>2. CarriesOK(c)' /\ ApproveOK(c)' /\ DismissOK(c)' /\ SpendOK(c)'
  BY <1>1, CallFacts
  DEF Carries, CallOK, CarriesOK, ApproveOK, DismissOK, SpendOK, Is, KeyOf, d1, waas
<1> QED
  BY <1>1, <1>2, QuietStep

LEMMA TroubleInv ==
  ASSUME IInv, NEW c \in Calls, Trouble(c), UNCHANGED <<d1, expired, waas>>
  PROVE  IInv'
<1>1. trouble' \in 0..MaxTrouble
  BY ConstantsAssumption, CallFacts DEF Trouble, ConstantsAssumption
<1> QED
  BY <1>1, EndInv DEF Trouble

LEMMA ReadKeyInv ==
  ASSUME IInv, NEW c \in Calls, ReadKey(c)
  PROVE  IInv'
<1> DEFINE p == IF At(c, "key") THEN "row"
                ELSE IF Is(c, "rotate")
                  THEN IF call[c].key = rac.key THEN "revoke" ELSE "batch"
                  ELSE "ask"
<1>1. UNCHANGED <<d1, expired, waas, trouble>>
  BY DEF ReadKey
<1>2. Carries(c, p, rac.key, call[c].cred, call[c].session)
  <2>1. p \in PCs
    BY DEF PCs
  <2>2. call' = [call EXCEPT ![c].key = rac.key, ![c].pc = p]
    BY DEF ReadKey
  <2> HIDE DEF p
  <2> QED
    BY <2>1, <2>2, CallFacts, KeyFacts
<1>3. call[c].pc = "key" \/ call[c].pc = "rac"
  BY DEF ReadKey, At
<1>4. CarriesOK(c)'
  BY <1>1, <1>2, <1>3, CallFacts DEF Carries, CallOK, CarriesOK, Is, At, d1, waas
<1>5. ApproveOK(c)' /\ DismissOK(c)'
  BY <1>1, <1>2, <1>3, CallFacts
  DEF Carries, CallOK, ApproveOK, DismissOK, Ended, Is, At, KeyOf, d1, waas
<1>6. SpendOK(c)'
  BY <1>1, <1>2, <1>3, CallFacts DEF Carries, CallOK, SpendOK, KeyOf, At, Is, d1, waas
<1> HIDE DEF p
<1> QED
  BY <1>1, <1>2, <1>4, <1>5, <1>6, CallFacts, QuietStep

LEMMA ReadRowInv ==
  ASSUME IInv, NEW c \in Calls, ReadRow(c)
  PROVE  IInv'
<1>1. UNCHANGED <<d1, expired, waas, trouble>> /\ call[c].pc = "row"
  BY DEF ReadRow, At
<1>2. PICK p \in {"go", "register"}, i \in {call[c].cred, rac.cred} :
        Carries(c, p, call[c].key, i, call[c].session) /\ (p = "go" => i # 0)
  <2>1. {"go", "register"} \subseteq PCs
    BY DEF PCs
  <2>2. CASE Registered(call[c].key)
    BY <2>1, <2>2, CallFacts, CredFacts DEF ReadRow, Registered
  <2>3. CASE ~Registered(call[c].key)
    BY <2>1, <2>3, CallFacts, GotoFacts DEF ReadRow, Goto
  <2> QED
    BY <2>2, <2>3
<1>3. CarriesOK(c)'
  BY <1>1, <1>2, CallFacts DEF Carries, CallOK, CarriesOK, Is, Registered, d1, waas, IInv, WaasOK
<1>4. ApproveOK(c)' /\ DismissOK(c)'
  BY <1>1, <1>2, CallFacts DEF Carries, CallOK, ApproveOK, DismissOK, Ended, Is, KeyOf, d1, waas
<1>5. SpendOK(c)'
  BY <1>1, <1>2, CallFacts DEF Carries, CallOK, SpendOK, KeyOf, d1, waas
<1> QED
  BY <1>1, <1>2, <1>3, <1>4, <1>5, CallFacts, QuietStep

LEMMA GoInv ==
  ASSUME IInv, NEW c \in Calls, Go(c)
  PROVE  IInv'
<1>1. UNCHANGED <<d1, expired, waas, trouble>> /\ call[c].pc = "go"
  BY DEF Go, At
<1>2. PICK p \in {"done", "commit", "rac"} :
        Goto(c, p) /\ (p = "commit" => Is(c, "reject")) /\ (p = "rac" => ~Is(c, "rotate"))
  BY DEF Go
<1>3. Carries(c, p, call[c].key, call[c].cred, call[c].session)
  BY <1>2, CallFacts, GotoFacts DEF PCs
<1>4. CarriesOK(c)'
  BY <1>1, <1>2, <1>3, CallFacts DEF Carries, CallOK, CarriesOK, Is, d1, waas
<1>5. ApproveOK(c)' /\ DismissOK(c)'
  BY <1>1, <1>2, <1>3, CallFacts
  DEF Carries, CallOK, ApproveOK, DismissOK, Ended, Is, KeyOf, d1, waas
<1>6. SpendOK(c)'
  BY <1>1, <1>2, <1>3, CallFacts DEF Carries, CallOK, SpendOK, KeyOf, d1, waas
<1> QED
  BY <1>1, <1>3, <1>4, <1>5, <1>6, CallFacts, QuietStep

LEMMA StartCreateInv ==
  ASSUME IInv, NEW c \in Calls, StartCreate(c)
  PROVE  IInv'
<1>1. UNCHANGED <<d1, expired, waas, trouble>> /\ call[c].pc = "start" /\ Is(c, "create")
  BY DEF StartCreate, At
<1>2. PICK p \in {"key"} :
        Goto(c, p)
  BY DEF StartCreate
<1>3. Carries(c, p, call[c].key, call[c].cred, call[c].session)
  BY <1>2, CallFacts, GotoFacts DEF PCs
<1>4. CarriesOK(c)'
  BY <1>1, <1>2, <1>3, CallFacts DEF Carries, CallOK, CarriesOK, Is, d1, waas
<1>5. ApproveOK(c)' /\ DismissOK(c)'
  BY <1>1, <1>2, <1>3, CallFacts
  DEF Carries, CallOK, ApproveOK, DismissOK, Ended, Is, KeyOf, Visible, d1, waas
<1>6. SpendOK(c)'
  BY <1>1, <1>2, <1>3, CallFacts DEF Carries, CallOK, SpendOK, KeyOf, d1, waas
<1> QED
  BY <1>1, <1>2, <1>3, <1>4, <1>5, <1>6, CallFacts, QuietStep

LEMMA ReadApprovalInv ==
  ASSUME IInv, NEW c \in Calls, ReadApproval(c)
  PROVE  IInv'
<1>1. UNCHANGED <<d1, expired, waas, trouble>> /\ call[c].pc = "read"
  BY DEF ReadApproval, At
<1>2. PICK p \in {"key", "done"} :
        Goto(c, p)
  BY DEF ReadApproval
<1>3. Carries(c, p, call[c].key, call[c].cred, call[c].session)
  BY <1>2, CallFacts, GotoFacts DEF PCs
<1>4. CarriesOK(c)'
  BY <1>1, <1>2, <1>3, CallFacts DEF Carries, CallOK, CarriesOK, Is, d1, waas
<1>5. ApproveOK(c)' /\ DismissOK(c)'
  BY <1>1, <1>2, <1>3, CallFacts
  DEF Carries, CallOK, ApproveOK, DismissOK, Ended, Is, KeyOf, Visible, d1, waas
<1>6. SpendOK(c)'
  BY <1>1, <1>2, <1>3, CallFacts DEF Carries, CallOK, SpendOK, KeyOf, d1, waas
<1> QED
  BY <1>1, <1>2, <1>3, <1>4, <1>5, <1>6, CallFacts, QuietStep

LEMMA RefreshInv ==
  ASSUME IInv, NEW c \in Calls, Refresh(c)
  PROVE  IInv'
<1>1. UNCHANGED <<d1, expired, waas, trouble>> /\ call[c].pc = "start" /\ Is(c, "refresh")
  BY DEF Refresh, At
<1>2. PICK p \in {"key", "done"} :
        Goto(c, p) /\ (p = "key" => chain[call[c].of] # None)
  BY DEF Refresh, IInv, CallOK, SpendOK, TypeOK, CallRec
<1>3. Carries(c, p, call[c].key, call[c].cred, call[c].session)
  BY <1>2, CallFacts, GotoFacts DEF PCs
<1>4. CarriesOK(c)'
  BY <1>1, <1>2, <1>3, CallFacts DEF Carries, CallOK, CarriesOK, Is, d1, waas
<1>5. ApproveOK(c)' /\ DismissOK(c)'
  BY <1>1, <1>2, <1>3, CallFacts
  DEF Carries, CallOK, ApproveOK, DismissOK, Ended, Is, KeyOf, Visible, d1, waas
<1>6. SpendOK(c)'
  BY <1>1, <1>2, <1>3, CallFacts DEF Carries, CallOK, SpendOK, KeyOf, d1, waas
<1> QED
  BY <1>1, <1>2, <1>3, <1>4, <1>5, <1>6, CallFacts, QuietStep

LEMMA VerifySessionInv ==
  ASSUME IInv, NEW c \in Calls, VerifySession(c)
  PROVE  IInv'
<1>1. UNCHANGED <<d1, expired, waas>> /\ call[c].pc = "ask" /\ Is(c, "approve")
  BY DEF VerifySession, At
<1>2. CASE Trouble(c)
  BY <1>1, <1>2, TroubleInv
<1>3. ASSUME NEW p \in {"commit", "done"}, Goto(c, p), trouble' = trouble,
             p = "commit" => Visible(call[c].session, call[c].key)
      PROVE  IInv'
  <2>1. Carries(c, p, call[c].key, call[c].cred, call[c].session)
    BY <1>3, CallFacts, GotoFacts DEF PCs
  <2>2. CarriesOK(c)'
    BY <1>1, <1>3, <2>1, CallFacts DEF Carries, CallOK, CarriesOK, Is, d1, waas
  <2>3. ApproveOK(c)' /\ DismissOK(c)'
    BY <1>1, <1>3, <2>1, CallFacts
    DEF Carries, CallOK, ApproveOK, DismissOK, Ended, Is, KeyOf, Visible, d1, waas
  <2>4. SpendOK(c)'
    BY <1>1, <1>3, <2>1, CallFacts DEF Carries, CallOK, SpendOK, KeyOf, d1, waas
  <2> QED
    BY <1>1, <1>3, <2>1, <2>2, <2>3, <2>4, CallFacts, QuietStep
<1> QED
  BY <1>1, <1>2, <1>3 DEF VerifySession

LEMMA CheckSessionInv ==
  ASSUME IInv, NEW c \in Calls, CheckSession(c)
  PROVE  IInv'
<1>1. UNCHANGED <<d1, expired, waas>> /\ call[c].pc = "ask" /\ Is(c, "transact")
  BY DEF CheckSession, At
<1>2. CASE Trouble(c)
  BY <1>1, <1>2, TroubleInv
<1>3. ASSUME NEW p \in {"prepare", "done"}, Goto(c, p), trouble' = trouble,
             p = "prepare" => Visible(call[c].session, call[c].key)
      PROVE  IInv'
  <2>1. Carries(c, p, call[c].key, call[c].cred, call[c].session)
    BY <1>3, CallFacts, GotoFacts DEF PCs
  <2>2. CarriesOK(c)'
    BY <1>1, <1>3, <2>1, CallFacts DEF Carries, CallOK, CarriesOK, Is, d1, waas
  <2>3. ApproveOK(c)' /\ DismissOK(c)'
    BY <1>1, <1>3, <2>1, CallFacts
    DEF Carries, CallOK, ApproveOK, DismissOK, Ended, Is, KeyOf, Visible, d1, waas
  <2>4. SpendOK(c)'
    BY <1>1, <1>3, <2>1, CallFacts DEF Carries, CallOK, SpendOK, KeyOf, d1, waas
  <2> QED
    BY <1>1, <1>3, <2>1, <2>2, <2>3, <2>4, CallFacts, QuietStep
<1> QED
  BY <1>1, <1>2, <1>3 DEF CheckSession

LEMMA ResolveSessionInv ==
  ASSUME IInv, NEW c \in Calls, ResolveSession(c)
  PROVE  IInv'
<1>1. UNCHANGED <<d1, expired, waas>> /\ call[c].pc = "ask" /\ Is(c, "dismiss")
  BY DEF ResolveSession, At
<1>2. CASE Trouble(c)
  BY <1>1, <1>2, TroubleInv
<1>3. ASSUME NEW p \in {"commit", "done"}, Goto(c, p), trouble' = trouble,
             p = "commit" => Gone(call[c].session, call[c].key)
      PROVE  IInv'
  <2>1. Carries(c, p, call[c].key, call[c].cred, call[c].session)
    BY <1>3, CallFacts, GotoFacts DEF PCs
  <2>2. CarriesOK(c)'
    BY <1>1, <1>3, <2>1, CallFacts DEF Carries, CallOK, CarriesOK, Is, d1, waas
  <2>3. ApproveOK(c)' /\ DismissOK(c)'
    BY <1>1, <1>3, <2>1, CallFacts
    DEF Carries, CallOK, ApproveOK, DismissOK, Ended, Is, KeyOf, Gone, Visible, d1, waas
  <2>4. SpendOK(c)'
    BY <1>1, <1>3, <2>1, CallFacts DEF Carries, CallOK, SpendOK, KeyOf, d1, waas
  <2> QED
    BY <1>1, <1>3, <2>1, <2>2, <2>3, <2>4, CallFacts, QuietStep
<1> QED
  BY <1>1, <1>2, <1>3 DEF ResolveSession

LEMMA ShowRequestInv ==
  ASSUME IInv, NEW c \in Calls, ShowRequest(c)
  PROVE  IInv'
<1> DEFINE a == call[c].for
<1>1. UNCHANGED <<d1, expired, waas, trouble>> /\ call[c].pc = "start"
  BY DEF ShowRequest, At
<1>2. CASE End(c)
  BY <1>1, <1>2, CallFacts, EndInv
<1>3. CASE ~End(c)
  <2>1. PICK p \in {"authorize", "read"} :
          /\ call' = [call EXCEPT ![c].pc = p, ![c].cred = approvals[a].cred]
          /\ approvals[a].is = "pending" /\ (p = "authorize" <=> Is(c, "approve"))
          /\ Is(c, "approve") \/ Is(c, "reject")
    BY <1>3 DEF ShowRequest, Is
  <2>2. approvals[a].cred \in 1..Len(creds) /\ approvals[a].cred \in CredIds \cup {0}
    BY <2>1, CallFacts DEF IInv, RequestOK, TypeOK
  <2>3. Carries(c, p, call[c].key, approvals[a].cred, call[c].session)
    BY <2>1, <2>2, CallFacts, CredFacts DEF PCs
  <2>4. CarriesOK(c)'
    BY <1>1, <2>1, <2>2, <2>3, CallFacts DEF Carries, CallOK, CarriesOK, Is, d1, waas
  <2>5. ApproveOK(c)' /\ DismissOK(c)'
    BY <1>1, <2>1, <2>3, CallFacts
    DEF Carries, CallOK, ApproveOK, DismissOK, Ended, Is, KeyOf, Visible, d1, waas
  <2>6. SpendOK(c)'
    BY <1>1, <2>1, <2>3, CallFacts DEF Carries, CallOK, SpendOK, KeyOf, d1, waas, Spent, Final, None
  <2> QED
    BY <1>1, <2>3, <2>4, <2>5, <2>6, CallFacts, QuietStep
<1> QED
  BY <1>2, <1>3

LEMMA ReadRecordInv ==
  ASSUME IInv, NEW c \in Calls, ReadRecord(c)
  PROVE  IInv'
<1> DEFINE a == call[c].for
<1>1. UNCHANGED <<d1, expired, waas, trouble>> /\ call[c].pc = "start" /\ (Is(c, "transact") \/ Is(c, "dismiss"))
  BY DEF ReadRecord, At, Is
<1>2. PICK p \in {"key", "commit", "done"} :
        /\ call' = [call EXCEPT ![c].session = records[a].session, ![c].pc = p]
        /\ p # "done" => Recorded(a)
        /\ p = "commit" => a \in expired
  BY DEF ReadRecord
<1>3. RequestOK(a) /\ records[a].session \in SessionIds \cup {0} /\ records[a].session <= Len(sessions)
  BY CallFacts DEF IInv, RequestOK, TypeOK, SessionIds
<1>4. Carries(c, p, call[c].key, call[c].cred, records[a].session)
  BY <1>2, <1>3, CallFacts, RecordFacts DEF PCs
<1>5. CarriesOK(c)'
  BY <1>1, <1>3, <1>4, CallFacts DEF Carries, CallOK, CarriesOK, Is, d1, waas
<1>6. ApproveOK(c)'
  BY <1>1, <1>4, CallFacts DEF Carries, ApproveOK, Is
<1>7. DismissOK(c)'
  <2>1. p # "done" => records[a].session # 0
    BY <1>2 DEF Recorded
  <2>2. p = "commit" => ~Visible(records[a].session, rac.key)
    BY <1>2, <1>3, <2>1 DEF RequestOK, Visible
  <2> QED
    BY <1>1, <1>4, <2>1, <2>2 DEF Carries, DismissOK, Is, Visible, d1, waas
<1>8. SpendOK(c)'
  BY <1>1, <1>4, CallFacts DEF Carries, CallOK, SpendOK, KeyOf, d1, waas, Spent, Final, None
<1> QED
  BY <1>1, <1>4, <1>5, <1>6, <1>7, <1>8, CallFacts, QuietStep

LEMMA WriteNext ==
  ASSUME IInv, NEW c \in Calls, NEW s \in Statuses,
         call' = [call EXCEPT ![c].pc = "write", ![c].status = s],
         call[c].pc \notin {"start", "done"}, ~Is(c, "approve"), ~Is(c, "dismiss"),
         UNCHANGED <<d1, expired, waas, trouble>>
  PROVE  IInv'
<1>1. Carries(c, "write", call[c].key, call[c].cred, call[c].session) /\ call'[c].status = s
  BY CallFacts, StatusFacts DEF PCs
<1>2. CarriesOK(c)'
  BY <1>1, CallFacts DEF Carries, CallOK, CarriesOK, Is, d1, waas, Statuses, None
<1>3. ApproveOK(c)' /\ DismissOK(c)'
  BY <1>1, CallFacts
  DEF Carries, CallOK, ApproveOK, DismissOK, Ended, Is, KeyOf, Visible, d1, waas
<1>4. SpendOK(c)'
  BY <1>1, CallFacts DEF Carries, CallOK, SpendOK, KeyOf, d1, waas
<1> QED
  BY <1>1, <1>2, <1>3, <1>4, CallFacts, QuietStep

LEMMA ReadStatusInv ==
  ASSUME IInv, NEW c \in Calls, ReadStatus(c)
  PROVE  IInv'
<1>1. UNCHANGED <<d1, expired, waas, trouble>> /\ call[c].pc = "status" /\ ~Is(c, "approve") /\ ~Is(c, "dismiss")
  BY CallFacts DEF ReadStatus, At, CallOK, CarriesOK, Is
<1>2. PICK s \in {"pending", chain[c]} : call' = [call EXCEPT ![c].pc = "write", ![c].status = s]
  BY DEF ReadStatus
<1>3. s \in Statuses
  BY <1>1, CallFacts DEF CallOK, SpendOK, IInv, TypeOK, Statuses
<1> QED
  BY <1>1, <1>2, <1>3, WriteNext

LEMMA AskStatusInv ==
  ASSUME IInv, NEW c \in Calls, AskStatus(c)
  PROVE  IInv'
<1>1. UNCHANGED <<d1, expired, waas>> /\ call[c].pc = "ask" /\ Is(c, "refresh")
  BY DEF AskStatus, At
<1>2. CASE Trouble(c)
  BY <1>1, <1>2, TroubleInv
<1>3. CASE UNCHANGED trouble /\ call' = [call EXCEPT ![c].pc = "done"]
  BY <1>1, <1>3, CallFacts, EndInv DEF End, Goto
<1>4. CASE UNCHANGED trouble /\ call' = [call EXCEPT ![c].pc = "write", ![c].status = chain[call[c].of]]
  <2>1. chain[call[c].of] \in Statuses
    BY <1>1, CallFacts DEF CallOK, CarriesOK, IInv, TypeOK, Is
  <2> QED
    BY <1>1, <1>4, <2>1, WriteNext DEF Is
<1> QED
  BY <1>2, <1>3, <1>4 DEF AskStatus

LEMMA StartRotationInv ==
  ASSUME IInv, NEW c \in Calls, StartRotation(c)
  PROVE  IInv'
<1>1. UNCHANGED <<d1, expired, waas, trouble>> /\ call[c].pc = "start" /\ Is(c, "rotate")
  BY DEF StartRotation, At
<1>2. PICK p \in {"rac", "batch"}, k \in {call[c].key, rac.signer}, i \in {call[c].cred, rac.cred} :
        Carries(c, p, k, i, call[c].session) /\ (p = "rac" => i # 0)
  <2>1. {"rac", "batch"} \subseteq PCs
    BY DEF PCs
  <2>2. CASE call' = [call EXCEPT ![c].pc = "batch"]
    BY <2>1, <2>2, CallFacts, GotoFacts DEF Goto
  <2>3. CASE rac.cred # 0 /\ call' = [call EXCEPT ![c].pc = "rac", ![c].key = rac.signer, ![c].cred = rac.cred]
    BY <2>1, <2>3, CallFacts, RacFacts
  <2> QED
    BY <2>2, <2>3 DEF StartRotation
<1>3. CarriesOK(c)'
  BY <1>1, <1>2, CallFacts DEF Carries, CallOK, CarriesOK, Is, d1, waas, IInv, WaasOK
<1>4. ApproveOK(c)' /\ DismissOK(c)'
  BY <1>1, <1>2, CallFacts
  DEF Carries, CallOK, ApproveOK, DismissOK, Ended, Is, KeyOf, Visible, d1, waas
<1>5. SpendOK(c)'
  BY <1>1, <1>2, CallFacts DEF Carries, CallOK, SpendOK, KeyOf, d1, waas, Spent, Final, None
<1> QED
  BY <1>1, <1>2, <1>3, <1>4, <1>5, CallFacts, QuietStep

-----------------------------------------------------------------------------
(* Steps at WaaS *)

LEMMA RequestsKept ==
  ASSUME IInv, Grows, UNCHANGED d1, NEW a \in Approvals
  PROVE  RequestOK(a)'
<1>1. RequestOK(a) /\ rac.key \in Nat /\ Len(creds) \in Nat /\ approvals[a].is \in Decisions
  BY DEF IInv, TypeOK, Keys
<1>2. approvals'[a].is # "unused" => approvals'[a].cred \in 1..Len(creds)'
  <2>1. Len(creds) <= Len(creds') /\ Len(creds') \in Nat /\ approvals' = approvals
    BY DEF Grows, d1
  <2> QED
    BY <1>1, <2>1 DEF RequestOK
<1>3. records[a].session # 0 => /\ records[a].session \in 1..Len(sessions)'
                                /\ KeyOf(records[a].session)' = KeyOf(records[a].session)
                                /\ sessions'[records[a].session].for = sessions[records[a].session].for
                                /\ ~Visible(records[a].session, rac.key) => ~Visible(records[a].session, rac.key)'
  BY <1>1, Kept DEF RequestOK, d1
<1> QED
  BY <1>1, <1>2, <1>3 DEF RequestOK, d1

(* WaaS learns or forgets something in the step of a call.                  *)
LEMMA WaasStep ==
  ASSUME IInv, NEW c \in Calls, NEW p, NEW i, NEW s, Carries(c, p, call[c].key, i, s),
         Grows, UNCHANGED <<d1, expired>>, WaasOK', trouble' \in 0..MaxTrouble,
         creds' \in Seq([key : Keys, is : {"live", "revoked", "lapsed"}]), Len(creds') <= MaxCredential,
         sessions' \in Seq([cred : CredIds, for : Approvals, live : BOOLEAN]),
         Len(sessions') <= MaxSession,
         chain' \in [Calls -> Statuses \cup {None}],
         \A d \in Calls \ {c} : chain'[d] = chain[d],
         CarriesOK(c)', ApproveOK(c)', DismissOK(c)', SpendOK(c)'
  PROVE  IInv'
<1>1. TypeOK'
  BY DEF IInv, TypeOK, d1, Carries
<1>2. KeepsRequests /\ rac'.key = rac.key
  BY DEF KeepsRequests, d1
<1>3. \A d \in Calls \ {c} : call'[d] = call[d] /\ KeepsRows(d)
  BY DEF KeepsRows, Carries, d1
<1>4. CallOK(c)'
  BY DEF CallOK
<1> QED
  BY <1>1, <1>2, <1>3, <1>4, RequestsKept, Others

(* A session of before is as it was, for the call that makes the step.      *)
LEMMA SameSession ==
  ASSUME IInv, Grows, NEW c \in Calls, NEW s, s = call[c].session, s # 0
  PROVE  /\ s \in 1..Len(sessions) /\ KeyOf(s)' = KeyOf(s)
         /\ sessions'[s].for = sessions[s].for
<1>1. s \in 1..Len(sessions)
  BY CallFacts DEF CallOK, CarriesOK
<1> QED
  BY <1>1, Kept

LEMMA RegisterInv ==
  ASSUME IInv, NEW c \in Calls, Register(c)
  PROVE  IInv'
<1>1. /\ UNCHANGED <<d1, expired, sessions, chain>> /\ call[c].pc = "register"
      /\ Len(creds) < MaxCredential /\ call[c].key # 0 /\ call[c].key <= rac.key
      /\ creds' = Append(creds, [key |-> call[c].key, is |-> "live"])
  BY CallFacts DEF Register, At, CallOK, CarriesOK
<1>2. call[c].key \in Keys /\ creds \in Seq([key : Keys, is : {"live", "revoked", "lapsed"}])
  BY <1>1, CallFacts DEF IInv, TypeOK, CallRec
<1>3. /\ creds' \in Seq([key : Keys, is : {"live", "revoked", "lapsed"}])
      /\ Len(creds') = Len(creds) + 1 /\ Len(creds') <= MaxCredential
      /\ \A i \in 1..Len(creds) : creds'[i] = creds[i]
      /\ creds'[Len(creds) + 1].key = call[c].key
  BY <1>1, <1>2, ConstantsAssumption, CallFacts DEF ConstantsAssumption
<1>4. Grows
  BY <1>1, <1>3, CallFacts DEF Grows
<1>5. WaasOK'
  BY <1>1, <1>3, CallFacts DEF IInv, WaasOK, d1
<1>6. PICK p \in {"store", "done"}, i \in {call[c].cred, Len(creds) + 1} :
        Carries(c, p, call[c].key, i, call[c].session) /\ (p = "store" => i = Len(creds) + 1)
  <2>1. Len(creds) + 1 \in CredIds \cup {0} /\ {"store", "done"} \subseteq PCs
    BY <1>1, ConstantsAssumption, CallFacts DEF CredIds, PCs, ConstantsAssumption
  <2>2. CASE End(c)
    BY <2>1, <2>2, CallFacts, GotoFacts DEF End
  <2>3. CASE call' = [call EXCEPT ![c].pc = "store", ![c].cred = Len(creds) + 1]
    BY <2>1, <2>3, CallFacts, CredFacts
  <2> QED
    BY <2>2, <2>3 DEF Register, Trouble
<1>7. trouble' \in 0..MaxTrouble
  BY ConstantsAssumption, CallFacts DEF Register, Trouble, ConstantsAssumption
<1>8. CarriesOK(c)'
  BY <1>1, <1>3, <1>6, CallFacts DEF Carries, CallOK, CarriesOK, Is, d1
<1>9. ApproveOK(c)' /\ DismissOK(c)'
  BY <1>1, <1>4, <1>6, CallFacts, SameSession DEF Carries, CallOK, ApproveOK, DismissOK, Ended, Is, d1
<1>10. SpendOK(c)'
  BY <1>1, <1>4, <1>6, CallFacts, SameSession DEF Carries, CallOK, SpendOK, d1, Spent, Final, None
<1>11. /\ sessions' \in Seq([cred : CredIds, for : Approvals, live : BOOLEAN])
       /\ Len(sessions') <= MaxSession /\ chain' \in [Calls -> Statuses \cup {None}]
       /\ \A d \in Calls \ {c} : chain'[d] = chain[d]
  BY <1>1 DEF IInv, TypeOK
<1> QED
  BY <1>1, <1>3, <1>4, <1>5, <1>6, <1>7, <1>8, <1>9, <1>10, <1>11, WaasStep

LEMMA AuthorizeInv ==
  ASSUME IInv, NEW c \in Calls, Authorize(c)
  PROVE  IInv'
<1> DEFINE S == [cred : CredIds, for : Approvals, live : BOOLEAN]
<1> DEFINE new == [cred |-> call[c].cred, for |-> call[c].for, live |-> TRUE]
<1>1. /\ UNCHANGED <<d1, expired, creds, chain>> /\ call[c].pc = "authorize" /\ Is(c, "approve")
      /\ call[c].cred # 0 /\ call[c].cred \in 1..Len(creds) /\ call[c].cred \in CredIds
  BY CallFacts DEF Authorize, At, CallOK, CarriesOK, CallRec
<1>2. CASE End(c) /\ UNCHANGED <<sessions, trouble>>
  BY <1>1, <1>2, CallFacts, EndInv DEF waas
<1>3. CASE /\ Len(sessions) < MaxSession /\ sessions' = Append(sessions, new)
           /\ \/ /\ call' = [call EXCEPT ![c].pc = "read", ![c].session = Len(sessions) + 1]
                 /\ UNCHANGED trouble
              \/ Trouble(c)
  <2>1. sessions \in Seq(S) /\ new \in S
    BY <1>1, CallFacts DEF IInv, TypeOK
  <2>2. /\ sessions' \in Seq(S) /\ Len(sessions') = Len(sessions) + 1 /\ Len(sessions') <= MaxSession
        /\ \A s \in 1..Len(sessions) : sessions'[s] = sessions[s]
        /\ sessions'[Len(sessions) + 1] = new
    <3> HIDE DEF S, new
    <3> QED
      BY <1>3, <2>1, ConstantsAssumption, CallFacts DEF ConstantsAssumption
  <2>3. Grows
    BY <1>1, <2>2, CallFacts DEF Grows
  <2>4. WaasOK'
    BY <1>1, <2>2, CallFacts DEF IInv, WaasOK, d1
  <2>5. PICK p \in {"read", "done"}, s \in {call[c].session, Len(sessions) + 1} :
          Carries(c, p, call[c].key, call[c].cred, s) /\ (p = "read" => s = Len(sessions) + 1)
    <3>1. Len(sessions) + 1 \in SessionIds \cup {0} /\ {"read", "done"} \subseteq PCs
      BY <1>3, ConstantsAssumption, CallFacts DEF SessionIds, PCs, ConstantsAssumption
    <3>2. CASE End(c)
      BY <3>1, <3>2, CallFacts, GotoFacts DEF End
    <3>3. CASE call' = [call EXCEPT ![c].pc = "read", ![c].session = Len(sessions) + 1]
      BY <3>1, <3>3, CallFacts, SessionFacts
    <3> QED
      BY <1>3, <3>2, <3>3 DEF Trouble
  <2>6. trouble' \in 0..MaxTrouble
    BY <1>3, ConstantsAssumption, CallFacts DEF Trouble, ConstantsAssumption
  <2>7. CarriesOK(c)'
    BY <1>1, <2>2, <2>5, CallFacts DEF Carries, CallOK, CarriesOK, Is, d1
  <2>8. ApproveOK(c)' /\ DismissOK(c)'
    BY <1>1, <2>2, <2>5, CallFacts DEF Carries, CallOK, ApproveOK, DismissOK, Ended, Is, d1
  <2>9. SpendOK(c)'
    BY <1>1, <2>5, CallFacts DEF Carries, CallOK, SpendOK, d1, Spent, Final, None
  <2>10. /\ creds' \in Seq([key : Keys, is : {"live", "revoked", "lapsed"}])
         /\ Len(creds') <= MaxCredential /\ chain' \in [Calls -> Statuses \cup {None}]
         /\ \A d \in Calls \ {c} : chain'[d] = chain[d]
    BY <1>1 DEF IInv, TypeOK
  <2> QED
    BY <1>1, <2>2, <2>3, <2>4, <2>5, <2>6, <2>7, <2>8, <2>9, <2>10, WaasStep
<1> QED
  BY <1>2, <1>3 DEF Authorize

LEMMA RevokeCredentialInv ==
  ASSUME IInv, NEW c \in Calls, RevokeCredential(c)
  PROVE  IInv'
<1> DEFINE C == [key : Keys, is : {"live", "revoked", "lapsed"}]
<1>1. /\ UNCHANGED <<d1, expired, sessions, chain>> /\ call[c].pc = "revoke"
      /\ call[c].cred \in 1..Len(creds)
  BY CallFacts DEF RevokeCredential, At, CallOK, CarriesOK
<1>2. CASE End(c) /\ UNCHANGED <<creds, trouble>>
  BY <1>1, <1>2, CallFacts, EndInv DEF waas
<1>3. CASE /\ creds' = [creds EXCEPT ![call[c].cred].is = "revoked"]
           /\ \/ Goto(c, "batch") /\ UNCHANGED trouble
              \/ Trouble(c)
  <2>1. creds \in Seq(C) /\ Len(creds) <= MaxCredential
    BY DEF IInv, TypeOK
  <2>2. /\ creds' \in Seq(C) /\ Len(creds') = Len(creds)
        /\ \A i \in 1..Len(creds) : creds'[i].key = creds[i].key
        /\ \A i \in 1..Len(creds) : creds'[i].is = "live" => creds[i].is = "live"
    <3> DEFINE i == call[c].cred
    <3> DEFINE r == [creds[i] EXCEPT !.is = "revoked"]
    <3>1. creds' = [creds EXCEPT ![i] = r] /\ r \in C /\ r.key = creds[i].key /\ r.is = "revoked"
      <4>1. creds[i] \in C
        <5> HIDE DEF C
        <5> QED
          BY <1>1, <2>1, CallFacts
      <4>2. r \in C /\ r.key = creds[i].key /\ r.is = "revoked"
        BY <4>1
      <4>3. creds' = [creds EXCEPT ![i] = r]
        BY <1>3
      <4> QED
        BY <4>2, <4>3
    <3> HIDE DEF C, r
    <3>2. creds' \in Seq(C) /\ Len(creds') = Len(creds)
      BY <1>1, <2>1, <3>1
    <3>3. \A j \in 1..Len(creds) : creds'[j] = IF j = i THEN r ELSE creds[j]
      BY <1>1, <2>1, <3>1
    <3> QED
      BY <3>1, <3>2, <3>3
  <2>3. Grows
    BY <1>1, <2>2, CallFacts DEF Grows
  <2>4. WaasOK'
    BY <1>1, <2>2, CallFacts DEF IInv, WaasOK, d1
  <2>5. PICK p \in {"batch", "done"} : Carries(c, p, call[c].key, call[c].cred, call[c].session)
    BY <1>3, CallFacts, GotoFacts DEF Trouble, End, PCs
  <2>6. trouble' \in 0..MaxTrouble
    BY <1>3, ConstantsAssumption, CallFacts DEF Trouble, ConstantsAssumption
  <2>7. CarriesOK(c)'
    BY <1>1, <2>2, <2>5, CallFacts DEF Carries, CallOK, CarriesOK, Is, d1
  <2>8. ApproveOK(c)' /\ DismissOK(c)'
    BY <1>1, <2>3, <2>5, CallFacts, SameSession DEF Carries, CallOK, ApproveOK, DismissOK, Ended, Is, d1
  <2>9. SpendOK(c)'
    BY <1>1, <2>3, <2>5, CallFacts, SameSession DEF Carries, CallOK, SpendOK, d1, Spent, Final, None
  <2>10. /\ sessions' \in Seq([cred : CredIds, for : Approvals, live : BOOLEAN])
         /\ Len(sessions') <= MaxSession /\ chain' \in [Calls -> Statuses \cup {None}]
         /\ \A d \in Calls \ {c} : chain'[d] = chain[d]
    BY <1>1 DEF IInv, TypeOK
  <2> QED
    BY <1>1, <2>1, <2>2, <2>3, <2>4, <2>5, <2>6, <2>7, <2>8, <2>9, <2>10, WaasStep
<1> QED
  BY <1>2, <1>3 DEF RevokeCredential

(* A transaction changes at WaaS.                                           *)
LEMMA ChainStep ==
  ASSUME IInv, NEW c \in Calls, NEW s \in Statuses, chain' = [chain EXCEPT ![c] = s],
         UNCHANGED <<d1, expired, creds, sessions>>, trouble' \in 0..MaxTrouble,
         NEW p, Carries(c, p, call[c].key, call[c].cred, call[c].session),
         CarriesOK(c)', ApproveOK(c)', DismissOK(c)', SpendOK(c)'
  PROVE  IInv'
<1>1. s # None
  BY DEF Statuses, None
<1>2. Grows
  BY <1>1, CallFacts DEF Grows, IInv, TypeOK
<1>3. WaasOK'
  BY DEF IInv, WaasOK, d1
<1>4. /\ creds' \in Seq([key : Keys, is : {"live", "revoked", "lapsed"}]) /\ Len(creds') <= MaxCredential
      /\ sessions' \in Seq([cred : CredIds, for : Approvals, live : BOOLEAN])
      /\ Len(sessions') <= MaxSession
      /\ chain' \in [Calls -> Statuses \cup {None}]
      /\ \A d \in Calls \ {c} : chain'[d] = chain[d]
  BY DEF IInv, TypeOK
<1> QED
  BY <1>2, <1>3, <1>4, WaasStep

LEMMA PrepareInv ==
  ASSUME IInv, NEW c \in Calls, Prepare(c)
  PROVE  IInv'
<1>1. /\ UNCHANGED <<d1, expired, creds, sessions, trouble>> /\ call[c].pc = "prepare" /\ Is(c, "transact")
  BY CallFacts DEF Prepare, At, CallOK, CarriesOK
<1>2. CASE End(c) /\ UNCHANGED <<chain, trouble>>
  BY <1>1, <1>2, CallFacts, EndInv DEF waas
<1>3. CASE /\ Visible(call[c].session, call[c].key)
           /\ chain' = [chain EXCEPT ![c] = "quoted"] /\ Goto(c, "insert")
  <2>1. Carries(c, "insert", call[c].key, call[c].cred, call[c].session)
    BY <1>3, CallFacts, GotoFacts DEF PCs
  <2>2. chain'[c] = "quoted" /\ "quoted" \in Statuses /\ call[c].session # 0
    BY <1>3 DEF IInv, TypeOK, Statuses, Visible
  <2>3. CarriesOK(c)'
    BY <1>1, <2>1, CallFacts DEF Carries, CallOK, CarriesOK, Is, d1
  <2>4. ApproveOK(c)' /\ DismissOK(c)'
    BY <1>1, <2>1 DEF Carries, ApproveOK, DismissOK, Is
  <2>5. SpendOK(c)'
    BY <1>1, <2>1, <2>2 DEF Carries, SpendOK, Spent, Final, None
  <2> QED
    BY <1>1, <1>3, <2>1, <2>2, <2>3, <2>4, <2>5, CallFacts, ChainStep
<1> QED
  BY <1>1, <1>2, <1>3 DEF Prepare

LEMMA ExecuteInv ==
  ASSUME IInv, NEW c \in Calls, Execute(c)
  PROVE  IInv'
<1>1. /\ UNCHANGED <<d1, expired, creds, sessions>> /\ call[c].pc = "execute" /\ Is(c, "transact")
      /\ rows[c] # None \/ KeyOf(call[c].session) < rac.key
      /\ chain[c] # None /\ call[c].session # 0
  BY CallFacts DEF Execute, At, CallOK, CarriesOK, SpendOK
<1>2. PICK p \in {"error", "status"} : Goto(c, p)
  BY DEF Execute
<1>3. Carries(c, p, call[c].key, call[c].cred, call[c].session)
  BY <1>2, CallFacts, GotoFacts DEF PCs
<1>4. trouble' \in 0..MaxTrouble
  BY ConstantsAssumption, CallFacts DEF Execute, ConstantsAssumption
<1>5. CarriesOK(c)'
  BY <1>1, <1>3, CallFacts DEF Carries, CallOK, CarriesOK, Is, d1
<1>6. ApproveOK(c)' /\ DismissOK(c)'
  BY <1>1, <1>3 DEF Carries, ApproveOK, DismissOK, Is
<1>7. CASE chain' = [chain EXCEPT ![c] = "pending"]
  <2>1. chain'[c] = "pending" /\ "pending" \in Statuses /\ "pending" # None
    BY <1>7 DEF IInv, TypeOK, Statuses, None
  <2>2. SpendOK(c)'
    BY <1>1, <1>3, <2>1 DEF Carries, SpendOK, KeyOf, d1
  <2> QED
    BY <1>1, <1>3, <1>4, <1>5, <1>6, <1>7, <2>1, <2>2, ChainStep
<1>8. CASE UNCHANGED chain
  <2>1. SpendOK(c)'
    BY <1>1, <1>3, <1>8 DEF Carries, SpendOK, KeyOf, d1
  <2> QED
    BY <1>1, <1>3, <1>4, <1>5, <1>6, <1>8, <2>1, QuietStep DEF waas
<1> QED
  BY <1>7, <1>8 DEF Execute

-----------------------------------------------------------------------------
(* Steps at D1 *)

LEMMA D1Step ==
  ASSUME IInv, NEW c \in Calls, NEW p, Carries(c, p, call[c].key, call[c].cred, call[c].session),
         UNCHANGED <<expired, waas, trouble>>, rac'.key = rac.key,
         rac' \in [key : Keys, signer : Keys \cup {0}, cred : CredIds \cup {0}],
         rac'.cred <= Len(creds), rac'.signer <= rac.key,
         approvals' \in [Approvals -> [cred : CredIds \cup {0}, is : Decisions]],
         records' \in [Approvals -> [session : SessionIds \cup {0}, dismissed : BOOLEAN]],
         rows' \in [Calls -> Statuses \cup {None}],
         KeepsRequests, \A d \in Calls \ {c} : KeepsRows(d), \A a \in Approvals : RequestOK(a)',
         CarriesOK(c)', ApproveOK(c)', DismissOK(c)', SpendOK(c)'
  PROVE  IInv'
<1>1. \A a \in Approvals : approvals'[a].is # "unused" => approvals'[a].cred # 0
  BY CallFacts DEF RequestOK, waas
<1>2. TypeOK'
  BY <1>1 DEF IInv, TypeOK, Carries, waas
<1>3. Grows
  BY CallFacts DEF Grows, waas
<1>4. WaasOK'
  BY DEF IInv, WaasOK, waas
<1>5. \A d \in Calls \ {c} : call'[d] = call[d]
  BY DEF Carries
<1>6. CallOK(c)'
  BY DEF CallOK
<1> QED
  BY <1>2, <1>3, <1>4, <1>5, <1>6, Others

(* What D1 holds has its type.                                              *)
LEMMA D1Facts ==
  ASSUME IInv
  PROVE  /\ rac \in [key : Keys, signer : Keys \cup {0}, cred : CredIds \cup {0}]
         /\ rac.cred <= Len(creds) /\ rac.signer <= rac.key
         /\ approvals \in [Approvals -> [cred : CredIds \cup {0}, is : Decisions]]
         /\ records \in [Approvals -> [session : SessionIds \cup {0}, dismissed : BOOLEAN]]
         /\ rows \in [Calls -> Statuses \cup {None}]
BY DEF IInv, TypeOK, WaasOK

LEMMA StoreCredentialInv ==
  ASSUME IInv, NEW c \in Calls, StoreCredential(c)
  PROVE  IInv'
<1>1. /\ UNCHANGED <<approvals, records, rows, expired, waas, trouble>> /\ call[c].pc = "store"
      /\ call[c].cred # 0 /\ call[c].cred <= Len(creds) /\ call[c].key <= rac.key
  BY CallFacts DEF StoreCredential, At, CallOK, CarriesOK
<1>2. /\ rac' \in [key : Keys, signer : Keys \cup {0}, cred : CredIds \cup {0}]
      /\ rac'.key = rac.key /\ rac'.signer = call[c].key /\ rac'.cred = call[c].cred
  <2>1. rac' = [rac EXCEPT !.signer = call[c].key, !.cred = call[c].cred]
    BY DEF StoreCredential
  <2>2. call[c].key \in Keys \cup {0} /\ call[c].cred \in CredIds \cup {0}
    BY CallFacts DEF CallRec
  <2> QED
    BY <2>1, <2>2, D1Facts
<1>3. Carries(c, "go", call[c].key, call[c].cred, call[c].session)
  BY CallFacts, GotoFacts DEF StoreCredential, PCs
<1>4. CarriesOK(c)'
  BY <1>1, <1>2, <1>3, CallFacts DEF Carries, CallOK, CarriesOK, Is, waas
<1>5. ApproveOK(c)' /\ DismissOK(c)'
  BY <1>1, <1>3, CallFacts DEF Carries, CallOK, ApproveOK, DismissOK, Ended, Is, waas
<1>6. SpendOK(c)'
  BY <1>1, <1>2, <1>3, CallFacts DEF Carries, CallOK, SpendOK, KeyOf, waas
<1>7. KeepsRequests /\ \A d \in Calls : KeepsRows(d)
  BY <1>1 DEF KeepsRequests, KeepsRows, waas
<1>8. ASSUME NEW a \in Approvals PROVE RequestOK(a)'
  BY <1>1, <1>2 DEF IInv, RequestOK, KeyOf, Visible, waas
<1> QED
  BY <1>1, <1>2, <1>3, <1>4, <1>5, <1>6, <1>7, <1>8, D1Facts, D1Step

LEMMA CreateApprovalInv ==
  ASSUME IInv, NEW c \in Calls, CreateApproval(c)
  PROVE  IInv'
<1> DEFINE a == call[c].for
<1>1. /\ UNCHANGED <<rac, records, rows, expired, waas, trouble>> /\ call[c].pc = "go"
      /\ Is(c, "create") /\ call[c].cred \in 1..Len(creds) /\ call[c].cred \in CredIds \cup {0}
  BY CallFacts DEF CreateApproval, At, CallOK, CarriesOK, CallRec
<1>2. Carries(c, "done", call[c].key, call[c].cred, call[c].session)
  BY CallFacts, GotoFacts DEF CreateApproval, End, PCs
<1>3. \/ UNCHANGED approvals
      \/ /\ approvals[a].is = "unused"
         /\ approvals' = [approvals EXCEPT ![a] = [cred |-> call[c].cred, is |-> "pending"]]
  BY DEF CreateApproval
<1>4. approvals' \in [Approvals -> [cred : CredIds \cup {0}, is : Decisions]]
  <2>1. [cred |-> call[c].cred, is |-> "pending"] \in [cred : CredIds \cup {0}, is : Decisions]
    BY <1>1 DEF Decisions
  <2> QED
    BY <1>3, <2>1, D1Facts
<1>5. CarriesOK(c)' /\ ApproveOK(c)' /\ DismissOK(c)'
  BY <1>1, <1>2, CallFacts DEF Carries, CallOK, CarriesOK, ApproveOK, DismissOK, Is, waas
<1>6. SpendOK(c)'
  BY <1>1, <1>2, CallFacts DEF Carries, CallOK, SpendOK, KeyOf, waas
<1>7. KeepsRequests /\ \A d \in Calls : KeepsRows(d)
  BY <1>1, <1>3, D1Facts DEF KeepsRequests, KeepsRows, waas
<1>8. ASSUME NEW b \in Approvals PROVE RequestOK(b)'
  BY <1>1, <1>3, D1Facts DEF IInv, RequestOK, KeyOf, Visible, waas
<1> QED
  BY <1>1, <1>2, <1>4, <1>5, <1>6, <1>7, <1>8, D1Facts, D1Step

LEMMA ApproveInv ==
  ASSUME IInv, NEW c \in Calls, Approve(c)
  PROVE  IInv'
<1> DEFINE a == call[c].for
<1> DEFINE s == call[c].session
<1>1. /\ UNCHANGED <<rac, rows, expired, waas, trouble>> /\ call[c].pc = "commit" /\ Is(c, "approve")
      /\ s \in 1..Len(sessions) /\ s \in SessionIds \cup {0} /\ s # 0 /\ sessions[s].for = a
      /\ KeyOf(s) = rac.key \/ Ended(c)
  <2>1. UNCHANGED <<rac, rows, expired, waas, trouble>> /\ call[c].pc = "commit" /\ Is(c, "approve")
    BY DEF Approve, At
  <2>2. s # 0 /\ sessions[s].for = a /\ (KeyOf(s) = rac.key \/ Ended(c))
    BY <2>1, CallFacts DEF CallOK, ApproveOK
  <2>3. s \in Nat /\ s <= Len(sessions) /\ s \in SessionIds \cup {0}
    BY CallFacts DEF CallOK, CarriesOK, CallRec
  <2> QED
    BY <2>1, <2>2, <2>3, CallFacts
<1>2. Carries(c, "done", call[c].key, call[c].cred, call[c].session)
  BY CallFacts, GotoFacts DEF Approve, End, PCs
<1>3. \/ UNCHANGED <<approvals, records>>
      \/ /\ Undecided(a)
         /\ approvals' = [approvals EXCEPT ![a].is = "approved"]
         /\ records' = [records EXCEPT ![a].session = s]
  BY DEF Approve
<1>4. /\ approvals' \in [Approvals -> [cred : CredIds \cup {0}, is : Decisions]]
      /\ records' \in [Approvals -> [session : SessionIds \cup {0}, dismissed : BOOLEAN]]
  <2>1. "approved" \in Decisions
    BY DEF Decisions
  <2>2. approvals' \in [Approvals -> [cred : CredIds \cup {0}, is : Decisions]]
    <3>1. UNCHANGED approvals \/ approvals' = [approvals EXCEPT ![a].is = "approved"]
      BY <1>3
    <3> QED
      BY <2>1, <3>1, D1Facts
  <2>3. records' \in [Approvals -> [session : SessionIds \cup {0}, dismissed : BOOLEAN]]
    <3>1. UNCHANGED records \/ records' = [records EXCEPT ![a].session = s]
      BY <1>3
    <3>2. s \in SessionIds \cup {0}
      BY <1>1
    <3> HIDE DEF s
    <3> QED
      BY <3>1, <3>2, D1Facts
  <2> QED
    BY <2>2, <2>3
<1>5. CarriesOK(c)' /\ ApproveOK(c)' /\ DismissOK(c)'
  BY <1>1, <1>2, CallFacts DEF Carries, CallOK, CarriesOK, ApproveOK, DismissOK, Is, waas
<1>6. SpendOK(c)'
  BY <1>1, <1>2, CallFacts DEF Carries, CallOK, SpendOK, KeyOf, waas
<1>7. RequestOK(a)
  BY CallFacts DEF IInv
<1>8. CASE UNCHANGED <<approvals, records>>
  <2>1. KeepsRequests /\ \A d \in Calls : KeepsRows(d)
    BY <1>1, <1>8 DEF KeepsRequests, KeepsRows, waas
  <2>2. ASSUME NEW b \in Approvals PROVE RequestOK(b)'
    BY <1>1, <1>8 DEF IInv, RequestOK, KeyOf, Visible, waas
  <2> QED
    BY <1>1, <1>2, <1>4, <1>5, <1>6, <2>1, <2>2, D1Facts, D1Step
<1>9. CASE /\ Undecided(a)
           /\ approvals' = [approvals EXCEPT ![a].is = "approved"]
           /\ records' = [records EXCEPT ![a].session = s]
  <2>1. records[a].session = 0 /\ ~records[a].dismissed /\ KeyOf(s) = rac.key
    BY <1>1, <1>7, <1>9, CallFacts, D1Facts DEF RequestOK, Undecided, Ended
  <2>2. /\ approvals'[a].is = "approved" /\ approvals'[a].cred = approvals[a].cred
        /\ records'[a].session = s /\ records'[a].dismissed = records[a].dismissed
        /\ \A b \in Approvals \ {a} : approvals'[b] = approvals[b] /\ records'[b] = records[b]
    BY <1>9, CallFacts, D1Facts
  <2>3. KeepsRequests /\ \A d \in Calls : KeepsRows(d)
    BY <1>1, <1>9, <2>1, <2>2 DEF KeepsRequests, KeepsRows, Undecided, waas
  <2>4. ASSUME NEW b \in Approvals PROVE RequestOK(b)'
    <3>1. CASE b = a
      BY <1>1, <1>7, <1>9, <2>1, <2>2, <3>1 DEF RequestOK, Undecided, KeyOf, waas
    <3>2. CASE b # a
      BY <1>1, <2>2, <3>2 DEF IInv, RequestOK, KeyOf, Visible, waas
    <3> QED
      BY <3>1, <3>2
  <2> QED
    BY <1>1, <1>2, <1>4, <1>5, <1>6, <2>3, <2>4, D1Facts, D1Step
<1> QED
  BY <1>3, <1>8, <1>9

LEMMA RejectInv ==
  ASSUME IInv, NEW c \in Calls, Reject(c)
  PROVE  IInv'
<1> DEFINE a == call[c].for
<1>1. /\ UNCHANGED <<rac, records, rows, expired, waas, trouble>> /\ Is(c, "reject")
  BY DEF Reject
<1>2. Carries(c, "done", call[c].key, call[c].cred, call[c].session)
  BY CallFacts, GotoFacts DEF Reject, End, PCs
<1>3. UNCHANGED approvals \/ (Undecided(a) /\ approvals' = [approvals EXCEPT ![a].is = "rejected"])
  BY DEF Reject
<1>4. approvals' \in [Approvals -> [cred : CredIds \cup {0}, is : Decisions]]
  BY <1>3, D1Facts DEF Decisions
<1>5. CarriesOK(c)' /\ ApproveOK(c)' /\ DismissOK(c)'
  BY <1>1, <1>2, CallFacts DEF Carries, CallOK, CarriesOK, ApproveOK, DismissOK, Is, waas
<1>6. SpendOK(c)'
  BY <1>1, <1>2, CallFacts DEF Carries, CallOK, SpendOK, KeyOf, waas, Reject, At, Is
<1>7. KeepsRequests /\ \A d \in Calls : KeepsRows(d)
  BY <1>1, <1>3, D1Facts DEF KeepsRequests, KeepsRows, Undecided, waas
<1>8. ASSUME NEW b \in Approvals PROVE RequestOK(b)'
  BY <1>1, <1>3, D1Facts DEF IInv, RequestOK, KeyOf, Undecided, Visible, waas
<1> QED
  BY <1>1, <1>2, <1>4, <1>5, <1>6, <1>7, <1>8, D1Facts, D1Step

LEMMA InsertInv ==
  ASSUME IInv, NEW c \in Calls, Insert(c)
  PROVE  IInv'
<1>1. /\ UNCHANGED <<rac, approvals, records, expired, waas, trouble>> /\ call[c].pc = "insert"
      /\ Is(c, "transact") /\ chain[c] # None /\ call[c].session # 0
  BY CallFacts DEF Insert, At, CallOK, CarriesOK, SpendOK
<1>2. PICK p \in {"done", "execute"} :
        /\ Goto(c, p)
        /\ p = "done" => UNCHANGED rows
        /\ p = "execute" => rows' = [rows EXCEPT ![c] = "quoted"]
  BY DEF Insert, End
<1>3. Carries(c, p, call[c].key, call[c].cred, call[c].session)
  BY <1>2, CallFacts, GotoFacts DEF PCs
<1>4. rows' \in [Calls -> Statuses \cup {None}]
  BY <1>2, D1Facts DEF Statuses
<1>5. CarriesOK(c)' /\ ApproveOK(c)' /\ DismissOK(c)'
  BY <1>1, <1>3, CallFacts DEF Carries, CallOK, CarriesOK, ApproveOK, DismissOK, Is, waas
<1>6. SpendOK(c)'
  BY <1>1, <1>2, <1>3, CallFacts, D1Facts
  DEF Carries, CallOK, SpendOK, KeyOf, waas, Spent, Final, None
<1>7. KeepsRequests /\ \A d \in Calls \ {c} : KeepsRows(d)
  BY <1>1, <1>2, D1Facts DEF KeepsRequests, KeepsRows, waas
<1>8. ASSUME NEW b \in Approvals PROVE RequestOK(b)'
  BY <1>1 DEF IInv, RequestOK, KeyOf, Visible, waas
<1> QED
  BY <1>1, <1>3, <1>4, <1>5, <1>6, <1>7, <1>8, D1Facts, D1Step

LEMMA WriteInv ==
  ASSUME IInv, NEW c \in Calls, Write(c)
  PROVE  IInv'
<1>1. UNCHANGED <<rac, approvals, records, expired, waas, trouble>>
  BY DEF Write
<1>2. Carries(c, "done", call[c].key, call[c].cred, call[c].session)
  BY CallFacts, GotoFacts DEF Write, End, PCs
<1>3. PICK t \in Calls : /\ call[c].pc = "write" \/ call[c].pc = "error"
                         /\ rows' = IF At(c, "write") /\ rows[t] # None
                                      THEN [rows EXCEPT ![t] = call[c].status] ELSE rows
  BY CallFacts DEF Write, At
<1>4. call[c].pc = "write" => call[c].status \in Statuses /\ call[c].status # None
  BY CallFacts DEF CallOK, CarriesOK, CallRec
<1>5. rows' \in [Calls -> Statuses \cup {None}] /\ \A d \in Calls : rows[d] # None <=> rows'[d] # None
  BY <1>3, <1>4, D1Facts DEF At
<1>6. CarriesOK(c)' /\ ApproveOK(c)' /\ DismissOK(c)'
  BY <1>1, <1>2, CallFacts DEF Carries, CallOK, CarriesOK, ApproveOK, DismissOK, Is, waas
<1>7. SpendOK(c)'
  BY <1>1, <1>2, <1>3, <1>5, CallFacts DEF Carries, CallOK, SpendOK, KeyOf, waas
<1>8. KeepsRequests /\ \A d \in Calls : KeepsRows(d)
  BY <1>1, <1>5 DEF KeepsRequests, KeepsRows, waas
<1>9. ASSUME NEW b \in Approvals PROVE RequestOK(b)'
  BY <1>1 DEF IInv, RequestOK, KeyOf, Visible, waas
<1> QED
  BY <1>1, <1>2, <1>5, <1>6, <1>7, <1>8, <1>9, D1Facts, D1Step

LEMMA DismissSessionInv ==
  ASSUME IInv, NEW c \in Calls, DismissSession(c)
  PROVE  IInv'
<1> DEFINE a == call[c].for
<1>1. /\ UNCHANGED <<rac, approvals, rows, expired, waas, trouble>> /\ call[c].pc = "commit"
      /\ Is(c, "dismiss")
      /\ Ended(c) \/ (records[a].session = call[c].session /\ ~Visible(call[c].session, rac.key))
  BY CallFacts DEF DismissSession, At, CallOK, DismissOK
<1>2. Carries(c, "done", call[c].key, call[c].cred, call[c].session)
  BY CallFacts, GotoFacts DEF DismissSession, End, PCs
<1>3. UNCHANGED records \/ (Recorded(a) /\ records' = [records EXCEPT ![a].dismissed = TRUE])
  BY DEF DismissSession
<1>4. /\ records' \in [Approvals -> [session : SessionIds \cup {0}, dismissed : BOOLEAN]]
      /\ \A b \in Approvals : /\ records'[b].session = records[b].session
                              /\ b # a \/ ~Recorded(a) => records'[b].dismissed = records[b].dismissed
  <2>1. CASE UNCHANGED records
    BY <2>1, D1Facts
  <2>2. CASE Recorded(a) /\ records' = [records EXCEPT ![a].dismissed = TRUE]
    BY <2>2, D1Facts, CallFacts
  <2> QED
    BY <1>3, <2>1, <2>2
<1>5. CarriesOK(c)' /\ ApproveOK(c)' /\ DismissOK(c)'
  BY <1>1, <1>2, CallFacts DEF Carries, CallOK, CarriesOK, ApproveOK, DismissOK, Is, waas
<1>6. SpendOK(c)'
  BY <1>1, <1>2, CallFacts DEF Carries, CallOK, SpendOK, KeyOf, waas
<1>7. KeepsRequests /\ \A d \in Calls : KeepsRows(d)
  BY <1>1, <1>4 DEF KeepsRequests, KeepsRows, waas
<1>8. ASSUME NEW b \in Approvals PROVE RequestOK(b)'
  <2>1. RequestOK(b)
    BY DEF IInv
  <2>2. b = a /\ Recorded(a) => records[b].session # 0 /\ ~Visible(records[b].session, rac.key)
    BY <1>1, <2>1, CallFacts DEF RequestOK, Recorded, Ended
  <2> QED
    BY <1>1, <1>4, <2>1, <2>2 DEF RequestOK, KeyOf, Visible, waas
<1> QED
  BY <1>1, <1>2, <1>4, <1>5, <1>6, <1>7, <1>8, D1Facts, D1Step

-----------------------------------------------------------------------------
(* A rotation ends what was under way with the old key. *)

LEMMA CredKeys ==
  ASSUME IInv, NEW i \in 1..Len(creds)
  PROVE  creds[i].key \in Keys /\ creds[i].key \in Nat /\ creds[i].key <= rac.key
<1> DEFINE C == [key : Keys, is : {"live", "revoked", "lapsed"}]
<1>1. creds \in Seq(C) /\ i \in DOMAIN creds
  BY DEF IInv, TypeOK
<1>2. creds[i] \in C
  <2> HIDE DEF C
  <2> QED
    BY <1>1
<1> QED
  BY <1>1, <1>2 DEF IInv, WaasOK, Keys

LEMMA SessionKeys ==
  ASSUME IInv, NEW s \in 1..Len(sessions)
  PROVE  KeyOf(s) \in Nat /\ KeyOf(s) <= rac.key
<1>1. s \in DOMAIN sessions
  BY DEF IInv, TypeOK
<1>2. sessions[s].cred \in 1..Len(creds)
  BY <1>1 DEF IInv, WaasOK
<1> QED
  BY <1>2, CredKeys DEF KeyOf

LEMMA RotateKeyInv ==
  ASSUME IInv, NEW c \in Calls, RotateKey(c)
  PROVE  IInv'
<1>1. /\ UNCHANGED <<expired, waas, trouble>> /\ call[c].pc = "batch"
      /\ rac' = [key |-> rac.key + 1, signer |-> 0, cred |-> 0] /\ rac.key + 1 \in Keys
      /\ rows' = [t \in Calls |-> None]
      /\ records' = [a \in Approvals |-> [session |-> 0, dismissed |-> FALSE]]
      /\ approvals' = [a \in Approvals |-> IF approvals[a].is = "unused" THEN approvals[a]
                                          ELSE [approvals[a] EXCEPT !.is = "deleted"]]
  BY DEF RotateKey, At
<1>2. Carries(c, "key", call[c].key, call[c].cred, call[c].session)
  BY CallFacts, GotoFacts DEF RotateKey, PCs
<1>3. rac'.key = rac.key + 1 /\ rac'.cred = 0 /\ rac'.signer = 0
  BY <1>1
<1>4. \A a \in Approvals : /\ approvals'[a] \in [cred : CredIds \cup {0}, is : Decisions]
                           /\ approvals'[a].cred = approvals[a].cred
                           /\ approvals[a].is = "unused" <=> approvals'[a].is = "unused"
                           /\ approvals[a].is # "unused" <=> approvals'[a].is = "deleted"
  BY <1>1, D1Facts DEF Decisions
<1>5. TypeOK'
  <2>1. rac' \in [key : Keys, signer : Keys \cup {0}, cred : CredIds \cup {0}]
    BY <1>1
  <2>2. approvals' \in [Approvals -> [cred : CredIds \cup {0}, is : Decisions]]
    <3> DEFINE A == [cred : CredIds \cup {0}, is : Decisions]
    <3>1. \A a \in Approvals : approvals'[a] \in A
      BY <1>4
    <3>2. approvals' = [a \in Approvals |-> approvals'[a]]
      BY <1>1
    <3>3. approvals' \in [Approvals -> A]
      <4> HIDE DEF A
      <4> QED
        BY <3>1, <3>2
    <3> QED
      BY <3>3
  <2>3. records' \in [Approvals -> [session : SessionIds \cup {0}, dismissed : BOOLEAN]]
    BY <1>1
  <2>4. rows' \in [Calls -> Statuses \cup {None}]
    BY <1>1
  <2> QED
    BY <1>1, <1>2, <1>4, <2>1, <2>2, <2>3, <2>4 DEF IInv, TypeOK, Carries, waas
<1>6. WaasOK'
  <2>1. \A i \in DOMAIN creds : creds[i].key <= rac.key + 1
    <3>1. DOMAIN creds = 1..Len(creds) /\ rac.key \in Nat
      BY DEF IInv, TypeOK, Keys
    <3> QED
      BY <3>1, CredKeys
  <2>2. 0 <= Len(creds) /\ 0 <= rac.key + 1
    BY DEF IInv, TypeOK, Keys
  <2> QED
    BY <1>1, <1>3, <2>1, <2>2 DEF IInv, WaasOK, waas
<1>7. ASSUME NEW a \in Approvals PROVE RequestOK(a)'
  <2>1. records'[a].session = 0 /\ ~records'[a].dismissed /\ approvals'[a].is # "approved"
    BY <1>1, <1>4
  <2> QED
    BY <1>1, <1>4, <2>1 DEF IInv, RequestOK, waas
<1>8. ASSUME NEW d \in Calls PROVE CallOK(d)'
  <2>1. /\ call[d].for \in Approvals /\ CallOK(d) /\ call[d].key \in Nat
        /\ call[d].session \in Nat /\ rac.key \in Nat /\ Len(sessions) \in Nat
    BY CallFacts
  <2>2. /\ call'[d].kind = call[d].kind /\ call'[d].for = call[d].for /\ call'[d].of = call[d].of
        /\ call'[d].key = call[d].key /\ call'[d].cred = call[d].cred
        /\ call'[d].session = call[d].session
        /\ call'[d] = call[d] \/ (call[d].pc = "batch" /\ call'[d].pc = "key")
    BY <1>1, <1>2 DEF Carries
  <2>3. call[d].pc # "start" /\ call[d].pc # "done" /\ approvals[call[d].for].is # "unused" => Ended(d)'
    <3>1. approvals[call[d].for].is # "unused" => approvals'[call[d].for].is = "deleted"
      BY <1>4, <2>1
    <3> QED
      BY <2>2, <3>1 DEF Ended
  <2>4. CarriesOK(d)'
    BY <1>1, <1>3, <2>1, <2>2 DEF CallOK, CarriesOK, Is, waas
  <2>5. ApproveOK(d)'
    BY <1>1, <1>4, <2>1, <2>2, <2>3 DEF CallOK, ApproveOK, Is, waas
  <2>6. DismissOK(d)'
    <3>1. Is(d, "dismiss") /\ call[d].pc \notin {"start", "done"} =>
            approvals[call[d].for].is # "unused"
      BY <2>1 DEF CallOK, DismissOK, Ended, IInv, RequestOK
    <3> QED
      BY <2>2, <2>3, <3>1 DEF DismissOK, Is
  <2>7. SpendOK(d)'
    <3>1. call[d].session # 0 => KeyOf(call[d].session) < rac.key + 1
      <4>1. call[d].session # 0 => call[d].session \in 1..Len(sessions)
        BY <2>1 DEF CallOK, CarriesOK
      <4> QED
        BY <2>1, <4>1, SessionKeys
    <3>2. rows'[d] = None
      BY <1>1
    <3> QED
      BY <1>1, <1>3, <2>1, <2>2, <3>1, <3>2 DEF CallOK, SpendOK, KeyOf, waas, Spent, Final, None
  <2> QED
    BY <2>4, <2>5, <2>6, <2>7 DEF CallOK
<1> QED
  BY <1>5, <1>6, <1>7, <1>8 DEF IInv

-----------------------------------------------------------------------------
(* WaaS and time *)

LEMMA Background ==
  ASSUME IInv, TypeOK', Grows, UNCHANGED <<d1, call, trouble>>, WaasOK',
         \A t \in Calls : /\ chain'[t] # None => chain[t] # None
                          /\ chain'[t] \in Spent => chain[t] \in Spent
  PROVE  IInv'
<1>1. KeepsRequests /\ rac'.key = rac.key /\ \A d \in Calls : call'[d] = call[d] /\ KeepsRows(d)
  BY DEF KeepsRequests, KeepsRows, d1
<1>2. \A d \in Calls : CallOK(d)'
  BY <1>1, OtherCall
<1> QED
  BY <1>2, RequestsKept DEF IInv

LEMMA RevokeSessionInv ==
  ASSUME IInv, RevokeSession
  PROVE  IInv'
<1> DEFINE S == [cred : CredIds, for : Approvals, live : BOOLEAN]
<1>1. UNCHANGED <<d1, expired, creds, chain, call, trouble>>
  BY DEF RevokeSession
<1>2. sessions \in Seq(S) /\ Len(sessions) <= MaxSession
  BY DEF IInv, TypeOK
<1>3. PICK i \in 1..Len(sessions) : sessions' = [sessions EXCEPT ![i].live = FALSE]
  <2>1. PICK i \in DOMAIN sessions : sessions' = [sessions EXCEPT ![i].live = FALSE]
    BY DEF RevokeSession
  <2>2. i \in 1..Len(sessions)
    <3> HIDE DEF S
    <3> QED
      BY <1>2
  <2> QED
    BY <2>1, <2>2
<1>4. /\ sessions' \in Seq(S) /\ Len(sessions') = Len(sessions)
      /\ \A j \in 1..Len(sessions) : /\ sessions'[j].cred = sessions[j].cred
                                     /\ sessions'[j].for = sessions[j].for
                                     /\ sessions'[j].live => sessions[j].live
  <2> DEFINE r == [sessions[i] EXCEPT !.live = FALSE]
  <2>1. sessions[i] \in S
    <3> HIDE DEF S
    <3> QED
      BY <1>2
  <2>2. r \in S /\ r.cred = sessions[i].cred /\ r.for = sessions[i].for /\ ~r.live
    BY <2>1
  <2>3. sessions' = [sessions EXCEPT ![i] = r]
    BY <1>3
  <2> HIDE DEF S, r
  <2>4. sessions' \in Seq(S) /\ Len(sessions') = Len(sessions)
    BY <1>2, <2>2, <2>3
  <2>5. \A j \in 1..Len(sessions) : sessions'[j] = IF j = i THEN r ELSE sessions[j]
    BY <1>2, <2>3
  <2> QED
    BY <2>2, <2>4, <2>5
<1>5. Grows
  BY <1>1, <1>4, CallFacts DEF Grows
<1>6. TypeOK'
  BY <1>1, <1>2, <1>4 DEF IInv, TypeOK, d1
<1>7. WaasOK'
  <2>1. DOMAIN sessions = 1..Len(sessions) /\ DOMAIN sessions' = 1..Len(sessions)
    <3> HIDE DEF S
    <3> QED
      BY <1>2, <1>4
  <2> QED
    BY <1>1, <1>4, <2>1 DEF IInv, WaasOK, d1
<1> QED
  BY <1>1, <1>5, <1>6, <1>7, Background

LEMMA RequestExpiresInv ==
  ASSUME IInv, RequestExpires
  PROVE  IInv'
<1>1. UNCHANGED <<d1, waas, call, trouble>> /\ expired \subseteq expired' /\ expired' \subseteq Approvals
  BY DEF RequestExpires, IInv, TypeOK
<1>2. Grows
  BY <1>1 DEF Grows, waas, IInv, TypeOK
<1>3. TypeOK' /\ WaasOK'
  BY <1>1 DEF IInv, TypeOK, WaasOK, d1, waas
<1> QED
  BY <1>1, <1>2, <1>3, Background DEF waas

LEMMA CredentialExpiresInv ==
  ASSUME IInv, CredentialExpires
  PROVE  IInv'
<1> DEFINE C == [key : Keys, is : {"live", "revoked", "lapsed"}]
<1>1. UNCHANGED <<d1, sessions, chain, call, trouble>>
  BY DEF CredentialExpires
<1>2. creds \in Seq(C) /\ Len(creds) <= MaxCredential
  BY DEF IInv, TypeOK
<1>3. PICK i \in 1..Len(creds) :
        /\ creds' = [creds EXCEPT ![i].is = "lapsed"]
        /\ expired \subseteq expired' /\ expired' \subseteq Approvals
  <2>1. PICK i \in DOMAIN creds :
          /\ creds' = [creds EXCEPT ![i].is = "lapsed"]
          /\ expired' = expired \cup {a \in Approvals : approvals[a].cred = i}
    BY DEF CredentialExpires
  <2>2. i \in 1..Len(creds)
    <3> HIDE DEF C
    <3> QED
      BY <1>2
  <2>3. expired \subseteq Approvals
    BY DEF IInv, TypeOK
  <2> QED
    BY <2>1, <2>2, <2>3
<1>4. /\ creds' \in Seq(C) /\ Len(creds') = Len(creds)
      /\ \A j \in 1..Len(creds) : /\ creds'[j].key = creds[j].key
                                  /\ creds'[j].is = "live" => creds[j].is = "live"
  <2> DEFINE r == [creds[i] EXCEPT !.is = "lapsed"]
  <2>1. creds[i] \in C
    <3> HIDE DEF C
    <3> QED
      BY <1>2
  <2>2. r \in C /\ r.key = creds[i].key /\ r.is = "lapsed"
    BY <2>1
  <2>3. creds' = [creds EXCEPT ![i] = r]
    BY <1>3
  <2> HIDE DEF C, r
  <2>4. creds' \in Seq(C) /\ Len(creds') = Len(creds)
    BY <1>2, <2>2, <2>3
  <2>5. \A j \in 1..Len(creds) : creds'[j] = IF j = i THEN r ELSE creds[j]
    BY <1>2, <2>3
  <2> QED
    BY <2>2, <2>4, <2>5
<1>5. Grows
  BY <1>1, <1>3, <1>4, CallFacts DEF Grows, IInv, TypeOK
<1>6. TypeOK' /\ WaasOK'
  BY <1>1, <1>2, <1>3, <1>4 DEF IInv, TypeOK, WaasOK, d1
<1> QED
  BY <1>1, <1>5, <1>6, Background

LEMMA ProgressInv ==
  ASSUME IInv, Progress
  PROVE  IInv'
<1>1. UNCHANGED <<d1, expired, creds, sessions, call, trouble>>
  BY DEF Progress
<1>2. PICK t \in Calls, s \in Final : chain[t] = "pending" /\ chain' = [chain EXCEPT ![t] = s]
  BY DEF Progress
<1>3. /\ chain' \in [Calls -> Statuses \cup {None}]
      /\ \A d \in Calls : /\ chain'[d] # None <=> chain[d] # None
                          /\ chain'[d] \in Spent <=> chain[d] \in Spent
  BY <1>2 DEF IInv, TypeOK, Statuses, Final, Spent, None
<1>4. Grows
  BY <1>1, <1>3 DEF Grows, IInv, TypeOK
<1>5. TypeOK' /\ WaasOK'
  BY <1>1, <1>3 DEF IInv, TypeOK, WaasOK, d1
<1> QED
  BY <1>1, <1>3, <1>4, <1>5, Background

-----------------------------------------------------------------------------
(* The specification *)

LEMMA InitInv ==
  ASSUME Init
  PROVE  IInv
<1> DEFINE approved == {a \in Approvals : approvals[a].is = "approved"}
<1>1. /\ rac = [key |-> 1, signer |-> 1, cred |-> 1] /\ creds = <<[key |-> 1, is |-> "live"]>>
      /\ approvals \in [Approvals -> InitialApproval]
      /\ \A a, b \in approved : a = b
      /\ records = [a \in Approvals |-> [session |-> IF a \in approved THEN 1 ELSE 0,
                                        dismissed |-> FALSE]]
      /\ rows = [t \in Calls |-> None] /\ chain = [t \in Calls |-> None]
      /\ expired = {} /\ trouble = 0
  BY DEF Init
<1>2. 1 \in Keys /\ 1 \in CredIds /\ 1 \in SessionIds /\ 1 <= MaxCredential /\ 1 <= MaxSession
  BY ConstantsAssumption DEF ConstantsAssumption, Keys, CredIds, SessionIds
<1>3. PICK kind \in Scripts, for \in [Calls -> Approvals], of \in [Calls -> Calls] :
        call = [c \in Calls |-> [kind |-> kind[c], pc |-> "start", for |-> for[c], of |-> of[c],
                                 key |-> 0, cred |-> 0, session |-> 0, status |-> None]]
  <2>1. \E kind \in Scripts, for \in [Calls -> Approvals], of \in [Calls -> Calls] :
          /\ \A c \in Calls : of[c] = c \/ (kind[c] = "refresh" /\ kind[of[c]] = "transact")
          /\ call = [c \in Calls |-> [kind |-> kind[c], pc |-> "start", for |-> for[c], of |-> of[c],
                                      key |-> 0, cred |-> 0, session |-> 0, status |-> None]]
    BY DEF Init
  <2> QED
    BY <2>1
<1>4. call \in [Calls -> CallRec]
  <2>1. \A c \in Calls : kind[c] \in Kinds
    BY ConstantsAssumption DEF ConstantsAssumption
  <2> QED
    BY <1>3, <2>1 DEF CallRec, PCs
<1>5. \A a \in Approvals : /\ approvals[a] \in [cred : CredIds \cup {0}, is : Decisions]
                           /\ approvals[a].is # "unused" => approvals[a].cred = 1
  BY <1>1, <1>2 DEF InitialApproval, Decisions
<1>6. \/ approved = {} /\ sessions = <<>>
      \/ \E a \in approved : sessions = <<[cred |-> 1, for |-> a, live |-> TRUE]>>
  BY DEF Init
<1>7. /\ sessions \in Seq([cred : CredIds, for : Approvals, live : BOOLEAN])
      /\ Len(sessions) <= MaxSession
      /\ \A s \in 1..Len(sessions) : s = 1 /\ sessions[s].cred = 1 /\ sessions[s].for \in approved
      /\ approved # {} => Len(sessions) = 1
  <2>1. CASE approved = {} /\ sessions = <<>>
    BY <2>1, ConstantsAssumption DEF ConstantsAssumption
  <2>2. ASSUME NEW a \in approved, sessions = <<[cred |-> 1, for |-> a, live |-> TRUE]>>
        PROVE  /\ sessions \in Seq([cred : CredIds, for : Approvals, live : BOOLEAN])
               /\ Len(sessions) = 1 /\ sessions[1].cred = 1 /\ sessions[1].for = a
    <3>1. [cred |-> 1, for |-> a, live |-> TRUE] \in [cred : CredIds, for : Approvals, live : BOOLEAN]
      BY <1>2
    <3> QED
      BY <2>2, <3>1
  <2>3. \A s \in 1..1 : s = 1
    OBVIOUS
  <2> QED
    BY <1>2, <1>6, <2>1, <2>2, <2>3
<1>8. /\ creds \in Seq([key : Keys, is : {"live", "revoked", "lapsed"}])
      /\ Len(creds) = 1 /\ creds[1].key = 1
  BY <1>1, <1>2
<1>9. TypeOK
  <2>1. rac \in [key : Keys, signer : Keys \cup {0}, cred : CredIds \cup {0}]
    BY <1>1, <1>2
  <2>2. records \in [Approvals -> [session : SessionIds \cup {0}, dismissed : BOOLEAN]]
    BY <1>1, <1>2
  <2>3. approvals \in [Approvals -> [cred : CredIds \cup {0}, is : Decisions]]
    <3> DEFINE A == [cred : CredIds \cup {0}, is : Decisions]
    <3>1. \A a \in Approvals : approvals[a] \in A
      BY <1>5
    <3>2. approvals \in [Approvals -> A]
      <4> HIDE DEF A
      <4> QED
        BY <1>1, <3>1
    <3> QED
      BY <3>2
  <2>4. trouble \in 0..MaxTrouble
    BY <1>1, ConstantsAssumption DEF ConstantsAssumption
  <2> QED
    BY <1>1, <1>2, <1>4, <1>5, <1>7, <1>8, <2>1, <2>2, <2>3, <2>4 DEF TypeOK
<1>10. WaasOK
  BY <1>1, <1>7, <1>8 DEF WaasOK
<1>11. ASSUME NEW a \in Approvals PROVE RequestOK(a)
  <2>1. records[a].session = (IF a \in approved THEN 1 ELSE 0) /\ ~records[a].dismissed
    BY <1>1
  <2> QED
    <3>1. CASE a \in approved
      <4>1. Len(sessions) = 1 /\ 1 \in 1..Len(sessions)
        <5>1. approved # {}
          BY <3>1
        <5> HIDE DEF approved
        <5> QED
          BY <1>7, <5>1
      <4>2. sessions[1].cred = 1 /\ sessions[1].for = a
        BY <1>1, <1>7, <3>1, <4>1
      <4> QED
        BY <1>1, <1>5, <1>8, <2>1, <3>1, <4>1, <4>2 DEF RequestOK, KeyOf
    <3>2. CASE a \notin approved
      BY <1>5, <1>8, <2>1, <3>2 DEF RequestOK
    <3> QED
      BY <3>1, <3>2
<1>12. ASSUME NEW c \in Calls PROVE CallOK(c)
  <2>1. call[c].pc = "start" /\ call[c].key = 0 /\ call[c].cred = 0 /\ call[c].session = 0
    BY <1>3
  <2>2. rows[c] = None /\ chain[c] = None
    BY <1>1
  <2> QED
    BY <1>1, <1>7, <1>8, <2>1, <2>2
    DEF CallOK, CarriesOK, ApproveOK, DismissOK, SpendOK, Is, Spent, Final, None
<1> QED
  BY <1>9, <1>10, <1>11, <1>12 DEF IInv

LEMMA NextInv ==
  ASSUME IInv, [Next]_vars
  PROVE  IInv'
<1>1. ASSUME NEW c \in Calls, CredentialStep(c) PROVE IInv'
  BY <1>1, ReadKeyInv, ReadRowInv, RegisterInv, StoreCredentialInv, GoInv DEF CredentialStep
<1>2. ASSUME NEW c \in Calls, ApprovalStep(c) PROVE IInv'
  BY <1>2, StartCreateInv, CreateApprovalInv, ShowRequestInv, AuthorizeInv, ReadApprovalInv,
     VerifySessionInv, ApproveInv, RejectInv DEF ApprovalStep
<1>3. ASSUME NEW c \in Calls, TransactionStep(c) PROVE IInv'
  BY <1>3, ReadRecordInv, CheckSessionInv, PrepareInv, InsertInv, ExecuteInv, ReadStatusInv,
     RefreshInv, AskStatusInv, WriteInv DEF TransactionStep
<1>4. ASSUME NEW c \in Calls, AdminStep(c) PROVE IInv'
  BY <1>4, ResolveSessionInv, DismissSessionInv, StartRotationInv, RevokeCredentialInv,
     RotateKeyInv DEF AdminStep
<1>5. CASE UNCHANGED vars
  <2>1. UNCHANGED <<d1, expired, waas, call, trouble>>
    BY <1>5 DEF vars
  <2>2. TypeOK' /\ WaasOK'
    BY <2>1 DEF d1, waas, IInv, TypeOK, WaasOK
  <2>3. Grows
    BY <2>1, CallFacts DEF Grows, waas, IInv, TypeOK
  <2> QED
    BY <2>1, <2>2, <2>3, Background DEF waas
<1> QED
  BY <1>1, <1>2, <1>3, <1>4, <1>5, RevokeSessionInv, RequestExpiresInv, CredentialExpiresInv,
     ProgressInv DEF Next

(* The invariant holds in every state.                                      *)
THEOREM Invariance == Spec => []IInv
BY InitInv, NextInv, PTL DEF Spec

(* The Worker's tables, WaaS and the calls keep their types.                *)
THEOREM TypeCorrect == Spec => []TypeOK
<1>1. IInv => TypeOK
  BY DEF IInv
<1> QED
  BY <1>1, Invariance, PTL

(* A request has a session record exactly if it was approved: approvals,    *)
(* rejections and rotations may overlap in any way (approveRequest,         *)
(* rejectRequest, replaceRac).                                              *)
THEOREM DecidedOnceAlways == Spec => []DecidedOnce
<1>1. IInv => DecidedOnce
  BY DEF IInv, RequestOK, DecidedOnce
<1> QED
  BY <1>1, Invariance, PTL

(* A session record is never one of a key that was rotated out.             *)
THEOREM RecordsOfThisKeyAlways == Spec => []RecordsOfThisKey
<1>1. IInv => RecordsOfThisKey
  BY DEF IInv, RequestOK, RecordsOfThisKey, KeyOf
<1> QED
  BY <1>1, Invariance, PTL

(* What may have been spent has its row, or its key was rotated out.        *)
THEOREM SpentIsRecordedAlways == Spec => []SpentIsRecorded
<1>1. IInv => SpentIsRecorded
  <2> SUFFICES ASSUME IInv, NEW t \in Calls, chain[t] \in Spent, rows[t] = None
               PROVE  KeyOf(call[t].session) # rac.key
    BY DEF SpentIsRecorded, Spent, KeyOf
  <2>1. SpendOK(t) /\ rac.key \in Nat /\ call[t].session \in 1..Len(sessions)
    BY CallFacts DEF CallOK, SpendOK, CarriesOK, Spent, Final, None
  <2>2. KeyOf(call[t].session) < rac.key
    BY <2>1 DEF SpendOK
  <2>3. KeyOf(call[t].session) \in Nat
    BY <2>1, SessionKeys
  <2> QED
    BY <2>1, <2>2, <2>3
<1> QED
  BY <1>1, Invariance, PTL

(* A dismissed session can no longer be used.                               *)
THEOREM DismissedIsOverAlways == Spec => []DismissedIsOver
<1>1. IInv => DismissedIsOver
  BY DEF IInv, RequestOK, DismissedIsOver
<1> QED
  BY <1>1, Invariance, PTL

=============================================================================
