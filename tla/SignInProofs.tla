---------------------------- MODULE SignInProofs ----------------------------
(***************************************************************************)
(* What is proved of any number of calls, keys and page loads.             *)
(***************************************************************************)
EXTENDS SignIn, FiniteSetTheorems, TLAPS

-----------------------------------------------------------------------------
(* The inductive invariant *)

OpType == [kind : Kinds \cup {None}, pc : PCs, reply : Replies, of : CallOrNone,
           key : KeyOrNone, guard : Revs, began : Revs]

(* What a call does there.                                                  *)
KindsAt(pc) ==
  CASE pc = "clearing" -> Starts \cup {"signOut"}
    [] pc = "commit" -> Starts
    [] pc = "save" -> {"startRedirect"}
    [] pc = "hash" -> {"idToken", "email"}
    [] pc = "signer" -> {"callback"}
    [] pc \in {"complete", "identify", "list", "selecting", "selected"} -> Completions
    [] pc = "use" -> Completions \cup Choices
    [] pc \in {"before", "again", "after"} -> Choices
    [] OTHER -> Kinds \cup {None}

(* A call acts on one that has come to its end.                             *)
CallOK(c) ==
  /\ op[c].pc = "idle" => op[c] = NoOp
  /\ op[c].kind \in KindsAt(op[c].pc)
  /\ op[c].kind = "email" =>
       op[c].of \in Calls /\ op[op[c].of].kind = "startEmail" /\ op[op[c].of].pc = "done"
  /\ op[c].kind = "callback" /\ op[c].pc # "done" =>
       op[c].of \in Calls /\ op[op[c].of].kind = "startRedirect" /\ op[op[c].of].pc = "done"
  /\ op[c].kind = "idToken" /\ op[c].pc \notin {"clearing", "commit", "hash", "done"} =>
       op[c].of = c
  /\ op[c].kind \in Choices =>
       op[c].of \in Calls /\ op[op[c].of].pc \in {"selected", "done"}
  /\ op[c].guard <= rev /\ op[c].began <= rev

(* The attempt and the selection are those of calls that have ended.        *)
EmailOK == email # None => op[email].kind = "startEmail" /\ op[email].pc = "done"
SelectionOK == selection # None => op[selection].pc = "selected"

(* A sign-in that WaaS has taken, and that no other has overtaken, still    *)
(* has the key that WaaS has authorised: no deletion is under way.          *)
Taken(c) ==
  /\ op[c].kind \in Completions
  /\ \/ op[c].pc = "complete" /\ op[c].reply = "ok"
     \/ op[c].pc \in {"identify", "list", "use", "selecting"}

AuthOK(c) ==
  Taken(c) /\ StillCurrent(c) =>
    /\ KeyAccess
    /\ <<op[c].of, key>> \in authorised
    /\ op[c].pc \in {"list", "use", "selecting"} => op[c].key = key

SelectedOK(c) == op[c].pc = "selected" => <<op[c].of, op[c].key>> \in authorised

(* An attempt or selection that is still the one there is was not overtaken.*)
BeganOK(c) ==
  /\ op[c].kind = "email" /\ op[c].pc \notin {"done", "selected"} /\ email = op[c].of =>
       op[c].began = rev
  /\ op[c].kind \in Choices /\ op[c].pc # "done" /\ selection = op[c].of => op[c].began = rev

OpsOK == \A c \in Calls : CallOK(c) /\ AuthOK(c) /\ SelectedOK(c) /\ BeganOK(c)

(* A choice that has looked at its selection has it for itself.             *)
Choosing(c) == op[c].kind \in Choices /\ op[c].pc \in {"again", "use", "after"}
ExclusiveOK ==
  /\ SelectionIsExclusive
  /\ \A c \in Calls : Choosing(c) => op[c].of \in inFlight

(* A callback that is yet to send the answer of redirect r.                 *)
MaySendAnswer(c, r) ==
  /\ op[c].kind = "callback" /\ op[c].of = r
  /\ op[c].pc = "signer" \/ At(c, "complete")

RedirectOK ==
  /\ redirect # NoRedirect => op[redirect.of].kind = "startRedirect" /\ op[redirect.of].pc = "done"
  /\ \A r \in Calls : op[r].kind = "startRedirect" =>
       /\ op[r].pc # "done" => tries[r] = 0
       /\ redirect.of = r /\ ~redirect.consumed =>
            tries[r] = 0 /\ \A c \in Calls : ~MaySendAnswer(c, r)
       /\ \A c \in Calls : MaySendAnswer(c, r) => tries[r] = 0
       /\ \A c, d \in Calls : MaySendAnswer(c, r) /\ MaySendAnswer(d, r) => c = d
       /\ tries[r] <= 1
  /\ \A r \in Calls : op[r].pc = "idle" => tries[r] = 0

IInv == TypeOK /\ EmailOK /\ SelectionOK /\ OpsOK /\ SessionIsAuthorised /\ ExclusiveOK /\ RedirectOK

-----------------------------------------------------------------------------
(* What a step of one call leaves of the others *)

LEMMA Constants ==
  /\ MaxRev \in Nat /\ MaxKey \in Nat /\ MaxReload \in Nat
  /\ Keys \subseteq KeyOrNone /\ 0 \notin Keys
  /\ None \notin Calls /\ Calls \subseteq CallOrNone /\ None \in CallOrNone
<1>1. Cardinality(Calls) \in Nat
  BY ConstantsAssumption, FS_CardinalityType
<1> QED
  BY <1>1, ConstantsAssumption DEF MaxRev, Keys, KeyOrNone, CallOrNone

Becomes(c, k) == op' = [op EXCEPT ![c] = k] /\ k \in OpType
Elsewhere(c) == \A d \in Calls : d # c => op'[d] = op[d]

LEMMA BecomesFacts ==
  ASSUME TypeOK, NEW c \in Calls, NEW k, Becomes(c, k)
  PROVE  op' \in [Calls -> OpType] /\ op'[c] = k /\ Elsewhere(c)
<1>1. op \in [Calls -> OpType]
  BY DEF TypeOK, OpType
<1> HIDE DEF OpType
<1> QED
  BY <1>1 DEF Becomes, Elsewhere

(* The session goes on: an attempt or a selection may end, or be set by the *)
(* call that made it; a key is not lost.                                    *)
GoesOn(c) ==
  /\ rev' = rev
  /\ email' \in {email, None} \/ (email' = c /\ op[c].pc = "commit")
  /\ selection' \in {selection, None} \/ (selection' = c /\ op[c].pc = "selecting")
  /\ KeyAccess /\ key # 0 => KeyAccess' /\ key' = key
  /\ authorised \subseteq authorised'

(* The session ends, and every attempt and selection.                       *)
Ends ==
  /\ rev' = rev + 1
  /\ email' = None /\ selection' = None
  /\ UNCHANGED authorised

(* A call that is done, or has left a selection, does nothing more.         *)
Acts(c) == op[c].pc \notin {"done", "selected"}

LEMMA OthersOK ==
  ASSUME TypeOK, OpsOK, NEW c \in Calls, Acts(c), Elsewhere(c), GoesOn(c) \/ Ends,
         NEW d \in Calls, d # c
  PROVE  CallOK(d)' /\ AuthOK(d)' /\ SelectedOK(d)' /\ BeganOK(d)'
<1>1. op'[d] = op[d] /\ CallOK(d) /\ AuthOK(d) /\ SelectedOK(d) /\ BeganOK(d)
  BY DEF Elsewhere, OpsOK
<1>2. /\ rev \in Nat /\ rev' \in Nat /\ rev <= rev' /\ op[d] \in OpType
      /\ op[d].guard \in Nat /\ op[d].began \in Nat
      /\ authorised \subseteq authorised' /\ authorised \subseteq Calls \X Keys
  BY Constants DEF TypeOK, OpType, Revs, GoesOn, Ends
<1>3. \A e \in Calls : op[e].pc \in {"done", "selected"} => op'[e] = op[e]
  BY DEF Elsewhere, Acts
<1>4. CallOK(d)'
  BY <1>1, <1>2, <1>3 DEF CallOK
<1>5. SelectedOK(d)'
  BY <1>1, <1>2 DEF SelectedOK
<1>6. op[d].kind = "email" => op[d].of \in Calls /\ op[d].of # c
  BY <1>1 DEF CallOK, Acts
<1>7. op[d].kind \in Choices => op[d].of \in Calls /\ op[d].of # c
  BY <1>1 DEF CallOK, Acts
<1>8. op[d].kind = "email" /\ email' = op[d].of => GoesOn(c) /\ email = op[d].of
  BY <1>6, Constants DEF GoesOn, Ends
<1>9. op[d].kind \in Choices /\ selection' = op[d].of => GoesOn(c) /\ selection = op[d].of
  BY <1>7, Constants DEF GoesOn, Ends
<1>10. op[d].guard = rev' => GoesOn(c) /\ op[d].guard = rev
  BY <1>1, <1>2 DEF CallOK, GoesOn, Ends
<1>11. BeganOK(d)'
  BY <1>1, <1>8, <1>9 DEF BeganOK, GoesOn
<1>12. AuthOK(d)'
  <2> SUFFICES ASSUME Taken(d)', StillCurrent(d)'
               PROVE  /\ KeyAccess'
                      /\ <<op[d].of, key'>> \in authorised'
                      /\ op[d].pc \in {"list", "use", "selecting"} => op[d].key = key'
    BY <1>1 DEF AuthOK
  <2>1. Taken(d)
    BY <1>1 DEF Taken
  <2>2. StillCurrent(d) /\ GoesOn(c)
    BY <1>1, <1>8, <1>10 DEF StillCurrent, AttemptIsCurrent, RevisionCurrent
  <2>3. KeyAccess /\ <<op[d].of, key>> \in authorised /\ key # 0
    BY <1>1, <1>2, <2>1, <2>2, Constants DEF AuthOK
  <2> QED
    BY <1>1, <1>2, <2>1, <2>2, <2>3 DEF AuthOK, GoesOn
<1> QED
  BY <1>4, <1>5, <1>11, <1>12

(* The attempt and the selection that there are.                            *)
LEMMA CurrentOK ==
  ASSUME TypeOK, EmailOK, SelectionOK, NEW c \in Calls, Acts(c), Elsewhere(c), GoesOn(c) \/ Ends,
         email' = c /\ op[c].pc = "commit" => op'[c].kind = "startEmail" /\ op'[c].pc = "done",
         selection' = c /\ op[c].pc = "selecting" => op'[c].pc = "selected"
  PROVE  EmailOK' /\ SelectionOK'
<1>1. email \in CallOrNone /\ selection \in CallOrNone
  BY DEF TypeOK
<1>2. \A e \in Calls : op[e].pc \in {"done", "selected"} => op'[e] = op[e]
  BY DEF Elsewhere, Acts
<1>3. EmailOK'
  BY <1>1, <1>2 DEF EmailOK, GoesOn, Ends, CallOrNone
<1>4. SelectionOK'
  BY <1>1, <1>2 DEF SelectionOK, GoesOn, Ends, CallOrNone
<1> QED
  BY <1>3, <1>4

LEMMA SessionSame ==
  ASSUME SessionIsAuthorised, session' \in {session, NoSession}, authorised \subseteq authorised'
  PROVE  SessionIsAuthorised'
BY DEF SessionIsAuthorised

(* Choices that begin, go on or end.                                        *)
LEMMA ExclusiveSame ==
  ASSUME TypeOK, ExclusiveOK, NEW c \in Calls, Elsewhere(c),
         inFlight' = inFlight,
         Choosing(c)' => Choosing(c) /\ op'[c].of = op[c].of
  PROVE  ExclusiveOK'
<1>1. \A d \in Calls : Choosing(d)' => Choosing(d) /\ op'[d].of = op[d].of
  BY DEF Elsewhere, Choosing
<1> QED
  BY <1>1 DEF ExclusiveOK, SelectionIsExclusive, Choosing

(* A redirect's answer is no nearer to be sent again.                       *)
LEMMA RedirectSame ==
  ASSUME TypeOK, OpsOK, RedirectOK, NEW c \in Calls, Acts(c), Elsewhere(c), UNCHANGED tries,
         redirect' \in {redirect, NoRedirect},
         \A r \in Calls : MaySendAnswer(c, r)' => MaySendAnswer(c, r),
         op'[c].kind = op[c].kind \/ op[c].pc = "idle",
         op'[c].pc # "idle"
  PROVE  RedirectOK'
<1>1. \A d, r \in Calls : MaySendAnswer(d, r)' => MaySendAnswer(d, r)
  BY DEF Elsewhere, MaySendAnswer, At
<1>2. redirect \in [of : Calls, key : Keys, consumed : BOOLEAN] \cup {NoRedirect}
  BY DEF TypeOK
<1>3. NoRedirect.of \notin Calls
  BY Constants DEF NoRedirect
<1>4. redirect' # NoRedirect => op'[redirect'.of].kind = "startRedirect" /\ op'[redirect'.of].pc = "done"
  BY <1>2 DEF RedirectOK, Acts, Elsewhere
<1>5. \A d \in Calls : d # c => op'[d] = op[d]
  BY DEF Elsewhere
<1>6. ASSUME NEW r \in Calls, op'[r].kind = "startRedirect"
      PROVE  /\ op'[r].pc # "done" => tries'[r] = 0
             /\ redirect'.of = r /\ ~redirect'.consumed =>
                  tries'[r] = 0 /\ \A d \in Calls : ~MaySendAnswer(d, r)'
             /\ \A d \in Calls : MaySendAnswer(d, r)' => tries'[r] = 0
             /\ \A d, e \in Calls : MaySendAnswer(d, r)' /\ MaySendAnswer(e, r)' => d = e
             /\ tries'[r] <= 1
  <2>1. redirect'.of = r => redirect' = redirect
    BY <1>3
  <2>2. CASE op[r].kind = "startRedirect"
    <3>1. op'[r].pc # "done" => op[r].pc # "done"
      BY <1>5 DEF Acts
    <3> QED
      BY <1>1, <2>1, <2>2, <3>1 DEF RedirectOK
  <2>3. CASE op[r].kind # "startRedirect"
    <3>1. op[r].pc = "idle"
      BY <1>5, <1>6, <2>3
    <3>2. tries[r] = 0 /\ redirect.of # r
      BY <1>2, <1>3, <2>3, <3>1 DEF RedirectOK
    <3>3. \A d \in Calls : ~MaySendAnswer(d, r)
      BY <2>3 DEF OpsOK, CallOK, MaySendAnswer, At
    <3> QED
      BY <1>1, <2>1, <3>2, <3>3
  <2> QED
    BY <2>2, <2>3
<1>7. \A r \in Calls : op'[r].pc = "idle" => tries'[r] = 0
  BY <1>5 DEF RedirectOK
<1> QED
  BY <1>4, <1>6, <1>7 DEF RedirectOK

-----------------------------------------------------------------------------
(* Steps of one call *)

(* The types of all but the calls.                                          *)
RestOK ==
  /\ rev \in Revs
  /\ session \in [auth : Calls, cred : Keys] \cup {NoSession}
  /\ email \in CallOrNone /\ completing \in CallOrNone /\ selection \in CallOrNone
  /\ inFlight \subseteq Calls
  /\ redirect \in [of : Calls, key : Keys, consumed : BOOLEAN] \cup {NoRedirect}
  /\ key \in KeyOrNone /\ made \in KeyOrNone /\ expiring \in KeyOrNone
  /\ reloads \in 0..MaxReload
  /\ verifier \in [Calls -> {"none", "open", "consumed"}]
  /\ tries \in [Calls -> 0..2]
  /\ authorised \subseteq Calls \X Keys
  /\ completing # None => email # None

LEMMA StepInv ==
  ASSUME IInv, NEW c \in Calls, Acts(c), NEW k, Becomes(c, k), GoesOn(c) \/ Ends,
         RestOK', CallOK(c)', AuthOK(c)', SelectedOK(c)', BeganOK(c)',
         email' = c /\ op[c].pc = "commit" => k.kind = "startEmail" /\ k.pc = "done",
         selection' = c /\ op[c].pc = "selecting" => k.pc = "selected",
         SessionIsAuthorised', ExclusiveOK', RedirectOK'
  PROVE  IInv'
<1>1. TypeOK /\ OpsOK /\ EmailOK /\ SelectionOK
  BY DEF IInv
<1>2. op' \in [Calls -> OpType] /\ op'[c] = k /\ Elsewhere(c)
  BY <1>1, BecomesFacts
<1>3. TypeOK'
  BY <1>2 DEF TypeOK, RestOK, OpType
<1>4. EmailOK' /\ SelectionOK'
  BY <1>1, <1>2, CurrentOK
<1>5. OpsOK'
  BY <1>1, <1>2, OthersOK DEF OpsOK
<1> QED
  BY <1>3, <1>4, <1>5 DEF IInv

(* A call that goes on with what it is about.                               *)
LEMMA MovesOK ==
  ASSUME IInv, NEW c \in Calls, NEW k, Becomes(c, k), Acts(c),
         k.kind = op[c].kind, k.of = op[c].of, k.pc # "idle", k.kind \in KindsAt(k.pc),
         k.guard <= rev', k.began <= rev',
         op[c].kind = "idToken" /\ op[c].pc \in {"clearing", "commit", "hash"} =>
           k.pc \in {"clearing", "commit", "hash", "done"}
  PROVE  CallOK(c)'
<1>1. TypeOK /\ CallOK(c)
  BY DEF IInv, OpsOK
<1>2. op'[c] = k /\ Elsewhere(c)
  BY <1>1, BecomesFacts
<1>3. \A e \in Calls : op[e].pc \in {"done", "selected"} => op'[e] = op[e]
  BY <1>2 DEF Elsewhere, Acts
<1> QED
  BY <1>1, <1>2, <1>3 DEF CallOK, Acts

LEMMA EndedFacts ==
  ASSUME TypeOK, NEW c \in Calls, NEW pc \in {"done", "selected"}, Finish(c, pc)
  PROVE  /\ Becomes(c, Ended(op[c], pc))
         /\ Ended(op[c], pc).kind = op[c].kind /\ Ended(op[c], pc).of = op[c].of
         /\ Ended(op[c], pc).pc = pc
         /\ Ended(op[c], pc).guard = 0 /\ Ended(op[c], pc).began = 0
         /\ pc = "selected" => Ended(op[c], pc).key = op[c].key
<1>1. op[c] \in OpType /\ 0 \in KeyOrNone /\ 0 \in Revs /\ "none" \in Replies /\ pc \in PCs
  BY Constants DEF TypeOK, OpType, KeyOrNone, Revs, Replies, PCs
<1>2. ASSUME NEW x \in KeyOrNone
      PROVE  LET k == [op[c] EXCEPT !.pc = pc, !.reply = "none", !.guard = 0, !.began = 0, !.key = x]
             IN /\ k \in OpType
                /\ k.kind = op[c].kind /\ k.of = op[c].of /\ k.pc = pc
                /\ k.guard = 0 /\ k.began = 0 /\ k.key = x
  BY <1>1 DEF OpType
<1>3. op[c].key \in KeyOrNone
  BY <1>1 DEF OpType
<1>4. Ended(op[c], pc) = [op[c] EXCEPT !.pc = pc, !.reply = "none", !.guard = 0, !.began = 0,
                                       !.key = IF pc = "selected" THEN op[c].key ELSE 0]
  BY <1>1 DEF Ended, OpType
<1> HIDE DEF OpType
<1>5. op' = [op EXCEPT ![c] = Ended(op[c], pc)]
  BY DEF Finish
<1>6. CASE pc = "done"
  <2> DEFINE k == [op[c] EXCEPT !.pc = pc, !.reply = "none", !.guard = 0, !.began = 0, !.key = 0]
  <2>1. /\ k \in OpType
        /\ k.kind = op[c].kind /\ k.of = op[c].of /\ k.pc = pc
        /\ k.guard = 0 /\ k.began = 0 /\ k.key = 0
    BY <1>1, <1>2
  <2>2. Ended(op[c], pc) = k
    BY <1>4, <1>6
  <2> HIDE DEF k
  <2> QED
    BY <1>5, <1>6, <2>1, <2>2 DEF Becomes
<1>7. CASE pc = "selected"
  <2> DEFINE k == [op[c] EXCEPT !.pc = pc, !.reply = "none", !.guard = 0, !.began = 0, !.key = op[c].key]
  <2>1. /\ k \in OpType
        /\ k.kind = op[c].kind /\ k.of = op[c].of /\ k.pc = pc
        /\ k.guard = 0 /\ k.began = 0 /\ k.key = op[c].key
    BY <1>3, <1>2
  <2>2. Ended(op[c], pc) = k
    BY <1>4, <1>7
  <2> HIDE DEF k
  <2> QED
    BY <1>5, <1>7, <2>1, <2>2 DEF Becomes
<1> QED
  BY <1>6, <1>7

LEMMA GotoFacts ==
  ASSUME TypeOK, NEW c \in Calls, NEW pc \in PCs, Goto(c, pc)
  PROVE  \E k : /\ Becomes(c, k) /\ k.pc = pc /\ k.reply = "none"
                /\ k.kind = op[c].kind /\ k.of = op[c].of /\ k.key = op[c].key
                /\ k.guard = op[c].guard /\ k.began = op[c].began
<1> DEFINE k == [op[c] EXCEPT !.pc = pc, !.reply = "none"]
<1>1. op \in [Calls -> OpType] /\ op[c] \in OpType /\ "none" \in Replies
  BY DEF TypeOK, OpType, Replies
<1>2. /\ k \in OpType /\ k.pc = pc /\ k.reply = "none"
      /\ k.kind = op[c].kind /\ k.of = op[c].of /\ k.key = op[c].key
      /\ k.guard = op[c].guard /\ k.began = op[c].began
  BY <1>1 DEF OpType
<1>3. op' = [op EXCEPT ![c] = k]
  BY <1>1 DEF Goto, OpType
<1> HIDE DEF k
<1> QED
  BY <1>2, <1>3 DEF Becomes

LEMMA ReplyFacts ==
  ASSUME TypeOK, NEW c \in Calls, NEW reply \in Replies, Reply(c, reply)
  PROVE  \E k : /\ Becomes(c, k) /\ k.pc = op[c].pc /\ k.reply = reply
                /\ k.kind = op[c].kind /\ k.of = op[c].of /\ k.key = op[c].key
                /\ k.guard = op[c].guard /\ k.began = op[c].began
<1> DEFINE k == [op[c] EXCEPT !.reply = reply]
<1>1. op \in [Calls -> OpType] /\ op[c] \in OpType
  BY DEF TypeOK, OpType
<1>2. /\ k \in OpType /\ k.pc = op[c].pc /\ k.reply = reply
      /\ k.kind = op[c].kind /\ k.of = op[c].of /\ k.key = op[c].key
      /\ k.guard = op[c].guard /\ k.began = op[c].began
  BY <1>1 DEF OpType
<1>3. op' = [op EXCEPT ![c] = k]
  BY <1>1 DEF Reply, OpType
<1> HIDE DEF k
<1> QED
  BY <1>2, <1>3 DEF Becomes

LEMMA UseKeyFacts ==
  ASSUME TypeOK, NEW k \in Keys, UseKey(k)
  PROVE  KeyAccess /\ key' = k /\ (key # 0 => key' = key)
         /\ key' \in KeyOrNone /\ made' \in KeyOrNone
BY Constants DEF UseKey, signer, TypeOK, Keys, KeyOrNone

(* No deletion begins, and a key is not lost to one that is not under way.  *)
LEMMA GoesOnFacts ==
  ASSUME TypeOK, NEW c \in Calls, NEW k, Becomes(c, k), k.pc # "clearing",
         UNCHANGED <<rev, expiring>>,
         UNCHANGED key \/ (\E j \in Keys : UseKey(j)) \/ op[c].pc = "clearing",
         authorised \subseteq authorised',
         email' \in {email, None} \/ (email' = c /\ op[c].pc = "commit"),
         selection' \in {selection, None} \/ (selection' = c /\ op[c].pc = "selecting")
  PROVE  GoesOn(c) /\ (KeyAccess => KeyAccess')
<1>1. op'[c] = k /\ Elsewhere(c)
  BY BecomesFacts
<1>2. KeyAccess => KeyAccess'
  BY <1>1 DEF KeyAccess, Elsewhere
<1>3. KeyAccess /\ key # 0 => key' = key
  BY UseKeyFacts DEF KeyAccess
<1> QED
  BY <1>2, <1>3 DEF GoesOn

(* A call is done.                                                          *)
LEMMA DoneOK ==
  ASSUME IInv, NEW c \in Calls, Acts(c), op[c].pc # "idle", Finish(c, "done"), RestOK', GoesOn(c) \/ Ends,
         email' = c /\ op[c].pc = "commit" => op[c].kind = "startEmail",
         selection' = c => op[c].pc # "selecting",
         redirect' \in {redirect, NoRedirect}, UNCHANGED tries,
         SessionIsAuthorised', ExclusiveOK'
  PROVE  IInv'
<1>0. TypeOK /\ OpsOK /\ RedirectOK
  BY DEF IInv
<1> DEFINE k == Ended(op[c], "done")
<1>1. /\ Becomes(c, k) /\ k.kind = op[c].kind /\ k.of = op[c].of /\ k.pc = "done"
      /\ k.guard = 0 /\ k.began = 0
  BY <1>0, EndedFacts
<1> HIDE DEF k
<1>2. op'[c] = k /\ Elsewhere(c) /\ k \in OpType
  BY <1>0, <1>1, BecomesFacts DEF Becomes
<1>3. k.kind \in KindsAt("done") /\ 0 <= rev'
  BY <1>2, Constants DEF KindsAt, OpType, RestOK, Revs
<1>4. CallOK(c)'
  BY <1>1, <1>3, MovesOK
<1>5. AuthOK(c)' /\ SelectedOK(c)' /\ BeganOK(c)'
  BY <1>1, <1>2 DEF AuthOK, Taken, SelectedOK, BeganOK, Choices
<1>6. RedirectOK'
  BY <1>0, <1>1, <1>2, RedirectSame DEF MaySendAnswer, At
<1> QED
  BY <1>1, <1>4, <1>5, <1>6, StepInv

LEMMA FailInv ==
  ASSUME IInv, NEW c \in Calls, NEW consumed, Acts(c), op[c].pc # "idle", Fail(c, consumed),
         UNCHANGED signer \/ (\E j \in Keys : UseKey(j)),
         UNCHANGED <<expiring, reloads, waas>>, op[c].kind \in Completions
  PROVE  IInv'
<1>0. TypeOK /\ SessionIsAuthorised /\ ExclusiveOK
  BY DEF IInv
<1>1. /\ Finish(c, "done") /\ UNCHANGED <<rev, session, selection, inFlight>>
      /\ UNCHANGED <<expiring, reloads, verifier, tries, authorised>>
      /\ UNCHANGED key \/ (\E j \in Keys : UseKey(j))
      /\ key' \in KeyOrNone /\ made' \in KeyOrNone
  BY <1>0, UseKeyFacts DEF Fail, signer, waas, TypeOK
<1>2. /\ email' \in {email, None} /\ completing' \in {completing, None}
      /\ (email' = email /\ completing' = completing) \/ completing' = None
      /\ redirect' \in {redirect, NoRedirect}
  BY DEF Fail, Cleanup
<1>3. Becomes(c, Ended(op[c], "done")) /\ Ended(op[c], "done").pc = "done"
  BY <1>0, <1>1, EndedFacts
<1>4. GoesOn(c)
  BY <1>0, <1>1, <1>2, <1>3, GoesOnFacts
<1>5. RestOK'
  BY <1>0, <1>1, <1>2, Constants DEF TypeOK, RestOK
<1>6. op'[c].pc = "done" /\ Elsewhere(c)
  BY <1>0, <1>3, BecomesFacts
<1>7. ExclusiveOK'
  BY <1>0, <1>1, <1>6, ExclusiveSame DEF Choosing
<1>8. SessionIsAuthorised'
  BY <1>0, <1>1, SessionSame
<1>9. (email' = c => op[c].pc # "commit") /\ (selection' = c => op[c].pc # "selecting")
  <2>1. email' = c => email = c
    BY <1>2, Constants
  <2>2. email = c => op[c].pc = "done"
    BY Constants DEF IInv, EmailOK
  <2>3. selection = c => op[c].pc = "selected"
    BY Constants DEF IInv, SelectionOK
  <2> QED
    BY <1>1, <2>1, <2>2, <2>3
<1> QED
  BY <1>1, <1>2, <1>4, <1>5, <1>7, <1>8, <1>9, DoneOK

(* A call goes on, and nothing begins or ends with it.                      *)
LEMMA PlainInv ==
  ASSUME IInv, NEW c \in Calls, Acts(c), NEW k, Becomes(c, k), op[c].pc # "idle",
         k.pc \notin {"idle", "clearing", "done", "selected"},
         k.kind = op[c].kind, k.of = op[c].of, k.kind \in KindsAt(k.pc),
         k.guard <= rev, k.began = op[c].began,
         op[c].kind = "idToken" /\ op[c].pc \in {"clearing", "commit", "hash"} =>
           k.pc \in {"commit", "hash"},
         UNCHANGED <<rev, session, email, inFlight, redirect, expiring, tries>>,
         selection' \in {selection, None},
         UNCHANGED key \/ (\E j \in Keys : UseKey(j)) \/ op[c].pc = "clearing",
         authorised \subseteq authorised', RestOK', AuthOK(c)',
         Choosing(c)' => Choosing(c),
         \A r \in Calls : MaySendAnswer(c, r)' => MaySendAnswer(c, r)
  PROVE  IInv'
<1>0. TypeOK /\ OpsOK /\ EmailOK /\ SelectionOK /\ SessionIsAuthorised /\ ExclusiveOK /\ RedirectOK
  BY DEF IInv
<1>1. op'[c] = k /\ Elsewhere(c)
  BY <1>0, BecomesFacts
<1>2. GoesOn(c)
  BY <1>0, GoesOnFacts
<1>3. k.began <= rev'
  BY <1>0 DEF OpsOK, CallOK
<1>4. CallOK(c)'
  BY <1>3, MovesOK
<1>5. SelectedOK(c)'
  BY <1>1 DEF SelectedOK
<1>6. BeganOK(c)'
  <2>1. op[c].kind \in Choices => op[c].of # None
    BY <1>0, Constants DEF OpsOK, CallOK
  <2> QED
    BY <1>0, <1>1, <2>1 DEF OpsOK, BeganOK, Acts
<1>7. SessionIsAuthorised'
  BY <1>0, SessionSame
<1>8. ExclusiveOK'
  BY <1>0, <1>1, ExclusiveSame
<1>9. RedirectOK'
  BY <1>0, <1>1, RedirectSame
<1>10. ~(email' = c /\ op[c].pc = "commit") /\ ~(selection' = c /\ op[c].pc = "selecting")
  BY <1>0, Constants DEF EmailOK, SelectionOK
<1> QED
  BY <1>2, <1>4, <1>5, <1>6, <1>7, <1>8, <1>9, <1>10, StepInv

LEMMA ClearInv ==
  ASSUME IInv, NEW c \in Calls, NEW kind \in Starts \cup {"signOut"}, Clear(c, kind)
  PROVE  IInv'
<1>0. TypeOK /\ OpsOK /\ SessionIsAuthorised /\ ExclusiveOK /\ RedirectOK
  BY DEF IInv
<1>1. /\ op[c].pc = "idle" /\ kind \in Kinds /\ rev < MaxRev
      /\ rev' = rev + 1 /\ session' = NoSession /\ email' = None /\ completing' = None
      /\ selection' = None /\ inFlight' = inFlight /\ redirect' = NoRedirect
      /\ UNCHANGED <<key, made, expiring, reloads, verifier, tries, authorised>>
  BY DEF Clear, At, ResetSessionStateInMemory, signer, waas
<1> DEFINE k == [op[c] EXCEPT !.kind = kind, !.pc = "clearing", !.began = rev + 1]
<1>2. op \in [Calls -> OpType] /\ op[c] \in OpType /\ rev \in Nat /\ rev + 1 \in Revs
  BY <1>0, <1>1, Constants DEF TypeOK, OpType, Revs
<1>3. /\ k \in OpType /\ k.kind = kind /\ k.pc = "clearing" /\ k.began = rev + 1
      /\ k.guard = op[c].guard
  BY <1>1, <1>2 DEF OpType, PCs, Waits
<1>4. op' = [op EXCEPT ![c] = k]
  BY <1>1, <1>2 DEF Clear, OpType
<1> HIDE DEF k
<1>5. Becomes(c, k) /\ op'[c] = k /\ Elsewhere(c) /\ Acts(c)
  BY <1>0, <1>1, <1>3, <1>4, BecomesFacts DEF Becomes, Acts
<1>6. Ends
  BY <1>1 DEF Ends
<1>7. op[c].guard = 0
  BY <1>0, <1>1 DEF OpsOK, CallOK, NoOp
<1>8. CallOK(c)'
  BY <1>1, <1>2, <1>3, <1>5, <1>7 DEF CallOK, KindsAt, Starts, Choices
<1>9. AuthOK(c)' /\ SelectedOK(c)' /\ BeganOK(c)'
  BY <1>3, <1>5 DEF AuthOK, Taken, SelectedOK, BeganOK, Starts, Choices
<1>10. RestOK'
  BY <1>0, <1>1, <1>2, Constants DEF TypeOK, RestOK
<1>11. SessionIsAuthorised' /\ ExclusiveOK'
  BY <1>0, <1>1, <1>3, <1>5, SessionSame, ExclusiveSame DEF Choosing
<1>12. RedirectOK'
  BY <1>0, <1>1, <1>3, <1>5, RedirectSame DEF MaySendAnswer, At
<1> QED
  BY <1>1, <1>3, <1>5, <1>6, <1>8, <1>9, <1>10, <1>11, <1>12, StepInv

LEMMA ClearedInv ==
  ASSUME IInv, NEW c \in Calls, Cleared(c)
  PROVE  IInv'
<1>0. TypeOK /\ OpsOK /\ SessionIsAuthorised /\ ExclusiveOK /\ CallOK(c)
  BY DEF IInv, OpsOK
<1>1. /\ op[c].pc = "clearing" /\ op[c].reply = "none" /\ key' \in {0, key}
      /\ UNCHANGED <<rev, session, email, completing, selection, inFlight, redirect, made, expiring>>
      /\ UNCHANGED <<reloads, verifier, tries, authorised>> /\ Acts(c)
  BY DEF Cleared, At, client, waas, Acts
<1>2. RestOK'
  BY <1>0, <1>1, Constants DEF TypeOK, RestOK, KeyOrNone
<1>3. op[c].kind \in {"signOut", "startEmail", "startRedirect", "idToken"}
  BY <1>0, <1>1 DEF CallOK, KindsAt, Starts
<1>4. CASE Finish(c, "done")
  <2>1. Becomes(c, Ended(op[c], "done")) /\ Ended(op[c], "done").pc = "done"
    BY <1>0, <1>4, EndedFacts
  <2>2. GoesOn(c) /\ Elsewhere(c) /\ op'[c].pc = "done"
    BY <1>0, <1>1, <2>1, GoesOnFacts, BecomesFacts
  <2>3. SessionIsAuthorised' /\ ExclusiveOK'
    BY <1>0, <1>1, <2>2, SessionSame, ExclusiveSame DEF Choosing
  <2> QED
    BY <1>1, <1>2, <1>4, <2>2, <2>3, DoneOK
<1>5. CASE op[c].kind # "signOut" /\ ~Finish(c, "done")
  <2>1. PICK k : /\ Becomes(c, k) /\ k.kind = op[c].kind /\ k.of = op[c].of /\ k.reply = "none"
                 /\ k.pc = IF op[c].kind = "idToken" THEN "hash" ELSE "commit"
                 /\ k.began = op[c].began /\ k.guard \in {op[c].guard, rev}
    <3>1. CASE op[c].kind = "startEmail"
      <4>1. Goto(c, "commit") /\ "commit" \in PCs
        BY <1>5, <3>1 DEF Cleared, PCs, Waits, Requests
      <4> QED
        BY <1>0, <3>1, <4>1, GotoFacts
    <3>2. ASSUME NEW pc \in {"hash", "commit"}, op' = [op EXCEPT ![c].pc = pc, ![c].guard = rev]
          PROVE  \E k : /\ Becomes(c, k) /\ k.kind = op[c].kind /\ k.of = op[c].of /\ k.reply = "none"
                        /\ k.pc = pc /\ k.began = op[c].began /\ k.guard = rev
      <4> DEFINE k == [op[c] EXCEPT !.pc = pc, !.guard = rev]
      <4>1. op \in [Calls -> OpType] /\ op[c] \in OpType /\ rev \in Revs
        BY <1>0 DEF TypeOK, OpType
      <4>2. /\ k \in OpType /\ k.kind = op[c].kind /\ k.of = op[c].of /\ k.reply = "none"
            /\ k.pc = pc /\ k.began = op[c].began /\ k.guard = rev
        BY <1>1, <4>1 DEF OpType, PCs, Waits, Requests
      <4>3. op' = [op EXCEPT ![c] = k]
        BY <3>2, <4>1 DEF OpType
      <4> HIDE DEF k
      <4> QED
        BY <4>2, <4>3 DEF Becomes
    <3> QED
      BY <1>3, <1>5, <3>1, <3>2 DEF Cleared
  <2>2. k.kind \in KindsAt(k.pc) /\ k.pc \in {"hash", "commit"}
    BY <1>3, <1>5, <2>1 DEF KindsAt, Starts
  <2>3. op'[c] = k
    BY <1>0, <2>1, BecomesFacts
  <2>4. AuthOK(c)' /\ (~Choosing(c))' /\ \A r \in Calls : ~MaySendAnswer(c, r)'
    BY <2>2, <2>3 DEF AuthOK, Taken, Choosing, MaySendAnswer, At
  <2>5. k.guard <= rev
    BY <1>0, <2>1, Constants DEF CallOK, TypeOK, Revs
  <2> QED
    BY <1>1, <1>2, <2>1, <2>2, <2>4, <2>5, PlainInv
<1> QED
  BY <1>4, <1>5 DEF Cleared

LEMMA SendCommitInv ==
  ASSUME IInv, NEW c \in Calls, SendCommit(c)
  PROVE  IInv'
<1>0. TypeOK /\ CallOK(c)
  BY DEF IInv, OpsOK
<1>1. /\ op[c].pc = "commit" /\ Acts(c)
      /\ UNCHANGED <<rev, session, email, completing, selection, inFlight, redirect, expiring>>
      /\ UNCHANGED <<reloads, tries, authorised>>
  BY DEF SendCommit, At, client, Acts
<1>2. PICK j \in Keys : UseKey(j)
  BY DEF SendCommit
<1>3. RestOK'
  BY <1>0, <1>1, <1>2, UseKeyFacts DEF SendCommit, TypeOK, RestOK
<1>4. PICK reply \in Replies : Reply(c, reply)
  BY DEF SendCommit, Replies
<1>5. PICK k : /\ Becomes(c, k) /\ k.pc = op[c].pc
               /\ k.kind = op[c].kind /\ k.of = op[c].of
               /\ k.guard = op[c].guard /\ k.began = op[c].began
  BY <1>0, <1>4, ReplyFacts
<1>6. op'[c] = k
  BY <1>0, <1>5, BecomesFacts
<1>7. AuthOK(c)' /\ (~Choosing(c))' /\ \A r \in Calls : ~MaySendAnswer(c, r)'
  BY <1>1, <1>5, <1>6 DEF AuthOK, Taken, Choosing, MaySendAnswer, At
<1>8. k.kind \in KindsAt(k.pc) /\ k.guard <= rev
  BY <1>0, <1>1, <1>5 DEF CallOK
<1> QED
  BY <1>1, <1>2, <1>3, <1>5, <1>7, <1>8, PlainInv

LEMMA CommittedInv ==
  ASSUME IInv, NEW c \in Calls, Committed(c)
  PROVE  IInv'
<1>0. TypeOK /\ SessionIsAuthorised /\ ExclusiveOK /\ RedirectOK /\ CallOK(c)
  BY DEF IInv, OpsOK
<1>1. /\ op[c].pc = "commit" /\ Acts(c)
      /\ UNCHANGED <<rev, session, selection, inFlight, redirect, key, made, expiring, reloads>>
      /\ UNCHANGED <<verifier, tries, authorised>>
  BY DEF Committed, Answered, signer, waas, Acts
<1>2. op[c].kind \in Starts /\ selection # c
  BY <1>0, <1>1, Constants DEF CallOK, KindsAt, IInv, SelectionOK
<1>3. ASSUME Finish(c, "done"),
             \/ UNCHANGED <<email, completing>>
             \/ op[c].kind = "startEmail" /\ email' = c /\ completing' = None
      PROVE  IInv'
  <2>0. Finish(c, "done") /\ (email' = email \/ (email' = c /\ op[c].kind = "startEmail"))
    BY <1>3
  <2>1. Becomes(c, Ended(op[c], "done")) /\ Ended(op[c], "done").pc = "done"
    BY <1>0, <2>0, EndedFacts
  <2>2. GoesOn(c) /\ Elsewhere(c) /\ op'[c].pc = "done"
    BY <1>0, <1>1, <2>0, <2>1, GoesOnFacts, BecomesFacts
  <2>3. RestOK'
    BY <1>0, <1>1, <1>3, Constants DEF TypeOK, RestOK
  <2>4. SessionIsAuthorised' /\ ExclusiveOK'
    BY <1>0, <1>1, <2>2, SessionSame, ExclusiveSame DEF Choosing
  <2>5. email' = c => op[c].kind = "startEmail"
    BY <1>1, <2>0, Constants DEF IInv, EmailOK
  <2> QED
    BY <1>1, <1>2, <2>0, <2>2, <2>3, <2>4, <2>5, DoneOK
<1>4. CASE op[c].kind = "startRedirect" /\ Goto(c, "save") /\ UNCHANGED <<email, completing>>
  <2>1. PICK k : /\ Becomes(c, k) /\ k.pc = "save" /\ k.kind = op[c].kind /\ k.of = op[c].of
                 /\ k.guard = op[c].guard /\ k.began = op[c].began
    BY <1>0, <1>4, GotoFacts DEF PCs, Waits
  <2>2. op'[c] = k
    BY <1>0, <2>1, BecomesFacts
  <2>3. AuthOK(c)' /\ (~Choosing(c))' /\ \A r \in Calls : ~MaySendAnswer(c, r)'
    BY <2>1, <2>2 DEF AuthOK, Taken, Choosing, MaySendAnswer, At
  <2>4. RestOK'
    BY <1>0, <1>1, <1>4 DEF TypeOK, RestOK
  <2>5. k.kind \in KindsAt(k.pc) /\ k.guard <= rev
    BY <1>0, <1>4, <2>1 DEF CallOK, KindsAt
  <2> QED
    BY <1>1, <1>4, <2>1, <2>3, <2>4, <2>5, PlainInv
<1>5. CASE /\ op[c].kind = "idToken" /\ UNCHANGED <<email, completing>>
           /\ op' = [op EXCEPT ![c].pc = "complete", ![c].reply = "none", ![c].of = c]
  <2> DEFINE k == [op[c] EXCEPT !.pc = "complete", !.reply = "none", !.of = c]
  <2>1. op \in [Calls -> OpType] /\ op[c] \in OpType /\ c \in CallOrNone
    BY <1>0, Constants DEF TypeOK, OpType
  <2>2. /\ k \in OpType /\ k.kind = op[c].kind /\ k.of = c /\ k.reply = "none"
        /\ k.pc = "complete" /\ k.began = op[c].began /\ k.guard = op[c].guard
    BY <2>1 DEF OpType, PCs, Waits, Requests, Replies
  <2>3. op' = [op EXCEPT ![c] = k]
    BY <1>5, <2>1 DEF OpType
  <2> HIDE DEF k
  <2>4. Becomes(c, k) /\ op'[c] = k /\ Elsewhere(c)
    BY <1>0, <2>2, <2>3, BecomesFacts DEF Becomes
  <2>5. GoesOn(c)
    BY <1>0, <1>1, <1>5, <2>2, <2>4, GoesOnFacts
  <2>6. CallOK(c)'
    BY <1>0, <1>1, <1>5, <2>2, <2>4 DEF CallOK, KindsAt, Completions, Choices
  <2>7. AuthOK(c)' /\ SelectedOK(c)' /\ BeganOK(c)'
    BY <1>5, <2>2, <2>4 DEF AuthOK, Taken, SelectedOK, BeganOK, Choices
  <2>8. RestOK'
    BY <1>0, <1>1, <1>5 DEF TypeOK, RestOK
  <2>9. SessionIsAuthorised' /\ ExclusiveOK'
    BY <1>0, <1>1, <2>2, <2>4, SessionSame, ExclusiveSame DEF Choosing
  <2>10. RedirectOK'
    <3>1. \A r \in Calls : ~MaySendAnswer(c, r)'
      BY <1>5, <2>2, <2>4 DEF MaySendAnswer
    <3> QED
      BY <1>0, <1>1, <2>2, <2>4, <3>1, RedirectSame DEF IInv
  <2>11. email' # c
    BY <1>1, <1>5, Constants DEF IInv, EmailOK
  <2> QED
    BY <1>1, <1>2, <2>4, <2>5, <2>6, <2>7, <2>8, <2>9, <2>10, <2>11, StepInv
<1>6. op[c].kind = "startEmail" \/ op[c].kind = "startRedirect" \/ op[c].kind = "idToken"
  BY <1>2 DEF Starts
<1> DEFINE Failed == Finish(c, "done") /\ UNCHANGED <<email, completing>>
           Retried == op' = [op EXCEPT ![c].pc = "complete", ![c].reply = "none", ![c].of = c]
<1>7. CASE op[c].kind = "startEmail"
  <2>1. Failed \/ (Finish(c, "done") /\ email' = c /\ completing' = None)
    BY <1>7 DEF Committed
  <2> QED
    BY <1>3, <1>7, <2>1
<1>8. CASE op[c].kind = "startRedirect"
  <2>1. Failed \/ (Goto(c, "save") /\ UNCHANGED <<email, completing>>)
    BY <1>8 DEF Committed
  <2> QED
    BY <1>3, <1>4, <1>8, <2>1
<1>9. CASE op[c].kind = "idToken"
  <2>1. Failed \/ (Retried /\ UNCHANGED <<email, completing>>)
    BY <1>9 DEF Committed
  <2> QED
    BY <1>3, <1>5, <1>9, <2>1
<1> QED
  BY <1>6, <1>7, <1>8, <1>9

LEMMA SaveRedirectInv ==
  ASSUME IInv, NEW c \in Calls, SaveRedirect(c)
  PROVE  IInv'
<1>0. TypeOK /\ OpsOK /\ SessionIsAuthorised /\ ExclusiveOK /\ RedirectOK /\ CallOK(c)
  BY DEF IInv, OpsOK
<1>1. /\ op[c].pc = "save" /\ Acts(c) /\ Finish(c, "done")
      /\ UNCHANGED <<rev, session, email, completing, selection, inFlight, expiring, reloads>>
      /\ UNCHANGED <<verifier, tries, authorised>>
  BY DEF SaveRedirect, At, client, waas, Acts
<1>2. PICK j \in Keys : /\ UseKey(j)
                        /\ redirect' \in {redirect, [of |-> c, key |-> j, consumed |-> FALSE]}
  BY DEF SaveRedirect
<1> DEFINE k == Ended(op[c], "done")
<1>3. /\ Becomes(c, k) /\ k.kind = op[c].kind /\ k.of = op[c].of /\ k.pc = "done"
      /\ k.guard = 0 /\ k.began = 0
  BY <1>0, <1>1, EndedFacts
<1> HIDE DEF k
<1>4. op'[c] = k /\ Elsewhere(c) /\ k \in OpType
  BY <1>0, <1>3, BecomesFacts DEF Becomes
<1>5. op[c].kind = "startRedirect"
  BY <1>0, <1>1 DEF CallOK, KindsAt
<1>6. GoesOn(c)
  BY <1>0, <1>1, <1>2, <1>3, GoesOnFacts
<1>7. k.kind \in KindsAt("done") /\ 0 <= rev'
  BY <1>0, <1>1, <1>4, Constants DEF KindsAt, OpType, TypeOK, Revs
<1>8. CallOK(c)'
  BY <1>1, <1>3, <1>7, MovesOK
<1>9. AuthOK(c)' /\ SelectedOK(c)' /\ BeganOK(c)'
  BY <1>3, <1>4 DEF AuthOK, Taken, SelectedOK, BeganOK, Choices
<1>10. RestOK'
  <2>1. [of |-> c, key |-> j, consumed |-> FALSE] \in [of : Calls, key : Keys, consumed : BOOLEAN]
    OBVIOUS
  <2>2. key' \in KeyOrNone /\ made' \in KeyOrNone
    BY <1>0, <1>2, UseKeyFacts
  <2> QED
    BY <1>0, <1>1, <1>2, <2>1, <2>2 DEF TypeOK, RestOK
<1>11. SessionIsAuthorised' /\ ExclusiveOK'
  BY <1>0, <1>1, <1>3, <1>4, SessionSame, ExclusiveSame DEF Choosing
<1>12. RedirectOK'
  <2>1. CASE redirect' = redirect
    BY <1>0, <1>1, <1>3, <1>4, <2>1, RedirectSame DEF MaySendAnswer, At
  <2>2. CASE redirect' = [of |-> c, key |-> j, consumed |-> FALSE]
    <3>1. \A d, r \in Calls : MaySendAnswer(d, r)' => MaySendAnswer(d, r)
      BY <1>3, <1>4 DEF Elsewhere, MaySendAnswer, At
    <3>2. tries[c] = 0 /\ \A d \in Calls : ~MaySendAnswer(d, c)
      BY <1>0, <1>1, <1>5 DEF RedirectOK, OpsOK, CallOK, MaySendAnswer, At
    <3>3. \A r \in Calls : r # c => op'[r] = op[r]
      BY <1>4 DEF Elsewhere
    <3>4. redirect'.of = c /\ op'[c].kind = "startRedirect" /\ op'[c].pc = "done"
      BY <1>3, <1>4, <1>5, <2>2
    <3> QED
      BY <1>0, <1>1, <3>1, <3>2, <3>3, <3>4 DEF RedirectOK
  <2> QED
    BY <1>2, <2>1, <2>2
<1>13. email' # c /\ selection' # c
  BY <1>1, Constants DEF IInv, EmailOK, SelectionOK
<1> QED
  BY <1>1, <1>3, <1>6, <1>8, <1>9, <1>10, <1>11, <1>12, <1>13, StepInv

LEMMA CompleteEmailInv ==
  ASSUME IInv, NEW c \in Calls, CompleteEmail(c)
  PROVE  IInv'
<1>0. TypeOK /\ SessionIsAuthorised /\ ExclusiveOK /\ RedirectOK /\ OpsOK /\ CallOK(c)
  BY DEF IInv, OpsOK
<1>1. /\ op[c].pc = "idle" /\ Acts(c) /\ "email" \in Kinds /\ email # None /\ completing' = c
      /\ UNCHANGED <<rev, session, email, selection, inFlight, redirect, key, made, expiring, reloads>>
      /\ UNCHANGED <<verifier, tries, authorised>>
  BY DEF CompleteEmail, At, signer, waas, Acts
<1> DEFINE k == [op[c] EXCEPT !.kind = "email", !.pc = "hash", !.of = email, !.began = rev]
<1>2. op \in [Calls -> OpType] /\ op[c] \in OpType /\ email \in Calls /\ rev \in Revs
  BY <1>0, <1>1 DEF TypeOK, OpType, CallOrNone
<1>3. /\ k \in OpType /\ k.kind = "email" /\ k.of = email /\ k.pc = "hash" /\ k.began = rev
      /\ k.guard = op[c].guard
  BY <1>1, <1>2, Constants DEF OpType, PCs, Waits
<1>4. op' = [op EXCEPT ![c] = k]
  BY <1>2 DEF CompleteEmail, OpType
<1> HIDE DEF k
<1>5. Becomes(c, k) /\ op'[c] = k /\ Elsewhere(c)
  BY <1>0, <1>3, <1>4, BecomesFacts DEF Becomes
<1>6. GoesOn(c)
  BY <1>0, <1>1, <1>3, <1>5, GoesOnFacts
<1>7. op[email].kind = "startEmail" /\ op[email].pc = "done" /\ email # c /\ op'[email] = op[email]
  BY <1>1, <1>2, <1>5 DEF IInv, EmailOK, Elsewhere
<1>8. CallOK(c)'
  BY <1>0, <1>1, <1>2, <1>3, <1>5, <1>7, Constants DEF CallOK, KindsAt, Choices, Revs, NoOp
<1>9. AuthOK(c)' /\ SelectedOK(c)' /\ BeganOK(c)'
  BY <1>1, <1>3, <1>5 DEF AuthOK, Taken, SelectedOK, BeganOK, Choices
<1>10. RestOK'
  BY <1>0, <1>1, Constants DEF TypeOK, RestOK
<1>11. SessionIsAuthorised' /\ ExclusiveOK'
  BY <1>0, <1>1, <1>3, <1>5, SessionSame, ExclusiveSame DEF Choosing
<1>12. RedirectOK'
  BY <1>0, <1>1, <1>3, <1>5, RedirectSame DEF MaySendAnswer, At
<1> QED
  BY <1>1, <1>5, <1>6, <1>8, <1>9, <1>10, <1>11, <1>12, StepInv

LEMMA HashedInv ==
  ASSUME IInv, NEW c \in Calls, Hashed(c)
  PROVE  IInv'
<1>0. TypeOK /\ CallOK(c)
  BY DEF IInv, OpsOK
<1>1. /\ op[c].pc = "hash" /\ Acts(c)
      /\ UNCHANGED <<signer, expiring, reloads, waas>>
      /\ UNCHANGED <<key, made, expiring, reloads, verifier, tries, authorised>>
  BY DEF Hashed, At, signer, waas, Acts
<1>2. op[c].kind \in {"idToken", "email"}
  BY <1>0, <1>1 DEF CallOK, KindsAt
<1>3. CASE Fail(c, FALSE) /\ op[c].kind = "email"
  BY <1>1, <1>3, FailInv DEF Completions
<1>4. ASSUME NEW pc \in {"commit", "complete"}, Goto(c, pc), UNCHANGED <<client, redirect>>,
             (pc = "commit") = (op[c].kind = "idToken")
      PROVE  IInv'
  <2>1. PICK k : /\ Becomes(c, k) /\ k.pc = pc /\ k.kind = op[c].kind /\ k.of = op[c].of
                 /\ k.guard = op[c].guard /\ k.began = op[c].began /\ k.reply = "none"
    BY <1>0, <1>4, GotoFacts DEF PCs, Waits, Requests
  <2>2. op'[c] = k
    BY <1>0, <2>1, BecomesFacts
  <2>3. AuthOK(c)' /\ (~Choosing(c))'
    BY <1>2, <2>1, <2>2 DEF AuthOK, Taken, Choosing, Choices
  <2>4. \A r \in Calls : ~MaySendAnswer(c, r)'
    BY <1>2, <2>1, <2>2 DEF MaySendAnswer
  <2>5. RestOK'
    BY <1>0, <1>1, <1>4 DEF TypeOK, RestOK, client
  <2>6. k.kind \in KindsAt(k.pc) /\ k.guard <= rev
    BY <1>0, <1>2, <1>4, <2>1 DEF CallOK, KindsAt, Starts, Completions
  <2> QED
    BY <1>1, <1>2, <1>4, <2>1, <2>3, <2>4, <2>5, <2>6, PlainInv DEF client
<1> QED
  BY <1>2, <1>3, <1>4 DEF Hashed

LEMMA CallbackInv ==
  ASSUME IInv, NEW c \in Calls, Callback(c)
  PROVE  IInv'
<1>0. TypeOK /\ SessionIsAuthorised /\ ExclusiveOK /\ RedirectOK /\ OpsOK /\ CallOK(c)
  BY DEF IInv, OpsOK
<1>1. /\ op[c].pc = "idle" /\ Acts(c) /\ "callback" \in Kinds /\ op[c].guard = 0 /\ op[c].began = 0
      /\ UNCHANGED <<rev, session, email, completing, selection, inFlight, key, made, expiring>>
      /\ UNCHANGED <<reloads, verifier, tries, authorised>>
  BY <1>0 DEF Callback, At, client, signer, waas, Acts, CallOK, NoOp
<1>2. PICK r \in Calls :
        /\ RecordOf(r)
        /\ \/ /\ redirect' = [redirect EXCEPT !.consumed = TRUE]
              /\ op' = [op EXCEPT ![c].kind = "callback", ![c].pc = "signer", ![c].of = r,
                                  ![c].key = redirect.key, ![c].began = rev]
           \/ /\ redirect' = NoRedirect
              /\ op' = [op EXCEPT ![c].kind = "callback", ![c].pc = "done"]
  BY DEF Callback
<1>3. /\ redirect.of = r /\ ~redirect.consumed /\ redirect.key \in Keys
      /\ redirect \in [of : Calls, key : Keys, consumed : BOOLEAN]
      /\ op[r].kind = "startRedirect" /\ op[r].pc = "done" /\ r # c
  <2>1. NoRedirect.of # r
    BY Constants DEF NoRedirect
  <2> QED
    BY <1>0, <1>1, <1>2, <2>1 DEF RecordOf, TypeOK, RedirectOK
<1>4. op \in [Calls -> OpType] /\ op[c] \in OpType /\ rev \in Revs /\ 0 <= rev
  BY <1>0, Constants DEF TypeOK, OpType, Revs
<1>5. email # c /\ selection # c
  BY <1>1, Constants DEF IInv, EmailOK, SelectionOK
<1>6. CASE /\ redirect' = [redirect EXCEPT !.consumed = TRUE]
           /\ op' = [op EXCEPT ![c].kind = "callback", ![c].pc = "signer", ![c].of = r,
                               ![c].key = redirect.key, ![c].began = rev]
  <2> DEFINE k == [op[c] EXCEPT !.kind = "callback", !.pc = "signer", !.of = r,
                                !.key = redirect.key, !.began = rev]
  <2>1. /\ k \in OpType /\ k.kind = "callback" /\ k.pc = "signer" /\ k.of = r /\ k.began = rev
        /\ k.guard = 0
    BY <1>1, <1>3, <1>4, Constants DEF OpType, PCs, Waits
  <2>2. op' = [op EXCEPT ![c] = k]
    BY <1>4, <1>6 DEF OpType
  <2> HIDE DEF k
  <2>3. Becomes(c, k) /\ op'[c] = k /\ Elsewhere(c)
    BY <1>0, <2>1, <2>2, BecomesFacts DEF Becomes
  <2>4. GoesOn(c)
    BY <1>0, <1>1, <2>1, <2>3, GoesOnFacts
  <2>5. op'[r] = op[r] /\ rev \in Nat
    BY <1>3, <1>4, <2>3, Constants DEF Elsewhere, Revs
  <2>6. CallOK(c)'
    BY <1>1, <1>3, <1>4, <2>1, <2>3, <2>5 DEF CallOK, KindsAt, Choices
  <2>7. AuthOK(c)' /\ SelectedOK(c)' /\ BeganOK(c)'
    BY <2>1, <2>3 DEF AuthOK, Taken, SelectedOK, BeganOK, Choices
  <2>8. redirect' = [of |-> r, key |-> redirect.key, consumed |-> TRUE]
    BY <1>3, <1>6
  <2>9. redirect' \in [of : Calls, key : Keys, consumed : BOOLEAN]
    BY <1>3, <2>8
  <2>10. RestOK'
    BY <1>0, <1>1, <2>9 DEF TypeOK, RestOK
  <2>11. SessionIsAuthorised' /\ ExclusiveOK'
    BY <1>0, <1>1, <2>1, <2>3, SessionSame, ExclusiveSame DEF Choosing, Choices
  <2>12. RedirectOK'
    <3>1. redirect'.of = r /\ redirect'.consumed
      BY <2>8
    <3>2. \A d \in Calls : d # c => op'[d] = op[d]
      BY <2>3 DEF Elsewhere
    <3>3. \A q \in Calls : MaySendAnswer(c, q)' => q = r
      BY <2>1, <2>3 DEF MaySendAnswer
    <3>4. \A d, q \in Calls : d # c /\ MaySendAnswer(d, q)' => MaySendAnswer(d, q)
      BY <3>2 DEF MaySendAnswer, At
    <3>5. tries[r] = 0 /\ \A d \in Calls : ~MaySendAnswer(d, r)
      BY <1>0, <1>3 DEF RedirectOK
    <3>6. \A q \in Calls : op'[q].kind = "startRedirect" => q # c /\ op'[q] = op[q]
      BY <2>1, <2>3, <3>2
    <3>7. ASSUME NEW q \in Calls, op'[q].kind = "startRedirect"
          PROVE  /\ op'[q].pc # "done" => tries'[q] = 0
                 /\ redirect'.of = q /\ ~redirect'.consumed =>
                      tries'[q] = 0 /\ \A d \in Calls : ~MaySendAnswer(d, q)'
                 /\ \A d \in Calls : MaySendAnswer(d, q)' => tries'[q] = 0
                 /\ \A d, e \in Calls : MaySendAnswer(d, q)' /\ MaySendAnswer(e, q)' => d = e
                 /\ tries'[q] <= 1
      <4>1. op[q].kind = "startRedirect" /\ op'[q].pc = op[q].pc
        BY <3>6, <3>7
      <4>2. \A d \in Calls : MaySendAnswer(d, q)' => tries'[q] = 0
        BY <1>0, <1>1, <3>3, <3>4, <3>5, <4>1 DEF RedirectOK
      <4>3. \A d, e \in Calls : MaySendAnswer(d, q)' /\ MaySendAnswer(e, q)' => d = e
        BY <1>0, <3>3, <3>4, <3>5, <4>1 DEF RedirectOK
      <4> QED
        BY <1>0, <1>1, <3>1, <4>1, <4>2, <4>3 DEF RedirectOK
    <3>8. \A q \in Calls : op'[q].pc = "idle" => tries'[q] = 0
      BY <1>0, <1>1, <2>1, <2>3, <3>2 DEF RedirectOK
    <3>9. op'[redirect'.of].kind = "startRedirect" /\ op'[redirect'.of].pc = "done"
      BY <1>3, <2>5, <3>1
    <3> QED
      BY <3>7, <3>8, <3>9 DEF RedirectOK
  <2> QED
    BY <1>1, <2>3, <2>4, <2>6, <2>7, <2>10, <2>11, <2>12, StepInv
<1>7. CASE /\ redirect' = NoRedirect
           /\ op' = [op EXCEPT ![c].kind = "callback", ![c].pc = "done"]
  <2> DEFINE k == [op[c] EXCEPT !.kind = "callback", !.pc = "done"]
  <2>1. /\ k \in OpType /\ k.kind = "callback" /\ k.pc = "done" /\ k.began = 0 /\ k.guard = 0
    BY <1>1, <1>4, Constants DEF OpType, PCs
  <2>2. op' = [op EXCEPT ![c] = k]
    BY <1>4, <1>7 DEF OpType
  <2> HIDE DEF k
  <2>3. Becomes(c, k) /\ op'[c] = k /\ Elsewhere(c)
    BY <1>0, <2>1, <2>2, BecomesFacts DEF Becomes
  <2>4. GoesOn(c)
    BY <1>0, <1>1, <2>1, <2>3, GoesOnFacts
  <2>5. CallOK(c)'
    BY <1>1, <1>4, <2>1, <2>3 DEF CallOK, KindsAt, Choices
  <2>6. AuthOK(c)' /\ SelectedOK(c)' /\ BeganOK(c)'
    BY <2>1, <2>3 DEF AuthOK, Taken, SelectedOK, BeganOK, Choices
  <2>7. RestOK'
    BY <1>0, <1>1, <1>7 DEF TypeOK, RestOK
  <2>8. SessionIsAuthorised' /\ ExclusiveOK'
    BY <1>0, <1>1, <2>1, <2>3, SessionSame, ExclusiveSame DEF Choosing, Choices
  <2>9. RedirectOK'
    BY <1>0, <1>1, <1>7, <2>1, <2>3, RedirectSame DEF MaySendAnswer, At
  <2> QED
    BY <1>1, <2>3, <2>4, <2>5, <2>6, <2>7, <2>8, <2>9, StepInv
<1> QED
  BY <1>2, <1>6, <1>7

LEMMA SignerValidatedInv ==
  ASSUME IInv, NEW c \in Calls, SignerValidated(c)
  PROVE  IInv'
<1>0. TypeOK /\ CallOK(c)
  BY DEF IInv, OpsOK
<1>1. /\ op[c].pc = "signer" /\ op[c].reply = "none" /\ Acts(c)
      /\ UNCHANGED <<signer, expiring, reloads, waas>>
      /\ UNCHANGED <<key, made, expiring, reloads, verifier, tries, authorised>>
  BY DEF SignerValidated, At, signer, waas, Acts
<1>2. op[c].kind = "callback"
  BY <1>0, <1>1 DEF CallOK, KindsAt
<1>3. CASE Fail(c, FALSE)
  BY <1>1, <1>2, <1>3, FailInv DEF Completions
<1>4. ASSUME op' = [op EXCEPT ![c].pc = "complete", ![c].guard = rev], UNCHANGED <<client, redirect>>
      PROVE  IInv'
  <2> DEFINE k == [op[c] EXCEPT !.pc = "complete", !.guard = rev]
  <2>1. op \in [Calls -> OpType] /\ op[c] \in OpType /\ rev \in Revs /\ rev <= rev
    BY <1>0, Constants DEF TypeOK, OpType, Revs
  <2>2. /\ k \in OpType /\ k.kind = op[c].kind /\ k.of = op[c].of /\ k.reply = "none"
        /\ k.pc = "complete" /\ k.began = op[c].began /\ k.guard = rev
    BY <1>1, <2>1 DEF OpType, PCs, Waits, Requests
  <2>3. op' = [op EXCEPT ![c] = k]
    BY <1>4, <2>1 DEF OpType
  <2> HIDE DEF k
  <2>4. Becomes(c, k) /\ op'[c] = k
    BY <1>0, <2>2, <2>3, BecomesFacts DEF Becomes
  <2>5. AuthOK(c)' /\ (~Choosing(c))' /\ \A r \in Calls : MaySendAnswer(c, r)' => MaySendAnswer(c, r)
    BY <1>1, <2>2, <2>4 DEF AuthOK, Taken, Choosing, MaySendAnswer
  <2>6. RestOK'
    BY <1>0, <1>1, <1>4 DEF TypeOK, RestOK, client
  <2>7. k.kind \in KindsAt(k.pc)
    BY <1>2, <2>2 DEF KindsAt, Completions
  <2> QED
    BY <1>1, <1>2, <1>4, <2>1, <2>2, <2>4, <2>5, <2>6, <2>7, PlainInv DEF client
<1> QED
  BY <1>3, <1>4 DEF SignerValidated

LEMMA SendCompleteInv ==
  ASSUME IInv, NEW c \in Calls, SendComplete(c)
  PROVE  IInv'
<1>0. TypeOK /\ SessionIsAuthorised /\ ExclusiveOK /\ RedirectOK /\ OpsOK /\ CallOK(c)
  BY DEF IInv, OpsOK
<1>a. op[c].pc = "complete" /\ op[c].of \in Calls
  BY <1>0 DEF SendComplete, At, CallOK, KindsAt, Completions
<1>b. PICK v \in Calls : v = op[c].of
  BY <1>a
<1>1. /\ op[c].pc = "complete" /\ op[c].reply = "none" /\ Acts(c)
      /\ UNCHANGED <<rev, session, email, completing, selection, inFlight, redirect>>
      /\ UNCHANGED <<expiring, reloads>>
      /\ tries' = [tries EXCEPT ![v] = IF @ < 2 THEN @ + 1 ELSE @]
  BY <1>b DEF SendComplete, At, client, Acts
<1>2. /\ v \in Calls /\ op[c].kind \in Completions
      /\ op[v].pc = "done" \/ (v = c /\ op[c].kind = "idToken")
      /\ op[v].kind = "startRedirect" => op[c].kind = "callback"
  BY <1>0, <1>1, <1>b DEF CallOK, KindsAt, Completions
<1>3. PICK j \in Keys, reply \in {"ok", "consumed", "failed"} :
        /\ UseKey(j) /\ Reply(c, reply)
        /\ verifier' \in {verifier, [verifier EXCEPT ![v] = "consumed"]}
        /\ authorised' \in {authorised, authorised \cup {<<v, j>>}}
        /\ reply = "ok" => authorised' = authorised \cup {<<v, j>>}
  BY <1>b DEF SendComplete
<1>4. PICK k : /\ Becomes(c, k) /\ k.pc = "complete" /\ k.reply = reply
               /\ k.kind = op[c].kind /\ k.of = v
               /\ k.guard = op[c].guard /\ k.began = op[c].began
  BY <1>0, <1>1, <1>3, <1>b, ReplyFacts DEF Replies
<1>5. op'[c] = k /\ Elsewhere(c) /\ k.reply # "none"
  BY <1>0, <1>3, <1>4, BecomesFacts
<1>6. GoesOn(c) /\ KeyAccess' /\ key' = j
  BY <1>0, <1>1, <1>3, <1>4, GoesOnFacts, UseKeyFacts
<1>7. CallOK(c)'
  BY <1>0, <1>1, <1>2, <1>4, <1>b, MovesOK DEF CallOK
<1>8. AuthOK(c)'
  <2>1. Taken(c)' => reply = "ok"
    BY <1>4, <1>5 DEF Taken
  <2> QED
    BY <1>3, <1>4, <1>5, <1>6, <2>1 DEF AuthOK
<1>9. SelectedOK(c)' /\ BeganOK(c)'
  BY <1>0, <1>1, <1>2, <1>4, <1>5, <1>b DEF SelectedOK, BeganOK, OpsOK, Completions, Choices
<1>10. RestOK'
  <2>1. key' \in KeyOrNone /\ made' \in KeyOrNone
    BY <1>0, <1>3, UseKeyFacts
  <2>2. tries' \in [Calls -> 0..2]
    BY <1>0, <1>1, <1>2 DEF TypeOK
  <2>3. verifier' \in [Calls -> {"none", "open", "consumed"}]
    BY <1>0, <1>2, <1>3 DEF TypeOK
  <2>4. authorised' \subseteq Calls \X Keys
    BY <1>0, <1>2, <1>3 DEF TypeOK
  <2> QED
    BY <1>0, <1>1, <2>1, <2>2, <2>3, <2>4 DEF TypeOK, RestOK
<1>11. SessionIsAuthorised' /\ ExclusiveOK'
  BY <1>0, <1>1, <1>3, <1>4, <1>5, <1>b, SessionSame, ExclusiveSame DEF Choosing
<1>12. RedirectOK'
  <2>1. \A r \in Calls : r # v => tries'[r] = tries[r]
    BY <1>0, <1>1, <1>2 DEF TypeOK
  <2>2. \A d \in Calls : d # c => op'[d] = op[d]
    BY <1>5 DEF Elsewhere
  <2>3. \A r \in Calls : ~MaySendAnswer(c, r)'
    BY <1>4, <1>5 DEF MaySendAnswer, At
  <2>4. \A d, r \in Calls : MaySendAnswer(d, r)' => d # c /\ MaySendAnswer(d, r)
    BY <2>2, <2>3 DEF MaySendAnswer, At
  <2>5. \A d \in Calls : op'[d].kind = op[d].kind /\ op'[d].pc = op[d].pc
    BY <1>1, <1>4, <1>5, <2>2
  <2>6. op[v].kind = "startRedirect" =>
          /\ op[v].pc = "done" /\ tries[v] = 0 /\ tries'[v] = 1
          /\ \A d \in Calls : ~MaySendAnswer(d, v)'
          /\ ~(redirect.of = v /\ ~redirect.consumed)
    <3> HAVE op[v].kind = "startRedirect"
    <3>1. op[c].kind = "callback" /\ MaySendAnswer(c, v)
      BY <1>1, <1>2, <1>b DEF MaySendAnswer, At
    <3>2. tries[v] = 0 /\ (\A d \in Calls : MaySendAnswer(d, v) => d = c)
          /\ ~(redirect.of = v /\ ~redirect.consumed)
      BY <1>0, <1>2, <3>1 DEF RedirectOK
    <3>3. tries'[v] = 1
      BY <1>0, <1>1, <1>2, <3>2 DEF TypeOK
    <3>4. op[v].pc = "done"
      BY <1>2, <3>1
    <3>5. \A d \in Calls : ~MaySendAnswer(d, v)'
      BY <1>2, <2>4, <3>2
    <3> QED
      BY <3>2, <3>3, <3>4, <3>5
  <2>7. ASSUME NEW r \in Calls, op'[r].kind = "startRedirect"
        PROVE  /\ op'[r].pc # "done" => tries'[r] = 0
               /\ redirect'.of = r /\ ~redirect'.consumed =>
                    tries'[r] = 0 /\ \A d \in Calls : ~MaySendAnswer(d, r)'
               /\ \A d \in Calls : MaySendAnswer(d, r)' => tries'[r] = 0
               /\ \A d, e \in Calls : MaySendAnswer(d, r)' /\ MaySendAnswer(e, r)' => d = e
               /\ tries'[r] <= 1
    <3>1. CASE r = v
      <4>1. redirect' = redirect /\ op[r].kind = "startRedirect"
        BY <1>1, <2>5, <2>7
      <4>2. tries'[r] = 1 /\ op'[r].pc = "done"
        BY <2>5, <2>6, <3>1, <4>1
      <4>3. \A d \in Calls : ~MaySendAnswer(d, r)'
        BY <2>6, <3>1, <4>1
      <4>4. ~(redirect'.of = r /\ ~redirect'.consumed)
        BY <2>6, <3>1, <4>1
      <4> QED
        BY <4>2, <4>3, <4>4
    <3>2. CASE r # v
      <4>1. op[r].kind = "startRedirect" /\ tries'[r] = tries[r]
        BY <2>1, <2>5, <2>7, <3>2
      <4> QED
        BY <1>0, <1>1, <2>4, <2>5, <4>1 DEF RedirectOK
    <3> QED
      BY <3>1, <3>2
  <2>8. \A r \in Calls : op'[r].pc = "idle" => tries'[r] = 0
    BY <1>0, <1>1, <1>2, <2>1, <2>5 DEF RedirectOK
  <2>9. redirect' # NoRedirect => op'[redirect'.of].kind = "startRedirect" /\ op'[redirect'.of].pc = "done"
    BY <1>0, <1>1, <2>5 DEF RedirectOK, TypeOK
  <2> QED
    BY <2>7, <2>8, <2>9 DEF RedirectOK
<1>13. email' # c /\ selection' # c
  BY <1>1, Constants DEF IInv, EmailOK, SelectionOK
<1> QED
  BY <1>1, <1>4, <1>6, <1>7, <1>8, <1>9, <1>10, <1>11, <1>12, <1>13, StepInv

LEMMA CompletedInv ==
  ASSUME IInv, NEW c \in Calls, Completed(c)
  PROVE  IInv'
<1>0. TypeOK /\ CallOK(c) /\ AuthOK(c)
  BY DEF IInv, OpsOK
<1>1. /\ op[c].pc = "complete" /\ Acts(c)
      /\ UNCHANGED <<signer, expiring, reloads, waas>>
      /\ UNCHANGED <<key, made, expiring, reloads, verifier, tries, authorised>>
  BY DEF Completed, Answered, signer, waas, Acts
<1>2. op[c].kind \in Completions
  BY <1>0, <1>1 DEF CallOK, KindsAt
<1>3. CASE Fail(c, op[c].reply = "consumed")
  BY <1>1, <1>2, <1>3, FailInv
<1>4. ASSUME op[c].reply = "ok", selection' = None, Goto(c, "identify"),
             UNCHANGED <<rev, session, email, completing, inFlight, redirect>>
      PROVE  IInv'
  <2>1. PICK k : /\ Becomes(c, k) /\ k.pc = "identify" /\ k.kind = op[c].kind /\ k.of = op[c].of
                 /\ k.guard = op[c].guard /\ k.began = op[c].began
    BY <1>0, <1>4, GotoFacts DEF PCs, Waits
  <2>2. op'[c] = k
    BY <1>0, <2>1, BecomesFacts
  <2>3. KeyAccess => KeyAccess'
    BY <1>0, <1>1, <1>4, <2>1, Constants, GoesOnFacts
  <2>4. AuthOK(c)'
    BY <1>0, <1>1, <1>2, <1>4, <2>1, <2>2, <2>3
    DEF AuthOK, Taken, StillCurrent, AttemptIsCurrent, RevisionCurrent
  <2>5. (~Choosing(c))' /\ \A r \in Calls : ~MaySendAnswer(c, r)'
    BY <2>1, <2>2 DEF Choosing, MaySendAnswer, At
  <2>6. RestOK'
    BY <1>0, <1>1, <1>4, Constants DEF TypeOK, RestOK
  <2>7. k.kind \in KindsAt(k.pc) /\ k.guard <= rev
    BY <1>0, <1>2, <2>1 DEF CallOK, KindsAt
  <2> QED
    BY <1>1, <1>4, <2>1, <2>4, <2>5, <2>6, <2>7, PlainInv
<1> QED
  BY <1>3, <1>4 DEF Completed

LEMMA IdentifyInv ==
  ASSUME IInv, NEW c \in Calls, Identify(c)
  PROVE  IInv'
<1>0. TypeOK /\ CallOK(c) /\ AuthOK(c)
  BY DEF IInv, OpsOK
<1>1. /\ op[c].pc = "identify" /\ Acts(c)
      /\ UNCHANGED <<rev, session, email, completing, selection, inFlight, redirect, expiring>>
      /\ UNCHANGED <<reloads, verifier, tries, authorised>>
  BY DEF Identify, At, client, waas, Acts
<1>2. op[c].kind \in Completions
  BY <1>0, <1>1 DEF CallOK, KindsAt
<1>3. PICK j \in Keys : UseKey(j) /\ op' = [op EXCEPT ![c].pc = "list", ![c].key = j]
  BY DEF Identify
<1> DEFINE k == [op[c] EXCEPT !.pc = "list", !.key = j]
<1>4. op \in [Calls -> OpType] /\ op[c] \in OpType /\ j \in KeyOrNone
  BY <1>0, Constants DEF TypeOK, OpType
<1>5. /\ k \in OpType /\ k.kind = op[c].kind /\ k.of = op[c].of /\ k.pc = "list" /\ k.key = j
      /\ k.began = op[c].began /\ k.guard = op[c].guard
  BY <1>4 DEF OpType, PCs, Waits, Requests
<1>6. op' = [op EXCEPT ![c] = k]
  BY <1>3, <1>4 DEF OpType
<1> HIDE DEF k
<1>7. Becomes(c, k) /\ op'[c] = k
  BY <1>0, <1>5, <1>6, BecomesFacts DEF Becomes
<1>8. (KeyAccess => KeyAccess') /\ key' = j /\ (key # 0 => key' = key)
  BY <1>0, <1>1, <1>3, <1>5, <1>7, GoesOnFacts, UseKeyFacts
<1>9. AuthOK(c)'
  <2> SUFFICES ASSUME StillCurrent(c)'
               PROVE  KeyAccess' /\ <<op'[c].of, key'>> \in authorised' /\ op'[c].key = key'
    BY DEF AuthOK
  <2>1. Taken(c) /\ StillCurrent(c)
    BY <1>1, <1>2, <1>5, <1>7 DEF Taken, StillCurrent, AttemptIsCurrent, RevisionCurrent
  <2>2. KeyAccess /\ <<op[c].of, key>> \in authorised
    BY <1>0, <2>1 DEF AuthOK
  <2>3. key # 0
    BY <1>0, <2>2, Constants DEF TypeOK
  <2> QED
    BY <1>1, <1>5, <1>7, <1>8, <2>2, <2>3
<1>10. (~Choosing(c))' /\ \A r \in Calls : ~MaySendAnswer(c, r)'
  BY <1>5, <1>7 DEF Choosing, MaySendAnswer, At
<1>11. RestOK'
  BY <1>0, <1>1, <1>3, UseKeyFacts DEF TypeOK, RestOK
<1>12. k.kind \in KindsAt(k.pc) /\ k.guard <= rev
  BY <1>0, <1>2, <1>5 DEF CallOK, KindsAt
<1> QED
  BY <1>1, <1>3, <1>5, <1>7, <1>9, <1>10, <1>11, <1>12, PlainInv

(* A sign-in that goes on keeps its key.                                    *)
LEMMA AuthKept ==
  ASSUME IInv, NEW c \in Calls, NEW k, Becomes(c, k), op[c].pc \in {"list", "use"},
         k.pc \in {"list", "use", "selecting"}, k.kind = op[c].kind, k.of = op[c].of,
         k.key = op[c].key, k.guard = op[c].guard,
         UNCHANGED <<rev, email, selection, expiring, authorised>>,
         UNCHANGED key \/ \E j \in Keys : UseKey(j)
  PROVE  AuthOK(c)'
<1>0. TypeOK /\ CallOK(c) /\ AuthOK(c)
  BY DEF IInv, OpsOK
<1>1. op'[c] = k
  BY <1>0, BecomesFacts
<1>2. GoesOn(c) /\ (KeyAccess => KeyAccess')
  BY <1>0, GoesOnFacts
<1> SUFFICES ASSUME Taken(c)', StillCurrent(c)'
             PROVE  KeyAccess' /\ <<op'[c].of, key'>> \in authorised' /\ op'[c].key = key'
  BY DEF AuthOK
<1>3. Taken(c) /\ StillCurrent(c)
  BY <1>1 DEF Taken, StillCurrent, AttemptIsCurrent, RevisionCurrent
<1>4. KeyAccess /\ <<op[c].of, key>> \in authorised /\ op[c].key = key
  BY <1>0, <1>3 DEF AuthOK
<1>5. key # 0
  BY <1>0, <1>4, Constants DEF TypeOK
<1> QED
  BY <1>1, <1>2, <1>4, <1>5 DEF GoesOn

LEMMA SendInv ==
  ASSUME IInv, NEW c \in Calls, SendList(c) \/ SendUse(c)
  PROVE  IInv'
<1>0. TypeOK /\ CallOK(c)
  BY DEF IInv, OpsOK
<1>1. /\ op[c].pc \in {"list", "use"} /\ Acts(c)
      /\ UNCHANGED <<rev, session, email, completing, selection, inFlight, redirect, expiring>>
      /\ UNCHANGED <<reloads, verifier, tries, authorised>>
  BY DEF SendList, SendUse, At, client, waas, Acts
<1>2. PICK j \in Keys, reply \in Replies : UseKey(j) /\ Reply(c, reply)
  BY DEF SendList, SendUse, Replies
<1>3. PICK k : /\ Becomes(c, k) /\ k.pc = op[c].pc
               /\ k.kind = op[c].kind /\ k.of = op[c].of /\ k.key = op[c].key
               /\ k.guard = op[c].guard /\ k.began = op[c].began
  BY <1>0, <1>2, ReplyFacts
<1>4. op'[c] = k
  BY <1>0, <1>3, BecomesFacts
<1>5. AuthOK(c)'
  BY <1>1, <1>2, <1>3, AuthKept
<1>6. (Choosing(c)' => Choosing(c)) /\ \A r \in Calls : ~MaySendAnswer(c, r)'
  BY <1>1, <1>3, <1>4 DEF Choosing, MaySendAnswer, At
<1>7. RestOK'
  BY <1>0, <1>1, <1>2, UseKeyFacts DEF TypeOK, RestOK
<1>8. k.kind \in KindsAt(k.pc) /\ k.guard <= rev
  BY <1>0, <1>3 DEF CallOK
<1> QED
  BY <1>1, <1>2, <1>3, <1>5, <1>6, <1>7, <1>8, PlainInv

LEMMA ListedInv ==
  ASSUME IInv, NEW c \in Calls, Listed(c)
  PROVE  IInv'
<1>0. TypeOK /\ CallOK(c)
  BY DEF IInv, OpsOK
<1>1. /\ op[c].pc = "list" /\ Acts(c)
      /\ UNCHANGED <<signer, expiring, reloads, waas>>
      /\ UNCHANGED <<key, made, expiring, reloads, verifier, tries, authorised>>
  BY DEF Listed, At, Answered, signer, waas, Acts
<1>2. op[c].kind \in Completions
  BY <1>0, <1>1 DEF CallOK, KindsAt
<1>3. CASE Fail(c, FALSE)
  BY <1>1, <1>2, <1>3, FailInv
<1>4. ASSUME NEW pc \in {"use", "selecting"}, Goto(c, pc), UNCHANGED <<client, redirect>>
      PROVE  IInv'
  <2>1. PICK k : /\ Becomes(c, k) /\ k.pc = pc /\ k.kind = op[c].kind /\ k.of = op[c].of
                 /\ k.key = op[c].key /\ k.guard = op[c].guard /\ k.began = op[c].began
    BY <1>0, <1>4, GotoFacts DEF PCs, Waits, Requests
  <2>2. op'[c] = k
    BY <1>0, <2>1, BecomesFacts
  <2>3. AuthOK(c)'
    BY <1>1, <1>4, <2>1, AuthKept DEF client
  <2>4. (~Choosing(c))' /\ \A r \in Calls : ~MaySendAnswer(c, r)'
    BY <1>2, <2>1, <2>2 DEF Choosing, MaySendAnswer, At, Completions, Choices
  <2>5. RestOK'
    BY <1>0, <1>1, <1>4 DEF TypeOK, RestOK, client
  <2>6. k.kind \in KindsAt(k.pc) /\ k.guard <= rev
    BY <1>0, <1>2, <2>1 DEF CallOK, KindsAt
  <2> QED
    BY <1>1, <1>4, <2>1, <2>3, <2>4, <2>5, <2>6, PlainInv DEF client
<1> QED
  BY <1>3, <1>4 DEF Listed, Choose

(* What the end of a sign-in leaves of the attempt.                         *)
LEMMA SucceedFacts ==
  ASSUME TypeOK, NEW c \in Calls, NEW pc, Succeed(c, pc)
  PROVE  /\ email' \in {email, None} /\ completing' \in {completing, None}
         /\ completing' # None => email' # None
         /\ redirect' \in {redirect, NoRedirect}
         /\ Finish(c, pc)
BY DEF Succeed

LEMMA UsedInv ==
  ASSUME IInv, NEW c \in Calls, Used(c)
  PROVE  IInv'
<1>0. TypeOK /\ ExclusiveOK /\ CallOK(c) /\ AuthOK(c)
  BY DEF IInv, OpsOK
<1>1. /\ op[c].pc = "use" /\ Acts(c) /\ op[c].kind \in Completions
      /\ UNCHANGED <<signer, expiring, reloads, waas>>
      /\ UNCHANGED <<key, made, expiring, reloads, verifier, tries, authorised>>
  BY DEF Used, Answered, signer, waas, Acts
<1>2. CASE Fail(c, FALSE)
  BY <1>1, <1>2, FailInv
<1>3. ASSUME StillCurrent(c), Activate(op[c].of, op[c].key), Succeed(c, "done")
      PROVE  IInv'
  <2>1. /\ session' = [auth |-> op[c].of, cred |-> op[c].key]
        /\ selection' = None /\ UNCHANGED <<rev, inFlight>>
    BY <1>3 DEF Activate
  <2>2. /\ email' \in {email, None} /\ completing' \in {completing, None}
        /\ completing' # None => email' # None
        /\ redirect' \in {redirect, NoRedirect} /\ Finish(c, "done")
    BY <1>0, <1>3, SucceedFacts
  <2>3. <<op[c].of, op[c].key>> \in authorised
    BY <1>0, <1>1, <1>3 DEF AuthOK, Taken
  <2>4. session' \in [auth : Calls, cred : Keys]
    BY <1>0, <2>1, <2>3 DEF TypeOK
  <2>5. SessionIsAuthorised'
    BY <1>1, <2>1, <2>3 DEF SessionIsAuthorised
  <2>6. Becomes(c, Ended(op[c], "done")) /\ Ended(op[c], "done").pc = "done"
    BY <1>0, <2>2, EndedFacts
  <2>7. GoesOn(c) /\ Elsewhere(c) /\ op'[c].pc = "done"
    BY <1>0, <1>1, <2>1, <2>2, <2>6, GoesOnFacts, BecomesFacts
  <2>8. RestOK'
    BY <1>0, <1>1, <2>1, <2>2, <2>4, Constants DEF TypeOK, RestOK
  <2>9. ExclusiveOK'
    BY <1>0, <2>1, <2>7, ExclusiveSame DEF Choosing
  <2> QED
    BY <1>1, <2>2, <2>5, <2>7, <2>8, <2>9, DoneOK
<1> QED
  BY <1>2, <1>3 DEF Used

LEMMA CreatePendingWalletSelectionInv ==
  ASSUME IInv, NEW c \in Calls, CreatePendingWalletSelection(c)
  PROVE  IInv'
<1>0. TypeOK /\ OpsOK /\ SessionIsAuthorised /\ ExclusiveOK /\ RedirectOK /\ CallOK(c) /\ AuthOK(c)
  BY DEF IInv, OpsOK
<1>1. /\ op[c].pc = "selecting" /\ Acts(c)
      /\ UNCHANGED <<expiring, reloads, waas>>
      /\ UNCHANGED <<expiring, reloads, verifier, tries, authorised>>
  BY DEF CreatePendingWalletSelection, At, waas, Acts
<1>2. op[c].kind \in Completions
  BY <1>0, <1>1 DEF CallOK, KindsAt
<1>3. PICK j \in Keys : UseKey(j)
  BY DEF CreatePendingWalletSelection
<1>4. CASE Fail(c, FALSE)
  BY <1>1, <1>2, <1>3, <1>4, FailInv
<1>5. ASSUME StillCurrent(c), selection' = c, Succeed(c, "selected"), UNCHANGED <<rev, session, inFlight>>
      PROVE  IInv'
  <2>1. /\ email' \in {email, None} /\ completing' \in {completing, None}
        /\ completing' # None => email' # None
        /\ redirect' \in {redirect, NoRedirect} /\ Finish(c, "selected")
    BY <1>0, <1>5, SucceedFacts
  <2>2. <<op[c].of, op[c].key>> \in authorised
    BY <1>0, <1>1, <1>2, <1>5 DEF AuthOK, Taken
  <2> DEFINE k == Ended(op[c], "selected")
  <2>3. /\ Becomes(c, k) /\ k.kind = op[c].kind /\ k.of = op[c].of /\ k.pc = "selected"
        /\ k.guard = 0 /\ k.began = 0 /\ k.key = op[c].key
    BY <1>0, <2>1, EndedFacts
  <2> HIDE DEF k
  <2>4. op'[c] = k /\ Elsewhere(c)
    BY <1>0, <2>3, BecomesFacts
  <2>5. GoesOn(c)
    BY <1>0, <1>1, <1>3, <1>5, <2>1, <2>3, GoesOnFacts
  <2>6. k.kind \in KindsAt("selected") /\ 0 <= rev'
    BY <1>0, <1>2, <1>5, <2>3, Constants DEF KindsAt, TypeOK, Revs
  <2>7. CallOK(c)'
    BY <1>1, <2>3, <2>6, MovesOK
  <2>8. AuthOK(c)' /\ SelectedOK(c)' /\ BeganOK(c)'
    BY <1>1, <1>2, <2>2, <2>3, <2>4 DEF AuthOK, Taken, SelectedOK, BeganOK, Choices, Completions
  <2>9. RestOK'
    BY <1>0, <1>1, <1>3, <1>5, <2>1, Constants, UseKeyFacts DEF TypeOK, RestOK
  <2>10. SessionIsAuthorised' /\ ExclusiveOK'
    BY <1>0, <1>1, <1>5, <2>3, <2>4, SessionSame, ExclusiveSame DEF Choosing
  <2>11. RedirectOK'
    BY <1>0, <1>1, <2>1, <2>3, <2>4, RedirectSame DEF MaySendAnswer, At
  <2>12. op[c].pc # "commit"
    BY <1>1
  <2> QED
    BY <1>1, <2>3, <2>5, <2>7, <2>8, <2>9, <2>10, <2>11, <2>12, StepInv
<1> QED
  BY <1>4, <1>5 DEF CreatePendingWalletSelection

-----------------------------------------------------------------------------
(* Choices of a pending selection *)

LEMMA SelectInv ==
  ASSUME IInv, NEW c \in Calls, Select(c)
  PROVE  IInv'
<1>0. TypeOK /\ SessionIsAuthorised /\ ExclusiveOK /\ RedirectOK /\ OpsOK /\ CallOK(c)
  BY DEF IInv, OpsOK
<1>1. /\ op[c].pc = "idle" /\ Acts(c) /\ op[c].guard = 0
      /\ UNCHANGED <<rev, session, email, completing, selection, inFlight, redirect, key, made>>
      /\ UNCHANGED <<expiring, reloads, verifier, tries, authorised>>
  BY <1>0 DEF Select, At, client, signer, waas, Acts, CallOK, NoOp
<1>2. PICK s \in Calls, kind \in Choices \cap Kinds :
        /\ op[s].pc = "selected"
        /\ op' = [op EXCEPT ![c].kind = kind, ![c].pc = "before", ![c].of = s, ![c].began = rev]
  BY DEF Select
<1> DEFINE k == [op[c] EXCEPT !.kind = kind, !.pc = "before", !.of = s, !.began = rev]
<1>3. op \in [Calls -> OpType] /\ op[c] \in OpType /\ rev \in Revs /\ rev \in Nat
  BY <1>0, Constants DEF TypeOK, OpType, Revs
<1>4. /\ k \in OpType /\ k.kind = kind /\ k.pc = "before" /\ k.of = s /\ k.began = rev
      /\ k.guard = 0
  BY <1>1, <1>2, <1>3, Constants DEF OpType, PCs, Waits
<1>5. op' = [op EXCEPT ![c] = k]
  BY <1>2, <1>3 DEF OpType
<1> HIDE DEF k
<1>6. Becomes(c, k) /\ op'[c] = k /\ Elsewhere(c)
  BY <1>0, <1>4, <1>5, BecomesFacts DEF Becomes
<1>7. GoesOn(c)
  BY <1>0, <1>1, <1>4, <1>6, GoesOnFacts
<1>8. s # c /\ op'[s] = op[s]
  BY <1>1, <1>2, <1>6 DEF Elsewhere
<1>9. CallOK(c)'
  BY <1>1, <1>2, <1>3, <1>4, <1>6, <1>8 DEF CallOK, KindsAt, Choices
<1>10. AuthOK(c)' /\ SelectedOK(c)' /\ BeganOK(c)'
  BY <1>1, <1>2, <1>4, <1>6 DEF AuthOK, Taken, SelectedOK, BeganOK, Choices, Completions
<1>11. RestOK'
  BY <1>0, <1>1 DEF TypeOK, RestOK
<1>12. SessionIsAuthorised' /\ ExclusiveOK'
  BY <1>0, <1>1, <1>4, <1>6, SessionSame, ExclusiveSame DEF Choosing
<1>13. RedirectOK'
  BY <1>0, <1>1, <1>4, <1>6, RedirectSame DEF MaySendAnswer, At
<1>14. email' # c /\ selection' # c
  BY <1>1, Constants DEF IInv, EmailOK, SelectionOK
<1> QED
  BY <1>1, <1>6, <1>7, <1>9, <1>10, <1>11, <1>12, <1>13, <1>14, StepInv

(* A choice that ends gives the selection up, if it had it.                 *)
LEMMA ExclusiveEnds ==
  ASSUME TypeOK, ExclusiveOK, NEW c \in Calls, Elsewhere(c), (~Choosing(c))',
         \/ UNCHANGED inFlight
         \/ Choosing(c) /\ inFlight' = inFlight \ {op[c].of}
  PROVE  ExclusiveOK'
<1>1. \A d \in Calls : Choosing(d)' => d # c /\ Choosing(d) /\ op'[d].of = op[d].of
  BY DEF Elsewhere, Choosing
<1>2. \A d, e \in Calls : Choosing(d) /\ Choosing(e) /\ op[d].of = op[e].of => d = e
  BY DEF ExclusiveOK, SelectionIsExclusive, Choosing
<1>3. \A d \in Calls : Choosing(d)' => op'[d].of \in inFlight'
  BY <1>1, <1>2 DEF ExclusiveOK
<1>4. SelectionIsExclusive'
  BY <1>1, <1>2 DEF SelectionIsExclusive, Choosing
<1> QED
  BY <1>3, <1>4 DEF ExclusiveOK

LEMMA ChoiceEndsInv ==
  ASSUME IInv, NEW c \in Calls, op[c].kind \in Choices, Acts(c), op[c].pc # "idle", Finish(c, "done"),
         \/ UNCHANGED inFlight
         \/ Choosing(c) /\ inFlight' = inFlight \ {op[c].of},
         selection' \in {selection, None},
         session' = session \/ session' \in [auth : Calls, cred : Keys],
         SessionIsAuthorised',
         UNCHANGED <<rev, email, completing, redirect, key, made, expiring, reloads>>,
         UNCHANGED <<verifier, tries, authorised>>
  PROVE  IInv'
<1>0. TypeOK /\ ExclusiveOK /\ SelectionOK /\ EmailOK
  BY DEF IInv
<1>1. Becomes(c, Ended(op[c], "done")) /\ Ended(op[c], "done").pc = "done"
  BY <1>0, EndedFacts
<1>2. GoesOn(c) /\ Elsewhere(c) /\ op'[c].pc = "done"
  BY <1>0, <1>1, GoesOnFacts, BecomesFacts
<1>3. ExclusiveOK'
  BY <1>0, <1>2, ExclusiveEnds DEF Choosing
<1>4. RestOK'
  <2>1. inFlight' \subseteq Calls
    BY <1>0 DEF TypeOK
  <2> QED
    BY <1>0, <2>1, Constants DEF TypeOK, RestOK
<1>5. email' # c /\ selection' # c
  BY <1>0, Constants DEF EmailOK, SelectionOK, Acts
<1> QED
  BY <1>2, <1>3, <1>4, <1>5, DoneOK

(* A choice that goes on.                                                   *)
LEMMA ChoiceGoesOnInv ==
  ASSUME IInv, NEW c \in Calls, op[c].kind \in Choices,
         NEW pc \in {"again", "use", "after"}, Goto(c, pc), Choosing(c), UNCHANGED inFlight,
         selection' \in {selection, None},
         UNCHANGED <<rev, session, email, completing, redirect, key, made, expiring, reloads>>,
         UNCHANGED <<verifier, tries, authorised>>
  PROVE  IInv'
<1>0. TypeOK /\ CallOK(c)
  BY DEF IInv, OpsOK
<1>1. PICK k : /\ Becomes(c, k) /\ k.pc = pc /\ k.kind = op[c].kind /\ k.of = op[c].of
               /\ k.guard = op[c].guard /\ k.began = op[c].began
  BY <1>0, GotoFacts DEF PCs, Waits, Requests
<1>2. op'[c] = k
  BY <1>0, <1>1, BecomesFacts
<1>3. AuthOK(c)' /\ (\A r \in Calls : ~MaySendAnswer(c, r)') /\ Acts(c) /\ op[c].pc # "idle"
  BY <1>1, <1>2 DEF AuthOK, Taken, MaySendAnswer, At, Choices, Completions, Acts, Choosing
<1>4. RestOK'
  BY <1>0, Constants DEF TypeOK, RestOK
<1>5. k.kind \in KindsAt(k.pc) /\ k.guard <= rev /\ op[c].kind # "idToken"
  BY <1>0, <1>1 DEF CallOK, KindsAt, Choices
<1> QED
  BY <1>1, <1>3, <1>4, <1>5, PlainInv

LEMMA CheckSelectionInv ==
  ASSUME IInv, NEW c \in Calls, CheckSelection(c)
  PROVE  IInv'
<1>0. TypeOK /\ OpsOK /\ SessionIsAuthorised /\ ExclusiveOK /\ RedirectOK /\ CallOK(c) /\ BeganOK(c)
  BY DEF IInv, OpsOK
<1>1. /\ op[c].pc \in {"before", "again", "after"} /\ Acts(c) /\ op[c].pc # "idle"
      /\ UNCHANGED <<rev, email, completing, redirect, key, made, expiring, reloads>>
      /\ UNCHANGED <<verifier, tries, authorised>>
  BY DEF CheckSelection, signer, waas, Acts
<1>2. op[c].kind \in Choices /\ op[c].of \in Calls
  BY <1>0, <1>1 DEF CallOK, KindsAt
<1>3. selection' \in {selection, None}
  BY DEF CheckSelection
<1>4. op[c].pc # "before" => Choosing(c)
  BY <1>1, <1>2 DEF Choosing
<1>5. CASE Stale(c) /\ UNCHANGED session
  <2>1. SessionIsAuthorised'
    BY <1>0, <1>1, <1>5, SessionSame
  <2>2. /\ Finish(c, "done")
        /\ UNCHANGED inFlight \/ (Choosing(c) /\ inFlight' = inFlight \ {op[c].of})
    BY <1>4, <1>5 DEF Stale
  <2> QED
    BY <1>1, <1>2, <1>3, <1>5, <2>1, <2>2, ChoiceEndsInv
<1>6. ASSUME op[c].pc = "before", SelectionActive(c), ~Busy(op[c].of),
             Goto(c, AfterBefore(c)), inFlight' = inFlight \cup {op[c].of}, UNCHANGED session
      PROVE  IInv'
  <2>1. AfterBefore(c) \in {"again", "use"}
    BY DEF AfterBefore
  <2>2. PICK k : /\ Becomes(c, k) /\ k.pc \in {"again", "use"} /\ k.kind = op[c].kind
                 /\ k.of = op[c].of /\ k.guard = op[c].guard /\ k.began = op[c].began
    BY <1>0, <1>6, <2>1, GotoFacts DEF PCs, Waits, Requests
  <2>3. op'[c] = k /\ Elsewhere(c)
    BY <1>0, <2>2, BecomesFacts
  <2>4. GoesOn(c)
    BY <1>0, <1>1, <1>3, <2>2, GoesOnFacts
  <2>5. k.kind \in KindsAt(k.pc) /\ k.guard <= rev' /\ k.began <= rev'
    BY <1>0, <1>1, <1>2, <2>2 DEF CallOK, KindsAt
  <2>6. CallOK(c)'
    BY <1>1, <2>2, <2>5, MovesOK
  <2>7. op[c].began = rev
    BY <1>0, <1>2, <1>6 DEF BeganOK, SelectionActive
  <2>8. AuthOK(c)' /\ SelectedOK(c)' /\ BeganOK(c)'
    BY <1>1, <1>2, <2>2, <2>3, <2>7 DEF AuthOK, Taken, SelectedOK, BeganOK, Choices, Completions
  <2>9. RestOK'
    BY <1>0, <1>1, <1>2, <1>3, <1>6, Constants DEF TypeOK, RestOK
  <2>10. ExclusiveOK'
    <3>1. op[c].of \notin inFlight
      BY <1>6 DEF Busy
    <3>2. \A d \in Calls : d # c /\ Choosing(d)' =>
             Choosing(d) /\ op'[d].of = op[d].of /\ op[d].of \in inFlight
      BY <1>0, <2>3 DEF Elsewhere, Choosing, ExclusiveOK
    <3>3. op'[c].of = op[c].of
      BY <2>2, <2>3
    <3>4. \A d \in Calls : Choosing(d)' => op'[d].of \in inFlight'
      BY <1>6, <3>2, <3>3
    <3>5. \A d, e \in Calls : Choosing(d)' /\ Choosing(e)' /\ op'[d].of = op'[e].of => d = e
      <4> SUFFICES ASSUME NEW d \in Calls, NEW e \in Calls, Choosing(d)', Choosing(e)',
                          op'[d].of = op'[e].of, d # e
                   PROVE  FALSE
        OBVIOUS
      <4>1. CASE d = c
        BY <3>1, <3>2, <3>3, <4>1
      <4>2. CASE e = c
        BY <3>1, <3>2, <3>3, <4>2
      <4>3. CASE d # c /\ e # c
        BY <1>0, <3>2, <4>3 DEF ExclusiveOK, SelectionIsExclusive, Choosing
      <4> QED
        BY <4>1, <4>2, <4>3
    <3> QED
      BY <3>4, <3>5 DEF ExclusiveOK, SelectionIsExclusive, Choosing
  <2>11. SessionIsAuthorised'
    BY <1>0, <1>1, <1>6, SessionSame
  <2>12. RedirectOK'
    BY <1>0, <1>1, <2>2, <2>3, RedirectSame DEF MaySendAnswer, At
  <2>13. op[c].pc # "commit" /\ op[c].pc # "selecting"
    BY <1>6
  <2> QED
    BY <1>1, <2>2, <2>4, <2>6, <2>8, <2>9, <2>10, <2>11, <2>12, <2>13, StepInv
<1>7. CASE op[c].pc = "again" /\ Goto(c, "use") /\ UNCHANGED <<inFlight, session>>
  BY <1>1, <1>2, <1>3, <1>4, <1>7, ChoiceGoesOnInv
<1>8. ASSUME op[c].pc = "after", SelectionActive(c),
             session' = [auth |-> op[op[c].of].of, cred |-> op[op[c].of].key],
             inFlight' = inFlight \ {op[c].of}, Finish(c, "done")
      PROVE  IInv'
  <2>1. op[op[c].of].pc = "selected"
    BY <1>0, <1>2, <1>8, Constants DEF IInv, SelectionOK, SelectionActive
  <2>2. <<op[op[c].of].of, op[op[c].of].key>> \in authorised
    BY <1>0, <1>2, <2>1 DEF OpsOK, SelectedOK
  <2>3. session' \in [auth : Calls, cred : Keys] /\ SessionIsAuthorised'
    BY <1>0, <1>1, <1>8, <2>2 DEF TypeOK, SessionIsAuthorised
  <2> QED
    BY <1>1, <1>2, <1>3, <1>4, <1>8, <2>3, ChoiceEndsInv
<1>9. CASE ~SelectionActive(c) \/ (op[c].pc = "before" /\ Busy(op[c].of))
  BY <1>5, <1>9 DEF CheckSelection
<1>10. CASE ~(~SelectionActive(c) \/ (op[c].pc = "before" /\ Busy(op[c].of)))
  <2>1. CASE op[c].pc = "before"
    <3>1. Goto(c, AfterBefore(c)) /\ inFlight' = inFlight \cup {op[c].of} /\ UNCHANGED session
      BY <1>10, <2>1 DEF CheckSelection
    <3> QED
      BY <1>6, <1>10, <2>1, <3>1
  <2>2. CASE op[c].pc = "again"
    <3>1. Goto(c, "use") /\ UNCHANGED <<inFlight, session>>
      BY <1>10, <2>2 DEF CheckSelection
    <3> QED
      BY <1>7, <2>2, <3>1
  <2>3. CASE op[c].pc = "after"
    <3>1. /\ session' = [auth |-> op[op[c].of].of, cred |-> op[op[c].of].key]
          /\ inFlight' = inFlight \ {op[c].of} /\ Finish(c, "done")
      BY <1>10, <2>3 DEF CheckSelection
    <3> QED
      BY <1>8, <1>10, <2>3, <3>1
  <2> QED
    BY <1>1, <2>1, <2>2, <2>3
<1> QED
  BY <1>9, <1>10

LEMMA SelectedUsedInv ==
  ASSUME IInv, NEW c \in Calls, SelectedUsed(c)
  PROVE  IInv'
<1>0. TypeOK /\ SessionIsAuthorised
  BY DEF IInv
<1>1. /\ op[c].pc = "use" /\ Acts(c) /\ op[c].kind \in Choices /\ Choosing(c)
      /\ UNCHANGED <<rev, session, email, completing, selection, redirect, key, made, expiring>>
      /\ UNCHANGED <<reloads, verifier, tries, authorised>>
  BY DEF SelectedUsed, Answered, signer, waas, Acts, Choosing
<1>2. CASE Goto(c, "after") /\ UNCHANGED inFlight
  BY <1>1, <1>2, ChoiceGoesOnInv
<1>3. CASE Stale(c)
  <2>1. SessionIsAuthorised'
    BY <1>0, <1>1, SessionSame
  <2>2. Finish(c, "done") /\ inFlight' = inFlight \ {op[c].of}
    BY <1>1, <1>3 DEF Stale
  <2> QED
    BY <1>1, <2>1, <2>2, ChoiceEndsInv
<1> QED
  BY <1>2, <1>3 DEF SelectedUsed

-----------------------------------------------------------------------------
(* Steps of no call *)

LEMMA SelectionExpiresInv ==
  ASSUME IInv, SelectionExpires
  PROVE  IInv'
<1>0. TypeOK /\ SessionIsAuthorised /\ ExclusiveOK /\ RedirectOK /\ OpsOK
  BY DEF IInv
<1>1. /\ selection # None /\ rev < MaxRev /\ rev' = rev + 1 /\ session' = NoSession
      /\ email' = None /\ completing' = None /\ selection' = None
      /\ expiring' = op[selection].key /\ op' = op /\ selection \in Calls
      /\ UNCHANGED <<inFlight, redirect, key, made, reloads, verifier, tries, authorised>>
  BY <1>0 DEF SelectionExpires, ResetSessionStateInMemory, signer, waas, TypeOK, CallOrNone
<1>2. rev \in Nat /\ rev + 1 \in Revs /\ \A c \in Calls : op[c].guard \in Nat /\ op[c].began \in Nat
  BY <1>0, <1>1, Constants DEF TypeOK, Revs
<1>3. TypeOK'
  BY <1>0, <1>1, <1>2, Constants DEF TypeOK
<1>4. OpsOK'
  <2> SUFFICES ASSUME NEW c \in Calls
               PROVE  CallOK(c)' /\ AuthOK(c)' /\ SelectedOK(c)' /\ BeganOK(c)'
    BY DEF OpsOK
  <2>1. CallOK(c) /\ SelectedOK(c)
    BY <1>0 DEF OpsOK
  <2>2. CallOK(c)' /\ SelectedOK(c)'
    BY <1>1, <1>2, <2>1 DEF CallOK, SelectedOK
  <2>3. (op[c].kind = "email" \/ op[c].kind \in Choices) => op[c].of # None
    BY <2>1, Constants DEF CallOK
  <2>4. op[c].guard # rev + 1
    BY <1>2, <2>1 DEF CallOK
  <2>5. BeganOK(c)'
    BY <1>1, <2>3 DEF BeganOK
  <2>6. ~StillCurrent(c)'
    BY <1>1, <2>3, <2>4 DEF StillCurrent, AttemptIsCurrent, RevisionCurrent
  <2> QED
    BY <2>2, <2>5, <2>6 DEF AuthOK
<1>5. EmailOK' /\ SelectionOK' /\ SessionIsAuthorised'
  BY <1>1 DEF EmailOK, SelectionOK, SessionIsAuthorised
<1>6. ExclusiveOK' /\ RedirectOK'
  BY <1>0, <1>1 DEF ExclusiveOK, SelectionIsExclusive, Choosing, RedirectOK, MaySendAnswer, At
<1> QED
  BY <1>3, <1>4, <1>5, <1>6 DEF IInv

LEMMA ExpiredKeyDeletedInv ==
  ASSUME IInv, ExpiredKeyDeleted
  PROVE  IInv'
<1>0. TypeOK /\ SessionIsAuthorised /\ ExclusiveOK /\ RedirectOK /\ OpsOK
  BY DEF IInv
<1>1. /\ expiring # 0 /\ expiring' = 0 /\ key' \in {key, 0} /\ op' = op
      /\ UNCHANGED <<rev, session, email, completing, selection, inFlight, redirect, made, reloads>>
      /\ UNCHANGED <<verifier, tries, authorised>>
  BY DEF ExpiredKeyDeleted, client, waas
<1>2. TypeOK'
  BY <1>0, <1>1, Constants DEF TypeOK, KeyOrNone
<1>3. OpsOK'
  <2> SUFFICES ASSUME NEW c \in Calls
               PROVE  CallOK(c)' /\ AuthOK(c)' /\ SelectedOK(c)' /\ BeganOK(c)'
    BY DEF OpsOK
  <2>1. CallOK(c) /\ AuthOK(c) /\ SelectedOK(c) /\ BeganOK(c)
    BY <1>0 DEF OpsOK
  <2>2. CallOK(c)' /\ SelectedOK(c)' /\ BeganOK(c)'
    BY <1>1, <2>1 DEF CallOK, SelectedOK, BeganOK
  <2>3. ~(Taken(c) /\ StillCurrent(c))
    BY <1>1, <2>1 DEF AuthOK, KeyAccess
  <2>4. ~(Taken(c) /\ StillCurrent(c))'
    BY <1>1, <2>3 DEF Taken, StillCurrent, AttemptIsCurrent, RevisionCurrent
  <2> QED
    BY <2>2, <2>4 DEF AuthOK
<1>4. EmailOK' /\ SelectionOK' /\ SessionIsAuthorised'
  BY <1>1 DEF EmailOK, SelectionOK, SessionIsAuthorised, IInv
<1>5. ExclusiveOK' /\ RedirectOK'
  BY <1>0, <1>1 DEF ExclusiveOK, SelectionIsExclusive, Choosing, RedirectOK, MaySendAnswer, At
<1> QED
  BY <1>2, <1>3, <1>4, <1>5 DEF IInv

LEMMA ReloadInv ==
  ASSUME IInv, Reload
  PROVE  IInv'
<1>0. TypeOK /\ SessionIsAuthorised /\ RedirectOK /\ OpsOK
  BY DEF IInv
<1>1. /\ reloads' \in 0..MaxReload /\ key' \in {key, 0} /\ session' \in {session, NoSession}
      /\ rev' = 0 /\ email' = None /\ completing' = None /\ selection' = None
      /\ inFlight' = {} /\ expiring' = 0
      /\ op' = [c \in Calls |-> IF op[c].pc = "idle" THEN NoOp ELSE Ended(op[c], "done")]
      /\ UNCHANGED <<redirect, made, verifier, tries, authorised>>
  BY <1>0, Constants DEF Reload, waas, TypeOK
<1>2. 0 \in Revs /\ 0 \in KeyOrNone
  BY Constants DEF Revs, KeyOrNone
<1>3. op \in [Calls -> OpType]
  BY <1>0 DEF TypeOK, OpType
<1>4. NoOp \in OpType
  BY <1>2, Constants DEF NoOp, OpType, PCs, Replies
<1>5. ASSUME NEW c \in Calls
      PROVE  /\ Ended(op[c], "done") \in OpType
             /\ Ended(op[c], "done").kind = op[c].kind /\ Ended(op[c], "done").of = op[c].of
             /\ Ended(op[c], "done").pc = "done"
             /\ Ended(op[c], "done").guard = 0 /\ Ended(op[c], "done").began = 0
  <2> DEFINE k == [op[c] EXCEPT !.pc = "done", !.reply = "none", !.guard = 0, !.began = 0, !.key = 0]
  <2>1. /\ k \in OpType /\ k.kind = op[c].kind /\ k.of = op[c].of /\ k.pc = "done"
        /\ k.guard = 0 /\ k.began = 0
    BY <1>2, <1>3 DEF OpType, PCs, Replies
  <2>2. Ended(op[c], "done") = k
    BY <1>3 DEF Ended, OpType
  <2> HIDE DEF k
  <2> QED
    BY <2>1, <2>2
<1>6. ASSUME NEW c \in Calls
      PROVE  /\ op'[c] \in OpType
             /\ op'[c].kind = op[c].kind /\ op'[c].of = op[c].of
             /\ op'[c].pc = (IF op[c].pc = "idle" THEN "idle" ELSE "done")
             /\ op'[c].guard = 0 /\ op'[c].began = 0
             /\ op'[c].pc = "idle" => op'[c] = NoOp
  <2>1. CASE op[c].pc = "idle"
    <3>1. op[c] = NoOp /\ op'[c] = NoOp
      BY <1>0, <1>1, <2>1 DEF OpsOK, CallOK
    <3> QED
      BY <1>4, <3>1 DEF NoOp
  <2>2. CASE op[c].pc # "idle"
    <3>1. op'[c] = Ended(op[c], "done")
      BY <1>1, <2>2
    <3> QED
      BY <1>5, <2>2, <3>1
  <2> QED
    BY <2>1, <2>2
<1>7. op' \in [Calls -> OpType]
  <2>1. \A c \in Calls : op'[c] \in OpType
    BY <1>6
  <2> HIDE DEF OpType
  <2> QED
    BY <1>1, <2>1
<1>8. TypeOK'
  BY <1>0, <1>1, <1>2, <1>7, Constants DEF TypeOK, OpType
<1>9. OpsOK'
  <2> SUFFICES ASSUME NEW c \in Calls
               PROVE  CallOK(c)' /\ AuthOK(c)' /\ SelectedOK(c)' /\ BeganOK(c)'
    BY DEF OpsOK
  <2>1. op'[c].pc \in {"idle", "done"} /\ op'[c].kind \in Kinds \cup {None} /\ CallOK(c)
    BY <1>0, <1>6 DEF OpType, OpsOK
  <2>2. op'[c].kind \in KindsAt(op'[c].pc)
    BY <2>1 DEF KindsAt
  <2>3. op[c].pc = "idle" => op[c].kind = None
    BY <2>1 DEF CallOK, NoOp
  <2>4. CallOK(c)'
    BY <1>1, <1>6, <2>1, <2>2 DEF CallOK
  <2>5. AuthOK(c)' /\ SelectedOK(c)'
    BY <2>1 DEF AuthOK, Taken, SelectedOK
  <2>6. BeganOK(c)'
    BY <1>6, <1>1, <2>1, <2>3 DEF BeganOK, Choices, None
  <2> QED
    BY <2>4, <2>5, <2>6
<1>10. EmailOK' /\ SelectionOK' /\ SessionIsAuthorised'
  BY <1>0, <1>1 DEF EmailOK, SelectionOK, SessionIsAuthorised
<1>11. \A c \in Calls : op'[c].pc \in {"idle", "done"}
  BY <1>6
<1>12. ExclusiveOK'
  BY <1>11 DEF ExclusiveOK, SelectionIsExclusive, Choosing
<1>13. RedirectOK'
  <2>1. \A c, r \in Calls : ~MaySendAnswer(c, r)'
    BY <1>11 DEF MaySendAnswer, At
  <2>2. redirect' # NoRedirect => op'[redirect'.of].kind = "startRedirect" /\ op'[redirect'.of].pc = "done"
    BY <1>0, <1>1, <1>6 DEF RedirectOK, TypeOK
  <2>3. ASSUME NEW r \in Calls, op'[r].kind = "startRedirect"
        PROVE  /\ op'[r].pc # "done" => tries'[r] = 0
               /\ redirect'.of = r /\ ~redirect'.consumed => tries'[r] = 0
               /\ tries'[r] <= 1
    BY <1>0, <1>1, <1>6, <2>3 DEF RedirectOK
  <2>4. \A r \in Calls : op'[r].pc = "idle" => tries'[r] = 0
    BY <1>0, <1>1, <1>6 DEF RedirectOK
  <2> QED
    BY <2>1, <2>2, <2>3, <2>4 DEF RedirectOK
<1> QED
  BY <1>8, <1>9, <1>10, <1>12, <1>13 DEF IInv

-----------------------------------------------------------------------------
(* The invariant *)

LEMMA InitInv ==
  ASSUME Init
  PROVE  IInv
<1>1. 0 \in Revs /\ 0 \in KeyOrNone /\ 0 \in 0..MaxReload
  BY Constants DEF Revs, KeyOrNone
<1>2. NoOp \in OpType
  BY <1>1, Constants DEF NoOp, OpType, PCs, Replies
<1>3. op \in [Calls -> OpType] /\ \A c \in Calls : op[c] = NoOp
  <2> HIDE DEF OpType
  <2> QED
    BY <1>2 DEF Init
<1>4. TypeOK
  BY <1>1, <1>3, Constants DEF Init, TypeOK, OpType
<1>5. /\ NoOp.pc = "idle" /\ NoOp.kind = None /\ NoOp.guard = 0 /\ NoOp.began = 0
      /\ None = "none"
  BY DEF NoOp, None
<1>6. \A c \in Calls : CallOK(c) /\ AuthOK(c) /\ SelectedOK(c) /\ BeganOK(c)
  <2> TAKE c \in Calls
  <2>1. op[c] = NoOp /\ rev = 0
    BY <1>3 DEF Init
  <2>2. None \in KindsAt("idle")
    BY DEF KindsAt
  <2>3. CallOK(c)
    BY <1>5, <2>1, <2>2 DEF CallOK, Choices
  <2> QED
    BY <1>5, <2>1, <2>3 DEF AuthOK, Taken, SelectedOK, BeganOK, Choices
<1>7. EmailOK /\ SelectionOK /\ SessionIsAuthorised
  BY DEF Init, EmailOK, SelectionOK, SessionIsAuthorised
<1>8. ExclusiveOK
  BY <1>3, <1>5 DEF ExclusiveOK, SelectionIsExclusive, Choosing
<1>9. RedirectOK
  BY <1>3, <1>5 DEF Init, RedirectOK
<1> QED
  BY <1>4, <1>6, <1>7, <1>8, <1>9 DEF IInv, OpsOK

LEMMA NextInv ==
  ASSUME IInv, [Next]_vars
  PROVE  IInv'
<1>1. CASE UNCHANGED vars
  BY <1>1 DEF vars, client, signer, waas, IInv, TypeOK, EmailOK, SelectionOK, OpsOK, CallOK, AuthOK,
     Taken, StillCurrent, AttemptIsCurrent, RevisionCurrent, KeyAccess, SelectedOK, BeganOK,
     SessionIsAuthorised, ExclusiveOK, SelectionIsExclusive, Choosing, RedirectOK, MaySendAnswer, At
<1>2. ASSUME NEW c \in Calls, Start(c) \/ SignOut(c)
      PROVE  IInv'
  BY <1>2, ClearInv DEF Start, SignOut
<1>3. ASSUME NEW c \in Calls,
             \/ Cleared(c) \/ SendCommit(c) \/ Committed(c) \/ SaveRedirect(c) \/ CompleteEmail(c)
             \/ Hashed(c) \/ Callback(c) \/ SignerValidated(c) \/ SendComplete(c) \/ Completed(c)
      PROVE  IInv'
  BY <1>3, ClearedInv, SendCommitInv, CommittedInv, SaveRedirectInv, CompleteEmailInv, HashedInv,
     CallbackInv, SignerValidatedInv, SendCompleteInv, CompletedInv
<1>4. ASSUME NEW c \in Calls,
             \/ Identify(c) \/ SendList(c) \/ Listed(c) \/ SendUse(c) \/ Used(c)
             \/ CreatePendingWalletSelection(c) \/ Select(c) \/ CheckSelection(c) \/ SelectedUsed(c)
      PROVE  IInv'
  BY <1>4, IdentifyInv, SendInv, ListedInv, UsedInv, CreatePendingWalletSelectionInv, SelectInv,
     CheckSelectionInv, SelectedUsedInv
<1> QED
  BY <1>1, <1>2, <1>3, <1>4, SelectionExpiresInv, ExpiredKeyDeletedInv, ReloadInv DEF Next

(* The inductive invariant holds: every sign-in that WaaS has taken and none*)
(* has overtaken still has the key that WaaS authorised for it.             *)
THEOREM Invariance == Spec => []IInv
<1>1. Init => IInv
  BY InitInv
<1>2. IInv /\ [Next]_vars => IInv'
  BY NextInv
<1> QED
  BY <1>1, <1>2, PTL DEF Spec

(* Every variable keeps its type, whatever the calls do.                    *)
THEOREM TypeCorrect == Spec => []TypeOK
<1>1. IInv => TypeOK
  BY DEF IInv
<1> QED
  BY <1>1, Invariance, PTL

(* A session names a key that WaaS authorised in the sign-in it names.      *)
THEOREM SessionIsAuthorisedAlways == Spec => []SessionIsAuthorised
<1>1. IInv => SessionIsAuthorised
  BY DEF IInv
<1> QED
  BY <1>1, Invariance, PTL

(* The answer of a redirect is sent at most once, however often its URL is  *)
(* opened and the page reloaded.                                            *)
THEOREM CallbackSentOnceAlways == Spec => []CallbackSentOnce
<1>1. IInv => CallbackSentOnce
  BY DEF IInv, RedirectOK, CallbackSentOnce
<1> QED
  BY <1>1, Invariance, PTL

(* Of several choices of one selection, at most one acts on it at a time.   *)
THEOREM SelectionIsExclusiveAlways == Spec => []SelectionIsExclusive
<1>1. IInv => SelectionIsExclusive
  BY DEF IInv, ExclusiveOK
<1> QED
  BY <1>1, Invariance, PTL

-----------------------------------------------------------------------------
(* Who signs in *)

(* Only the call that comes to its end, with an attempt, a revision or a    *)
(* selection that is the current one, sets a session.                       *)
SignsIn(c) ==
  \/ op[c].kind \in Completions /\ StillCurrent(c)
  \/ op[c].kind \in Choices /\ SelectionActive(c)

LEMMA StepSignsIn ==
  ASSUME IInv, NEW c \in Calls,
         \/ Start(c) \/ SignOut(c) \/ Cleared(c) \/ SendCommit(c) \/ Committed(c)
         \/ SaveRedirect(c) \/ CompleteEmail(c) \/ Hashed(c) \/ Callback(c)
         \/ SignerValidated(c) \/ SendComplete(c) \/ Completed(c) \/ Identify(c)
         \/ SendList(c) \/ Listed(c) \/ SendUse(c)
         \/ CreatePendingWalletSelection(c) \/ Select(c) \/ SelectedUsed(c)
  PROVE  session' \in {session, NoSession}
<1>1. CASE Start(c) \/ SignOut(c)
  BY <1>1 DEF Start, SignOut, Clear, ResetSessionStateInMemory
<1>2. CASE Cleared(c) \/ SendCommit(c) \/ Committed(c) \/ SaveRedirect(c) \/ CompleteEmail(c)
  BY <1>2 DEF Cleared, SendCommit, Committed, SaveRedirect, CompleteEmail, client
<1>3. CASE Hashed(c) \/ Callback(c) \/ SignerValidated(c)
  <2>1. Hashed(c) => op[c].kind \in {"idToken", "email"}
    BY DEF IInv, OpsOK, CallOK, KindsAt, Hashed, At
  <2> QED
    BY <1>3, <2>1 DEF Hashed, Callback, SignerValidated, Fail, client
<1>4. CASE SendComplete(c) \/ Completed(c) \/ Identify(c) \/ SendList(c) \/ Listed(c) \/ SendUse(c)
  BY <1>4 DEF SendComplete, Completed, Identify, SendList, Listed, Choose, SendUse, Fail, client
<1>5. CASE CreatePendingWalletSelection(c) \/ Select(c) \/ SelectedUsed(c)
  BY <1>5 DEF CreatePendingWalletSelection, Select, SelectedUsed, Fail, client
<1> QED
  BY <1>1, <1>2, <1>3, <1>4, <1>5

LEMMA UsedSignsIn ==
  ASSUME IInv, NEW c \in Calls, Used(c), session' # session
  PROVE  SignsIn(c) /\ Elsewhere(c)
<1>0. TypeOK
  BY DEF IInv
<1>1. op[c].kind \in Completions /\ StillCurrent(c) /\ Succeed(c, "done")
  BY DEF Used, Fail
<1>2. Finish(c, "done")
  BY <1>0, <1>1, SucceedFacts
<1>3. Becomes(c, Ended(op[c], "done"))
  BY <1>0, <1>2, EndedFacts
<1> QED
  BY <1>0, <1>1, <1>3, BecomesFacts DEF SignsIn

LEMMA CheckSelectionSignsIn ==
  ASSUME IInv, NEW c \in Calls, CheckSelection(c), session' # session
  PROVE  SignsIn(c) /\ Elsewhere(c)
<1>0. TypeOK /\ CallOK(c)
  BY DEF IInv, OpsOK
<1>1. op[c].pc \in {"before", "again", "after"}
  BY DEF CheckSelection
<1>2. SelectionActive(c) /\ ~(op[c].pc = "before" /\ Busy(op[c].of))
  BY DEF CheckSelection
<1>3. op[c].pc # "before" /\ op[c].pc # "again"
  BY <1>2 DEF CheckSelection
<1>4. op[c].pc = "after"
  BY <1>1, <1>3
<1>5. Finish(c, "done")
  BY <1>2, <1>4 DEF CheckSelection
<1>6. Becomes(c, Ended(op[c], "done"))
  BY <1>0, <1>5, EndedFacts
<1>7. op[c].kind \in Choices
  BY <1>0, <1>4 DEF CallOK, KindsAt
<1> QED
  BY <1>0, <1>2, <1>6, <1>7, BecomesFacts DEF SignsIn

(* An e-mail code or a choice of wallet that a later sign-in or sign-out has*)
(* overtaken sets no session: its attempt or selection was dropped with it. *)
THEOREM OvertakenNeverSignsInAlways == Spec => OvertakenNeverSignsIn
<1> DEFINE A == \A c \in Calls : op[c].kind \in {"email"} \cup Choices => NotOvertaken(c)
<1>1. ASSUME IInv, [Next]_vars
      PROVE  A
  <2> SUFFICES ASSUME NEW c \in Calls, op[c].kind \in {"email"} \cup Choices, SetsSession(c)
               PROVE  op[c].began = rev
    BY DEF NotOvertaken
  <2>0. BeganOK(c) /\ session' # session /\ session' # NoSession
        /\ op[c].pc # "done" /\ op'[c].pc = "done"
    BY <1>1 DEF IInv, OpsOK, SetsSession
  <2>1. ~UNCHANGED vars /\ ~SelectionExpires /\ ~ExpiredKeyDeleted /\ ~Reload
    BY <2>0 DEF vars, client, SelectionExpires, ResetSessionStateInMemory, ExpiredKeyDeleted, Reload
  <2>2. PICK d \in Calls : Used(d) \/ CheckSelection(d)
    BY <1>1, <2>0, <2>1, StepSignsIn DEF Next
  <2>3. SignsIn(d) /\ Elsewhere(d)
    BY <1>1, <2>0, <2>2, UsedSignsIn, CheckSelectionSignsIn
  <2>4. d = c
    BY <2>0, <2>3 DEF Elsewhere
  <2>5. op[c].pc # "selected"
    BY <1>1, <2>2, <2>4 DEF Used, CheckSelection, Answered
  <2> QED
    BY <2>0, <2>3, <2>4, <2>5
    DEF SignsIn, BeganOK, StillCurrent, AttemptIsCurrent, SelectionActive, Completions, Choices
<1>2. IInv /\ [Next]_vars => [A]_vars
  BY <1>1
<1> QED
  BY <1>2, Invariance, PTL DEF Spec, OvertakenNeverSignsIn

=============================================================================
