------------------------------- MODULE SignIn -------------------------------
(***************************************************************************)
(* Signing in, in one client of walletClient.ts: e-mail codes, OIDC        *)
(* redirects, OIDC ID tokens and the pending wallet selection, with calls  *)
(* that overtake each other, lost answers, wrong codes and page reloads.   *)
(*                                                                         *)
(* Every start of a sign-in ends the session at once, by a new revision,   *)
(* and then waits until its key is deleted. A sign-in overtaken by another *)
(* one or by a sign-out must not set a session any more.                   *)
(*                                                                         *)
(* Abstractions: a call is used once; an attempt, a verifier, a redirect   *)
(* nonce and a selection are each named by the call that made them; wallet *)
(* types, scopes and URLs are left out, so a callback URL is the start call*)
(* it belongs to. Requests of one client are sent one at a time            *)
(* (SignedRequests), here in any order.                                    *)
(***************************************************************************)
EXTENDS Naturals, FiniteSets

CONSTANTS
  Calls,         \* the calls ever made
  Kinds,         \* the operations called
  MaxKey,        \* bound: keys the signer makes
  MaxReload      \* bound: page reloads

None == "none"

ASSUME ConstantsAssumption ==
  /\ Kinds \subseteq {"signOut", "startEmail", "startRedirect", "idToken", "email",
                      "callback", "select", "import"}
  /\ MaxKey \in Nat /\ MaxReload \in Nat
  /\ IsFiniteSet(Calls) /\ None \notin Calls

VARIABLES
  rev,           \* sessionRevision
  session,       \* the session, in memory and in storage
  email,         \* activeEmailAuthAttempt
  completing,    \* its completion
  selection,     \* activePendingWalletSelection
  inFlight,      \* the selections with an action in flight
  redirect,      \* the pending redirect record, in sessionStorage
  op,            \* the calls
  key,           \* the signer's key, 0 for none
  made,          \* the keys made
  expiring,      \* the key an expiry is about to delete, 0 for none
  reloads,       \* the page reloads
  verifier,      \* WaaS: the verifiers
  tries,         \* WaaS: the CompleteAuth requests for a verifier, up to 2
  authorised     \* WaaS: the keys authorised by each sign-in

client == <<rev, session, email, completing, selection, inFlight>>
signer == <<key, made>>
waas == <<verifier, tries, authorised>>
vars == <<client, redirect, op, signer, expiring, reloads, waas>>

-----------------------------------------------------------------------------
(* Types *)

Keys == 1..MaxKey
KeyOrNone == 0..MaxKey
MaxRev == Cardinality(Calls) + MaxKey
Revs == 0..MaxRev

Starts == {"startEmail", "startRedirect", "idToken"}
Completions == {"email", "callback", "idToken"}
Choices == {"select", "import"}

(* The waits of a call. Of a request: about to be sent, and its answer.     *)
Requests == {"commit", "complete", "list", "use"}
Waits == Requests \cup {"clearing", "hash", "signer", "save", "identify", "selecting",
                        "before", "again", "after"}
PCs == {"idle", "done", "selected"} \cup Waits

Replies == {"none", "ok", "failed", "consumed"}

NoSession == [auth |-> None, cred |-> 0]
NoRedirect == [of |-> None, key |-> 0, consumed |-> FALSE]
NoOp == [kind |-> None, pc |-> "idle", reply |-> "none", of |-> None, key |-> 0,
         guard |-> 0, began |-> 0]

CallOrNone == Calls \cup {None}

TypeOK ==
  /\ rev \in Revs
  /\ session \in [auth : Calls, cred : Keys] \cup {NoSession}
  /\ email \in CallOrNone
  /\ completing \in CallOrNone
  /\ selection \in CallOrNone
  /\ inFlight \subseteq Calls
  /\ redirect \in [of : Calls, key : Keys, consumed : BOOLEAN] \cup {NoRedirect}
  /\ op \in [Calls -> [kind : Kinds \cup {None}, pc : PCs, reply : Replies, of : CallOrNone,
                       key : KeyOrNone, guard : Revs, began : Revs]]
  /\ key \in KeyOrNone
  /\ made \in KeyOrNone
  /\ expiring \in KeyOrNone
  /\ reloads \in 0..MaxReload
  /\ verifier \in [Calls -> {"none", "open", "consumed"}]
  /\ tries \in [Calls -> 0..2]
  /\ authorised \subseteq Calls \X Keys
  /\ completing # None => email # None

-----------------------------------------------------------------------------
(* Calls, the signer and requests *)

Goto(c, pc) == op' = [op EXCEPT ![c].pc = pc, ![c].reply = "none"]

(* A finished call keeps what it was about; a selection keeps its key.      *)
Ended(o, pc) == [o EXCEPT !.pc = pc, !.reply = "none", !.guard = 0, !.began = 0,
                          !.key = IF pc = "selected" THEN @ ELSE 0]
Finish(c, pc) == op' = [op EXCEPT ![c] = Ended(@, pc)]

At(c, pc) == op[c].pc = pc /\ op[c].reply = "none"
Answered(c, pc) == op[c].pc = pc /\ op[c].reply # "none"

(* The signer's key is read and made in the order of its IndexedDB          *)
(* transactions: not before the deletions already under way.                *)
KeyAccess == expiring = 0 /\ \A c \in Calls : op[c].pc # "clearing"

(* credentialId, and signing: without a key, one is made.                   *)
UseKey(k) ==
  /\ KeyAccess
  /\ IF key # 0
       THEN k = key /\ UNCHANGED signer
       ELSE /\ made < MaxKey
            /\ k = made + 1
            /\ key' = k /\ made' = k

(* One request is under way at a time, and it is answered.                  *)
MaySend == \A c \in Calls : op[c].reply = "none"

Reply(c, reply) == op' = [op EXCEPT ![c].reply = reply]

(* The end of the session and of every pending sign-in but the redirect.    *)
ResetSessionStateInMemory ==
  /\ rev' = rev + 1
  /\ session' = NoSession
  /\ email' = None
  /\ completing' = None
  /\ selection' = None
  /\ UNCHANGED inFlight

-----------------------------------------------------------------------------
(* Starting a sign-in, and signing out *)

(* clearSession, up to its first wait.                                      *)
Clear(c, kind) ==
  /\ At(c, "idle")
  /\ kind \in Kinds
  /\ rev < MaxRev
  /\ ResetSessionStateInMemory
  /\ redirect' = NoRedirect
  /\ op' = [op EXCEPT ![c].kind = kind, ![c].pc = "clearing", ![c].began = rev + 1]
  /\ UNCHANGED <<signer, expiring, reloads, waas>>

Start(c) == \E kind \in Starts : Clear(c, kind)
SignOut(c) == Clear(c, "signOut")

(* The key is deleted, or stays when that fails, and the call fails with it.*)
(* The redirect and the ID token note the revision now.                     *)
Cleared(c) ==
  /\ At(c, "clearing")
  /\ \/ key' = key /\ Finish(c, "done")
     \/ /\ key' = 0
        /\ CASE op[c].kind = "signOut" -> Finish(c, "done")
             [] op[c].kind = "startEmail" -> Goto(c, "commit")
             [] op[c].kind = "startRedirect" -> op' = [op EXCEPT ![c].pc = "commit", ![c].guard = rev]
             [] op[c].kind = "idToken" -> op' = [op EXCEPT ![c].pc = "hash", ![c].guard = rev]
  /\ UNCHANGED <<client, redirect, made, expiring, reloads, waas>>

SendCommit(c) ==
  /\ At(c, "commit") /\ MaySend
  /\ \E k \in Keys : UseKey(k)
  /\ \/ /\ verifier' = [verifier EXCEPT ![c] = "open"]
        /\ Reply(c, "ok")
     \/ /\ Reply(c, "failed")
        /\ UNCHANGED verifier
  /\ UNCHANGED <<client, redirect, expiring, reloads, tries, authorised>>

(* The e-mail attempt is set whatever happened meanwhile.                   *)
Committed(c) ==
  /\ Answered(c, "commit")
  /\ \/ /\ op[c].reply = "ok"
        /\ CASE op[c].kind = "startEmail" ->
                  /\ email' = c /\ completing' = None
                  /\ Finish(c, "done")
             [] op[c].kind = "startRedirect" ->
                  Goto(c, "save") /\ UNCHANGED <<email, completing>>
             [] op[c].kind = "idToken" ->
                  /\ op' = [op EXCEPT ![c].pc = "complete", ![c].reply = "none", ![c].of = c]
                  /\ UNCHANGED <<email, completing>>
     \/ /\ Finish(c, "done")
        /\ UNCHANGED <<email, completing>>
  /\ UNCHANGED <<rev, session, selection, inFlight, redirect, signer, expiring, reloads, waas>>

(* Mutant: a sign-in goes on whatever happened meanwhile.                   *)
AnyRevision(c) == TRUE

(* requireCurrentSessionRevision                                            *)
RevisionCurrent(c) == op[c].guard = rev

SaveRedirect(c) ==
  /\ At(c, "save")
  /\ \E k \in Keys :
       /\ UseKey(k)
       /\ redirect' = IF RevisionCurrent(c) THEN [of |-> c, key |-> k, consumed |-> FALSE]
                      ELSE redirect
  /\ Finish(c, "done")
  /\ UNCHANGED <<client, expiring, reloads, waas>>

-----------------------------------------------------------------------------
(* The end of a sign-in *)

(* Mutant: any attempt will do.                                             *)
AnyAttempt(c) == email # None

(* requireActiveEmailAuthAttempt                                            *)
AttemptIsCurrent(c) == email = op[c].of

(* The guard of a completion.                                               *)
StillCurrent(c) ==
  IF op[c].kind = "email" THEN AttemptIsCurrent(c) ELSE RevisionCurrent(c)

(* Mutant: the attempt is dropped, its completion stays.                    *)
KeepsCompletion(c, consumed) ==
  /\ email' = IF op[c].kind = "email" /\ email = op[c].of THEN None ELSE email
  /\ UNCHANGED completing
  /\ redirect' = IF op[c].kind = "callback" THEN NoRedirect ELSE redirect

(* A failed e-mail completion may be tried again, unless WaaS has used up   *)
(* its verifier; a redirect's record is deleted, whichever it is by now.    *)
Cleanup(c, consumed) ==
  /\ IF op[c].kind = "email" /\ email = op[c].of /\ completing = c
       THEN /\ email' = IF consumed THEN None ELSE email
            /\ completing' = None
       ELSE UNCHANGED <<email, completing>>
  /\ redirect' = IF op[c].kind = "callback" THEN NoRedirect ELSE redirect

Fail(c, consumed) ==
  /\ Cleanup(c, consumed)
  /\ Finish(c, "done")
  /\ UNCHANGED <<rev, session, selection, inFlight>>

-----------------------------------------------------------------------------
(* Completing a sign-in *)

(* completeEmailAuth; another call with the same parameters meanwhile gets  *)
(* the same promise, one with other parameters an error.                    *)
CompleteEmail(c) ==
  /\ At(c, "idle") /\ "email" \in Kinds
  /\ email # None /\ completing = None
  /\ completing' = c
  /\ op' = [op EXCEPT ![c].kind = "email", ![c].pc = "hash", ![c].of = email, ![c].began = rev]
  /\ UNCHANGED <<rev, session, email, selection, inFlight, redirect, signer, expiring, reloads, waas>>

Hashed(c) ==
  /\ At(c, "hash")
  /\ CASE op[c].kind = "idToken" -> Goto(c, "commit") /\ UNCHANGED <<client, redirect>>
       [] op[c].kind = "email" ->
            IF AttemptIsCurrent(c) THEN Goto(c, "complete") /\ UNCHANGED <<client, redirect>>
            ELSE Fail(c, FALSE)
  /\ UNCHANGED <<signer, expiring, reloads, waas>>

(* Mutant: a consumed record is taken again.                                *)
AnyRecord(r) == redirect.of = r

(* The record of this callback URL, and not yet used.                       *)
RecordOf(r) == redirect.of = r /\ ~redirect.consumed

(* completeOidcRedirectAuth marks the record before anything else; if the   *)
(* provider's answer is an error, that is the end of it.                    *)
Callback(c) ==
  /\ At(c, "idle") /\ "callback" \in Kinds
  /\ \E r \in Calls :
       /\ RecordOf(r)
       /\ \/ /\ redirect' = [redirect EXCEPT !.consumed = TRUE]
             /\ op' = [op EXCEPT ![c].kind = "callback", ![c].pc = "signer", ![c].of = r,
                                 ![c].key = redirect.key, ![c].began = rev]
          \/ /\ redirect' = NoRedirect
             /\ op' = [op EXCEPT ![c].kind = "callback", ![c].pc = "done"]
  /\ UNCHANGED <<client, signer, expiring, reloads, waas>>

(* validatePendingOidcRedirectSigner; then the revision is noted.           *)
SignerValidated(c) ==
  /\ At(c, "signer") /\ KeyAccess
  /\ IF key = op[c].key
       THEN /\ op' = [op EXCEPT ![c].pc = "complete", ![c].guard = rev]
            /\ UNCHANGED <<client, redirect>>
       ELSE Fail(c, FALSE)
  /\ UNCHANGED <<signer, expiring, reloads, waas>>

(* CompleteAuth; a right answer uses up the verifier and authorises the key.*)
SendComplete(c) ==
  LET v == op[c].of IN
  /\ At(c, "complete") /\ MaySend
  /\ tries' = [tries EXCEPT ![v] = IF @ < 2 THEN @ + 1 ELSE @]
  /\ \E k \in Keys :
       /\ UseKey(k)
       /\ \/ /\ verifier[v] = "open"
             /\ verifier' = [verifier EXCEPT ![v] = "consumed"]
             /\ authorised' = authorised \cup {<<v, k>>}
             /\ Reply(c, "ok")
          \/ /\ verifier[v] = "consumed"
             /\ Reply(c, "consumed")
             /\ UNCHANGED <<verifier, authorised>>
          \/ /\ Reply(c, "failed")
             /\ UNCHANGED <<verifier, authorised>>
  /\ UNCHANGED <<client, redirect, expiring, reloads>>

(* completeWalletAuth begins. An answer may be lost.                        *)
Completed(c) ==
  /\ Answered(c, "complete")
  /\ \/ /\ op[c].reply = "ok" /\ (op[c].kind = "email" => AttemptIsCurrent(c))
        /\ selection' = None
        /\ Goto(c, "identify")
        /\ UNCHANGED <<rev, session, email, completing, inFlight, redirect>>
     \/ Fail(c, op[c].reply = "consumed")
  /\ UNCHANGED <<signer, expiring, reloads, waas>>

(* sessionMetadataFromAuthResponse                                          *)
Identify(c) ==
  /\ At(c, "identify")
  /\ \E k \in Keys :
       /\ UseKey(k)
       /\ op' = [op EXCEPT ![c].pc = "list", ![c].key = k]
  /\ UNCHANGED <<client, redirect, expiring, reloads, waas>>

Authorised(k) == \E v \in Calls : <<v, k>> \in authorised

(* listAllWalletsFromAuthResponse: a further page.                          *)
SendList(c) ==
  /\ At(c, "list") /\ MaySend
  /\ \E k \in Keys :
       /\ UseKey(k)
       /\ \/ Authorised(k) /\ Reply(c, "ok")
          \/ Reply(c, "failed")
  /\ UNCHANGED <<client, redirect, expiring, reloads, waas>>

Choose(c) ==
  IF StillCurrent(c)
    THEN /\ \E pc \in {"use", "selecting"} : Goto(c, pc)
         /\ UNCHANGED <<client, redirect>>
    ELSE Fail(c, FALSE)

(* No page is left: the wallet is chosen, or left to the app.               *)
Listed(c) ==
  /\ \/ At(c, "list") /\ Choose(c)
     \/ Answered(c, "list") /\ op[c].reply = "ok" /\ Choose(c)
     \/ Answered(c, "list") /\ Fail(c, FALSE)
  /\ UNCHANGED <<signer, expiring, reloads, waas>>

(* UseWallet, ClaimWallet or CreateWallet                                   *)
SendUse(c) ==
  /\ At(c, "use") /\ MaySend
  /\ \E k \in Keys :
       /\ UseKey(k)
       /\ \/ Authorised(k) /\ Reply(c, "ok")
          \/ Reply(c, "failed")
  /\ UNCHANGED <<client, redirect, expiring, reloads, waas>>

(* activateWallet                                                           *)
Activate(auth, k) ==
  /\ session' = [auth |-> auth, cred |-> k]
  /\ selection' = None
  /\ UNCHANGED <<rev, inFlight>>

Succeed(c, pc) ==
  /\ email' = IF op[c].kind = "email" /\ email = op[c].of THEN None ELSE email
  /\ completing' = IF email' = None THEN None ELSE completing
  /\ redirect' = IF op[c].kind = "callback" THEN NoRedirect ELSE redirect
  /\ Finish(c, pc)

Used(c) ==
  /\ op[c].kind \in Completions
  /\ Answered(c, "use")
  /\ \/ /\ op[c].reply = "ok" /\ StillCurrent(c)
        /\ Activate(op[c].of, op[c].key)
        /\ Succeed(c, "done")
     \/ Fail(c, FALSE)
  /\ UNCHANGED <<signer, expiring, reloads, waas>>

(* createPendingWalletSelection                                             *)
CreatePendingWalletSelection(c) ==
  /\ At(c, "selecting")
  /\ \E k \in Keys : UseKey(k)
  /\ IF StillCurrent(c)
       THEN /\ selection' = c
            /\ Succeed(c, "selected")
            /\ UNCHANGED <<rev, session, inFlight>>
       ELSE Fail(c, FALSE)
  /\ UNCHANGED <<expiring, reloads, waas>>

-----------------------------------------------------------------------------
(* Actions on a pending selection *)

Stale(c) ==
  /\ Finish(c, "done")
  /\ inFlight' = IF op[c].pc = "before" THEN inFlight ELSE inFlight \ {op[c].of}

(* Mutant: the flag is not looked at again after the wait.                  *)
NeverBusy(s) == FALSE
Busy(s) == s \in inFlight

(* A choice of the app, or an import while a selection is pending:          *)
(* runPendingWalletSelectionAction. It looks at the selection before and    *)
(* after it waits for the signer.                                           *)
Select(c) ==
  /\ At(c, "idle")
  /\ \E s \in Calls, kind \in Choices \cap Kinds :
       /\ op[s].pc = "selected"
       /\ s \notin inFlight /\ selection = s
       /\ op' = [op EXCEPT ![c].kind = kind, ![c].pc = "before", ![c].of = s, ![c].began = rev]
  /\ UNCHANGED <<client, redirect, signer, expiring, reloads, waas>>

SelectionActive(c) == key = op[op[c].of].key /\ selection = op[c].of

(* A choice looks at the selection once more; an import fetches WaaS's key. *)
AfterBefore(c) == IF op[c].kind = "select" THEN "again" ELSE "use"

(* Without a key, whatever selection there is is dropped.                   *)
CheckSelection(c) ==
  /\ op[c].pc \in {"before", "again", "after"} /\ KeyAccess
  /\ selection' = IF key = 0 THEN None
                  ELSE IF op[c].pc = "after" /\ SelectionActive(c) THEN None ELSE selection
  /\ IF ~SelectionActive(c) \/ (op[c].pc = "before" /\ Busy(op[c].of))
       THEN Stale(c) /\ UNCHANGED session
       ELSE CASE op[c].pc = "before" ->
                   Goto(c, AfterBefore(c)) /\ inFlight' = inFlight \cup {op[c].of} /\ UNCHANGED session
              [] op[c].pc = "again" ->
                   Goto(c, "use") /\ UNCHANGED <<inFlight, session>>
              [] op[c].pc = "after" ->
                   /\ session' = [auth |-> op[op[c].of].of, cred |-> op[op[c].of].key]
                   /\ inFlight' = inFlight \ {op[c].of}
                   /\ Finish(c, "done")
  /\ UNCHANGED <<rev, email, completing, redirect, signer, expiring, reloads, waas>>

SelectedUsed(c) ==
  /\ op[c].kind \in Choices
  /\ Answered(c, "use")
  /\ \/ /\ op[c].reply = "ok" /\ selection = op[c].of
        /\ Goto(c, "after")
        /\ UNCHANGED inFlight
     \/ Stale(c)
  /\ UNCHANGED <<rev, session, email, completing, selection, redirect, signer, expiring, reloads, waas>>

(* A selection nobody acts on expires with its credential.                  *)
SelectionExpires ==
  /\ selection # None /\ rev < MaxRev /\ expiring = 0
  /\ ResetSessionStateInMemory
  /\ expiring' = op[selection].key
  /\ UNCHANGED <<redirect, op, signer, reloads, waas>>

(* Only the key that expired is deleted.                                    *)
ExpiredKeyDeleted ==
  /\ expiring # 0
  /\ key' = IF key = expiring THEN 0 ELSE key
  /\ expiring' = 0
  /\ UNCHANGED <<client, redirect, op, made, reloads, waas>>

-----------------------------------------------------------------------------
(* The page is loaded again: what is not stored is lost.                    *)

Reload ==
  /\ reloads < MaxReload
  /\ reloads' = reloads + 1
  /\ \/ UNCHANGED key
     \/ /\ expiring = key \/ \E c \in Calls : op[c].pc = "clearing"
        /\ key' = 0
  /\ session' = IF session.cred = key' THEN session ELSE NoSession
  /\ rev' = 0
  /\ email' = None /\ completing' = None /\ selection' = None
  /\ inFlight' = {} /\ expiring' = 0
  /\ op' = [c \in Calls |-> IF op[c].pc = "idle" THEN NoOp ELSE Ended(op[c], "done")]
  /\ UNCHANGED <<redirect, made, waas>>

-----------------------------------------------------------------------------
(* The specification *)

Init ==
  /\ rev = 0
  /\ session = NoSession
  /\ email = None /\ completing = None /\ selection = None
  /\ inFlight = {}
  /\ redirect = NoRedirect
  /\ op = [c \in Calls |-> NoOp]
  /\ key = 0 /\ made = 0 /\ expiring = 0 /\ reloads = 0
  /\ verifier = [c \in Calls |-> "none"]
  /\ tries = [c \in Calls |-> 0]
  /\ authorised = {}

Next ==
  \/ \E c \in Calls :
       \/ Start(c) \/ SignOut(c) \/ Cleared(c) \/ SendCommit(c) \/ Committed(c)
       \/ SaveRedirect(c) \/ CompleteEmail(c) \/ Hashed(c) \/ Callback(c)
       \/ SignerValidated(c) \/ SendComplete(c) \/ Completed(c) \/ Identify(c)
       \/ SendList(c) \/ Listed(c) \/ SendUse(c) \/ Used(c)
       \/ CreatePendingWalletSelection(c) \/ Select(c) \/ CheckSelection(c)
       \/ SelectedUsed(c)
  \/ SelectionExpires \/ ExpiredKeyDeleted \/ Reload

Spec == Init /\ [][Next]_vars

-----------------------------------------------------------------------------
(* Properties *)

(* The key a session names was authorised by the sign-in the session names, *)
(* whatever happened to the signer's key while it was completed.            *)
SessionIsAuthorised ==
  session # NoSession => <<session.auth, session.cred>> \in authorised

(* The answer of one redirect is sent to WaaS at most once, by whatever     *)
(* callbacks, reloads and failures.                                         *)
CallbackSentOnce ==
  \A c \in Calls : op[c].kind = "startRedirect" => tries[c] <= 1

(* One wallet is used, claimed or created at a time from a selection.       *)
SelectionIsExclusive ==
  \A c, d \in Calls :
    /\ op[c].kind \in Choices /\ op[d].kind \in Choices
    /\ op[c].pc \in {"again", "use", "after"} /\ op[d].pc \in {"again", "use", "after"}
    /\ op[c].of = op[d].of
    => c = d

(* The calls that set the session in this step.                             *)
SetsSession(c) ==
  /\ session' # session /\ session' # NoSession
  /\ op[c].pc # "done" /\ op'[c].pc = "done"

NotOvertaken(c) == SetsSession(c) => op[c].began = rev

(* An e-mail code and a choice of wallet set no session once a later        *)
(* sign-in or sign-out has begun.                                           *)
OvertakenNeverSignsIn ==
  [][\A c \in Calls : op[c].kind \in {"email"} \cup Choices => NotOvertaken(c)]_vars

=============================================================================
