----------------------------- MODULE Connector -----------------------------
(***************************************************************************)
(* The wagmi connector (omsWalletConnector.ts, provider.ts) on a wallet    *)
(* client that publishes its session changes (onSessionChange of           *)
(* walletClient.ts), and what wagmi shows of it.                           *)
(*                                                                         *)
(* A change is queued for the listeners of that moment and delivered later,*)
(* in order; the connector listens while it is connected, and remembers in *)
(* wagmi's storage that the user has disconnected.                         *)
(*                                                                         *)
(* Abstractions: an Ethereum wallet is its account; chains, capabilities,  *)
(* message formats and the provider's own listeners are left out; signing  *)
(* stands for sending a transaction too; wagmi's storage serves its        *)
(* requests in order and may fail.                                         *)
(***************************************************************************)
EXTENDS Naturals, Sequences

CONSTANTS
  Calls,         \* the calls of wagmi and the app under way
  Kinds,         \* the calls made
  Ethereum,      \* the Ethereum wallets
  Others,        \* the other wallets
  MaxChange,     \* bound: session changes
  MaxListener,   \* bound: listeners the connector ever registers
  MaxStorage     \* bound: storage requests under way

NoWallet == "none"

ASSUME ConstantsAssumption ==
  /\ Kinds \subseteq {"connect", "reconnect", "request", "disconnect", "sign"}
  /\ NoWallet \notin Ethereum \cup Others \cup Calls
  /\ MaxChange \in Nat /\ MaxListener \in Nat /\ MaxStorage \in Nat

VARIABLES
  wallet,        \* activeWallet of the client
  ending,        \* a session that has ended, "signedOut" or "expired", unpublished
  expired,       \* latestExpiredChange
  changes,       \* how often the session has changed
  queue,         \* pendingSessionChanges, of the connector's listeners
  draining,      \* deliverSessionChanges is running
  listener,      \* the connector's listener, 0 for none (stopFollowingSession)
  listeners,     \* the listeners registered so far
  account,       \* connectedAddress
  flag,          \* manuallyDisconnected
  fresh,         \* the calls that read this manuallyDisconnectedVersion of it
  touched,       \* whether it was set, a version after the first
  storage,       \* the stored flag, and the requests to it, in order
  call,          \* the calls under way
  app,           \* wagmi: the account it shows, if connected
  hears,         \* wagmi: whether it listens to the connector
  raced          \* a change has met a call that has read its account, or a loss
                 \* of the wallet, a disconnect or a failed call one to connect

client == <<wallet, ending, expired, changes>>
events == <<queue, draining>>
followed == <<listener, listeners, account>>
remembered == <<flag, fresh, touched>>
connector == <<followed, remembered>>
wagmi == <<app, hears>>
vars == <<client, events, connector, storage, call, wagmi, raced>>

-----------------------------------------------------------------------------
(* Types *)

Wallets == Ethereum \cup Others
WalletOrNone == Wallets \cup {NoWallet}
Account == Ethereum \cup {NoWallet}

Connecting == {"connect", "reconnect", "request"}
PCs == {"idle", "clearing", "follow", "authorize", "reading", "wallet", "behind", "got",
        "linking", "linked", "leaving", "signing"}

Answers == {"none", "true", "absent", "failed"}
Request == [by : Calls \cup {NoWallet}, op : {"read", "set", "remove"}]

NoCall == [kind |-> NoWallet, pc |-> "idle", answer |-> "none", got |-> NoWallet]

TypeOK ==
  /\ wallet \in WalletOrNone
  /\ ending \in {"no", "signedOut", "expired"}
  /\ expired \in BOOLEAN
  /\ changes \in 0..MaxChange
  /\ queue \in Seq([wallet : WalletOrNone, to : 1..MaxListener])
  /\ draining \in BOOLEAN
  /\ listener \in 0..MaxListener
  /\ listeners \in 0..MaxListener
  /\ account \in Account
  /\ flag \in BOOLEAN
  /\ fresh \subseteq Calls
  /\ touched \in BOOLEAN
  /\ storage \in [flag : BOOLEAN, todo : Seq(Request), failed : BOOLEAN]
  /\ call \in [Calls -> [kind : Kinds \cup {NoWallet}, pc : PCs, answer : Answers, got : Account]]
  /\ app \in Account
  /\ hears \in BOOLEAN
  /\ raced \in BOOLEAN

-----------------------------------------------------------------------------
(* The session and its changes *)

(* While changes are delivered nothing goes on that has been waiting. What a*)
(* listener may start there and then, a sign-out or a call, has no such     *)
(* guard.                                                                   *)
Free == ~draining

(* A call to connect is under way, or one that has read the account that it *)
(* will make wagmi show.                                                    *)
SomeInConnect == \E c \in Calls : call[c].kind \in Connecting
OthersConnect(c) == \E d \in Calls \ {c} : call[d].kind \in Connecting
HasRead(c) ==
  \/ call[c].pc \in {"behind", "linking", "linked"}
  \/ call[c].pc = "got" /\ call[c].kind # "request"
SomeHasRead == \E c \in Calls : HasRead(c)

(* Mutant: a change is queued even if nobody listens.                       *)
PublishAlways(w) == queue' = Append(queue, [wallet |-> w, to |-> listener])

(* publishSessionChange, to the connector                                   *)
Publish(w) ==
  queue' = IF listener = 0 THEN queue ELSE Append(queue, [wallet |-> w, to |-> listener])

Change ==
  /\ changes < MaxChange
  /\ changes' = changes + 1
  /\ raced' = (raced \/ SomeHasRead)
  /\ UNCHANGED <<draining, connector, storage, call, wagmi>>

(* A sign-in, or another wallet of the session.                             *)
SetWallet ==
  /\ Free
  /\ Change
  /\ \E w \in Wallets :
       /\ wallet' = w
       /\ Publish(w)
  /\ ending' = "no"
  /\ expired' = FALSE

(* The wallet is gone at once; the change is published after the cleanup.   *)
EndSession ==
  /\ Change
  /\ wallet # NoWallet
  /\ wallet' = NoWallet
  /\ ending' \in {"signedOut", "expired"}
  /\ expired' = (ending' = "expired" /\ expired)
  /\ UNCHANGED queue

EndPublished ==
  /\ Free
  /\ ending # "no"
  /\ ending' = "no"
  /\ expired' = (ending = "expired")
  /\ Publish(NoWallet)
  /\ raced' = (raced \/ SomeHasRead)
  /\ UNCHANGED <<wallet, changes, draining, connector, storage, call, wagmi>>

-----------------------------------------------------------------------------
(* The connector *)

(* A storage request, in order.                                             *)
Ask(c, op) == storage' = [storage EXCEPT !.todo = Append(@, [by |-> c, op |-> op])]
MayAsk == Len(storage.todo) < MaxStorage

SetManuallyDisconnected(c, next) ==
  /\ MayAsk
  /\ fresh' = {}
  /\ touched' = TRUE
  /\ flag' = next
  /\ Ask(c, IF next THEN "set" ELSE "remove")

UnfollowSession ==
  /\ listener' = 0
  /\ account' = NoWallet
  /\ UNCHANGED listeners

(* What wagmi does when the connector says it is disconnected.              *)
WagmiDisconnects ==
  /\ app' = IF hears THEN NoWallet ELSE app
  /\ hears' = FALSE

(* Mutant: a wallet of another kind is no change.                           *)
FollowsEthereum(w) ==
  \/ /\ w # NoWallet
     /\ account' = IF w \in Ethereum THEN w ELSE account
     /\ app' = IF hears /\ app # NoWallet THEN account' ELSE app
     /\ UNCHANGED <<listener, listeners, remembered, storage, hears>>
  \/ /\ w = NoWallet
     /\ UnfollowSession
     /\ SetManuallyDisconnected(NoWallet, TRUE)
     /\ WagmiDisconnects

(* The listener, called with the wallet after the change.                   *)
FollowChange(w) ==
  \/ /\ w \in Ethereum
     /\ account' = w
     /\ app' = IF hears /\ app # NoWallet /\ w # account THEN w ELSE app
     /\ UNCHANGED <<listener, listeners, remembered, storage, hears>>
  \/ /\ w \notin Ethereum
     /\ UnfollowSession
     /\ SetManuallyDisconnected(NoWallet, TRUE)
     /\ WagmiDisconnects

(* A listener that unsubscribed meanwhile gets nothing.                     *)
StillListens(e) == e.to = listener

(* deliverSessionChanges, as a microtask: a call that had read its account  *)
(* before it was queued goes on first, one that read it later goes on next. *)
Deliver ==
  /\ queue # <<>>
  /\ \A c \in Calls : call[c].pc # "got"
  /\ queue' = Tail(queue)
  /\ draining' = (Tail(queue) # <<>>)
  /\ IF StillListens(Head(queue)) THEN FollowChange(Head(queue).wallet)
     ELSE UNCHANGED <<connector, storage, wagmi>>
  /\ call' = [c \in Calls |->
       IF call[c].pc = "behind" /\ ~draining' THEN [call[c] EXCEPT !.pc = "got"] ELSE call[c]]
  /\ raced' = \/ raced
               \/ /\ StillListens(Head(queue)) /\ Head(queue).wallet \notin Ethereum
                  /\ SomeInConnect
  /\ UNCHANGED client

-----------------------------------------------------------------------------
(* Calls *)

Goto(c, pc) == call' = [call EXCEPT ![c].pc = pc, ![c].answer = "none"]
Return(c) == call' = [call EXCEPT ![c] = NoCall]

ReadFlag(c, kind, pc) ==
  /\ MayAsk
  /\ Ask(c, "read")
  /\ call' = [call EXCEPT ![c] = [NoCall EXCEPT !.kind = kind, !.pc = pc]]
  /\ fresh' = fresh \cup {c}
  /\ UNCHANGED <<flag, touched>>

(* wagmi's connect, and eth_requestAccounts, forget the disconnect first.   *)
Connect(c) ==
  /\ call[c].pc = "idle"
  /\ \E kind \in {"connect", "request"} \cap Kinds :
       /\ SetManuallyDisconnected(c, FALSE)
       /\ call' = [call EXCEPT ![c].kind = kind, ![c].pc = "clearing"]
  /\ UNCHANGED <<client, events, followed, wagmi, raced>>

FlagCleared(c) ==
  /\ Free /\ call[c].pc = "clearing" /\ call[c].answer # "none"
  /\ IF call[c].answer = "failed" THEN Return(c) ELSE Goto(c, "follow")
  /\ UNCHANGED <<client, events, connector, storage, wagmi, raced>>

(* wagmi's reconnect asks isAuthorized first.                               *)
Reconnect(c) ==
  /\ call[c].pc = "idle" /\ "reconnect" \in Kinds
  /\ ReadFlag(c, "reconnect", "authorize")
  /\ UNCHANGED <<client, events, followed, wagmi, raced>>

(* Mutant: a stale read is taken.                                           *)
AnyVersion(c) == TRUE

(* isManuallyDisconnected: what was read is taken unless the flag was set   *)
(* meanwhile.                                                               *)
SameVersion(c) == c \in fresh

FlagRead(c) == call[c].answer = "true" /\ SameVersion(c)

TakeFlag(c) ==
  /\ flag' = (flag \/ FlagRead(c))
  /\ fresh' = fresh \ {c}

(* A read that fails makes its caller fail; nothing is followed yet.        *)
Authorize(c) ==
  /\ Free /\ call[c].pc = "authorize" /\ call[c].answer # "none"
  /\ IF call[c].answer = "failed" THEN Return(c) /\ fresh' = fresh \ {c} /\ UNCHANGED flag
     ELSE /\ TakeFlag(c)
          /\ IF flag' \/ wallet \notin Ethereum THEN Return(c) ELSE Goto(c, "follow")
  /\ UNCHANGED <<client, events, followed, touched, storage, wagmi, raced>>

(* followSession; an expiry not yet heard of is replayed. Then accounts.    *)
Follow(c) ==
  /\ Free /\ call[c].pc = "follow"
  /\ IF listener # 0 THEN UNCHANGED <<queue, listener, listeners>>
     ELSE /\ listeners < MaxListener
          /\ listeners' = listeners + 1
          /\ listener' = listeners + 1
          /\ queue' = IF expired /\ wallet = NoWallet
                        THEN Append(queue, [wallet |-> NoWallet, to |-> listener'])
                        ELSE queue
  /\ ReadFlag(c, call[c].kind, "reading")
  /\ raced' = (raced \/ queue # <<>>)
  /\ UNCHANGED <<client, draining, account, wagmi>>

(* Mutant: the listener stays after a failed connect.                       *)
LeavesListener(c) ==
  /\ Return(c)
  /\ UNCHANGED <<followed, raced>>

(* connectWallet fails and stops following, for other calls too.            *)
ConnectFails(c) ==
  /\ Return(c)
  /\ IF call[c].kind = "sign" THEN UNCHANGED <<followed, raced>>
     ELSE /\ UnfollowSession
          /\ raced' = (raced \/ app # NoWallet \/ OthersConnect(c))

(* accounts                                                                 *)
FlagTaken(c) ==
  /\ Free /\ call[c].pc = "reading" /\ call[c].answer # "none"
  /\ IF call[c].answer = "failed" THEN ConnectFails(c) /\ fresh' = fresh \ {c} /\ UNCHANGED flag
     ELSE /\ TakeFlag(c)
          /\ IF flag' THEN ConnectFails(c)
             ELSE Goto(c, "wallet") /\ UNCHANGED <<followed, raced>>
  /\ UNCHANGED <<client, events, touched, storage, wagmi>>

WalletRead(c) ==
  /\ Free /\ call[c].pc = "wallet"
  /\ IF wallet \notin Ethereum THEN ConnectFails(c)
     ELSE IF call[c].kind = "sign"
       THEN /\ IF wallet = call[c].got THEN Goto(c, "signing") ELSE Return(c)
            /\ UNCHANGED <<followed, raced>>
       ELSE /\ call' = [call EXCEPT ![c].pc = IF queue = <<>> THEN "got" ELSE "behind",
                                    ![c].got = wallet]
            /\ UNCHANGED <<followed, raced>>
  /\ UNCHANGED <<client, events, remembered, storage, wagmi>>

(* The account is reported; wagmi goes on in its own steps.                 *)
Connected(c) ==
  /\ Free /\ call[c].pc = "got"
  /\ account' = call[c].got
  /\ IF call[c].kind = "request" THEN Return(c) ELSE Goto(c, "linking")
  /\ UNCHANGED <<client, events, listener, listeners, remembered, storage, wagmi, raced>>

(* wagmi listens, and shows the account after a write to its storage.       *)
WagmiListens(c) ==
  /\ Free /\ call[c].pc = "linking"
  /\ hears' = TRUE
  /\ Goto(c, "linked")
  /\ UNCHANGED <<client, events, connector, storage, app, raced>>

WagmiShows(c) ==
  /\ Free /\ call[c].pc = "linked"
  /\ app' = call[c].got
  /\ Return(c)
  /\ UNCHANGED <<client, events, connector, storage, hears, raced>>

(* wagmi's disconnect                                                       *)
Disconnect(c) ==
  /\ call[c].pc = "idle" /\ "disconnect" \in Kinds
  /\ app # NoWallet
  /\ UnfollowSession
  /\ SetManuallyDisconnected(c, TRUE)
  /\ call' = [call EXCEPT ![c].kind = "disconnect", ![c].pc = "leaving"]
  /\ raced' = (raced \/ SomeInConnect)
  /\ UNCHANGED <<client, events, wagmi>>

Disconnected(c) ==
  /\ Free /\ call[c].pc = "leaving" /\ call[c].answer # "none"
  /\ IF call[c].answer = "failed" THEN UNCHANGED wagmi
     ELSE app' = NoWallet /\ hears' = FALSE
  /\ Return(c)
  /\ raced' = (raced \/ SomeInConnect)
  /\ UNCHANGED <<client, events, connector, storage>>

(* A request for the account wagmi shows: requireMatchingAccount.           *)
SignMessage(c) ==
  /\ call[c].pc = "idle" /\ "sign" \in Kinds
  /\ app # NoWallet
  /\ MayAsk
  /\ Ask(c, "read")
  /\ fresh' = fresh \cup {c}
  /\ call' = [call EXCEPT ![c] = [NoCall EXCEPT !.kind = "sign", !.pc = "reading", !.got = app]]
  /\ UNCHANGED <<client, events, followed, flag, touched, wagmi, raced>>

(* The client signs with the wallet that is active by now.                  *)
Signed(c) ==
  /\ Free /\ call[c].pc = "signing"
  /\ Return(c)
  /\ UNCHANGED <<client, events, connector, storage, wagmi, raced>>

-----------------------------------------------------------------------------
(* wagmi's storage *)

(* Changes are delivered in a microtask, before storage answers.            *)
Serve ==
  /\ Free /\ queue = <<>> /\ storage.todo # <<>>
  /\ LET r == Head(storage.todo)
         rest == Tail(storage.todo)
         Answer(a) == call' = IF r.by \in Calls THEN [call EXCEPT ![r.by].answer = a] ELSE call
     IN \/ /\ r.op = "read"
           /\ Answer(IF storage.flag THEN "true" ELSE "absent")
           /\ storage' = [storage EXCEPT !.todo = rest]
        \/ /\ r.op # "read"
           /\ Answer("absent")
           /\ storage' = [storage EXCEPT !.todo = rest, !.flag = (r.op = "set")]
        \/ /\ Answer("failed")
           /\ storage' = [storage EXCEPT !.todo = rest, !.failed = TRUE]
  /\ UNCHANGED <<client, events, connector, wagmi, raced>>

(* Everything is settled once wagmi shows nothing and nothing is under way. *)
Settled ==
  /\ raced /\ Free /\ app = NoWallet /\ listener = 0 /\ ~hears
  /\ \A c \in Calls : call[c].pc = "idle"
  /\ raced' = FALSE
  /\ UNCHANGED <<client, events, connector, storage, call, wagmi>>

-----------------------------------------------------------------------------
(* The specification *)

Init ==
  /\ wallet \in WalletOrNone
  /\ ending = "no" /\ expired \in {FALSE, wallet = NoWallet} /\ changes = 0
  /\ queue = <<>> /\ draining = FALSE
  /\ listener = 0 /\ listeners = 0 /\ account = NoWallet
  /\ flag = FALSE /\ fresh = {} /\ touched = FALSE
  /\ storage \in [flag : BOOLEAN, todo : {<<>>}, failed : {FALSE}]
  /\ call = [c \in Calls |-> NoCall]
  /\ app = NoWallet /\ hears = FALSE /\ raced = FALSE

CallStep(c) ==
  \/ Connect(c) \/ FlagCleared(c) \/ Reconnect(c) \/ Authorize(c) \/ Follow(c)
  \/ FlagTaken(c) \/ WalletRead(c) \/ Connected(c) \/ WagmiListens(c) \/ WagmiShows(c)
  \/ Disconnect(c) \/ Disconnected(c) \/ SignMessage(c) \/ Signed(c)

Next ==
  \/ \E c \in Calls : CallStep(c)
  \/ SetWallet \/ EndSession \/ EndPublished \/ Deliver \/ Serve \/ Settled

Spec == Init /\ [][Next]_vars

-----------------------------------------------------------------------------
(* Properties *)

(* The connector leaves no listener on the shared wallet: it listens only   *)
(* while it is connected, or a call is about to connect it.                 *)
ListensOnlyConnected ==
  listener # 0 => account # NoWallet \/ SomeInConnect

(* Once its storage is idle and nothing has failed,  the connector's flag   *)
(* is the stored one, so that a reload of the page finds what the user did  *)
(* last.                                                                    *)
FlagIsStored ==
  /\ touched /\ storage.todo = <<>> /\ ~storage.failed
  => flag = storage.flag

Quiet ==
  /\ queue = <<>> /\ ending = "no"
  /\ \A c \in Calls : call[c].pc \notin {"leaving", "linking", "linked"}

(* wagmi shows the active wallet and hears of its changes, also of those    *)
(* made while a call to connect was still reading its account, as long as   *)
(* no change met a call that had read it, no loss of the wallet, disconnect *)
(* or failed call met another call to connect, and storage works.           *)
AppShowsWallet ==
  Quiet /\ app # NoWallet /\ ~raced /\ ~storage.failed => app = wallet /\ listener # 0 /\ hears

=============================================================================
