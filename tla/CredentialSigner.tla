-------------------------- MODULE CredentialSigner --------------------------
(***************************************************************************)
(* WebCryptoP256CredentialSigner of credentialSigner.ts: the signers of the*)
(* tabs of one origin, which share one stored key through IndexedDB, or    *)
(* have one each where there is no IndexedDB. Each keeps a copy of the key *)
(* in memory, and runs several calls at once.                              *)
(*                                                                         *)
(* A step is what runs between two awaits, and an IndexedDB transaction is *)
(* one step. A key is a number, counted up as keys are generated; "pair"   *)
(* and "cred" are the key whose pair and whose credential ID are held. The *)
(* clock is any number, so a nonce is any above the last one.              *)
(*                                                                         *)
(* The signature itself and hasCredential, which only reads, are left out; *)
(* SignedRequests has what a request does with the answers.                *)
(***************************************************************************)
EXTENDS Naturals

CONSTANTS
  Signers,       \* the signers, one of each tab
  Calls,         \* bound: the calls one signer runs at once
  Single,        \* bound: the signers that run one call at once
  Loads,         \* bound: the initializations of one signer at once: a load
                 \* that a clear gave up may run beside the next
  MaxKey,        \* bound: generated keys
  MaxNonce       \* bound: nonces

ASSUME ConstantsAssumption ==
  /\ MaxKey \in Nat /\ MaxNonce \in Nat
  /\ Loads \cap {"none", "done", "failed"} = {}

VARIABLES
  indexed,       \* whether there is IndexedDB
  stored,        \* the stored record
  made,          \* the number of keys generated
  memory,        \* keyPair, credential and nonce of each signer
  initialized,   \* the promise of each signer: its load, or how that ended
  call,          \* the calls of each signer
  load,          \* loadOrCreate, as often as a signer runs it
  kept,          \* the keys that have been stored, by credential
  restored,      \* those stored again, after they were deleted
  unsaved,       \* the signers of which a load, given up by a clear, failed
                 \* when another one had made them ready
  drawn          \* for each key, the last nonce handed out, and a mark
                 \* that changes with each

keys == <<kept, restored, unsaved>>
vars == <<indexed, stored, made, memory, initialized, call, load, keys, drawn>>

-----------------------------------------------------------------------------
(* Types *)

Keys == 1..MaxKey
None == 0
KeyOrNone == 0..MaxKey
Nonces == 0..MaxNonce

Record == [pair : KeyOrNone, cred : KeyOrNone, nonce : Nonces]
Held(pair, cred, nonce) == [pair |-> pair, cred |-> cred, nonce |-> nonce]
Cleared == Held(None, None, 0)

CallPCs == {"idle", "wait", "ready", "read", "clear"}
LoadPCs == {"idle", "read", "loaded", "generate", "export", "persist"}

Call == [pc : CallPCs, op : {"credentialId", "nextNonce"}, wait : {"none"} \cup Loads,
         got : Record]
Load == [pc : LoadPCs, key : KeyOrNone, got : Record]

(* A call at pc, which waits for a load or for none, and has read a record. *)
CallAt(pc, op, wait, got) == [pc |-> pc, op |-> op, wait |-> wait, got |-> got]
At(pc, op, wait) == CallAt(pc, op, wait, Cleared)
NoCall == At("idle", "credentialId", "none")

LoadAt(pc, key, got) == [pc |-> pc, key |-> key, got |-> got]
NoLoad == LoadAt("idle", None, Cleared)

TypeOK ==
  /\ indexed \in BOOLEAN
  /\ stored \in Record
  /\ made \in KeyOrNone
  /\ memory \in [Signers -> Record]
  /\ initialized \in [Signers -> {"none", "done", "failed"} \cup Loads]
  /\ call \in [Signers -> [Calls -> Call]]
  /\ load \in [Signers -> [Loads -> Load]]
  /\ kept \subseteq Keys
  /\ restored \subseteq Keys
  /\ unsaved \subseteq Signers
  /\ drawn \in [Keys -> [last : Nonces, mark : BOOLEAN]]

-----------------------------------------------------------------------------
(* The stored record and the memory *)

IsStored == stored.cred # None

(* A tab's transactions end in order: what one has read is taken up before  *)
(* the next one of the same tab runs.                                       *)
Transacts(s) ==
  /\ \A c \in Calls : call[s][c].pc # "read"
  /\ \A l \in Loads : load[s][l].pc # "loaded"

(* A removed key resets a signer: the next use loads or creates one.        *)
Forget(s) ==
  /\ memory' = [memory EXCEPT ![s] = Cleared]
  /\ initialized' = [initialized EXCEPT ![s] = "none"]
  /\ unsaved' = unsaved \ {s}

Return(s, c) == call' = [call EXCEPT ![s][c] = NoCall]

MayCall(s, c) ==
  /\ call[s][c].pc = "idle"
  /\ s \in Single => \A d \in Calls : call[s][d].pc = "idle"

(* The first load of a signer that has none under way.                      *)
FreeLoads(s) == {l \in Loads : load[s][l].pc = "idle"}

-----------------------------------------------------------------------------
(* Calls *)

(* ensureInitialized: a call starts the load, or joins the one there is.    *)
Begin(s, c, op) ==
  /\ MayCall(s, c)
  /\ \/ /\ initialized[s] = "none"
        /\ \E l \in FreeLoads(s) :
             /\ initialized' = [initialized EXCEPT ![s] = l]
             /\ load' = [load EXCEPT ![s][l] = LoadAt("read", None, Cleared)]
             /\ call' = [call EXCEPT ![s][c] = At("wait", op, l)]
     \/ /\ initialized[s] \in Loads
        /\ call' = [call EXCEPT ![s][c] = At("wait", op, initialized[s])]
        /\ UNCHANGED <<initialized, load>>
     \/ /\ initialized[s] = "done"
        /\ call' = [call EXCEPT ![s][c] = At("ready", op, "none")]
        /\ UNCHANGED <<initialized, load>>
  /\ UNCHANGED <<indexed, stored, made, memory, keys, drawn>>

(* credentialId reads the stored record, and then makes memory match it.    *)
ReadStored(s, c) ==
  /\ call[s][c].pc = "ready" /\ call[s][c].op = "credentialId"
  /\ Transacts(s)
  /\ \/ /\ indexed
        /\ call' = [call EXCEPT ![s][c] = CallAt("read", "credentialId", "none", stored)]
     \/ /\ ~indexed
        /\ Return(s, c)
  /\ UNCHANGED <<indexed, stored, made, memory, initialized, load, keys, drawn>>

SyncWithStored(s, c) ==
  /\ call[s][c].pc = "read"
  /\ \/ /\ call[s][c].got.cred # None
        /\ memory' = [memory EXCEPT ![s] = call[s][c].got]
        /\ UNCHANGED <<initialized, unsaved>>
     \/ /\ call[s][c].got.cred = None
        /\ Forget(s)
  /\ Return(s, c)
  /\ UNCHANGED <<indexed, stored, made, load, kept, restored, drawn>>

(* Mutant: the nonce in memory is counted up.                               *)
NonceFromMemory(s) == memory[s].nonce

(* The nonce before the next one: the stored one, which all tabs share.     *)
LastNonce(s) == IF indexed THEN stored.nonce ELSE memory[s].nonce

(* A nonce is handed out with the key it is for.                            *)
HandOut(key, n) ==
  drawn' = IF key = None THEN drawn
           ELSE [drawn EXCEPT ![key] = [last |-> n, mark |-> ~@.mark]]

NextNonce(s, c) ==
  /\ call[s][c].pc = "ready" /\ call[s][c].op = "nextNonce"
  /\ Transacts(s)
  /\ \/ /\ indexed /\ ~IsStored
        /\ Forget(s)
        /\ UNCHANGED <<stored, drawn>>
     \/ /\ indexed /\ IsStored
        /\ \E n \in (LastNonce(s) + 1)..MaxNonce :
             /\ stored' = Held(stored.pair, stored.cred, n)
             /\ memory' = [memory EXCEPT ![s] = Held(stored.pair, stored.cred, n)]
             /\ HandOut(stored.cred, n)
        /\ UNCHANGED <<initialized, unsaved>>
     \/ /\ ~indexed
        /\ \E n \in (LastNonce(s) + 1)..MaxNonce :
             /\ memory' = [memory EXCEPT ![s] = Held(@.pair, @.cred, n)]
             /\ HandOut(memory[s].cred, n)
        /\ UNCHANGED <<stored, initialized, unsaved>>
  /\ Return(s, c)
  /\ UNCHANGED <<indexed, made, load, kept, restored>>

Clear(s, c) ==
  /\ MayCall(s, c)
  /\ Forget(s)
  /\ IF indexed THEN call' = [call EXCEPT ![s][c] = At("clear", "credentialId", "none")]
     ELSE UNCHANGED call
  /\ UNCHANGED <<indexed, stored, made, load, kept, restored, drawn>>

DeleteStored(s, c) ==
  /\ call[s][c].pc = "clear"
  /\ Transacts(s)
  /\ stored' = Cleared
  /\ Return(s, c)
  /\ UNCHANGED <<indexed, made, memory, initialized, load, keys, drawn>>

(* deleteStoredWebCryptoCredential, by a client whose session had this key. *)
DeleteStoredKey ==
  /\ indexed /\ IsStored
  /\ \E s \in Signers : Transacts(s)
  /\ stored' = Cleared
  /\ UNCHANGED <<indexed, made, memory, initialized, call, load, keys, drawn>>

-----------------------------------------------------------------------------
(* loadOrCreate *)

(* The promise settles: the calls that wait for it go on, or fail.          *)
Settle(s, l, how) ==
  /\ load' = [load EXCEPT ![s][l] = NoLoad]
  /\ initialized' = [initialized EXCEPT ![s] = IF @ = l THEN how ELSE @]
  /\ call' = [call EXCEPT ![s] = [c \in Calls |->
       IF @[c].wait # l THEN @[c]
       ELSE IF how = "done" THEN At("ready", @[c].op, "none")
       ELSE NoCall]]

LoadStored(s, l) ==
  /\ load[s][l].pc = "read"
  /\ Transacts(s)
  /\ load' = [load EXCEPT ![s][l] =
                 LoadAt("loaded", None, IF indexed THEN stored ELSE Cleared)]
  /\ UNCHANGED <<indexed, stored, made, memory, initialized, call, keys, drawn>>

UseLoaded(s, l) ==
  /\ load[s][l].pc = "loaded"
  /\ load[s][l].got.cred # None
  /\ memory' = [memory EXCEPT ![s] = load[s][l].got]
  /\ Settle(s, l, "done")
  /\ UNCHANGED <<indexed, stored, made, keys, drawn>>

NoneLoaded(s, l) ==
  /\ load[s][l].pc = "loaded"
  /\ load[s][l].got.cred = None
  /\ load' = [load EXCEPT ![s][l] = LoadAt("generate", None, Cleared)]
  /\ UNCHANGED <<indexed, stored, made, memory, initialized, call, keys, drawn>>

(* There is no key yet: one is generated, and then its ID is exported.      *)
Generate(s, l) ==
  /\ load[s][l].pc = "generate"
  /\ made < MaxKey
  /\ made' = made + 1
  /\ memory' = [memory EXCEPT ![s] = Held(made + 1, @.cred, @.nonce)]
  /\ load' = [load EXCEPT ![s][l] = LoadAt("export", made + 1, Cleared)]
  /\ UNCHANGED <<indexed, stored, initialized, call, keys, drawn>>

Export(s, l) ==
  /\ load[s][l].pc = "export"
  /\ memory' = [memory EXCEPT ![s] = Held(@.pair, load[s][l].key, 0)]
  /\ load' = [load EXCEPT ![s][l] = LoadAt("persist", None, Cleared)]
  /\ UNCHANGED <<indexed, stored, made, initialized, call, keys, drawn>>

(* Mutant: the tab keeps the key it has made.                               *)
KeepsOwn(s) == memory[s]

(* The record that is there by now, which another tab may have stored.      *)
Adopted(s) == stored

(* toRecord                                                                 *)
HasRecord(s) == memory[s].pair # None /\ memory[s].cred # None

(* persistNewCredentialOrLoadExisting; a key that was cleared meanwhile     *)
(* cannot be stored.                                                        *)
Persist(s, l) ==
  /\ load[s][l].pc = "persist"
  /\ Transacts(s)
  /\ \/ /\ ~indexed
        /\ Settle(s, l, "done")
        /\ UNCHANGED <<stored, memory, keys>>
     \/ /\ indexed /\ IsStored
        /\ memory' = [memory EXCEPT ![s] = Adopted(s)]
        /\ Settle(s, l, "done")
        /\ UNCHANGED <<stored, keys>>
     \/ /\ indexed /\ ~IsStored
        /\ HasRecord(s)
        /\ stored' = memory[s]
        /\ kept' = kept \cup {memory[s].cred}
        /\ restored' = restored \cup (kept \cap {memory[s].cred})
        /\ Settle(s, l, "done")
        /\ UNCHANGED <<memory, unsaved>>
     \/ /\ indexed /\ ~IsStored
        /\ ~HasRecord(s)
        /\ Settle(s, l, "failed")
        /\ UNCHANGED <<stored, memory, keys>>
  /\ UNCHANGED <<indexed, made, drawn>>

(* WebCrypto or IndexedDB fails. The load of a signer that another one made *)
(* ready may have put its own key in memory by now.                         *)
LoadFails(s, l) ==
  /\ load[s][l].pc # "idle"
  /\ Settle(s, l, "failed")
  /\ unsaved' = IF initialized[s] = "done" THEN unsaved \cup {s} ELSE unsaved
  /\ UNCHANGED <<indexed, stored, made, memory, kept, restored, drawn>>

Reload(s) ==
  /\ Forget(s)
  /\ call' = [call EXCEPT ![s] = [c \in Calls |-> NoCall]]
  /\ load' = [load EXCEPT ![s] = [l \in Loads |-> NoLoad]]
  /\ UNCHANGED <<indexed, stored, made, kept, restored, drawn>>

-----------------------------------------------------------------------------
(* The system *)

Init ==
  /\ indexed \in BOOLEAN
  /\ stored = Cleared
  /\ made = 0
  /\ memory = [s \in Signers |-> Cleared]
  /\ initialized = [s \in Signers |-> "none"]
  /\ call = [s \in Signers |-> [c \in Calls |-> NoCall]]
  /\ load = [s \in Signers |-> [l \in Loads |-> NoLoad]]
  /\ kept = {}
  /\ restored = {}
  /\ unsaved = {}
  /\ drawn = [k \in Keys |-> [last |-> 0, mark |-> FALSE]]

CallStep(s, c) ==
  \/ \E op \in {"credentialId", "nextNonce"} : Begin(s, c, op)
  \/ ReadStored(s, c) \/ SyncWithStored(s, c) \/ NextNonce(s, c)
  \/ Clear(s, c) \/ DeleteStored(s, c)

LoadStep(s, l) ==
  \/ LoadStored(s, l) \/ UseLoaded(s, l) \/ NoneLoaded(s, l)
  \/ Generate(s, l) \/ Export(s, l) \/ Persist(s, l) \/ LoadFails(s, l)

Next ==
  \/ DeleteStoredKey
  \/ \E s \in Signers :
       \/ \E c \in Calls : CallStep(s, c)
       \/ \E l \in Loads : LoadStep(s, l)
       \/ Reload(s)

Spec == Init /\ [][Next]_vars

-----------------------------------------------------------------------------
(* Properties *)

(* Whichever tab stores its new key first, the others take that one: no     *)
(* signer is ready with a key that was never stored, which a reload of the  *)
(* page would lose with the session bound to it. A load that a clear gave up*)
(* still puts its key in memory (loadOrCreate), under a signer that is ready*)
(* by now: until it has stored that key, or for good if it fails.           *)
Storing(s) == \E l \in Loads : load[s][l].pc = "persist"

ReadyKeyWasStored ==
  \A s \in Signers \ unsaved :
    indexed /\ initialized[s] = "done" /\ ~Storing(s) => memory[s].cred \in kept

(* Tabs that sign with one key never draw a nonce twice, nor a lower one    *)
(* after a higher one, by whatever calls, loads and reloads. A key that was *)
(* deleted and stored again, by a signer that still had it, counts from an  *)
(* older nonce: there the clock alone, which is left out here, goes on.     *)
NoncesIncrease ==
  [][\A k \in Keys \ restored :
       drawn'[k] # drawn[k] => drawn'[k].last > drawn[k].last]_vars

(* The stored credential ID is that of the stored key pair: a signature by  *)
(* the pair is one WaaS can verify.                                         *)
StoredKeyIsWhole == stored.pair = stored.cred
=============================================================================
