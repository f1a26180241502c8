----------------------- MODULE CredentialSignerProofs -----------------------
(***************************************************************************)
(* What is proved of the signers of any number of tabs, with any number of *)
(* calls, keys and nonces.                                                 *)
(***************************************************************************)
EXTENDS CredentialSigner, TLAPS

-----------------------------------------------------------------------------
(* Type correctness *)

LEMMA Blank == None \in KeyOrNone /\ Cleared \in Record /\ NoCall \in Call /\ NoLoad \in Load
BY ConstantsAssumption
DEF At, CallAt, LoadAt, Held, Cleared, Record, KeyOrNone, None, Nonces, NoCall, Call, CallPCs, NoLoad, Load, LoadPCs

(* The parts of a call, a load and a record.                                *)
LEMMA Parts ==
  ASSUME TypeOK
  PROVE  /\ \A s \in Signers, c \in Calls : call[s][c] \in Call /\ call[s][c].got \in Record
         /\ \A s \in Signers, l \in Loads : load[s][l] \in Load /\ load[s][l].got \in Record
                                          /\ load[s][l].key \in KeyOrNone
         /\ \A s \in Signers : memory[s] \in Record
BY DEF TypeOK, Call, Load

LEMMA Ats ==
  ASSUME NEW p \in CallPCs, NEW op \in {"credentialId", "nextNonce"},
         NEW w \in {"none"} \cup Loads
  PROVE  At(p, op, w) \in Call
BY Blank DEF At, CallAt, Call

LEMMA LoadAts ==
  ASSUME NEW p \in LoadPCs, NEW k \in KeyOrNone, NEW r \in Record
  PROVE  LoadAt(p, k, r) \in Load
BY DEF LoadAt, Load

LEMMA Update ==
  ASSUME NEW S, NEW C, NEW T, NEW f \in [S -> [C -> T]], NEW s \in S, NEW c \in C, NEW x \in T
  PROVE  [f EXCEPT ![s][c] = x] \in [S -> [C -> T]]
OBVIOUS

LEMMA TypeForget ==
  ASSUME TypeOK, NEW s \in Signers, Forget(s)
  PROVE  memory' \in [Signers -> Record]
         /\ initialized' \in [Signers -> {"none", "done", "failed"} \cup Loads]
         /\ unsaved' \subseteq Signers
BY Blank DEF Forget, TypeOK

LEMMA TypeReturn ==
  ASSUME TypeOK, NEW s \in Signers, NEW c \in Calls, Return(s, c)
  PROVE  call' \in [Signers -> [Calls -> Call]]
<1>1. [call EXCEPT ![s][c] = NoCall] \in [Signers -> [Calls -> Call]]
  BY Blank, Update DEF TypeOK
<1> QED
  BY <1>1 DEF Return

LEMMA TypeSettle ==
  ASSUME TypeOK, NEW s \in Signers, NEW l \in Loads, NEW how \in {"done", "failed"},
         Settle(s, l, how)
  PROVE  /\ initialized' \in [Signers -> {"none", "done", "failed"} \cup Loads]
         /\ call' \in [Signers -> [Calls -> Call]]
         /\ load' \in [Signers -> [Loads -> Load]]
<1>1. load' \in [Signers -> [Loads -> Load]]
  BY Blank DEF Settle, TypeOK
<1>2. call' \in [Signers -> [Calls -> Call]]
  BY Blank, Ats, Parts DEF Settle, TypeOK, CallPCs, Call
<1> QED
  BY <1>1, <1>2 DEF Settle, TypeOK

LEMMA TypeCallStep ==
  ASSUME TypeOK, NEW s \in Signers, NEW c \in Calls, CallStep(s, c)
  PROVE  TypeOK'
<1>1. ASSUME NEW op \in {"credentialId", "nextNonce"}, Begin(s, c, op) PROVE TypeOK'
  <2>1. \A w \in {"none"} \cup Loads, p \in {"wait", "ready"} :
          [call EXCEPT ![s][c] = At(p, op, w)] \in [Signers -> [Calls -> Call]]
    BY Ats, Update DEF TypeOK, CallPCs
  <2>2. call' \in [Signers -> [Calls -> Call]]
    BY <1>1, <2>1 DEF Begin, FreeLoads
  <2>3. initialized' \in [Signers -> {"none", "done", "failed"} \cup Loads]
    BY <1>1 DEF Begin, FreeLoads, TypeOK
  <2>4. \A l \in Loads : [load EXCEPT ![s][l] = LoadAt("read", None, Cleared)]
                          \in [Signers -> [Loads -> Load]]
    BY Blank, LoadAts, Update DEF TypeOK, LoadPCs
  <2>5. load' \in [Signers -> [Loads -> Load]]
    <3>1. \/ UNCHANGED load
          \/ \E l \in Loads : load' = [load EXCEPT ![s][l] = LoadAt("read", None, Cleared)]
      BY <1>1 DEF Begin, FreeLoads
    <3> QED
      BY <2>4, <3>1 DEF TypeOK
  <2>6. UNCHANGED <<indexed, stored, made, memory, kept, restored, unsaved, drawn>>
    BY <1>1 DEF Begin, keys
  <2> QED
    BY <2>2, <2>3, <2>5, <2>6 DEF TypeOK
<1>2. ASSUME ReadStored(s, c) PROVE TypeOK'
  <2>1. [call EXCEPT ![s][c] = CallAt("read", "credentialId", "none", stored)]
          \in [Signers -> [Calls -> Call]]
    <3>1. CallAt("read", "credentialId", "none", stored) \in Call
      BY DEF CallAt, TypeOK, Call, CallPCs
    <3> QED
      BY <3>1, Update DEF TypeOK
  <2>2. call' \in [Signers -> [Calls -> Call]]
    BY <1>2, <2>1, TypeReturn DEF ReadStored
  <2>3. UNCHANGED <<indexed, stored, made, memory, initialized, load, kept, restored, unsaved, drawn>>
    BY <1>2 DEF ReadStored, keys
  <2> QED
    BY <2>2, <2>3 DEF TypeOK
<1>3. ASSUME SyncWithStored(s, c) PROVE TypeOK'
  <2>1. memory' \in [Signers -> Record]
        /\ initialized' \in [Signers -> {"none", "done", "failed"} \cup Loads]
        /\ unsaved' \subseteq Signers
    BY <1>3, Parts, TypeForget DEF SyncWithStored, TypeOK
  <2>2. call' \in [Signers -> [Calls -> Call]]
    BY <1>3, TypeReturn DEF SyncWithStored
  <2>3. UNCHANGED <<indexed, stored, made, load, kept, restored, drawn>>
    BY <1>3 DEF SyncWithStored
  <2> QED
    BY <2>1, <2>2, <2>3 DEF TypeOK
<1>4. ASSUME NextNonce(s, c) PROVE TypeOK'
  <2>1. \A n \in Nonces : Held(stored.pair, stored.cred, n) \in Record
                         /\ Held(memory[s].pair, memory[s].cred, n) \in Record
    BY DEF TypeOK, Record, Held
  <2>2. \A n \in Nonces, k \in KeyOrNone :
          HandOut(k, n) => drawn' \in [Keys -> [last : Nonces, mark : BOOLEAN]]
    BY DEF HandOut, TypeOK, KeyOrNone, Keys, None
  <2>3. LastNonce(s) \in Nat
    BY DEF LastNonce, TypeOK, Record, Nonces
  <2>4. (LastNonce(s) + 1)..MaxNonce \subseteq Nonces
    BY <2>3 DEF Nonces
  <2>5. stored.cred \in KeyOrNone /\ memory[s].cred \in KeyOrNone
    BY DEF TypeOK, Record
  <2>6. stored' \in Record
    BY <1>4, <2>1, <2>4 DEF NextNonce, TypeOK
  <2>7. drawn' \in [Keys -> [last : Nonces, mark : BOOLEAN]]
    BY <1>4, <2>2, <2>4, <2>5 DEF NextNonce, TypeOK
  <2>8. memory' \in [Signers -> Record]
    BY <1>4, <2>1, <2>4, TypeForget DEF NextNonce, TypeOK
  <2>9. /\ initialized' \in [Signers -> {"none", "done", "failed"} \cup Loads]
        /\ unsaved' \subseteq Signers
    BY <1>4, TypeForget DEF NextNonce, TypeOK
  <2>10. call' \in [Signers -> [Calls -> Call]]
    BY <1>4, TypeReturn DEF NextNonce
  <2>11. UNCHANGED <<indexed, made, load, kept, restored>>
    BY <1>4 DEF NextNonce, keys
  <2> QED
    BY <2>6, <2>7, <2>8, <2>9, <2>10, <2>11 DEF TypeOK
<1>5. ASSUME Clear(s, c) PROVE TypeOK'
  <2>1. [call EXCEPT ![s][c] = At("clear", "credentialId", "none")]
          \in [Signers -> [Calls -> Call]]
    BY Ats, Update DEF TypeOK, CallPCs
  <2>2. call' \in [Signers -> [Calls -> Call]]
    BY <1>5, <2>1 DEF Clear, TypeOK
  <2>3. Forget(s) /\ UNCHANGED <<indexed, stored, made, load, kept, restored, drawn>>
    BY <1>5 DEF Clear
  <2> QED
    BY <2>2, <2>3, TypeForget DEF TypeOK
<1>6. ASSUME DeleteStored(s, c) PROVE TypeOK'
  <2>1. UNCHANGED <<indexed, made, memory, initialized, load, kept, restored, unsaved, drawn>>
    BY <1>6 DEF DeleteStored, keys
  <2>2. stored' \in Record /\ call' \in [Signers -> [Calls -> Call]]
    BY <1>6, Blank, TypeReturn DEF DeleteStored
  <2> QED
    BY <2>1, <2>2 DEF TypeOK
<1> QED
  BY <1>1, <1>2, <1>3, <1>4, <1>5, <1>6 DEF CallStep

LEMMA TypeLoadStep ==
  ASSUME TypeOK, NEW s \in Signers, NEW l \in Loads, LoadStep(s, l)
  PROVE  TypeOK'
<1>1. ASSUME LoadStored(s, l) PROVE TypeOK'
  <2>1. \A r \in Record : LoadAt("loaded", None, r) \in Load
    BY Blank, LoadAts DEF LoadPCs
  <2>2. load' \in [Signers -> [Loads -> Load]]
    BY <1>1, <2>1, Blank, Update DEF LoadStored, TypeOK
  <2>3. UNCHANGED <<indexed, stored, made, memory, initialized, call, kept, restored, unsaved, drawn>>
    BY <1>1 DEF LoadStored, keys
  <2> QED
    BY <2>2, <2>3 DEF TypeOK
<1>2. ASSUME UseLoaded(s, l) PROVE TypeOK'
  <2>1. memory' \in [Signers -> Record]
    BY <1>2, Parts DEF UseLoaded, TypeOK
  <2>2. Settle(s, l, "done") /\ UNCHANGED <<indexed, stored, made, kept, restored, unsaved, drawn>>
    BY <1>2 DEF UseLoaded, keys
  <2> QED
    BY <2>1, <2>2, TypeSettle DEF TypeOK
<1>3. ASSUME NoneLoaded(s, l) PROVE TypeOK'
  <2>1. load' \in [Signers -> [Loads -> Load]]
    BY <1>3, Blank, LoadAts, Update DEF NoneLoaded, TypeOK, LoadPCs
  <2>2. UNCHANGED <<indexed, stored, made, memory, initialized, call, kept, restored, unsaved, drawn>>
    BY <1>3 DEF NoneLoaded, keys
  <2> QED
    BY <2>1, <2>2 DEF TypeOK
<1>4. ASSUME Generate(s, l) PROVE TypeOK'
  <2>1. made + 1 \in KeyOrNone
    BY <1>4, ConstantsAssumption DEF Generate, TypeOK, KeyOrNone, None
  <2>2. memory' \in [Signers -> Record]
    BY <1>4, <2>1, Parts DEF Generate, TypeOK, Record, Held
  <2>3. load' \in [Signers -> [Loads -> Load]]
    BY <1>4, <2>1, Blank, LoadAts, Update DEF Generate, TypeOK, LoadPCs
  <2>4. made' \in KeyOrNone /\ UNCHANGED <<indexed, stored, initialized, call, kept, restored, unsaved, drawn>>
    BY <1>4, <2>1 DEF Generate, keys
  <2> QED
    BY <2>2, <2>3, <2>4 DEF TypeOK
<1>5. ASSUME Export(s, l) PROVE TypeOK'
  <2>1. memory' \in [Signers -> Record]
    BY <1>5, ConstantsAssumption, Parts DEF Export, TypeOK, Record, Nonces, Held
  <2>2. load' \in [Signers -> [Loads -> Load]]
    BY <1>5, Blank, LoadAts, Update DEF Export, TypeOK, LoadPCs
  <2>3. UNCHANGED <<indexed, stored, made, initialized, call, kept, restored, unsaved, drawn>>
    BY <1>5 DEF Export, keys
  <2> QED
    BY <2>1, <2>2, <2>3 DEF TypeOK
<1>6. ASSUME Persist(s, l) PROVE TypeOK'
  <2>1. \E how \in {"done", "failed"} : Settle(s, l, how)
    BY <1>6 DEF Persist
  <2>2. stored' \in Record
    BY <1>6, Parts DEF Persist, TypeOK
  <2>3. memory' \in [Signers -> Record]
    BY <1>6 DEF Persist, Adopted, TypeOK
  <2>4. HasRecord(s) => memory[s].cred \in Keys
    BY Parts DEF HasRecord, Record, KeyOrNone, Keys, None
  <2>5. kept' \subseteq Keys /\ restored' \subseteq Keys /\ unsaved' \subseteq Signers
    BY <1>6, <2>4 DEF Persist, keys, TypeOK
  <2>6. UNCHANGED <<indexed, made, drawn>>
    BY <1>6 DEF Persist
  <2> QED
    BY <2>1, <2>2, <2>3, <2>5, <2>6, TypeSettle DEF TypeOK
<1>7. ASSUME LoadFails(s, l) PROVE TypeOK'
  <2>1. Settle(s, l, "failed")
        /\ UNCHANGED <<indexed, stored, made, memory, kept, restored, drawn>>
        /\ unsaved' \in {unsaved, unsaved \cup {s}}
    BY <1>7 DEF LoadFails
  <2> QED
    BY <2>1, TypeSettle DEF TypeOK
<1> QED
  BY <1>1, <1>2, <1>3, <1>4, <1>5, <1>6, <1>7 DEF LoadStep

LEMMA TypeInv ==
  ASSUME TypeOK, [Next]_vars
  PROVE  TypeOK'
<1>1. ASSUME DeleteStoredKey PROVE TypeOK'
  BY <1>1, Blank DEF DeleteStoredKey, keys, TypeOK
<1>2. ASSUME NEW s \in Signers, Reload(s) PROVE TypeOK'
  <2>1. call' \in [Signers -> [Calls -> Call]] /\ load' \in [Signers -> [Loads -> Load]]
    BY <1>2, Blank DEF Reload, TypeOK
  <2>2. Forget(s) /\ UNCHANGED <<indexed, stored, made, kept, restored, drawn>>
    BY <1>2 DEF Reload
  <2> QED
    BY <2>1, <2>2, TypeForget DEF TypeOK
<1>3. CASE UNCHANGED vars
  BY <1>3 DEF vars, keys, TypeOK
<1> QED
  BY <1>1, <1>2, <1>3, TypeCallStep, TypeLoadStep DEF Next

-----------------------------------------------------------------------------
(* The inductive invariant *)

(* Every key that is stored, read or in memory has been made, and the stored*)
(* one was kept.                                                            *)
KeysOK ==
  /\ kept \subseteq 1..made /\ restored \subseteq kept
  /\ stored.cred # None => stored.cred \in kept
  /\ \A s \in Signers : memory[s].cred <= made
  /\ \A s \in Signers, c \in Calls : call[s][c].got.cred \in kept \cup {None}
  /\ \A s \in Signers, l \in Loads : load[s][l].got.cred \in kept \cup {None}
  /\ \A k \in Keys : k > made => drawn[k].last = 0

(* A key that was never stored has drawn no nonce, the stored one its last. *)
SharedOK ==
  /\ \A k \in Keys \ kept : drawn[k].last = 0
  /\ stored.cred \in kept \ restored => drawn[stored.cred].last = stored.nonce
  /\ \A s \in Signers : memory[s].cred \notin kept => memory[s].nonce = 0

Exports(s, l) == load[s][l].pc = "export"

(* Without IndexedDB nothing is stored, and a key has one signer.           *)
AloneOK ==
  /\ kept = {}
  /\ \A s \in Signers, c \in Calls : call[s][c].pc # "read"
  /\ \A s \in Signers : memory[s].cred # None =>
       /\ drawn[memory[s].cred].last = memory[s].nonce
       /\ \A r \in Signers : memory[r].cred = memory[s].cred => r = s
  /\ \A s \in Signers, l \in Loads : Exports(s, l) =>
       /\ load[s][l].key \in 1..made
       /\ drawn[load[s][l].key].last = 0
       /\ \A r \in Signers : memory[r].cred # load[s][l].key
       /\ \A r \in Signers, m \in Loads :
            Exports(r, m) /\ load[r][m].key = load[s][l].key => r = s /\ m = l

(* A generated key is one of those made.                                    *)
ExportedOK == \A s \in Signers, l \in Loads : Exports(s, l) => load[s][l].key \in 1..made

IInv ==
  /\ TypeOK /\ KeysOK /\ ExportedOK
  /\ indexed => SharedOK
  /\ ~indexed => AloneOK

-----------------------------------------------------------------------------
(* It is inductive *)

(* Calls and loads go on with what they have, or with nothing.              *)
CallsKeep ==
  \A s \in Signers, c \in Calls :
    /\ call'[s][c].got \in {call[s][c].got, Cleared}
    /\ call'[s][c].pc = "read" => call[s][c].pc = "read"

LoadsKeep ==
  \A s \in Signers, l \in Loads :
    /\ load'[s][l].got \in {load[s][l].got, Cleared}
    /\ Exports(s, l)' => Exports(s, l) /\ load'[s][l].key = load[s][l].key

LEMMA ReturnKeeps ==
  ASSUME TypeOK, NEW s \in Signers, NEW c \in Calls, Return(s, c)
  PROVE  CallsKeep
BY DEF CallsKeep, Return, TypeOK, NoCall, At, CallAt

LEMMA SettleKeeps ==
  ASSUME TypeOK, NEW s \in Signers, NEW l \in Loads, NEW how \in {"done", "failed"},
         Settle(s, l, how)
  PROVE  CallsKeep /\ LoadsKeep
<1>1. CallsKeep
  BY DEF CallsKeep, Settle, TypeOK, NoCall, At, CallAt
<1>2. LoadsKeep
  BY DEF LoadsKeep, Exports, Settle, TypeOK, NoLoad, LoadAt
<1> QED
  BY <1>1, <1>2

LEMMA BeginKeeps ==
  ASSUME TypeOK, NEW s \in Signers, NEW c \in Calls, NEW op \in {"credentialId", "nextNonce"},
         Begin(s, c, op)
  PROVE  CallsKeep /\ LoadsKeep
<1>1. \E p \in {"wait", "ready"}, w \in {"none"} \cup Loads :
        call' = [call EXCEPT ![s][c] = At(p, op, w)]
  BY DEF Begin, FreeLoads
<1>2. CallsKeep
  BY <1>1 DEF CallsKeep, TypeOK, At, CallAt
<1>3. \/ UNCHANGED load
      \/ \E l \in Loads : load' = [load EXCEPT ![s][l] = LoadAt("read", None, Cleared)]
  BY DEF Begin, FreeLoads
<1>4. LoadsKeep
  <2>1. CASE UNCHANGED load
    BY <2>1 DEF LoadsKeep, Exports
  <2>2. ASSUME NEW l \in Loads, load' = [load EXCEPT ![s][l] = LoadAt("read", None, Cleared)]
        PROVE  LoadsKeep
    BY <2>2 DEF LoadsKeep, Exports, TypeOK, LoadAt
  <2> QED
    BY <1>3, <2>1, <2>2
<1> QED
  BY <1>2, <1>4

(* The step of a signer's memory: to nothing, or to a record that was kept. *)
MemoryKeeps ==
  \A s \in Signers :
    \/ memory'[s] \in {memory[s], Cleared}
    \/ indexed /\ memory'[s].cred \in kept

LEMMA CredFacts ==
  ASSUME IInv
  PROVE  /\ made \in Nat /\ kept \subseteq Keys /\ Cleared.cred = None /\ Cleared.nonce = 0
         /\ \A s \in Signers : memory[s].cred \in KeyOrNone /\ memory[s].nonce \in Nat
         /\ stored.cred \in KeyOrNone /\ stored.nonce \in Nat
         /\ None \notin Keys /\ None = 0
         /\ \A k \in kept : k \in Nat /\ 1 <= k /\ k <= made
BY DEF IInv, TypeOK, KeysOK, KeyOrNone, Keys, None, Cleared, Held, Record, Nonces

(* A step that generates, stores and draws nothing.                         *)
LEMMA Quiet ==
  ASSUME IInv, CallsKeep, LoadsKeep, MemoryKeeps, stored' \in {stored, Cleared},
         UNCHANGED <<indexed, made, kept, restored, drawn>>
  PROVE  (KeysOK /\ ExportedOK /\ (indexed => SharedOK) /\ (~indexed => AloneOK))'
<1>1. KeysOK'
  <2>1. \A s \in Signers : memory'[s].cred <= made
    <3> SUFFICES ASSUME NEW s \in Signers PROVE memory'[s].cred <= made
      OBVIOUS
    <3>1. CASE memory'[s] = memory[s]
      BY <3>1 DEF IInv, KeysOK
    <3>2. CASE memory'[s] = Cleared
      BY <3>2, CredFacts
    <3>3. CASE memory'[s].cred \in kept
      BY <3>3, CredFacts
    <3> QED
      BY <3>1, <3>2, <3>3 DEF MemoryKeeps
  <2>2. \A s \in Signers, c \in Calls : call'[s][c].got.cred \in kept \cup {None}
    BY CredFacts DEF IInv, KeysOK, CallsKeep
  <2>3. \A s \in Signers, l \in Loads : load'[s][l].got.cred \in kept \cup {None}
    BY CredFacts DEF IInv, KeysOK, LoadsKeep
  <2>4. stored'.cred # None => stored'.cred \in kept
    BY CredFacts DEF IInv, KeysOK
  <2> QED
    BY <2>1, <2>2, <2>3, <2>4 DEF IInv, KeysOK
<1>2. ExportedOK'
  BY CredFacts DEF IInv, ExportedOK, LoadsKeep
<1>3. indexed => SharedOK'
  BY CredFacts DEF IInv, SharedOK, MemoryKeeps
<1>4. ~indexed => AloneOK'
  BY CredFacts DEF IInv, AloneOK, CallsKeep, LoadsKeep, MemoryKeeps, Exports
<1> QED
  BY <1>1, <1>2, <1>3, <1>4

LEMMA ForgetKeeps ==
  ASSUME TypeOK, NEW s \in Signers, Forget(s)
  PROVE  MemoryKeeps
BY DEF Forget, MemoryKeeps, TypeOK

LEMMA CallInv ==
  ASSUME IInv, NEW s \in Signers, NEW c \in Calls, CallStep(s, c)
  PROVE  IInv'
<1> DEFINE Rest == KeysOK /\ ExportedOK /\ (indexed => SharedOK) /\ (~indexed => AloneOK)
<1>0. TypeOK /\ TypeOK'
  BY TypeCallStep DEF IInv
<1>1. ASSUME NEW op \in {"credentialId", "nextNonce"}, Begin(s, c, op) PROVE Rest'
  <2>1. UNCHANGED <<indexed, stored, made, memory, kept, restored, drawn>>
    BY <1>1 DEF Begin, keys
  <2>2. CallsKeep /\ LoadsKeep
    BY <1>0, <1>1, BeginKeeps
  <2> QED
    BY <2>1, <2>2, Quiet DEF MemoryKeeps
<1>2. ASSUME ReadStored(s, c) PROVE Rest'
  <2>1. UNCHANGED <<indexed, stored, made, memory, load, kept, restored, drawn>>
    BY <1>2 DEF ReadStored, keys
  <2>2. CASE ~indexed
    <3>1. CallsKeep
      BY <1>0, <1>2, <2>2, ReturnKeeps DEF ReadStored
    <3> QED
      BY <2>1, <3>1, Quiet DEF MemoryKeeps, LoadsKeep, Exports
  <2>3. CASE indexed
    <3>1. call' = [call EXCEPT ![s][c] = CallAt("read", "credentialId", "none", stored)]
      BY <1>2, <2>3 DEF ReadStored
    <3>2. \A r \in Signers, d \in Calls : call'[r][d].got \in {call[r][d].got, stored}
      BY <1>0, <3>1 DEF TypeOK, CallAt
    <3>3. \A r \in Signers, d \in Calls : call'[r][d].got.cred \in kept \cup {None}
      BY <3>2 DEF IInv, KeysOK
    <3> QED
      BY <2>1, <2>3, <3>3 DEF IInv, KeysOK, ExportedOK, SharedOK, Exports
  <2> QED
    BY <1>0, <2>2, <2>3 DEF TypeOK
<1>3. ASSUME SyncWithStored(s, c) PROVE Rest'
  <2>1. UNCHANGED <<indexed, stored, made, load, kept, restored, drawn>>
    BY <1>3 DEF SyncWithStored, keys
  <2>2. CallsKeep
    BY <1>0, <1>3, ReturnKeeps DEF SyncWithStored
  <2>3. indexed
    BY <1>0, <1>3 DEF SyncWithStored, IInv, AloneOK, TypeOK
  <2>4. CASE call[s][c].got.cred # None
    <3>1. memory' = [memory EXCEPT ![s] = call[s][c].got] /\ call[s][c].got.cred \in kept
      BY <1>3, <2>4 DEF SyncWithStored, IInv, KeysOK
    <3>2. MemoryKeeps
      BY <1>0, <2>3, <3>1 DEF MemoryKeeps, TypeOK
    <3> QED
      BY <2>1, <2>2, <3>2, Quiet DEF LoadsKeep, Exports
  <2>5. CASE call[s][c].got.cred = None
    <3>1. MemoryKeeps
      BY <1>0, <1>3, <2>5, ForgetKeeps DEF SyncWithStored
    <3> QED
      BY <2>1, <2>2, <3>1, Quiet DEF LoadsKeep, Exports
  <2> QED
    BY <2>4, <2>5
<1>4. ASSUME NextNonce(s, c) PROVE Rest'
  <2>1. UNCHANGED <<indexed, made, load, kept, restored>>
    BY <1>4 DEF NextNonce, keys
  <2>2. CallsKeep
    BY <1>0, <1>4, ReturnKeeps DEF NextNonce
  <2>3. CASE indexed /\ ~IsStored
    <3>1. Forget(s) /\ UNCHANGED <<stored, drawn>>
      BY <1>4, <2>3 DEF NextNonce
    <3> QED
      BY <1>0, <2>1, <2>2, <3>1, ForgetKeeps, Quiet DEF LoadsKeep, Exports
  <2>4. CASE indexed /\ IsStored
    <3>1. PICK n \in (LastNonce(s) + 1)..MaxNonce :
            /\ stored' = Held(stored.pair, stored.cred, n)
            /\ memory' = [memory EXCEPT ![s] = Held(stored.pair, stored.cred, n)]
            /\ HandOut(stored.cred, n)
      BY <1>4, <2>4 DEF NextNonce
    <3>2. stored.cred \in kept /\ stored.cred \in Keys
      BY <2>4, CredFacts DEF IsStored, IInv, KeysOK
    <3>3. \A k \in Keys : drawn'[k].last = IF k = stored.cred THEN n ELSE drawn[k].last
      BY <1>0, <3>1, <3>2, CredFacts DEF HandOut, TypeOK
    <3>4. stored'.cred = stored.cred /\ stored'.nonce = n
      BY <3>1 DEF Held
    <3>5. \A r \in Signers : memory'[r] = memory[r] \/ memory'[r].cred = stored.cred
      BY <1>0, <3>1 DEF Held, TypeOK
    <3>6. KeysOK'
      <4>1. \A r \in Signers : memory'[r].cred <= made
        BY <3>2, <3>5, CredFacts DEF IInv, KeysOK
      <4>2. \A r \in Signers, d \in Calls : call'[r][d].got.cred \in kept \cup {None}
        BY <2>2, CredFacts DEF IInv, KeysOK, CallsKeep
      <4>3. \A k \in Keys : k > made => drawn'[k].last = 0
        BY <3>2, <3>3, CredFacts DEF IInv, KeysOK, Keys
      <4> QED
        BY <2>1, <3>2, <3>4, <4>1, <4>2, <4>3 DEF IInv, KeysOK
    <3>7. SharedOK'
      BY <2>1, <2>4, <3>2, <3>3, <3>4, <3>5 DEF IInv, SharedOK
    <3> QED
      BY <2>1, <2>4, <3>6, <3>7 DEF IInv, ExportedOK, Exports
  <2>5. CASE ~indexed
    <3>1. PICK n \in (LastNonce(s) + 1)..MaxNonce :
            /\ memory' = [memory EXCEPT ![s] = Held(@.pair, @.cred, n)]
            /\ HandOut(memory[s].cred, n)
      BY <1>4, <2>5 DEF NextNonce
    <3>2. stored' = stored
      BY <1>4, <2>5 DEF NextNonce
    <3>3. memory[s].cred \in KeyOrNone
      BY CredFacts
    <3>4. \A k \in Keys : drawn'[k].last = IF k = memory[s].cred THEN n ELSE drawn[k].last
      BY <1>0, <3>1, <3>3, CredFacts DEF HandOut, TypeOK
    <3>5. \A r \in Signers : memory'[r].cred = memory[r].cred
                           /\ memory'[r].nonce = IF r = s THEN n ELSE memory[r].nonce
      BY <1>0, <3>1 DEF Held, TypeOK
    <3>6. KeysOK'
      <4>1. \A r \in Signers, d \in Calls : call'[r][d].got.cred \in kept \cup {None}
        BY <2>2, CredFacts DEF IInv, KeysOK, CallsKeep
      <4>2. \A k \in Keys : k > made => drawn'[k].last = 0
        BY <3>4, CredFacts DEF IInv, KeysOK, Keys
      <4> QED
        BY <2>1, <3>2, <3>5, <4>1, <4>2 DEF IInv, KeysOK
    <3>7. AloneOK'
      <4>1. AloneOK
        BY <2>5 DEF IInv
      <4>2. \A r \in Signers : memory'[r].cred # None =>
              /\ drawn'[memory'[r].cred].last = memory'[r].nonce
              /\ \A q \in Signers : memory'[q].cred = memory'[r].cred => q = r
        <5> SUFFICES ASSUME NEW r \in Signers, memory'[r].cred # None
                     PROVE  /\ drawn'[memory'[r].cred].last = memory'[r].nonce
                            /\ \A q \in Signers : memory'[q].cred = memory'[r].cred => q = r
          OBVIOUS
        <5>1. memory[r].cred \in Keys
          BY <3>5, CredFacts DEF KeyOrNone, Keys
        <5>2. memory[r].cred = memory[s].cred <=> r = s
          BY <3>5, <4>1 DEF AloneOK
        <5> QED
          BY <3>4, <3>5, <4>1, <5>1, <5>2 DEF AloneOK
      <4>3. \A r \in Signers, m \in Loads : Exports(r, m) =>
              drawn'[load[r][m].key].last = 0
        <5> SUFFICES ASSUME NEW r \in Signers, NEW m \in Loads, Exports(r, m)
                     PROVE  drawn'[load[r][m].key].last = 0
          OBVIOUS
        <5>1. load[r][m].key \in Keys
          BY <1>0, ConstantsAssumption DEF IInv, ExportedOK, TypeOK, Keys, KeyOrNone, None
        <5> QED
          BY <3>4, <4>1, <5>1 DEF AloneOK
      <4>4. \A r \in Signers, d \in Calls : call'[r][d].pc # "read"
        BY <2>2, <4>1 DEF AloneOK, CallsKeep
      <4> QED
        BY <2>1, <3>5, <4>1, <4>2, <4>3, <4>4 DEF AloneOK, Exports
    <3> QED
      BY <2>1, <2>5, <3>6, <3>7 DEF IInv, ExportedOK, Exports
  <2> QED
    BY <1>0, <2>3, <2>4, <2>5 DEF TypeOK
<1>5. ASSUME Clear(s, c) PROVE Rest'
  <2>1. Forget(s) /\ UNCHANGED <<indexed, stored, made, load, kept, restored, drawn>>
    BY <1>5 DEF Clear, keys
  <2>2. call' = call \/ call' = [call EXCEPT ![s][c] = At("clear", "credentialId", "none")]
    BY <1>5 DEF Clear
  <2>3. CallsKeep
    <3>1. CASE call' = call
      BY <3>1 DEF CallsKeep
    <3>2. CASE call' = [call EXCEPT ![s][c] = At("clear", "credentialId", "none")]
      BY <1>0, <3>2 DEF CallsKeep, TypeOK, At, CallAt
    <3> QED
      BY <2>2, <3>1, <3>2
  <2> QED
    BY <1>0, <2>1, <2>3, ForgetKeeps, Quiet DEF LoadsKeep, Exports
<1>6. ASSUME DeleteStored(s, c) PROVE Rest'
  <2>1. stored' = Cleared /\ UNCHANGED <<indexed, made, memory, load, kept, restored, drawn>>
    BY <1>6 DEF DeleteStored, keys
  <2>2. CallsKeep
    BY <1>0, <1>6, ReturnKeeps DEF DeleteStored
  <2> QED
    BY <2>1, <2>2, Quiet DEF LoadsKeep, MemoryKeeps, Exports
<1> QED
  BY <1>0, <1>1, <1>2, <1>3, <1>4, <1>5, <1>6 DEF CallStep, IInv

LEMMA LoadInv ==
  ASSUME IInv, NEW s \in Signers, NEW l \in Loads, LoadStep(s, l)
  PROVE  IInv'
<1> DEFINE Rest == KeysOK /\ ExportedOK /\ (indexed => SharedOK) /\ (~indexed => AloneOK)
<1>0. TypeOK /\ TypeOK'
  BY TypeLoadStep DEF IInv
<1>1. ASSUME LoadStored(s, l) PROVE Rest'
  <2>1. UNCHANGED <<indexed, stored, made, memory, call, kept, restored, drawn>>
    BY <1>1 DEF LoadStored, keys
  <2>2. load' = [load EXCEPT ![s][l] =
                   LoadAt("loaded", None, IF indexed THEN stored ELSE Cleared)]
    BY <1>1 DEF LoadStored
  <2>3. \A r \in Signers, m \in Loads :
          /\ load'[r][m].got \in {load[r][m].got, stored, Cleared}
          /\ Exports(r, m)' => Exports(r, m) /\ load'[r][m].key = load[r][m].key
    BY <1>0, <2>2 DEF TypeOK, LoadAt, Exports
  <2>4. \A r \in Signers, m \in Loads : load'[r][m].got.cred \in kept \cup {None}
    BY <2>3, CredFacts DEF IInv, KeysOK
  <2>5. KeysOK' /\ ExportedOK'
    BY <2>1, <2>3, <2>4 DEF IInv, KeysOK, ExportedOK
  <2>6. indexed => SharedOK'
    BY <2>1 DEF IInv, SharedOK
  <2>7. ~indexed => AloneOK'
    BY <2>1, <2>3 DEF IInv, AloneOK
  <2> QED
    BY <2>1, <2>5, <2>6, <2>7
<1>2. ASSUME UseLoaded(s, l) PROVE Rest'
  <2>1. UNCHANGED <<indexed, stored, made, kept, restored, drawn>>
    BY <1>2 DEF UseLoaded, keys
  <2>2. CallsKeep /\ LoadsKeep
    BY <1>0, <1>2, SettleKeeps DEF UseLoaded
  <2>3. memory' = [memory EXCEPT ![s] = load[s][l].got] /\ load[s][l].got.cred \in kept
    BY <1>2 DEF UseLoaded, IInv, KeysOK
  <2>4. indexed
    BY <1>0, <2>3 DEF IInv, AloneOK, TypeOK
  <2>5. MemoryKeeps
    BY <1>0, <2>3, <2>4 DEF MemoryKeeps, TypeOK
  <2> QED
    BY <2>1, <2>2, <2>5, Quiet
<1>3. ASSUME NoneLoaded(s, l) PROVE Rest'
  <2>1. UNCHANGED <<indexed, stored, made, memory, call, kept, restored, drawn>>
    BY <1>3 DEF NoneLoaded, keys
  <2>2. LoadsKeep
    BY <1>0, <1>3 DEF NoneLoaded, LoadsKeep, Exports, TypeOK, LoadAt
  <2> QED
    BY <2>1, <2>2, Quiet DEF CallsKeep, MemoryKeeps
<1>4. ASSUME Generate(s, l) PROVE Rest'
  <2>1. made' = made + 1 /\ UNCHANGED <<indexed, stored, call, kept, restored, drawn>>
    BY <1>4 DEF Generate, keys
  <2>2. \A r \in Signers : memory'[r].cred = memory[r].cred /\ memory'[r].nonce = memory[r].nonce
    BY <1>0, <1>4 DEF Generate, TypeOK, Held
  <2>3. \A r \in Signers, m \in Loads :
          /\ load'[r][m].got \in {load[r][m].got, Cleared}
          /\ Exports(r, m)' =>
               \/ Exports(r, m) /\ load'[r][m].key = load[r][m].key
               \/ r = s /\ m = l /\ load'[r][m].key = made + 1
    <3> DEFINE x == LoadAt("export", made + 1, Cleared)
    <3>1. load' = [load EXCEPT ![s][l] = x]
      BY <1>4 DEF Generate
    <3>2. x.pc = "export" /\ x.key = made + 1 /\ x.got = Cleared
      BY DEF LoadAt
    <3> HIDE DEF x
    <3>3. \A r \in Signers, m \in Loads :
            load'[r][m] = IF r = s /\ m = l THEN x ELSE load[r][m]
      BY <1>0, <3>1 DEF TypeOK
    <3> QED
      BY <3>2, <3>3 DEF Exports
  <2>4. made + 1 \in Keys /\ drawn[made + 1].last = 0
    BY <1>0, <1>4, CredFacts DEF Generate, IInv, KeysOK, Keys, TypeOK, KeyOrNone, None
  <2>5. KeysOK'
    <3>1. \A r \in Signers : memory'[r].cred <= made + 1
      BY <2>2, CredFacts DEF IInv, KeysOK, KeyOrNone
    <3>2. \A r \in Signers, m \in Loads : load'[r][m].got.cred \in kept \cup {None}
      BY <2>3, CredFacts DEF IInv, KeysOK
    <3>3. kept \subseteq 1..(made + 1)
      BY CredFacts
    <3>4. \A k \in Keys : k > made + 1 => drawn[k].last = 0
      BY CredFacts DEF IInv, KeysOK, Keys
    <3> QED
      BY <2>1, <3>1, <3>2, <3>3, <3>4 DEF IInv, KeysOK
  <2>6. ExportedOK'
    BY <2>1, <2>3, CredFacts DEF IInv, ExportedOK
  <2>7. indexed => SharedOK'
    BY <2>1, <2>2 DEF IInv, SharedOK
  <2>8. ASSUME ~indexed PROVE AloneOK'
    <3>1. AloneOK
      BY <2>8 DEF IInv
    <3>2. \A r \in Signers : memory[r].cred # made + 1
      BY CredFacts DEF IInv, KeysOK, KeyOrNone
    <3>3. \A r \in Signers, m \in Loads : Exports(r, m) => load[r][m].key # made + 1
      BY CredFacts DEF IInv, ExportedOK
    <3>4. \A r \in Signers, m \in Loads : Exports(r, m)' =>
            /\ drawn[load'[r][m].key].last = 0
            /\ \A q \in Signers : memory'[q].cred # load'[r][m].key
      BY <2>2, <2>3, <2>4, <3>1, <3>2 DEF AloneOK
    <3>5. \A r \in Signers, m \in Loads, q \in Signers, n \in Loads :
            Exports(r, m)' /\ Exports(q, n)' /\ load'[q][n].key = load'[r][m].key
              => q = r /\ n = m
      BY <2>3, <3>1, <3>3 DEF AloneOK
    <3> QED
      BY <2>1, <2>2, <2>6, <3>1, <3>4, <3>5 DEF AloneOK, ExportedOK
  <2> QED
    BY <2>1, <2>5, <2>6, <2>7, <2>8
<1>5. ASSUME Export(s, l) PROVE Rest'
  <2>1. UNCHANGED <<indexed, stored, made, call, kept, restored, drawn>> /\ Exports(s, l)
    BY <1>5 DEF Export, keys, Exports
  <2>2. \A r \in Signers :
          \/ r # s /\ memory'[r] = memory[r]
          \/ r = s /\ memory'[r].cred = load[s][l].key /\ memory'[r].nonce = 0
    <3> DEFINE x == Held(memory[s].pair, load[s][l].key, 0)
    <3>1. memory' = [memory EXCEPT ![s] = x]
      BY <1>5 DEF Export
    <3>2. x.cred = load[s][l].key /\ x.nonce = 0
      BY DEF Held
    <3> HIDE DEF x
    <3>3. \A r \in Signers : memory'[r] = IF r = s THEN x ELSE memory[r]
      BY <1>0, <3>1 DEF TypeOK
    <3> QED
      BY <3>2, <3>3
  <2>3. \A r \in Signers, m \in Loads :
          /\ load'[r][m].got \in {load[r][m].got, Cleared}
          /\ Exports(r, m)' => Exports(r, m) /\ load'[r][m].key = load[r][m].key
                               /\ ~(r = s /\ m = l)
    BY <1>0, <1>5 DEF Export, TypeOK, LoadAt, Exports
  <2>4. load[s][l].key \in 1..made
    BY <2>1 DEF IInv, ExportedOK
  <2>5. KeysOK'
    <3>1. \A r \in Signers : memory'[r].cred <= made
      BY <2>2, <2>4, CredFacts DEF IInv, KeysOK
    <3>2. \A r \in Signers, m \in Loads : load'[r][m].got.cred \in kept \cup {None}
      BY <2>3, CredFacts DEF IInv, KeysOK
    <3> QED
      BY <2>1, <3>1, <3>2 DEF IInv, KeysOK
  <2>6. ExportedOK'
    BY <2>1, <2>3 DEF IInv, ExportedOK
  <2>7. indexed => SharedOK'
    BY <2>1, <2>2 DEF IInv, SharedOK
  <2>8. ASSUME ~indexed PROVE AloneOK'
    <3>1. AloneOK
      BY <2>8 DEF IInv
    <3>2. \A r \in Signers : memory'[r].cred # None =>
            /\ drawn[memory'[r].cred].last = memory'[r].nonce
            /\ \A q \in Signers : memory'[q].cred = memory'[r].cred => q = r
      BY <2>1, <2>2, <3>1 DEF AloneOK
    <3>3. \A r \in Signers, m \in Loads : Exports(r, m)' =>
            \A q \in Signers : memory'[q].cred # load'[r][m].key
      BY <2>1, <2>2, <2>3, <3>1 DEF AloneOK
    <3> QED
      BY <2>1, <2>3, <3>1, <3>2, <3>3 DEF AloneOK
  <2> QED
    BY <2>1, <2>5, <2>6, <2>7, <2>8
<1>6. ASSUME Persist(s, l) PROVE Rest'
  <2>1. UNCHANGED <<indexed, made, drawn>>
    BY <1>6 DEF Persist
  <2>2. CallsKeep /\ LoadsKeep
    BY <1>0, <1>6, SettleKeeps DEF Persist
  <2>3. CASE UNCHANGED <<stored, memory, kept, restored>>
    BY <2>1, <2>2, <2>3, Quiet DEF MemoryKeeps
  <2>4. CASE /\ indexed /\ IsStored
             /\ memory' = [memory EXCEPT ![s] = stored]
             /\ UNCHANGED <<stored, kept, restored>>
    <3>1. stored.cred \in kept
      BY <2>4 DEF IsStored, IInv, KeysOK
    <3>2. MemoryKeeps
      BY <1>0, <2>4, <3>1 DEF MemoryKeeps, TypeOK
    <3> QED
      BY <2>1, <2>2, <2>4, <3>2, Quiet
  <2>5. CASE /\ indexed /\ HasRecord(s)
             /\ stored' = memory[s] /\ memory' = memory
             /\ kept' = kept \cup {memory[s].cred}
             /\ restored' = restored \cup (kept \cap {memory[s].cred})
    <3>1. memory[s].cred \in 1..made /\ memory[s].cred \in Keys
      BY <1>0, <2>5, CredFacts DEF HasRecord, IInv, KeysOK, KeyOrNone, Keys
    <3>2. KeysOK'
      <4>1. \A r \in Signers, d \in Calls : call'[r][d].got.cred \in kept' \cup {None}
        BY <2>2, <2>5, CredFacts DEF IInv, KeysOK, CallsKeep
      <4>2. \A r \in Signers, m \in Loads : load'[r][m].got.cred \in kept' \cup {None}
        BY <2>2, <2>5, CredFacts DEF IInv, KeysOK, LoadsKeep
      <4>3. kept' \subseteq 1..made /\ restored' \subseteq kept'
        BY <2>5, <3>1 DEF IInv, KeysOK
      <4> QED
        BY <2>1, <2>5, <4>1, <4>2, <4>3 DEF IInv, KeysOK
    <3>3. ExportedOK'
      BY <2>1, <2>2 DEF IInv, ExportedOK, LoadsKeep
    <3>4. SharedOK'
      BY <2>1, <2>5, <3>1 DEF IInv, SharedOK
    <3> QED
      BY <2>1, <2>5, <3>2, <3>3, <3>4
  <2> QED
    BY <1>6, <2>3, <2>4, <2>5 DEF Persist, keys, Adopted
<1>7. ASSUME LoadFails(s, l) PROVE Rest'
  <2>1. UNCHANGED <<indexed, stored, made, memory, kept, restored, drawn>>
    BY <1>7 DEF LoadFails, keys
  <2>2. CallsKeep /\ LoadsKeep
    BY <1>0, <1>7, SettleKeeps DEF LoadFails
  <2> QED
    BY <2>1, <2>2, Quiet DEF MemoryKeeps
<1> QED
  BY <1>0, <1>1, <1>2, <1>3, <1>4, <1>5, <1>6, <1>7 DEF LoadStep, IInv

LEMMA NextInv ==
  ASSUME IInv, [Next]_vars
  PROVE  IInv'
<1> DEFINE Rest == KeysOK /\ ExportedOK /\ (indexed => SharedOK) /\ (~indexed => AloneOK)
<1>0. TypeOK /\ TypeOK'
  BY TypeInv DEF IInv
<1>1. ASSUME DeleteStoredKey PROVE Rest'
  <2>1. /\ stored' = Cleared
        /\ UNCHANGED <<indexed, made, memory, call, load, kept, restored, drawn>>
    BY <1>1 DEF DeleteStoredKey, keys
  <2> QED
    BY <2>1, Quiet DEF CallsKeep, LoadsKeep, MemoryKeeps, Exports
<1>2. ASSUME NEW s \in Signers, Reload(s) PROVE Rest'
  <2>1. Forget(s) /\ UNCHANGED <<indexed, stored, made, kept, restored, drawn>>
    BY <1>2 DEF Reload, keys
  <2>2. CallsKeep
    BY <1>0, <1>2 DEF Reload, CallsKeep, TypeOK, NoCall, At, CallAt
  <2>3. LoadsKeep
    BY <1>0, <1>2 DEF Reload, LoadsKeep, Exports, TypeOK, NoLoad, LoadAt
  <2> QED
    BY <1>0, <2>1, <2>2, <2>3, ForgetKeeps, Quiet
<1>3. ASSUME UNCHANGED vars PROVE Rest'
  <2>1. UNCHANGED <<indexed, stored, made, memory, call, load, kept, restored, drawn>>
    BY <1>3 DEF vars, keys
  <2>2. CallsKeep /\ LoadsKeep /\ MemoryKeeps
    BY <2>1 DEF CallsKeep, LoadsKeep, MemoryKeeps, Exports
  <2> QED
    BY <2>1, <2>2, Quiet
<1> QED
  BY <1>0, <1>1, <1>2, <1>3, CallInv, LoadInv DEF Next, IInv

LEMMA InitInv ==
  ASSUME Init
  PROVE  IInv
<1>1. TypeOK
  BY Blank, ConstantsAssumption
  DEF Init, TypeOK, KeyOrNone, None, Keys, Nonces, Cleared, Held, Record
<1>2. KeysOK /\ ExportedOK
  BY <1>1, ConstantsAssumption
  DEF Init, KeysOK, ExportedOK, Exports, Cleared, Held, NoCall, At, CallAt, NoLoad, LoadAt, None
<1>3. SharedOK
  BY DEF Init, SharedOK, Cleared, Held
<1>4. AloneOK
  BY DEF Init, AloneOK, Exports, Cleared, Held, NoCall, At, CallAt, NoLoad, LoadAt, None
<1> QED
  BY <1>1, <1>2, <1>3, <1>4 DEF IInv

(* The invariant holds in every state.                                      *)
THEOREM Invariance == Spec => []IInv
BY InitInv, NextInv, PTL DEF Spec

(* The signers, their calls and the stored record keep their types.         *)
THEOREM TypeCorrect == Spec => []TypeOK
<1>1. IInv => TypeOK
  BY DEF IInv
<1> QED
  BY <1>1, Invariance, PTL

(* Whatever the tabs do, a key that is not stored a second time draws every *)
(* nonce only once and in order (nextNonce).                                *)
THEOREM NoncesIncreaseAlways == Spec => NoncesIncrease
<1>1. ASSUME IInv, [Next]_vars
      PROVE  [\A k \in Keys \ restored : drawn'[k] # drawn[k] => drawn'[k].last > drawn[k].last]_vars
  <2> SUFFICES ASSUME NEW k \in Keys \ restored, drawn'[k] # drawn[k]
               PROVE  drawn'[k].last > drawn[k].last
    OBVIOUS
  <2>1. ASSUME NEW s \in Signers, NEW c \in Calls, NextNonce(s, c)
        PROVE  drawn'[k].last > drawn[k].last
    <3>1. ASSUME NEW key \in KeyOrNone, NEW n, HandOut(key, n)
          PROVE  drawn'[k].last = n /\ k = key
      BY <1>1, <3>1 DEF HandOut, IInv, TypeOK, KeyOrNone, Keys, None
    <3>3. CASE indexed
      <4>1. PICK n \in (LastNonce(s) + 1)..MaxNonce : IsStored /\ HandOut(stored.cred, n)
        BY <2>1, <3>3 DEF NextNonce
      <4>2. drawn'[k].last = n /\ k = stored.cred
        BY <1>1, <3>1, <4>1, CredFacts
      <4>3. drawn[k].last = stored.nonce
        BY <1>1, <3>3, <4>1, <4>2 DEF IsStored, IInv, KeysOK, SharedOK
      <4> QED
        BY <1>1, <3>3, <4>2, <4>3, CredFacts DEF LastNonce
    <3>4. CASE ~indexed
      <4>1. PICK n \in (LastNonce(s) + 1)..MaxNonce : HandOut(memory[s].cred, n)
        BY <2>1, <3>4 DEF NextNonce
      <4>2. drawn'[k].last = n /\ k = memory[s].cred
        BY <1>1, <3>1, <4>1, CredFacts
      <4>3. drawn[k].last = memory[s].nonce
        BY <1>1, <3>4, <4>2, CredFacts DEF IInv, AloneOK
      <4> QED
        BY <1>1, <3>4, <4>2, <4>3, CredFacts DEF LastNonce
    <3> QED
      BY <1>1, <3>3, <3>4 DEF IInv, TypeOK
  <2>2. ASSUME NEW s \in Signers, NEW c \in Calls, CallStep(s, c)
        PROVE  NextNonce(s, c)
    BY <2>2 DEF CallStep, Begin, ReadStored, SyncWithStored, Clear, DeleteStored
  <2>3. ASSUME NEW s \in Signers, NEW l \in Loads, LoadStep(s, l)
        PROVE  FALSE
    BY <2>3 DEF LoadStep, LoadStored, UseLoaded, NoneLoaded, Generate, Export, Persist, LoadFails
  <2>4. ~DeleteStoredKey /\ ~(\E s \in Signers : Reload(s)) /\ ~UNCHANGED vars
    BY DEF DeleteStoredKey, Reload, vars
  <2> QED
    BY <1>1, <2>1, <2>2, <2>3, <2>4 DEF Next
<1> QED
  BY <1>1, Invariance, PTL DEF Spec, NoncesIncrease

-----------------------------------------------------------------------------
(* The key of a ready signer                                                *)

(* A record with a credential ID has a key pair.                            *)
HasPair(r) == r.cred # None => r.pair # None

ReadsOK ==
  /\ HasPair(stored)
  /\ \A s \in Signers, c \in Calls : HasPair(call[s][c].got)
  /\ \A s \in Signers, l \in Loads : HasPair(load[s][l].got)

(* A ready signer has a key, which was stored or is about to be.            *)
HasKey(s) == HasRecord(s) /\ (memory[s].cred \in kept \/ Storing(s))

ReadyOK ==
  \A s \in Signers \ unsaved : indexed /\ initialized[s] = "done" => HasKey(s)

(* What calls and loads have read is what is stored, if anything.           *)
Reads ==
  /\ \A s \in Signers, c \in Calls : call'[s][c].got \in {call[s][c].got, stored, Cleared}
  /\ \A s \in Signers, l \in Loads : load'[s][l].got \in {load[s][l].got, stored, Cleared}

LEMMA ReadsKeep ==
  ASSUME ReadsOK, Reads, HasPair(stored')
  PROVE  ReadsOK'
<1>1. HasPair(Cleared)
  BY DEF HasPair, Cleared, Held
<1> QED
  BY <1>1 DEF ReadsOK, Reads

LEMMA CallReads ==
  ASSUME TypeOK, ReadsOK, NEW s \in Signers, NEW c \in Calls, CallStep(s, c)
  PROVE  ReadsOK'
<1>1. HasPair(stored) /\ HasPair(Cleared) /\ \A n : HasPair(Held(stored.pair, stored.cred, n))
  BY DEF ReadsOK, HasPair, Cleared, Held
<1>2. CallsKeep /\ LoadsKeep => Reads
  BY DEF CallsKeep, LoadsKeep, Reads
<1>3. UNCHANGED load => LoadsKeep
  BY DEF LoadsKeep, Exports
<1>4. ASSUME Return(s, c), UNCHANGED load PROVE Reads
  BY <1>2, <1>3, <1>4, ReturnKeeps
<1>5. ASSUME NEW op \in {"credentialId", "nextNonce"}, Begin(s, c, op) PROVE ReadsOK'
  BY <1>1, <1>2, <1>5, BeginKeeps, ReadsKeep DEF Begin
<1>6. ASSUME ReadStored(s, c) PROVE ReadsOK'
  <2>1. UNCHANGED <<stored, load>>
    BY <1>6 DEF ReadStored
  <2>2. CASE call' = [call EXCEPT ![s][c] = CallAt("read", "credentialId", "none", stored)]
    <3>1. Reads
      BY <2>1, <2>2 DEF Reads, TypeOK, CallAt
    <3> QED
      BY <1>1, <2>1, <3>1, ReadsKeep
  <2> QED
    BY <1>1, <1>4, <1>6, <2>1, <2>2, ReadsKeep DEF ReadStored
<1>7. ASSUME SyncWithStored(s, c) PROVE ReadsOK'
  BY <1>1, <1>4, <1>7, ReadsKeep DEF SyncWithStored
<1>8. ASSUME NextNonce(s, c) PROVE ReadsOK'
  <2>1. Return(s, c) /\ UNCHANGED load
        /\ (stored' = stored \/ \E n : stored' = Held(stored.pair, stored.cred, n))
    BY <1>8 DEF NextNonce
  <2> QED
    BY <1>1, <1>4, <2>1, ReadsKeep
<1>9. ASSUME Clear(s, c) PROVE ReadsOK'
  <2>1. UNCHANGED <<stored, load>>
    BY <1>9 DEF Clear
  <2>2. \/ UNCHANGED call
        \/ call' = [call EXCEPT ![s][c] = At("clear", "credentialId", "none")]
    BY <1>9 DEF Clear
  <2>3. \A r \in Signers, d \in Calls : call'[r][d].got \in {call[r][d].got, Cleared}
    <3>1. CASE UNCHANGED call
      BY <3>1
    <3>2. CASE call' = [call EXCEPT ![s][c] = At("clear", "credentialId", "none")]
      BY <3>2 DEF TypeOK, At, CallAt
    <3> QED
      BY <2>2, <3>1, <3>2
  <2>4. Reads
    BY <2>1, <2>3 DEF Reads
  <2> QED
    BY <1>1, <2>1, <2>4, ReadsKeep
<1>10. ASSUME DeleteStored(s, c) PROVE ReadsOK'
  BY <1>1, <1>4, <1>10, ReadsKeep DEF DeleteStored
<1> QED
  BY <1>5, <1>6, <1>7, <1>8, <1>9, <1>10 DEF CallStep

LEMMA LoadReads ==
  ASSUME TypeOK, ReadsOK, NEW s \in Signers, NEW l \in Loads, LoadStep(s, l)
  PROVE  ReadsOK'
<1>1. HasPair(stored)
  BY DEF ReadsOK
<1>2. ASSUME NEW how \in {"done", "failed"}, Settle(s, l, how) PROVE Reads
  BY <1>2, SettleKeeps DEF CallsKeep, LoadsKeep, Reads
<1>3. ASSUME NEW p, NEW k, NEW r \in {stored, Cleared},
             load' = [load EXCEPT ![s][l] = LoadAt(p, k, r)], UNCHANGED <<stored, call>>
      PROVE  ReadsOK'
  <2>1. Reads
    BY <1>3 DEF Reads, TypeOK, LoadAt
  <2> QED
    BY <1>1, <1>3, <2>1, ReadsKeep
<1>4. ASSUME LoadStored(s, l) PROVE ReadsOK'
  BY <1>3, <1>4 DEF LoadStored
<1>5. ASSUME UseLoaded(s, l) PROVE ReadsOK'
  BY <1>1, <1>2, <1>5, ReadsKeep DEF UseLoaded
<1>6. ASSUME NoneLoaded(s, l) PROVE ReadsOK'
  BY <1>3, <1>6 DEF NoneLoaded
<1>7. ASSUME Generate(s, l) PROVE ReadsOK'
  BY <1>3, <1>7 DEF Generate
<1>8. ASSUME Export(s, l) PROVE ReadsOK'
  BY <1>3, <1>8 DEF Export
<1>9. ASSUME Persist(s, l) PROVE ReadsOK'
  <2>1. PICK how \in {"done", "failed"} : Settle(s, l, how)
    BY <1>9 DEF Persist
  <2>2. HasPair(stored')
    BY <1>1, <1>9 DEF Persist, HasRecord, HasPair
  <2> QED
    BY <1>2, <2>1, <2>2, ReadsKeep
<1>10. ASSUME LoadFails(s, l) PROVE ReadsOK'
  BY <1>1, <1>2, <1>10, ReadsKeep DEF LoadFails
<1> QED
  BY <1>4, <1>5, <1>6, <1>7, <1>8, <1>9, <1>10 DEF LoadStep

LEMMA ReadsNext ==
  ASSUME TypeOK, ReadsOK, [Next]_vars
  PROVE  ReadsOK'
<1>1. ASSUME NEW s \in Signers, Reload(s) PROVE ReadsOK'
  <2>1. Reads /\ UNCHANGED stored
    BY <1>1 DEF Reload, Reads, TypeOK, NoCall, At, CallAt, NoLoad, LoadAt
  <2> QED
    BY <2>1, ReadsKeep DEF ReadsOK
<1>2. ASSUME DeleteStoredKey PROVE ReadsOK'
  BY <1>2 DEF DeleteStoredKey, ReadsOK, HasPair, Cleared, Held
<1>3. ASSUME UNCHANGED vars PROVE ReadsOK'
  BY <1>3 DEF vars, ReadsOK
<1> QED
  BY <1>1, <1>2, <1>3, CallReads, LoadReads DEF Next

(* A step of a signer leaves the others as they are.                        *)
LEMMA ReadyStep ==
  ASSUME TypeOK, ReadyOK, NEW s \in Signers, UNCHANGED indexed, kept \subseteq kept',
         \A r \in Signers \ {s} :
           /\ memory'[r] = memory[r] /\ initialized'[r] = initialized[r]
           /\ load'[r] = load[r]
           /\ r \in unsaved => r \in unsaved',
         s \notin unsaved' /\ indexed /\ initialized'[s] = "done" => HasKey(s)'
  PROVE  ReadyOK'
<1>1. ASSUME NEW r \in Signers \ {s}, HasKey(r) PROVE HasKey(r)'
  BY <1>1 DEF HasKey, HasRecord, Storing
<1> QED
  BY <1>1 DEF ReadyOK

LEMMA ReadyForget ==
  ASSUME TypeOK, ReadyOK, NEW s \in Signers, Forget(s), UNCHANGED <<indexed, kept>>,
         \A r \in Signers \ {s} : load'[r] = load[r]
  PROVE  ReadyOK'
<1>1. /\ \A r \in Signers \ {s} :
           /\ memory'[r] = memory[r] /\ initialized'[r] = initialized[r]
           /\ r \in unsaved => r \in unsaved'
      /\ initialized'[s] = "none"
  BY DEF Forget, TypeOK
<1> QED
  BY <1>1, ReadyStep

(* A signer that takes a stored record has its key.                         *)
LEMMA ReadyTakes ==
  ASSUME TypeOK, ReadyOK, NEW s \in Signers, NEW r, HasPair(r), r.cred # None, r.cred \in kept,
         memory' = [memory EXCEPT ![s] = r], UNCHANGED <<indexed, kept, unsaved>>,
         \A q \in Signers \ {s} : initialized'[q] = initialized[q] /\ load'[q] = load[q]
  PROVE  ReadyOK'
<1>1. memory'[s] = r /\ \A q \in Signers \ {s} : memory'[q] = memory[q]
  BY DEF TypeOK
<1>2. HasKey(s)'
  BY <1>1 DEF HasKey, HasRecord, HasPair
<1> QED
  BY <1>1, <1>2, ReadyStep

LEMMA ReadyCall ==
  ASSUME IInv, ReadsOK, ReadyOK, NEW s \in Signers, NEW c \in Calls, CallStep(s, c)
  PROVE  ReadyOK'
<1>0. TypeOK
  BY DEF IInv
<1>1. ASSUME UNCHANGED <<indexed, memory, initialized, load, kept, unsaved>> PROVE ReadyOK'
  BY <1>1 DEF ReadyOK, HasKey, HasRecord, Storing
<1>2. ASSUME NEW op \in {"credentialId", "nextNonce"}, Begin(s, c, op) PROVE ReadyOK'
  <2>1. UNCHANGED <<indexed, memory, kept, unsaved>>
    BY <1>2 DEF Begin, keys
  <2>2. CASE UNCHANGED <<load, initialized>>
    BY <1>1, <2>1, <2>2
  <2>3. ASSUME NEW l \in Loads, initialized' = [initialized EXCEPT ![s] = l],
               load' = [load EXCEPT ![s][l] = LoadAt("read", None, Cleared)]
        PROVE  ReadyOK'
    <3>1. /\ initialized'[s] # "done"
          /\ \A r \in Signers \ {s} : initialized'[r] = initialized[r] /\ load'[r] = load[r]
      BY <1>0, <2>3, ConstantsAssumption DEF TypeOK
    <3> QED
      BY <1>0, <2>1, <3>1, ReadyStep
  <2> QED
    BY <1>2, <2>2, <2>3 DEF Begin, FreeLoads
<1>3. ASSUME ReadStored(s, c) PROVE ReadyOK'
  BY <1>1, <1>3 DEF ReadStored, keys
<1>4. ASSUME SyncWithStored(s, c) PROVE ReadyOK'
  <2>1. UNCHANGED <<indexed, load, kept>>
    BY <1>4 DEF SyncWithStored
  <2>2. HasPair(call[s][c].got) /\ call[s][c].got.cred \in kept \cup {None}
    BY DEF IInv, KeysOK, ReadsOK
  <2> QED
    BY <1>0, <1>4, <2>1, <2>2, ReadyForget, ReadyTakes DEF SyncWithStored
<1>5. ASSUME NextNonce(s, c) PROVE ReadyOK'
  <2>1. UNCHANGED <<indexed, load, kept>>
    BY <1>5 DEF NextNonce
  <2>2. CASE Forget(s)
    BY <1>0, <2>1, <2>2, ReadyForget
  <2>3. ASSUME indexed, IsStored, NEW n,
               memory' = [memory EXCEPT ![s] = Held(stored.pair, stored.cred, n)],
               UNCHANGED <<initialized, unsaved>>
        PROVE  ReadyOK'
    <3> DEFINE r == Held(stored.pair, stored.cred, n)
    <3>1. HasPair(r) /\ r.cred # None /\ r.cred \in kept
      BY <2>3 DEF Held, HasPair, IsStored, ReadsOK, IInv, KeysOK
    <3> HIDE DEF r
    <3> QED
      BY <1>0, <2>1, <2>3, <3>1, ReadyTakes DEF r
  <2>4. CASE ~indexed
    BY <2>1, <2>4 DEF ReadyOK
  <2> QED
    BY <1>5, <2>2, <2>3, <2>4 DEF NextNonce
<1>6. ASSUME Clear(s, c) PROVE ReadyOK'
  BY <1>0, <1>6, ReadyForget DEF Clear
<1>7. ASSUME DeleteStored(s, c) PROVE ReadyOK'
  BY <1>1, <1>7 DEF DeleteStored, keys
<1> QED
  BY <1>2, <1>3, <1>4, <1>5, <1>6, <1>7 DEF CallStep

(* A load that settles with the signer's key stored, or fails.              *)
LEMMA ReadySettles ==
  ASSUME TypeOK, ReadyOK, NEW s \in Signers, NEW l \in Loads, NEW how \in {"done", "failed"},
         Settle(s, l, how), UNCHANGED indexed, kept \subseteq kept', unsaved \subseteq unsaved',
         \A r \in Signers \ {s} : memory'[r] = memory[r],
         \/ ~indexed
         \/ HasRecord(s)' /\ memory'[s].cred \in kept'
         \/ how = "failed" /\ (initialized[s] = "done" => s \in unsaved')
  PROVE  ReadyOK'
<1>1. /\ \A r \in Signers \ {s} : initialized'[r] = initialized[r] /\ load'[r] = load[r]
      /\ initialized'[s] = IF initialized[s] = l THEN how ELSE initialized[s]
  BY DEF Settle, TypeOK
<1> QED
  BY <1>1, ReadyStep DEF HasKey

LEMMA ReadyLoad ==
  ASSUME IInv, ReadsOK, ReadyOK, NEW s \in Signers, NEW l \in Loads, LoadStep(s, l)
  PROVE  ReadyOK'
<1>0. TypeOK
  BY DEF IInv
<1>1. ASSUME NEW p \in LoadPCs, NEW k, NEW r, load[s][l].pc # "persist", p # "persist",
             load' = [load EXCEPT ![s][l] = LoadAt(p, k, r)],
             \A q \in Signers \ {s} : memory'[q] = memory[q],
             HasRecord(s) => HasRecord(s)', memory'[s].cred = memory[s].cred,
             UNCHANGED <<indexed, initialized, kept, unsaved>>
      PROVE  ReadyOK'
  <2>1. /\ \A q \in Signers \ {s} : load'[q] = load[q]
        /\ \A m \in Loads : load[s][m].pc = "persist" => load'[s][m].pc = "persist"
    BY <1>0, <1>1 DEF TypeOK, LoadAt
  <2>2. HasKey(s) => HasKey(s)'
    BY <1>1, <2>1 DEF HasKey, Storing
  <2>3. s \notin unsaved' /\ indexed /\ initialized'[s] = "done" => HasKey(s)'
    BY <1>1, <2>2 DEF ReadyOK
  <2> QED
    BY <1>0, <1>1, <2>1, <2>3, ReadyStep
<1>2. ASSUME UNCHANGED memory
      PROVE  /\ \A q \in Signers \ {s} : memory'[q] = memory[q]
             /\ HasRecord(s) => HasRecord(s)'
             /\ memory'[s].cred = memory[s].cred
  BY <1>2 DEF HasRecord
<1>3. ASSUME LoadStored(s, l) PROVE ReadyOK'
  BY <1>1, <1>2, <1>3 DEF LoadStored, keys, LoadPCs
<1>4. ASSUME NoneLoaded(s, l) PROVE ReadyOK'
  BY <1>1, <1>2, <1>4 DEF NoneLoaded, keys, LoadPCs
<1>5. ASSUME Generate(s, l) PROVE ReadyOK'
  <2>1. /\ memory'[s].pair = made + 1 /\ memory'[s].cred = memory[s].cred
        /\ \A q \in Signers \ {s} : memory'[q] = memory[q]
    BY <1>0, <1>5 DEF Generate, Held, TypeOK
  <2>2. HasRecord(s) => HasRecord(s)'
    BY <2>1, CredFacts DEF HasRecord
  <2> QED
    BY <1>1, <1>5, <2>1, <2>2 DEF Generate, keys, LoadPCs
<1>6. ASSUME Export(s, l) PROVE ReadyOK'
  <2>1. /\ memory'[s].pair = memory[s].pair /\ memory'[s].cred = load[s][l].key
        /\ load'[s][l].pc = "persist"
        /\ \A q \in Signers \ {s} : memory'[q] = memory[q] /\ load'[q] = load[q]
        /\ UNCHANGED <<indexed, initialized, kept, unsaved>>
    BY <1>0, <1>6 DEF Export, Held, LoadAt, keys, TypeOK
  <2>2. load[s][l].key # None
    BY <1>6, CredFacts DEF Export, Exports, ExportedOK, IInv
  <2>3. HasKey(s) => HasKey(s)'
    BY <2>1, <2>2 DEF HasKey, HasRecord, Storing
  <2>4. s \notin unsaved' /\ indexed /\ initialized'[s] = "done" => HasKey(s)'
    BY <2>1, <2>3 DEF ReadyOK
  <2> QED
    BY <1>0, <2>1, <2>4, ReadyStep
<1>7. ASSUME UseLoaded(s, l) PROVE ReadyOK'
  <2>1. /\ Settle(s, l, "done") /\ UNCHANGED <<indexed, kept, unsaved>>
        /\ memory' = [memory EXCEPT ![s] = load[s][l].got]
        /\ load[s][l].got.cred # None /\ load[s][l].got.cred \in kept
        /\ HasPair(load[s][l].got)
    BY <1>7 DEF UseLoaded, keys, IInv, KeysOK, ReadsOK
  <2>2. memory'[s] = load[s][l].got /\ \A r \in Signers \ {s} : memory'[r] = memory[r]
    BY <1>0, <2>1 DEF TypeOK
  <2>3. HasRecord(s)' /\ memory'[s].cred \in kept'
    BY <2>1, <2>2 DEF HasRecord, HasPair
  <2> QED
    BY <1>0, <2>1, <2>2, <2>3, ReadySettles
<1>8. ASSUME LoadFails(s, l) PROVE ReadyOK'
  <2>1. /\ Settle(s, l, "failed") /\ UNCHANGED <<indexed, kept, memory>>
        /\ unsaved \subseteq unsaved' /\ (initialized[s] = "done" => s \in unsaved')
    BY <1>8 DEF LoadFails
  <2> QED
    BY <1>0, <2>1, ReadySettles
<1>9. ASSUME Persist(s, l) PROVE ReadyOK'
  <2>1. UNCHANGED <<indexed, unsaved>>
    BY <1>9 DEF Persist, keys
  <2>2. CASE ~indexed
    <3>1. Settle(s, l, "done") /\ UNCHANGED <<memory, kept>>
      BY <1>9, <2>2 DEF Persist, keys
    <3> QED
      BY <1>0, <2>1, <2>2, <3>1, ReadySettles
  <2>3. CASE indexed /\ IsStored
    <3>1. Settle(s, l, "done") /\ memory' = [memory EXCEPT ![s] = stored] /\ UNCHANGED kept
      BY <1>9, <2>3 DEF Persist, keys, Adopted
    <3>2. memory'[s] = stored /\ \A r \in Signers \ {s} : memory'[r] = memory[r]
      BY <1>0, <3>1 DEF TypeOK
    <3>3. HasRecord(s)' /\ memory'[s].cred \in kept'
      BY <2>3, <3>1, <3>2 DEF IsStored, IInv, KeysOK, ReadsOK, HasPair, HasRecord
    <3> QED
      BY <1>0, <2>1, <3>1, <3>2, <3>3, ReadySettles
  <2>4. CASE indexed /\ ~IsStored /\ HasRecord(s)
    <3>1. Settle(s, l, "done") /\ kept' = kept \cup {memory[s].cred} /\ UNCHANGED memory
      BY <1>9, <2>4 DEF Persist
    <3>2. HasRecord(s)' /\ memory'[s].cred \in kept'
      BY <2>4, <3>1 DEF HasRecord
    <3> QED
      BY <1>0, <2>1, <3>1, <3>2, ReadySettles
  <2>5. CASE indexed /\ ~IsStored /\ ~HasRecord(s)
    <3>1. Settle(s, l, "failed") /\ UNCHANGED <<memory, kept>>
      BY <1>9, <2>5 DEF Persist, keys
    <3>2. initialized[s] = "done" => s \in unsaved
      BY <2>5 DEF ReadyOK, HasKey
    <3> QED
      BY <1>0, <2>1, <3>1, <3>2, ReadySettles
  <2> QED
    BY <1>0, <2>2, <2>3, <2>4, <2>5 DEF TypeOK
<1> QED
  BY <1>3, <1>4, <1>5, <1>6, <1>7, <1>8, <1>9 DEF LoadStep

LEMMA ReadyNext ==
  ASSUME IInv, ReadsOK, ReadyOK, [Next]_vars
  PROVE  ReadyOK'
<1>0. TypeOK
  BY DEF IInv
<1>1. ASSUME NEW s \in Signers, Reload(s) PROVE ReadyOK'
  <2>1. Forget(s) /\ UNCHANGED <<indexed, kept>>
        /\ \A r \in Signers \ {s} : load'[r] = load[r]
    BY <1>0, <1>1 DEF Reload, TypeOK
  <2> QED
    BY <1>0, <2>1, ReadyForget
<1>2. ASSUME UNCHANGED <<indexed, memory, initialized, load, kept, unsaved>> PROVE ReadyOK'
  BY <1>2 DEF ReadyOK, HasKey, HasRecord, Storing
<1>3. ASSUME DeleteStoredKey PROVE ReadyOK'
  BY <1>2, <1>3 DEF DeleteStoredKey, keys
<1>4. ASSUME UNCHANGED vars PROVE ReadyOK'
  BY <1>2, <1>4 DEF vars, keys
<1> QED
  BY <1>1, <1>3, <1>4, ReadyCall, ReadyLoad DEF Next

(* No signer is ready with a key that was never stored and that no load is  *)
(* about to store, however its loads, clears and calls overlap, unless a    *)
(* load given up by a clear failed under it (clear, loadOrCreate,           *)
(* persistNewCredentialOrLoadExisting).                                     *)
THEOREM ReadyKeyWasStoredAlways == Spec => []ReadyKeyWasStored
<1>1. Init => ReadsOK /\ ReadyOK
  BY DEF Init, ReadsOK, ReadyOK, HasPair, Cleared, Held, NoCall, At, CallAt, NoLoad, LoadAt
<1>2. IInv /\ ReadsOK /\ ReadyOK /\ [Next]_vars => ReadsOK' /\ ReadyOK'
  BY ReadsNext, ReadyNext DEF IInv
<1>3. ReadyOK => ReadyKeyWasStored
  BY DEF ReadyOK, HasKey, ReadyKeyWasStored
<1> QED
  BY <1>1, <1>2, <1>3, Invariance, PTL DEF Spec

=============================================================================
