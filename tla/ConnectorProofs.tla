-------------------------- MODULE ConnectorProofs --------------------------
(***************************************************************************)
(* What is proved of any number of calls, wallets, session changes,        *)
(* listeners and storage requests.                                         *)
(***************************************************************************)
EXTENDS Connector, TLAPS

-----------------------------------------------------------------------------
(* The inductive invariant *)

todo == storage.todo

(* A call in one of these has called storage and awaits or has its answer.  *)
Asking == {"clearing", "authorize", "reading", "leaving"}

CallOK(c) ==
  /\ call[c].pc = "idle" => call[c] = NoCall
  /\ call[c].pc \in {"clearing", "follow", "authorize", "behind", "got", "linking", "linked"}
       => call[c].kind \in Connecting
  /\ call[c].pc \in {"reading", "wallet"} => call[c].kind \in Connecting \cup {"sign"}
  /\ call[c].pc \in {"behind", "got", "linking", "linked"} => call[c].got \in Ethereum

(* A call between followSession and the account it reports.                 *)
Follows(c) ==
  call[c].kind \in Connecting /\ call[c].pc \in {"reading", "wallet", "behind", "got"}

(* The listener is that of a connected account, or of a call about to have  *)
(* one.                                                                     *)
ListenOK == listener # 0 => account # NoWallet \/ \E c \in Calls : Follows(c)

(* A call has one storage request at most, while it awaits its answer.      *)
AskedOK ==
  /\ \A i \in 1..Len(todo) : todo[i].by \in Calls =>
       call[todo[i].by].pc \in Asking /\ call[todo[i].by].answer = "none"
  /\ \A i, j \in 1..Len(todo) : todo[i].by \in Calls /\ todo[i].by = todo[j].by => i = j

(* From the i-th on, storage is only read.                                  *)
ReadsFrom(i) == \A j \in 1..Len(todo) : j >= i => todo[j].op = "read"

(* The flag is what the last write writes, or what has been written.        *)
FlagOK ==
  touched /\ ~storage.failed =>
    /\ ReadsFrom(1) => flag = storage.flag
    /\ \A i \in 1..Len(todo) :
         todo[i].op # "read" /\ ReadsFrom(i + 1) => flag = (todo[i].op = "set")

(* What a call reads of the flag, if it is taken, is no older than the last *)
(* write.                                                                   *)
FreshOK ==
  \A c \in fresh :
    /\ call[c].pc \in {"authorize", "reading"}
    /\ call[c].answer = "none" =>
         \E i \in 1..Len(todo) : todo[i].by = c /\ ReadsFrom(i)
    /\ call[c].answer # "none" => ReadsFrom(1)
    /\ call[c].answer = "true" => storage.flag

IInv ==
  /\ TypeOK /\ ListenOK /\ AskedOK /\ FlagOK /\ FreshOK
  /\ \A c \in Calls : CallOK(c)

-----------------------------------------------------------------------------
(* Storage requests *)

LEMMA AskFacts ==
  ASSUME TypeOK, NEW c \in Calls \cup {NoWallet}, NEW op \in {"read", "set", "remove"}, Ask(c, op)
  PROVE  /\ storage' \in [flag : BOOLEAN, todo : Seq(Request), failed : BOOLEAN]
         /\ storage'.flag = storage.flag /\ storage'.failed = storage.failed
         /\ Len(todo) \in Nat /\ Len(todo') = Len(todo) + 1
         /\ \A i \in 1..Len(todo) : todo'[i] = todo[i]
         /\ todo'[Len(todo')] = [by |-> c, op |-> op]
<1>1. todo \in Seq(Request) /\ [by |-> c, op |-> op] \in Request
  BY DEF TypeOK, todo, Request
<1>2. todo' = Append(todo, [by |-> c, op |-> op])
  BY DEF Ask, todo, TypeOK
<1>3. storage' = [storage EXCEPT !.todo = todo']
  BY <1>2 DEF Ask, todo, TypeOK
<1>4. todo' \in Seq(Request) /\ Len(todo) \in Nat /\ Len(todo') = Len(todo) + 1
  BY <1>1, <1>2
<1>5. storage' \in [flag : BOOLEAN, todo : Seq(Request), failed : BOOLEAN]
  BY <1>3, <1>4 DEF TypeOK
<1>6. storage'.flag = storage.flag /\ storage'.failed = storage.failed
  BY <1>3 DEF TypeOK
<1>7. /\ \A i \in 1..Len(todo) : todo'[i] = todo[i]
      /\ todo'[Len(todo')] = [by |-> c, op |-> op]
  BY <1>1, <1>2
<1> QED
  BY <1>4, <1>5, <1>6, <1>7

(* The calls but one go on as they were.                                    *)
Elsewhere(c) == \A d \in Calls : d # c => call'[d] = call[d]

(* What these calls have asked storage for stays as it is.                  *)
AskAlike(S) ==
  \A d \in S :
    /\ call'[d].answer = call[d].answer
    /\ call[d].pc \in Asking \/ call'[d].pc \in Asking => call'[d].pc = call[d].pc

StorageOK == AskedOK /\ FlagOK /\ FreshOK

(* A write: what was read before it is not taken any more.                  *)
LEMMA WriteInv ==
  ASSUME TypeOK, StorageOK, NEW c \in Calls \cup {NoWallet}, NEW next \in BOOLEAN,
         SetManuallyDisconnected(c, next), AskAlike(Calls \ {c}),
         c \in Calls => /\ call[c].pc = "idle"
                        /\ call'[c].pc \in Asking /\ call'[c].answer = "none"
  PROVE  StorageOK'
<1> DEFINE op == IF next THEN "set" ELSE "remove"
<1>1. Ask(c, op) /\ fresh' = {} /\ flag' = next
  BY DEF SetManuallyDisconnected
<1> op \in {"set", "remove"}
  OBVIOUS
<1> HIDE DEF op
<1>0. /\ storage'.flag = storage.flag /\ storage'.failed = storage.failed
      /\ Len(todo) \in Nat /\ Len(todo') = Len(todo) + 1
      /\ \A i \in 1..Len(todo) : todo'[i] = todo[i]
      /\ todo'[Len(todo')] = [by |-> c, op |-> op]
  BY <1>1, AskFacts
<1>a. PICK n \in Nat : n = Len(todo')
  BY <1>0
<1>2. /\ storage'.flag = storage.flag /\ storage'.failed = storage.failed
      /\ n = Len(todo') /\ Len(todo) \in Nat /\ n = Len(todo) + 1
      /\ \A i \in 1..Len(todo) : todo'[i] = todo[i]
      /\ todo'[n].by = c /\ todo'[n].op = op
  BY <1>0, <1>a
<1>3. \A i \in 1..Len(todo) : todo[i].by # c \/ c \notin Calls
  BY DEF StorageOK, AskedOK, Asking
<1>4. AskedOK'
  <2>1. ASSUME NEW i \in 1..n, todo'[i].by \in Calls
        PROVE  call'[todo'[i].by].pc \in Asking /\ call'[todo'[i].by].answer = "none"
    <3>1. CASE i = n
      BY <1>2, <2>1, <3>1
    <3>2. CASE i \in 1..Len(todo)
      BY <1>2, <1>3, <2>1, <3>2 DEF StorageOK, AskedOK, AskAlike
    <3> QED
      BY <1>2, <3>1, <3>2
  <2>2. ASSUME NEW i \in 1..n, NEW j \in 1..n, todo'[i].by \in Calls, todo'[i].by = todo'[j].by
        PROVE  i = j
    BY <1>2, <1>3, <2>2 DEF StorageOK, AskedOK
  <2> QED
    BY <1>2, <2>1, <2>2 DEF AskedOK
<1>5. FlagOK'
  <2>1. ~ReadsFrom(1)'
    BY <1>2 DEF ReadsFrom
  <2>2. ASSUME NEW i \in 1..n, ReadsFrom(i + 1)' PROVE i = n
    BY <1>2, <2>2 DEF ReadsFrom
  <2>3. flag' = (todo'[n].op = "set")
    BY <1>1, <1>2 DEF op
  <2> QED
    BY <1>2, <2>1, <2>2, <2>3 DEF FlagOK
<1> QED
  BY <1>1, <1>4, <1>5 DEF StorageOK, FreshOK

(* A read of the flag.                                                      *)
LEMMA ReadInv ==
  ASSUME TypeOK, StorageOK, NEW c \in Calls, Ask(c, "read"), fresh' = fresh \cup {c},
         UNCHANGED <<flag, touched>>, Elsewhere(c),
         call[c].pc \notin Asking,
         call'[c].pc \in {"authorize", "reading"}, call'[c].answer = "none"
  PROVE  StorageOK'
<1>0. /\ storage'.flag = storage.flag /\ storage'.failed = storage.failed
      /\ Len(todo) \in Nat /\ Len(todo') = Len(todo) + 1
      /\ \A i \in 1..Len(todo) : todo'[i] = todo[i]
      /\ todo'[Len(todo')] = [by |-> c, op |-> "read"]
  BY AskFacts
<1>a. PICK n \in Nat : n = Len(todo')
  BY <1>0
<1>2. /\ storage'.flag = storage.flag /\ storage'.failed = storage.failed
      /\ n = Len(todo') /\ Len(todo) \in Nat /\ n = Len(todo) + 1
      /\ \A i \in 1..Len(todo) : todo'[i] = todo[i]
      /\ todo'[n].by = c /\ todo'[n].op = "read"
  BY <1>0, <1>a
<1>3. \A i \in 1..Len(todo) : todo[i].by # c
  BY DEF StorageOK, AskedOK
<1>4. AskedOK'
  <2>1. ASSUME NEW i \in 1..n, todo'[i].by \in Calls
        PROVE  call'[todo'[i].by].pc \in Asking /\ call'[todo'[i].by].answer = "none"
    <3>1. CASE i = n
      BY <1>2, <2>1, <3>1 DEF Asking
    <3>2. CASE i \in 1..Len(todo)
      BY <1>2, <1>3, <2>1, <3>2 DEF StorageOK, AskedOK, Elsewhere
    <3> QED
      BY <1>2, <3>1, <3>2
  <2>2. ASSUME NEW i \in 1..n, NEW j \in 1..n, todo'[i].by \in Calls, todo'[i].by = todo'[j].by
        PROVE  i = j
    BY <1>2, <1>3, <2>2 DEF StorageOK, AskedOK
  <2> QED
    BY <1>2, <2>1, <2>2 DEF AskedOK
<1>5. \A i \in Nat : ReadsFrom(i)' = ReadsFrom(i)
  BY <1>2 DEF ReadsFrom
<1>6. FlagOK'
  <2>1. ASSUME NEW i \in 1..n, todo'[i].op # "read"
        PROVE  i \in 1..Len(todo) /\ todo[i].op = todo'[i].op
    BY <1>2, <2>1
  <2> QED
    BY <1>2, <1>5, <2>1 DEF StorageOK, FlagOK
<1>7. FreshOK'
  <2> SUFFICES ASSUME NEW d \in fresh'
               PROVE  /\ call'[d].pc \in {"authorize", "reading"}
                      /\ call'[d].answer = "none" =>
                           \E i \in 1..n : todo'[i].by = d /\ ReadsFrom(i)'
                      /\ call'[d].answer # "none" => ReadsFrom(1)'
                      /\ call'[d].answer = "true" => storage'.flag
    BY <1>2 DEF FreshOK
  <2>1. CASE d = c
    <3>1. ReadsFrom(n)'
      BY <1>2 DEF ReadsFrom
    <3> QED
      BY <1>2, <2>1, <3>1
  <2>2. CASE d # c
    <3>1. d \in fresh /\ d \in Calls /\ call'[d] = call[d]
      BY <2>2 DEF Elsewhere, TypeOK
    <3>2. ASSUME NEW i \in 1..Len(todo), todo[i].by = d, ReadsFrom(i)
          PROVE  i \in 1..n /\ todo'[i].by = d /\ ReadsFrom(i)'
      BY <1>2, <1>5, <3>2
    <3> QED
      BY <1>2, <1>5, <3>1, <3>2 DEF StorageOK, FreshOK
  <2> QED
    BY <2>1, <2>2
<1> QED
  BY <1>4, <1>6, <1>7 DEF StorageOK

(* A call that awaits no answer goes on.                                    *)
LEMMA MoveInv ==
  ASSUME TypeOK, StorageOK, NEW c \in Calls, Elsewhere(c),
         call[c].pc \notin Asking \/ call[c].answer # "none",
         fresh' = fresh \ {c}, UNCHANGED <<storage, touched>>,
         flag' = flag \/ ~touched \/ storage.failed
  PROVE  StorageOK'
<1>1. todo' = todo
  BY DEF todo
<1>2. \A i \in 1..Len(todo) : todo[i].by # c
  BY DEF StorageOK, AskedOK
<1>3. AskedOK'
  BY <1>1, <1>2 DEF StorageOK, AskedOK, Elsewhere
<1>4. \A i \in Nat : ReadsFrom(i)' = ReadsFrom(i)
  BY <1>1 DEF ReadsFrom
<1>5. FlagOK'
  BY <1>1 DEF StorageOK, FlagOK, ReadsFrom
<1>6. FreshOK'
  BY <1>1 DEF StorageOK, FreshOK, Elsewhere, ReadsFrom, TypeOK
<1> QED
  BY <1>3, <1>5, <1>6 DEF StorageOK

(* An answer.                                                               *)
LEMMA ServeFacts ==
  ASSUME TypeOK, Serve
  PROVE  /\ Len(todo) \in Nat \ {0} /\ todo[1] \in Request
         /\ storage' \in [flag : BOOLEAN, todo : Seq(Request), failed : BOOLEAN]
         /\ Len(todo') \in Nat /\ Len(todo') = Len(todo) - 1
         /\ \A i \in 1..Len(todo') : todo'[i] = todo[i + 1]
         /\ \/ todo[1].op = "read" /\ storage'.flag = storage.flag /\ storage'.failed = storage.failed
            \/ /\ todo[1].op # "read" /\ storage'.flag = (todo[1].op = "set")
               /\ storage'.failed = storage.failed
            \/ storage'.flag = storage.flag /\ storage'.failed
<1>1. todo \in Seq(Request) /\ todo # <<>> /\ Len(todo) \in Nat
  BY DEF TypeOK, todo, Serve
<1>2. Len(todo) # 0 /\ Head(todo) = todo[1] /\ todo[1] \in Request
  BY <1>1
<1>3. /\ Tail(todo) \in Seq(Request)
      /\ Len(Tail(todo)) \in Nat /\ Len(Tail(todo)) = Len(todo) - 1
      /\ \A i \in 1..Len(Tail(todo)) : Tail(todo)[i] = todo[i + 1]
  BY <1>1, <1>2
<1>4. \/ todo[1].op = "read" /\ storage' = [storage EXCEPT !.todo = Tail(todo)]
      \/ /\ todo[1].op # "read"
         /\ storage' = [storage EXCEPT !.todo = Tail(todo), !.flag = (todo[1].op = "set")]
      \/ storage' = [storage EXCEPT !.todo = Tail(todo), !.failed = TRUE]
  BY <1>2 DEF Serve, todo
<1>5. todo' = Tail(todo)
  BY <1>4 DEF TypeOK, todo
<1>6. storage' \in [flag : BOOLEAN, todo : Seq(Request), failed : BOOLEAN]
  BY <1>3, <1>4 DEF TypeOK
<1>7. \/ todo[1].op = "read" /\ storage'.flag = storage.flag /\ storage'.failed = storage.failed
      \/ /\ todo[1].op # "read" /\ storage'.flag = (todo[1].op = "set")
         /\ storage'.failed = storage.failed
      \/ storage'.flag = storage.flag /\ storage'.failed
  BY <1>4 DEF TypeOK
<1> QED
  BY <1>1, <1>2, <1>3, <1>5, <1>6, <1>7

LEMMA ServeCalls ==
  ASSUME TypeOK, Serve
  PROVE  /\ \A c \in Calls : c # todo[1].by => call'[c] = call[c]
         /\ todo[1].by \in Calls =>
              /\ call' = [call EXCEPT ![todo[1].by].answer = call'[todo[1].by].answer]
              /\ call'[todo[1].by].answer \in Answers \ {"none"}
              /\ call'[todo[1].by].answer = "true" => todo[1].op = "read" /\ storage.flag
         /\ todo[1].by \notin Calls => call' = call
<1>1. todo \in Seq(Request) /\ todo # <<>> /\ Head(todo) = todo[1]
  BY DEF TypeOK, todo, Serve
<1>2. PICK a \in Answers \ {"none"} :
        /\ call' = IF todo[1].by \in Calls THEN [call EXCEPT ![todo[1].by].answer = a] ELSE call
        /\ a = "true" => todo[1].op = "read" /\ storage.flag
  <2> DEFINE With(a) == IF todo[1].by \in Calls THEN [call EXCEPT ![todo[1].by].answer = a] ELSE call
  <2>1. \/ todo[1].op = "read" /\ call' = With(IF storage.flag THEN "true" ELSE "absent")
        \/ call' = With("absent")
        \/ call' = With("failed")
    BY <1>1 DEF Serve, todo
  <2>2. CASE call' = With("absent") \/ call' = With("failed")
    BY <2>2 DEF Answers
  <2>3. CASE todo[1].op = "read" /\ storage.flag /\ call' = With("true")
    BY <2>3 DEF Answers
  <2> QED
    BY <2>1, <2>2, <2>3
<1>3. call \in [Calls -> [kind : Kinds \cup {NoWallet}, pc : PCs, answer : Answers, got : Account]]
  BY DEF TypeOK
<1>4. ASSUME todo[1].by \in Calls
      PROVE  call'[todo[1].by].answer = a
  BY <1>2, <1>3, <1>4
<1> QED
  BY <1>2, <1>3, <1>4

LEMMA ServeInv ==
  ASSUME TypeOK, StorageOK, Serve
  PROVE  StorageOK'
<1>0. PICK n \in Nat : n = Len(todo')
  BY ServeFacts
<1>1. PICK r \in Request : r = todo[1]
  BY ServeFacts
<1>2. /\ Len(todo) = n + 1 /\ n = Len(todo')
      /\ \A i \in 1..n : todo'[i] = todo[i + 1]
      /\ \/ r.op = "read" /\ storage'.flag = storage.flag /\ storage'.failed = storage.failed
         \/ r.op # "read" /\ storage'.flag = (r.op = "set") /\ storage'.failed = storage.failed
         \/ storage'.flag = storage.flag /\ storage'.failed
  BY <1>0, <1>1, ServeFacts
<1>3. /\ \A c \in Calls : c # r.by => call'[c] = call[c]
      /\ r.by \in Calls =>
           /\ call'[r.by].pc = call[r.by].pc
           /\ call'[r.by].answer # "none"
           /\ call'[r.by].answer = "true" => r.op = "read" /\ storage.flag
  BY <1>1, ServeCalls DEF TypeOK
<1>4. UNCHANGED <<flag, touched, fresh>>
  BY DEF Serve, connector, remembered
<1>5. \A i \in 1..n : i + 1 \in 1..Len(todo) /\ (r.by \in Calls => todo'[i].by # r.by)
  BY <1>1, <1>2 DEF StorageOK, AskedOK
<1>6. AskedOK'
  <2>1. ASSUME NEW i \in 1..n, todo'[i].by \in Calls
        PROVE  call'[todo'[i].by].pc \in Asking /\ call'[todo'[i].by].answer = "none"
    BY <1>2, <1>3, <1>5, <2>1 DEF StorageOK, AskedOK
  <2>2. ASSUME NEW i \in 1..n, NEW j \in 1..n, todo'[i].by \in Calls, todo'[i].by = todo'[j].by
        PROVE  i = j
    BY <1>2, <1>5, <2>2 DEF StorageOK, AskedOK
  <2> QED
    BY <1>2, <2>1, <2>2 DEF AskedOK
<1>7. \A i \in Nat : ReadsFrom(i + 1) => ReadsFrom(i)'
  BY <1>2, <1>5 DEF ReadsFrom
<1>8. \A i \in Nat \ {0} : ReadsFrom(i)' => ReadsFrom(i + 1)
  <2> SUFFICES ASSUME NEW i \in Nat \ {0}, ReadsFrom(i)',
                      NEW j \in 1..Len(todo), j >= i + 1
               PROVE  todo[j].op = "read"
    BY DEF ReadsFrom
  <2>1. j - 1 \in 1..n /\ j - 1 >= i /\ todo'[j - 1] = todo[j]
    BY <1>2
  <2> QED
    BY <1>2, <2>1 DEF ReadsFrom
<1>9. FlagOK'
  <2> SUFFICES ASSUME touched', ~storage'.failed
               PROVE  /\ ReadsFrom(1)' => flag' = storage'.flag
                      /\ \A i \in 1..n :
                           todo'[i].op # "read" /\ ReadsFrom(i + 1)' => flag' = (todo'[i].op = "set")
    BY <1>2 DEF FlagOK
  <2>1. touched /\ ~storage.failed
    BY <1>2, <1>4 DEF TypeOK
  <2>2. ASSUME ReadsFrom(1)' PROVE flag' = storage'.flag
    <3>1. ReadsFrom(2)
      BY <1>8, <2>2
    <3>2. r.op = "read" => ReadsFrom(1)
      BY <1>1, <3>1 DEF ReadsFrom
    <3>3. 1 \in 1..Len(todo)
      BY <1>2
    <3> QED
      BY <1>1, <1>2, <1>4, <2>1, <3>1, <3>2, <3>3 DEF StorageOK, FlagOK
  <2>3. ASSUME NEW i \in 1..n, todo'[i].op # "read", ReadsFrom(i + 1)'
        PROVE  flag' = (todo'[i].op = "set")
    <3>1. ReadsFrom((i + 1) + 1) /\ i + 1 \in 1..Len(todo)
      BY <1>5, <1>8, <2>3
    <3> QED
      BY <1>2, <1>4, <2>1, <2>3, <3>1 DEF StorageOK, FlagOK
  <2> QED
    BY <2>2, <2>3
<1>10. FreshOK'
  <2> SUFFICES ASSUME NEW d \in fresh
               PROVE  /\ call'[d].pc \in {"authorize", "reading"}
                      /\ call'[d].answer = "none" =>
                           \E i \in 1..n : todo'[i].by = d /\ ReadsFrom(i)'
                      /\ call'[d].answer # "none" => ReadsFrom(1)'
                      /\ call'[d].answer = "true" => storage'.flag
    BY <1>2, <1>4 DEF FreshOK
  <2>0. d \in Calls /\ 1 \in 1..Len(todo)
    BY <1>2 DEF TypeOK
  <2>1. CASE d = r.by
    <3>1. call[d].answer = "none"
      BY <1>1, <2>0, <2>1 DEF StorageOK, AskedOK
    <3>2. ReadsFrom(1)
      BY <1>1, <2>0, <2>1, <3>1 DEF StorageOK, AskedOK, FreshOK
    <3>3. ReadsFrom(1)' /\ r.op = "read"
      BY <1>1, <1>2, <1>5, <3>2 DEF ReadsFrom
    <3> QED
      BY <1>2, <1>3, <2>0, <2>1, <3>3 DEF StorageOK, FreshOK
  <2>2. CASE d # r.by
    <3>1. call'[d] = call[d]
      BY <1>3, <2>0, <2>2
    <3>2. ASSUME NEW i \in 1..Len(todo), todo[i].by = d, ReadsFrom(i)
          PROVE  i - 1 \in 1..n /\ todo'[i - 1].by = d /\ ReadsFrom(i - 1)'
      <4>1. i # 1
        BY <1>1, <2>2, <3>2
      <4>2. i - 1 \in 1..n /\ (i - 1) + 1 = i
        BY <1>2, <4>1
      <4> QED
        BY <1>2, <1>7, <3>2, <4>2
    <3>3. ReadsFrom(1) => ReadsFrom(1)' /\ r.op = "read"
      BY <1>1, <1>2, <1>5, <2>0 DEF ReadsFrom
    <3> QED
      BY <1>2, <3>1, <3>2, <3>3 DEF StorageOK, FreshOK
  <2> QED
    BY <2>1, <2>2
<1> QED
  BY <1>6, <1>9, <1>10 DEF StorageOK

(* The steps of the session leave storage and what is asked of it alone.    *)
LEMMA StorageSame ==
  ASSUME TypeOK, StorageOK, AskAlike(Calls), UNCHANGED <<storage, flag, touched, fresh>>
  PROVE  StorageOK'
<1>1. todo' = todo
  BY DEF todo
<1>2. AskedOK'
  BY <1>1 DEF StorageOK, AskedOK, AskAlike
<1>3. FlagOK'
  BY <1>1 DEF StorageOK, FlagOK, ReadsFrom
<1>4. FreshOK'
  BY <1>1 DEF StorageOK, FreshOK, ReadsFrom, AskAlike, Asking, TypeOK
<1> QED
  BY <1>2, <1>3, <1>4 DEF StorageOK

(* A flag that is taken says nothing new once the flag has been set.        *)
LEMMA TakeInv ==
  ASSUME TypeOK, StorageOK, NEW c \in Calls, call[c].answer # "none", TakeFlag(c)
  PROVE  flag' = flag \/ ~touched \/ storage.failed
<1>1. fresh \subseteq Calls /\ flag \in BOOLEAN
  BY DEF TypeOK
<1>2. CASE FlagRead(c)
  <2>1. c \in fresh /\ call[c].answer = "true"
    BY <1>2 DEF FlagRead, SameVersion
  <2>2. ReadsFrom(1) /\ storage.flag
    BY <2>1 DEF StorageOK, FreshOK
  <2>3. storage.flag \in BOOLEAN
    BY DEF TypeOK
  <2>4. touched /\ ~storage.failed => flag = storage.flag
    BY <2>2 DEF StorageOK, FlagOK
  <2>5. storage.flag = TRUE
    BY <2>2, <2>3
  <2>6. flag' = TRUE
    BY <1>2 DEF TakeFlag
  <2> QED
    BY <2>4, <2>5, <2>6
<1>3. CASE ~FlagRead(c)
  BY <1>1, <1>3 DEF TakeFlag
<1> QED
  BY <1>2, <1>3

LEMMA CallStepStorage ==
  ASSUME TypeOK, StorageOK, \A d \in Calls : CallOK(d), NEW c \in Calls, CallStep(c)
  PROVE  StorageOK'
<1>0. /\ call \in [Calls -> [kind : Kinds \cup {NoWallet}, pc : PCs, answer : Answers, got : Account]]
      /\ fresh \subseteq Calls
      /\ call[c].pc \notin {"authorize", "reading"} => fresh \ {c} = fresh
  BY DEF TypeOK, StorageOK, FreshOK
<1>1. ASSUME NEW pc \in PCs, Goto(c, pc) PROVE Elsewhere(c)
  BY <1>0, <1>1 DEF Goto, Elsewhere
<1>2. ASSUME Return(c) PROVE Elsewhere(c)
  BY <1>0, <1>2 DEF Return, Elsewhere
<1>3. CASE Connect(c)
  <2>1. SetManuallyDisconnected(c, FALSE) /\ call[c].pc = "idle"
    BY <1>3 DEF Connect
  <2>2. call[c].answer = "none"
    BY <2>1 DEF CallOK, NoCall
  <2>3. Elsewhere(c) /\ call'[c].pc \in Asking /\ call'[c].answer = "none"
    BY <1>0, <1>3, <2>2 DEF Connect, Elsewhere, Asking
  <2> QED
    BY <2>1, <2>3, WriteInv DEF Elsewhere, AskAlike
<1>4. CASE Disconnect(c)
  <2>1. SetManuallyDisconnected(c, TRUE) /\ call[c].pc = "idle"
    BY <1>4 DEF Disconnect
  <2>2. call[c].answer = "none"
    BY <2>1 DEF CallOK, NoCall
  <2>3. Elsewhere(c) /\ call'[c].pc \in Asking /\ call'[c].answer = "none"
    BY <1>0, <1>4, <2>2 DEF Disconnect, Elsewhere, Asking
  <2> QED
    BY <2>1, <2>3, WriteInv DEF Elsewhere, AskAlike
<1>5. CASE Reconnect(c) \/ Follow(c) \/ SignMessage(c)
  <2>1. /\ Ask(c, "read") /\ fresh' = fresh \cup {c} /\ UNCHANGED <<flag, touched>>
        /\ call[c].pc \notin Asking
    BY <1>5 DEF Reconnect, Follow, SignMessage, ReadFlag, Asking
  <2>2. /\ Elsewhere(c)
        /\ call'[c].pc \in {"authorize", "reading"} /\ call'[c].answer = "none"
    <3>1. PICK k : /\ call' = [call EXCEPT ![c] = k]
                   /\ k.pc \in {"authorize", "reading"} /\ k.answer = "none"
      <4>1. ASSUME NEW kind, NEW pc \in {"authorize", "reading"}, ReadFlag(c, kind, pc)
            PROVE  \E k : /\ call' = [call EXCEPT ![c] = k]
                          /\ k.pc \in {"authorize", "reading"} /\ k.answer = "none"
        <5> DEFINE k == [NoCall EXCEPT !.kind = kind, !.pc = pc]
        <5>1. k.pc = pc /\ k.answer = "none"
          BY DEF NoCall
        <5>2. call' = [call EXCEPT ![c] = k]
          BY <4>1 DEF ReadFlag
        <5> HIDE DEF k
        <5> QED
          BY <5>1, <5>2
      <4>2. CASE SignMessage(c)
        <5> DEFINE k == [NoCall EXCEPT !.kind = "sign", !.pc = "reading", !.got = app]
        <5>1. k.pc = "reading" /\ k.answer = "none"
          BY DEF NoCall
        <5>2. call' = [call EXCEPT ![c] = k]
          BY <4>2 DEF SignMessage
        <5> HIDE DEF k
        <5> QED
          BY <5>1, <5>2
      <4> QED
        BY <1>5, <4>1, <4>2 DEF Reconnect, Follow
    <3> QED
      BY <1>0, <3>1 DEF Elsewhere
  <2> QED
    BY <2>1, <2>2, ReadInv
<1>6. CASE Authorize(c)
  <2>1. call[c].answer # "none" /\ UNCHANGED <<storage, touched>> /\ Elsewhere(c)
    BY <1>1, <1>2, <1>6 DEF Authorize, PCs
  <2>2. fresh' = fresh \ {c} /\ (UNCHANGED flag \/ TakeFlag(c))
    BY <1>6 DEF Authorize, TakeFlag
  <2> QED
    BY <2>1, <2>2, TakeInv, MoveInv
<1>7. CASE FlagTaken(c)
  <2>1. call[c].answer # "none" /\ UNCHANGED <<storage, touched>> /\ Elsewhere(c)
    BY <1>1, <1>2, <1>7 DEF FlagTaken, ConnectFails, PCs
  <2>2. fresh' = fresh \ {c} /\ (UNCHANGED flag \/ TakeFlag(c))
    BY <1>7 DEF FlagTaken, TakeFlag
  <2> QED
    BY <2>1, <2>2, TakeInv, MoveInv
<1>8. CASE \/ FlagCleared(c) \/ WalletRead(c) \/ Connected(c) \/ WagmiListens(c)
           \/ WagmiShows(c) \/ Disconnected(c) \/ Signed(c)
  <2>1. UNCHANGED <<storage, touched, flag, fresh>>
    BY <1>8 DEF FlagCleared, WalletRead, Connected, WagmiListens, WagmiShows, Disconnected, Signed,
                connector, remembered
  <2>2. Elsewhere(c)
    <3>1. CASE WalletRead(c)
      BY <1>0, <1>1, <1>2, <3>1 DEF WalletRead, ConnectFails, Elsewhere, PCs
    <3>2. CASE ~WalletRead(c)
      BY <1>1, <1>2, <1>8, <3>2 DEF FlagCleared, Connected, WagmiListens, WagmiShows, Disconnected,
                                    Signed, PCs
    <3> QED
      BY <3>1, <3>2
  <2>3. /\ call[c].pc \notin {"authorize", "reading"}
        /\ call[c].pc \notin Asking \/ call[c].answer # "none"
    BY <1>8 DEF FlagCleared, WalletRead, Connected, WagmiListens, WagmiShows, Disconnected, Signed,
                Asking
  <2> QED
    BY <1>0, <2>1, <2>2, <2>3, MoveInv
<1> QED
  BY <1>3, <1>4, <1>5, <1>6, <1>7, <1>8 DEF CallStep

(* A delivery lets the calls that waited for it go on.                      *)
LEMMA DeliverCalls ==
  ASSUME TypeOK, Deliver
  PROVE  /\ call' \in [Calls -> [kind : Kinds \cup {NoWallet}, pc : PCs, answer : Answers, got : Account]]
         /\ \A d \in Calls :
              /\ call'[d].kind = call[d].kind /\ call'[d].got = call[d].got
              /\ call'[d].answer = call[d].answer
              /\ \/ call'[d] = call[d]
                 \/ call[d].pc = "behind" /\ call'[d].pc = "got" /\ ~draining'
              /\ call[d].pc = "behind" => draining' \/ call'[d].pc = "got"
         /\ AskAlike(Calls)
<1> DEFINE Type == [kind : Kinds \cup {NoWallet}, pc : PCs, answer : Answers, got : Account]
<1>1. /\ call \in [Calls -> Type]
      /\ call' = [c \in Calls |->
           IF call[c].pc = "behind" /\ ~draining' THEN [call[c] EXCEPT !.pc = "got"] ELSE call[c]]
  BY DEF TypeOK, Deliver
<1>2. ASSUME NEW d \in Calls
      PROVE  /\ call'[d] \in Type
             /\ call'[d].kind = call[d].kind /\ call'[d].got = call[d].got
             /\ call'[d].answer = call[d].answer
             /\ \/ call'[d] = call[d]
                \/ call[d].pc = "behind" /\ call'[d].pc = "got" /\ ~draining'
             /\ call[d].pc = "behind" => draining' \/ call'[d].pc = "got"
  <2>1. call[d] \in Type
    BY <1>1
  <2>2. CASE call[d].pc = "behind" /\ ~draining'
    <3>1. call'[d] = [call[d] EXCEPT !.pc = "got"]
      BY <1>1, <2>2
    <3> QED
      BY <2>1, <2>2, <3>1 DEF PCs
  <2>3. CASE ~(call[d].pc = "behind" /\ ~draining')
    <3>1. call'[d] = call[d]
      BY <1>1, <2>3
    <3> QED
      BY <2>1, <2>3, <3>1
  <2> QED
    BY <2>2, <2>3
<1>3. call' \in [Calls -> Type]
  BY <1>1, <1>2
<1>4. AskAlike(Calls)
  BY <1>2 DEF AskAlike, Asking
<1> QED
  BY <1>2, <1>3, <1>4

(* The listener of the connector.                                           *)
LEMMA DeliverStorage ==
  ASSUME TypeOK, StorageOK, Deliver
  PROVE  StorageOK'
<1>1. AskAlike(Calls) /\ Calls \ {NoWallet} = Calls
  BY DeliverCalls, ConstantsAssumption
<1>2. \/ UNCHANGED <<storage, flag, touched, fresh>>
      \/ SetManuallyDisconnected(NoWallet, TRUE)
  BY DEF Deliver, FollowChange, connector, remembered
<1>3. NoWallet \notin Calls
  BY ConstantsAssumption
<1> QED
  BY <1>1, <1>2, <1>3, StorageSame, WriteInv

LEMMA StorageNext ==
  ASSUME IInv, [Next]_vars
  PROVE  StorageOK'
<1>0. TypeOK /\ StorageOK /\ \A c \in Calls : CallOK(c)
  BY DEF IInv, StorageOK
<1>1. CASE SetWallet \/ EndSession \/ EndPublished \/ Settled \/ UNCHANGED vars
  BY <1>0, <1>1, StorageSame DEF SetWallet, EndSession, EndPublished, Settled, Change, vars, connector,
       remembered, AskAlike
<1> QED
  BY <1>0, <1>1, CallStepStorage, DeliverStorage, ServeInv DEF Next

-----------------------------------------------------------------------------
(* Calls *)

CallType == [kind : Kinds \cup {NoWallet}, pc : PCs, answer : Answers, got : Account]

(* What a step leaves of a call that takes it.                              *)
Becomes(c, k) == call' = [call EXCEPT ![c] = k] /\ k \in CallType

LEMMA BecomesOK ==
  ASSUME TypeOK, \A d \in Calls : CallOK(d), NEW c \in Calls, NEW k, Becomes(c, k),
         k.pc = "idle" => k = NoCall,
         k.pc \in {"clearing", "follow", "authorize", "behind", "got", "linking", "linked"}
           => k.kind \in Connecting,
         k.pc \in {"reading", "wallet"} => k.kind \in Connecting \cup {"sign"},
         k.pc \in {"behind", "got", "linking", "linked"} => k.got \in Ethereum
  PROVE  call' \in [Calls -> CallType] /\ Elsewhere(c) /\ \A d \in Calls : CallOK(d)'
<1>1. call \in [Calls -> CallType]
  BY DEF TypeOK, CallType
<1>2. /\ call' \in [Calls -> CallType]
      /\ \A d \in Calls : call'[d] = IF d = c THEN k ELSE call[d]
  BY <1>1 DEF Becomes
<1> HIDE DEF CallType
<1>3. ASSUME NEW d \in Calls, d # c PROVE CallOK(d)'
  BY <1>2, <1>3 DEF CallOK
<1>4. CallOK(c)'
  BY <1>2 DEF CallOK
<1> QED
  BY <1>2, <1>3, <1>4 DEF Elsewhere

LEMMA CallStepCalls ==
  ASSUME TypeOK, \A d \in Calls : CallOK(d), NEW c \in Calls, CallStep(c)
  PROVE  call' \in [Calls -> CallType] /\ Elsewhere(c) /\ \A d \in Calls : CallOK(d)'
<1>0. /\ call \in [Calls -> CallType] /\ call[c] \in CallType /\ CallOK(c)
      /\ app \in Account /\ wallet \in Wallets \cup {NoWallet}
  BY DEF TypeOK, CallType, WalletOrNone
<1>1. NoCall \in CallType
  BY DEF NoCall, CallType, PCs, Answers, Account
<1>2. ASSUME NEW pc \in PCs \ {"idle"}, Goto(c, pc),
             pc \in {"follow", "linking", "linked", "wallet"} => call[c].kind \in Connecting \cup {"sign"},
             pc \in {"follow", "linking", "linked"} => call[c].kind \in Connecting,
             pc \in {"linking", "linked"} => call[c].got \in Ethereum,
             pc \notin {"clearing", "authorize", "reading", "behind", "got"}
      PROVE  call' \in [Calls -> CallType] /\ Elsewhere(c) /\ \A d \in Calls : CallOK(d)'
  <2> DEFINE k == [call[c] EXCEPT !.pc = pc, !.answer = "none"]
  <2>1. k \in CallType /\ k.pc = pc /\ k.kind = call[c].kind /\ k.got = call[c].got
    BY <1>0, <1>2 DEF CallType, Answers
  <2>2. call' = [call EXCEPT ![c] = k]
    BY <1>0, <1>2 DEF Goto, CallType
  <2> HIDE DEF k
  <2> QED
    BY <1>2, <2>1, <2>2, BecomesOK DEF Becomes
<1>3. ASSUME Return(c)
      PROVE  call' \in [Calls -> CallType] /\ Elsewhere(c) /\ \A d \in Calls : CallOK(d)'
  <2>1. Becomes(c, NoCall) /\ NoCall.pc = "idle"
    BY <1>1, <1>3 DEF Return, Becomes, NoCall
  <2> QED
    BY <2>1, BecomesOK
<1>4. ASSUME NEW kind \in Kinds, NEW pc \in {"authorize", "reading"},
             kind \in Connecting, ReadFlag(c, kind, pc)
      PROVE  call' \in [Calls -> CallType] /\ Elsewhere(c) /\ \A d \in Calls : CallOK(d)'
  <2> DEFINE k == [NoCall EXCEPT !.kind = kind, !.pc = pc]
  <2>1. k \in CallType /\ k.pc = pc /\ k.kind = kind
    BY <1>1 DEF CallType, NoCall, PCs
  <2>2. call' = [call EXCEPT ![c] = k]
    BY <1>4 DEF ReadFlag
  <2> HIDE DEF k
  <2> QED
    BY <1>4, <2>1, <2>2, BecomesOK DEF Becomes
<1>5. ASSUME NEW kind \in Kinds, NEW pc \in {"clearing", "leaving"},
             pc = "clearing" => kind \in Connecting,
             call' = [call EXCEPT ![c].kind = kind, ![c].pc = pc]
      PROVE  call' \in [Calls -> CallType] /\ Elsewhere(c) /\ \A d \in Calls : CallOK(d)'
  <2> DEFINE k == [call[c] EXCEPT !.kind = kind, !.pc = pc]
  <2>1. k \in CallType /\ k.pc = pc /\ k.kind = kind
    BY <1>0 DEF CallType, PCs
  <2>2. call' = [call EXCEPT ![c] = k]
    BY <1>0, <1>5 DEF CallType
  <2> HIDE DEF k
  <2> QED
    BY <1>5, <2>1, <2>2, BecomesOK DEF Becomes
<1>6. CASE Connect(c)
  <2>1. PICK kind \in {"connect", "request"} \cap Kinds :
          call' = [call EXCEPT ![c].kind = kind, ![c].pc = "clearing"]
    BY <1>6 DEF Connect
  <2> QED
    BY <1>5, <2>1 DEF Connecting
<1>7. CASE Disconnect(c)
  BY <1>5, <1>7 DEF Disconnect
<1>8. CASE Reconnect(c)
  BY <1>4, <1>8 DEF Reconnect, Connecting
<1>9. CASE Follow(c)
  <2>1. call[c].kind \in Connecting /\ call[c].kind \in Kinds \cup {NoWallet}
    BY <1>0, <1>9 DEF Follow, CallOK, CallType
  <2>2. call[c].kind \in Kinds
    BY <2>1 DEF Connecting, NoWallet
  <2> QED
    BY <1>4, <1>9, <2>1, <2>2 DEF Follow
<1>10. CASE SignMessage(c)
  <2> DEFINE k == [NoCall EXCEPT !.kind = "sign", !.pc = "reading", !.got = app]
  <2>1. k \in CallType /\ k.pc = "reading" /\ k.kind = "sign"
    BY <1>0, <1>1, <1>10 DEF CallType, NoCall, PCs, SignMessage
  <2>2. call' = [call EXCEPT ![c] = k]
    BY <1>10 DEF SignMessage
  <2> HIDE DEF k
  <2> QED
    BY <2>1, <2>2, BecomesOK DEF Becomes
<1>11. CASE FlagCleared(c)
  BY <1>0, <1>2, <1>3, <1>11 DEF FlagCleared, CallOK, PCs
<1>12. CASE Authorize(c)
  BY <1>0, <1>2, <1>3, <1>12 DEF Authorize, CallOK, PCs
<1>13. CASE FlagTaken(c)
  BY <1>0, <1>2, <1>3, <1>13 DEF FlagTaken, ConnectFails, CallOK, PCs
<1>14. CASE WalletRead(c)
  <2>1. CASE wallet \notin Ethereum \/ call[c].kind = "sign"
    BY <1>0, <1>2, <1>3, <1>14, <2>1 DEF WalletRead, ConnectFails, CallOK, PCs
  <2>2. CASE wallet \in Ethereum /\ call[c].kind # "sign"
    <3> DEFINE next == IF queue = <<>> THEN "got" ELSE "behind"
               k == [call[c] EXCEPT !.pc = next, !.got = wallet]
    <3>1. call[c].kind \in Connecting
      BY <1>0, <1>14, <2>2 DEF WalletRead, CallOK
    <3>2. k \in CallType /\ k.pc \in {"behind", "got"} /\ k.kind = call[c].kind /\ k.got = wallet
      BY <1>0, <2>2 DEF CallType, PCs, Account
    <3>3. call' = [call EXCEPT ![c] = k]
      BY <1>0, <1>14, <2>2 DEF WalletRead, CallType
    <3> HIDE DEF k
    <3> QED
      BY <2>2, <3>1, <3>2, <3>3, BecomesOK DEF Becomes
  <2> QED
    BY <2>1, <2>2
<1>15. CASE Connected(c)
  BY <1>0, <1>2, <1>3, <1>15 DEF Connected, CallOK, PCs
<1>16. CASE WagmiListens(c)
  BY <1>0, <1>2, <1>16 DEF WagmiListens, CallOK, PCs
<1>17. CASE WagmiShows(c) \/ Disconnected(c) \/ Signed(c)
  BY <1>3, <1>17 DEF WagmiShows, Disconnected, Signed
<1> QED
  BY <1>6, <1>7, <1>8, <1>9, <1>10, <1>11, <1>12, <1>13, <1>14, <1>15, <1>16, <1>17 DEF CallStep

(* An answer changes nothing but the answer of its call.                    *)
LEMMA CallsNext ==
  ASSUME IInv, [Next]_vars
  PROVE  call' \in [Calls -> CallType] /\ \A d \in Calls : CallOK(d)'
<1>0. TypeOK /\ (\A d \in Calls : CallOK(d)) /\ StorageOK /\ call \in [Calls -> CallType]
  BY DEF IInv, StorageOK, TypeOK, CallType
<1>1. CASE UNCHANGED call
  BY <1>0, <1>1 DEF CallOK
<1>2. CASE Serve
  <2> DEFINE c == todo[1].by
  <2>1. CASE c \in Calls
    <3>1. /\ call' = [call EXCEPT ![c].answer = call'[c].answer]
          /\ call'[c].answer \in Answers
      BY <1>0, <1>2, <2>1, ServeCalls
    <3>2. 1 \in 1..Len(todo) /\ call[c].pc \in Asking
      BY <1>0, <1>2, <2>1, ServeFacts DEF StorageOK, AskedOK
    <3> DEFINE k == [call[c] EXCEPT !.answer = call'[c].answer]
    <3>3. k \in CallType /\ k.pc = call[c].pc /\ k.kind = call[c].kind /\ k.got = call[c].got
      BY <1>0, <2>1, <3>1 DEF CallType
    <3>4. call' = [call EXCEPT ![c] = k]
      BY <1>0, <2>1, <3>1 DEF CallType
    <3> HIDE DEF k, c
    <3>5. CallOK(c)
      BY <1>0, <2>1
    <3> QED
      BY <1>0, <2>1, <3>2, <3>3, <3>4, <3>5, BecomesOK DEF Becomes, CallOK, Asking
  <2>2. CASE c \notin Calls
    BY <1>0, <1>1, <1>2, <2>2, ServeCalls
  <2> QED
    BY <2>1, <2>2
<1>3. CASE SetWallet \/ EndSession \/ EndPublished \/ Settled \/ UNCHANGED vars
  BY <1>1, <1>3 DEF SetWallet, EndSession, EndPublished, Settled, Change, vars
<1>4. CASE Deliver
  <2>1. call' \in [Calls -> CallType]
    BY <1>0, <1>4, DeliverCalls DEF CallType
  <2>2. ASSUME NEW d \in Calls PROVE CallOK(d)'
    <3>1. CASE call'[d] = call[d]
      BY <1>0, <3>1 DEF CallOK
    <3>2. CASE call[d].pc = "behind" /\ call'[d].pc = "got"
      <4>1. call'[d].kind = call[d].kind /\ call'[d].got = call[d].got
        BY <1>0, <1>4, DeliverCalls
      <4> QED
        BY <1>0, <3>2, <4>1 DEF CallOK
    <3> QED
      BY <1>0, <1>4, <3>1, <3>2, DeliverCalls
  <2> QED
    BY <2>1, <2>2
<1> QED
  BY <1>0, <1>2, <1>3, <1>4, CallStepCalls DEF Next

-----------------------------------------------------------------------------
(* The listener *)

LEMMA ListenSame ==
  ASSUME ListenOK, UNCHANGED <<listener, account>>, NEW c \in Calls, Elsewhere(c),
         Follows(c) => Follows(c)'
  PROVE  ListenOK'
<1>1. \A d \in Calls : Follows(d) => Follows(d)'
  BY DEF Elsewhere, Follows
<1> QED
  BY <1>1 DEF ListenOK

LEMMA CallStepListen ==
  ASSUME TypeOK, ListenOK, \A d \in Calls : CallOK(d), NEW c \in Calls, CallStep(c)
  PROVE  ListenOK'
<1>0. /\ call \in [Calls -> CallType] /\ call[c] \in CallType /\ CallOK(c) /\ Elsewhere(c)
      /\ CallOK(c)'
  BY CallStepCalls DEF TypeOK, CallType
<1>1. CASE UNCHANGED <<listener, account>> /\ call[c].pc \notin {"reading", "wallet", "behind", "got"}
  BY <1>0, <1>1, ListenSame DEF Follows
<1>2. CASE UnfollowSession
  BY <1>2 DEF UnfollowSession, ListenOK
<1>3. CASE UNCHANGED <<listener, account>> /\ call[c].kind = "sign"
  BY <1>0, <1>3, ListenSame DEF Follows, Connecting
<1>4. CASE FlagTaken(c) \/ WalletRead(c)
  <2>1. \/ UnfollowSession
        \/ UNCHANGED <<listener, account>> /\ call[c].kind = "sign"
        \/ UNCHANGED <<listener, account>> /\ Goto(c, "wallet")
        \/ /\ UNCHANGED <<listener, account>>
           /\ call' = [call EXCEPT ![c].pc = IF queue = <<>> THEN "got" ELSE "behind", ![c].got = wallet]
    BY <1>4 DEF FlagTaken, WalletRead, ConnectFails, followed
  <2>2. CASE UNCHANGED <<listener, account>> /\ Goto(c, "wallet")
    <3>1. call'[c].kind = call[c].kind /\ call'[c].pc = "wallet"
      BY <1>0, <2>2 DEF Goto, CallType
    <3> QED
      BY <1>0, <2>2, <3>1, ListenSame DEF Follows
  <2>3. CASE /\ UNCHANGED <<listener, account>>
             /\ call' = [call EXCEPT ![c].pc = IF queue = <<>> THEN "got" ELSE "behind", ![c].got = wallet]
    <3>1. call'[c].kind = call[c].kind /\ call'[c].pc \in {"behind", "got"}
      BY <1>0, <2>3 DEF CallType
    <3> QED
      BY <1>0, <2>3, <3>1, ListenSame DEF Follows
  <2> QED
    BY <1>2, <1>3, <2>1, <2>2, <2>3
<1>5. CASE Follow(c)
  <2>1. call[c].kind \in Connecting
    BY <1>0, <1>5 DEF Follow, CallOK
  <2> DEFINE k == [NoCall EXCEPT !.kind = call[c].kind, !.pc = "reading"]
  <2>2. k.kind = call[c].kind /\ k.pc = "reading"
    BY DEF NoCall
  <2>3. call' = [call EXCEPT ![c] = k]
    BY <1>5 DEF Follow, ReadFlag
  <2> HIDE DEF k
  <2>4. Follows(c)'
    BY <1>0, <2>1, <2>2, <2>3 DEF Follows
  <2> QED
    BY <2>4 DEF ListenOK
<1>6. CASE Connected(c)
  BY <1>0, <1>6, ConstantsAssumption DEF Connected, CallOK, ListenOK
<1>7. CASE Disconnect(c)
  BY <1>2, <1>7 DEF Disconnect
<1>8. CASE \/ Connect(c) \/ FlagCleared(c) \/ Reconnect(c) \/ Authorize(c) \/ WagmiListens(c)
           \/ WagmiShows(c) \/ Disconnected(c) \/ SignMessage(c) \/ Signed(c)
  BY <1>1, <1>8 DEF Connect, FlagCleared, Reconnect, Authorize, WagmiListens, WagmiShows,
                    Disconnected, SignMessage, Signed, followed, connector
<1> QED
  BY <1>4, <1>5, <1>6, <1>7, <1>8 DEF CallStep

LEMMA ListenNext ==
  ASSUME IInv, [Next]_vars
  PROVE  ListenOK'
<1>0. TypeOK /\ ListenOK /\ StorageOK /\ \A c \in Calls : CallOK(c)
  BY DEF IInv, StorageOK
<1>1. CASE UNCHANGED <<listener, account, call>>
  BY <1>0, <1>1 DEF ListenOK, Follows
<1>2. CASE Deliver
  <2>1. \A d \in Calls : Follows(d) => Follows(d)'
    BY <1>0, <1>2, DeliverCalls DEF Follows
  <2>2. UNCHANGED <<listener, account>> \/ listener' = 0 \/ account' \in Ethereum
    BY <1>2 DEF Deliver, FollowChange, UnfollowSession, connector, followed
  <2> QED
    BY <1>0, <2>1, <2>2, ConstantsAssumption DEF ListenOK
<1>3. CASE Serve
  <2>1. \A d \in Calls : call'[d].kind = call[d].kind /\ call'[d].pc = call[d].pc
    <3> SUFFICES ASSUME NEW d \in Calls
                 PROVE  call'[d].kind = call[d].kind /\ call'[d].pc = call[d].pc
      OBVIOUS
    <3>1. CASE d # todo[1].by
      BY <1>0, <1>3, <3>1, ServeCalls
    <3>2. CASE d = todo[1].by
      <4>1. call' = [call EXCEPT ![d].answer = call'[d].answer]
        BY <1>0, <1>3, <3>2, ServeCalls
      <4> QED
        BY <1>0, <4>1 DEF TypeOK
    <3> QED
      BY <3>1, <3>2
  <2> QED
    BY <1>0, <1>3, <2>1 DEF ListenOK, Follows, Serve, connector, followed
<1>4. CASE SetWallet \/ EndSession \/ EndPublished \/ Settled \/ UNCHANGED vars
  BY <1>1, <1>4 DEF SetWallet, EndSession, EndPublished, Settled, Change, vars, connector, followed
<1> QED
  BY <1>0, <1>2, <1>3, <1>4, CallStepListen DEF Next

-----------------------------------------------------------------------------
(* Types *)

QueueType == Seq([wallet : WalletOrNone, to : 1..MaxListener])
StorageType == [flag : BOOLEAN, todo : Seq(Request), failed : BOOLEAN]

LEMMA AskType ==
  ASSUME TypeOK, NEW c \in Calls \cup {NoWallet}, NEW op \in {"read", "set", "remove"}, Ask(c, op)
  PROVE  storage' \in StorageType
BY AskFacts DEF StorageType

LEMMA AppendType ==
  ASSUME TypeOK, NEW w \in WalletOrNone, NEW l \in 1..MaxListener,
         queue' = Append(queue, [wallet |-> w, to |-> l])
  PROVE  queue' \in QueueType
BY DEF TypeOK, QueueType

LEMMA PublishType ==
  ASSUME TypeOK, NEW w \in WalletOrNone, Publish(w)
  PROVE  queue' \in QueueType
<1>1. CASE listener = 0
  BY <1>1 DEF TypeOK, Publish, QueueType
<1>2. CASE listener # 0
  <2>1. listener \in 1..MaxListener
    BY <1>2, ConstantsAssumption DEF TypeOK
  <2> QED
    BY <1>2, <2>1, AppendType DEF Publish
<1> QED
  BY <1>1, <1>2

LEMMA SetType ==
  ASSUME TypeOK, NEW c \in Calls \cup {NoWallet}, NEW next \in BOOLEAN,
         SetManuallyDisconnected(c, next)
  PROVE  storage' \in StorageType /\ flag' \in BOOLEAN /\ fresh' \subseteq Calls /\ touched' \in BOOLEAN
BY AskType DEF SetManuallyDisconnected

LEMMA UnfollowType ==
  ASSUME TypeOK, UnfollowSession
  PROVE  listener' \in 0..MaxListener /\ listeners' \in 0..MaxListener /\ account' \in Account
BY ConstantsAssumption DEF TypeOK, UnfollowSession, Account

LEMMA FollowedType ==
  ASSUME TypeOK, UNCHANGED followed \/ UnfollowSession
  PROVE  listener' \in 0..MaxListener /\ listeners' \in 0..MaxListener /\ account' \in Account
BY UnfollowType DEF TypeOK, followed

LEMMA CallStepType ==
  ASSUME TypeOK, \A d \in Calls : CallOK(d), NEW c \in Calls, CallStep(c)
  PROVE  TypeOK'
<1>1. call' \in [Calls -> CallType]
  BY CallStepCalls
<1>2. UNCHANGED <<wallet, ending, expired, changes, draining>>
  BY DEF CallStep, Connect, FlagCleared, Reconnect, Authorize, Follow, FlagTaken, WalletRead, Connected,
         WagmiListens, WagmiShows, Disconnect, Disconnected, SignMessage, Signed, client, events
<1>3. queue' \in QueueType
  <2>1. CASE Follow(c)
    <3>1. CASE UNCHANGED queue
      BY <3>1 DEF TypeOK, QueueType
    <3>2. CASE queue' = Append(queue, [wallet |-> NoWallet, to |-> listener']) /\ listeners < MaxListener
               /\ listener' = listeners + 1
      <4>1. listener' \in 1..MaxListener /\ NoWallet \in WalletOrNone
        BY <3>2, ConstantsAssumption DEF TypeOK, WalletOrNone
      <4> QED
        BY <3>2, <4>1, AppendType
    <3> QED
      BY <2>1, <3>1, <3>2 DEF Follow
  <2>2. CASE UNCHANGED queue
    BY <2>2 DEF TypeOK, QueueType
  <2> QED
    BY <2>1, <2>2 DEF CallStep, Connect, FlagCleared, Reconnect, Authorize, FlagTaken, WalletRead,
         Connected, WagmiListens, WagmiShows, Disconnect, Disconnected, SignMessage, Signed, events
<1>4. listener' \in 0..MaxListener /\ listeners' \in 0..MaxListener /\ account' \in Account
  <2>1. CASE Follow(c)
    BY <2>1, ConstantsAssumption DEF Follow, TypeOK
  <2>2. CASE Connected(c)
    BY <2>2 DEF Connected, TypeOK
  <2>3. CASE FlagTaken(c) \/ WalletRead(c) \/ Disconnect(c)
    <3>1. UNCHANGED followed \/ UnfollowSession
      BY <2>3 DEF FlagTaken, WalletRead, Disconnect, ConnectFails
    <3> QED
      BY <3>1, FollowedType
  <2>4. CASE UNCHANGED <<listener, listeners, account>>
    BY <2>4 DEF TypeOK
  <2> QED
    BY <2>1, <2>2, <2>3, <2>4 DEF CallStep, Connect, FlagCleared, Reconnect, Authorize,
         WagmiListens, WagmiShows, Disconnected, SignMessage, Signed, connector, followed
<1>5. /\ storage' \in StorageType /\ flag' \in BOOLEAN /\ fresh' \subseteq Calls
      /\ touched' \in BOOLEAN
  <2>1. CASE Connect(c)
    BY <2>1, SetType DEF Connect
  <2>2. CASE Disconnect(c)
    BY <2>2, SetType DEF Disconnect
  <2>3. CASE Reconnect(c) \/ Follow(c) \/ SignMessage(c)
    <3>1. /\ Ask(c, "read") /\ fresh' = fresh \cup {c} /\ UNCHANGED <<flag, touched>>
      BY <2>3 DEF Reconnect, Follow, SignMessage, ReadFlag
    <3> QED
      BY <3>1, AskType DEF TypeOK
  <2>4. CASE Authorize(c) \/ FlagTaken(c)
    <3>1. /\ UNCHANGED <<storage, touched>> /\ fresh' = fresh \ {c}
          /\ flag' = flag \/ flag' = (flag \/ FlagRead(c))
      BY <2>4 DEF Authorize, FlagTaken, TakeFlag
    <3> QED
      BY <3>1 DEF TypeOK, StorageType
  <2>5. CASE UNCHANGED <<storage, flag, fresh, touched>>
    BY <2>5 DEF TypeOK, StorageType
  <2> QED
    BY <2>1, <2>2, <2>3, <2>4, <2>5 DEF CallStep, FlagCleared, WalletRead, Connected, WagmiListens,
         WagmiShows, Disconnected, Signed, connector, remembered
<1>6. app' \in Account /\ hears' \in BOOLEAN
  <2>1. CASE WagmiListens(c) \/ WagmiShows(c) \/ Disconnected(c)
    BY <2>1 DEF WagmiListens, WagmiShows, Disconnected, wagmi, TypeOK, Account
  <2>2. CASE UNCHANGED wagmi
    BY <2>2 DEF wagmi, TypeOK
  <2> QED
    BY <2>1, <2>2 DEF CallStep, Connect, FlagCleared, Reconnect, Authorize, Follow, FlagTaken,
         WalletRead, Connected, Disconnect, SignMessage, Signed
<1>7. raced' \in BOOLEAN
  <2>1. CASE Follow(c)
    BY <2>1 DEF Follow
  <2>2. CASE Disconnect(c) \/ Disconnected(c)
    BY <2>2 DEF Disconnect, Disconnected
  <2>3. CASE UNCHANGED raced
    BY <2>3 DEF TypeOK
  <2>4. CASE FlagTaken(c) \/ WalletRead(c)
    <3>1. UNCHANGED raced \/ raced' = (raced \/ app # NoWallet \/ OthersConnect(c))
      BY <2>4 DEF FlagTaken, WalletRead, ConnectFails
    <3> QED
      BY <3>1 DEF TypeOK
  <2> QED
    BY <2>1, <2>2, <2>3, <2>4 DEF CallStep, Connect, FlagCleared, Reconnect, Authorize,
         Connected, WagmiListens, WagmiShows, SignMessage, Signed
<1>8. /\ wallet' \in WalletOrNone /\ ending' \in {"no", "signedOut", "expired"}
      /\ expired' \in BOOLEAN /\ changes' \in 0..MaxChange /\ draining' \in BOOLEAN
  BY <1>2 DEF TypeOK
<1> QED
  BY <1>1, <1>3, <1>4, <1>5, <1>6, <1>7, <1>8 DEF TypeOK, CallType, QueueType, StorageType

LEMMA DeliverType ==
  ASSUME TypeOK, Deliver
  PROVE  TypeOK'
<1>1. /\ wallet' \in WalletOrNone /\ ending' \in {"no", "signedOut", "expired"}
      /\ expired' \in BOOLEAN /\ changes' \in 0..MaxChange
      /\ raced' \in BOOLEAN /\ draining' \in BOOLEAN
  BY DEF Deliver, client, TypeOK
<1>2. queue' \in QueueType
  BY DEF Deliver, TypeOK, QueueType
<1>3. /\ listener' \in 0..MaxListener /\ listeners' \in 0..MaxListener /\ account' \in Account
      /\ app' \in Account /\ hears' \in BOOLEAN
      /\ storage' \in StorageType /\ flag' \in BOOLEAN /\ fresh' \subseteq Calls /\ touched' \in BOOLEAN
  <2>1. CASE UNCHANGED <<connector, storage, wagmi>>
    BY <2>1 DEF connector, followed, remembered, wagmi, TypeOK, StorageType
  <2>2. CASE UnfollowSession /\ SetManuallyDisconnected(NoWallet, TRUE) /\ WagmiDisconnects
    <3>1. app' \in Account /\ hears' \in BOOLEAN
      BY <2>2 DEF WagmiDisconnects, TypeOK, Account
    <3> QED
      BY <2>2, <3>1, SetType, UnfollowType
  <2>3. ASSUME NEW w \in Ethereum, account' = w, app' \in {app, w},
               UNCHANGED <<listener, listeners, remembered, storage, hears>>
        PROVE  /\ listener' \in 0..MaxListener /\ listeners' \in 0..MaxListener /\ account' \in Account
               /\ app' \in Account /\ hears' \in BOOLEAN
               /\ storage' \in StorageType /\ flag' \in BOOLEAN /\ fresh' \subseteq Calls /\ touched' \in BOOLEAN
    BY <2>3 DEF remembered, TypeOK, Account, StorageType
  <2> QED
    BY <2>1, <2>2, <2>3 DEF Deliver, FollowChange
<1>4. call' \in [Calls -> CallType]
  BY DeliverCalls DEF CallType
<1> QED
  BY <1>1, <1>2, <1>3, <1>4 DEF TypeOK, CallType, QueueType, StorageType

LEMMA TypeNext ==
  ASSUME IInv, [Next]_vars
  PROVE  TypeOK'
<1>0. TypeOK /\ (\A c \in Calls : CallOK(c)) /\ NoWallet \in WalletOrNone
  BY DEF IInv, WalletOrNone
<1>1. CASE SetWallet
  <2>1. PICK w \in Wallets : wallet' = w /\ Publish(w)
    BY <1>1 DEF SetWallet
  <2>2. w \in WalletOrNone
    BY DEF WalletOrNone
  <2>3. queue' \in QueueType
    BY <1>0, <2>1, <2>2, PublishType
  <2>4. changes' \in 0..MaxChange /\ raced' \in BOOLEAN
    BY <1>0, <1>1, ConstantsAssumption DEF SetWallet, Change, TypeOK
  <2> QED
    BY <1>0, <1>1, <2>1, <2>2, <2>3, <2>4 DEF SetWallet, Change, TypeOK, QueueType, connector, followed,
                                              remembered, wagmi
<1>2. CASE EndSession
  <2>1. changes' \in 0..MaxChange /\ raced' \in BOOLEAN /\ expired' \in BOOLEAN
    BY <1>0, <1>2, ConstantsAssumption DEF EndSession, Change, TypeOK
  <2> QED
    BY <1>0, <1>2, <2>1 DEF EndSession, Change, TypeOK, connector, followed, remembered, wagmi
<1>3. CASE EndPublished
  <2>1. queue' \in QueueType
    BY <1>0, <1>3, PublishType DEF EndPublished
  <2>2. raced' \in BOOLEAN /\ expired' \in BOOLEAN
    BY <1>3 DEF EndPublished
  <2> QED
    BY <1>0, <1>3, <2>1, <2>2 DEF EndPublished, TypeOK, QueueType, connector, followed, remembered, wagmi
<1>4. CASE Serve
  <2>1. call' \in [Calls -> CallType]
    BY <1>4, CallsNext
  <2>2. storage' \in StorageType
    BY <1>0, <1>4, ServeFacts DEF StorageType
  <2> QED
    BY <1>0, <1>4, <2>1, <2>2 DEF Serve, TypeOK, CallType, StorageType, client, events, connector,
                                  followed, remembered, wagmi
<1>5. CASE Settled
  BY <1>0, <1>5 DEF Settled, TypeOK, client, events, connector, followed, remembered, wagmi
<1>6. CASE UNCHANGED vars
  BY <1>0, <1>6 DEF vars, TypeOK, client, events, connector, followed, remembered, wagmi
<1> QED
  BY <1>0, <1>1, <1>2, <1>3, <1>4, <1>5, <1>6, CallStepType, DeliverType DEF Next

-----------------------------------------------------------------------------
(* The theorems *)

LEMMA InitInv ==
  ASSUME Init
  PROVE  IInv
<1>1. /\ call = [c \in Calls |-> NoCall]
      /\ NoCall \in [kind : Kinds \cup {NoWallet}, pc : PCs, answer : Answers, got : Account]
  BY DEF Init, NoCall, PCs, Answers, Account
<1>2. \A c \in Calls : CallOK(c)
  BY <1>1 DEF CallOK, NoCall
<1>3. /\ storage.todo = <<>> /\ storage \in StorageType
      /\ queue \in QueueType
  <2>1. <<>> \in Seq(Request) /\ <<>> \in QueueType
    BY DEF QueueType
  <2>2. storage \in [flag : BOOLEAN, todo : {<<>>}, failed : {FALSE}]
    BY DEF Init
  <2> QED
    BY <2>1, <2>2 DEF Init, StorageType
<1>4. TypeOK
  <2>1. /\ wallet \in WalletOrNone /\ ending \in {"no", "signedOut", "expired"}
        /\ changes \in 0..MaxChange /\ draining \in BOOLEAN
        /\ listener \in 0..MaxListener /\ listeners \in 0..MaxListener
    <3>1. /\ wallet \in WalletOrNone /\ ending = "no" /\ changes = 0 /\ draining = FALSE
          /\ listener = 0 /\ listeners = 0
      BY Zenon DEF Init
    <3>2. 0 \in 0..MaxChange /\ 0 \in 0..MaxListener
      BY ConstantsAssumption
    <3>3. draining \in BOOLEAN /\ ending \in {"no", "signedOut", "expired"}
      BY <3>1
    <3> QED
      BY <3>1, <3>2, <3>3
  <2>2. expired \in BOOLEAN
    <3>1. expired = FALSE \/ expired = (wallet = NoWallet)
      BY DEF Init
    <3> QED
      BY <3>1
  <2>3. /\ account \in Account /\ app \in Account /\ hears \in BOOLEAN /\ raced \in BOOLEAN
        /\ flag \in BOOLEAN /\ fresh \subseteq Calls /\ touched \in BOOLEAN
    BY DEF Init, Account
  <2> QED
    BY <1>1, <1>3, <2>1, <2>2, <2>3 DEF TypeOK, QueueType, StorageType
<1>5. Len(todo) = 0
  BY <1>3 DEF todo
<1>6. ListenOK /\ AskedOK /\ FlagOK /\ FreshOK
  BY <1>5 DEF Init, ListenOK, AskedOK, FlagOK, FreshOK
<1> QED
  BY <1>2, <1>4, <1>6 DEF IInv

(* The inductive invariant holds, whatever the client, wagmi and storage do.*)
THEOREM Invariance == Spec => []IInv
<1>1. IInv /\ [Next]_vars => IInv'
  BY TypeNext, ListenNext, StorageNext, CallsNext DEF IInv, StorageOK
<1> QED
  BY <1>1, InitInv, PTL DEF Spec

(* The client, its changes, the calls and storage keep their types.         *)
THEOREM TypeCorrect == Spec => []TypeOK
<1>1. IInv => TypeOK
  BY DEF IInv
<1> QED
  BY <1>1, Invariance, PTL

(* The connector leaves no listener behind (connectWallet, disconnect).     *)
THEOREM ListensOnlyConnectedAlways == Spec => []ListensOnlyConnected
<1>1. IInv => ListensOnlyConnected
  BY DEF IInv, ListenOK, Follows, ListensOnlyConnected, SomeInConnect
<1> QED
  BY <1>1, Invariance, PTL

(* However reads and writes of the disconnect flag overlap, the flag of the *)
(* connector is the stored one once storage is idle and has not failed.     *)
THEOREM FlagIsStoredAlways == Spec => []FlagIsStored
<1>1. ASSUME IInv PROVE FlagIsStored
  <2>1. todo = <<>> => ReadsFrom(1)
    BY DEF ReadsFrom
  <2> QED
    BY <1>1, <2>1 DEF IInv, FlagOK, FlagIsStored, todo
<1> QED
  BY <1>1, Invariance, PTL

-----------------------------------------------------------------------------
(* wagmi shows the active wallet: the invariant                             *)

(* The flag is down, and no read can raise it again.                        *)
Cleared == ~flag /\ (touched \/ ~storage.flag)

(* A call to connect that has the flag down, and one that follows changes.  *)
Clears(c) == call[c].kind \in Connecting /\ call[c].pc # "authorize"
Connects(c) ==
  /\ call[c].kind \in Connecting
  /\ call[c].pc \in {"reading", "wallet", "behind", "got", "linking", "linked"}

(* wagmi is connected, and is not about to be disconnected.                 *)
Shown == app # NoWallet /\ \A c \in Calls : call[c].pc # "leaving"

(* Before the first write storage is only read, and every read is taken;    *)
(* what is taken is what storage says; a failure of storage is known.       *)
ReadsOK ==
  /\ ~touched => /\ ReadsFrom(1)
                 /\ \A c \in Calls : call[c].pc \in {"authorize", "reading"} => c \in fresh
  /\ \A c \in fresh : call[c].answer = "absent" => ~storage.flag
  /\ \A c \in Calls : call[c].answer = "failed" => storage.failed

ClearedOK == (\E c \in Calls : Clears(c)) \/ Shown => Cleared

(* The changes under way are the listener's, and the last of them is to the *)
(* active wallet, for a call that connects and for what is shown.           *)
Aligned ==
  /\ listener # 0
  /\ \A i \in 1..Len(queue) : queue[i].to = listener
  /\ ending = "no" /\ queue # <<>> => wallet = queue[Len(queue)].wallet
AlignOK == (\E c \in Calls : Connects(c)) \/ Shown => Aligned

(* A call reports the active wallet once the changes that it is behind have *)
(* been delivered, and nothing changes before wagmi shows it.               *)
Linked(c) ==
  /\ HasRead(c) => call[c].got = wallet /\ (queue = <<>> <=> call[c].pc # "behind")
  /\ call[c].pc = "got" =>
       /\ queue = <<>> /\ ending = "no" => call[c].got = wallet
       /\ Shown => call[c].got = app
  /\ call[c].pc \in {"linking", "linked"} => account = call[c].got
  /\ call[c].pc = "linked" => hears
LinkOK == \A c \in Calls : Linked(c)

(* What is shown is followed, and up to date with what has been delivered.  *)
ShownOK == Shown => hears /\ account = app /\ (ending = "no" /\ queue = <<>> => wallet = app)

(* A session that has ended has no wallet.                                  *)
EndsOK == ending # "no" => wallet = NoWallet

Shows == ClearedOK /\ AlignOK /\ LinkOK /\ ShownOK
ShowInv == ReadsOK /\ EndsOK /\ (~raced /\ ~storage.failed => Shows)

(* What a call becomes.                                                     *)
LEMMA GotoFacts ==
  ASSUME TypeOK, NEW c \in Calls, NEW pc, Goto(c, pc)
  PROVE  /\ call'[c].pc = pc /\ call'[c].answer = "none"
         /\ call'[c].kind = call[c].kind /\ call'[c].got = call[c].got
BY DEF TypeOK, Goto

LEMMA ReturnFacts ==
  ASSUME TypeOK, NEW c \in Calls, Return(c)
  PROVE  call'[c].pc = "idle" /\ call'[c].kind \notin Connecting /\ call'[c].answer = "none"
BY DEF TypeOK, Return, NoCall, Connecting, NoWallet

LEMMA ReadFacts ==
  ASSUME TypeOK, NEW c \in Calls, NEW kind, NEW pc, ReadFlag(c, kind, pc)
  PROVE  call'[c].pc = pc /\ call'[c].kind = kind /\ call'[c].answer = "none"
<1> DEFINE k == [NoCall EXCEPT !.kind = kind, !.pc = pc]
<1>1. k.pc = pc /\ k.kind = kind /\ k.answer = "none"
  BY DEF NoCall
<1>2. call' = [call EXCEPT ![c] = k]
  BY DEF ReadFlag
<1> HIDE DEF k
<1> QED
  BY <1>1, <1>2 DEF TypeOK

-----------------------------------------------------------------------------
(* What is read of the flag                                                 *)

(* A request is made.                                                       *)
LEMMA AskReads ==
  ASSUME TypeOK, ReadsOK, NEW c \in Calls, Ask(c, "read"), fresh' = fresh \cup {c},
         UNCHANGED <<flag, touched>>, Elsewhere(c), call'[c].answer = "none"
  PROVE  ReadsOK'
<1>a. c \in Calls \cup {NoWallet} /\ "read" \in {"read", "set", "remove"}
  OBVIOUS
<1>b. /\ storage'.flag = storage.flag /\ storage'.failed = storage.failed
      /\ Len(todo) \in Nat /\ Len(todo') = Len(todo) + 1
      /\ \A i \in 1..Len(todo) : todo'[i] = todo[i]
      /\ todo'[Len(todo')] = [by |-> c, op |-> "read"]
  BY <1>a, AskFacts
<1>0. PICK n \in Nat : n = Len(todo')
  BY <1>b
<1>1. /\ storage'.flag = storage.flag /\ storage'.failed = storage.failed
      /\ Len(todo) \in Nat /\ n = Len(todo) + 1 /\ n = Len(todo')
      /\ \A i \in 1..Len(todo) : todo'[i] = todo[i]
      /\ todo'[n].op = "read"
  BY <1>b, <1>0
<1>2. ReadsFrom(1) => ReadsFrom(1)'
  BY <1>1 DEF ReadsFrom
<1> QED
  BY <1>1, <1>2 DEF ReadsOK, Elsewhere, TypeOK

(* A call that goes on takes its read.                                      *)
LEMMA MoveReads ==
  ASSUME TypeOK, ReadsOK, NEW c \in Calls, Elsewhere(c), fresh' = fresh \ {c},
         UNCHANGED <<storage, touched>>,
         call'[c].answer = "none", call'[c].pc \notin {"authorize", "reading"}
  PROVE  ReadsOK'
<1>1. todo' = todo
  BY DEF todo
<1> QED
  BY <1>1 DEF ReadsOK, Elsewhere, ReadsFrom, TypeOK

(* After a write nothing that was read is taken.                            *)
LEMMA SetReads ==
  ASSUME TypeOK, ReadsOK, NEW c \in Calls \cup {NoWallet}, NEW next \in BOOLEAN,
         SetManuallyDisconnected(c, next), AskAlike(Calls \ {c}),
         c \in Calls => call'[c].answer = "none"
  PROVE  ReadsOK'
<1> DEFINE op == IF next THEN "set" ELSE "remove"
<1>1. fresh' = {} /\ touched' = TRUE /\ Ask(c, op)
  BY DEF SetManuallyDisconnected
<1>2. op \in {"read", "set", "remove"}
  OBVIOUS
<1>3. storage'.failed = storage.failed
  BY <1>1, <1>2, AskFacts
<1> QED
  BY <1>1, <1>3 DEF ReadsOK, AskAlike

LEMMA ServeReads ==
  ASSUME TypeOK, StorageOK, ReadsOK, Serve
  PROVE  ReadsOK'
<1>0. PICK n \in Nat : n = Len(todo')
  BY ServeFacts
<1>1. PICK r \in Request : r = todo[1]
  BY ServeFacts
<1>2. /\ Len(todo) = n + 1 /\ n = Len(todo')
      /\ \A i \in 1..n : todo'[i] = todo[i + 1]
      /\ \/ r.op = "read" /\ storage'.flag = storage.flag /\ storage'.failed = storage.failed
         \/ r.op # "read" /\ storage'.flag = (r.op = "set") /\ storage'.failed = storage.failed
         \/ storage'.flag = storage.flag /\ storage'.failed
  BY <1>0, <1>1, ServeFacts
<1>3. UNCHANGED <<touched, fresh>> /\ fresh \subseteq Calls /\ storage.failed \in BOOLEAN
  BY DEF Serve, connector, remembered, TypeOK
<1>4. ReadsFrom(1) => ReadsFrom(1)' /\ r.op = "read"
  BY <1>1, <1>2 DEF ReadsFrom
<1>5. storage.failed => storage'.failed
  BY <1>2, <1>3
<1>6. \A c \in Calls : c # r.by => call'[c] = call[c]
  BY <1>1, ServeCalls
<1>7. \A c \in Calls : call'[c].pc = call[c].pc
  <2> SUFFICES ASSUME NEW c \in Calls, c = r.by PROVE call'[c].pc = call[c].pc
    BY <1>6
  <2>1. call' = [call EXCEPT ![c].answer = call'[c].answer]
    BY <1>1, ServeCalls
  <2> QED
    BY <2>1 DEF TypeOK
(* An answer is right, and a read that is taken is the last request.        *)
<1>8. ASSUME NEW c \in Calls, c = r.by
      PROVE  /\ call'[c].answer = "failed" => storage'.failed
             /\ c \in fresh => (call'[c].answer = "absent" => ~storage'.flag)
  <2>1. /\ todo \in Seq(Request) /\ todo # <<>> /\ Head(todo) = r
    BY <1>1 DEF TypeOK, todo, Serve
  <2>2. /\ call'[c].answer = "failed" => storage'.failed
        /\ call'[c].answer = "absent" =>
             r.op # "read" \/ (~storage.flag /\ storage'.flag = storage.flag)
    <3>1. CASE /\ r.op = "read" /\ storage' = [storage EXCEPT !.todo = Tail(todo)]
               /\ call' = [call EXCEPT ![c].answer = IF storage.flag THEN "true" ELSE "absent"]
      BY <3>1 DEF TypeOK
    <3>2. CASE r.op # "read" /\ call' = [call EXCEPT ![c].answer = "absent"]
      BY <3>2 DEF TypeOK
    <3>3. CASE /\ call' = [call EXCEPT ![c].answer = "failed"]
               /\ storage' = [storage EXCEPT !.todo = Tail(todo), !.failed = TRUE]
      BY <3>3 DEF TypeOK
    <3> QED
      BY <1>8, <2>1, <3>1, <3>2, <3>3 DEF Serve, todo
  <2>4. ASSUME c \in fresh PROVE r.op = "read"
    <3>1. 1 \in 1..Len(todo)
      BY <1>2
    <3>2. call[c].answer = "none"
      BY <1>1, <1>8, <3>1 DEF StorageOK, AskedOK
    <3>3. PICK i \in 1..Len(todo) : todo[i].by = c /\ ReadsFrom(i)
      BY <2>4, <3>2 DEF StorageOK, FreshOK
    <3>4. i = 1
      BY <1>1, <1>8, <3>1, <3>3 DEF StorageOK, AskedOK
    <3> QED
      BY <1>1, <3>1, <3>3, <3>4 DEF ReadsFrom
  <2> QED
    BY <2>2, <2>4
(* A write under way answers no read that is taken.                         *)
<1>9. ASSUME NEW c \in fresh, c # r.by, call[c].answer = "absent"
      PROVE  ~storage'.flag
  <2>1. ReadsFrom(1) /\ ~storage.flag
    BY <1>9 DEF StorageOK, FreshOK, ReadsOK
  <2> QED
    BY <1>2, <1>4, <2>1
<1> QED
  BY <1>3, <1>4, <1>5, <1>6, <1>7, <1>8, <1>9 DEF ReadsOK

LEMMA SameReads ==
  ASSUME TypeOK, ReadsOK, AskAlike(Calls), UNCHANGED <<storage, touched, fresh>>
  PROVE  ReadsOK'
<1>1. todo' = todo /\ fresh \subseteq Calls
  BY DEF todo, TypeOK
<1> QED
  BY <1>1 DEF ReadsOK, ReadsFrom, AskAlike, Asking

LEMMA CallStepReads ==
  ASSUME TypeOK, StorageOK, ReadsOK, \A d \in Calls : CallOK(d), NEW c \in Calls, CallStep(c)
  PROVE  ReadsOK'
<1>0. /\ Elsewhere(c) /\ call \in [Calls -> CallType] /\ fresh \subseteq Calls
      /\ call[c].pc \notin {"authorize", "reading"} => fresh \ {c} = fresh
  BY CallStepCalls DEF TypeOK, CallType, StorageOK, FreshOK
<1>1. CASE Connect(c) \/ Disconnect(c)
  <2>1. PICK next \in BOOLEAN : SetManuallyDisconnected(c, next)
    BY <1>1 DEF Connect, Disconnect
  <2>2. call[c].answer = "none"
    <3>1. call[c].pc = "idle" /\ CallOK(c)
      BY <1>1 DEF Connect, Disconnect
    <3> QED
      BY <3>1 DEF CallOK, NoCall
  <2>3. call'[c].answer = "none"
    BY <1>0, <1>1, <2>2 DEF Connect, Disconnect, CallType
  <2> QED
    BY <1>0, <2>1, <2>3, SetReads DEF Elsewhere, AskAlike
<1>2. CASE Reconnect(c) \/ Follow(c) \/ SignMessage(c)
  <2>1. Ask(c, "read") /\ fresh' = fresh \cup {c} /\ UNCHANGED <<flag, touched>>
    BY <1>2 DEF Reconnect, Follow, SignMessage, ReadFlag
  <2>2. CASE Reconnect(c) \/ Follow(c)
    <3>1. call'[c].answer = "none"
      BY <2>2, ReadFacts DEF Reconnect, Follow
    <3> QED
      BY <1>0, <2>1, <3>1, AskReads
  <2>3. CASE SignMessage(c)
    <3> DEFINE k == [NoCall EXCEPT !.kind = "sign", !.pc = "reading", !.got = app]
    <3>1. k.answer = "none"
      BY DEF NoCall
    <3>2. call' = [call EXCEPT ![c] = k]
      BY <2>3 DEF SignMessage
    <3> HIDE DEF k
    <3>3. call'[c].answer = "none"
      BY <1>0, <3>1, <3>2
    <3> QED
      BY <1>0, <2>1, <3>3, AskReads
  <2> QED
    BY <1>2, <2>2, <2>3
<1>3. CASE Authorize(c) \/ FlagTaken(c)
  <2>1. fresh' = fresh \ {c} /\ UNCHANGED <<storage, touched>>
    BY <1>3 DEF Authorize, FlagTaken, TakeFlag
  <2>2. Return(c) \/ Goto(c, "follow") \/ Goto(c, "wallet")
    BY <1>3 DEF Authorize, FlagTaken, ConnectFails
  <2>3. call'[c].answer = "none" /\ call'[c].pc \notin {"authorize", "reading"}
    BY <2>2, GotoFacts, ReturnFacts
  <2> QED
    BY <1>0, <2>1, <2>3, MoveReads
<1>4. CASE \/ FlagCleared(c) \/ WalletRead(c) \/ Connected(c) \/ WagmiListens(c)
           \/ WagmiShows(c) \/ Disconnected(c) \/ Signed(c)
  <2>1. UNCHANGED <<storage, touched, flag, fresh>> /\ call[c].pc \notin {"authorize", "reading"}
    BY <1>4 DEF FlagCleared, WalletRead, Connected, WagmiListens, WagmiShows, Disconnected, Signed,
                connector, remembered
  <2>2. \/ Return(c)
        \/ \E pc \in {"follow", "signing", "linking", "linked"} : Goto(c, pc)
        \/ /\ WalletRead(c)
           /\ call' = [call EXCEPT ![c].pc = IF queue = <<>> THEN "got" ELSE "behind", ![c].got = wallet]
    BY <1>4 DEF FlagCleared, WalletRead, Connected, WagmiListens, WagmiShows, Disconnected, Signed,
                ConnectFails
  <2>3. CASE /\ WalletRead(c)
             /\ call' = [call EXCEPT ![c].pc = IF queue = <<>> THEN "got" ELSE "behind", ![c].got = wallet]
    <3>1. call'[c].pc \in {"behind", "got"} /\ call'[c].answer = call[c].answer
      BY <1>0, <2>3 DEF CallType
    <3>2. call[c].answer = "failed" => storage.failed
      BY DEF ReadsOK
    <3>3. todo' = todo
      BY <2>1 DEF todo
    <3> QED
      BY <1>0, <2>1, <3>1, <3>2, <3>3 DEF ReadsOK, ReadsFrom, Elsewhere, StorageOK, FreshOK
  <2>4. CASE Return(c) \/ \E pc \in {"follow", "signing", "linking", "linked"} : Goto(c, pc)
    <3>1. call'[c].answer = "none" /\ call'[c].pc \notin {"authorize", "reading"}
      BY <2>4, GotoFacts, ReturnFacts
    <3> QED
      BY <1>0, <2>1, <3>1, MoveReads
  <2> QED
    BY <2>2, <2>3, <2>4
<1> QED
  BY <1>1, <1>2, <1>3, <1>4 DEF CallStep

(* What is read of the flag stays right.                                    *)
LEMMA ReadsNext ==
  ASSUME IInv, ReadsOK, [Next]_vars
  PROVE  ReadsOK'
<1>0. TypeOK /\ StorageOK /\ \A c \in Calls : CallOK(c)
  BY DEF IInv, StorageOK
<1>1. CASE Deliver
  <2>1. AskAlike(Calls) /\ Calls \ {NoWallet} = Calls
    BY <1>0, <1>1, DeliverCalls, ConstantsAssumption
  <2>2. \/ UNCHANGED <<storage, flag, touched, fresh>>
        \/ SetManuallyDisconnected(NoWallet, TRUE)
    BY <1>1 DEF Deliver, FollowChange, connector, remembered
  <2>3. NoWallet \notin Calls
    BY ConstantsAssumption
  <2> QED
    BY <1>0, <2>1, <2>2, <2>3, SameReads, SetReads
<1>2. CASE SetWallet \/ EndSession \/ EndPublished \/ Settled \/ UNCHANGED vars
  BY <1>0, <1>2, SameReads DEF SetWallet, EndSession, EndPublished, Settled, Change, vars, connector,
       remembered, AskAlike
<1> QED
  BY <1>0, <1>1, <1>2, CallStepReads, ServeReads DEF Next

-----------------------------------------------------------------------------
(* What wagmi shows, step by step                                           *)

(* What holds of a state in which no call met a change and storage works.   *)
Calm ==
  /\ TypeOK /\ StorageOK /\ ReadsOK /\ EndsOK /\ Shows /\ ~storage.failed
  /\ \A c \in Calls : CallOK(c)

(* With no call to connect, only what is shown matters.                     *)
LEMMA ShowsAlone ==
  ASSUME ~SomeInConnect', \A c \in Calls : CallOK(c)',
         Shown' => Cleared' /\ Aligned' /\ ShownOK'
  PROVE  Shows'
<1>1. ASSUME NEW c \in Calls
      PROVE  /\ ~Clears(c)' /\ ~Connects(c)' /\ ~HasRead(c)'
             /\ call'[c].pc \notin {"behind", "got", "linking", "linked"}
  <2>1. call'[c].kind \notin Connecting
    BY DEF SomeInConnect
  <2> QED
    BY <2>1 DEF CallOK, Clears, Connects, HasRead
<1>2. LinkOK'
  BY <1>1 DEF LinkOK, Linked
<1>3. ClearedOK' /\ AlignOK' /\ ShownOK'
  BY <1>1 DEF ClearedOK, AlignOK, ShownOK
<1> QED
  BY <1>2, <1>3 DEF Shows

(* A change published to the listener.                                      *)
LEMMA PublishAligned ==
  ASSUME TypeOK, Aligned, NEW w \in WalletOrNone, Publish(w), wallet' = w, UNCHANGED listener
  PROVE  Aligned' /\ queue' # <<>>
<1> DEFINE e == [wallet |-> w, to |-> listener]
<1>1. /\ queue \in Seq([wallet : WalletOrNone, to : 1..MaxListener])
      /\ listener \in 1..MaxListener
  BY ConstantsAssumption DEF TypeOK, Aligned
<1>2. e \in [wallet : WalletOrNone, to : 1..MaxListener] /\ e.wallet = w /\ e.to = listener
  BY <1>1
<1>3. queue' = Append(queue, e)
  BY DEF Publish, Aligned
<1> HIDE DEF e
<1>4. /\ Len(queue) \in Nat /\ Len(queue') = Len(queue) + 1 /\ queue' # <<>>
      /\ \A i \in 1..Len(queue) : queue'[i] = queue[i]
      /\ queue'[Len(queue')] = e
  BY <1>1, <1>2, <1>3
<1>5. \A i \in 1..Len(queue') : queue'[i].to = listener
  BY <1>2, <1>4 DEF Aligned
<1> QED
  BY <1>2, <1>4, <1>5 DEF Aligned

(* A change that meets no call which has read its account.                  *)
LEMMA ChangeShows ==
  ASSUME Calm, ~SomeHasRead, UNCHANGED <<connector, storage, call, wagmi>>,
         Aligned => Aligned' /\ (queue' # <<>> \/ ending' # "no")
  PROVE  Shows'
<1>1. UNCHANGED <<listener, account, flag, touched, storage, call, app, hears>>
  BY DEF connector, followed, remembered, wagmi
<1>2. /\ Shown' <=> Shown
      /\ Cleared' <=> Cleared
      /\ \A c \in Calls : /\ Clears(c)' <=> Clears(c)
                          /\ Connects(c)' <=> Connects(c)
                          /\ HasRead(c)' <=> HasRead(c)
  BY <1>1 DEF Shown, Cleared, Clears, Connects, HasRead
<1>3. ClearedOK' /\ AlignOK'
  BY <1>2 DEF Calm, Shows, ClearedOK, AlignOK
<1>4. ASSUME NEW c \in Calls PROVE Linked(c)'
  <2>1. ~HasRead(c) /\ call[c].pc \notin {"linking", "linked"}
    BY DEF SomeHasRead, HasRead
  <2>2. call[c].pc = "got" => Aligned
    BY DEF Calm, CallOK, Connects, Shows, AlignOK
  <2>3. Linked(c)
    BY DEF Calm, Shows, LinkOK
  <2> QED
    BY <1>1, <1>2, <2>1, <2>2, <2>3 DEF Linked
<1>5. ShownOK'
  BY <1>1, <1>2 DEF Calm, Shows, ShownOK, AlignOK
<1> QED
  BY <1>3, <1>4, <1>5 DEF Shows, LinkOK

LEMMA SetWalletShows ==
  ASSUME Calm, SetWallet, ~raced'
  PROVE  Shows'
<1>1. PICK w \in Wallets : wallet' = w /\ Publish(w)
  BY DEF SetWallet
<1>2. w \in WalletOrNone /\ UNCHANGED <<connector, storage, call, wagmi>> /\ ~SomeHasRead
  BY DEF SetWallet, Change, WalletOrNone
<1> QED
  BY <1>1, <1>2, PublishAligned, ChangeShows DEF Calm, connector, followed

LEMMA EndSessionShows ==
  ASSUME Calm, EndSession, ~raced'
  PROVE  Shows'
<1>1. /\ ~SomeHasRead /\ UNCHANGED <<connector, storage, call, wagmi, queue>>
      /\ ending' # "no"
  BY DEF EndSession, Change
<1>2. Aligned => Aligned'
  BY <1>1 DEF Aligned, connector, followed
<1> QED
  BY <1>1, <1>2, ChangeShows

LEMMA EndPublishedShows ==
  ASSUME Calm, EndPublished, ~raced'
  PROVE  Shows'
<1>1. ~SomeHasRead
  <2>1. raced' = (raced \/ SomeHasRead)
    BY Zenon DEF EndPublished
  <2> QED
    BY <2>1, Zenon
<1>2. /\ UNCHANGED <<connector, storage, call, wagmi>>
      /\ wallet' = NoWallet /\ Publish(NoWallet) /\ NoWallet \in WalletOrNone
  BY DEF EndPublished, EndsOK, Calm, WalletOrNone
<1> QED
  BY <1>1, <1>2, PublishAligned, ChangeShows DEF Calm, connector, followed

(* A change of another listener.                                            *)
LEMMA PassedShows ==
  ASSUME Calm, Deliver, ~StillListens(Head(queue)), \A c \in Calls : CallOK(c)'
  PROVE  Shows'
<1>1. UNCHANGED <<connector, storage, wagmi, client>>
  BY DEF Deliver
<1>2. ~Aligned
  <2>1. queue \in Seq([wallet : WalletOrNone, to : 1..MaxListener]) /\ queue # <<>>
    BY DEF Calm, TypeOK, Deliver
  <2>2. Head(queue) = queue[1] /\ 1 \in 1..Len(queue)
    BY <2>1
  <2> QED
    BY <2>2 DEF Aligned, StillListens
<1>3. ~Shown /\ \A c \in Calls : ~Connects(c)
  BY <1>2 DEF Calm, Shows, AlignOK
<1>4. \A c \in Calls : call'[c] = call[c]
  <2> SUFFICES ASSUME NEW c \in Calls PROVE call'[c] = call[c]
    OBVIOUS
  <2>1. call[c].pc # "behind"
    BY <1>3 DEF Connects, Calm, CallOK
  <2> QED
    BY <2>1, DeliverCalls DEF Calm
<1>5. ~Shown' /\ \A c \in Calls : ~Connects(c)' /\ (Clears(c)' => Clears(c))
  BY <1>1, <1>3, <1>4 DEF Shown, Connects, Clears, wagmi
<1>6. Cleared => Cleared'
  BY <1>1 DEF Cleared, connector, remembered
<1>7. ASSUME NEW c \in Calls PROVE Linked(c)'
  <2>1. call'[c].pc \notin {"behind", "got", "linking", "linked"}
    BY <1>5 DEF CallOK, Connects
  <2> QED
    BY <2>1 DEF Linked, HasRead
<1> QED
  BY <1>5, <1>6, <1>7 DEF Calm, Shows, ClearedOK, AlignOK, LinkOK, ShownOK

(* The connector hears that there is no Ethereum wallet any more.           *)
LEMMA LeftShows ==
  ASSUME Calm, Deliver, ~raced', StillListens(Head(queue)), Head(queue).wallet \notin Ethereum,
         \A c \in Calls : CallOK(c)'
  PROVE  Shows'
<1>1. ~SomeInConnect
  <2>1. raced' = \/ raced
                 \/ /\ StillListens(Head(queue)) /\ Head(queue).wallet \notin Ethereum
                    /\ SomeInConnect
    BY Zenon DEF Deliver
  <2> QED
    BY <2>1, Zenon
<1>2. WagmiDisconnects
  BY DEF Deliver, FollowChange
<1>3. ~SomeInConnect'
  BY <1>1, DeliverCalls DEF SomeInConnect, Calm
<1>4. ~Shown'
  <2>1. Shown' => Shown
    BY <1>2, DeliverCalls DEF Shown, WagmiDisconnects, Calm
  <2> QED
    BY <1>2, <2>1 DEF WagmiDisconnects, Shown, Calm, Shows, ShownOK
<1> QED
  BY <1>3, <1>4, ShowsAlone

(* The connector hears of an Ethereum wallet.                               *)
LEMMA HeardShows ==
  ASSUME Calm, Deliver, StillListens(Head(queue)), Head(queue).wallet \in Ethereum,
         \A c \in Calls : CallOK(c)'
  PROVE  Shows'
<1> DEFINE w == Head(queue).wallet
<1>1. /\ account' = w /\ app' = (IF hears /\ app # NoWallet /\ w # account THEN w ELSE app)
      /\ UNCHANGED <<listener, remembered, storage, hears, wallet, ending>> /\ w # NoWallet
      /\ draining' = (queue' # <<>>)
      /\ \A c \in Calls : call[c].pc # "got"
  BY ConstantsAssumption DEF Deliver, FollowChange, client
<1>2. PICK n \in Nat : n = Len(queue)
  BY DEF Calm, TypeOK
<1>3. /\ n > 0 /\ w = queue[1].wallet /\ queue # <<>>
      /\ Len(queue') = n - 1
      /\ \A i \in 1..(n - 1) : queue'[i] = queue[i + 1]
      /\ queue' = <<>> <=> n = 1
  <2>1. /\ queue \in Seq([wallet : WalletOrNone, to : 1..MaxListener])
        /\ queue # <<>> /\ queue' = Tail(queue)
    BY DEF Calm, TypeOK, Deliver
  <2>2. n # 0 /\ Head(queue) = queue[1]
    BY <1>2, <2>1
  <2>3. Len(queue') = n - 1 /\ \A i \in 1..(n - 1) : queue'[i] = queue[i + 1]
    BY <1>2, <2>1
  <2>4. queue' = <<>> <=> Len(queue') = 0
    <3>1. queue' \in Seq([wallet : WalletOrNone, to : 1..MaxListener])
      BY <2>1
    <3> QED
      BY <3>1
  <2> QED
    BY <2>1, <2>2, <2>3, <2>4
<1> HIDE DEF w
<1>4. Aligned => Aligned'
  <2> SUFFICES ASSUME Aligned PROVE Aligned'
    OBVIOUS
  <2>1. \A i \in 1..(n - 1) : queue'[i].to = listener
    <3> SUFFICES ASSUME NEW i \in 1..(n - 1) PROVE queue'[i].to = listener
      OBVIOUS
    <3>1. i + 1 \in 1..n
      OBVIOUS
    <3> QED
      BY <1>2, <1>3, <3>1 DEF Aligned
  <2>2. ASSUME queue' # <<>> PROVE queue'[Len(queue')].wallet = queue[Len(queue)].wallet
    <3>1. n - 1 \in 1..(n - 1) /\ (n - 1) + 1 = n
      BY <1>3, <2>2
    <3> QED
      BY <1>2, <1>3, <3>1
  <2> QED
    BY <1>1, <1>3, <2>1, <2>2 DEF Aligned
<1>5. /\ Shown' <=> Shown
      /\ Cleared' <=> Cleared
      /\ \A c \in Calls : (Clears(c)' <=> Clears(c)) /\ (Connects(c)' <=> Connects(c))
  <2>1. app' # NoWallet <=> app # NoWallet
    BY <1>1
  <2> QED
    BY <1>1, <2>1, DeliverCalls DEF Shown, Cleared, Clears, Connects, remembered, Calm
<1>6. ClearedOK' /\ AlignOK'
  BY <1>4, <1>5 DEF Calm, Shows, ClearedOK, AlignOK
<1>7. Shown => /\ Aligned /\ hears /\ account = app /\ app # NoWallet
               /\ app' = w
  BY <1>1 DEF Calm, Shows, ShownOK, AlignOK, Shown
(* The last of the changes is to the active wallet.                         *)
<1>8. ASSUME n = 1, ending = "no", Aligned PROVE wallet = w
  BY <1>2, <1>3, <1>8 DEF Aligned
<1>9. ShownOK'
  BY <1>1, <1>3, <1>5, <1>7, <1>8 DEF ShownOK
<1>10. ASSUME NEW c \in Calls PROVE Linked(c)'
  <2>1. Linked(c) /\ CallOK(c)
    BY DEF Calm, Shows, LinkOK
  <2>2. call[c].pc \notin {"got", "linking", "linked"}
    BY <1>1, <1>3, <2>1 DEF Linked, HasRead
  <2>3. CASE call[c].pc # "behind"
    <3>1. call'[c] = call[c]
      BY <2>3, DeliverCalls DEF Calm
    <3> QED
      BY <2>2, <2>3, <3>1 DEF Linked, HasRead
  <2>4. CASE call[c].pc = "behind"
    <3>1. call[c].got = wallet /\ wallet \in Ethereum /\ Aligned
      BY <2>1, <2>4 DEF Linked, HasRead, CallOK, Connects, Calm, Shows, AlignOK
    <3>2. ending = "no"
      BY <3>1, ConstantsAssumption DEF Calm, EndsOK
    <3>3. /\ call'[c].got = wallet'
          /\ \/ draining' /\ call'[c].pc = "behind"
             \/ ~draining' /\ call'[c].pc = "got"
      BY <1>1, <2>4, <3>1, DeliverCalls DEF Calm
    <3>4. ASSUME ~draining', Shown' PROVE call'[c].got = app'
      BY <1>1, <1>3, <1>5, <1>7, <1>8, <3>1, <3>2, <3>3, <3>4
    <3> QED
      BY <1>1, <3>3, <3>4 DEF Linked, HasRead
  <2> QED
    BY <2>3, <2>4
<1> QED
  BY <1>6, <1>9, <1>10 DEF Shows, LinkOK

LEMMA DeliverShows ==
  ASSUME Calm, Deliver, ~raced', \A c \in Calls : CallOK(c)'
  PROVE  Shows'
BY PassedShows, LeftShows, HeardShows

(* Storage answers.                                                         *)
LEMMA ServeShows ==
  ASSUME Calm, Serve, ~storage'.failed
  PROVE  Shows'
<1>1. UNCHANGED <<wallet, ending, queue, listener, account, flag, touched, app, hears>>
  BY DEF Serve, client, events, connector, followed, remembered, wagmi
<1>2. \A c \in Calls : /\ call'[c].pc = call[c].pc /\ call'[c].kind = call[c].kind
                       /\ call'[c].got = call[c].got
  <2> SUFFICES ASSUME NEW c \in Calls
               PROVE  /\ call'[c].pc = call[c].pc /\ call'[c].kind = call[c].kind
                      /\ call'[c].got = call[c].got
    OBVIOUS
  <2>1. CASE c # todo[1].by
    BY <2>1, ServeCalls DEF Calm
  <2>2. CASE c = todo[1].by
    <3>1. call' = [call EXCEPT ![c].answer = call'[c].answer]
      BY <2>2, ServeCalls DEF Calm
    <3> QED
      BY <3>1 DEF Calm, TypeOK
  <2> QED
    BY <2>1, <2>2
<1>3. Cleared => Cleared'
  <2>1. ~touched => storage'.flag = storage.flag
    <3>1. PICK n \in Nat : n = Len(todo)
      BY ServeFacts DEF Calm
    <3>2. n # 0
      BY <3>1, ServeFacts DEF Calm
    <3>3. ~touched => todo[1].op = "read"
      BY <3>1, <3>2 DEF Calm, ReadsOK, ReadsFrom
    <3> QED
      BY <3>3, ServeFacts DEF Calm
  <2> QED
    BY <1>1, <2>1 DEF Cleared
<1>4. /\ \A c \in Calls : /\ Clears(c)' <=> Clears(c)
                          /\ Connects(c)' <=> Connects(c)
                          /\ HasRead(c)' <=> HasRead(c)
      /\ Shown' <=> Shown
      /\ Aligned' <=> Aligned
  BY <1>1, <1>2 DEF Clears, Connects, HasRead, Shown, Aligned
<1>5. ClearedOK' /\ AlignOK'
  BY <1>1, <1>3, <1>4 DEF Calm, Shows, ClearedOK, AlignOK
<1>6. LinkOK' /\ ShownOK'
  BY <1>1, <1>2, <1>4 DEF Calm, Shows, LinkOK, Linked, ShownOK
<1> QED
  BY <1>5, <1>6 DEF Shows

(* Everything starts anew.                                                  *)
LEMMA SettledShows ==
  ASSUME TypeOK, \A c \in Calls : CallOK(c), Settled
  PROVE  Shows'
<1>1. app' = NoWallet /\ \A c \in Calls : call'[c] = NoCall
  BY DEF Settled, wagmi, CallOK
<1>2. NoCall.kind \notin Connecting /\ NoCall.pc = "idle"
  BY DEF NoCall, Connecting, NoWallet
<1>3. (\A c \in Calls : CallOK(c)') /\ ~SomeInConnect' /\ ~Shown'
  BY <1>1, <1>2 DEF CallOK, SomeInConnect, Shown
<1> QED
  BY <1>3, ShowsAlone

LEMMA UnchangedShows ==
  ASSUME Calm, UNCHANGED vars
  PROVE  Shows'
<1>1. /\ UNCHANGED <<wallet, ending, queue, listener, account, flag, touched, app, hears, call, storage>>
  BY DEF vars, client, events, connector, followed, remembered, wagmi
<1>2. ClearedOK' /\ AlignOK'
  BY <1>1 DEF Calm, Shows, ClearedOK, AlignOK, Aligned, Shown, Clears, Connects, Cleared
<1>3. LinkOK' /\ ShownOK'
  BY <1>1 DEF Calm, Shows, LinkOK, Linked, HasRead, ShownOK, Shown
<1> QED
  BY <1>2, <1>3 DEF Shows

-----------------------------------------------------------------------------
(* What wagmi shows: the steps of the calls                                 *)

(* A read that is taken does not raise the flag again.                      *)
LEMMA TakeCleared ==
  ASSUME Calm, Cleared, NEW c \in Calls, call[c].answer # "none", TakeFlag(c),
         UNCHANGED <<touched, storage>>
  PROVE  Cleared'
<1>1. ~FlagRead(c)
  <2> SUFFICES ASSUME FlagRead(c) PROVE FALSE
    OBVIOUS
  <2>1. c \in fresh /\ call[c].answer = "true"
    BY DEF FlagRead, SameVersion
  <2>2. ReadsFrom(1) /\ storage.flag
    BY <2>1 DEF Calm, StorageOK, FreshOK
  <2>3. storage.flag \in BOOLEAN /\ flag \in BOOLEAN
    BY DEF Calm, TypeOK
  <2>4. touched => flag = storage.flag
    BY <2>2 DEF Calm, StorageOK, FlagOK
  <2> QED
    BY <2>2, <2>3, <2>4 DEF Cleared
<1>2. flag' = flag
  BY <1>1 DEF TakeFlag, Calm, TypeOK
<1> QED
  BY <1>2 DEF Cleared

(* A step that leaves alone what is shown and followed.                     *)
LEMMA CallShows ==
  ASSUME Calm, NEW c \in Calls, Elsewhere(c),
         UNCHANGED <<wallet, ending, queue, listener, account, app>>,
         hears => hears',
         call[c].pc # "leaving", call'[c].pc # "leaving",
         Cleared => Cleared', Clears(c)' => Clears(c) \/ Cleared',
         Connects(c)' => Connects(c),
         call'[c].pc \in {"behind", "got", "linking", "linked"} => Linked(c)'
  PROVE  Shows'
<1>1. Shown' <=> Shown
  BY DEF Shown, Elsewhere
<1>2. \A d \in Calls : d # c => (Clears(d)' <=> Clears(d)) /\ (Connects(d)' <=> Connects(d))
  BY DEF Elsewhere, Clears, Connects
<1>3. ClearedOK'
  BY <1>1, <1>2 DEF Calm, Shows, ClearedOK
<1>4. AlignOK'
  BY <1>1, <1>2 DEF Calm, Shows, AlignOK, Aligned
<1>5. LinkOK'
  <2>1. Linked(c)'
    BY DEF Linked, HasRead
  <2>2. ASSUME NEW d \in Calls, d # c PROVE Linked(d)'
    BY <1>1, <2>2 DEF Calm, Shows, LinkOK, Linked, HasRead, Elsewhere
  <2> QED
    BY <2>1, <2>2 DEF LinkOK
<1>6. ShownOK'
  BY <1>1 DEF Calm, Shows, ShownOK
<1> QED
  BY <1>3, <1>4, <1>5, <1>6 DEF Shows

(* The calls that begin, but to disconnect.                                 *)
LEMMA BeginShows ==
  ASSUME Calm, NEW c \in Calls, Elsewhere(c), Connect(c) \/ Reconnect(c) \/ SignMessage(c),
         storage'.flag = storage.flag
  PROVE  Shows'
<1>0. /\ call \in [Calls -> CallType] /\ call[c].pc = "idle"
      /\ UNCHANGED <<wallet, ending, queue, listener, account, app, hears>>
  BY DEF Calm, TypeOK, CallType, Connect, Reconnect, SignMessage, client, events, followed, wagmi
<1>1. CASE Connect(c)
  <2>0. PICK kind : call' = [call EXCEPT ![c].kind = kind, ![c].pc = "clearing"]
    BY <1>1 DEF Connect
  <2>1. call'[c].pc = "clearing"
    BY <1>0, <2>0 DEF CallType
  <2>2. Cleared'
    BY <1>1 DEF Connect, SetManuallyDisconnected, Cleared
  <2>3. ~Connects(c)'
    BY <2>1 DEF Connects
  <2> QED
    BY <1>0, <2>1, <2>2, <2>3, CallShows
<1>2. CASE Reconnect(c)
  <2>1. call'[c].pc = "authorize"
    BY <1>2, ReadFacts DEF Reconnect, Calm
  <2>2. Cleared => Cleared'
    BY <1>2 DEF Reconnect, ReadFlag, Cleared
  <2>3. ~Connects(c)' /\ ~Clears(c)'
    BY <2>1 DEF Connects, Clears
  <2> QED
    BY <1>0, <2>1, <2>2, <2>3, CallShows
<1>3. CASE SignMessage(c)
  <2> DEFINE k == [NoCall EXCEPT !.kind = "sign", !.pc = "reading", !.got = app]
  <2>1. k.kind = "sign" /\ k.pc = "reading"
    BY DEF NoCall
  <2>2. call' = [call EXCEPT ![c] = k]
    BY <1>3 DEF SignMessage
  <2> HIDE DEF k
  <2>3. call'[c].kind = "sign" /\ call'[c].pc = "reading"
    BY <1>0, <2>1, <2>2
  <2>4. Cleared => Cleared'
    BY <1>3 DEF SignMessage, Cleared
  <2>5. ~Connects(c)' /\ ~Clears(c)'
    BY <2>3 DEF Connects, Clears, Connecting
  <2> QED
    BY <1>0, <2>3, <2>4, <2>5, CallShows
<1> QED
  BY <1>1, <1>2, <1>3

(* The flag has been cleared, or read before anything is followed.          *)
LEMMA BeforeFollowShows ==
  ASSUME Calm, NEW c \in Calls, Elsewhere(c), FlagCleared(c) \/ Authorize(c)
  PROVE  Shows'
<1>0. /\ UNCHANGED <<wallet, ending, queue, listener, account, app, hears, storage, touched>>
      /\ call[c].pc # "leaving" /\ call[c].answer # "none" /\ call[c].answer # "failed"
      /\ call[c].kind \in Connecting
  BY DEF Calm, ReadsOK, CallOK, FlagCleared, Authorize, client, events, connector, followed, remembered, wagmi
<1>1. Return(c) \/ Goto(c, "follow")
  BY DEF FlagCleared, Authorize
<1>2. /\ call'[c].pc \in {"idle", "follow"} /\ ~Connects(c)'
      /\ Clears(c)' => Goto(c, "follow")
  BY <1>1, GotoFacts, ReturnFacts DEF Calm, Connects, Clears
<1>3. CASE FlagCleared(c)
  <2>1. Clears(c) /\ (Cleared => Cleared')
    BY <1>0, <1>3 DEF FlagCleared, Clears, Cleared, connector, remembered
  <2> QED
    BY <1>0, <1>2, <2>1, CallShows
<1>4. CASE Authorize(c)
  <2>1. TakeFlag(c) /\ (IF flag' \/ wallet \notin Ethereum THEN Return(c) ELSE Goto(c, "follow"))
    BY <1>0, <1>4 DEF Authorize
  <2>2. Cleared => Cleared'
    BY <1>0, <2>1, TakeCleared
  <2>3. ASSUME Clears(c)' PROVE Cleared'
    <3>1. call'[c].pc # "idle"
      BY <2>3, <1>1, GotoFacts, ReturnFacts DEF Clears, Calm
    <3>2. ~flag'
      BY <2>1, <3>1, ReturnFacts DEF Calm
    <3>3. ASSUME ~touched PROVE ~storage.flag
      <4>1. c \in fresh
        BY <1>4, <3>3 DEF Authorize, Calm, ReadsOK
      <4>2. call[c].answer \in {"true", "absent"}
        BY <1>0 DEF Calm, TypeOK, Answers
      <4>3. call[c].answer # "true"
        BY <2>1, <3>2, <4>1 DEF TakeFlag, FlagRead, SameVersion
      <4> QED
        BY <4>1, <4>2, <4>3 DEF Calm, ReadsOK
    <3> QED
      BY <1>0, <3>2, <3>3 DEF Cleared
  <2> QED
    BY <1>0, <1>2, <2>2, <2>3, CallShows
<1> QED
  BY <1>3, <1>4

(* followSession, of a call that meets no change.                           *)
LEMMA FollowShows ==
  ASSUME Calm, NEW c \in Calls, Elsewhere(c), Follow(c), ~raced', storage'.flag = storage.flag
  PROVE  Shows'
<1>1. /\ queue = <<>> /\ UNCHANGED <<wallet, ending, account, app, hears, flag, touched>>
      /\ call[c].pc = "follow" /\ Clears(c)
  BY DEF Follow, ReadFlag, client, wagmi, Calm, CallOK, Clears
<1>2. call'[c].pc = "reading"
  BY ReadFacts DEF Follow, Calm
<1>3. Shown' <=> Shown
  BY <1>1, <1>2 DEF Shown, Elsewhere
<1>4. Cleared /\ Cleared'
  BY <1>1 DEF Calm, Shows, ClearedOK, Cleared
<1>5. Aligned' /\ (Aligned => UNCHANGED <<queue, listener>>)
  <2>1. CASE listener # 0
    <3>1. UNCHANGED <<queue, listener>> /\ Len(queue) = 0
      BY <1>1, <2>1 DEF Follow
    <3> QED
      BY <1>1, <2>1, <3>1 DEF Aligned
  <2>2. CASE listener = 0
    <3>1. /\ listener' = listeners + 1 /\ listeners \in Nat
          /\ queue' = IF expired /\ wallet = NoWallet
                        THEN <<[wallet |-> NoWallet, to |-> listener']>>
                        ELSE <<>>
      BY <1>1, <2>2 DEF Follow, Calm, TypeOK
    <3>2. /\ Len(queue') \in {0, 1} /\ (Len(queue') = 0 <=> queue' = <<>>)
          /\ Len(queue') = 1 => queue'[1].to = listener' /\ queue'[1].wallet = wallet
      BY <3>1
    <3> QED
      BY <1>1, <2>2, <3>1, <3>2 DEF Aligned
  <2> QED
    BY <2>1, <2>2
<1>6. ClearedOK' /\ AlignOK'
  BY <1>4, <1>5 DEF ClearedOK, AlignOK
<1>7. ASSUME NEW d \in Calls PROVE Linked(d)'
  <2>1. CASE d = c
    BY <1>2, <2>1 DEF Linked, HasRead
  <2>2. CASE d # c
    <3>1. CASE call[d].pc \in {"behind", "got", "linking", "linked"}
      <4>1. Aligned
        BY <3>1 DEF Connects, Calm, CallOK, Shows, AlignOK
      <4> QED
        BY <1>1, <1>3, <1>5, <2>2, <4>1 DEF Calm, Shows, LinkOK, Linked, HasRead, Elsewhere
    <3>2. CASE call[d].pc \notin {"behind", "got", "linking", "linked"}
      BY <2>2, <3>2 DEF Linked, HasRead, Elsewhere
    <3> QED
      BY <3>1, <3>2
  <2> QED
    BY <2>1, <2>2
<1>8. ShownOK'
  BY <1>1, <1>3, <1>5 DEF Calm, Shows, AlignOK, ShownOK
<1> QED
  BY <1>6, <1>7, <1>8 DEF Shows, LinkOK

(* accounts: with the flag down, a call to connect goes on.                 *)
LEMMA FlagTakenShows ==
  ASSUME Calm, NEW c \in Calls, Elsewhere(c), FlagTaken(c)
  PROVE  Shows'
<1>0. /\ UNCHANGED <<wallet, ending, queue, app, hears, storage, touched>>
      /\ call[c].pc = "reading" /\ call[c].answer # "none" /\ call[c].answer # "failed"
      /\ call[c].kind \in Connecting \cup {"sign"}
  BY DEF Calm, ReadsOK, CallOK, FlagTaken, client, events, wagmi
<1>1. TakeFlag(c) /\ (IF flag' THEN ConnectFails(c) ELSE Goto(c, "wallet") /\ UNCHANGED followed)
  BY <1>0 DEF FlagTaken
<1>2. Cleared => Cleared'
  BY <1>0, <1>1, TakeCleared
<1>3. UNCHANGED followed /\ (Return(c) \/ Goto(c, "wallet"))
  <2>1. CASE call[c].kind = "sign"
    BY <1>1, <2>1 DEF ConnectFails
  <2>2. CASE call[c].kind \in Connecting
    <3>1. Cleared
      BY <1>0, <2>2 DEF Clears, Calm, Shows, ClearedOK
    <3> QED
      BY <1>1, <1>2, <3>1 DEF Cleared
  <2> QED
    BY <1>0, <2>1, <2>2
<1>4. /\ call'[c].pc \in {"idle", "wallet"}
      /\ Clears(c)' => Clears(c)
      /\ Connects(c)' => Connects(c)
  BY <1>0, <1>3, GotoFacts, ReturnFacts DEF Calm, Clears, Connects
<1> QED
  BY <1>0, <1>2, <1>3, <1>4, CallShows DEF followed

(* accounts: the active wallet                                              *)
LEMMA WalletReadShows ==
  ASSUME Calm, NEW c \in Calls, Elsewhere(c), WalletRead(c), ~raced', \A d \in Calls : CallOK(d)'
  PROVE  Shows'
<1>0. /\ UNCHANGED <<wallet, ending, queue, app, hears, storage, touched, flag>>
      /\ call[c].pc = "wallet" /\ call \in [Calls -> CallType]
      /\ call[c].kind \in Connecting \cup {"sign"}
  BY DEF Calm, TypeOK, CallType, CallOK, WalletRead, client, events, remembered, wagmi
<1>1. Cleared => Cleared'
  BY <1>0 DEF Cleared
<1>2. CASE wallet \in Ethereum /\ call[c].kind # "sign"
  <2>1. /\ UNCHANGED followed
        /\ call' = [call EXCEPT ![c].pc = IF queue = <<>> THEN "got" ELSE "behind", ![c].got = wallet]
    BY <1>2 DEF WalletRead
  <2>2. /\ call'[c].pc = IF queue = <<>> THEN "got" ELSE "behind"
        /\ call'[c].got = wallet /\ call'[c].kind = call[c].kind
    BY <1>0, <2>1 DEF CallType
  <2>3. (Clears(c)' => Clears(c)) /\ (Connects(c)' => Connects(c))
    BY <1>0, <2>2 DEF Clears, Connects
  <2>4. ending = "no"
    BY <1>2, ConstantsAssumption DEF Calm, EndsOK
  <2>5. Shown' <=> Shown
    BY <1>0, <2>2 DEF Shown, Elsewhere
  <2>6. Linked(c)'
    BY <1>0, <2>2, <2>4, <2>5 DEF Linked, HasRead, Calm, Shows, ShownOK
  <2> QED
    BY <1>0, <1>1, <1>2, <2>1, <2>2, <2>3, <2>6, CallShows DEF followed
<1>3. CASE call[c].kind = "sign"
  <2>1. UNCHANGED followed /\ (Return(c) \/ Goto(c, "signing"))
    BY <1>3 DEF WalletRead, ConnectFails
  <2>2. /\ call'[c].pc \in {"idle", "signing"} /\ call'[c].kind \notin Connecting
    BY <1>3, <2>1, GotoFacts, ReturnFacts DEF Calm, Connecting
  <2>3. ~Clears(c)' /\ ~Connects(c)'
    BY <2>2 DEF Clears, Connects
  <2> QED
    BY <1>0, <1>1, <2>1, <2>2, <2>3, CallShows DEF followed
(* A call that finds no Ethereum wallet is alone.                           *)
<1>4. CASE wallet \notin Ethereum /\ call[c].kind \in Connecting
  <2>1. Return(c) /\ app = NoWallet /\ ~OthersConnect(c)
    BY <1>4 DEF WalletRead, ConnectFails, Connecting
  <2>2. call'[c].kind \notin Connecting
    BY <2>1, ReturnFacts DEF Calm
  <2>3. ~SomeInConnect' /\ ~Shown'
    BY <1>0, <2>1, <2>2 DEF SomeInConnect, OthersConnect, Shown, Elsewhere
  <2> QED
    BY <2>3, ShowsAlone
<1> QED
  BY <1>0, <1>2, <1>3, <1>4

(* The account is reported, and it is what is shown, if anything is.        *)
LEMMA ConnectedShows ==
  ASSUME Calm, NEW c \in Calls, Elsewhere(c), Connected(c)
  PROVE  Shows'
<1>0. /\ UNCHANGED <<wallet, ending, queue, listener, app, hears, storage, touched, flag>>
      /\ call[c].pc = "got" /\ call[c].kind \in Connecting /\ account' = call[c].got
      /\ Linked(c) /\ call[c].got \in Ethereum
  BY DEF Calm, CallOK, Shows, LinkOK, Connected, client, events, remembered, wagmi
<1>1. Connects(c) /\ Clears(c)
  BY <1>0 DEF Connects, Clears
<1>2. \/ call[c].kind = "request" /\ call'[c].pc = "idle"
      \/ /\ call[c].kind # "request" /\ call'[c].pc = "linking"
         /\ call'[c].got = call[c].got /\ call'[c].kind = call[c].kind
  BY <1>0, GotoFacts, ReturnFacts DEF Calm, Connected
<1>3. /\ Shown' <=> Shown
      /\ \A d \in Calls : Connects(d)' => Connects(d)
  BY <1>0, <1>1, <1>2 DEF Shown, Connects, Elsewhere
<1>4. ClearedOK' /\ AlignOK'
  BY <1>0, <1>1, <1>3 DEF Calm, Shows, ClearedOK, Cleared, AlignOK, Aligned
<1>5. ASSUME NEW d \in Calls PROVE Linked(d)'
  <2>1. CASE d = c
    BY <1>0, <1>2, <2>1 DEF Linked, HasRead
  <2>2. CASE d # c
    <3>1. Linked(d) /\ CallOK(d) /\ call'[d] = call[d]
      BY <2>2 DEF Calm, Shows, LinkOK, Elsewhere
    <3>2. ASSUME call[d].pc \in {"linking", "linked"} PROVE account' = call[d].got
      <4>1. call[d].got = wallet /\ wallet \in Ethereum /\ queue = <<>>
        BY <3>1, <3>2 DEF Linked, HasRead, CallOK
      <4>2. ending = "no"
        BY <4>1, ConstantsAssumption DEF Calm, EndsOK
      <4> QED
        BY <1>0, <4>1, <4>2 DEF Linked
    <3> QED
      BY <1>0, <1>3, <3>1, <3>2 DEF Linked, HasRead
  <2> QED
    BY <2>1, <2>2
<1>6. ShownOK'
  BY <1>0, <1>3 DEF Calm, Shows, Linked, ShownOK
<1> QED
  BY <1>4, <1>5, <1>6 DEF Shows, LinkOK

LEMMA ListensShows ==
  ASSUME Calm, NEW c \in Calls, Elsewhere(c), WagmiListens(c)
  PROVE  Shows'
<1>0. /\ UNCHANGED <<wallet, ending, queue, listener, account, app, storage, touched, flag>>
      /\ call[c].pc = "linking" /\ hears' = TRUE
  BY DEF WagmiListens, client, events, connector, followed, remembered
<1>1. call'[c].pc = "linked" /\ call'[c].got = call[c].got /\ call'[c].kind = call[c].kind
  BY GotoFacts DEF Calm, WagmiListens
<1>2. (Clears(c)' => Clears(c)) /\ (Connects(c)' => Connects(c)) /\ (Cleared => Cleared')
  BY <1>0, <1>1 DEF Clears, Connects, Cleared
<1>3. Linked(c)'
  BY <1>0, <1>1 DEF Calm, Shows, LinkOK, Linked, HasRead
<1> QED
  BY <1>0, <1>1, <1>2, <1>3, CallShows

(* wagmi shows what the call to connect has reported.                       *)
LEMMA WagmiShowsShows ==
  ASSUME Calm, NEW c \in Calls, Elsewhere(c), WagmiShows(c)
  PROVE  Shows'
<1>0. /\ UNCHANGED <<wallet, ending, queue, listener, account, hears, storage, touched, flag>>
      /\ call[c].pc = "linked" /\ call[c].kind \in Connecting /\ app' = call[c].got
      /\ call[c].got = wallet /\ wallet \in Ethereum /\ account = wallet /\ hears /\ queue = <<>>
  BY DEF Calm, CallOK, Shows, LinkOK, Linked, HasRead, WagmiShows, client, events, connector, followed,
         remembered
<1>1. Connects(c) /\ Clears(c)
  BY <1>0 DEF Connects, Clears
<1>2. ending = "no"
  BY <1>0, ConstantsAssumption DEF Calm, EndsOK
<1>3. call'[c].pc = "idle"
  BY ReturnFacts DEF Calm, WagmiShows
<1>4. ClearedOK' /\ AlignOK'
  BY <1>0, <1>1 DEF Calm, Shows, ClearedOK, Cleared, AlignOK, Aligned
<1>5. ASSUME NEW d \in Calls PROVE Linked(d)'
  <2>1. CASE d = c
    BY <1>3, <2>1 DEF Linked, HasRead
  <2>2. CASE d # c
    BY <1>0, <1>2, <2>2 DEF Calm, Shows, LinkOK, Linked, HasRead, Elsewhere
  <2> QED
    BY <2>1, <2>2
<1>6. ShownOK'
  BY <1>0 DEF ShownOK
<1> QED
  BY <1>4, <1>5, <1>6 DEF Shows, LinkOK

(* A disconnect, and its end; no call is about to connect.                  *)
LEMMA DisconnectShows ==
  ASSUME Calm, NEW c \in Calls, Elsewhere(c), Disconnect(c) \/ Disconnected(c), ~raced',
         \A d \in Calls : CallOK(d)'
  PROVE  Shows'
<1>0. ~SomeInConnect /\ call \in [Calls -> CallType]
  BY DEF Disconnect, Disconnected, Calm, TypeOK, CallType
<1>1. call'[c].kind \notin Connecting /\ ~Shown'
  <2>1. CASE Disconnect(c)
    <3>1. call'[c].kind = "disconnect" /\ call'[c].pc = "leaving"
      BY <1>0, <2>1 DEF Disconnect, CallType
    <3> QED
      BY <3>1 DEF Shown, Connecting
  <2>2. CASE Disconnected(c)
    <3>1. app' = NoWallet
      BY <2>2 DEF Disconnected, Calm, ReadsOK
    <3> QED
      BY <2>2, <3>1, ReturnFacts DEF Disconnected, Calm, Shown
  <2> QED
    BY <2>1, <2>2
<1>2. ~SomeInConnect'
  BY <1>0, <1>1 DEF SomeInConnect, Elsewhere
<1> QED
  BY <1>1, <1>2, ShowsAlone

LEMMA SignedShows ==
  ASSUME Calm, NEW c \in Calls, Elsewhere(c), Signed(c)
  PROVE  Shows'
<1>0. /\ UNCHANGED <<wallet, ending, queue, listener, account, app, hears, storage, touched, flag>>
      /\ call[c].pc = "signing"
  BY DEF Signed, client, events, connector, followed, remembered, wagmi
<1>1. call'[c].pc = "idle" /\ call'[c].kind \notin Connecting
  BY ReturnFacts DEF Calm, Signed
<1>2. ~Clears(c)' /\ ~Connects(c)' /\ (Cleared => Cleared')
  BY <1>0, <1>1 DEF Clears, Connects, Cleared
<1> QED
  BY <1>0, <1>1, <1>2, CallShows

LEMMA CallStepShows ==
  ASSUME Calm, NEW c \in Calls, CallStep(c), ~raced'
  PROVE  Shows'
<1>1. Elsewhere(c) /\ \A d \in Calls : CallOK(d)'
  BY CallStepCalls DEF Calm
<1>2. ASSUME Connect(c) \/ Reconnect(c) \/ SignMessage(c) \/ Follow(c)
      PROVE  storage'.flag = storage.flag
  <2>1. Ask(c, "read") \/ Ask(c, "set") \/ Ask(c, "remove")
    BY <1>2 DEF Connect, Reconnect, SignMessage, Follow, ReadFlag, SetManuallyDisconnected
  <2> QED
    BY <2>1 DEF Ask, Calm, TypeOK
<1> QED
  BY <1>1, <1>2, BeginShows, BeforeFollowShows, FollowShows, FlagTakenShows, WalletReadShows,
     ConnectedShows, ListensShows, WagmiShowsShows, DisconnectShows, SignedShows DEF CallStep

LEMMA EndsNext ==
  ASSUME EndsOK, [Next]_vars
  PROVE  EndsOK'
<1>1. CASE \E c \in Calls : CallStep(c)
  BY <1>1 DEF CallStep, Connect, FlagCleared, Reconnect, Authorize, Follow, FlagTaken, WalletRead, Connected,
              WagmiListens, WagmiShows, Disconnect, Disconnected, SignMessage, Signed, client, EndsOK
<1>2. CASE EndSession \/ SetWallet \/ EndPublished
  BY <1>2 DEF EndSession, SetWallet, EndPublished, EndsOK
<1>3. CASE Deliver \/ Serve \/ Settled \/ UNCHANGED vars
  BY <1>3 DEF Deliver, Serve, Settled, vars, client, EndsOK
<1> QED
  BY <1>1, <1>2, <1>3 DEF Next

(* Storage that failed stays so.                                            *)
LEMMA FailsForGood ==
  ASSUME IInv, [Next]_vars, storage.failed
  PROVE  storage'.failed
<1>0. TypeOK /\ storage.failed = TRUE
  BY DEF IInv, TypeOK
<1>1. CASE Serve
  BY <1>0, <1>1, ServeFacts
<1>2. ASSUME NEW c, NEW op, Ask(c, op) PROVE storage'.failed
  BY <1>0, <1>2 DEF Ask, TypeOK
<1>3. ASSUME NEW c, NEW next, SetManuallyDisconnected(c, next) PROVE storage'.failed
  BY <1>2, <1>3 DEF SetManuallyDisconnected
<1>4. CASE Deliver
  BY <1>0, <1>3, <1>4 DEF Deliver, FollowChange
<1>5. ASSUME NEW c \in Calls, CallStep(c) PROVE storage'.failed
  <2>1. CASE Connect(c) \/ Disconnect(c)
    BY <1>3, <2>1 DEF Connect, Disconnect
  <2>2. CASE Reconnect(c) \/ Follow(c) \/ SignMessage(c)
    BY <1>2, <2>2 DEF Reconnect, Follow, SignMessage, ReadFlag
  <2> QED
    BY <1>0, <1>5, <2>1, <2>2 DEF CallStep, FlagCleared, Authorize, FlagTaken, WalletRead, Connected,
         WagmiListens, WagmiShows, Disconnected, Signed
<1>6. CASE SetWallet \/ EndSession \/ EndPublished \/ Settled \/ UNCHANGED vars
  BY <1>0, <1>6 DEF SetWallet, EndSession, EndPublished, Settled, Change, vars
<1> QED
  BY <1>1, <1>4, <1>5, <1>6 DEF Next

LEMMA ShowsNext ==
  ASSUME IInv, ShowInv, [Next]_vars
  PROVE  ShowInv'
<1>1. ReadsOK' /\ EndsOK'
  BY ReadsNext, EndsNext DEF ShowInv
<1>2. ASSUME ~raced', ~storage'.failed PROVE Shows'
  <2>1. TypeOK /\ StorageOK /\ ReadsOK /\ EndsOK /\ ~storage.failed /\ \A c \in Calls : CallOK(c)
    BY <1>2, FailsForGood DEF IInv, StorageOK, ShowInv
  <2>2. CASE Settled
    BY <2>1, <2>2, SettledShows
  <2>3. CASE ~Settled
    <3>1. ~raced
      BY <1>2, <2>1, <2>3 DEF Next, CallStep, Connect, FlagCleared, Reconnect, Authorize, Follow, FlagTaken,
           ConnectFails, WalletRead, Connected, WagmiListens, WagmiShows, Disconnect, Disconnected, SignMessage, Signed,
           SetWallet, EndSession, EndPublished, Change, Deliver, Serve, vars, TypeOK
    <3>2. Calm /\ \A c \in Calls : CallOK(c)'
      BY <2>1, <3>1, CallsNext DEF Calm, ShowInv
    <3>3. CASE UNCHANGED vars
      BY <3>2, <3>3, UnchangedShows
    <3> QED
      BY <1>2, <2>1, <2>3, <3>2, <3>3, SetWalletShows, EndSessionShows, EndPublishedShows,
         DeliverShows, ServeShows, CallStepShows DEF Next
  <2> QED
    BY <2>2, <2>3
<1> QED
  BY <1>1, <1>2 DEF ShowInv

LEMMA ShowsInit ==
  ASSUME Init
  PROVE  ShowInv
<1>1. /\ app = NoWallet /\ ending = "no" /\ fresh = {} /\ \A c \in Calls : call[c] = NoCall
      /\ Len(todo) = 0
  <2>1. storage \in [flag : BOOLEAN, todo : {<<>>}, failed : {FALSE}]
    BY DEF Init
  <2>2. storage.todo = <<>>
    BY <2>1
  <2> QED
    BY <2>2 DEF Init, todo
<1>2. \A c \in Calls : /\ ~Clears(c) /\ ~Connects(c) /\ call[c].pc = "idle"
                       /\ call[c].answer = "none"
  <2>1. NoCall.kind \notin Connecting /\ NoCall.pc = "idle" /\ NoCall.answer = "none"
    BY DEF NoCall, Connecting, NoWallet
  <2>2. ASSUME NEW c \in Calls
        PROVE  ~Clears(c) /\ ~Connects(c) /\ call[c].pc = "idle" /\ call[c].answer = "none"
    <3>1. call[c] = NoCall
      BY <1>1
    <3> QED
      BY <2>1, <3>1 DEF Clears, Connects
  <2> QED
    BY <2>2, Zenon
<1>3. ReadsOK
  BY <1>1, <1>2 DEF ReadsOK, ReadsFrom
<1>4. Shows
  BY <1>1, <1>2 DEF Shows, ClearedOK, AlignOK, LinkOK, Linked, HasRead, ShownOK, Shown
<1> QED
  BY <1>1, <1>3, <1>4 DEF ShowInv, EndsOK

(* The invariant behind what wagmi shows holds of every state.              *)
THEOREM ShowsInvariance == Spec => [](IInv /\ ShowInv)
<1>1. IInv /\ ShowInv /\ [Next]_vars => IInv' /\ ShowInv'
  BY TypeNext, ListenNext, StorageNext, CallsNext, ShowsNext DEF IInv, StorageOK
<1> QED
  BY <1>1, InitInv, ShowsInit, PTL DEF Spec

(* wagmi shows the active wallet and hears of its changes, however connects,*)
(* disconnects, reads of the flag and session changes overlap, unless a     *)
(* change has met a call that had read its account, a loss of the wallet, a *)
(* disconnect or a failed call has met a call to connect, or storage has    *)
(* failed (connect, accounts, handleSessionChange, disconnect).             *)
THEOREM AppShowsWalletAlways == Spec => []AppShowsWallet
<1>1. ASSUME IInv, ShowInv PROVE AppShowsWallet
  <2> SUFFICES ASSUME Quiet, app # NoWallet, ~raced, ~storage.failed
               PROVE  app = wallet /\ listener # 0 /\ hears
    BY DEF AppShowsWallet
  <2>1. Shown
    BY DEF Quiet, Shown
  <2> QED
    BY <1>1, <2>1 DEF ShowInv, Shows, AlignOK, Aligned, ShownOK, Quiet
<1> QED
  BY <1>1, ShowsInvariance, PTL


=============================================================================
