-------------------------- MODULE TokenService_proofs --------------------------
(***************************************************************************)
(* Theorems about the requests the clients of TokenActor send, for any     *)
(* number of tokens, users, goroutines, requests, ticks and restarts: none *)
(* is lost, answered twice or overtaken, the storage holds what was        *)
(* granted, and the service keeps the promise of TokenService. Types and   *)
(* what follows from them are in TokenActor_proofs.                        *)
(***************************************************************************)
EXTENDS TokenActor_proofs, FiniteSetTheorems

-----------------------------------------------------------------------------
(* Where a request stands in a mailbox *)

At(q, r) == {k \in DOMAIN q : q[k].req = r}

Once(q, r) == \E k \in DOMAIN q : At(q, r) = {k}

\* A mailbox and its domain.
LEMMA Mailbox ==
  ASSUME NEW q \in Seq(Message)
  PROVE  /\ DOMAIN q = 1..Len(q) /\ Len(q) \in Nat
         /\ \A k \in DOMAIN q : q[k] \in Message
         /\ q # <<>> => /\ Len(q) >= 1 /\ 1 \in DOMAIN q /\ Head(q) = q[1]
                        /\ Tail(q) \in Seq(Message) /\ DOMAIN Tail(q) = 1..(Len(q) - 1)
                        /\ \A k \in 1..(Len(q) - 1) : Tail(q)[k] = q[k + 1]
<1>1. DOMAIN q = 1..Len(q) /\ Len(q) \in Nat /\ \A k \in DOMAIN q : q[k] \in Message
  BY LenProperties, ElementOfSeq
<1>2. ASSUME q # <<>>
      PROVE  /\ Len(q) >= 1 /\ 1 \in DOMAIN q /\ Head(q) = q[1]
             /\ Tail(q) \in Seq(Message) /\ DOMAIN Tail(q) = 1..(Len(q) - 1)
             /\ \A k \in 1..(Len(q) - 1) : Tail(q)[k] = q[k + 1]
  <2>1. Len(q) # 0  BY <1>2, EmptySeq
  <2>2. /\ Head(q) = q[1] /\ Tail(q) \in Seq(Message)
        /\ Len(Tail(q)) = Len(q) - 1
        /\ \A k \in 1..Len(Tail(q)) : Tail(q)[k] = q[k + 1]
    BY <1>2, HeadTailProperties
  <2>3. DOMAIN Tail(q) = 1..(Len(q) - 1)  BY <2>2, LenProperties
  <2> QED  BY <1>1, <2>1, <2>2, <2>3
<1> QED  BY <1>1, <1>2

\* The message handled first leaves, and everybody else moves up.
LEMMA AtTail ==
  ASSUME NEW q \in Seq(Message), q # <<>>, NEW r
  PROVE  /\ At(q, r) = {} => At(Tail(q), r) = {}
         /\ At(q, r) = {1} => At(Tail(q), r) = {}
         /\ \A k \in DOMAIN q \ {1} : At(q, r) = {k} =>
              At(Tail(q), r) = {k - 1} /\ k - 1 \in DOMAIN Tail(q)
<1>1. /\ DOMAIN q = 1..Len(q) /\ Len(q) \in Nat /\ Len(q) >= 1
      /\ DOMAIN Tail(q) = 1..(Len(q) - 1)
      /\ \A k \in 1..(Len(q) - 1) : Tail(q)[k] = q[k + 1]
  BY Mailbox
<1>2. \A k \in DOMAIN Tail(q) : k \in At(Tail(q), r) <=> k + 1 \in At(q, r)
  BY <1>1 DEF At
<1>3. \A k \in At(Tail(q), r) : k \in Nat /\ k >= 1 /\ k + 1 \in At(q, r)
  BY <1>1, <1>2 DEF At
<1>4. At(q, r) = {} => At(Tail(q), r) = {}  BY <1>3
<1>5. At(q, r) = {1} => At(Tail(q), r) = {}  BY <1>3
<1>6. ASSUME NEW k \in DOMAIN q \ {1}, At(q, r) = {k}
      PROVE  At(Tail(q), r) = {k - 1} /\ k - 1 \in DOMAIN Tail(q)
  <2>1. k - 1 \in DOMAIN Tail(q) /\ (k - 1) + 1 = k  BY <1>1
  <2>2. k - 1 \in At(Tail(q), r)  BY <1>2, <1>6, <2>1
  <2>3. \A j \in At(Tail(q), r) : j = k - 1  BY <1>1, <1>3, <1>6
  <2> QED  BY <2>1, <2>2, <2>3
<1> QED  BY <1>4, <1>5, <1>6

\* A message told is the last one.
LEMMA AtAppend ==
  ASSUME NEW q \in Seq(Message), NEW m \in Message, NEW r
  PROVE  /\ Append(q, m) \in Seq(Message)
         /\ DOMAIN Append(q, m) = 1..(Len(q) + 1)
         /\ \A k \in DOMAIN q : Append(q, m)[k] = q[k]
         /\ Append(q, m)[Len(q) + 1] = m
         /\ m.req # r => At(Append(q, m), r) = At(q, r)
         /\ m.req = r => At(Append(q, m), r) = At(q, r) \cup {Len(q) + 1}
<1>1. DOMAIN q = 1..Len(q) /\ Len(q) \in Nat  BY Mailbox
<1>2. /\ Append(q, m) \in Seq(Message)
      /\ Len(Append(q, m)) = Len(q) + 1
      /\ \A k \in 1..Len(q) : Append(q, m)[k] = q[k]
      /\ Append(q, m)[Len(q) + 1] = m
  BY AppendProperties
<1>3. DOMAIN Append(q, m) = 1..(Len(q) + 1)  BY <1>2, LenProperties
<1>4. \A k \in 1..(Len(q) + 1) : k \in 1..Len(q) \/ k = Len(q) + 1  BY <1>1
<1>5. m.req # r => At(Append(q, m), r) = At(q, r)
  BY <1>1, <1>2, <1>3, <1>4 DEF At
<1>6. m.req = r => At(Append(q, m), r) = At(q, r) \cup {Len(q) + 1}
  BY <1>1, <1>2, <1>3, <1>4 DEF At
<1> QED  BY <1>1, <1>2, <1>3, <1>5, <1>6

\* NilToken moves the first message behind the others: every request stays where
\* it is as often as it is there.
LEMMA AtTurned ==
  ASSUME NEW q \in Seq(Message), q # <<>>, NEW r
  PROVE  /\ At(q, r) = {} => At(Append(Tail(q), Head(q)), r) = {}
         /\ Once(q, r) => Once(Append(Tail(q), Head(q)), r)
<1> DEFINE t == Append(Tail(q), Head(q))
<1>1. /\ Head(q) \in Message /\ Head(q) = q[1] /\ 1 \in DOMAIN q
      /\ Tail(q) \in Seq(Message)
      /\ DOMAIN q = 1..Len(q) /\ Len(q) \in Nat /\ Len(q) >= 1
      /\ DOMAIN Tail(q) = 1..(Len(q) - 1)
  BY Mailbox
<1>2. Len(Tail(q)) = Len(q) - 1  BY <1>1, LenProperties
<1>3. /\ DOMAIN t = 1..Len(q)
      /\ Head(q).req # r => At(t, r) = At(Tail(q), r)
      /\ Head(q).req = r => At(t, r) = At(Tail(q), r) \cup {Len(q)}
  <2>1. Len(Tail(q)) + 1 = Len(q)  BY <1>1, <1>2
  <2>2. PICK p \in Seq(Message), m \in Message : p = Tail(q) /\ m = Head(q)
    BY <1>1
  <2>3. DOMAIN Append(p, m) = 1..(Len(p) + 1)  BY AtAppend
  <2>4. m.req # r => At(Append(p, m), r) = At(p, r)  BY AtAppend
  <2>5. m.req = r => At(Append(p, m), r) = At(p, r) \cup {Len(p) + 1}  BY AtAppend
  <2> QED  BY <2>1, <2>2, <2>3, <2>4, <2>5
<1>4. 1 \in At(q, r) <=> Head(q).req = r  BY <1>1 DEF At
<1>5. ASSUME At(q, r) = {} PROVE At(t, r) = {}
  BY <1>3, <1>4, <1>5, AtTail
<1>6. ASSUME Once(q, r) PROVE Once(t, r)
  <2>1. PICK k \in DOMAIN q : At(q, r) = {k}  BY <1>6 DEF Once
  <2>2. CASE k = 1
    <3>1. At(t, r) = {Len(q)} /\ Len(q) \in DOMAIN t
      BY <1>1, <1>3, <1>4, <2>1, <2>2, AtTail
    <3> QED  BY <3>1 DEF Once
  <2>3. CASE k # 1
    <3>1. At(t, r) = {k - 1} /\ k - 1 \in DOMAIN t
      BY <1>1, <1>3, <1>4, <2>1, <2>3, AtTail
    <3> QED  BY <3>1 DEF Once
  <2> QED  BY <2>2, <2>3
<1> QED  BY <1>5, <1>6

-----------------------------------------------------------------------------
(* What a step does to the mailboxes *)

\* A message that answers to a request is of its type, and only those of the
\* worker and of the goroutines answer to none.
Genuine(m) ==
  /\ m.req # 0 => m.req \in DOMAIN requests /\ requests[m.req].type = m.type
  /\ m.type \in {"NT", "DT"} => m.req # 0

MessagesGenuine == \A n \in Names : \A k \in DOMAIN mailbox[n] : Genuine(mailbox[n][k])

\* The first message of n moves behind the others; or it is taken and answered.
Turned(n) ==
  /\ actor[n] = "Nil" /\ mailbox[n] # <<>>
  /\ mailbox' = [mailbox EXCEPT ![n] = Append(Tail(@), Head(@))]
  /\ UNCHANGED requests

Handled(n, code) ==
  /\ mailbox[n] # <<>>
  /\ mailbox' = [mailbox EXCEPT ![n] = Tail(@)]
  /\ Reply(Head(mailbox[n]), code)

\* Somebody who is no client tells n something.
Whispered(n, m) ==
  /\ m.req = 0 /\ m.type \in {"ST", "Done"}
  /\ Tell(n, m)
  /\ UNCHANGED requests

LEMMA HeadTyped ==
  ASSUME IInv, NEW n \in Names, mailbox[n] # <<>>
  PROVE  Head(mailbox[n]) \in Message /\ Head(mailbox[n]) = mailbox[n][1]
         /\ 1 \in DOMAIN mailbox[n]
<1>1. mailbox[n] \in Seq(Message)  BY DEF IInv, TypeOK
<1> QED  BY <1>1, Mailbox

\* A SynchornizationDone answers to no request, so its handler sends no reply.
LEMMA DoneIsHandled ==
  ASSUME IInv, MessagesGenuine, NEW n \in Names, mailbox[n] # <<>>,
         Head(mailbox[n]).type = "Done", UNCHANGED requests,
         NEW state, Become(n, state)
  PROVE  Handled(n, "TS")
<1>1. Head(mailbox[n]) \in Message /\ Head(mailbox[n]) = mailbox[n][1] /\ 1 \in DOMAIN mailbox[n]
  BY HeadTyped
<1>2. Genuine(Head(mailbox[n]))  BY <1>1 DEF MessagesGenuine
<1>3. \A r \in DOMAIN requests : requests[r].type # "Done"
  <2>1. \A r \in DOMAIN requests : requests[r] \in Request
    BY ElementOfSeq, LenProperties DEF IInv, TypeOK
  <2> QED  BY <2>1 DEF Request
<1>4. Head(mailbox[n]).req = 0  BY <1>1, <1>2, <1>3 DEF Genuine
<1> QED  BY <1>4 DEF Handled, Become, Reply

LEMMA ActorMailboxes ==
  ASSUME IInv, MessagesGenuine, NEW n \in Names, ActorStep(n)
  PROVE  \/ UNCHANGED <<mailbox, requests>>
         \/ Turned(n)
         \/ \E code \in Codes : Handled(n, code)
<1> USE DEF Handles, Become, Handled, Codes
<1>1. CASE NilToken(n)  BY <1>1 DEF NilToken, Turned
<1>2. CASE NilMissing(n) \/ NilFound(n)  BY <1>2 DEF NilMissing, NilFound
<1>3. CASE IgnoreDone(n)
  <2>1. Handled(n, "TS")  BY <1>3, DoneIsHandled DEF IgnoreDone
  <2> QED  BY <2>1
<1>4. CASE SynchronizingDone(n)
  <2>1. Handled(n, "TS")  BY <1>4, DoneIsHandled DEF SynchronizingDone
  <2> QED  BY <2>1
<1>5. CASE NonExistCreate(n)
  <2>1. Handled(n, "TN") \/ Handled(n, "EE")  BY <1>5 DEF NonExistCreate
  <2> QED  BY <2>1
<1>6. CASE NonExistRefuse(n)
  <2>1. Handled(n, "EM")  BY <1>6 DEF NonExistRefuse
  <2> QED  BY <2>1
<1>7. CASE RefuseCreate(n)
  <2>1. Handled(n, "EE")  BY <1>7 DEF RefuseCreate
  <2> QED  BY <2>1
<1>8. CASE ExistSynchronize(n)
  <2>1. Handled(n, "TS")  BY <1>8 DEF ExistSynchronize
  <2> QED  BY <2>1
<1>9. CASE DeleteExisting(n)
  <2>1. Handled(n, "TD") \/ Handled(n, "EE")  BY <1>9 DEF DeleteExisting
  <2> QED  BY <2>1
<1>10. CASE SynchronizingSynchronize(n)
  <2>1. Handled(n, "TS")  BY <1>10 DEF SynchronizingSynchronize
  <2> QED  BY <2>1
<1> QED
  BY <1>1, <1>2, <1>3, <1>4, <1>5, <1>6, <1>7, <1>8, <1>9, <1>10 DEF ActorStep

LEMMA SyncMailboxes ==
  ASSUME IInv, NEW s \in Syncs, SyncStep(s)
  PROVE  \/ UNCHANGED <<mailbox, requests>>
         \/ Whispered(sync[s].id, [type |-> "Done", req |-> 0])
  BY DEF SyncStep, SyncLookup, SyncMissing, SyncFound, SyncUpdate, SyncTouch, SyncEnd,
     Whispered

LEMMA WorkerMailboxes ==
  ASSUME IInv, WorkerStep
  PROVE  \/ UNCHANGED <<mailbox, requests>>
         \/ Whispered(Head(worker.uniq), [type |-> "ST", req |-> 0])
            /\ Head(worker.uniq) \in Names
<1>1. CASE WorkerSend
  <2>1. worker.uniq \in Seq(Names) /\ worker.uniq # <<>>
    BY <1>1 DEF WorkerSend, IInv, TypeOK
  <2>2. Head(worker.uniq) \in Names  BY <2>1, HeadTailProperties
  <2> QED  BY <1>1, <2>2 DEF WorkerSend, Post, Whispered
<1>2. CASE ~WorkerSend
  BY <1>2 DEF WorkerStep, WorkerTick, WorkerLookup, WorkerMissing, WorkerFound, WorkerListed
<1> QED  BY <1>1, <1>2

\* Every step does one of five things to mailboxes and requests.
LEMMA StepMailboxes ==
  ASSUME IInv, MessagesGenuine, [Next]_vars
  PROVE  \/ UNCHANGED <<mailbox, requests>>
         \/ \E n \in Names, m \in Message : Whispered(n, m)
         \/ \E i \in Ids, type \in {"NT", "ST", "DT", "??"}, u \in Users \cup {None} :
              (type = "NT" => u \in Users) /\ Receive(i, type, u)
         \/ \E n \in Names : Turned(n)
         \/ \E n \in Names, code \in Codes : Handled(n, code)
         \/ Crash
<1>1. ASSUME NEW i \in Ids, NEW type \in Operations \ {"NT"}, Receive(i, type, None)
      PROVE \E j \in Ids, t \in {"NT", "ST", "DT", "??"}, u \in Users \cup {None} :
              (t = "NT" => u \in Users) /\ Receive(j, t, u)
  BY <1>1, OperationsAssumption
<1>2. ASSUME NEW i \in Ids, NEW u \in Users, Receive(i, "NT", u)
      PROVE \E j \in Ids, t \in {"NT", "ST", "DT", "??"}, v \in Users \cup {None} :
              (t = "NT" => v \in Users) /\ Receive(j, t, v)
  BY <1>2
<1>3. ASSUME NEW s \in Syncs, SyncStep(s)
      PROVE \/ UNCHANGED <<mailbox, requests>>
            \/ \E n \in Names, m \in Message : Whispered(n, m)
  <2>1. sync[s].id \in Names /\ [type |-> "Done", req |-> 0] \in Message
    BY DEF IInv, TypeOK, Message, MessageTypes
  <2> QED  BY <1>3, <2>1, SyncMailboxes
<1>4. ASSUME WorkerStep
      PROVE \/ UNCHANGED <<mailbox, requests>>
            \/ \E n \in Names, m \in Message : Whispered(n, m)
  <2>1. [type |-> "ST", req |-> 0] \in Message  BY DEF Message, MessageTypes
  <2> QED  BY <1>4, <2>1, WorkerMailboxes
<1>5. CASE UNCHANGED vars  BY <1>5 DEF vars
<1> QED  BY <1>1, <1>2, <1>3, <1>4, <1>5, ActorMailboxes DEF Next

-----------------------------------------------------------------------------
(* What a step does to the requests *)

LEMMA RequestsTyped ==
  ASSUME IInv
  PROVE  /\ requests \in Seq(Request) /\ Len(requests) \in Nat
         /\ DOMAIN requests = 1..Len(requests)
         /\ \A r \in DOMAIN requests : requests[r] \in Request /\ r \in Nat /\ r # 0
<1>1. requests \in Seq(Request)  BY DEF IInv, TypeOK
<1>2. Len(requests) \in Nat /\ DOMAIN requests = 1..Len(requests)  BY <1>1, LenProperties
<1>3. \A r \in DOMAIN requests : requests[r] \in Request  BY <1>1, <1>2, ElementOfSeq
<1> QED  BY <1>1, <1>2, <1>3

\* A reply goes to the request the message stems from, and changes nothing else.
LEMMA ReplyDoes ==
  ASSUME IInv, NEW m \in Message, Genuine(m), NEW code \in Codes, Reply(m, code)
  PROVE  /\ DOMAIN requests' = DOMAIN requests
         /\ \A r \in DOMAIN requests :
              /\ requests'[r].id = requests[r].id
              /\ requests'[r].type = requests[r].type
              /\ requests'[r].user = requests[r].user
              /\ requests'[r].reply = IF r = m.req THEN code ELSE requests[r].reply
<1>1. requests \in Seq(Request) /\ DOMAIN requests = 1..Len(requests)
      /\ \A r \in DOMAIN requests : requests[r] \in Request /\ r # 0
  BY RequestsTyped
<1>2. CASE m.req = 0
  <2>1. requests' = requests  BY <1>2 DEF Reply
  <2> QED  BY <1>1, <1>2, <2>1
<1>3. CASE m.req # 0
  <2>1. m.req \in DOMAIN requests  BY <1>3 DEF Genuine
  <2>2. requests' = [requests EXCEPT ![m.req] = [requests[m.req] EXCEPT !.reply = code]]
    BY <1>3 DEF Reply
  <2>3. \A r \in DOMAIN requests : requests[r] \in Request  BY <1>1
  <2> QED  BY <2>1, <2>2, <2>3 DEF Request
<1> QED  BY <1>2, <1>3

\* A request that arrives is the last one.
LEMMA ReceiveDoes ==
  ASSUME IInv, NEW i \in Ids, NEW type \in {"NT", "ST", "DT", "??"},
         NEW u \in Users \cup {None}, Receive(i, type, u)
  PROVE  /\ DOMAIN requests' = DOMAIN requests \cup {Len(requests) + 1}
         /\ Len(requests) + 1 \notin DOMAIN requests
         /\ \A r \in DOMAIN requests : requests'[r] = requests[r]
         /\ requests'[Len(requests) + 1] =
              [id |-> i, type |-> type, user |-> u,
               reply |-> IF type = "??" THEN "EE" ELSE "pending"]
<1> DEFINE e == [id |-> i, type |-> type, user |-> u,
                 reply |-> IF type = "??" THEN "EE" ELSE "pending"]
<1>1. requests \in Seq(Request) /\ Len(requests) \in Nat /\ DOMAIN requests = 1..Len(requests)
  BY RequestsTyped
<1>2. e \in Request  BY DEF Request, Codes
<1>3. requests' = Append(requests, e)  BY DEF Receive
<1>4. /\ requests' \in Seq(Request) /\ Len(requests') = Len(requests) + 1
      /\ \A r \in 1..Len(requests) : requests'[r] = requests[r]
      /\ requests'[Len(requests) + 1] = e
  BY <1>1, <1>2, <1>3, AppendProperties
<1>5. DOMAIN requests' = 1..(Len(requests) + 1)  BY <1>4, LenProperties
<1>6. 1..(Len(requests) + 1) = 1..Len(requests) \cup {Len(requests) + 1}  BY <1>1
<1> QED  BY <1>1, <1>4, <1>5, <1>6

\* A restart loses the requests that wait, and answers none.
LEMMA CrashDoes ==
  ASSUME IInv, Crash
  PROVE  /\ DOMAIN requests' = DOMAIN requests
         /\ \A r \in DOMAIN requests :
              /\ requests'[r].id = requests[r].id
              /\ requests'[r].type = requests[r].type
              /\ requests'[r].user = requests[r].user
              /\ requests'[r].reply = IF requests[r].reply = "pending" THEN "lost"
                                      ELSE requests[r].reply
<1>1. \A r \in DOMAIN requests : requests[r] \in Request  BY RequestsTyped
<1>2. requests' = [r \in DOMAIN requests |->
         IF requests[r].reply = "pending"
         THEN [requests[r] EXCEPT !.reply = "lost"] ELSE requests[r]]
  BY DEF Crash
<1> QED  BY <1>1, <1>2 DEF Request

-----------------------------------------------------------------------------
(* Every request waits in exactly one place *)

Pending(n, r) == requests[r].id = n /\ requests[r].reply = "pending"

Tracked ==
  \A r \in DOMAIN requests, n \in Names :
    /\ Pending(n, r) => Once(mailbox[n], r)
    /\ ~Pending(n, r) => At(mailbox[n], r) = {}

\* An actor finds no messages but those it was told.
LEMMA NoNewMessages ==
  ASSUME IInv, NEW n \in Names, NEW code, Turned(n) \/ Handled(n, code)
  PROVE  \A q \in Names : \A k \in DOMAIN mailbox'[q] : \E j \in DOMAIN mailbox[q] :
           mailbox'[q][k] = mailbox[q][j]
<1>1. mailbox \in [Names -> Seq(Message)]  BY DEF IInv, TypeOK
<1>2. mailbox[n] \in Seq(Message) /\ mailbox[n] # <<>>  BY <1>1 DEF Turned, Handled
<1>3. PICK p \in Seq(Message), m \in Message : p = Tail(mailbox[n]) /\ m = Head(mailbox[n])
  BY <1>2, Mailbox
<1>4. \A k \in DOMAIN p : \E j \in DOMAIN mailbox[n] : p[k] = mailbox[n][j]
  BY <1>2, <1>3, Mailbox
<1>5. CASE Turned(n)
  <2>1. mailbox' = [mailbox EXCEPT ![n] = Append(p, m)]  BY <1>3, <1>5 DEF Turned
  <2>2. /\ DOMAIN Append(p, m) = 1..(Len(p) + 1)
        /\ \A k \in DOMAIN p : Append(p, m)[k] = p[k]
        /\ Append(p, m)[Len(p) + 1] = m
    BY AtAppend
  <2>3. DOMAIN p = 1..Len(p) /\ Len(p) \in Nat  BY Mailbox
  <2>4. \E j \in DOMAIN mailbox[n] : m = mailbox[n][j]  BY <1>2, <1>3, Mailbox
  <2>5. \A k \in DOMAIN Append(p, m) : \E j \in DOMAIN mailbox[n] :
          Append(p, m)[k] = mailbox[n][j]
    BY <1>4, <2>2, <2>3, <2>4
  <2> QED  BY <1>1, <2>1, <2>5
<1>6. CASE Handled(n, code)
  <2>1. mailbox' = [mailbox EXCEPT ![n] = p]  BY <1>3, <1>6 DEF Handled
  <2> QED  BY <1>1, <1>4, <2>1
<1> QED  BY <1>5, <1>6

\* The messages stay genuine: a request keeps its type.
LEMMA StepGenuine ==
  ASSUME IInv, MessagesGenuine, [Next]_vars
  PROVE  MessagesGenuine'
<1> USE DEF MessagesGenuine
<1>1. mailbox \in [Names -> Seq(Message)]  BY DEF IInv, TypeOK
<1>2. ASSUME UNCHANGED <<mailbox, requests>> PROVE MessagesGenuine'
  BY <1>2 DEF Genuine
<1>3. ASSUME NEW n \in Names, NEW m \in Message, Whispered(n, m) PROVE MessagesGenuine'
  <2>1. Tell(n, m) /\ requests' = requests  BY <1>3 DEF Whispered
  <2>2. \A p \in Names : \A k \in DOMAIN mailbox'[p] :
          \/ k \in DOMAIN mailbox[p] /\ mailbox'[p][k] = mailbox[p][k]
          \/ p = n /\ mailbox'[p][k] = m
    BY <2>1, TellTyped
  <2>3. Genuine(m)'  BY <1>3 DEF Genuine, Whispered
  <2> QED  BY <2>1, <2>2, <2>3 DEF Genuine
<1>4. ASSUME NEW i \in Ids, NEW type \in {"NT", "ST", "DT", "??"},
             NEW u \in Users \cup {None}, Receive(i, type, u)
      PROVE MessagesGenuine'
  <2>1. /\ DOMAIN requests' = DOMAIN requests \cup {Len(requests) + 1}
        /\ \A r \in DOMAIN requests : requests'[r] = requests[r]
        /\ requests'[Len(requests) + 1].type = type
    <3>1. /\ DOMAIN requests' = DOMAIN requests \cup {Len(requests) + 1}
          /\ \A r \in DOMAIN requests : requests'[r] = requests[r]
      BY <1>4, ReceiveDoes
    <3>2. requests'[Len(requests) + 1] =
            [id |-> i, type |-> type, user |-> u,
             reply |-> IF type = "??" THEN "EE" ELSE "pending"]
      BY <1>4, ReceiveDoes
    <3>3. requests'[Len(requests) + 1].type = type  BY <3>2
    <3> QED  BY <3>1, <3>3
  <2>2. CASE type = "??"
    <3>1. mailbox' = mailbox  BY <1>4, <2>2 DEF Receive
    <3> QED  BY <3>1, <2>1 DEF Genuine
  <2>3. CASE type # "??"
    <3>1. Len(requests) \in Nat  BY RequestsTyped
    <3>2. [type |-> type, req |-> Len(requests) + 1] \in Message /\ i \in Names
      BY <2>3, <3>1 DEF Message, MessageTypes, Names
    <3>3. PICK m \in Message : m = [type |-> type, req |-> Len(requests) + 1]
      BY <3>2
    <3>4. Tell(i, m)  BY <1>4, <2>3, <3>3 DEF Receive, Post
    <3>5. \A p \in Names : \A k \in DOMAIN mailbox'[p] :
            \/ k \in DOMAIN mailbox[p] /\ mailbox'[p][k] = mailbox[p][k]
            \/ p = i /\ mailbox'[p][k] = m
      BY <3>2, <3>4, TellTyped
    <3>6. Genuine(m)'
      <4>1. m.req = Len(requests) + 1 /\ m.type = type /\ m.req # 0  BY <3>1, <3>3
      <4> QED  BY <2>1, <4>1 DEF Genuine
    <3>7. \A m2 : Genuine(m2) => Genuine(m2)'  BY <2>1 DEF Genuine
    <3> QED  BY <3>5, <3>6, <3>7
  <2> QED  BY <2>2, <2>3
<1>5. ASSUME NEW n \in Names, Turned(n) PROVE MessagesGenuine'
  BY <1>5, NoNewMessages DEF Turned, Genuine
<1>6. ASSUME NEW n \in Names, NEW code \in Codes, Handled(n, code) PROVE MessagesGenuine'
  <2>1. PICK m \in Message : m = Head(mailbox[n]) /\ Genuine(m)
    BY <1>6, HeadTyped DEF Handled
  <2>2. /\ DOMAIN requests' = DOMAIN requests
        /\ \A r \in DOMAIN requests : requests'[r].type = requests[r].type
    BY <1>6, <2>1, ReplyDoes DEF Handled
  <2> QED  BY <1>6, <2>2, NoNewMessages DEF Genuine
<1>7. CASE Crash  BY <1>7 DEF Crash
<1> QED  BY <1>2, <1>3, <1>4, <1>5, <1>6, <1>7, StepMailboxes

LEMMA StepTracked ==
  ASSUME IInv, MessagesGenuine, Tracked, [Next]_vars
  PROVE  Tracked'
<1>1. mailbox \in [Names -> Seq(Message)]  BY DEF IInv, TypeOK
<1>2. \A r \in DOMAIN requests : requests[r] \in Request /\ r \in Nat /\ r # 0
  BY RequestsTyped
<1>3. ASSUME UNCHANGED <<mailbox, requests>> PROVE Tracked'
  BY <1>3 DEF Tracked, Pending
<1>4. ASSUME NEW n \in Names, NEW m \in Message, Whispered(n, m) PROVE Tracked'
  <2>1. /\ mailbox' = [mailbox EXCEPT ![n] = Append(mailbox[n], m)]
        /\ requests' = requests /\ m.req = 0
    BY <1>4 DEF Whispered, Tell
  <2>2. \A r \in DOMAIN requests : At(Append(mailbox[n], m), r) = At(mailbox[n], r)
    BY <1>1, <1>2, <2>1, AtAppend
  <2>3. DOMAIN mailbox[n] \subseteq DOMAIN Append(mailbox[n], m)
    <3>1. DOMAIN Append(mailbox[n], m) = 1..(Len(mailbox[n]) + 1)  BY <1>1, AtAppend
    <3>2. DOMAIN mailbox[n] = 1..Len(mailbox[n]) /\ Len(mailbox[n]) \in Nat
      BY <1>1, Mailbox
    <3> QED  BY <3>1, <3>2
  <2>4. ASSUME NEW r \in DOMAIN requests, NEW p \in Names
        PROVE  /\ At(mailbox'[p], r) = At(mailbox[p], r)
               /\ DOMAIN mailbox[p] \subseteq DOMAIN mailbox'[p]
    BY <1>1, <2>1, <2>2, <2>3
  <2>5. \A r \in DOMAIN requests, p \in Names : Once(mailbox[p], r) => Once(mailbox'[p], r)
    BY <2>4 DEF Once
  <2> QED  BY <2>1, <2>4, <2>5 DEF Tracked, Pending
<1>5. ASSUME NEW i \in Ids, NEW type \in {"NT", "ST", "DT", "??"},
             NEW u \in Users \cup {None}, Receive(i, type, u)
      PROVE Tracked'
  <2>1. PICK l \in Nat : l = Len(requests) + 1
    <3>1. Len(requests) \in Nat  BY RequestsTyped
    <3> QED  BY <3>1
  <2>2. /\ DOMAIN requests' = DOMAIN requests \cup {l} /\ l \notin DOMAIN requests
        /\ \A r \in DOMAIN requests : requests'[r] = requests[r]
    BY <1>5, <2>1, ReceiveDoes
  <2>3. requests'[l].id = i
        /\ requests'[l].reply = IF type = "??" THEN "EE" ELSE "pending"
    <3>1. requests'[l] = [id |-> i, type |-> type, user |-> u,
                          reply |-> IF type = "??" THEN "EE" ELSE "pending"]
      BY <1>5, <2>1, ReceiveDoes
    <3> QED  BY <3>1
  <2>4. \A n \in Names : At(mailbox[n], l) = {}
    <3>1. l # 0
      <4>1. Len(requests) \in Nat  BY RequestsTyped
      <4> QED  BY <4>1, <2>1
    <3> QED  BY <2>2, <3>1 DEF At, MessagesGenuine, Genuine
  <2>5. CASE type = "??"
    <3>1. mailbox' = mailbox  BY <1>5, <2>5 DEF Receive
    <3> QED  BY <2>2, <2>3, <2>4, <2>5, <3>1 DEF Tracked, Pending
  <2>6. CASE type # "??"
    <3>1. [type |-> type, req |-> l] \in Message /\ i \in Names
      BY <2>6 DEF Message, MessageTypes, Names
    <3>2. PICK m \in Message : m = [type |-> type, req |-> l]  BY <3>1
    <3>3. mailbox' = [mailbox EXCEPT ![i] = Append(mailbox[i], m)] /\ m.req = l
      BY <1>5, <2>1, <2>6, <3>2 DEF Receive, Post, Tell
    <3>4. \A r \in DOMAIN requests : At(Append(mailbox[i], m), r) = At(mailbox[i], r)
      BY <1>1, <2>2, <3>1, <3>3, AtAppend
    <3>5. /\ DOMAIN Append(mailbox[i], m) = 1..(Len(mailbox[i]) + 1)
          /\ DOMAIN mailbox[i] = 1..Len(mailbox[i]) /\ Len(mailbox[i]) \in Nat
      <4>1. DOMAIN Append(mailbox[i], m) = 1..(Len(mailbox[i]) + 1)
        BY <1>1, <3>1, AtAppend
      <4> QED  BY <1>1, <3>1, <4>1, Mailbox
    <3>6. /\ At(Append(mailbox[i], m), l) = {Len(mailbox[i]) + 1}
          /\ Len(mailbox[i]) + 1 \in DOMAIN Append(mailbox[i], m)
      <4>1. PICK q \in Seq(Message) : q = mailbox[i]  BY <1>1, <3>1
      <4>2. m.req = l => At(Append(q, m), l) = At(q, l) \cup {Len(q) + 1}
        BY AtAppend
      <4>3. At(q, l) = {}  BY <2>4, <3>1, <4>1
      <4>4. At(Append(q, m), l) = {Len(q) + 1}  BY <3>3, <4>2, <4>3
      <4>5. Len(q) + 1 \in DOMAIN Append(q, m)  BY <3>5, <4>1
      <4> QED  BY <4>1, <4>4, <4>5
    <3>7. ASSUME NEW r \in DOMAIN requests, NEW p \in Names
          PROVE  /\ At(mailbox'[p], r) = At(mailbox[p], r)
                 /\ DOMAIN mailbox[p] \subseteq DOMAIN mailbox'[p]
      BY <1>1, <3>1, <3>3, <3>4, <3>5
    <3>8. \A p \in Names : IF p = i THEN Once(mailbox'[p], l) ELSE At(mailbox'[p], l) = {}
      BY <1>1, <2>4, <3>1, <3>3, <3>6 DEF Once
    <3>9. ASSUME NEW r \in DOMAIN requests, NEW p \in Names
          PROVE  /\ Pending(p, r)' => Once(mailbox'[p], r)
                 /\ ~Pending(p, r)' => At(mailbox'[p], r) = {}
      BY <2>2, <3>7 DEF Tracked, Once, Pending
    <3> QED  BY <2>2, <2>3, <2>6, <3>8, <3>9 DEF Tracked, Pending
  <2> QED  BY <2>5, <2>6
<1>6. ASSUME NEW n \in Names, Turned(n) PROVE Tracked'
  <2>1. /\ mailbox[n] \in Seq(Message) /\ mailbox[n] # <<>>
        /\ mailbox' = [mailbox EXCEPT ![n] = Append(Tail(mailbox[n]), Head(mailbox[n]))]
        /\ requests' = requests
    BY <1>1, <1>6 DEF Turned
  <2>2. ASSUME NEW r \in DOMAIN requests, NEW p \in Names
        PROVE  /\ At(mailbox[p], r) = {} => At(mailbox'[p], r) = {}
               /\ Once(mailbox[p], r) => Once(mailbox'[p], r)
    <3>1. CASE p = n
      <4>1. mailbox'[p] = Append(Tail(mailbox[n]), Head(mailbox[n]))
        BY <1>1, <2>1, <3>1
      <4> QED  BY <2>1, <3>1, <4>1, AtTurned
    <3>2. CASE p # n  BY <2>1, <3>2
    <3> QED  BY <3>1, <3>2
  <2> QED  BY <2>1, <2>2 DEF Tracked, Pending
<1>7. ASSUME NEW n \in Names, NEW code \in Codes, Handled(n, code) PROVE Tracked'
  <2>1. /\ mailbox[n] \in Seq(Message) /\ mailbox[n] # <<>>
        /\ mailbox' = [mailbox EXCEPT ![n] = Tail(mailbox[n])]
    BY <1>1, <1>7 DEF Handled
  <2>2. /\ Head(mailbox[n]) \in Message /\ Head(mailbox[n]) = mailbox[n][1]
        /\ 1 \in DOMAIN mailbox[n]
    BY <2>1, HeadTyped
  <2>3. PICK m \in Message : m = Head(mailbox[n])  BY <2>2
  <2>4. Genuine(m)  BY <2>2, <2>3 DEF MessagesGenuine
  <2>5. /\ DOMAIN requests' = DOMAIN requests
        /\ \A r \in DOMAIN requests :
             /\ requests'[r].id = requests[r].id
             /\ requests'[r].reply = IF r = m.req THEN code ELSE requests[r].reply
    BY <1>7, <2>3, <2>4, ReplyDoes DEF Handled
  <2>6. ASSUME NEW r \in DOMAIN requests, NEW p \in Names
        PROVE  /\ Pending(p, r)' => Once(mailbox'[p], r)
               /\ ~Pending(p, r)' => At(mailbox'[p], r) = {}
    <3>1. CASE r = m.req
      <4>1. 1 \in At(mailbox[n], r)  BY <2>2, <2>3, <3>1 DEF At
      <4>2. Pending(n, r) /\ Once(mailbox[n], r)  BY <4>1 DEF Tracked
      <4>3. At(mailbox[n], r) = {1}  BY <4>1, <4>2 DEF Once
      <4>4. At(mailbox'[p], r) = {}
        <5>1. CASE p = n
          <6>1. mailbox'[p] = Tail(mailbox[n])  BY <1>1, <2>1, <5>1
          <6> QED  BY <2>1, <4>3, <6>1, AtTail
        <5>2. CASE p # n
          <6>1. ~Pending(p, r) /\ mailbox'[p] = mailbox[p]
            BY <1>1, <2>1, <4>2, <5>2 DEF Pending
          <6> QED  BY <6>1 DEF Tracked
        <5> QED  BY <5>1, <5>2
      <4>5. ~Pending(p, r)'  BY <2>5, <3>1 DEF Codes, Pending
      <4> QED  BY <4>4, <4>5
    <3>2. CASE r # m.req
      <4>1. Pending(p, r)' <=> Pending(p, r)  BY <2>5, <3>2 DEF Pending
      <4>2. CASE p # n
        <5>1. mailbox'[p] = mailbox[p]  BY <1>1, <2>1, <4>2
        <5> QED  BY <4>1, <5>1 DEF Tracked
      <4>3. CASE p = n
        <5>1. mailbox'[p] = Tail(mailbox[n])  BY <1>1, <2>1, <4>3
        <5>2. 1 \notin At(mailbox[n], r)  BY <2>2, <2>3, <3>2 DEF At
        <5>3. Once(mailbox[n], r) => Once(Tail(mailbox[n]), r)
          BY <2>1, <5>2, AtTail DEF Once
        <5>4. At(mailbox[n], r) = {} => At(Tail(mailbox[n]), r) = {}
          BY <2>1, AtTail
        <5> QED  BY <4>1, <4>3, <5>1, <5>3, <5>4 DEF Tracked
      <4> QED  BY <4>2, <4>3
    <3> QED  BY <3>1, <3>2
  <2> QED  BY <2>5, <2>6 DEF Tracked
<1>8. CASE Crash
  <2>1. \A n \in Names : \A r : At(mailbox'[n], r) = {}  BY <1>8 DEF Crash, At
  <2>2. /\ DOMAIN requests' = DOMAIN requests
        /\ \A r \in DOMAIN requests :
             requests'[r].reply = IF requests[r].reply = "pending" THEN "lost"
                                  ELSE requests[r].reply
    BY <1>8, CrashDoes
  <2> QED  BY <2>1, <2>2 DEF Tracked, Pending
<1> QED  BY <1>3, <1>4, <1>5, <1>6, <1>7, <1>8, StepMailboxes

\* The invariant of this module: types, messages and where requests wait.
Told == IInv /\ MessagesGenuine /\ Tracked

LEMMA InitTold == Init => Told
<1>1. Init => MessagesGenuine  BY DEF Init, MessagesGenuine
<1>2. Init => Tracked  BY DEF Init, Tracked
<1> QED  BY <1>1, <1>2, InitIInv DEF Told

LEMMA StepTold == Told /\ [Next]_vars => Told'
BY StepIInv, StepGenuine, StepTracked DEF Told

\* A request that waits is in one mailbox once, and one that is answered, or
\* lost by a restart, is in none: NilToken, which tells the actor its first
\* message again, neither loses nor doubles it (token.go, lines 20-36).
THEOREM Spec_RequestsTracked == Spec => []RequestsTracked
<1>1. ASSUME Told PROVE RequestsTracked
  <2>1. ASSUME NEW r \in DOMAIN requests, NEW n \in Names
        PROVE  Cardinality(Waiting(n, r)) =
                 IF n = requests[r].id /\ requests[r].reply = "pending" THEN 1 ELSE 0
    <3>1. Waiting(n, r) = At(mailbox[n], r)  BY DEF Waiting, At
    <3>2. CASE n = requests[r].id /\ requests[r].reply = "pending"
      <4>1. PICK k : At(mailbox[n], r) = {k}  BY <1>1, <3>2 DEF Told, Tracked, Once, Pending
      <4>2. Cardinality({k}) = 1  BY FS_Singleton
      <4> QED  BY <3>1, <3>2, <4>1, <4>2
    <3>3. CASE ~(n = requests[r].id /\ requests[r].reply = "pending")
      <4>1. At(mailbox[n], r) = {}  BY <1>1, <3>3 DEF Told, Tracked, Pending
      <4>2. Cardinality({}) = 0  BY FS_EmptySet
      <4> QED  BY <3>1, <3>3, <4>1, <4>2
    <3> QED  BY <3>2, <3>3
  <2> QED  BY <2>1 DEF RequestsTracked
<1> QED  BY InitTold, StepTold, <1>1, PTL DEF Spec

-----------------------------------------------------------------------------
(* Requests are overtaken only by way of the one that woke the actor *)

\* Requests stand in line in the order of their arrival, but for w.
InOrder(q, w) ==
  \A j, k \in DOMAIN q :
    j < k /\ q[j].req # 0 /\ q[k].req # 0 => q[j].req < q[k].req \/ q[k].req = w

\* An actor that has not turned its mailbox yet has the request that woke it
\* first in line; nobody tells it anything without waking it.
Orderly ==
  /\ \A n \in Names : InOrder(mailbox[n], waker[n])
  /\ \A n \in Names : actor[n] = "absent" => mailbox[n] = <<>>
  /\ \A n \in Names : actor[n] = "Nil" =>
       mailbox[n] # <<>> /\ mailbox[n][1].req = waker[n]
  /\ \A s \in Syncs : sync[s].pc # "idle" => actor[sync[s].id] \notin {"absent", "Nil"}

LEMMA InOrderTail ==
  ASSUME NEW q \in Seq(Message), q # <<>>, NEW w, InOrder(q, w)
  PROVE  InOrder(Tail(q), w)
<1>1. /\ DOMAIN q = 1..Len(q) /\ Len(q) \in Nat /\ Len(q) >= 1
      /\ DOMAIN Tail(q) = 1..(Len(q) - 1)
      /\ \A k \in 1..(Len(q) - 1) : Tail(q)[k] = q[k + 1]
  BY Mailbox
<1>2. \A k \in DOMAIN Tail(q) : k \in Nat /\ k + 1 \in DOMAIN q /\ Tail(q)[k] = q[k + 1]
  BY <1>1
<1>3. ASSUME NEW j \in DOMAIN Tail(q), NEW k \in DOMAIN Tail(q), j < k,
             Tail(q)[j].req # 0, Tail(q)[k].req # 0
      PROVE  Tail(q)[j].req < Tail(q)[k].req \/ Tail(q)[k].req = w
  <2>1. j + 1 < k + 1  BY <1>2, <1>3
  <2> QED  BY <1>2, <1>3, <2>1 DEF InOrder
<1> QED  BY <1>3 DEF InOrder

LEMMA InOrderAppend ==
  ASSUME NEW q \in Seq(Message), NEW m \in Message, NEW w, InOrder(q, w),
         \/ m.req = 0 \/ m.req = w
         \/ \A k \in DOMAIN q : q[k].req < m.req
  PROVE  InOrder(Append(q, m), w)
<1> DEFINE t == Append(q, m)
<1>1. DOMAIN q = 1..Len(q) /\ Len(q) \in Nat  BY Mailbox
<1>2. DOMAIN t = 1..(Len(q) + 1)  BY AtAppend
<1>3. \A k \in DOMAIN q : t[k] = q[k]  BY AtAppend
<1>4. t[Len(q) + 1] = m  BY AtAppend
<1> HIDE DEF t
<1>5. ASSUME NEW j \in DOMAIN t, NEW k \in DOMAIN t, j < k, t[j].req # 0, t[k].req # 0
      PROVE  t[j].req < t[k].req \/ t[k].req = w
  <2>1. j \in DOMAIN q /\ t[j] = q[j]  BY <1>1, <1>2, <1>3, <1>5
  <2>2. CASE k = Len(q) + 1  BY <1>4, <1>5, <2>1, <2>2
  <2>3. CASE k # Len(q) + 1
    <3>1. k \in DOMAIN q /\ t[k] = q[k]  BY <1>1, <1>2, <1>3, <2>3
    <3> QED  BY <1>5, <2>1, <3>1 DEF InOrder
  <2> QED  BY <2>2, <2>3
<1>6. InOrder(t, w)  BY <1>5 DEF InOrder
<1> QED  BY <1>6 DEF t

LEMMA InOrderTurned ==
  ASSUME NEW q \in Seq(Message), q # <<>>, NEW w, InOrder(q, w), q[1].req = w
  PROVE  InOrder(Append(Tail(q), Head(q)), w)
<1>1. Head(q) \in Message /\ Head(q) = q[1] /\ Tail(q) \in Seq(Message)
  BY Mailbox
<1>2. InOrder(Tail(q), w)  BY InOrderTail
<1>3. PICK p \in Seq(Message), m \in Message : p = Tail(q) /\ m = Head(q)
  BY <1>1
<1>4. InOrder(p, w) /\ m.req = w  BY <1>1, <1>2, <1>3
<1>5. InOrder(Append(p, m), w)  BY <1>4, InOrderAppend
<1> QED  BY <1>3, <1>5

\* Somebody tells n something; n is woken by it if nobody woke it before.
LEMMA PostOrderly ==
  ASSUME IInv, Orderly, NEW n \in Names, NEW m \in Message, Post(n, m), sync' = sync,
         m.req = 0 \/ \A k \in DOMAIN mailbox[n] : mailbox[n][k].req < m.req
  PROVE  Orderly'
<1>1. /\ mailbox \in [Names -> Seq(Message)] /\ actor \in [Names -> ActorStates]
      /\ waker \in [Names -> Nat]
      /\ \A s \in Syncs : sync[s].id \in Names
  BY DEF IInv, TypeOK
<1>2. /\ mailbox' = [mailbox EXCEPT ![n] = Append(mailbox[n], m)]
      /\ actor' = [actor EXCEPT ![n] = IF actor[n] = "absent" THEN "Nil" ELSE actor[n]]
      /\ waker' = [waker EXCEPT ![n] = IF actor[n] = "absent" THEN m.req ELSE waker[n]]
  BY DEF Post, Tell
<1>3. PICK q \in Seq(Message) : q = mailbox[n]  BY <1>1
<1>4. DOMAIN Append(q, m) = 1..(Len(q) + 1)  BY AtAppend
<1>5. \A k \in DOMAIN q : Append(q, m)[k] = q[k]  BY AtAppend
<1>6. Append(q, m)[Len(q) + 1] = m  BY AtAppend
<1>7. DOMAIN q = 1..Len(q) /\ Len(q) \in Nat /\ (q # <<>> => 1 \in DOMAIN q)
  BY Mailbox
<1>8. Append(q, m) # <<>>  BY <1>4, <1>7
<1>9. /\ mailbox'[n] = Append(q, m)
      /\ \A p \in Names \ {n} : /\ mailbox'[p] = mailbox[p] /\ actor'[p] = actor[p]
                                /\ waker'[p] = waker[p]
  BY <1>1, <1>2, <1>3
<1>10. CASE actor[n] = "absent"
  <2>1. actor'[n] = "Nil" /\ waker'[n] = m.req  BY <1>1, <1>2, <1>10
  <2>2. Len(q) = 0  BY <1>3, <1>10, EmptySeq DEF Orderly
  <2>3. DOMAIN Append(q, m) = {1} /\ Append(q, m)[1] = m  BY <1>4, <1>6, <2>2
  <2>4. InOrder(Append(q, m), m.req)  BY <2>3 DEF InOrder
  <2>5. \A s \in Syncs : sync[s].pc # "idle" => sync[s].id # n
    BY <1>10 DEF Orderly
  <2>6. ASSUME NEW p \in Names PROVE InOrder(mailbox'[p], waker'[p])
    <3>1. CASE p = n  BY <1>9, <2>1, <2>4, <3>1
    <3>2. CASE p # n
      <4>1. mailbox'[p] = mailbox[p] /\ waker'[p] = waker[p]  BY <1>9, <3>2
      <4>2. InOrder(mailbox[p], waker[p])  BY DEF Orderly
      <4> QED  BY <4>1, <4>2
    <3> QED  BY <3>1, <3>2
  <2>7. \A p \in Names : actor'[p] = "absent" => mailbox'[p] = <<>>
    BY <1>9, <2>1 DEF Orderly
  <2>8. \A p \in Names : actor'[p] = "Nil" =>
          mailbox'[p] # <<>> /\ mailbox'[p][1].req = waker'[p]
    BY <1>8, <1>9, <2>1, <2>3 DEF Orderly
  <2>9. \A s \in Syncs : sync'[s].pc # "idle" => actor'[sync'[s].id] \notin {"absent", "Nil"}
    BY <1>1, <1>9, <2>5 DEF Orderly
  <2> QED  BY <2>6, <2>7, <2>8, <2>9 DEF Orderly
<1>11. CASE actor[n] # "absent"
  <2>1. actor'[n] = actor[n] /\ waker'[n] = waker[n]  BY <1>1, <1>2, <1>11
  <2>2. InOrder(q, waker[n])  BY <1>3 DEF Orderly
  <2>3. InOrder(Append(q, m), waker[n])  BY <1>3, <2>2, InOrderAppend
  <2>4. actor[n] = "Nil" => Append(q, m)[1].req = waker[n]
    BY <1>3, <1>5, <1>7 DEF Orderly
  <2>5. ASSUME NEW p \in Names PROVE InOrder(mailbox'[p], waker'[p])
    <3>1. CASE p = n  BY <1>9, <2>1, <2>3, <3>1
    <3>2. CASE p # n
      <4>1. mailbox'[p] = mailbox[p] /\ waker'[p] = waker[p]  BY <1>9, <3>2
      <4>2. InOrder(mailbox[p], waker[p])  BY DEF Orderly
      <4> QED  BY <4>1, <4>2
    <3> QED  BY <3>1, <3>2
  <2>6. \A p \in Names : actor'[p] = actor[p]  BY <1>9, <2>1
  <2>7. \A p \in Names : actor'[p] = "absent" => mailbox'[p] = <<>>
    BY <1>9, <1>11, <2>6 DEF Orderly
  <2>8. \A p \in Names : actor'[p] = "Nil" =>
          mailbox'[p] # <<>> /\ mailbox'[p][1].req = waker'[p]
    BY <1>8, <1>9, <2>1, <2>4, <2>6 DEF Orderly
  <2>9. \A s \in Syncs : sync'[s].pc # "idle" => actor'[sync'[s].id] \notin {"absent", "Nil"}
    BY <1>1, <2>6 DEF Orderly
  <2> QED  BY <2>5, <2>7, <2>8, <2>9 DEF Orderly
<1> QED  BY <1>10, <1>11

\* Only the mailbox of an actor that is awake changes, and stays in order.
LEMMA AwakeOrderly ==
  ASSUME IInv, Orderly, NEW n \in Names, waker' = waker,
         \A p \in Names \ {n} : mailbox'[p] = mailbox[p] /\ actor'[p] = actor[p],
         actor'[n] \notin {"absent", "Nil"}, InOrder(mailbox'[n], waker[n]),
         \A s \in Syncs : sync'[s].pc # "idle" =>
           sync'[s].id = n \/ (sync[s].pc # "idle" /\ sync'[s].id = sync[s].id)
  PROVE  Orderly'
<1>1. \A s \in Syncs : sync[s].id \in Names  BY DEF IInv, TypeOK
<1>2. \A p \in Names : InOrder(mailbox'[p], waker'[p])  BY DEF Orderly
<1>3. \A p \in Names : actor'[p] = "absent" => mailbox'[p] = <<>>  BY DEF Orderly
<1>4. \A p \in Names : actor'[p] = "Nil" =>
        mailbox'[p] # <<>> /\ mailbox'[p][1].req = waker'[p]
  BY DEF Orderly
<1>5. \A s \in Syncs : sync'[s].pc # "idle" => actor'[sync'[s].id] \notin {"absent", "Nil"}
  BY <1>1 DEF Orderly
<1> QED  BY <1>2, <1>3, <1>4, <1>5 DEF Orderly

\* What an actor does to states and goroutines.
LEMMA ActorTurns ==
  ASSUME IInv, NEW n \in Names, ActorStep(n)
  PROVE  /\ waker' = waker
         /\ \E state \in ActorStates \ {"absent", "Nil"} : actor' = [actor EXCEPT ![n] = state]
         /\ \A s \in Syncs : sync'[s].pc # "idle" =>
              sync'[s].id = n \/ (sync[s].pc # "idle" /\ sync'[s].id = sync[s].id)
<1> USE DEF ActorStates, Become
<1>1. CASE NilToken(n)
  BY <1>1 DEF NilToken
<1>2. CASE NilMissing(n) \/ NilFound(n)
  BY <1>2 DEF NilMissing, NilFound
<1>3. CASE IgnoreDone(n)
  BY <1>3 DEF IgnoreDone
<1>4. CASE NonExistCreate(n)
  BY <1>4 DEF NonExistCreate
<1>5. CASE NonExistRefuse(n)
  BY <1>5 DEF NonExistRefuse
<1>6. CASE RefuseCreate(n)
  BY <1>6 DEF RefuseCreate
<1>7. CASE ExistSynchronize(n)
  <2>1. PICK s \in Syncs :
          sync' = [sync EXCEPT ![s] = [pc |-> "lookup", id |-> n, user |-> None]]
    BY <1>7 DEF ExistSynchronize
  <2>2. \A t \in Syncs : IF t = s THEN sync'[t].id = n ELSE sync'[t] = sync[t]
    BY <2>1 DEF IInv, TypeOK
  <2> QED  BY <1>7, <2>2 DEF ExistSynchronize
<1>8. CASE DeleteExisting(n)
  BY <1>8 DEF DeleteExisting
<1>9. CASE SynchronizingDone(n)
  BY <1>9 DEF SynchronizingDone
<1>10. CASE SynchronizingSynchronize(n)
  BY <1>10 DEF SynchronizingSynchronize
<1> QED
  BY <1>1, <1>2, <1>3, <1>4, <1>5, <1>6, <1>7, <1>8, <1>9, <1>10 DEF ActorStep

LEMMA ActorStepOrderly ==
  ASSUME Told, Orderly, NEW n \in Names, ActorStep(n)
  PROVE  Orderly'
<1> USE DEF Told
<1>1. mailbox \in [Names -> Seq(Message)] /\ actor \in [Names -> ActorStates]
  BY DEF IInv, TypeOK
<1>2. PICK state \in ActorStates \ {"absent", "Nil"} : actor' = [actor EXCEPT ![n] = state]
  BY ActorTurns
<1>3. actor'[n] \notin {"absent", "Nil"} /\ \A p \in Names \ {n} : actor'[p] = actor[p]
  BY <1>1, <1>2
<1>4. PICK q \in Seq(Message) : q = mailbox[n] /\ InOrder(q, waker[n])
  BY <1>1 DEF Orderly
<1>5. /\ \A p \in Names \ {n} : mailbox'[p] = mailbox[p]
      /\ InOrder(mailbox'[n], waker[n])
  <2>1. CASE UNCHANGED mailbox  BY <1>4, <2>1
  <2>2. CASE Turned(n)
    <3>1. q # <<>> /\ q[1].req = waker[n]  BY <1>4, <2>2 DEF Turned, Orderly
    <3>2. InOrder(Append(Tail(q), Head(q)), waker[n])  BY <1>4, <3>1, InOrderTurned
    <3>3. mailbox' = [mailbox EXCEPT ![n] = Append(Tail(q), Head(q))]
      BY <1>4, <2>2 DEF Turned
    <3> QED  BY <1>1, <3>2, <3>3
  <2>3. ASSUME NEW code \in Codes, Handled(n, code)
        PROVE  /\ \A p \in Names \ {n} : mailbox'[p] = mailbox[p]
               /\ InOrder(mailbox'[n], waker[n])
    <3>1. q # <<>> /\ mailbox' = [mailbox EXCEPT ![n] = Tail(q)]
      BY <1>4, <2>3 DEF Handled
    <3>2. InOrder(Tail(q), waker[n])  BY <1>4, <3>1, InOrderTail
    <3> QED  BY <1>1, <3>1, <3>2
  <2> QED  BY <2>1, <2>2, <2>3, ActorMailboxes
<1> QED  BY <1>3, <1>5, ActorTurns, AwakeOrderly

LEMMA StepOrderly ==
  ASSUME Told, Orderly, [Next]_vars
  PROVE  Orderly'
<1> USE DEF Told
<1>0. /\ mailbox \in [Names -> Seq(Message)]
      /\ \A s \in Syncs : sync[s].id \in Names
      /\ sync \in [Syncs -> [pc: SyncPcs, id: Names, user: Users \cup {None}]]
  BY DEF IInv, TypeOK
<1>1. ASSUME NEW i \in Ids, NEW type \in {"NT", "ST", "DT", "??"},
             NEW u \in Users \cup {None}, Receive(i, type, u)
      PROVE Orderly'
  <2>1. CASE type = "??"  BY <1>1, <2>1 DEF Receive, Orderly
  <2>2. CASE type # "??"
    <3>1. /\ Len(requests) \in Nat /\ DOMAIN requests = 1..Len(requests)
      BY RequestsTyped
    <3>2. [type |-> type, req |-> Len(requests) + 1] \in Message /\ i \in Names
      BY <2>2, <3>1 DEF Message, MessageTypes, Names
    <3>3. PICK m \in Message : m = [type |-> type, req |-> Len(requests) + 1]
      BY <3>2
    <3>4. Post(i, m) /\ sync' = sync  BY <1>1, <2>2, <3>3 DEF Receive
    <3>5. \A k \in DOMAIN mailbox[i] : mailbox[i][k].req < m.req
      <4>1. m.req = Len(requests) + 1  BY <3>3
      <4>2. \A k \in DOMAIN mailbox[i] : mailbox[i][k].req = 0
              \/ mailbox[i][k].req \in 1..Len(requests)
        BY <3>1, <3>2 DEF MessagesGenuine, Genuine
      <4> QED  BY <3>1, <4>1, <4>2
    <3> QED  BY <3>2, <3>4, <3>5, PostOrderly
  <2> QED  BY <2>1, <2>2
<1>2. ASSUME NEW n \in Names, ActorStep(n) PROVE Orderly'
  BY <1>2, ActorStepOrderly
<1>3. ASSUME NEW s \in Syncs, SyncStep(s) PROVE Orderly'
  <2>1. CASE SyncEnd(s)
    <3>1. [type |-> "Done", req |-> 0] \in Message  BY DEF Message, MessageTypes
    <3>2. PICK m \in Message : m = [type |-> "Done", req |-> 0]  BY <3>1
    <3>3. PICK n \in Names : n = sync[s].id  BY <1>0
    <3>4. mailbox' = [mailbox EXCEPT ![n] = Append(mailbox[n], m)]
      BY <2>1, <3>2, <3>3 DEF SyncEnd, Tell
    <3>5. InOrder(mailbox[n], waker[n])  BY DEF Orderly
    <3>6. InOrder(Append(mailbox[n], m), waker[n])  BY <1>0, <3>2, <3>5, InOrderAppend
    <3>7. /\ InOrder(mailbox'[n], waker[n])
          /\ \A p \in Names \ {n} : mailbox'[p] = mailbox[p]
      BY <1>0, <3>4, <3>6
    <3>8. waker' = waker /\ actor' = actor /\ sync[s].pc # "idle"
      BY <2>1 DEF SyncEnd
    <3>9. actor'[n] \notin {"absent", "Nil"}  BY <3>3, <3>8 DEF Orderly
    <3>10. \A t \in Syncs : sync'[t].pc # "idle" => sync'[t] = sync[t]
      BY <1>0, <2>1 DEF SyncEnd, NoSync
    <3> QED  BY <3>7, <3>8, <3>9, <3>10, AwakeOrderly
  <2>2. CASE ~SyncEnd(s)
    <3>1. UNCHANGED <<mailbox, actor, waker>>
      BY <1>3, <2>2
      DEF SyncStep, SyncLookup, SyncMissing, SyncFound, SyncUpdate, SyncTouch
    <3>2. \A t \in Syncs : sync'[t].id = sync[t].id
            /\ (sync[t].pc = "idle" => sync'[t].pc = "idle")
      BY <1>0, <1>3, <2>2
      DEF SyncStep, SyncLookup, SyncMissing, SyncFound, SyncUpdate, SyncTouch
    <3> QED  BY <3>1, <3>2 DEF Orderly
  <2> QED  BY <2>1, <2>2
<1>4. CASE WorkerStep
  <2>1. CASE UNCHANGED <<mailbox, actor, waker>>
    <3>1. sync' = sync
      BY <1>4
      DEF WorkerStep, WorkerTick, WorkerLookup, WorkerMissing, WorkerFound,
          WorkerListed, WorkerSend
    <3> QED  BY <2>1, <3>1 DEF Orderly
  <2>2. CASE WorkerSend /\ Post(Head(worker.uniq), [type |-> "ST", req |-> 0])
    <3>1. Head(worker.uniq) \in Names
      <4>1. worker.uniq \in Seq(Names) /\ worker.uniq # <<>>
        BY <2>2 DEF WorkerSend, IInv, TypeOK
      <4> QED  BY <4>1, HeadTailProperties
    <3>2. [type |-> "ST", req |-> 0] \in Message  BY DEF Message, MessageTypes
    <3>3. PICK m \in Message : m = [type |-> "ST", req |-> 0]  BY <3>2
    <3>4. PICK n \in Names : n = Head(worker.uniq)  BY <3>1
    <3>5. Post(n, m) /\ m.req = 0 /\ sync' = sync  BY <2>2, <3>3, <3>4 DEF WorkerSend
    <3> QED  BY <3>5, PostOrderly
  <2> QED
    BY <1>4, <2>1, <2>2
    DEF WorkerStep, WorkerTick, WorkerLookup, WorkerMissing, WorkerFound,
        WorkerListed, WorkerSend
<1>5. CASE Crash
  <2>1. \A n \in Names : mailbox'[n] = <<>> /\ actor'[n] = "absent"  BY <1>5 DEF Crash
  <2>2. \A s \in Syncs : sync'[s].pc = "idle"  BY <1>5 DEF Crash, NoSync
  <2>3. \A w : InOrder(<<>>, w)  BY DEF InOrder
  <2> QED  BY <2>1, <2>2, <2>3 DEF Orderly
<1>6. CASE UNCHANGED vars  BY <1>6 DEF vars, Orderly
<1> QED
  <2>1. ASSUME NEW i \in Ids, NEW type \in Operations \ {"NT"}, Receive(i, type, None)
        PROVE Orderly'
    BY <2>1, <1>1, OperationsAssumption
  <2>2. ASSUME NEW i \in Ids, NEW u \in Users, Receive(i, "NT", u) PROVE Orderly'
    BY <2>2, <1>1
  <2> QED  BY <2>1, <2>2, <1>2, <1>3, <1>4, <1>5, <1>6 DEF Next

\* Whoever is answered stood first in line: of the earlier requests of the token
\* only the one that woke the actor can still be waiting.
LEMMA AnswerIsFirst ==
  ASSUME Told, Orderly, [Next]_vars, NEW r \in DOMAIN requests, Answers(r),
         NEW q \in 1..(r - 1),
         requests[q].id = requests[r].id, requests[q].reply = "pending"
  PROVE  waker[requests[q].id] = q
<1> USE DEF Told
<1>1. /\ DOMAIN requests = 1..Len(requests) /\ Len(requests) \in Nat
      /\ \A k \in DOMAIN requests : requests[k] \in Request
  BY RequestsTyped
<1>2. ASSUME NEW n \in Names, NEW code \in Codes, Handled(n, code)
      PROVE  waker[requests[q].id] = q
  <2>1. /\ mailbox[n] \in Seq(Message) /\ mailbox[n] # <<>>
        /\ Head(mailbox[n]) \in Message /\ Head(mailbox[n]) = mailbox[n][1]
        /\ 1 \in DOMAIN mailbox[n]
    BY <1>2, HeadTyped DEF Handled, IInv, TypeOK
  <2>2. PICK m \in Message : m = Head(mailbox[n])  BY <2>1
  <2>3. Genuine(m)  BY <2>1, <2>2 DEF MessagesGenuine
  <2>4. r = m.req
    <3>1. requests'[r].reply = IF r = m.req THEN code ELSE requests[r].reply
      BY <1>2, <2>2, <2>3, ReplyDoes DEF Handled
    <3> QED  BY <3>1 DEF Answers
  <2>5. mailbox[n][1].req = r  BY <2>1, <2>2, <2>4
  <2>6. Pending(n, r)
    <3>1. 1 \in At(mailbox[n], r)  BY <2>1, <2>5 DEF At
    <3> QED  BY <3>1 DEF Tracked
  <2>7. q \in DOMAIN requests /\ q # 0 /\ q < r /\ r # 0  BY <1>1
  <2>8. Once(mailbox[n], q)  BY <2>6, <2>7 DEF Tracked, Pending
  <2>9. PICK k \in DOMAIN mailbox[n] : mailbox[n][k].req = q
    BY <2>8 DEF Once, At
  <2>10. 1 < k
    <3>1. k # 1  BY <2>5, <2>7, <2>9
    <3>2. DOMAIN mailbox[n] = 1..Len(mailbox[n]) /\ Len(mailbox[n]) \in Nat
      BY <2>1, Mailbox
    <3> QED  BY <3>1, <3>2
  <2>11. InOrder(mailbox[n], waker[n])  BY DEF Orderly
  <2>12. r < q \/ waker[n] = q  BY <2>1, <2>5, <2>7, <2>9, <2>10, <2>11 DEF InOrder
  <2> QED  BY <1>1, <2>6, <2>7, <2>12 DEF Pending
<1>3. CASE UNCHANGED requests  BY <1>3 DEF Answers
<1>4. ASSUME NEW i \in Ids, NEW type \in {"NT", "ST", "DT", "??"},
             NEW u \in Users \cup {None}, Receive(i, type, u)
      PROVE  FALSE
  <2>1. requests'[r] = requests[r]  BY <1>4, ReceiveDoes
  <2> QED  BY <2>1 DEF Answers
<1>5. CASE Crash
  <2>1. requests'[r].reply = IF requests[r].reply = "pending" THEN "lost"
                             ELSE requests[r].reply
    BY <1>5, CrashDoes
  <2> QED  BY <2>1 DEF Answers
<1> QED  BY <1>2, <1>3, <1>4, <1>5, StepMailboxes DEF Whispered, Turned

\* The requests of a token are answered in the order of their arrival, whatever
\* the goroutines and the worker tell the actor meanwhile; the one exception is
\* the request that woke the actor (token.go, line 27).
THEOREM Spec_OvertakenOnlyByWaking == Spec => OvertakenOnlyByWaking
<1>1. Init => Orderly
  <2>1. \A w : InOrder(<<>>, w)  BY DEF InOrder
  <2> QED  BY <2>1 DEF Init, Orderly, NoSync
<1>2. Told /\ Orderly /\ [Next]_vars => Orderly'  BY StepOrderly
<1>3. Told /\ Orderly /\ [Next]_vars =>
        [\A r \in DOMAIN requests : Answers(r) =>
           \A q \in 1..(r - 1) :
             requests[q].id = requests[r].id /\ requests[q].reply = "pending"
               => waker[requests[q].id] = q]_vars
  BY AnswerIsFirst
<1> QED  BY InitTold, StepTold, <1>1, <1>2, <1>3, PTL DEF Spec, OvertakenOnlyByWaking

-----------------------------------------------------------------------------
(* The storage holds what was granted *)

\* What Next says of the requests to create a token: they come with credentials.
CreatesNamed ==
  \A r \in DOMAIN requests : requests[r].type = "NT" => requests[r].user \in Users

LEMMA StepCreatesNamed ==
  ASSUME IInv, MessagesGenuine, CreatesNamed, [Next]_vars
  PROVE  CreatesNamed'
<1>1. CASE UNCHANGED requests  BY <1>1 DEF CreatesNamed
<1>2. ASSUME NEW i \in Ids, NEW type \in {"NT", "ST", "DT", "??"},
             NEW u \in Users \cup {None}, type = "NT" => u \in Users, Receive(i, type, u)
      PROVE  CreatesNamed'
  <2>1. PICK l : l = Len(requests) + 1  OBVIOUS
  <2>2. /\ DOMAIN requests' = DOMAIN requests \cup {l}
        /\ \A r \in DOMAIN requests : requests'[r] = requests[r]
    BY <1>2, <2>1, ReceiveDoes
  <2>3. requests'[l] = [id |-> i, type |-> type, user |-> u,
                        reply |-> IF type = "??" THEN "EE" ELSE "pending"]
    BY <1>2, <2>1, ReceiveDoes
  <2>4. requests'[l].type = "NT" => requests'[l].user \in Users  BY <1>2, <2>3
  <2> QED  BY <2>2, <2>4 DEF CreatesNamed
<1>3. ASSUME NEW n \in Names, NEW code \in Codes, Handled(n, code) PROVE CreatesNamed'
  <2>1. PICK m \in Message : m = Head(mailbox[n]) /\ Genuine(m)
    BY <1>3, HeadTyped DEF Handled, MessagesGenuine
  <2>2. /\ DOMAIN requests' = DOMAIN requests
        /\ \A r \in DOMAIN requests : requests'[r].type = requests[r].type
                                      /\ requests'[r].user = requests[r].user
    BY <1>3, <2>1, ReplyDoes DEF Handled
  <2> QED  BY <2>2 DEF CreatesNamed
<1>4. CASE Crash  BY <1>4, CrashDoes DEF CreatesNamed
<1> QED  BY <1>1, <1>2, <1>3, <1>4, StepMailboxes DEF Whispered, Turned

\* The actor of a token and the storage do not contradict each other.
ActorsAgree ==
  \A n \in Names :
    /\ actor[n] \in {"NilMissing", "NonExist"} => n \in Ids /\ value[n] = None
    /\ actor[n] \in {"NilFound", "Exist", "Synchronizing"} => Stored(n)

\* Goroutines and worker know only tokens that are stored, and the goroutines
\* the credentials that are stored for them.
SyncsAgree ==
  \A s \in Syncs : sync[s].pc # "idle" =>
    /\ Stored(sync[s].id) /\ sync[s].pc \in {"lookup", "found", "working"}
    /\ sync[s].pc = "working" => sync[s].user = value[sync[s].id]

WorkerAgrees ==
  /\ worker.pc # "missing" /\ (worker.pc = "found" => Stored(worker.at))
  /\ \A i \in worker.todo : Stored(i)
  /\ worker.uniq \in Seq(Ids)

NoDelete == \A r \in DOMAIN requests : requests[r].type # "DT"

\* Why nothing but a create changes the storage as long as nobody deletes: a
\* directory is there only with the token in it, so that no lookup fails and
\* HydrateToken removes none.
Kept ==
  /\ value = granted
  /\ \A i \in dir : Stored(i)
  /\ ActorsAgree /\ actor[NoName] = "absent"
  /\ SyncsAgree
  /\ WorkerAgrees

\* Somebody tells a token something.
LEMMA PostKept ==
  ASSUME IInv, Kept, NEW i \in Ids, NEW m, Post(i, m),
         UNCHANGED <<value, dir, sync, granted>>, WorkerAgrees'
  PROVE  Kept'
<1>1. /\ actor \in [Names -> ActorStates]
      /\ actor' = [actor EXCEPT ![i] = IF actor[i] = "absent" THEN "Nil" ELSE actor[i]]
      /\ i \in Names /\ i # NoName
  BY NamesAssumption DEF IInv, TypeOK, Post, Names
<1>2. ActorsAgree'  BY <1>1 DEF Kept, ActorsAgree, Stored
<1>3. actor'[NoName] = "absent"  BY <1>1 DEF Kept, Names
<1>4. SyncsAgree'  BY DEF Kept, SyncsAgree, Stored
<1> QED  BY <1>2, <1>3, <1>4 DEF Kept, Stored

\* The actor of a token takes a state that agrees with the storage.
LEMMA TurnKept ==
  ASSUME IInv, Kept, NEW i \in Ids, NEW state, actor' = [actor EXCEPT ![i] = state],
         UNCHANGED <<value, dir, granted, worker>>,
         state \in {"NilMissing", "NonExist"} => value[i] = None,
         state \in {"NilFound", "Exist", "Synchronizing"} => value[i] # None,
         \A s \in Syncs : \/ sync'[s] = sync[s]
                          \/ sync'[s] = [pc |-> "lookup", id |-> i, user |-> None]
                             /\ value[i] # None
  PROVE  Kept'
<1>1. actor \in [Names -> ActorStates] /\ i \in Names /\ i # NoName
  BY NamesAssumption DEF IInv, TypeOK, Names
<1>2. ActorsAgree'  BY <1>1 DEF Kept, ActorsAgree, Stored
<1>3. actor'[NoName] = "absent"  BY <1>1 DEF Kept, Names
<1>4. SyncsAgree'  BY DEF Kept, SyncsAgree, Stored
<1>5. WorkerAgrees'  BY DEF Kept, WorkerAgrees, Stored
<1> QED  BY <1>2, <1>3, <1>4, <1>5 DEF Kept, Stored

LEMMA ActorStepKept ==
  ASSUME ~StorageFaults, Told, CreatesNamed, NoDelete, Kept, NEW n \in Names, ActorStep(n)
  PROVE  Kept'
<1> USE DEF Told
<1>0. n \in Ids
  <2>1. actor[n] # "absent"
    BY DEF ActorStep, NilToken, NilMissing, NilFound, IgnoreDone, NonExistCreate,
       NonExistRefuse, RefuseCreate, ExistSynchronize, DeleteExisting,
       SynchronizingDone, SynchronizingSynchronize, Handles
  <2> QED  BY <2>1 DEF Kept, Names
<1>1. /\ actor[n] \in {"NilMissing", "NonExist"} => value[n] = None
      /\ actor[n] \in {"NilFound", "Exist", "Synchronizing"} => value[n] # None
      /\ Stored(n) <=> value[n] # None
  BY <1>0 DEF Kept, ActorsAgree, Stored
<1>2. mailbox[n] # <<>> => Head(mailbox[n]) \in Message /\ Genuine(Head(mailbox[n]))
  BY HeadTyped DEF MessagesGenuine
<1>3. CASE NilToken(n)
  <2>1. \E state \in {"NilFound", "NilMissing"} :
          actor' = [actor EXCEPT ![n] = state] /\ (state = "NilFound" <=> value[n] # None)
    BY <1>1, <1>3 DEF NilToken, Lookup
  <2> QED  BY <1>0, <1>3, <2>1, TurnKept DEF NilToken, storage
<1>4. CASE NilMissing(n)
  <2>1. value' = [i \in Ids |-> IF i \in Below(n) THEN None ELSE value[i]]
        /\ dir' = dir \ Below(n) /\ Below(n) = {n}
    BY <1>0, <1>4, NamesAssumption DEF NilMissing, CleanUp, Below
  <2>2. value[n] = None /\ n \notin dir  BY <1>1, <1>4 DEF NilMissing, Kept
  <2>3. value' = value /\ dir' = dir
    <3>1. value \in [Ids -> Users \cup {None}]  BY DEF IInv, TypeOK
    <3> QED  BY <2>1, <2>2, <3>1
  <2> QED  BY <1>0, <1>4, <2>2, <2>3, TurnKept DEF NilMissing
<1>5. CASE NilFound(n)
  <2>1. actor' = [actor EXCEPT ![n] = "Exist"] /\ value[n] # None
    BY <1>1, <1>5 DEF NilFound, ReadOutcomes
  <2> QED  BY <1>0, <1>5, <2>1, TurnKept DEF NilFound, storage
<1>6. CASE IgnoreDone(n)
  <2>1. PICK state \in {"NonExist", "Exist"} : Handles(n, state, "Done") /\ Become(n, state)
    BY <1>6 DEF IgnoreDone
  <2>2. UNCHANGED <<value, dir, sync, worker, granted>>  BY <1>6 DEF IgnoreDone, storage
  <2> QED  BY <1>0, <1>1, <2>1, <2>2, TurnKept DEF Handles, Become
<1>7. CASE NonExistCreate(n)
  <2>1. PICK u : u = requests[Head(mailbox[n]).req].user  OBVIOUS
  <2>2. actor[n] = "NonExist" /\ mailbox[n] # <<>> /\ Head(mailbox[n]).type = "NT"
    BY <1>7 DEF NonExistCreate, Handles
  <2>3. u \in Users
    <3>1. /\ Head(mailbox[n]).req \in DOMAIN requests
          /\ requests[Head(mailbox[n]).req].type = "NT"
      BY <1>2, <2>2 DEF Genuine
    <3> QED  BY <2>1, <3>1 DEF CreatesNamed
  <2>4. /\ value' = [value EXCEPT ![n] = u] /\ dir' = dir \cup {n}
        /\ actor' = [actor EXCEPT ![n] = "Exist"]
        /\ granted' = [granted EXCEPT ![n] = u]
        /\ UNCHANGED <<sync, worker>>
    BY <1>1, <1>7, <2>1, <2>2 DEF NonExistCreate, PersistToken, Become
  <2>5. /\ value \in [Ids -> Users \cup {None}] /\ actor \in [Names -> ActorStates]
        /\ n # NoName /\ value[n] = None /\ u # None
    BY <1>0, <1>1, <2>2, <2>3, NamesAssumption, UsersAssumption DEF IInv, TypeOK
  <2>6. /\ Stored(n)'
        /\ \A i \in Ids : Stored(i) => Stored(i)' /\ value'[i] = value[i]
    BY <1>0, <2>4, <2>5 DEF Stored
  <2>7. ActorsAgree'
    <3>1. \A p \in Names \ {n} : actor'[p] = actor[p] /\ (p \in Ids => value'[p] = value[p])
      BY <2>4, <2>5
    <3>2. actor'[n] = "Exist"  BY <2>4, <2>5
    <3> QED  BY <1>0, <2>6, <3>1, <3>2 DEF Kept, ActorsAgree, Stored
  <2>8. actor'[NoName] = "absent"  BY <2>4, <2>5 DEF Kept, Names
  <2>9. SyncsAgree'  BY <2>4, <2>6 DEF Kept, SyncsAgree, Stored
  <2>10. WorkerAgrees'
    <3>1. \A i \in Names : Stored(i) => Stored(i)'  BY <2>6 DEF Stored
    <3> QED  BY <2>4, <3>1 DEF Kept, WorkerAgrees, Stored
  <2>11. value' = granted'  BY <2>4 DEF Kept
  <2>12. \A i \in dir' : Stored(i)'  BY <2>4, <2>6 DEF Kept, Stored
  <2> QED  BY <2>7, <2>8, <2>9, <2>10, <2>11, <2>12 DEF Kept
<1>8. CASE NonExistRefuse(n)
  <2>1. actor[n] = "NonExist" /\ Become(n, "NonExist")
    BY <1>8 DEF NonExistRefuse, Handles
  <2>2. UNCHANGED <<value, dir, sync, worker, granted>>  BY <1>8 DEF NonExistRefuse, storage
  <2> QED  BY <1>0, <1>1, <2>1, <2>2, TurnKept DEF Become
<1>9. CASE RefuseCreate(n)
  <2>1. PICK state \in {"Exist", "Synchronizing"} : actor[n] = state /\ Become(n, state)
    BY <1>9 DEF RefuseCreate, Handles
  <2>2. UNCHANGED <<value, dir, sync, worker, granted>>  BY <1>9 DEF RefuseCreate, storage
  <2> QED  BY <1>0, <1>1, <2>1, <2>2, TurnKept DEF Become
<1>10. CASE ExistSynchronize(n)
  <2>1. actor[n] = "Exist" /\ Become(n, "Synchronizing")
    BY <1>10 DEF ExistSynchronize, Handles
  <2>2. UNCHANGED <<value, dir, worker, granted>>  BY <1>10 DEF ExistSynchronize, storage
  <2>3. PICK s \in Syncs :
          sync' = [sync EXCEPT ![s] = [pc |-> "lookup", id |-> n, user |-> None]]
    BY <1>10 DEF ExistSynchronize
  <2>4. \A t \in Syncs : sync'[t] = sync[t]
                         \/ sync'[t] = [pc |-> "lookup", id |-> n, user |-> None]
    BY <2>3 DEF IInv, TypeOK
  <2> QED  BY <1>0, <1>1, <2>1, <2>2, <2>4, TurnKept DEF Become
<1>11. CASE DeleteExisting(n)
  <2>1. mailbox[n] # <<>> /\ Head(mailbox[n]).type = "DT"
    BY <1>11 DEF DeleteExisting, Handles
  <2> QED  BY <1>2, <2>1 DEF Genuine, NoDelete
<1>12. CASE SynchronizingDone(n)
  <2>1. actor[n] = "Synchronizing" /\ Become(n, "Exist")
    BY <1>12 DEF SynchronizingDone, Handles
  <2>2. UNCHANGED <<value, dir, sync, worker, granted>>
    BY <1>12 DEF SynchronizingDone, storage
  <2> QED  BY <1>0, <1>1, <2>1, <2>2, TurnKept DEF Become
<1>13. CASE SynchronizingSynchronize(n)
  <2>1. actor[n] = "Synchronizing" /\ Become(n, "Synchronizing")
    BY <1>13 DEF SynchronizingSynchronize, Handles
  <2>2. UNCHANGED <<value, dir, sync, worker, granted>>
    BY <1>13 DEF SynchronizingSynchronize, storage
  <2> QED  BY <1>0, <1>1, <2>1, <2>2, TurnKept DEF Become
<1> QED
  BY <1>3, <1>4, <1>5, <1>6, <1>7, <1>8, <1>9, <1>10, <1>11, <1>12, <1>13 DEF ActorStep

LEMMA SyncStepKept ==
  ASSUME ~StorageFaults, IInv, Kept, NEW s \in Syncs, SyncStep(s)
  PROVE  Kept'
<1>0. /\ value \in [Ids -> Users \cup {None}]
      /\ sync \in [Syncs -> [pc: SyncPcs, id: Names, user: Users \cup {None}]]
  BY DEF IInv, TypeOK
<1>1. /\ sync[s].pc # "idle" => Stored(sync[s].id)
      /\ sync[s].pc \in {"idle", "lookup", "found", "working"}
  BY DEF Kept, SyncsAgree
<1>2. ASSUME UNCHANGED <<value, actor, worker, granted>>,
             dir' = dir \/ (dir' = dir \cup {sync[s].id} /\ Stored(sync[s].id)),
             \A t \in Syncs \ {s} : sync'[t] = sync[t],
             \/ sync'[s].pc = "idle"
             \/ /\ sync'[s].id = sync[s].id /\ Stored(sync[s].id)
                /\ sync'[s].pc \in {"lookup", "found", "working"}
                /\ sync'[s].pc = "working" => sync'[s].user = value[sync[s].id]
      PROVE  Kept'
  <2>1. \A i : Stored(i)' <=> Stored(i)  BY <1>2 DEF Stored
  <2>2. SyncsAgree'
    <3>1. ASSUME NEW t \in Syncs, sync'[t].pc # "idle"
          PROVE  /\ sync'[t].id \in Ids /\ value'[sync'[t].id] # None
                 /\ sync'[t].pc \in {"lookup", "found", "working"}
                 /\ sync'[t].pc = "working" => sync'[t].user = value'[sync'[t].id]
      <4>1. CASE t = s
        <5>1. sync'[t].id = sync[s].id /\ Stored(sync[s].id)  BY <1>2, <3>1, <4>1
        <5> QED  BY <1>2, <3>1, <4>1, <5>1 DEF Stored
      <4>2. CASE t # s  BY <1>2, <3>1, <4>2 DEF Kept, SyncsAgree, Stored
      <4> QED  BY <4>1, <4>2
    <3> QED  BY <3>1 DEF SyncsAgree, Stored
  <2>3. ActorsAgree'  BY <1>2 DEF Kept, ActorsAgree, Stored
  <2>4. WorkerAgrees'  BY <1>2 DEF Kept, WorkerAgrees, Stored
  <2>5. \A i \in dir' : Stored(i)'  BY <1>2, <2>1 DEF Kept
  <2> QED  BY <1>2, <2>2, <2>3, <2>4, <2>5 DEF Kept
<1>3. CASE SyncLookup(s)
  <2>1. sync' = [sync EXCEPT ![s].pc = "found"]
    BY <1>1, <1>3 DEF SyncLookup, Lookup
  <2> QED  BY <1>0, <1>1, <1>2, <1>3, <2>1 DEF SyncLookup, storage
<1>4. CASE SyncMissing(s)  BY <1>1, <1>4 DEF SyncMissing
<1>5. CASE SyncFound(s)
  <2>1. sync' = [sync EXCEPT ![s].pc = "working", ![s].user = value[sync[s].id]]
    BY <1>1, <1>5 DEF SyncFound, ReadOutcomes
  <2> QED  BY <1>0, <1>1, <1>2, <1>5, <2>1 DEF SyncFound, storage
<1>6. CASE SyncUpdate(s)
  <2>1. sync[s].pc = "working" /\ sync[s].user = value[sync[s].id] /\ sync[s].id \in Ids
    BY <1>6 DEF SyncUpdate, Kept, SyncsAgree, Stored
  <2>2. value' = value  BY <1>0, <1>6, <2>1 DEF SyncUpdate, UpdateToken
  <2> QED  BY <1>0, <1>1, <1>2, <1>6, <2>1, <2>2 DEF SyncUpdate, UpdateToken
<1>7. CASE SyncTouch(s)
  BY <1>0, <1>1, <1>2, <1>7 DEF SyncTouch, Kept, SyncsAgree
<1>8. CASE SyncEnd(s)
  <2>1. sync' = [sync EXCEPT ![s] = NoSync]  BY <1>8 DEF SyncEnd
  <2> QED  BY <1>0, <1>2, <1>8, <2>1 DEF SyncEnd, storage, NoSync
<1> QED  BY <1>3, <1>4, <1>5, <1>6, <1>7, <1>8 DEF SyncStep

LEMMA WorkerStepKept ==
  ASSUME ~StorageFaults, IInv, Kept, WorkerStep
  PROVE  Kept'
<1>0. /\ worker \in [pc: WorkerPcs, todo: SUBSET Ids, at: Names,
                     seen: SUBSET (Users \cup {None}), uniq: Seq(Names)]
      /\ worker.uniq \in Seq(Ids) /\ dir \subseteq Ids
  BY DEF IInv, TypeOK, Kept, WorkerAgrees
<1>1. ASSUME UNCHANGED <<value, dir, actor, sync, granted>>, WorkerAgrees' PROVE Kept'
  BY <1>1 DEF Kept, ActorsAgree, SyncsAgree, Stored
<1>2. CASE WorkerTick
  <2>1. WorkerAgrees'
    BY <1>0, <1>2, EmptySeq DEF WorkerTick, IdleWorker, Kept, WorkerAgrees, Stored, storage
  <2> QED  BY <1>1, <1>2, <2>1 DEF WorkerTick, storage
<1>3. CASE WorkerLookup
  <2>1. PICK n \in worker.todo : \E found \in Lookup(n) :
          worker' = [worker EXCEPT !.pc = found, !.at = n, !.todo = worker.todo \ {n}]
    BY <1>3 DEF WorkerLookup
  <2>2. Stored(n) /\ worker' = [worker EXCEPT !.pc = "found", !.at = n,
                                              !.todo = worker.todo \ {n}]
    BY <2>1 DEF Kept, WorkerAgrees, Lookup
  <2>3. WorkerAgrees'
    BY <1>0, <1>3, <2>2 DEF WorkerLookup, Kept, WorkerAgrees, Stored, storage
  <2> QED  BY <1>1, <1>3, <2>3 DEF WorkerLookup, storage
<1>4. CASE WorkerMissing  BY <1>4 DEF WorkerMissing, Kept, WorkerAgrees
<1>5. CASE WorkerFound
  <2>1. worker.at \in Ids /\ Collect(worker.at, value[worker.at])
    BY <1>5 DEF WorkerFound, ReadOutcomes, Kept, WorkerAgrees, Stored
  <2>2. Append(worker.uniq, worker.at) \in Seq(Ids)  BY <1>0, <2>1, AppendProperties
  <2>3. /\ worker'.pc = "list" /\ worker'.todo = worker.todo
        /\ worker'.uniq \in Seq(Ids)
    BY <1>0, <2>1, <2>2 DEF Collect
  <2>4. WorkerAgrees'  BY <1>5, <2>3 DEF WorkerFound, Kept, WorkerAgrees, Stored, storage
  <2> QED  BY <1>1, <1>5, <2>4 DEF WorkerFound, storage
<1>6. CASE WorkerListed
  <2>1. WorkerAgrees'  BY <1>0, <1>6 DEF WorkerListed, Kept, WorkerAgrees, Stored, storage
  <2> QED  BY <1>1, <1>6, <2>1 DEF WorkerListed, storage
<1>7. CASE WorkerSend
  <2>1. Head(worker.uniq) \in Ids /\ Tail(worker.uniq) \in Seq(Ids)
    BY <1>0, <1>7, HeadTailProperties DEF WorkerSend
  <2>2. WorkerAgrees'  BY <1>0, <1>7, <2>1 DEF WorkerSend, Kept, WorkerAgrees, Stored, storage
  <2> QED  BY <1>1, <1>7, <2>1, <2>2, PostKept DEF WorkerSend, storage
<1> QED  BY <1>2, <1>3, <1>4, <1>5, <1>6, <1>7 DEF WorkerStep

LEMMA StepKept ==
  ASSUME ~StorageFaults, Told, CreatesNamed, NoDelete, Kept, [Next]_vars
  PROVE  Kept'
<1> USE DEF Told
<1>1. ASSUME NEW i \in Ids, NEW type, NEW u, Receive(i, type, u) PROVE Kept'
  <2>1. UNCHANGED <<value, dir, sync, granted>> /\ worker' = worker
    BY <1>1 DEF Receive, storage
  <2>2. WorkerAgrees'  BY <2>1 DEF Kept, WorkerAgrees, Stored
  <2>3. CASE type = "??"
    BY <1>1, <2>1, <2>2, <2>3 DEF Receive, Kept, ActorsAgree, SyncsAgree, Stored
  <2>4. CASE type # "??"  BY <1>1, <2>1, <2>2, <2>4, PostKept DEF Receive
  <2> QED  BY <2>3, <2>4
<1>2. CASE Crash
  <2>1. UNCHANGED <<value, dir, granted>>  BY <1>2 DEF Crash, storage
  <2>2. /\ \A n \in Names : actor'[n] = "absent" /\ NoName \in Names
        /\ \A s \in Syncs : sync'[s].pc = "idle"
    BY <1>2 DEF Crash, NoSync, Names
  <2>3. WorkerAgrees'  BY <1>2, EmptySeq DEF Crash, WorkerAgrees, IdleWorker
  <2>4. actor'[NoName] = "absent"  BY <2>2 DEF Names
  <2> QED  BY <2>1, <2>2, <2>3, <2>4 DEF Kept, ActorsAgree, SyncsAgree, Stored
<1>3. CASE UNCHANGED vars
  BY <1>3 DEF vars, Kept, ActorsAgree, SyncsAgree, WorkerAgrees, Stored
<1> QED  BY <1>1, <1>2, <1>3, ActorStepKept, SyncStepKept, WorkerStepKept DEF Next

\* The requests of the past do not change their types.
LEMMA NoDeleteBefore ==
  ASSUME Told, [Next]_vars, NoDelete'
  PROVE  NoDelete
<1> USE DEF Told
<1>1. CASE UNCHANGED requests  BY <1>1 DEF NoDelete
<1>2. ASSUME NEW i \in Ids, NEW type \in {"NT", "ST", "DT", "??"},
             NEW u \in Users \cup {None}, Receive(i, type, u)
      PROVE  NoDelete
  <2>1. /\ DOMAIN requests \subseteq DOMAIN requests'
        /\ \A r \in DOMAIN requests : requests'[r] = requests[r]
    BY <1>2, ReceiveDoes
  <2> QED  BY <2>1 DEF NoDelete
<1>3. ASSUME NEW n \in Names, NEW code \in Codes, Handled(n, code) PROVE NoDelete
  <2>1. PICK m \in Message : m = Head(mailbox[n]) /\ Genuine(m)
    BY <1>3, HeadTyped DEF Handled, MessagesGenuine
  <2>2. /\ DOMAIN requests' = DOMAIN requests
        /\ \A r \in DOMAIN requests : requests'[r].type = requests[r].type
    BY <1>3, <2>1, ReplyDoes DEF Handled
  <2> QED  BY <2>2 DEF NoDelete
<1>4. CASE Crash  BY <1>4, CrashDoes DEF NoDelete
<1> QED  BY <1>1, <1>2, <1>3, <1>4, StepMailboxes DEF Whispered, Turned

\* In a storage that does not fail, tokens nobody deletes stay what they were
\* created as, whatever goroutines, ticks and restarts come in between, and
\* whether WriteFile creates files or not (persistence/token.go, lines 60-131).
THEOREM Spec_StoredIsGranted ==
  ASSUME ~StorageFaults
  PROVE  Spec => []StoredIsGranted
<1> DEFINE Inv == Told /\ CreatesNamed /\ (NoDelete => Kept)
<1>1. Init => Inv
  <2>1. Init => CreatesNamed  BY DEF Init, CreatesNamed
  <2>2. Init => Kept
    BY EmptySeq DEF Init, Kept, ActorsAgree, SyncsAgree, WorkerAgrees, NoSync, IdleWorker, Names
  <2> QED  BY <2>1, <2>2, InitTold
<1>2. Inv /\ [Next]_vars => Inv'
  <2> SUFFICES ASSUME Inv, [Next]_vars PROVE Inv'  OBVIOUS
  <2>1. Told'  BY StepTold
  <2>2. CreatesNamed'  BY StepCreatesNamed DEF Told
  <2>3. ASSUME NoDelete' PROVE Kept'  BY <2>3, NoDeleteBefore, StepKept
  <2> QED  BY <2>1, <2>2, <2>3
<1>3. Inv => StoredIsGranted  BY DEF StoredIsGranted, NoDelete, Kept
<1> HIDE DEF Inv
<1> QED  BY <1>1, <1>2, <1>3, PTL DEF Spec

-----------------------------------------------------------------------------
(* The service keeps the promise of TokenService *)

\* The message first in line that stems from a request: the request waits for n.
LEMMA HeadPending ==
  ASSUME Told, NEW n \in Names, mailbox[n] # <<>>, Head(mailbox[n]).req # 0
  PROVE  /\ Head(mailbox[n]).req \in DOMAIN requests
         /\ requests[Head(mailbox[n]).req].type = Head(mailbox[n]).type
         /\ Pending(n, Head(mailbox[n]).req)
<1>1. /\ Head(mailbox[n]) = mailbox[n][1] /\ 1 \in DOMAIN mailbox[n]
  BY HeadTyped DEF Told
<1>2. Genuine(mailbox[n][1])  BY <1>1 DEF Told, MessagesGenuine
<1>3. At(mailbox[n], mailbox[n][1].req) # {}  BY <1>1 DEF At
<1> QED  BY <1>1, <1>2, <1>3 DEF Told, Tracked, Genuine

\* Actors that agree with the storage answer what the promise answers.
LEMMA ActorStepRefines ==
  ASSUME ~StorageFaults, Told, ActorsAgree, NEW n \in Names, ActorStep(n)
  PROVE  [Promise!Next]_(Promise!vars)
<1> USE DEF Told
<1> DEFINE m == Head(mailbox[n])
           r == m.req
<1>1. /\ actor[n] \in {"NilMissing", "NonExist"} => n \in Ids /\ value[n] = None
      /\ actor[n] \in {"NilFound", "Exist", "Synchronizing"} => n \in Ids /\ value[n] # None
      /\ value \in [Ids -> Users \cup {None}]
  BY DEF ActorsAgree, Stored, IInv, TypeOK
<1>2. UNCHANGED <<value, requests>> => [Promise!Next]_(Promise!vars)
  BY DEF Promise!vars
<1>3. ASSUME mailbox[n] # <<>>, r # 0
      PROVE  /\ r \in DOMAIN requests /\ requests[r].type = m.type
             /\ requests[r].id = n /\ requests[r].reply = "pending"
  BY <1>3, HeadPending DEF Pending
<1>4. ASSUME mailbox[n] # <<>>, m.type \in {"NT", "DT"} PROVE r # 0
  <2>1. Genuine(m)  BY <1>4, HeadTyped DEF MessagesGenuine
  <2> QED  BY <1>4, <2>1 DEF Genuine
<1>5. ASSUME r \in DOMAIN requests, requests[r].reply = "pending",
             Promise!Create(r) \/ Promise!Delete(r) \/ Promise!Synchronize(r)
      PROVE  [Promise!Next]_(Promise!vars)
  BY <1>5 DEF Promise!Next
<1> HIDE DEF m, r
<1>6. \A code : Reply(m, code) => requests' = IF r = 0 THEN requests
                                  ELSE [requests EXCEPT ![r].reply = code]
  BY DEF Reply, r
<1>7. CASE NilToken(n) \/ NilFound(n) \/ IgnoreDone(n) \/ SynchronizingDone(n)
  BY <1>2, <1>7 DEF NilToken, NilFound, IgnoreDone, SynchronizingDone, storage
<1>8. CASE NilMissing(n)
  <2>1. n \in Ids /\ value[n] = None /\ CleanUp(n) /\ requests' = requests
    BY <1>1, <1>8 DEF NilMissing
  <2>2. value' = value  BY <1>1, <2>1, NamesAssumption DEF CleanUp, Below
  <2> QED  BY <1>2, <2>1, <2>2
<1>9. CASE NonExistCreate(n)
  <2>1. /\ mailbox[n] # <<>> /\ m.type = "NT" /\ n \in Ids /\ value[n] = None
    BY <1>1, <1>9 DEF NonExistCreate, Handles, m
  <2>2. value' = [value EXCEPT ![n] = requests[r].user] /\ Reply(m, "TN")
    BY <1>9, <2>1 DEF NonExistCreate, PersistToken, Stored, m, r
  <2>3. Promise!Create(r)
    BY <1>3, <1>4, <1>6, <2>1, <2>2 DEF Promise!Create, Promise!Answer
  <2> QED  BY <1>3, <1>4, <1>5, <2>1, <2>3
<1>10. CASE NonExistRefuse(n)
  <2>1. /\ mailbox[n] # <<>> /\ m.type \in {"DT", "ST"} /\ n \in Ids /\ value[n] = None
        /\ Reply(m, "EM") /\ value' = value
    BY <1>1, <1>10 DEF NonExistRefuse, Handles, m, storage
  <2>2. CASE r = 0  BY <1>2, <1>6, <2>1, <2>2
  <2>3. CASE r # 0 /\ m.type = "DT"
    <3>1. value' = [value EXCEPT ![n] = None]  BY <1>1, <2>1
    <3>2. Promise!Delete(r)
      BY <1>3, <1>6, <2>1, <2>3, <3>1 DEF Promise!Delete, Promise!Answer
    <3> QED  BY <1>3, <1>5, <2>1, <2>3, <3>2
  <2>4. CASE r # 0 /\ m.type = "ST"
    <3>1. Promise!Synchronize(r)
      BY <1>3, <1>6, <2>1, <2>4 DEF Promise!Synchronize, Promise!Answer
    <3> QED  BY <1>3, <1>5, <2>1, <2>4, <3>1
  <2> QED  BY <2>1, <2>2, <2>3, <2>4
<1>11. CASE RefuseCreate(n)
  <2>1. /\ mailbox[n] # <<>> /\ m.type = "NT" /\ n \in Ids /\ value[n] # None
        /\ Reply(m, "EE") /\ value' = value
    BY <1>1, <1>11 DEF RefuseCreate, Handles, m, storage
  <2>2. Promise!Create(r)
    BY <1>3, <1>4, <1>6, <2>1 DEF Promise!Create, Promise!Answer
  <2> QED  BY <1>3, <1>4, <1>5, <2>1, <2>2
<1>12. CASE ExistSynchronize(n) \/ SynchronizingSynchronize(n)
  <2>1. /\ mailbox[n] # <<>> /\ m.type = "ST" /\ n \in Ids /\ value[n] # None
        /\ Reply(m, "TS") /\ value' = value
    BY <1>1, <1>12 DEF ExistSynchronize, SynchronizingSynchronize, Handles, m, storage
  <2>2. CASE r = 0  BY <1>2, <1>6, <2>1, <2>2
  <2>3. CASE r # 0
    <3>1. Promise!Synchronize(r)
      BY <1>3, <1>6, <2>1, <2>3 DEF Promise!Synchronize, Promise!Answer
    <3> QED  BY <1>3, <1>5, <2>1, <2>3, <3>1
  <2> QED  BY <2>2, <2>3
<1>13. CASE DeleteExisting(n)
  <2>1. /\ mailbox[n] # <<>> /\ m.type = "DT" /\ n \in Ids /\ value[n] # None
        /\ Reply(m, "TD") /\ value' = [value EXCEPT ![n] = None]
    BY <1>1, <1>13 DEF DeleteExisting, DeleteToken, Handles, m
  <2>2. Promise!Delete(r)
    BY <1>3, <1>4, <1>6, <2>1 DEF Promise!Delete, Promise!Answer
  <2> QED  BY <1>3, <1>4, <1>5, <2>1, <2>2
<1> QED  BY <1>7, <1>8, <1>9, <1>10, <1>11, <1>12, <1>13 DEF ActorStep

\* Every step keeps the promise if goroutines and worker change no credentials.
LEMMA StepRefines ==
  ASSUME ~StorageFaults, Told, ActorsAgree, [Next]_vars,
         \A s \in Syncs : SyncStep(s) => value' = value,
         WorkerStep => value' = value
  PROVE  [Promise!Next]_(Promise!vars)
<1>1. UNCHANGED <<value, requests>> => [Promise!Next]_(Promise!vars)
  BY DEF Promise!vars
<1>2. ASSUME NEW i \in Ids, NEW type \in {"NT", "ST", "DT", "??"},
             NEW u \in Users \cup {None}, Receive(i, type, u)
      PROVE  [Promise!Next]_(Promise!vars)
  <2>1. Promise!Receive(i, type, u)  BY <1>2 DEF Receive, Promise!Receive, storage
  <2> QED  BY <2>1 DEF Promise!Next
<1>3. ASSUME NEW s \in Syncs, SyncStep(s) PROVE [Promise!Next]_(Promise!vars)
  <2>1. requests' = requests
    BY <1>3
    DEF SyncStep, SyncLookup, SyncMissing, SyncFound, SyncUpdate, SyncTouch, SyncEnd
  <2> QED  BY <1>1, <1>3, <2>1
<1>4. CASE WorkerStep
  <2>1. requests' = requests
    BY <1>4
    DEF WorkerStep, WorkerTick, WorkerLookup, WorkerMissing, WorkerFound,
        WorkerListed, WorkerSend
  <2> QED  BY <1>1, <1>4, <2>1
<1>5. CASE Crash  BY <1>5 DEF Crash, Promise!Next, Promise!Lose, storage
<1>6. CASE UNCHANGED vars  BY <1>1, <1>6 DEF vars
<1> QED
  <2>1. ASSUME NEW i \in Ids, NEW type \in Operations \ {"NT"}, Receive(i, type, None)
        PROVE [Promise!Next]_(Promise!vars)
    BY <2>1, <1>2, OperationsAssumption
  <2>2. ASSUME NEW i \in Ids, NEW u \in Users, Receive(i, "NT", u)
        PROVE [Promise!Next]_(Promise!vars)
    BY <2>2, <1>2
  <2> QED  BY <2>1, <2>2, <1>3, <1>4, <1>5, <1>6, ActorStepRefines DEF Next

LEMMA InitRefines == Init => Promise!Init
BY DEF Init, Promise!Init

\* Without deletes the storage is kept.
LEMMA Spec_Kept ==
  ASSUME ~StorageFaults, "DT" \notin Operations
  PROVE  Spec => [](Told /\ CreatesNamed /\ NoDelete /\ Kept)
<1> DEFINE Inv == Told /\ CreatesNamed /\ NoDelete /\ Kept
<1>1. Init => Inv
  <2>1. Init => CreatesNamed /\ NoDelete  BY DEF Init, CreatesNamed, NoDelete
  <2>2. Init => Kept
    BY EmptySeq DEF Init, Kept, ActorsAgree, SyncsAgree, WorkerAgrees, NoSync, IdleWorker, Names
  <2> QED  BY <2>1, <2>2, InitTold
<1>2. Inv /\ [Next]_vars => Inv'
  <2> SUFFICES ASSUME Inv, [Next]_vars PROVE Inv'  OBVIOUS
  <2>1. Told'  BY StepTold
  <2>2. CreatesNamed'  BY StepCreatesNamed DEF Told
  <2>3. Kept'  BY StepKept
  <2>4. NoDelete'
    <3>1. CASE UNCHANGED requests  BY <3>1 DEF NoDelete
    <3>2. ASSUME NEW i \in Ids, NEW type \in {"NT", "ST", "??"},
                 NEW u \in Users \cup {None}, Receive(i, type, u)
          PROVE  NoDelete'
      <4>1. PICK l : l = Len(requests) + 1  OBVIOUS
      <4>2. /\ DOMAIN requests' = DOMAIN requests \cup {l}
            /\ \A r \in DOMAIN requests : requests'[r] = requests[r]
        BY <3>2, <4>1, ReceiveDoes DEF Told
      <4>3. requests'[l] = [id |-> i, type |-> type, user |-> u,
                            reply |-> IF type = "??" THEN "EE" ELSE "pending"]
        BY <3>2, <4>1, ReceiveDoes DEF Told
      <4>4. requests'[l].type # "DT"  BY <4>3
      <4> QED  BY <4>2, <4>4 DEF NoDelete
    <3>3. ASSUME NEW n \in Names, NEW code \in Codes, Handled(n, code) PROVE NoDelete'
      <4>1. PICK m \in Message : m = Head(mailbox[n]) /\ Genuine(m)
        BY <3>3, HeadTyped DEF Handled, MessagesGenuine, Told
      <4>2. /\ DOMAIN requests' = DOMAIN requests
            /\ \A r \in DOMAIN requests : requests'[r].type = requests[r].type
        BY <3>3, <4>1, ReplyDoes DEF Handled, Told
      <4> QED  BY <4>2 DEF NoDelete
    <3>4. CASE Crash  BY <3>4, CrashDoes DEF NoDelete, Told
    <3>5. ASSUME NEW n \in Names, ActorStep(n) PROVE NoDelete'
      BY <3>1, <3>3, <3>5, ActorMailboxes DEF Told, Turned
    <3>6. CASE WorkerStep \/ \E s \in Syncs : SyncStep(s)
      BY <3>1, <3>6, SyncMailboxes, WorkerMailboxes DEF Told, Whispered
    <3>7. CASE UNCHANGED vars  BY <3>1, <3>7 DEF vars
    <3>8. ASSUME NEW i \in Ids, NEW type \in Operations \ {"NT"}, Receive(i, type, None)
          PROVE NoDelete'
      BY <3>2, <3>8, OperationsAssumption
    <3>9. ASSUME NEW i \in Ids, NEW u \in Users, Receive(i, "NT", u)
          PROVE NoDelete'
      BY <3>2, <3>9
    <3> QED  BY <3>4, <3>5, <3>6, <3>7, <3>8, <3>9 DEF Next
  <2> QED  BY <2>1, <2>2, <2>3, <2>4
<1> HIDE DEF Inv
<1>3. Spec => []Inv  BY <1>1, <1>2, PTL DEF Spec
<1> QED  BY <1>3 DEF Inv

\* As long as clients create and synchronize tokens but delete none, the service
\* implements TokenService: worker, restarts, creates of names in use and
\* goroutines of any age are invisible to them (token.go, worker.go).
THEOREM Spec_LinearizableWithoutDeletes ==
  ASSUME ~StorageFaults, "DT" \notin Operations
  PROVE  Spec => Linearizable
<1>1. Told /\ Kept /\ [Next]_vars => [Promise!Next]_(Promise!vars)
  <2> SUFFICES ASSUME Told, Kept, [Next]_vars PROVE [Promise!Next]_(Promise!vars)
    OBVIOUS
  <2>1. value \in [Ids -> Users \cup {None}]  BY DEF Told, IInv, TypeOK
  <2>2. ASSUME NEW s \in Syncs, SyncStep(s) PROVE value' = value
    <3>1. ~SyncMissing(s)  BY DEF SyncMissing, Kept, SyncsAgree
    <3>2. SyncUpdate(s) => value' = value
      BY <2>1 DEF SyncUpdate, UpdateToken, Kept, SyncsAgree, Stored
    <3> QED
      BY <2>2, <3>1, <3>2 DEF SyncStep, SyncLookup, SyncFound, SyncTouch, SyncEnd, storage
  <2>3. ASSUME WorkerStep PROVE value' = value
    <3>1. ~WorkerMissing  BY DEF WorkerMissing, Kept, WorkerAgrees
    <3> QED
      BY <2>3, <3>1
      DEF WorkerStep, WorkerTick, WorkerLookup, WorkerFound, WorkerListed, WorkerSend, storage
  <2> QED  BY <2>2, <2>3, StepRefines DEF Kept
<1> QED
  BY <1>1, InitRefines, Spec_Kept, PTL DEF Spec, Linearizable, Promise!Spec

-----------------------------------------------------------------------------
(* The promise, with deletes, for names that are used once *)

\* A create of the name i has been answered, or lost by a restart.
Used(i) ==
  \E r \in DOMAIN requests :
    requests[r].type = "NT" /\ requests[r].id = i /\ requests[r].reply # "pending"

CreatesUnique ==
  \A r, q \in DOMAIN requests :
    requests[r].type = "NT" /\ requests[q].type = "NT" /\ requests[r].id = requests[q].id
      => r = q

\* A goroutine that outlives a delete meets no credentials but those it knows.
SyncsSteady ==
  \A s \in Syncs : sync[s].pc # "idle" =>
    /\ sync[s].id \in Ids /\ Used(sync[s].id)
    /\ sync[s].pc = "missing" => value[sync[s].id] = None
    /\ sync[s].pc = "working" => value[sync[s].id] \in {None, sync[s].user}

\* Without the worker, and with names used once: nobody creates what somebody
\* may still remove, because who is about to remove came after the only create.
Steady ==
  /\ ActorsAgree /\ actor[NoName] = "absent" /\ worker = IdleWorker
  /\ CreatesUnique
  /\ \A i \in Ids : value[i] # None => Used(i)
  /\ SyncsSteady

\* What is used stays used, and a create answered now makes its name used.
LEMMA UsedKept ==
  ASSUME Told, [Next]_vars
  PROVE  /\ \A i : Used(i) => Used(i)'
         /\ ~ReuseIds /\ CreatesUnique => CreatesUnique'
<1> USE DEF Told
<1>1. CASE UNCHANGED requests  BY <1>1 DEF Used, CreatesUnique
<1>2. ASSUME NEW i \in Ids, NEW type \in {"NT", "ST", "DT", "??"},
             NEW u \in Users \cup {None}, Receive(i, type, u)
      PROVE  /\ \A j : Used(j) => Used(j)'
             /\ ~ReuseIds /\ CreatesUnique => CreatesUnique'
  <2>1. PICK l : l = Len(requests) + 1  OBVIOUS
  <2>2. /\ DOMAIN requests' = DOMAIN requests \cup {l} /\ l \notin DOMAIN requests
        /\ \A r \in DOMAIN requests : requests'[r] = requests[r]
    BY <1>2, <2>1, ReceiveDoes
  <2>3. requests'[l] = [id |-> i, type |-> type, user |-> u,
                        reply |-> IF type = "??" THEN "EE" ELSE "pending"]
    BY <1>2, <2>1, ReceiveDoes
  <2>4. requests'[l].type = type /\ requests'[l].id = i  BY <2>3
  <2>5. ~ReuseIds /\ type = "NT" =>
          \A r \in DOMAIN requests : requests[r].type = "NT" => requests[r].id # i
    BY <1>2 DEF Receive, Fresh
  <2>6. ~ReuseIds /\ CreatesUnique => CreatesUnique'
    BY <2>2, <2>4, <2>5 DEF CreatesUnique
  <2> QED  BY <2>2, <2>6 DEF Used
<1>3. ASSUME NEW n \in Names, NEW code \in Codes, Handled(n, code)
      PROVE  /\ \A j : Used(j) => Used(j)'
             /\ ~ReuseIds /\ CreatesUnique => CreatesUnique'
  <2>1. PICK m \in Message : m = Head(mailbox[n]) /\ Genuine(m)
    BY <1>3, HeadTyped DEF Handled, MessagesGenuine
  <2>2. /\ DOMAIN requests' = DOMAIN requests
        /\ \A r \in DOMAIN requests :
             /\ requests'[r].type = requests[r].type /\ requests'[r].id = requests[r].id
             /\ requests'[r].reply = IF r = m.req THEN code ELSE requests[r].reply
    BY <1>3, <2>1, ReplyDoes DEF Handled
  <2>3. code # "pending"  BY DEF Codes
  <2> QED  BY <2>2, <2>3 DEF Used, CreatesUnique
<1>4. CASE Crash  BY <1>4, CrashDoes DEF Used, CreatesUnique
<1> QED  BY <1>1, <1>2, <1>3, <1>4, StepMailboxes DEF Whispered, Turned

\* The actor of a token takes a state, and nobody else's credentials change.
LEMMA TurnAgrees ==
  ASSUME IInv, ActorsAgree, NEW i \in Ids, NEW state, actor' = [actor EXCEPT ![i] = state],
         \A j \in Ids \ {i} : value'[j] = value[j],
         state \in {"NilMissing", "NonExist"} => value'[i] = None,
         state \in {"NilFound", "Exist", "Synchronizing"} => value'[i] # None,
         actor[NoName] = "absent"
  PROVE  ActorsAgree' /\ actor'[NoName] = "absent"
<1>1. actor \in [Names -> ActorStates] /\ i \in Names /\ i # NoName /\ NoName \in Names
  BY NamesAssumption DEF IInv, TypeOK, Names
<1>2. \A n \in Names \ {i} : actor'[n] = actor[n]  BY <1>1
<1>3. actor'[i] = state  BY <1>1
<1>4. actor'[NoName] = "absent"  BY <1>1, <1>2
<1>5. ASSUME NEW n \in Names
      PROVE  /\ actor'[n] \in {"NilMissing", "NonExist"} => n \in Ids /\ value'[n] = None
             /\ actor'[n] \in {"NilFound", "Exist", "Synchronizing"} =>
                  n \in Ids /\ value'[n] # None
  <2>1. CASE n = i  BY <1>3, <2>1
  <2>2. CASE n # i /\ n \in Ids
    <3>1. actor'[n] = actor[n] /\ value'[n] = value[n]  BY <1>2, <2>2
    <3> QED  BY <2>2, <3>1 DEF ActorsAgree, Stored
  <2>3. CASE n = NoName  BY <1>4, <2>3
  <2> QED  BY <2>1, <2>2, <2>3 DEF Names
<1> QED  BY <1>4, <1>5 DEF ActorsAgree, Stored

LEMMA ActorStepSteady ==
  ASSUME ~ReuseIds, ~StorageFaults, Told, CreatesNamed, Steady, NEW n \in Names, ActorStep(n)
  PROVE  Steady'
<1> USE DEF Told
<1> DEFINE m == Head(mailbox[n])
           r == m.req
<1>0. n \in Ids /\ n # NoName
  <2>1. actor[n] # "absent"
    BY DEF ActorStep, NilToken, NilMissing, NilFound, IgnoreDone, NonExistCreate,
       NonExistRefuse, RefuseCreate, ExistSynchronize, DeleteExisting,
       SynchronizingDone, SynchronizingSynchronize, Handles
  <2> QED  BY <2>1, NamesAssumption DEF Steady, Names
<1>1. /\ actor[n] \in {"NilMissing", "NonExist"} => value[n] = None
      /\ actor[n] \in {"NilFound", "Exist", "Synchronizing"} => value[n] # None
      /\ Stored(n) <=> value[n] # None
      /\ value \in [Ids -> Users \cup {None}] /\ actor \in [Names -> ActorStates]
      /\ sync \in [Syncs -> [pc: SyncPcs, id: Names, user: Users \cup {None}]]
  BY <1>0 DEF Steady, ActorsAgree, Stored, IInv, TypeOK
<1>2. CreatesUnique' /\ \A i : Used(i) => Used(i)'
  BY UsedKept DEF Steady, Next
<1>3. worker' = IdleWorker
  BY DEF Steady, ActorStep, NilToken, NilMissing, NilFound, IgnoreDone, NonExistCreate,
     NonExistRefuse, RefuseCreate, ExistSynchronize, DeleteExisting,
     SynchronizingDone, SynchronizingSynchronize
\* Steps that leave the credentials alone.
<1>4. ASSUME value' = value, NEW state, actor' = [actor EXCEPT ![n] = state],
             state \in {"NilMissing", "NonExist"} => value[n] = None,
             state \in {"NilFound", "Exist", "Synchronizing"} => value[n] # None,
             \A s \in Syncs : \/ sync'[s] = sync[s]
                              \/ sync'[s] = [pc |-> "lookup", id |-> n, user |-> None]
                                 /\ value[n] # None
      PROVE  Steady'
  <2>1. ActorsAgree' /\ actor'[NoName] = "absent"
    BY <1>0, <1>4, TurnAgrees DEF Steady
  <2>2. \A i \in Ids : value'[i] # None => Used(i)'  BY <1>2, <1>4 DEF Steady
  <2>3. value[n] # None => Used(n)'  BY <1>0, <1>2 DEF Steady
  <2>4. ASSUME NEW s \in Syncs, sync'[s].pc # "idle"
        PROVE  /\ sync'[s].id \in Ids
               /\ \A i : i = sync'[s].id => Used(i)'
               /\ sync'[s].pc = "missing" => value'[sync'[s].id] = None
               /\ sync'[s].pc = "working" => value'[sync'[s].id] \in {None, sync'[s].user}
    <3>1. CASE sync'[s] = sync[s]
      BY <1>2, <1>4, <2>4, <3>1 DEF Steady, SyncsSteady
    <3>2. CASE sync'[s] = [pc |-> "lookup", id |-> n, user |-> None] /\ value[n] # None
      BY <1>0, <2>3, <3>2
    <3> QED  BY <1>4, <3>1, <3>2
  <2>5. SyncsSteady'  BY <2>4 DEF SyncsSteady, Used
  <2> QED  BY <1>2, <1>3, <2>1, <2>2, <2>5 DEF Steady
<1>5. CASE NilToken(n)
  <2>1. \E state \in {"NilFound", "NilMissing"} :
          actor' = [actor EXCEPT ![n] = state] /\ (state = "NilFound" <=> value[n] # None)
    BY <1>1, <1>5 DEF NilToken, Lookup
  <2> QED  BY <1>4, <1>5, <2>1 DEF NilToken, storage
<1>6. CASE NilMissing(n)
  <2>1. value[n] = None  BY <1>1, <1>6 DEF NilMissing
  <2>2. value' = value
    BY <1>0, <1>1, <1>6, <2>1 DEF NilMissing, CleanUp, Below
  <2> QED  BY <1>4, <1>6, <2>1, <2>2 DEF NilMissing
<1>7. CASE NilFound(n)
  <2>1. actor' = [actor EXCEPT ![n] = "Exist"] /\ value[n] # None
    BY <1>1, <1>7 DEF NilFound, ReadOutcomes
  <2> QED  BY <1>4, <1>7, <2>1 DEF NilFound, storage
<1>8. ASSUME NEW state, NEW next, NEW type,
             Handles(n, state, type), Become(n, next), UNCHANGED <<value, sync>>,
             next = state \/ (state = "Synchronizing" /\ next = "Exist")
      PROVE  Steady'
  <2>1. actor' = [actor EXCEPT ![n] = next] /\ actor[n] = state
    BY <1>8 DEF Become, Handles
  <2>2. \A s \in Syncs : sync'[s] = sync[s]  BY <1>8
  <2>3. /\ next \in {"NilMissing", "NonExist"} => value[n] = None
        /\ next \in {"NilFound", "Exist", "Synchronizing"} => value[n] # None
    BY <1>1, <1>8, <2>1
  <2> QED  BY <1>4, <1>8, <2>1, <2>2, <2>3
<1>9. CASE IgnoreDone(n)  BY <1>8, <1>9 DEF IgnoreDone, storage
<1>10. CASE NonExistRefuse(n)  BY <1>8, <1>10 DEF NonExistRefuse, storage
<1>11. CASE RefuseCreate(n)  BY <1>8, <1>11 DEF RefuseCreate, storage
<1>12. CASE SynchronizingDone(n)  BY <1>8, <1>12 DEF SynchronizingDone, storage
<1>13. CASE SynchronizingSynchronize(n)
  BY <1>8, <1>13 DEF SynchronizingSynchronize, storage
<1>14. CASE ExistSynchronize(n)
  <2>1. /\ actor' = [actor EXCEPT ![n] = "Synchronizing"] /\ value[n] # None
        /\ value' = value
    BY <1>1, <1>14 DEF ExistSynchronize, Handles, Become, storage
  <2>2. PICK s \in Syncs :
          sync' = [sync EXCEPT ![s] = [pc |-> "lookup", id |-> n, user |-> None]]
    BY <1>14 DEF ExistSynchronize
  <2>3. \A t \in Syncs : sync'[t] = sync[t]
                         \/ sync'[t] = [pc |-> "lookup", id |-> n, user |-> None]
    BY <1>1, <2>2
  <2> QED  BY <1>4, <2>1, <2>3
<1>15. CASE DeleteExisting(n)
  <2>1. /\ value' = [value EXCEPT ![n] = None] /\ sync' = sync
        /\ actor' = [actor EXCEPT ![n] = "NonExist"]
    BY <1>15 DEF DeleteExisting, DeleteToken, Become
  <2>2. \A i \in Ids : value'[i] = None \/ value'[i] = value[i]  BY <1>1, <2>1
  <2>3. ActorsAgree' /\ actor'[NoName] = "absent"
    BY <1>0, <1>1, <2>1, TurnAgrees DEF Steady
  <2>4. \A i \in Ids : value'[i] # None => Used(i)'  BY <1>2, <2>2 DEF Steady
  <2>5. SyncsSteady'
    <3>1. \A s \in Syncs : sync[s].pc # "idle" =>
            /\ sync[s].id \in Ids
            /\ \A i : i = sync[s].id => Used(i)'
            /\ sync[s].pc = "missing" => value'[sync[s].id] = None
            /\ sync[s].pc = "working" => value'[sync[s].id] \in {None, sync[s].user}
      BY <1>2, <2>2 DEF Steady, SyncsSteady
    <3> QED  BY <2>1, <3>1 DEF SyncsSteady, Used
  <2> QED  BY <1>2, <1>3, <2>3, <2>4, <2>5 DEF Steady
<1>16. CASE NonExistCreate(n)
  <2>1. /\ mailbox[n] # <<>> /\ m.type = "NT" /\ value[n] = None
    BY <1>1, <1>16 DEF NonExistCreate, Handles
  <2>2. Genuine(m)  BY <2>1, HeadTyped DEF MessagesGenuine
  <2>3. /\ r \in DOMAIN requests /\ requests[r].type = "NT" /\ Pending(n, r) /\ r # 0
    BY <2>1, <2>2, HeadPending DEF Genuine
  <2>4. requests[r].user \in Users  BY <2>3 DEF CreatesNamed
  <2>5. /\ value' = [value EXCEPT ![n] = requests[r].user] /\ Reply(m, "TN")
        /\ actor' = [actor EXCEPT ![n] = "Exist"] /\ sync' = sync
    BY <1>1, <1>16, <2>1 DEF NonExistCreate, PersistToken, Become
  <2>6. value'[n] # None /\ \A i \in Ids \ {n} : value'[i] = value[i]
    BY <1>0, <1>1, <2>4, <2>5, UsersAssumption
  <2>7. ~Used(n)  BY <2>3 DEF Used, Steady, CreatesUnique, Pending
  <2>8. Used(n)'
    <3>1. PICK a \in Message : a = m /\ Genuine(a)
      BY <2>1, HeadTyped DEF MessagesGenuine
    <3>2. "TN" \in Codes  BY DEF Codes
    <3>3. PICK k : k = r  OBVIOUS
    <3>4. /\ k \in DOMAIN requests' /\ requests'[k].type = "NT" /\ requests'[k].id = n
          /\ requests'[k].reply = "TN"
      BY <2>3, <2>5, <3>1, <3>2, <3>3, ReplyDoes DEF Pending
    <3> QED  BY <3>4 DEF Used
  <2>9. ActorsAgree' /\ actor'[NoName] = "absent"
    BY <1>0, <2>5, <2>6, TurnAgrees DEF Steady
  <2>10. \A i \in Ids : value'[i] # None => Used(i)'  BY <1>2, <2>6, <2>8 DEF Steady
  <2>11. SyncsSteady'
    <3>1. \A s \in Syncs : sync[s].pc # "idle" => sync[s].id \in Ids \ {n}
      BY <2>7 DEF Steady, SyncsSteady
    <3>2. \A s \in Syncs : sync[s].pc # "idle" =>
            /\ sync[s].id \in Ids
            /\ \A i : i = sync[s].id => Used(i)'
            /\ sync[s].pc = "missing" => value'[sync[s].id] = None
            /\ sync[s].pc = "working" => value'[sync[s].id] \in {None, sync[s].user}
      BY <1>2, <2>6, <3>1 DEF Steady, SyncsSteady
    <3> QED  BY <2>5, <3>2 DEF SyncsSteady, Used
  <2> QED  BY <1>2, <1>3, <2>9, <2>10, <2>11 DEF Steady
<1> QED
  BY <1>5, <1>6, <1>7, <1>9, <1>10, <1>11, <1>12, <1>13, <1>14, <1>15, <1>16 DEF ActorStep

\* A goroutine writes no credentials but those that are there.
LEMMA SyncStepValue ==
  ASSUME ~WriteFileCreates, ~StorageFaults, IInv, Steady, NEW s \in Syncs, SyncStep(s)
  PROVE  value' = value
<1>1. value \in [Ids -> Users \cup {None}]  BY DEF IInv, TypeOK
<1>2. CASE SyncMissing(s)
  <2>1. sync[s].id \in Ids /\ value[sync[s].id] = None /\ sync[s].id # NoName
    BY <1>2, NamesAssumption DEF SyncMissing, Steady, SyncsSteady
  <2> QED  BY <1>1, <1>2, <2>1 DEF SyncMissing, CleanUp, Below
<1>3. CASE SyncUpdate(s)
  <2>1. sync[s].id \in Ids /\ value[sync[s].id] = sync[s].user
    BY <1>3 DEF SyncUpdate, UpdateToken, Stored, Steady, SyncsSteady
  <2> QED  BY <1>1, <1>3, <2>1 DEF SyncUpdate, UpdateToken
<1> QED
  BY <1>2, <1>3 DEF SyncStep, SyncLookup, SyncFound, SyncTouch, SyncEnd, storage

LEMMA SyncStepSteady ==
  ASSUME ~ReuseIds, ~WriteFileCreates, ~StorageFaults, Told, Steady,
         NEW s \in Syncs, SyncStep(s)
  PROVE  Steady'
<1>1. sync \in [Syncs -> [pc: SyncPcs, id: Names, user: Users \cup {None}]]
  BY DEF Told, IInv, TypeOK
<1>2. value' = value  BY SyncStepValue DEF Told
<1>3. UNCHANGED <<actor, worker, requests>>
  BY DEF SyncStep, SyncLookup, SyncMissing, SyncFound, SyncUpdate, SyncTouch, SyncEnd
<1>4. \A t \in Syncs \ {s} : sync'[t] = sync[t]
  BY <1>1 DEF SyncStep, SyncLookup, SyncMissing, SyncFound, SyncUpdate, SyncTouch, SyncEnd
<1>5. \/ sync'[s].pc = "idle"
      \/ /\ sync[s].pc # "idle" /\ sync'[s].id = sync[s].id
         /\ sync'[s].pc = "missing" => value[sync[s].id] = None
         /\ sync'[s].pc = "working" => value[sync[s].id] \in {None, sync'[s].user}
  <2>1. sync[s].pc # "idle" => sync[s].id \in Ids  BY DEF Steady, SyncsSteady
  <2>2. CASE SyncLookup(s)  BY <1>1, <2>1, <2>2 DEF SyncLookup, Lookup, Stored
  <2>3. CASE SyncMissing(s)  BY <1>1, <2>3 DEF SyncMissing
  <2>4. CASE SyncFound(s)
    <3>1. CASE sync' = [sync EXCEPT ![s].pc = "working", ![s].user = value[sync[s].id]]
      BY <1>1, <2>4, <3>1 DEF SyncFound
    <3>2. CASE sync' = [sync EXCEPT ![s].pc = "ending"]
      BY <1>1, <2>4, <3>2 DEF SyncFound
    <3> QED  BY <2>4, <3>1, <3>2 DEF SyncFound
  <2>5. CASE SyncUpdate(s) \/ SyncTouch(s)
    BY <2>5 DEF SyncUpdate, SyncTouch, Steady, SyncsSteady
  <2>6. CASE SyncEnd(s)  BY <1>1, <2>6 DEF SyncEnd, NoSync
  <2> QED  BY <2>2, <2>3, <2>4, <2>5, <2>6 DEF SyncStep
<1>6. ASSUME NEW t \in Syncs, sync'[t].pc # "idle"
      PROVE  /\ sync'[t].id \in Ids /\ Used(sync'[t].id)
             /\ sync'[t].pc = "missing" => value[sync'[t].id] = None
             /\ sync'[t].pc = "working" => value[sync'[t].id] \in {None, sync'[t].user}
  <2>1. CASE t = s  BY <1>5, <1>6, <2>1 DEF Steady, SyncsSteady
  <2>2. CASE t # s  BY <1>4, <1>6, <2>2 DEF Steady, SyncsSteady
  <2> QED  BY <2>1, <2>2
<1>7. SyncsSteady'  BY <1>2, <1>3, <1>6 DEF SyncsSteady, Used
<1> QED
  BY <1>2, <1>3, <1>7 DEF Steady, ActorsAgree, Stored, CreatesUnique, Used

LEMMA NoTicks ==
  ASSUME IInv, worker = IdleWorker, MaxTicks = 0
  PROVE  ~WorkerStep
<1>1. ticks = 0  BY DEF IInv, TypeOK
<1> QED
  BY <1>1 DEF WorkerStep, WorkerTick, WorkerLookup, WorkerMissing, WorkerFound,
     WorkerListed, WorkerSend, IdleWorker

LEMMA StepSteady ==
  ASSUME ~ReuseIds, ~WriteFileCreates, ~StorageFaults, MaxTicks = 0,
         Told, CreatesNamed, Steady, [Next]_vars
  PROVE  Steady'
<1>1. CreatesUnique' /\ \A i : Used(i) => Used(i)'  BY UsedKept DEF Steady
<1>2. ASSUME NEW i \in Ids, NEW type, NEW u, Receive(i, type, u) PROVE Steady'
  <2>1. UNCHANGED <<value, sync, worker>>  BY <1>2 DEF Receive, storage
  <2>2. ActorsAgree' /\ actor'[NoName] = "absent"
    <3>1. CASE type = "??"
      BY <1>2, <2>1, <3>1 DEF Receive, Steady, ActorsAgree, Stored
    <3>2. CASE type # "??"
      <4>1. /\ actor' = [actor EXCEPT ![i] = IF actor[i] = "absent" THEN "Nil" ELSE actor[i]]
            /\ i \in Names /\ i # NoName /\ actor \in [Names -> ActorStates]
        BY <1>2, <3>2, NamesAssumption DEF Receive, Post, Names, Told, IInv, TypeOK
      <4>2. /\ actor[i] \in {"NilMissing", "NonExist"} => value[i] = None
            /\ actor[i] \in {"NilFound", "Exist", "Synchronizing"} => value[i] # None
        BY <4>1 DEF Steady, ActorsAgree, Stored
      <4> QED  BY <2>1, <4>1, <4>2, TurnAgrees DEF Steady, Told
    <3> QED  BY <3>1, <3>2
  <2>3. \A s \in Syncs : sync[s].pc # "idle" => \A j : j = sync[s].id => Used(j)'
    BY <1>1 DEF Steady, SyncsSteady
  <2>4. SyncsSteady'  BY <2>1, <2>3 DEF Steady, SyncsSteady, Used
  <2> QED  BY <1>1, <2>1, <2>2, <2>4 DEF Steady
<1>3. CASE Crash
  <2>1. /\ value' = value /\ worker' = IdleWorker
        /\ \A n \in Names : actor'[n] = "absent"
        /\ \A s \in Syncs : sync'[s].pc = "idle"
    BY <1>3 DEF Crash, storage, NoSync
  <2>2. ActorsAgree' /\ actor'[NoName] = "absent"  BY <2>1 DEF ActorsAgree, Names
  <2>3. SyncsSteady'  BY <2>1 DEF SyncsSteady
  <2> QED  BY <1>1, <2>1, <2>2, <2>3 DEF Steady
<1>4. CASE UNCHANGED vars
  BY <1>4 DEF vars, Steady, ActorsAgree, Stored, CreatesUnique, Used, SyncsSteady
<1>5. ~WorkerStep  BY NoTicks DEF Steady, Told
<1> QED  BY <1>2, <1>3, <1>4, <1>5, ActorStepSteady, SyncStepSteady DEF Next

\* With names used once, and without ticks, the storage is steady.
LEMMA Spec_Steady ==
  ASSUME ~ReuseIds, ~WriteFileCreates, ~StorageFaults, MaxTicks = 0
  PROVE  Spec => [](Told /\ CreatesNamed /\ Steady)
<1> DEFINE Inv == Told /\ CreatesNamed /\ Steady
<1>1. Init => Inv
  <2>1. Init => CreatesNamed  BY DEF Init, CreatesNamed
  <2>2. Init => Steady
    BY DEF Init, Steady, ActorsAgree, CreatesUnique, SyncsSteady, NoSync, Names
  <2> QED  BY <2>1, <2>2, InitTold
<1>2. Inv /\ [Next]_vars => Inv'
  BY StepTold, StepCreatesNamed, StepSteady DEF Told
<1> HIDE DEF Inv
<1>3. Spec => []Inv  BY <1>1, <1>2, PTL DEF Spec
<1> QED  BY <1>3 DEF Inv

\* Deletes included, the service implements TokenService for clients that use a
\* name once, as long as the worker does not tick and the storage neither fails
\* nor creates what is missing. Restarts may come at any point (token.go).
THEOREM Spec_LinearizableWithDeletes ==
  ASSUME ~ReuseIds, ~WriteFileCreates, ~StorageFaults, MaxTicks = 0
  PROVE  Spec => Linearizable
<1>1. Told /\ Steady /\ [Next]_vars => [Promise!Next]_(Promise!vars)
  <2> SUFFICES ASSUME Told, Steady, [Next]_vars PROVE [Promise!Next]_(Promise!vars)
    OBVIOUS
  <2>1. ASSUME NEW s \in Syncs, SyncStep(s) PROVE value' = value
    BY <2>1, SyncStepValue DEF Told
  <2>2. ~WorkerStep  BY NoTicks DEF Steady, Told
  <2> QED  BY <2>1, <2>2, StepRefines DEF Steady
<1> QED
  BY <1>1, InitRefines, Spec_Steady, PTL DEF Spec, Linearizable, Promise!Spec

-----------------------------------------------------------------------------
(* The promise where nothing synchronizes *)

\* Without ticks and without clients that synchronize no goroutine starts.
Quiet ==
  /\ ActorsAgree /\ actor[NoName] = "absent" /\ worker = IdleWorker
  /\ \A s \in Syncs : sync[s].pc = "idle"
  /\ \A n \in Names : \A k \in DOMAIN mailbox[n] : mailbox[n][k].type \in {"NT", "DT"}

LEMMA QuietMailboxes ==
  ASSUME "ST" \notin Operations, MaxTicks = 0, Told, Quiet, [Next]_vars
  PROVE  \A n \in Names : \A k \in DOMAIN mailbox'[n] : mailbox'[n][k].type \in {"NT", "DT"}
<1> USE DEF Told
<1>1. CASE mailbox' = mailbox  BY <1>1 DEF Quiet
<1>2. ASSUME NEW i \in Ids, NEW type \in {"NT", "DT", "??"}, NEW u, Receive(i, type, u)
      PROVE  \A n \in Names : \A k \in DOMAIN mailbox'[n] : mailbox'[n][k].type \in {"NT", "DT"}
  <2>1. CASE type = "??"  BY <1>1, <1>2, <2>1 DEF Receive
  <2>2. CASE type # "??"
    <3>1. PICK m : m = [type |-> type, req |-> Len(requests) + 1]  OBVIOUS
    <3>2. m \in Message /\ i \in Names
      BY <2>2, <3>1, RequestsTyped DEF Message, MessageTypes, Names
    <3>3. m.type \in {"NT", "DT"} /\ Tell(i, m)  BY <1>2, <2>2, <3>1 DEF Receive, Post
    <3> QED  BY <3>2, <3>3, TellTyped DEF Quiet
  <2> QED  BY <2>1, <2>2
<1>3. ASSUME NEW n \in Names, ActorStep(n)
      PROVE  \A q \in Names : \A k \in DOMAIN mailbox'[q] : mailbox'[q][k].type \in {"NT", "DT"}
  <2>1. ASSUME mailbox' # mailbox PROVE \E code : Turned(n) \/ Handled(n, code)
    BY <1>3, <2>1, ActorMailboxes
  <2> QED  BY <1>1, <2>1, NoNewMessages DEF Quiet
<1>4. \A s \in Syncs : ~SyncStep(s)
  BY DEF Quiet, SyncStep, SyncLookup, SyncMissing, SyncFound, SyncUpdate, SyncTouch, SyncEnd
<1>5. ~WorkerStep  BY NoTicks DEF Quiet
<1>6. CASE Crash  BY <1>6 DEF Crash
<1>7. CASE UNCHANGED vars  BY <1>1, <1>7 DEF vars
<1>8. Operations \ {"NT"} \subseteq {"NT", "DT", "??"}  BY OperationsAssumption
<1> QED  BY <1>2, <1>3, <1>4, <1>5, <1>6, <1>7, <1>8 DEF Next

LEMMA ActorStepQuiet ==
  ASSUME ~StorageFaults, Told, CreatesNamed, Quiet, NEW n \in Names, ActorStep(n)
  PROVE  /\ ActorsAgree' /\ actor'[NoName] = "absent"
         /\ worker' = worker /\ sync' = sync
<1> USE DEF Told
<1> DEFINE m == Head(mailbox[n])
<1>0. n \in Ids /\ n # NoName
  <2>1. actor[n] # "absent"
    BY DEF ActorStep, NilToken, NilMissing, NilFound, IgnoreDone, NonExistCreate,
       NonExistRefuse, RefuseCreate, ExistSynchronize, DeleteExisting,
       SynchronizingDone, SynchronizingSynchronize, Handles
  <2> QED  BY <2>1, NamesAssumption DEF Quiet, Names
<1>1. /\ actor[n] \in {"NilMissing", "NonExist"} => value[n] = None
      /\ actor[n] \in {"NilFound", "Exist", "Synchronizing"} => value[n] # None
      /\ Stored(n) <=> value[n] # None
      /\ value \in [Ids -> Users \cup {None}]
  BY <1>0 DEF Quiet, ActorsAgree, Stored, IInv, TypeOK
<1>2. mailbox[n] # <<>> => m.type \in {"NT", "DT"}  BY HeadTyped DEF Quiet
<1>3. ASSUME NEW state, actor' = [actor EXCEPT ![n] = state],
             \A i \in Ids \ {n} : value'[i] = value[i],
             state \in {"NilMissing", "NonExist"} => value'[n] = None,
             state \in {"NilFound", "Exist", "Synchronizing"} => value'[n] # None
      PROVE  ActorsAgree' /\ actor'[NoName] = "absent"
  BY <1>0, <1>3, TurnAgrees DEF Quiet
<1>4. CASE NilToken(n)
  <2>1. \E state \in {"NilFound", "NilMissing"} :
          actor' = [actor EXCEPT ![n] = state] /\ (state = "NilFound" <=> value[n] # None)
    BY <1>1, <1>4 DEF NilToken, Lookup
  <2> QED  BY <1>3, <1>4, <2>1 DEF NilToken, storage
<1>5. CASE NilMissing(n)
  <2>1. value[n] = None  BY <1>1, <1>5 DEF NilMissing
  <2>2. value' = value
    BY <1>0, <1>1, <1>5, <2>1 DEF NilMissing, CleanUp, Below
  <2> QED  BY <1>3, <1>5, <2>1, <2>2 DEF NilMissing
<1>6. CASE NilFound(n)
  <2>1. actor' = [actor EXCEPT ![n] = "Exist"] /\ value[n] # None
    BY <1>1, <1>6 DEF NilFound, ReadOutcomes
  <2> QED  BY <1>3, <1>6, <2>1 DEF NilFound, storage
<1>7. CASE NonExistRefuse(n)
  <2>1. actor[n] = "NonExist" /\ actor' = [actor EXCEPT ![n] = "NonExist"] /\ value' = value
    BY <1>7 DEF NonExistRefuse, Handles, Become, storage
  <2> QED  BY <1>1, <1>3, <1>7, <2>1 DEF NonExistRefuse
<1>8. CASE RefuseCreate(n)
  <2>1. PICK state \in {"Exist", "Synchronizing"} :
          actor[n] = state /\ actor' = [actor EXCEPT ![n] = state] /\ value' = value
    BY <1>8 DEF RefuseCreate, Handles, Become, storage
  <2> QED  BY <1>1, <1>3, <1>8, <2>1 DEF RefuseCreate
<1>9. CASE NonExistCreate(n)
  <2>1. /\ mailbox[n] # <<>> /\ m.type = "NT" /\ value[n] = None
    BY <1>1, <1>9 DEF NonExistCreate, Handles
  <2>2. Genuine(m)  BY <2>1, HeadTyped DEF MessagesGenuine
  <2>3. requests[m.req].user # None
    BY <2>1, <2>2, UsersAssumption DEF Genuine, CreatesNamed
  <2>4. /\ value' = [value EXCEPT ![n] = requests[m.req].user]
        /\ actor' = [actor EXCEPT ![n] = "Exist"]
    BY <1>1, <1>9, <2>1 DEF NonExistCreate, PersistToken, Become
  <2>5. value'[n] # None /\ \A i \in Ids \ {n} : value'[i] = value[i]
    BY <1>0, <1>1, <2>3, <2>4
  <2> QED  BY <1>3, <1>9, <2>4, <2>5 DEF NonExistCreate
<1>10. CASE DeleteExisting(n)
  <2>1. /\ value' = [value EXCEPT ![n] = None]
        /\ actor' = [actor EXCEPT ![n] = "NonExist"]
    BY <1>10 DEF DeleteExisting, DeleteToken, Become
  <2> QED  BY <1>0, <1>1, <1>3, <1>10, <2>1 DEF DeleteExisting
<1>11. ~(IgnoreDone(n) \/ ExistSynchronize(n) \/ SynchronizingDone(n)
         \/ SynchronizingSynchronize(n))
  BY <1>2 DEF IgnoreDone, ExistSynchronize, SynchronizingDone, SynchronizingSynchronize,
     Handles
<1> QED
  BY <1>4, <1>5, <1>6, <1>7, <1>8, <1>9, <1>10, <1>11 DEF ActorStep

LEMMA StepQuiet ==
  ASSUME "ST" \notin Operations, MaxTicks = 0, ~StorageFaults,
         Told, CreatesNamed, Quiet, [Next]_vars
  PROVE  Quiet'
<1>1. ASSUME ActorsAgree', actor'[NoName] = "absent", worker' = IdleWorker,
             \A s \in Syncs : sync'[s].pc = "idle"
      PROVE  Quiet'
  BY <1>1, QuietMailboxes DEF Quiet
<1>2. ASSUME NEW i \in Ids, NEW type, NEW u, Receive(i, type, u) PROVE Quiet'
  <2>1. UNCHANGED <<value, sync, worker>>  BY <1>2 DEF Receive, storage
  <2>2. ActorsAgree' /\ actor'[NoName] = "absent"
    <3>1. CASE type = "??"
      BY <1>2, <2>1, <3>1 DEF Receive, Quiet, ActorsAgree, Stored
    <3>2. CASE type # "??"
      <4>1. /\ actor' = [actor EXCEPT ![i] = IF actor[i] = "absent" THEN "Nil" ELSE actor[i]]
            /\ i \in Names
        BY <1>2, <3>2 DEF Receive, Post, Names
      <4>2. /\ actor[i] \in {"NilMissing", "NonExist"} => value[i] = None
            /\ actor[i] \in {"NilFound", "Exist", "Synchronizing"} => value[i] # None
        BY <4>1 DEF Quiet, ActorsAgree, Stored
      <4> QED  BY <2>1, <4>1, <4>2, TurnAgrees DEF Quiet, Told
    <3> QED  BY <3>1, <3>2
  <2> QED  BY <1>1, <2>1, <2>2 DEF Quiet
<1>3. ASSUME NEW n \in Names, ActorStep(n) PROVE Quiet'
  BY <1>1, <1>3, ActorStepQuiet DEF Quiet
<1>4. CASE Crash
  <2>1. /\ worker' = IdleWorker
        /\ \A n \in Names : actor'[n] = "absent"
        /\ \A s \in Syncs : sync'[s].pc = "idle"
    BY <1>4 DEF Crash, NoSync
  <2>2. ActorsAgree' /\ actor'[NoName] = "absent"  BY <2>1 DEF ActorsAgree, Names
  <2> QED  BY <1>1, <2>1, <2>2
<1>5. CASE UNCHANGED vars
  BY <1>1, <1>5 DEF vars, Quiet, ActorsAgree, Stored
<1>6. \A s \in Syncs : ~SyncStep(s)
  BY DEF Quiet, SyncStep, SyncLookup, SyncMissing, SyncFound, SyncUpdate, SyncTouch, SyncEnd
<1>7. ~WorkerStep  BY NoTicks DEF Quiet, Told
<1> QED  BY <1>2, <1>3, <1>4, <1>5, <1>6, <1>7 DEF Next

\* Without ticks and synchronizations it stays quiet.
LEMMA Spec_Quiet ==
  ASSUME "ST" \notin Operations, MaxTicks = 0, ~StorageFaults
  PROVE  Spec => [](Told /\ CreatesNamed /\ Quiet)
<1> DEFINE Inv == Told /\ CreatesNamed /\ Quiet
<1>1. Init => Inv
  <2>1. Init => CreatesNamed  BY DEF Init, CreatesNamed
  <2>2. Init => Quiet  BY DEF Init, Quiet, ActorsAgree, NoSync, Names
  <2> QED  BY <2>1, <2>2, InitTold
<1>2. Inv /\ [Next]_vars => Inv'
  BY StepTold, StepCreatesNamed, StepQuiet DEF Told
<1> HIDE DEF Inv
<1>3. Spec => []Inv  BY <1>1, <1>2, PTL DEF Spec
<1> QED  BY <1>3 DEF Inv

\* Clients that never synchronize may delete tokens and create them again under
\* the same name, restarts included: it takes a goroutine or a tick of the worker
\* to break the promise (actor/token.go, lines 103-129; worker.go, lines 66-104).
THEOREM Spec_LinearizableWithoutSyncs ==
  ASSUME "ST" \notin Operations, MaxTicks = 0, ~StorageFaults
  PROVE  Spec => Linearizable
<1>1. Told /\ Quiet /\ [Next]_vars => [Promise!Next]_(Promise!vars)
  <2> SUFFICES ASSUME Told, Quiet, [Next]_vars PROVE [Promise!Next]_(Promise!vars)
    OBVIOUS
  <2>1. \A s \in Syncs : ~SyncStep(s)
    BY DEF Quiet, SyncStep, SyncLookup, SyncMissing, SyncFound, SyncUpdate, SyncTouch, SyncEnd
  <2>2. ~WorkerStep  BY NoTicks DEF Quiet, Told
  <2> QED  BY <2>1, <2>2, StepRefines DEF Quiet
<1> QED
  BY <1>1, InitRefines, Spec_Quiet, PTL DEF Spec, Linearizable, Promise!Spec

-----------------------------------------------------------------------------
(* Where the log line about cleaned files and the comment on Exist are true *)

\* What the three refinements above assume, besides a storage that works: nobody
\* deletes; or names are used once, nothing is created by WriteFile and nothing
\* ticks; or nothing synchronizes.
NobodyRaces ==
  \/ "DT" \notin Operations
  \/ ~ReuseIds /\ ~WriteFileCreates /\ MaxTicks = 0
  \/ "ST" \notin Operations /\ MaxTicks = 0

\* Who is about to remove a directory has looked, and nobody created the token
\* since.
Harmless ==
  /\ ActorsAgree
  /\ \A s \in Syncs : sync[s].pc = "missing" =>
       sync[s].id \in Ids /\ value[sync[s].id] = None
  /\ worker.pc # "missing"

LEMMA Spec_Harmless ==
  ASSUME NobodyRaces, ~StorageFaults
  PROVE  Spec => [](Told /\ Harmless)
<1>1. Kept => Harmless
  BY DEF Kept, SyncsAgree, WorkerAgrees, Harmless
<1>2. Steady => Harmless
  BY DEF Steady, SyncsSteady, IdleWorker, Harmless
<1>3. Quiet => Harmless
  BY DEF Quiet, IdleWorker, Harmless
<1>4. CASE "DT" \notin Operations  BY <1>1, <1>4, Spec_Kept, PTL
<1>5. CASE ~ReuseIds /\ ~WriteFileCreates /\ MaxTicks = 0
  BY <1>2, <1>5, Spec_Steady, PTL
<1>6. CASE "ST" \notin Operations /\ MaxTicks = 0
  BY <1>3, <1>6, Spec_Quiet, PTL
<1> QED  BY <1>4, <1>5, <1>6 DEF NobodyRaces

\* A token its actor calls existing is stored (actor/token.go, line 82), unless
\* clients use a deleted name again, or ticks of the worker race with deletes.
THEOREM Spec_ExistIsStored ==
  ASSUME NobodyRaces, ~StorageFaults
  PROVE  Spec => []ExistIsStored
<1>1. Harmless => ExistIsStored
  BY DEF Harmless, ActorsAgree, ExistIsStored, Stored, Names
<1> QED  BY <1>1, Spec_Harmless, PTL

\* Removing a directory that belongs to nobody.
LEMMA CleanUpHarmless ==
  ASSUME IInv, NEW i \in Ids, value[i] = None, CleanUp(i)
  PROVE  value' = value
<1>1. value \in [Ids -> Users \cup {None}] /\ i # NoName
  BY NamesAssumption DEF IInv, TypeOK
<1> QED  BY <1>1 DEF CleanUp, Below, storage

\* Cleaned files are those of no longer existing tokens (persistence/token.go,
\* line 95): a directory that goes takes no credentials with it, unless clients
\* use a deleted name again, or ticks of the worker race with deletes.
THEOREM Spec_NeverCleansExisting ==
  ASSUME NobodyRaces, ~StorageFaults
  PROVE  Spec => NeverCleansExisting
<1>1. ASSUME Told, Harmless, Next, dir' \subseteq dir, dir' # dir
      PROVE  value' = value
  <2>1. ASSUME NEW n \in Names, ActorStep(n) PROVE value' = value
    <3>1. NilMissing(n)
      BY <1>1, <2>1 DEF ActorStep, NilToken, NilFound, IgnoreDone, NonExistCreate,
         NonExistRefuse, RefuseCreate, ExistSynchronize, DeleteExisting, SynchronizingDone,
         SynchronizingSynchronize, PersistToken, DeleteToken, storage
    <3>2. n \in Ids /\ value[n] = None  BY <1>1, <3>1 DEF NilMissing, Harmless, ActorsAgree
    <3> QED  BY <1>1, <3>1, <3>2, CleanUpHarmless DEF NilMissing, Told
  <2>2. ASSUME NEW s \in Syncs, SyncStep(s) PROVE value' = value
    <3>1. SyncMissing(s)
      BY <1>1, <2>2 DEF SyncStep, SyncLookup, SyncFound, SyncUpdate, SyncTouch, SyncEnd,
         UpdateToken, storage
    <3>2. sync[s].id \in Ids /\ value[sync[s].id] = None
      BY <1>1, <3>1 DEF SyncMissing, Harmless
    <3> QED  BY <1>1, <3>1, <3>2, CleanUpHarmless DEF SyncMissing, Told
  <2>3. ~WorkerStep
    BY <1>1 DEF WorkerStep, WorkerTick, WorkerLookup, WorkerMissing, WorkerFound,
       WorkerListed, WorkerSend, Harmless, storage
  <2>4. ~Crash  BY <1>1 DEF Crash, storage
  <2>5. \A i, type, u : ~Receive(i, type, u)  BY <1>1 DEF Receive, storage
  <2> QED  BY <1>1, <2>1, <2>2, <2>3, <2>4, <2>5 DEF Next
<1>2. Told /\ Harmless /\ [Next]_vars =>
        [dir' \subseteq dir /\ dir' # dir /\ crashes' = crashes
           => \A i \in Ids : value[i] # None => value'[i] # None]_vars
  BY <1>1
<1> QED  BY <1>2, Spec_Harmless, PTL DEF Spec, NeverCleansExisting

-----------------------------------------------------------------------------
(* Credentials stay with their name, and every request has one answer *)

\* A create of the name n brought the credentials u.
SentIn(rs, n, u) ==
  \E r \in DOMAIN rs : rs[r].type = "NT" /\ rs[r].id = n /\ rs[r].user = u

\* What the storage holds for a token, what it was granted and what a goroutine
\* would write for it was sent for that very token (actor/token.go, lines 38-49
\* and 103-129; persistence/token.go, lines 60-131).
CredentialsSent ==
  /\ \A i \in Ids : value[i] # None => SentIn(requests, i, value[i])
  /\ \A i \in Ids : granted[i] # None => SentIn(requests, i, granted[i])
  /\ \A s \in Syncs : sync[s].pc = "working" => SentIn(requests, sync[s].id, sync[s].user)

\* What an answer may say to a request.
Fits(type, reply) ==
  \/ reply = "lost" \/ (reply = "pending" /\ type # "??")
  \/ reply = "EE" /\ type # "ST"
  \/ reply = "EM" /\ type \in {"DT", "ST"}
  \/ reply = "TN" /\ type = "NT"
  \/ reply = "TD" /\ type = "DT"
  \/ reply = "TS" /\ type = "ST"

RepliesFit == \A r \in DOMAIN requests : Fits(requests[r].type, requests[r].reply)

\* A request that has been answered, or was lost by a restart, stays as it is.
AnsweredOnce ==
  [][\A r \in DOMAIN requests :
       requests[r].reply # "pending" => r \in DOMAIN requests' /\ requests'[r] = requests[r]]_vars

\* Requests keep what their clients sent.
LEMMA SentKept ==
  ASSUME IInv, MessagesGenuine, [Next]_vars, NEW n, NEW u, SentIn(requests, n, u)
  PROVE  SentIn(requests', n, u)
<1>0. PICK k \in DOMAIN requests :
        requests[k].type = "NT" /\ requests[k].id = n /\ requests[k].user = u
  BY DEF SentIn
<1>1. CASE UNCHANGED requests  BY <1>1
<1>2. ASSUME NEW i \in Ids, NEW type \in {"NT", "ST", "DT", "??"},
             NEW v \in Users \cup {None}, Receive(i, type, v)
      PROVE  SentIn(requests', n, u)
  <2>1. k \in DOMAIN requests' /\ requests'[k] = requests[k]  BY <1>2, ReceiveDoes
  <2> QED  BY <1>0, <2>1 DEF SentIn
<1>3. ASSUME NEW p \in Names, NEW code \in Codes, Handled(p, code)
      PROVE  SentIn(requests', n, u)
  <2>1. PICK m \in Message : m = Head(mailbox[p]) /\ Genuine(m)
    BY <1>3, HeadTyped DEF Handled, MessagesGenuine
  <2>2. /\ k \in DOMAIN requests' /\ requests'[k].type = requests[k].type
        /\ requests'[k].id = requests[k].id /\ requests'[k].user = requests[k].user
    BY <1>3, <2>1, ReplyDoes DEF Handled
  <2> QED  BY <1>0, <2>2 DEF SentIn
<1>4. CASE Crash
  <2>1. /\ k \in DOMAIN requests' /\ requests'[k].type = requests[k].type
        /\ requests'[k].id = requests[k].id /\ requests'[k].user = requests[k].user
    BY <1>4, CrashDoes
  <2> QED  BY <1>0, <2>1 DEF SentIn
<1> QED  BY <1>1, <1>2, <1>3, <1>4, StepMailboxes DEF Whispered, Turned

\* A step that stores, grants and hands to goroutines nothing but what had been
\* sent for the name before.
StoresSent ==
  /\ \A i \in Ids : /\ value'[i] \in {None, value[i]} \/ SentIn(requests, i, value'[i])
                    /\ granted'[i] \in {None, granted[i]} \/ SentIn(requests, i, granted'[i])
  /\ \A s \in Syncs : \/ sync'[s] = sync[s] \/ sync'[s].pc # "working"
                      \/ SentIn(requests, sync'[s].id, sync'[s].user)

\* An actor stores what its own request brought.
LEMMA ActorStoresSent ==
  ASSUME Told, NEW n \in Names, ActorStep(n)
  PROVE  StoresSent
<1>0. /\ value \in [Ids -> Users \cup {None}] /\ granted \in [Ids -> Users \cup {None}]
      /\ sync \in [Syncs -> [pc: SyncPcs, id: Names, user: Users \cup {None}]]
  BY DEF Told, IInv, TypeOK
<1>1. ASSUME NEW i \in Ids
      PROVE  /\ value'[i] \in {None, value[i]} \/ SentIn(requests, i, value'[i])
             /\ granted'[i] \in {None, granted[i]} \/ SentIn(requests, i, granted'[i])
  <2>1. CASE NilMissing(n)
    <3>1. value'[i] = value[i] \/ value'[i] = None
      BY <2>1, CleanUpRemoves DEF NilMissing, Told
    <3> QED  BY <2>1, <3>1 DEF NilMissing
  <2>2. CASE NonExistCreate(n)
    <3>1. mailbox[n] # <<>> /\ Head(mailbox[n]).type = "NT"
      BY <2>2 DEF NonExistCreate, Handles
    <3>2. Genuine(Head(mailbox[n]))  BY <3>1, HeadTyped DEF Told, MessagesGenuine
    <3>3. PICK r : r = Head(mailbox[n]).req  OBVIOUS
    <3>4. r \in DOMAIN requests /\ requests[r].type = "NT" /\ requests[r].id = n
      BY <3>1, <3>2, <3>3, HeadPending DEF Pending, Genuine
    <3>5. PICK u : u = requests[r].user  OBVIOUS
    <3>6. SentIn(requests, n, u)  BY <3>4, <3>5 DEF SentIn
    <3>7. CASE PersistToken(n, u) /\ granted' = [granted EXCEPT ![n] = u]
      <4>1. CASE i = n
        <5>1. value'[i] = u /\ granted'[i] = u  BY <1>0, <3>7, <4>1 DEF PersistToken
        <5> QED  BY <3>6, <4>1, <5>1
      <4>2. CASE i # n
        BY <1>0, <3>7, <4>2 DEF PersistToken
      <4> QED  BY <4>1, <4>2
    <3>8. CASE UNCHANGED <<storage, granted>>  BY <3>8 DEF storage
    <3> QED  BY <2>2, <3>3, <3>5, <3>7, <3>8 DEF NonExistCreate
  <2>3. CASE DeleteExisting(n)
    <3>1. CASE DeleteToken(n) /\ granted' = [granted EXCEPT ![n] = None]
      BY <1>0, <3>1 DEF DeleteToken
    <3>2. CASE UNCHANGED <<storage, granted>>  BY <3>2 DEF storage
    <3> QED  BY <2>3, <3>1, <3>2 DEF DeleteExisting
  <2>4. CASE NilToken(n) \/ NilFound(n) \/ IgnoreDone(n) \/ NonExistRefuse(n)
             \/ RefuseCreate(n) \/ ExistSynchronize(n) \/ SynchronizingDone(n)
             \/ SynchronizingSynchronize(n)
    <3>1. UNCHANGED <<value, granted>>
      BY <2>4 DEF NilToken, NilFound, IgnoreDone, NonExistRefuse, RefuseCreate,
         ExistSynchronize, SynchronizingDone, SynchronizingSynchronize, storage
    <3> QED  BY <3>1
  <2> QED  BY <2>1, <2>2, <2>3, <2>4 DEF ActorStep
<1>2. ASSUME NEW s \in Syncs PROVE sync'[s] = sync[s] \/ sync'[s].pc # "working"
  <2>1. CASE ExistSynchronize(n)
    <3>1. PICK t \in Syncs :
            sync' = [sync EXCEPT ![t] = [pc |-> "lookup", id |-> n, user |-> None]]
      BY <2>1 DEF ExistSynchronize
    <3> QED  BY <1>0, <3>1
  <2>2. CASE ~ExistSynchronize(n)
    <3>1. sync' = sync
      BY <2>2 DEF ActorStep, NilToken, NilMissing, NilFound, IgnoreDone, NonExistCreate,
         NonExistRefuse, RefuseCreate, DeleteExisting, SynchronizingDone,
         SynchronizingSynchronize
    <3> QED  BY <3>1
  <2> QED  BY <2>1, <2>2
<1> QED  BY <1>1, <1>2 DEF StoresSent

\* A goroutine writes what it read for its token, and reads what is stored.
LEMMA SyncStoresSent ==
  ASSUME Told, CredentialsSent, NEW s \in Syncs, SyncStep(s)
  PROVE  StoresSent
<1>0. /\ value \in [Ids -> Users \cup {None}] /\ sync[s].id \in Names
      /\ sync \in [Syncs -> [pc: SyncPcs, id: Names, user: Users \cup {None}]]
  BY DEF Told, IInv, TypeOK
<1>1. granted' = granted
  BY DEF SyncStep, SyncLookup, SyncMissing, SyncFound, SyncUpdate, SyncTouch, SyncEnd
<1>2. ASSUME NEW i \in Ids
      PROVE  value'[i] \in {None, value[i]} \/ SentIn(requests, i, value'[i])
  <2>1. CASE SyncMissing(s)
    BY <1>0, <2>1, CleanUpRemoves DEF SyncMissing, Told
  <2>2. CASE SyncUpdate(s)
    <3>1. SentIn(requests, sync[s].id, sync[s].user)
      BY <2>2 DEF SyncUpdate, CredentialsSent
    <3>2. CASE i = sync[s].id
      <4>1. value'[i] = sync[s].user  BY <1>0, <2>2, <3>2 DEF SyncUpdate, UpdateToken
      <4> QED  BY <3>1, <3>2, <4>1
    <3>3. CASE i # sync[s].id  BY <1>0, <2>2, <3>3 DEF SyncUpdate, UpdateToken
    <3> QED  BY <3>2, <3>3
  <2>3. CASE SyncLookup(s) \/ SyncFound(s) \/ SyncTouch(s) \/ SyncEnd(s)
    BY <2>3 DEF SyncLookup, SyncFound, SyncTouch, SyncEnd, storage
  <2> QED  BY <2>1, <2>2, <2>3 DEF SyncStep
<1>3. ASSUME NEW t \in Syncs
      PROVE  \/ sync'[t] = sync[t] \/ sync'[t].pc # "working"
             \/ SentIn(requests, sync'[t].id, sync'[t].user)
  <2>1. CASE SyncLookup(s)  BY <1>0, <2>1 DEF SyncLookup, Lookup
  <2>2. CASE SyncMissing(s)  BY <1>0, <2>2 DEF SyncMissing
  <2>3. CASE SyncFound(s)
    <3>1. PICK ok \in ReadOutcomes(sync[s].id) :
            sync' = IF ok
                    THEN [sync EXCEPT ![s].pc = "working", ![s].user = value[sync[s].id]]
                    ELSE [sync EXCEPT ![s].pc = "ending"]
      BY <2>3 DEF SyncFound
    <3>2. CASE t = s /\ ok
      <4>1. sync[s].id \in Ids /\ value[sync[s].id] # None
        BY <3>2 DEF ReadOutcomes, Stored
      <4>2. SentIn(requests, sync[s].id, value[sync[s].id])
        BY <4>1 DEF CredentialsSent
      <4>3. sync'[t].id = sync[s].id /\ sync'[t].user = value[sync[s].id]
        BY <1>0, <3>1, <3>2
      <4> QED  BY <4>2, <4>3
    <3>3. CASE t # s  BY <1>0, <3>1, <3>3
    <3>4. CASE t = s /\ ~ok  BY <1>0, <3>1, <3>4
    <3> QED  BY <3>2, <3>3, <3>4
  <2>4. CASE SyncUpdate(s) \/ SyncTouch(s)  BY <2>4 DEF SyncUpdate, SyncTouch
  <2>5. CASE SyncEnd(s)  BY <1>0, <2>5 DEF SyncEnd, NoSync
  <2> QED  BY <2>1, <2>2, <2>3, <2>4, <2>5 DEF SyncStep
<1> QED  BY <1>1, <1>2, <1>3 DEF StoresSent

\* Everybody else removes at most.
LEMMA StepStoresSent ==
  ASSUME Told, CredentialsSent, [Next]_vars
  PROVE  StoresSent
<1>1. ASSUME \A i \in Ids : value'[i] \in {None, value[i]}, granted' = granted,
             \A s \in Syncs : sync'[s] = sync[s] \/ sync'[s].pc # "working"
      PROVE  StoresSent
  BY <1>1 DEF StoresSent
<1>2. CASE WorkerStep
  <2>1. CASE WorkerMissing
    <3>1. worker.at \in Names  BY DEF Told, IInv, TypeOK
    <3>2. \A i \in Ids : value'[i] \in {None, value[i]}
      BY <2>1, <3>1, CleanUpRemoves DEF WorkerMissing, Told
    <3> QED  BY <1>1, <2>1, <3>2 DEF WorkerMissing
  <2>2. CASE ~WorkerMissing
    <3>1. UNCHANGED <<value, granted, sync>>
      BY <1>2, <2>2 DEF WorkerStep, WorkerTick, WorkerLookup, WorkerFound, WorkerListed,
         WorkerSend, storage
    <3> QED  BY <1>1, <3>1
  <2> QED  BY <2>1, <2>2
<1>3. CASE Crash  BY <1>1, <1>3 DEF Crash, storage, NoSync
<1>4. CASE UNCHANGED vars  BY <1>1, <1>4 DEF vars
<1>5. ASSUME NEW j \in Ids, NEW type, NEW u, Receive(j, type, u) PROVE StoresSent
  BY <1>1, <1>5 DEF Receive, storage
<1> QED  BY <1>2, <1>3, <1>4, <1>5, ActorStoresSent, SyncStoresSent DEF Next

\* However goroutines outlive their tokens, storage calls fail and the service
\* restarts, no token ever gets credentials that were sent for another one
\* (actor/token.go, lines 38-49 and 103-129; persistence/token.go, lines 60-131).
THEOREM Spec_CredentialsSent == Spec => []CredentialsSent
<1>1. Init => CredentialsSent  BY DEF Init, CredentialsSent, NoSync
<1>2. Told /\ CredentialsSent /\ [Next]_vars => CredentialsSent'
  <2> SUFFICES ASSUME Told, CredentialsSent, [Next]_vars PROVE CredentialsSent'
    OBVIOUS
  <2>1. StoresSent  BY StepStoresSent
  <2>2. \A n, u : SentIn(requests, n, u) => SentIn(requests', n, u)
    BY SentKept DEF Told
  <2>3. \A i \in Ids : value'[i] # None => SentIn(requests', i, value'[i])
    BY <2>1, <2>2 DEF StoresSent, CredentialsSent
  <2>4. \A i \in Ids : granted'[i] # None => SentIn(requests', i, granted'[i])
    BY <2>1, <2>2 DEF StoresSent, CredentialsSent
  <2>5. \A s \in Syncs : sync'[s].pc = "working" => SentIn(requests', sync'[s].id, sync'[s].user)
    BY <2>1, <2>2 DEF StoresSent, CredentialsSent
  <2> QED  BY <2>3, <2>4, <2>5 DEF CredentialsSent
<1> QED  BY InitTold, StepTold, <1>1, <1>2, PTL DEF Spec

\* Where clients use a name for one create, and WriteFile creates nothing, what
\* is stored for a token is what it was granted, whatever else goes wrong
\* (persistence/token.go, line 116; rest: model/model.go, lines 41-68).
THEOREM Spec_StoredIsCurrent ==
  ASSUME ~ReuseIds, ~WriteFileCreates
  PROVE  Spec => []StoredIsCurrent
<1> DEFINE Inv == Told /\ CreatesUnique
<1>1. Init => Inv  BY InitTold DEF Init, CreatesUnique
<1>2. Inv /\ [Next]_vars => Inv'  BY StepTold, UsedKept
<1>3. Inv /\ CredentialsSent /\ DeletedIsAbsent => StoredIsCurrent
  <2> SUFFICES ASSUME CreatesUnique, CredentialsSent, DeletedIsAbsent,
                      NEW n \in Ids, value[n] # None
               PROVE  value[n] = granted[n]
    BY DEF StoredIsCurrent
  <2>1. granted[n] # None  BY DEF DeletedIsAbsent
  <2>2. SentIn(requests, n, value[n]) /\ SentIn(requests, n, granted[n])
    BY <2>1 DEF CredentialsSent
  <2> QED  BY <2>2 DEF SentIn, CreatesUnique
<1> HIDE DEF Inv
<1> QED
  BY <1>1, <1>2, <1>3, Spec_CredentialsSent, Spec_DeletedIsAbsent, PTL DEF Spec

\* An actor answers what fits the message.
LEMMA ActorFits ==
  ASSUME Told, NEW n \in Names, ActorStep(n)
  PROVE  \/ requests' = requests
         \/ /\ mailbox[n] # <<>> /\ Head(mailbox[n]).req # 0
            /\ \E code \in Codes : /\ Reply(Head(mailbox[n]), code)
                                   /\ Fits(Head(mailbox[n]).type, code)
<1>1. PICK m : m = Head(mailbox[n])  OBVIOUS
<1>2. ASSUME mailbox[n] # <<>>, NEW code \in Codes, Reply(m, code), Fits(m.type, code)
      PROVE  \/ requests' = requests
             \/ /\ mailbox[n] # <<>> /\ m.req # 0
                /\ \E c \in Codes : Reply(m, c) /\ Fits(m.type, c)
  <2>1. CASE m.req = 0  BY <1>2, <2>1 DEF Reply
  <2>2. CASE m.req # 0  BY <1>2, <2>2
  <2> QED  BY <2>1, <2>2
<1>3. CASE NonExistCreate(n)
  <2>1. mailbox[n] # <<>> /\ m.type = "NT" /\ (Reply(m, "TN") \/ Reply(m, "EE"))
    BY <1>1, <1>3 DEF NonExistCreate, Handles
  <2>2. Fits(m.type, "TN") /\ Fits(m.type, "EE") /\ {"TN", "EE"} \subseteq Codes
    BY <2>1 DEF Fits, Codes
  <2> QED  BY <1>1, <1>2, <2>1, <2>2
<1>4. CASE NonExistRefuse(n)
  <2>1. mailbox[n] # <<>> /\ m.type \in {"DT", "ST"} /\ Reply(m, "EM")
    BY <1>1, <1>4 DEF NonExistRefuse, Handles
  <2>2. Fits(m.type, "EM") /\ "EM" \in Codes  BY <2>1 DEF Fits, Codes
  <2> QED  BY <1>1, <1>2, <2>1, <2>2
<1>5. CASE RefuseCreate(n)
  <2>1. mailbox[n] # <<>> /\ m.type = "NT" /\ Reply(m, "EE")
    BY <1>1, <1>5 DEF RefuseCreate, Handles
  <2>2. Fits(m.type, "EE") /\ "EE" \in Codes  BY <2>1 DEF Fits, Codes
  <2> QED  BY <1>1, <1>2, <2>1, <2>2
<1>6. CASE ExistSynchronize(n) \/ SynchronizingSynchronize(n)
  <2>1. mailbox[n] # <<>> /\ m.type = "ST" /\ Reply(m, "TS")
    BY <1>1, <1>6 DEF ExistSynchronize, SynchronizingSynchronize, Handles
  <2>2. Fits(m.type, "TS") /\ "TS" \in Codes  BY <2>1 DEF Fits, Codes
  <2> QED  BY <1>1, <1>2, <2>1, <2>2
<1>7. CASE DeleteExisting(n)
  <2>1. mailbox[n] # <<>> /\ m.type = "DT" /\ (Reply(m, "TD") \/ Reply(m, "EE"))
    BY <1>1, <1>7 DEF DeleteExisting, Handles
  <2>2. Fits(m.type, "TD") /\ Fits(m.type, "EE") /\ {"TD", "EE"} \subseteq Codes
    BY <2>1 DEF Fits, Codes
  <2> QED  BY <1>1, <1>2, <2>1, <2>2
<1>8. CASE NilToken(n) \/ NilMissing(n) \/ NilFound(n) \/ IgnoreDone(n) \/ SynchronizingDone(n)
  BY <1>8 DEF NilToken, NilMissing, NilFound, IgnoreDone, SynchronizingDone
<1> QED  BY <1>3, <1>4, <1>5, <1>6, <1>7, <1>8 DEF ActorStep

\* What a step does to the requests: one more arrives, one that waits is answered
\* as fits, or those that wait are lost.
Settles ==
  /\ DOMAIN requests \subseteq DOMAIN requests'
  /\ \A r \in DOMAIN requests' \ DOMAIN requests : Fits(requests'[r].type, requests'[r].reply)
  /\ \A r \in DOMAIN requests :
       \/ requests'[r] = requests[r]
       \/ /\ requests[r].reply = "pending"
          /\ requests'[r].type = requests[r].type
          /\ Fits(requests[r].type, requests'[r].reply)

LEMMA StepSettles ==
  ASSUME Told, [Next]_vars
  PROVE  Settles
<1>0. requests \in Seq(Request) /\ \A r \in DOMAIN requests : requests[r] \in Request /\ r # 0
  BY RequestsTyped DEF Told
<1>1. CASE requests' = requests  BY <1>1 DEF Settles
<1>2. ASSUME NEW i \in Ids, NEW type \in {"NT", "ST", "DT", "??"},
             NEW u \in Users \cup {None}, Receive(i, type, u)
      PROVE  Settles
  <2>1. PICK l : l = Len(requests) + 1  OBVIOUS
  <2>2. /\ DOMAIN requests' = DOMAIN requests \cup {l}
        /\ \A r \in DOMAIN requests : requests'[r] = requests[r]
        /\ requests'[l] = [id |-> i, type |-> type, user |-> u,
                           reply |-> IF type = "??" THEN "EE" ELSE "pending"]
    BY <1>2, <2>1, ReceiveDoes DEF Told
  <2>3. /\ requests'[l].type = type
        /\ requests'[l].reply = IF type = "??" THEN "EE" ELSE "pending"
    BY <2>2
  <2>4. Fits(requests'[l].type, requests'[l].reply)  BY <2>3 DEF Fits
  <2> QED  BY <2>2, <2>4 DEF Settles
<1>3. ASSUME NEW n \in Names, ActorStep(n), requests' # requests PROVE Settles
  <2>0. PICK m : m = Head(mailbox[n])  OBVIOUS
  <2>1. PICK code \in Codes :
          /\ m = Head(mailbox[n]) /\ mailbox[n] # <<>> /\ m.req # 0
          /\ Reply(m, code) /\ Fits(m.type, code)
    BY <1>3, <2>0, ActorFits
  <2>2. m \in Message /\ Genuine(m)
    BY <2>1, HeadTyped DEF Told, MessagesGenuine
  <2>3. PICK k : k = m.req  OBVIOUS
  <2>4. k \in DOMAIN requests /\ requests[k].type = m.type /\ requests[k].reply = "pending"
    BY <2>1, <2>3, HeadPending DEF Pending
  <2>5. k # 0 /\ requests' = [requests EXCEPT ![k].reply = code]
    BY <2>1, <2>3 DEF Reply
  <2>6. /\ DOMAIN requests' = DOMAIN requests
        /\ \A r \in DOMAIN requests : r # k => requests'[r] = requests[r]
        /\ requests'[k] = [requests[k] EXCEPT !.reply = code]
    BY <1>0, <2>4, <2>5
  <2>7. requests'[k].type = requests[k].type /\ requests'[k].reply = code
    BY <1>0, <2>4, <2>6 DEF Request
  <2> QED  BY <2>1, <2>4, <2>6, <2>7 DEF Settles
<1>4. CASE Crash
  <2>1. /\ DOMAIN requests' = DOMAIN requests
        /\ \A r \in DOMAIN requests :
             requests'[r] = IF requests[r].reply = "pending"
                            THEN [requests[r] EXCEPT !.reply = "lost"] ELSE requests[r]
    BY <1>4 DEF Crash
  <2>2. ASSUME NEW r \in DOMAIN requests, requests[r].reply = "pending"
        PROVE  /\ requests'[r].type = requests[r].type
               /\ Fits(requests[r].type, requests'[r].reply)
    <3>1. requests'[r].type = requests[r].type /\ requests'[r].reply = "lost"
      BY <1>0, <2>1, <2>2 DEF Request
    <3> QED  BY <3>1 DEF Fits
  <2> QED  BY <2>1, <2>2 DEF Settles
<1>5. CASE (\E s \in Syncs : SyncStep(s)) \/ WorkerStep \/ UNCHANGED vars
  <2>1. requests' = requests
    BY <1>5 DEF SyncStep, SyncLookup, SyncMissing, SyncFound, SyncUpdate, SyncTouch, SyncEnd,
       WorkerStep, WorkerTick, WorkerLookup, WorkerMissing, WorkerFound, WorkerListed,
       WorkerSend, vars
  <2> QED  BY <1>1, <2>1
<1>6. ASSUME NEW i \in Ids, NEW type \in Operations \ {"NT"}, Receive(i, type, None)
      PROVE  Settles
  BY <1>2, <1>6, OperationsAssumption
<1>7. ASSUME NEW i \in Ids, NEW u \in Users, Receive(i, "NT", u) PROVE Settles
  BY <1>2, <1>7
<1> QED  BY <1>1, <1>3, <1>4, <1>5, <1>6, <1>7 DEF Next

\* Every answer is one that the request may get, also where storage calls fail:
\* TN, TD and TS confirm what was asked for, a create never hears that there is
\* no token, and a synchronization never that it failed (actor/token.go, lines 38-180).
THEOREM Spec_RepliesFit == Spec => []RepliesFit
<1>1. Init => RepliesFit  BY DEF Init, RepliesFit
<1>2. Told /\ RepliesFit /\ [Next]_vars => RepliesFit'
  <2> SUFFICES ASSUME Told, RepliesFit, [Next]_vars, NEW r \in DOMAIN requests'
               PROVE  Fits(requests'[r].type, requests'[r].reply)
    BY DEF RepliesFit
  <2>1. Settles  BY StepSettles
  <2> QED  BY <2>1 DEF Settles, RepliesFit
<1> QED  BY InitTold, StepTold, <1>1, <1>2, PTL DEF Spec

\* An answer is final: no client hears twice, whatever fails, and a request lost
\* in a restart is not answered by the next life of the service (token.go,
\* line 27, where the message that woke the actor is told a second time).
THEOREM Spec_AnsweredOnce == Spec => AnsweredOnce
<1>1. Told /\ [Next]_vars =>
        [\A r \in DOMAIN requests :
           requests[r].reply # "pending" =>
             r \in DOMAIN requests' /\ requests'[r] = requests[r]]_vars
  BY StepSettles DEF Settles
<1> QED  BY InitTold, StepTold, <1>1, PTL DEF Spec, AnsweredOnce
=============================================================================
