-------------------------- MODULE TokenActor_proofs --------------------------
(***************************************************************************)
(* Theorems about TokenActor, for any number of tokens, users, goroutines, *)
(* requests, ticks and restarts, and for any behaviour of the storage the  *)
(* switches of the module allow unless a theorem says otherwise.           *)
(***************************************************************************)
EXTENDS TokenActor, TLAPS, SequenceTheorems

-----------------------------------------------------------------------------
(* Type correctness *)

\* TypeOK is not inductive: a goroutine that works writes below the name it
\* was started with, and NonExistCreate writes below the name of the actor, so
\* neither may be the empty name; and a CreateToken message takes its
\* credentials from a request that has to exist.
WellFormed ==
  /\ \A s \in Syncs : sync[s].pc = "working" => sync[s].id \in Ids
  /\ \A n \in Names : \A k \in DOMAIN mailbox[n] :
       mailbox[n][k].type = "NT" => n \in Ids /\ mailbox[n][k].req \in DOMAIN requests

IInv == TypeOK /\ WellFormed

\* The initial states are typed.
LEMMA InitIInv == Init => IInv
<1>1. ASSUME Init PROVE TypeOK
  BY <1>1, BoundsAssumption, EmptySeq
  DEF Init, TypeOK, NoSync, IdleWorker, ActorStates, SyncPcs, WorkerPcs, Names
<1>2. ASSUME Init PROVE WellFormed
  BY <1>2 DEF Init, WellFormed, NoSync
<1> QED  BY <1>1, <1>2 DEF IInv

\* Appending a message to a mailbox keeps mailboxes typed and their
\* CreateToken messages as they were, but for the one appended.
LEMMA TellTyped ==
  ASSUME IInv, NEW n \in Names, NEW m \in Message, Tell(n, m)
  PROVE  /\ mailbox' \in [Names -> Seq(Message)]
         /\ \A p \in Names : \A k \in DOMAIN mailbox'[p] :
              \/ k \in DOMAIN mailbox[p] /\ mailbox'[p][k] = mailbox[p][k]
              \/ p = n /\ mailbox'[p][k] = m
<1>1. mailbox \in [Names -> Seq(Message)]  BY DEF IInv, TypeOK
<1>2. mailbox' = [mailbox EXCEPT ![n] = Append(mailbox[n], m)]  BY DEF Tell
<1>3. /\ Append(mailbox[n], m) \in Seq(Message)
      /\ Len(Append(mailbox[n], m)) = Len(mailbox[n]) + 1
      /\ \A k \in 1..Len(mailbox[n]) : Append(mailbox[n], m)[k] = mailbox[n][k]
      /\ Append(mailbox[n], m)[Len(mailbox[n]) + 1] = m
  BY <1>1, AppendProperties
<1>4. mailbox' \in [Names -> Seq(Message)]  BY <1>1, <1>2, <1>3
<1>5. ASSUME NEW p \in Names, NEW k \in DOMAIN mailbox'[p]
      PROVE  \/ k \in DOMAIN mailbox[p] /\ mailbox'[p][k] = mailbox[p][k]
             \/ p = n /\ mailbox'[p][k] = m
  <2>1. CASE p # n  BY <2>1, <1>1, <1>2, <1>5
  <2>2. CASE p = n
    <3>1. mailbox'[p] = Append(mailbox[n], m)  BY <2>2, <1>1, <1>2
    <3>2. DOMAIN mailbox[n] = 1..Len(mailbox[n]) /\ Len(mailbox[n]) \in Nat
      BY <1>1, LenProperties
    <3>3. DOMAIN mailbox'[p] = 1..(Len(mailbox[n]) + 1)
      BY <3>1, <1>3, LenProperties
    <3>4. k \in 1..Len(mailbox[n]) \/ k = Len(mailbox[n]) + 1
      BY <3>2, <3>3, <1>5
    <3> QED  BY <3>1, <3>2, <3>4, <1>3, <2>2
  <2> QED  BY <2>1, <2>2
<1> QED  BY <1>4, <1>5

\* Taking the first message keeps the others.
LEMMA BecomeTyped ==
  ASSUME IInv, NEW n \in Names, mailbox[n] # <<>>, NEW state, Become(n, state)
  PROVE  /\ Head(mailbox[n]) \in Message
         /\ Head(mailbox[n]) = mailbox[n][1] /\ 1 \in DOMAIN mailbox[n]
         /\ mailbox' \in [Names -> Seq(Message)]
         /\ \A p \in Names : \A k \in DOMAIN mailbox'[p] :
              \E j \in DOMAIN mailbox[p] : mailbox'[p][k] = mailbox[p][j]
<1>1. mailbox \in [Names -> Seq(Message)]  BY DEF IInv, TypeOK
<1>2. mailbox' = [mailbox EXCEPT ![n] = Tail(mailbox[n])]  BY DEF Become
<1>3. /\ Head(mailbox[n]) \in Message
      /\ Tail(mailbox[n]) \in Seq(Message)
      /\ Len(Tail(mailbox[n])) = Len(mailbox[n]) - 1
      /\ \A i \in 1..Len(Tail(mailbox[n])) : Tail(mailbox[n])[i] = mailbox[n][i + 1]
  BY <1>1, HeadTailProperties
<1>4. DOMAIN mailbox[n] = 1..Len(mailbox[n]) /\ Len(mailbox[n]) \in Nat \ {0}
  BY <1>1, LenProperties, EmptySeq
<1>5. mailbox' \in [Names -> Seq(Message)]  BY <1>1, <1>2, <1>3
<1>6. ASSUME NEW p \in Names, NEW k \in DOMAIN mailbox'[p]
      PROVE  \E j \in DOMAIN mailbox[p] : mailbox'[p][k] = mailbox[p][j]
  <2>1. CASE p # n  BY <2>1, <1>1, <1>2, <1>6
  <2>2. CASE p = n
    <3>1. mailbox'[p] = Tail(mailbox[n])  BY <2>2, <1>1, <1>2
    <3>2. DOMAIN mailbox'[p] = 1..(Len(mailbox[n]) - 1)
      BY <3>1, <1>3, LenProperties
    <3>3. k + 1 \in DOMAIN mailbox[n] /\ mailbox'[p][k] = mailbox[n][k + 1]
      BY <3>1, <3>2, <1>3, <1>4, <1>6
    <3> QED  BY <3>3, <2>2
  <2> QED  BY <2>1, <2>2
<1>7. Head(mailbox[n]) = mailbox[n][1] /\ 1 \in DOMAIN mailbox[n]
  BY <1>1, <1>4
<1> QED  BY <1>3, <1>5, <1>6, <1>7

\* A reply changes no request but for its reply.
LEMMA ReplyTyped ==
  ASSUME IInv, NEW m \in Message, NEW code \in Codes, Reply(m, code)
  PROVE  /\ requests' \in Seq(Request) /\ Len(requests') = Len(requests)
         /\ DOMAIN requests' = DOMAIN requests
<1>1. requests \in Seq(Request)  BY DEF IInv, TypeOK
<1>2. DOMAIN requests = 1..Len(requests)  BY <1>1, LenProperties
<1>3. CASE m.req = 0  BY <1>1, <1>3 DEF Reply
<1>4. CASE m.req # 0 /\ m.req \in DOMAIN requests
  <2> DEFINE e == [requests[m.req] EXCEPT !.reply = code]
  <2>1. e \in Request
    <3>1. requests[m.req] \in Request  BY <1>1, <1>2, <1>4, ElementOfSeq
    <3> QED  BY <3>1 DEF Request
  <2>2. requests' = [requests EXCEPT ![m.req] = e]  BY <1>4 DEF Reply
  <2>3. requests' \in Seq(Request) /\ Len(requests') = Len(requests)
    BY <1>1, <1>2, <1>4, <2>1, <2>2, ExceptSeq
  <2> QED  BY <2>3, <1>2, LenProperties
<1>5. CASE m.req # 0 /\ m.req \notin DOMAIN requests
  <2>1. requests' = [requests EXCEPT ![m.req].reply = code]  BY <1>5 DEF Reply
  <2>2. requests' = requests  BY <2>1, <1>1, <1>2, <1>5, LenProperties
  <2> QED  BY <2>2, <1>1
<1> QED  BY <1>3, <1>4, <1>5

\* The cleanup of HydrateToken leaves a typed storage.
LEMMA CleanUpTyped ==
  ASSUME IInv, NEW n \in Names, CleanUp(n)
  PROVE  value' \in [Ids -> Users \cup {None}] /\ dir' \subseteq Ids
BY DEF IInv, TypeOK, CleanUp, storage

\* WellFormed depends on the mailboxes through the messages in them alone.
LEMMA WellFormedKept ==
  ASSUME IInv, DOMAIN requests \subseteq DOMAIN requests',
         \A s \in Syncs : sync'[s].pc = "working" => sync'[s].id \in Ids,
         \A n \in Names : \A k \in DOMAIN mailbox'[n] :
           \/ mailbox'[n][k].type # "NT"
           \/ \E j \in DOMAIN mailbox[n] : mailbox'[n][k] = mailbox[n][j]
  PROVE  WellFormed'
BY DEF IInv, WellFormed

LEMMA ReceiveIInv ==
  ASSUME IInv, NEW i \in Ids, NEW type \in {"NT", "ST", "DT", "??"},
         NEW u \in Users \cup {None}, Receive(i, type, u)
  PROVE  IInv'
<1> USE DEF IInv
<1> DEFINE e == [id |-> i, type |-> type, user |-> u,
                 reply |-> IF type = "??" THEN "EE" ELSE "pending"]
           m == [type |-> type, req |-> Len(requests) + 1]
<1>1. requests \in Seq(Request) /\ Len(requests) \in Nat /\ DOMAIN requests = 1..Len(requests)
  BY LenProperties DEF TypeOK
<1>2. e \in Request  BY DEF Request, Codes
<1>3. requests' = Append(requests, e)  BY DEF Receive
<1>4. requests' \in Seq(Request) /\ Len(requests') = Len(requests) + 1
  BY <1>1, <1>2, <1>3, AppendProperties
<1>5. DOMAIN requests' = 1..(Len(requests) + 1)  BY <1>4, LenProperties
<1>6. Len(requests') <= MaxRequests  BY <1>1, <1>4, BoundsAssumption DEF Receive
<1>7. CASE type = "??"
  <2>1. TypeOK'  BY <1>7, <1>4, <1>6 DEF TypeOK, Receive, storage
  <2>2. WellFormed'  BY <1>7, <1>1, <1>5 DEF WellFormed, Receive, TypeOK
  <2> QED  BY <2>1, <2>2
<1>8. CASE type # "??"
  <2>1. Post(i, m)  BY <1>8 DEF Receive
  <2>2. m \in Message /\ i \in Names  BY <1>8, <1>1 DEF Message, MessageTypes, Names
  <2>3. /\ mailbox' \in [Names -> Seq(Message)]
        /\ \A p \in Names : \A k \in DOMAIN mailbox'[p] :
             \/ k \in DOMAIN mailbox[p] /\ mailbox'[p][k] = mailbox[p][k]
             \/ p = i /\ mailbox'[p][k] = m
    BY <2>1, <2>2, TellTyped DEF Post
  <2>4. actor' \in [Names -> ActorStates] /\ waker' \in [Names -> Nat]
    BY <2>1, <2>2 DEF Post, TypeOK, ActorStates, Message
  <2>5. TypeOK'  BY <2>3, <2>4, <1>4, <1>6 DEF TypeOK, Receive, storage
  <2>6. WellFormed'
    <3>1. m.req \in DOMAIN requests'  BY <1>1, <1>5
    <3>2. DOMAIN requests \subseteq DOMAIN requests'  BY <1>1, <1>5
    <3>3. \A s \in Syncs : sync'[s].pc = "working" => sync'[s].id \in Ids
      BY DEF WellFormed, Receive
    <3> QED  BY <2>3, <3>1, <3>2, <3>3 DEF WellFormed
  <2> QED  BY <2>5, <2>6
<1> QED  BY <1>7, <1>8

\* The handlers that take a message.
LEMMA HandlerIInv ==
  ASSUME IInv, NEW n \in Names, NEW state \in ActorStates, mailbox[n] # <<>>,
         Become(n, state),
         value' \in [Ids -> Users \cup {None}], dir' \subseteq Ids,
         sync' \in [Syncs -> [pc: SyncPcs, id: Names, user: Users \cup {None}]],
         \A s \in Syncs : sync'[s].pc = "working" => sync'[s].id \in Ids,
         granted' \in [Ids -> Users \cup {None}],
         \/ UNCHANGED requests
         \/ \E code \in Codes : Reply(Head(mailbox[n]), code),
         UNCHANGED <<worker, ticks, crashes, waker>>
  PROVE  IInv'
<1>1. /\ Head(mailbox[n]) \in Message
      /\ mailbox' \in [Names -> Seq(Message)]
      /\ \A p \in Names : \A k \in DOMAIN mailbox'[p] :
           \E j \in DOMAIN mailbox[p] : mailbox'[p][k] = mailbox[p][j]
  BY BecomeTyped
<1>2. /\ requests' \in Seq(Request) /\ Len(requests') = Len(requests)
      /\ DOMAIN requests' = DOMAIN requests
  BY <1>1, ReplyTyped DEF IInv, TypeOK
<1>3. actor' \in [Names -> ActorStates]  BY DEF Become, IInv, TypeOK
<1>4. TypeOK'  BY <1>1, <1>2, <1>3 DEF IInv, TypeOK
<1>5. WellFormed'  BY <1>1, <1>2, WellFormedKept
<1> QED  BY <1>4, <1>5 DEF IInv

LEMMA ActorStepIInv ==
  ASSUME IInv, NEW n \in Names, ActorStep(n)
  PROVE  IInv'
<1> USE DEF IInv
<1>1. CASE NilToken(n)
  <2> DEFINE m == Head(mailbox[n])
  <2>1. mailbox[n] \in Seq(Message) /\ mailbox[n] # <<>>  BY <1>1 DEF NilToken, TypeOK
  <2>2. /\ m \in Message /\ Tail(mailbox[n]) \in Seq(Message)
        /\ Len(Tail(mailbox[n])) = Len(mailbox[n]) - 1
        /\ \A i \in 1..Len(Tail(mailbox[n])) : Tail(mailbox[n])[i] = mailbox[n][i + 1]
    BY <2>1, HeadTailProperties
  <2>3. /\ DOMAIN mailbox[n] = 1..Len(mailbox[n]) /\ Len(mailbox[n]) \in Nat \ {0}
        /\ m = mailbox[n][1]
    BY <2>1, LenProperties, EmptySeq
  <2>4. /\ Append(Tail(mailbox[n]), m) \in Seq(Message)
        /\ Len(Append(Tail(mailbox[n]), m)) = Len(mailbox[n])
        /\ \A i \in 1..(Len(mailbox[n]) - 1) :
             Append(Tail(mailbox[n]), m)[i] = mailbox[n][i + 1]
        /\ Append(Tail(mailbox[n]), m)[Len(mailbox[n])] = m
    <3>1. /\ Append(Tail(mailbox[n]), m) \in Seq(Message)
          /\ Len(Append(Tail(mailbox[n]), m)) = Len(Tail(mailbox[n])) + 1
          /\ \A i \in 1..Len(Tail(mailbox[n])) :
               Append(Tail(mailbox[n]), m)[i] = Tail(mailbox[n])[i]
          /\ Append(Tail(mailbox[n]), m)[Len(Tail(mailbox[n])) + 1] = m
      BY <2>2, AppendProperties
    <3>2. Len(Tail(mailbox[n])) + 1 = Len(mailbox[n])  BY <2>2, <2>3
    <3> QED  BY <3>1, <3>2, <2>2
  <2>5. /\ mailbox' \in [Names -> Seq(Message)]
        /\ mailbox' = [mailbox EXCEPT ![n] = Append(Tail(mailbox[n]), m)]
    BY <2>4, <1>1 DEF NilToken, TypeOK
  <2>6. ASSUME NEW p \in Names, NEW k \in DOMAIN mailbox'[p]
        PROVE  \E j \in DOMAIN mailbox[p] : mailbox'[p][k] = mailbox[p][j]
    <3>1. CASE p # n  BY <3>1, <2>5, <2>6 DEF TypeOK
    <3>2. CASE p = n
      <4>1. mailbox'[p] = Append(Tail(mailbox[n]), m)  BY <3>2, <2>5 DEF TypeOK
      <4>2. k \in 1..Len(mailbox[n])  BY <4>1, <2>4, <2>6, LenProperties
      <4>3. CASE k = Len(mailbox[n])
        <5>1. 1 \in DOMAIN mailbox[n]  BY <2>3
        <5> QED  BY <5>1, <4>1, <4>3, <2>3, <2>4, <3>2
      <4>4. CASE k # Len(mailbox[n])
        <5>1. k \in 1..(Len(mailbox[n]) - 1) /\ k + 1 \in DOMAIN mailbox[n]
          BY <4>2, <4>4, <2>3
        <5> QED  BY <5>1, <4>1, <2>4, <3>2
      <4> QED  BY <4>3, <4>4
    <3> QED  BY <3>1, <3>2
  <2>7. actor' \in [Names -> ActorStates]  BY <1>1 DEF NilToken, TypeOK, ActorStates
  <2>8. TypeOK'  BY <1>1, <2>5, <2>7 DEF NilToken, TypeOK, storage
  <2>9. sync' = sync /\ requests' = requests  BY <1>1 DEF NilToken
  <2>10. WellFormed'  BY <2>6, <2>9, WellFormedKept DEF WellFormed
  <2> QED  BY <2>8, <2>10
<1>2. CASE NilMissing(n)
  <2>1. value' \in [Ids -> Users \cup {None}] /\ dir' \subseteq Ids
    BY <1>2, CleanUpTyped DEF NilMissing
  <2>2. TypeOK'  BY <1>2, <2>1 DEF NilMissing, TypeOK, ActorStates
  <2>3. WellFormed'  BY <1>2 DEF NilMissing, WellFormed
  <2> QED  BY <2>2, <2>3
<1>3. CASE NilFound(n)
  <2>1. TypeOK'  BY <1>3 DEF NilFound, TypeOK, ActorStates, storage
  <2>2. WellFormed'  BY <1>3 DEF NilFound, WellFormed
  <2> QED  BY <2>1, <2>2
<1>4. CASE IgnoreDone(n)
  <2>1. PICK state \in {"NonExist", "Exist"} :
          Handles(n, state, "Done") /\ Become(n, state)
    BY <1>4 DEF IgnoreDone
  <2>2. UNCHANGED <<value, dir, sync, worker, ticks, crashes, requests, granted, waker>>
    BY <1>4 DEF IgnoreDone, storage
  <2> QED  BY <2>1, <2>2, HandlerIInv DEF Handles, TypeOK, WellFormed, ActorStates
<1>5. CASE NonExistCreate(n)
  <2> DEFINE m == Head(mailbox[n])
  <2>1. mailbox[n] # <<>> /\ m.type = "NT"  BY <1>5 DEF NonExistCreate, Handles
  <2>2. m = mailbox[n][1] /\ 1 \in DOMAIN mailbox[n]
    BY <2>1, LenProperties, EmptySeq DEF TypeOK
  <2>3. n \in Ids /\ m.req \in DOMAIN requests  BY <2>1, <2>2 DEF WellFormed
  <2>4. requests[m.req].user \in Users \cup {None}
    <3>1. requests[m.req] \in Request  BY <2>3, LenProperties, ElementOfSeq DEF TypeOK
    <3> QED  BY <3>1 DEF Request
  <2>5. UNCHANGED <<sync, worker, ticks, crashes, waker>>  BY <1>5 DEF NonExistCreate
  <2>6. /\ value' \in [Ids -> Users \cup {None}] /\ dir' \subseteq Ids
        /\ granted' \in [Ids -> Users \cup {None}]
    BY <1>5, <2>3, <2>4 DEF NonExistCreate, PersistToken, TypeOK, storage
  <2>7. \E state \in ActorStates : Become(n, state)
    BY <1>5 DEF NonExistCreate, ActorStates
  <2>8. \E code \in Codes : Reply(m, code)
    BY <1>5 DEF NonExistCreate, Codes
  <2> QED  BY <2>1, <2>5, <2>6, <2>7, <2>8, HandlerIInv DEF TypeOK, WellFormed
<1>6. CASE NonExistRefuse(n)
  <2>1. mailbox[n] # <<>> /\ Become(n, "NonExist") /\ Reply(Head(mailbox[n]), "EM")
    BY <1>6 DEF NonExistRefuse, Handles
  <2>2. UNCHANGED <<value, dir, sync, worker, ticks, crashes, granted, waker>>
    BY <1>6 DEF NonExistRefuse, storage
  <2> QED  BY <2>1, <2>2, HandlerIInv DEF TypeOK, WellFormed, ActorStates, Codes
<1>7. CASE RefuseCreate(n)
  <2>1. PICK state \in {"Exist", "Synchronizing"} :
          mailbox[n] # <<>> /\ Become(n, state) /\ Reply(Head(mailbox[n]), "EE")
    BY <1>7 DEF RefuseCreate, Handles
  <2>2. UNCHANGED <<value, dir, sync, worker, ticks, crashes, granted, waker>>
    BY <1>7 DEF RefuseCreate, storage
  <2>3. state \in ActorStates  BY DEF ActorStates
  <2>4. \E code \in Codes : Reply(Head(mailbox[n]), code)  BY <2>1 DEF Codes
  <2>5. /\ sync' \in [Syncs -> [pc: SyncPcs, id: Names, user: Users \cup {None}]]
        /\ \A s \in Syncs : sync'[s].pc = "working" => sync'[s].id \in Ids
    BY <2>2 DEF TypeOK, WellFormed
  <2> QED  BY <2>1, <2>2, <2>3, <2>4, <2>5, HandlerIInv DEF TypeOK
<1>8. CASE ExistSynchronize(n)
  <2>1. mailbox[n] # <<>> /\ Become(n, "Synchronizing") /\ Reply(Head(mailbox[n]), "TS")
    BY <1>8 DEF ExistSynchronize, Handles
  <2>2. UNCHANGED <<value, dir, worker, ticks, crashes, granted, waker>>
    BY <1>8 DEF ExistSynchronize, storage
  <2>3. PICK s \in Syncs :
          sync' = [sync EXCEPT ![s] = [pc |-> "lookup", id |-> n, user |-> None]]
    BY <1>8 DEF ExistSynchronize
  <2>4. sync' \in [Syncs -> [pc: SyncPcs, id: Names, user: Users \cup {None}]]
    BY <2>3 DEF TypeOK, SyncPcs
  <2>5. \A t \in Syncs : sync'[t].pc = "working" => sync'[t].id \in Ids
    BY <2>3 DEF WellFormed, TypeOK
  <2> QED  BY <2>1, <2>2, <2>4, <2>5, HandlerIInv DEF TypeOK, ActorStates, Codes
<1>9. CASE DeleteExisting(n)
  <2>1. mailbox[n] # <<>> /\ UNCHANGED <<sync, worker, ticks, crashes, waker>>
    BY <1>9 DEF DeleteExisting, Handles
  <2>2. /\ value' \in [Ids -> Users \cup {None}] /\ dir' \subseteq Ids
        /\ granted' \in [Ids -> Users \cup {None}]
    BY <1>9 DEF DeleteExisting, DeleteToken, TypeOK, storage
  <2>3. \E state \in ActorStates : Become(n, state)
    BY <1>9 DEF DeleteExisting, ActorStates
  <2>4. \E code \in Codes : Reply(Head(mailbox[n]), code)
    BY <1>9 DEF DeleteExisting, Codes
  <2> QED  BY <2>1, <2>2, <2>3, <2>4, HandlerIInv DEF TypeOK, WellFormed
<1>10. CASE SynchronizingDone(n)
  <2>1. mailbox[n] # <<>> /\ Become(n, "Exist")
    BY <1>10 DEF SynchronizingDone, Handles
  <2>2. UNCHANGED <<value, dir, sync, worker, ticks, crashes, requests, granted, waker>>
    BY <1>10 DEF SynchronizingDone, storage
  <2> QED  BY <2>1, <2>2, HandlerIInv DEF TypeOK, WellFormed, ActorStates
<1>11. CASE SynchronizingSynchronize(n)
  <2>1. mailbox[n] # <<>> /\ Become(n, "Synchronizing") /\ Reply(Head(mailbox[n]), "TS")
    BY <1>11 DEF SynchronizingSynchronize, Handles
  <2>2. UNCHANGED <<value, dir, sync, worker, ticks, crashes, granted, waker>>
    BY <1>11 DEF SynchronizingSynchronize, storage
  <2> QED  BY <2>1, <2>2, HandlerIInv DEF TypeOK, WellFormed, ActorStates, Codes
<1> QED
  BY <1>1, <1>2, <1>3, <1>4, <1>5, <1>6, <1>7, <1>8, <1>9, <1>10, <1>11 DEF ActorStep

LEMMA SyncStepIInv ==
  ASSUME IInv, NEW s \in Syncs, SyncStep(s)
  PROVE  IInv'
<1> USE DEF IInv
<1> DEFINE SyncTyped == sync' \in [Syncs -> [pc: SyncPcs, id: Names, user: Users \cup {None}]]
<1>0. sync[s] \in [pc: SyncPcs, id: Names, user: Users \cup {None}]  BY DEF TypeOK
<1>1. CASE SyncLookup(s)
  <2>1. PICK found \in {"found", "missing"} : sync' = [sync EXCEPT ![s].pc = found]
    BY <1>1 DEF SyncLookup, Lookup
  <2>2. SyncTyped  BY <2>1, <1>0 DEF TypeOK, SyncPcs
  <2>3. TypeOK'  BY <1>1, <2>2 DEF SyncLookup, TypeOK, storage
  <2>4. WellFormed'  BY <1>1, <2>1 DEF SyncLookup, WellFormed, TypeOK
  <2> QED  BY <2>3, <2>4
<1>2. CASE SyncMissing(s)
  <2>1. sync' = [sync EXCEPT ![s].pc = "ending"]  BY <1>2 DEF SyncMissing
  <2>2. SyncTyped  BY <2>1, <1>0 DEF TypeOK, SyncPcs
  <2>3. value' \in [Ids -> Users \cup {None}] /\ dir' \subseteq Ids
    BY <1>2, <1>0, CleanUpTyped DEF SyncMissing
  <2>4. TypeOK'  BY <1>2, <2>2, <2>3 DEF SyncMissing, TypeOK
  <2>5. WellFormed'  BY <1>2, <2>1 DEF SyncMissing, WellFormed, TypeOK
  <2> QED  BY <2>4, <2>5
<1>3. CASE SyncFound(s)
  <2>1. CASE /\ Stored(sync[s].id)
             /\ sync' = [sync EXCEPT ![s].pc = "working", ![s].user = value[sync[s].id]]
    <3>1. sync[s].id \in Ids /\ value[sync[s].id] \in Users \cup {None}
      BY <2>1 DEF Stored, TypeOK
    <3>2. SyncTyped  BY <2>1, <3>1, <1>0 DEF TypeOK, SyncPcs
    <3>3. TypeOK'  BY <1>3, <3>2 DEF SyncFound, TypeOK, storage
    <3>4. WellFormed'  BY <1>3, <2>1, <3>1 DEF SyncFound, WellFormed, TypeOK
    <3> QED  BY <3>3, <3>4
  <2>2. CASE sync' = [sync EXCEPT ![s].pc = "ending"]
    <3>1. SyncTyped  BY <2>2, <1>0 DEF TypeOK, SyncPcs
    <3>2. TypeOK'  BY <1>3, <3>1 DEF SyncFound, TypeOK, storage
    <3>3. WellFormed'  BY <1>3, <2>2 DEF SyncFound, WellFormed, TypeOK
    <3> QED  BY <3>2, <3>3
  <2> QED  BY <1>3, <2>1, <2>2 DEF SyncFound, ReadOutcomes
<1>4. CASE SyncUpdate(s)
  <2>1. sync[s].id \in Ids  BY <1>4 DEF SyncUpdate, WellFormed
  <2>2. TypeOK'  BY <1>4, <2>1, <1>0 DEF SyncUpdate, UpdateToken, TypeOK
  <2>3. WellFormed'  BY <1>4 DEF SyncUpdate, WellFormed
  <2> QED  BY <2>2, <2>3
<1>5. CASE SyncTouch(s)
  <2>1. sync[s].id \in Ids  BY <1>5 DEF SyncTouch, WellFormed
  <2>2. TypeOK'  BY <1>5, <2>1 DEF SyncTouch, TypeOK
  <2>3. WellFormed'  BY <1>5 DEF SyncTouch, WellFormed
  <2> QED  BY <2>2, <2>3
<1>6. CASE SyncEnd(s)
  <2> DEFINE m == [type |-> "Done", req |-> 0]
  <2>1. /\ m \in Message /\ sync[s].id \in Names /\ Tell(sync[s].id, m)
        /\ sync' = [sync EXCEPT ![s] = NoSync]
    BY <1>6, <1>0 DEF SyncEnd, Message, MessageTypes
  <2>2. /\ mailbox' \in [Names -> Seq(Message)]
        /\ \A p \in Names : \A k \in DOMAIN mailbox'[p] :
             \/ k \in DOMAIN mailbox[p] /\ mailbox'[p][k] = mailbox[p][k]
             \/ p = sync[s].id /\ mailbox'[p][k] = m
    BY <2>1, TellTyped
  <2>3. SyncTyped  BY <2>1 DEF TypeOK, NoSync, SyncPcs, Names
  <2>4. TypeOK'  BY <1>6, <2>2, <2>3 DEF SyncEnd, TypeOK, storage
  <2>5. \A t \in Syncs : sync'[t].pc = "working" => sync'[t].id \in Ids
    BY <2>1 DEF WellFormed, NoSync, TypeOK
  <2>6. \A p \in Names : \A k \in DOMAIN mailbox'[p] :
          \/ mailbox'[p][k].type # "NT"
          \/ \E j \in DOMAIN mailbox[p] : mailbox'[p][k] = mailbox[p][j]
    BY <2>2
  <2>7. requests' = requests  BY <1>6 DEF SyncEnd
  <2>8. WellFormed'  BY <2>5, <2>6, <2>7, WellFormedKept
  <2> QED  BY <2>4, <2>8
<1> QED  BY <1>1, <1>2, <1>3, <1>4, <1>5, <1>6 DEF SyncStep

LEMMA WorkerStepIInv ==
  ASSUME IInv, WorkerStep
  PROVE  IInv'
<1> USE DEF IInv
<1> DEFINE Typed(w) == w \in [pc: WorkerPcs, todo: SUBSET Ids, at: Names,
                              seen: SUBSET (Users \cup {None}), uniq: Seq(Names)]
<1>0. Typed(worker)  BY DEF TypeOK
<1>1. CASE WorkerTick
  <2>1. Typed(worker')  BY <1>1, EmptySeq DEF WorkerTick, IdleWorker, WorkerPcs, Names, TypeOK
  <2>2. ticks' \in 0..MaxTicks  BY <1>1, BoundsAssumption DEF WorkerTick, TypeOK
  <2>3. TypeOK'  BY <1>1, <2>1, <2>2 DEF WorkerTick, TypeOK, storage
  <2>4. WellFormed'  BY <1>1 DEF WorkerTick, WellFormed
  <2> QED  BY <2>3, <2>4
<1>2. CASE WorkerLookup
  <2>1. PICK n \in worker.todo, found \in {"found", "missing"} :
          worker' = [worker EXCEPT !.pc = found, !.at = n, !.todo = worker.todo \ {n}]
    BY <1>2 DEF WorkerLookup, Lookup
  <2>2. Typed(worker')  BY <2>1, <1>0 DEF WorkerPcs, Names
  <2>3. TypeOK'  BY <1>2, <2>2 DEF WorkerLookup, TypeOK, storage
  <2>4. WellFormed'  BY <1>2 DEF WorkerLookup, WellFormed
  <2> QED  BY <2>3, <2>4
<1>3. ASSUME NEW n \in Names, NEW u \in Users \cup {None}, Collect(n, u)
      PROVE  Typed(worker')
  <2>1. Append(worker.uniq, n) \in Seq(Names)  BY <1>0, <1>3, AppendProperties
  <2> QED  BY <2>1, <1>0, <1>3 DEF Collect, WorkerPcs, Names
<1>4. CASE WorkerMissing
  <2>1. Typed(worker')  BY <1>4, <1>3 DEF WorkerMissing, Names
  <2>2. value' \in [Ids -> Users \cup {None}] /\ dir' \subseteq Ids
    BY <1>4, <1>0, CleanUpTyped DEF WorkerMissing
  <2>3. TypeOK'  BY <1>4, <2>1, <2>2 DEF WorkerMissing, TypeOK
  <2>4. WellFormed'  BY <1>4 DEF WorkerMissing, WellFormed
  <2> QED  BY <2>3, <2>4
<1>5. CASE WorkerFound
  <2>1. CASE Stored(worker.at) /\ Collect(worker.at, value[worker.at])
    <3>1. value[worker.at] \in Users \cup {None}  BY <2>1 DEF Stored, TypeOK
    <3> QED
      <4>1. Typed(worker')  BY <2>1, <3>1, <1>0, <1>3
      <4>2. TypeOK'  BY <1>5, <4>1 DEF WorkerFound, TypeOK, storage
      <4>3. WellFormed'  BY <1>5 DEF WorkerFound, WellFormed
      <4> QED  BY <4>2, <4>3
  <2>2. CASE Collect(NoName, None)
    <3>1. Typed(worker')  BY <2>2, <1>3 DEF Names
    <3>2. TypeOK'  BY <1>5, <3>1 DEF WorkerFound, TypeOK, storage
    <3>3. WellFormed'  BY <1>5 DEF WorkerFound, WellFormed
    <3> QED  BY <3>2, <3>3
  <2> QED  BY <1>5, <2>1, <2>2 DEF WorkerFound, ReadOutcomes
<1>6. CASE WorkerListed
  <2>1. Typed(worker')  BY <1>6, <1>0 DEF WorkerListed, WorkerPcs
  <2>2. TypeOK'  BY <1>6, <2>1 DEF WorkerListed, TypeOK, storage
  <2>3. WellFormed'  BY <1>6 DEF WorkerListed, WellFormed
  <2> QED  BY <2>2, <2>3
<1>7. CASE WorkerSend
  <2> DEFINE n == Head(worker.uniq)
             m == [type |-> "ST", req |-> 0]
  <2>1. n \in Names /\ Tail(worker.uniq) \in Seq(Names)
    BY <1>7, <1>0, HeadTailProperties DEF WorkerSend
  <2>2. Typed(worker')  BY <1>7, <2>1, <1>0 DEF WorkerSend
  <2>3. CASE Post(n, m)
    <3>1. m \in Message  BY DEF Message, MessageTypes
    <3>2. /\ mailbox' \in [Names -> Seq(Message)]
          /\ \A p \in Names : \A k \in DOMAIN mailbox'[p] :
               \/ k \in DOMAIN mailbox[p] /\ mailbox'[p][k] = mailbox[p][k]
               \/ p = n /\ mailbox'[p][k] = m
      BY <2>1, <2>3, <3>1, TellTyped DEF Post
    <3>3. actor' \in [Names -> ActorStates] /\ waker' \in [Names -> Nat]
      BY <2>1, <2>3 DEF Post, TypeOK, ActorStates
    <3>4. TypeOK'  BY <1>7, <2>2, <3>2, <3>3 DEF WorkerSend, TypeOK, storage
    <3>5. sync' = sync /\ requests' = requests  BY <1>7 DEF WorkerSend
    <3>6. \A p \in Names : \A k \in DOMAIN mailbox'[p] :
            \/ mailbox'[p][k].type # "NT"
            \/ \E j \in DOMAIN mailbox[p] : mailbox'[p][k] = mailbox[p][j]
      BY <3>2
    <3>7. WellFormed'  BY <3>5, <3>6, WellFormedKept DEF WellFormed
    <3> QED  BY <3>4, <3>7
  <2>4. CASE UNCHANGED <<mailbox, actor, waker>>
    <3>1. TypeOK'  BY <1>7, <2>2, <2>4 DEF WorkerSend, TypeOK, storage
    <3>2. WellFormed'  BY <1>7, <2>4 DEF WorkerSend, WellFormed
    <3> QED  BY <3>1, <3>2
  <2> QED  BY <1>7, <2>3, <2>4 DEF WorkerSend
<1> QED  BY <1>1, <1>2, <1>4, <1>5, <1>6, <1>7 DEF WorkerStep

LEMMA CrashIInv ==
  ASSUME IInv, Crash
  PROVE  IInv'
<1> USE DEF IInv
<1>1. requests \in [1..Len(requests) -> Request] /\ Len(requests) \in Nat
  BY LenProperties DEF TypeOK
<1>2. requests' \in [1..Len(requests) -> Request]
  <2>1. ASSUME NEW q \in Request PROVE [q EXCEPT !.reply = "lost"] \in Request
    BY DEF Request
  <2>2. \A r \in 1..Len(requests) : requests[r] \in Request  BY <1>1
  <2>3. requests' = [r \in 1..Len(requests) |->
          IF requests[r].reply = "pending"
          THEN [requests[r] EXCEPT !.reply = "lost"] ELSE requests[r]]
    BY <1>1 DEF Crash
  <2> QED  BY <2>1, <2>2, <2>3
<1>3. requests' \in Seq(Request)  BY <1>1, <1>2, SeqDef
<1>4. Len(requests') = Len(requests)  BY <1>1, <1>2, <1>3, LenProperties
<1>5. crashes' \in 0..MaxCrashes  BY BoundsAssumption DEF Crash, TypeOK
<1>6. /\ mailbox' \in [Names -> Seq(Message)] /\ actor' \in [Names -> ActorStates]
      /\ waker' \in [Names -> Nat]
  BY EmptySeq DEF Crash, ActorStates
<1>7. sync' \in [Syncs -> [pc: SyncPcs, id: Names, user: Users \cup {None}]]
  BY DEF Crash, NoSync, SyncPcs, Names
<1>8. worker' \in [pc: WorkerPcs, todo: SUBSET Ids, at: Names,
                   seen: SUBSET (Users \cup {None}), uniq: Seq(Names)]
  BY EmptySeq DEF Crash, IdleWorker, WorkerPcs, Names
<1>9. TypeOK'  BY <1>3, <1>4, <1>5, <1>6, <1>7, <1>8 DEF Crash, TypeOK, storage
<1>10. WellFormed'  BY DEF Crash, WellFormed, NoSync
<1> QED  BY <1>9, <1>10

\* IInv is inductive.
LEMMA StepIInv == IInv /\ [Next]_vars => IInv'
<1> SUFFICES ASSUME IInv, [Next]_vars PROVE IInv'  OBVIOUS
<1>1. ASSUME NEW i \in Ids, NEW type \in Operations \ {"NT"}, Receive(i, type, None)
      PROVE IInv'
  BY <1>1, ReceiveIInv, OperationsAssumption
<1>2. ASSUME NEW i \in Ids, NEW u \in Users, Receive(i, "NT", u) PROVE IInv'
  BY <1>2, ReceiveIInv
<1>3. CASE UNCHANGED vars
  BY <1>3 DEF vars, IInv, TypeOK, WellFormed
<1> QED
  BY <1>1, <1>2, <1>3, ActorStepIInv, SyncStepIInv, WorkerStepIInv, CrashIInv DEF Next

\* Every reachable state is typed.
THEOREM Spec_TypeOK == Spec => []TypeOK
<1>1. IInv => TypeOK  BY DEF IInv
<1> QED  BY InitIInv, StepIInv, <1>1, PTL DEF Spec

-----------------------------------------------------------------------------
(* Deleted tokens stay deleted *)

\* The removal of a directory only takes credentials away.
LEMMA CleanUpRemoves ==
  ASSUME IInv, NEW n \in Names, CleanUp(n), NEW i \in Ids
  PROVE  value'[i] = value[i] \/ value'[i] = None
BY DEF CleanUp, storage, IInv, TypeOK

\* A goroutine of an earlier life of the token finds no file to write to.
LEMMA StepDeletedIsAbsent ==
  ASSUME ~WriteFileCreates, IInv, DeletedIsAbsent, [Next]_vars
  PROVE  DeletedIsAbsent'
<1> SUFFICES ASSUME NEW i \in Ids, granted'[i] = None PROVE value'[i] = None
  BY DEF DeletedIsAbsent
<1> USE DEF IInv
<1>1. ASSUME value'[i] = value[i] \/ value'[i] = None, UNCHANGED granted
      PROVE value'[i] = None
  BY <1>1 DEF DeletedIsAbsent
<1>2. ASSUME NEW j \in Ids, NEW type, NEW u, Receive(j, type, u) PROVE value'[i] = None
  BY <1>2, <1>1 DEF Receive, storage
<1>3. ASSUME NEW n \in Names, ActorStep(n) PROVE value'[i] = None
  <2>1. CASE NilMissing(n)  BY <2>1, <1>1, CleanUpRemoves DEF NilMissing
  <2>2. CASE NonExistCreate(n)
    <3>1. CASE PersistToken(n, requests[Head(mailbox[n]).req].user)
               /\ granted' = [granted EXCEPT ![n] = requests[Head(mailbox[n]).req].user]
      BY <3>1 DEF PersistToken, DeletedIsAbsent, TypeOK
    <3>2. CASE UNCHANGED <<storage, granted>>  BY <3>2, <1>1 DEF storage
    <3> QED  BY <2>2, <3>1, <3>2 DEF NonExistCreate
  <2>3. CASE DeleteExisting(n)
    <3>1. CASE DeleteToken(n) /\ granted' = [granted EXCEPT ![n] = None]
      BY <3>1 DEF DeleteToken, DeletedIsAbsent, TypeOK
    <3>2. CASE UNCHANGED <<storage, granted>>  BY <3>2, <1>1 DEF storage
    <3> QED  BY <2>3, <3>1, <3>2 DEF DeleteExisting
  <2>4. CASE NilToken(n)  BY <2>4, <1>1 DEF NilToken, storage
  <2>5. CASE NilFound(n)  BY <2>5, <1>1 DEF NilFound, storage
  <2>6. CASE IgnoreDone(n)  BY <2>6, <1>1 DEF IgnoreDone, storage
  <2>7. CASE NonExistRefuse(n)  BY <2>7, <1>1 DEF NonExistRefuse, storage
  <2>8. CASE RefuseCreate(n)  BY <2>8, <1>1 DEF RefuseCreate, storage
  <2>9. CASE ExistSynchronize(n)  BY <2>9, <1>1 DEF ExistSynchronize, storage
  <2>10. CASE SynchronizingDone(n)  BY <2>10, <1>1 DEF SynchronizingDone, storage
  <2>11. CASE SynchronizingSynchronize(n)
    BY <2>11, <1>1 DEF SynchronizingSynchronize, storage
  <2> QED
    BY <1>3, <2>1, <2>2, <2>3, <2>4, <2>5, <2>6, <2>7, <2>8, <2>9, <2>10, <2>11
    DEF ActorStep
<1>4. ASSUME NEW s \in Syncs, SyncStep(s) PROVE value'[i] = None
  <2>1. CASE SyncMissing(s)
    <3>1. sync[s].id \in Names  BY DEF TypeOK
    <3> QED  BY <2>1, <3>1, <1>1, CleanUpRemoves DEF SyncMissing
  <2>2. CASE SyncUpdate(s)
    <3>1. value[sync[s].id] # None /\ granted' = granted
      BY <2>2 DEF SyncUpdate, UpdateToken, Stored
    <3>2. i # sync[s].id  BY <3>1 DEF DeletedIsAbsent
    <3>3. value'[i] = value[i]  BY <2>2, <3>2 DEF SyncUpdate, UpdateToken, TypeOK
    <3> QED  BY <3>1, <3>3, <1>1
  <2>3. CASE SyncLookup(s)  BY <2>3, <1>1 DEF SyncLookup, storage
  <2>4. CASE SyncFound(s)  BY <2>4, <1>1 DEF SyncFound, storage
  <2>5. CASE SyncTouch(s)  BY <2>5, <1>1 DEF SyncTouch
  <2>6. CASE SyncEnd(s)  BY <2>6, <1>1 DEF SyncEnd, storage
  <2> QED  BY <1>4, <2>1, <2>2, <2>3, <2>4, <2>5, <2>6 DEF SyncStep
<1>5. CASE WorkerStep
  <2>1. CASE WorkerMissing
    <3>1. worker.at \in Names  BY DEF TypeOK
    <3> QED  BY <2>1, <3>1, <1>1, CleanUpRemoves DEF WorkerMissing
  <2>2. CASE WorkerTick \/ WorkerLookup \/ WorkerFound \/ WorkerListed \/ WorkerSend
    BY <2>2, <1>1
    DEF WorkerTick, WorkerLookup, WorkerFound, WorkerListed, WorkerSend, storage
  <2> QED  BY <1>5, <2>1, <2>2 DEF WorkerStep
<1>6. CASE Crash  BY <1>6, <1>1 DEF Crash, storage
<1>7. CASE UNCHANGED vars  BY <1>7, <1>1 DEF vars
<1> QED  BY <1>2, <1>3, <1>4, <1>5, <1>6, <1>7 DEF Next

\* Unless WriteFile creates files that are missing, no credentials come back
\* after an acknowledged delete, whatever goroutines and restarts intervene
\* and whatever calls of the storage fail (token.go, lines 133-145).
THEOREM Spec_DeletedIsAbsent ==
  ASSUME ~WriteFileCreates
  PROVE  Spec => []DeletedIsAbsent
<1>1. Init => DeletedIsAbsent  BY DEF Init, DeletedIsAbsent
<1>2. IInv /\ DeletedIsAbsent /\ [Next]_vars => DeletedIsAbsent'
  BY StepDeletedIsAbsent
<1> QED  BY InitIInv, StepIInv, <1>1, <1>2, PTL DEF Spec

-----------------------------------------------------------------------------
(* Synchronizing ends with a message *)

\* What keeps the actor n informed: a goroutine, or its last message.
Informed(n) ==
  \/ \E s \in Syncs : sync[s].pc # "idle" /\ sync[s].id = n
  \/ \E k \in DOMAIN mailbox[n] : mailbox[n][k].type = "Done"

\* Telling an actor something takes nothing out of the mailboxes.
LEMMA TellKeeps ==
  ASSUME IInv, NEW n \in Names, NEW m \in Message, Tell(n, m)
  PROVE  /\ \A p \in Names : \A k \in DOMAIN mailbox[p] :
              k \in DOMAIN mailbox'[p] /\ mailbox'[p][k] = mailbox[p][k]
         /\ \E k \in DOMAIN mailbox'[n] : mailbox'[n][k] = m
<1>1. mailbox \in [Names -> Seq(Message)]  BY DEF IInv, TypeOK
<1>2. mailbox' = [mailbox EXCEPT ![n] = Append(mailbox[n], m)]  BY DEF Tell
<1>3. /\ Append(mailbox[n], m) \in Seq(Message)
      /\ Len(Append(mailbox[n], m)) = Len(mailbox[n]) + 1
      /\ \A k \in 1..Len(mailbox[n]) : Append(mailbox[n], m)[k] = mailbox[n][k]
      /\ Append(mailbox[n], m)[Len(mailbox[n]) + 1] = m
  BY <1>1, AppendProperties
<1>4. /\ DOMAIN mailbox[n] = 1..Len(mailbox[n]) /\ Len(mailbox[n]) \in Nat
      /\ DOMAIN Append(mailbox[n], m) = 1..(Len(mailbox[n]) + 1)
  BY <1>1, <1>3, LenProperties
<1>5. mailbox'[n] = Append(mailbox[n], m)  BY <1>1, <1>2
<1>6. \E k \in DOMAIN mailbox'[n] : mailbox'[n][k] = m
  <2>1. Len(mailbox[n]) + 1 \in DOMAIN mailbox'[n]  BY <1>4, <1>5
  <2> QED  BY <2>1, <1>3, <1>5
<1>7. ASSUME NEW p \in Names, NEW k \in DOMAIN mailbox[p]
      PROVE  k \in DOMAIN mailbox'[p] /\ mailbox'[p][k] = mailbox[p][k]
  <2>1. CASE p = n  BY <2>1, <1>3, <1>4, <1>5, <1>7
  <2>2. CASE p # n  BY <2>2, <1>1, <1>2, <1>7
  <2> QED  BY <2>1, <2>2
<1> QED  BY <1>6, <1>7

\* Taking a message that is not a SynchornizationDone keeps those in line.
LEMMA BecomeKeeps ==
  ASSUME IInv, NEW n \in Names, mailbox[n] # <<>>, NEW state, Become(n, state),
         Head(mailbox[n]).type # "Done", NEW p \in Names,
         \E k \in DOMAIN mailbox[p] : mailbox[p][k].type = "Done"
  PROVE  \E k \in DOMAIN mailbox'[p] : mailbox'[p][k].type = "Done"
<1>1. mailbox \in [Names -> Seq(Message)]  BY DEF IInv, TypeOK
<1>2. mailbox' = [mailbox EXCEPT ![n] = Tail(mailbox[n])]  BY DEF Become
<1>3. PICK k \in DOMAIN mailbox[p] : mailbox[p][k].type = "Done"  OBVIOUS
<1>4. CASE p # n  BY <1>1, <1>2, <1>3, <1>4
<1>5. CASE p = n
  <2>1. /\ Tail(mailbox[n]) \in Seq(Message)
        /\ Len(Tail(mailbox[n])) = Len(mailbox[n]) - 1
        /\ \A i \in 1..Len(Tail(mailbox[n])) : Tail(mailbox[n])[i] = mailbox[n][i + 1]
    BY <1>1, HeadTailProperties
  <2>2. /\ DOMAIN mailbox[n] = 1..Len(mailbox[n]) /\ Len(mailbox[n]) \in Nat \ {0}
        /\ DOMAIN Tail(mailbox[n]) = 1..(Len(mailbox[n]) - 1)
        /\ Head(mailbox[n]) = mailbox[n][1]
    BY <1>1, <2>1, LenProperties, EmptySeq
  <2>3. k # 1 /\ k \in 1..Len(mailbox[n])  BY <1>3, <1>5, <2>2
  <2>4. k - 1 \in 1..(Len(mailbox[n]) - 1) /\ (k - 1) + 1 = k  BY <2>2, <2>3
  <2>5. Tail(mailbox[n])[k - 1] = mailbox[n][k]  BY <2>1, <2>4
  <2>6. mailbox'[p] = Tail(mailbox[n])  BY <1>1, <1>2, <1>5
  <2> QED  BY <1>3, <1>5, <2>2, <2>4, <2>5, <2>6
<1> QED  BY <1>4, <1>5

\* A handler that leaves the goroutines alone and takes no SynchornizationDone.
LEMMA BecomeInformed ==
  ASSUME IInv, NEW n \in Names, mailbox[n] # <<>>, NEW state, Become(n, state),
         Head(mailbox[n]).type # "Done", sync' = sync,
         NEW p \in Names, Informed(p)
  PROVE  Informed(p)'
<1>1. CASE \E s \in Syncs : sync[s].pc # "idle" /\ sync[s].id = p
  BY <1>1 DEF Informed
<1>2. CASE \E k \in DOMAIN mailbox[p] : mailbox[p][k].type = "Done"
  BY <1>2, BecomeKeeps DEF Informed
<1> QED  BY <1>1, <1>2 DEF Informed

\* A message told to somebody while the goroutines do not change.
LEMMA TellInformed ==
  ASSUME IInv, NEW n \in Names, NEW m \in Message, Tell(n, m), sync' = sync,
         NEW p \in Names, Informed(p)
  PROVE  Informed(p)'
BY TellKeeps DEF Informed

LEMMA StepSynchronizingHasSync ==
  ASSUME IInv, SynchronizingHasSync, [Next]_vars
  PROVE  SynchronizingHasSync'
<1> SUFFICES ASSUME NEW p \in Names, actor'[p] = "Synchronizing" PROVE Informed(p)'
  BY DEF SynchronizingHasSync, Informed
<1> USE DEF IInv
<1>0. actor[p] = "Synchronizing" => Informed(p)  BY DEF SynchronizingHasSync, Informed
<1>1. ASSUME UNCHANGED <<mailbox, sync>>, actor[p] = "Synchronizing" PROVE Informed(p)'
  BY <1>0, <1>1 DEF Informed
<1>2. ASSUME NEW i \in Ids, NEW type \in {"NT", "ST", "DT", "??"},
             NEW u \in Users \cup {None}, Receive(i, type, u)
      PROVE Informed(p)'
  <2> DEFINE m == [type |-> type, req |-> Len(requests) + 1]
  <2>1. CASE type = "??"  BY <1>1, <1>2, <2>1 DEF Receive
  <2>2. CASE type # "??"
    <3>1. m \in Message /\ i \in Names /\ Post(i, m) /\ sync' = sync
      <4>1. Len(requests) \in Nat  BY LenProperties DEF TypeOK
      <4> QED  BY <4>1, <1>2, <2>2 DEF Receive, Message, MessageTypes, Names
    <3>2. actor[p] = "Synchronizing"  BY <3>1 DEF Post, TypeOK
    <3> QED  BY <3>1, <3>2, <1>0, TellInformed DEF Post
  <2> QED  BY <2>1, <2>2
<1>3. ASSUME NEW n \in Names, ActorStep(n) PROVE Informed(p)'
  <2>1. ASSUME p # n, sync' = sync, NEW q, mailbox' = [mailbox EXCEPT ![n] = q],
               NEW state, actor' = [actor EXCEPT ![n] = state]
        PROVE Informed(p)'
    <3>1. actor[p] = "Synchronizing" /\ mailbox'[p] = mailbox[p]  BY <2>1 DEF TypeOK
    <3> QED  BY <3>1, <2>1, <1>0 DEF Informed
  <2>2. ASSUME mailbox[n] # <<>>, Head(mailbox[n]).type # "Done", sync' = sync,
               NEW state, Become(n, state),
               p = n /\ state = "Synchronizing" => actor[n] = "Synchronizing"
        PROVE Informed(p)'
    <3>1. actor[p] = "Synchronizing"  BY <2>2 DEF Become, TypeOK
    <3> QED  BY <3>1, <2>2, <1>0, BecomeInformed
  <2>3. CASE NilToken(n)
    <3>1. p # n  BY <2>3 DEF NilToken, TypeOK
    <3> QED  BY <2>3, <3>1, <2>1 DEF NilToken
  <2>4. CASE NilMissing(n)
    <3>1. actor[p] = "Synchronizing"  BY <2>4 DEF NilMissing, TypeOK
    <3> QED  BY <2>4, <3>1, <1>1 DEF NilMissing
  <2>5. CASE NilFound(n)
    <3>1. actor[p] = "Synchronizing"  BY <2>5 DEF NilFound, TypeOK
    <3> QED  BY <2>5, <3>1, <1>1 DEF NilFound
  <2>6. CASE IgnoreDone(n)
    <3>1. p # n  BY <2>6 DEF IgnoreDone, Become, TypeOK
    <3> QED  BY <2>6, <3>1, <2>1 DEF IgnoreDone, Become
  <2>7. CASE NonExistCreate(n)
    BY <2>7, <2>2 DEF NonExistCreate, Handles
  <2>8. CASE NonExistRefuse(n)
    BY <2>8, <2>2 DEF NonExistRefuse, Handles
  <2>9. CASE RefuseCreate(n)
    BY <2>9, <2>2 DEF RefuseCreate, Handles
  <2>10. CASE ExistSynchronize(n)
    <3>1. PICK s \in Syncs :
            /\ sync[s].pc = "idle"
            /\ sync' = [sync EXCEPT ![s] = [pc |-> "lookup", id |-> n, user |-> None]]
      BY <2>10 DEF ExistSynchronize
    <3>2. CASE p = n  BY <3>1, <3>2 DEF Informed, TypeOK
    <3>3. CASE p # n
      <4>1. actor[p] = "Synchronizing" /\ mailbox'[p] = mailbox[p]
        BY <2>10, <3>3 DEF ExistSynchronize, Become, TypeOK
      <4>2. \A t \in Syncs : sync[t].pc # "idle" => sync'[t] = sync[t]
        BY <3>1 DEF TypeOK
      <4> QED  BY <4>1, <4>2, <1>0 DEF Informed
    <3> QED  BY <3>2, <3>3
  <2>11. CASE DeleteExisting(n)
    BY <2>11, <2>2 DEF DeleteExisting, Handles
  <2>12. CASE SynchronizingDone(n)
    <3>1. p # n  BY <2>12 DEF SynchronizingDone, Become, TypeOK
    <3> QED  BY <2>12, <3>1, <2>1 DEF SynchronizingDone, Become
  <2>13. CASE SynchronizingSynchronize(n)
    BY <2>13, <2>2 DEF SynchronizingSynchronize, Handles
  <2> QED
    BY <1>3, <2>3, <2>4, <2>5, <2>6, <2>7, <2>8, <2>9, <2>10, <2>11, <2>12, <2>13
    DEF ActorStep
<1>4. ASSUME NEW s \in Syncs, SyncStep(s) PROVE Informed(p)'
  <2>1. actor[p] = "Synchronizing" /\ Informed(p)
    BY <1>4, <1>0
    DEF SyncStep, SyncLookup, SyncMissing, SyncFound, SyncUpdate, SyncTouch, SyncEnd
  <2>2. ASSUME mailbox' = mailbox, sync[s].pc # "idle",
               NEW e, sync' = [sync EXCEPT ![s] = e], e.pc # "idle", e.id = sync[s].id
        PROVE Informed(p)'
    <3>1. \A t \in Syncs : sync[t].pc # "idle" =>
            sync'[t].pc # "idle" /\ sync'[t].id = sync[t].id
      BY <2>2 DEF TypeOK
    <3> QED  BY <3>1, <2>1, <2>2 DEF Informed
  <2>3. CASE SyncLookup(s)
    <3>1. PICK found \in {"found", "missing"} : sync' = [sync EXCEPT ![s].pc = found]
      BY <2>3 DEF SyncLookup, Lookup
    <3> DEFINE e == [sync[s] EXCEPT !.pc = found]
    <3>2. sync' = [sync EXCEPT ![s] = e] /\ e.pc # "idle" /\ e.id = sync[s].id
      BY <3>1 DEF TypeOK
    <3>3. mailbox' = mailbox /\ sync[s].pc # "idle"  BY <2>3 DEF SyncLookup
    <3> HIDE DEF e
    <3> QED  BY <3>2, <3>3, <2>2
  <2>4. CASE SyncMissing(s)
    <3> DEFINE e == [sync[s] EXCEPT !.pc = "ending"]
    <3>2. sync' = [sync EXCEPT ![s] = e] /\ e.pc # "idle" /\ e.id = sync[s].id
      BY <2>4 DEF SyncMissing, TypeOK
    <3>3. mailbox' = mailbox /\ sync[s].pc # "idle"  BY <2>4 DEF SyncMissing
    <3> HIDE DEF e
    <3> QED  BY <3>2, <3>3, <2>2
  <2>5. CASE SyncFound(s)
    <3>1. mailbox' = mailbox /\ sync[s].pc # "idle"  BY <2>5 DEF SyncFound
    <3>2. \E pc \in {"working", "ending"} : \E u :
            sync' = [sync EXCEPT ![s].pc = pc, ![s].user = u]
      <4>1. CASE sync' = [sync EXCEPT ![s].pc = "working", ![s].user = value[sync[s].id]]
        BY <4>1
      <4>2. CASE sync' = [sync EXCEPT ![s].pc = "ending"]
        <5>1. sync' = [sync EXCEPT ![s].pc = "ending", ![s].user = sync[s].user]
          BY <4>2 DEF TypeOK
        <5> QED  BY <5>1
      <4> QED  BY <2>5, <4>1, <4>2 DEF SyncFound
    <3>3. PICK pc \in {"working", "ending"} :
            \E u : sync' = [sync EXCEPT ![s].pc = pc, ![s].user = u]
      BY <3>2
    <3>4. PICK u : sync' = [sync EXCEPT ![s].pc = pc, ![s].user = u]
      BY <3>3
    <3> DEFINE e == [sync[s] EXCEPT !.pc = pc, !.user = u]
    <3>5. sync' = [sync EXCEPT ![s] = e] /\ e.pc # "idle" /\ e.id = sync[s].id
      BY <3>4 DEF TypeOK
    <3> HIDE DEF e
    <3> QED  BY <3>1, <3>5, <2>2
  <2>6. CASE SyncUpdate(s) \/ SyncTouch(s)
    BY <2>6, <2>1, <1>1 DEF SyncUpdate, SyncTouch
  <2>7. CASE SyncEnd(s)
    <3> DEFINE m == [type |-> "Done", req |-> 0]
    <3>1. /\ m \in Message /\ sync[s].id \in Names /\ Tell(sync[s].id, m)
          /\ sync' = [sync EXCEPT ![s] = NoSync]
      BY <2>7 DEF SyncEnd, TypeOK, Message, MessageTypes
    <3>2. /\ \A q \in Names : \A k \in DOMAIN mailbox[q] :
               k \in DOMAIN mailbox'[q] /\ mailbox'[q][k] = mailbox[q][k]
          /\ \E k \in DOMAIN mailbox'[sync[s].id] : mailbox'[sync[s].id][k] = m
      BY <3>1, TellKeeps
    <3>3. CASE p = sync[s].id  BY <3>2, <3>3 DEF Informed
    <3>4. CASE p # sync[s].id
      <4>1. \A t \in Syncs : sync[t].id = p => sync'[t] = sync[t]
        BY <3>1, <3>4 DEF TypeOK
      <4> QED  BY <4>1, <3>2, <2>1 DEF Informed
    <3> QED  BY <3>3, <3>4
  <2> QED  BY <1>4, <2>3, <2>4, <2>5, <2>6, <2>7 DEF SyncStep
<1>5. CASE WorkerStep
  <2>1. CASE WorkerSend /\ Post(Head(worker.uniq), [type |-> "ST", req |-> 0])
    <3> DEFINE n == Head(worker.uniq)
               m == [type |-> "ST", req |-> 0]
    <3>1. n \in Names /\ m \in Message /\ Tell(n, m) /\ sync' = sync
      <4>1. worker.uniq \in Seq(Names) /\ worker.uniq # <<>>
        BY <2>1 DEF WorkerSend, TypeOK
      <4> QED  BY <2>1, <4>1, HeadTailProperties DEF WorkerSend, Post, Message, MessageTypes
    <3>2. actor[p] = "Synchronizing"  BY <2>1, <3>1 DEF Post, TypeOK
    <3> QED  BY <3>1, <3>2, <1>0, TellInformed
  <2>2. CASE UNCHANGED <<mailbox, actor, sync>>  BY <2>2, <1>1
  <2> QED
    BY <1>5, <2>1, <2>2
    DEF WorkerStep, WorkerTick, WorkerLookup, WorkerMissing, WorkerFound,
        WorkerListed, WorkerSend
<1>6. CASE Crash  BY <1>6 DEF Crash
<1>7. CASE UNCHANGED vars  BY <1>7, <1>1 DEF vars
<1> QED
  <2>1. ASSUME NEW i \in Ids, NEW type \in Operations \ {"NT"}, Receive(i, type, None)
        PROVE Informed(p)'
    BY <2>1, <1>2, OperationsAssumption
  <2>2. ASSUME NEW i \in Ids, NEW u \in Users, Receive(i, "NT", u) PROVE Informed(p)'
    BY <2>2, <1>2
  <2> QED  BY <2>1, <2>2, <1>3, <1>4, <1>5, <1>6, <1>7 DEF Next

\* An actor in state Synchronizing always has a goroutine or a message coming
\* that ends the state (token.go, lines 103-109 and 163-165).
THEOREM Spec_SynchronizingHasSync == Spec => []SynchronizingHasSync
<1>1. Init => SynchronizingHasSync  BY DEF Init, SynchronizingHasSync
<1>2. IInv /\ SynchronizingHasSync /\ [Next]_vars => SynchronizingHasSync'
  BY StepSynchronizingHasSync
<1> QED  BY InitIInv, StepIInv, <1>1, <1>2, PTL DEF Spec

-----------------------------------------------------------------------------
(* What an actor calls absent is absent *)

\* A step of the actor n that leaves it out of NonExist, or absent from the
\* storage, and no other token with more credentials than before.
LEMMA NonExistKept ==
  ASSUME IInv, NonExistIsAbsent, NEW n \in Names, NEW state,
         actor' = [actor EXCEPT ![n] = state],
         \A i \in Ids \ {n} : value'[i] = value[i] \/ value'[i] = None,
         n \in Ids /\ state = "NonExist" => value'[n] = None
  PROVE  NonExistIsAbsent'
<1>1. ASSUME NEW i \in Ids, actor'[i] = "NonExist" PROVE value'[i] = None
  <2>1. CASE i = n  BY <1>1, <2>1 DEF IInv, TypeOK
  <2>2. CASE i # n
    <3>1. actor'[i] = actor[i]  BY <2>2
    <3> QED  BY <1>1, <2>2, <3>1 DEF NonExistIsAbsent
  <2> QED  BY <2>1, <2>2
<1> QED  BY <1>1 DEF NonExistIsAbsent

LEMMA StepNonExistIsAbsent ==
  ASSUME ~WriteFileCreates, ~StorageFaults, IInv, NonExistIsAbsent, [Next]_vars
  PROVE  NonExistIsAbsent'
<1> USE DEF IInv
<1>1. ASSUME \A i \in Ids : value'[i] = value[i] \/ value'[i] = None,
             \A i \in Ids : actor'[i] = "NonExist" => actor[i] = "NonExist"
      PROVE NonExistIsAbsent'
  BY <1>1 DEF NonExistIsAbsent
<1>2. ASSUME NEW n \in Names, NEW m, Post(n, m), value' = value PROVE NonExistIsAbsent'
  BY <1>1, <1>2 DEF Post, TypeOK
<1>3. ASSUME NEW i \in Ids, NEW type, NEW u, Receive(i, type, u) PROVE NonExistIsAbsent'
  <2>1. CASE type = "??"  BY <1>1, <1>3, <2>1 DEF Receive, storage
  <2>2. CASE type # "??"  BY <1>2, <1>3, <2>2 DEF Receive, storage, Names
  <2> QED  BY <2>1, <2>2
<1>4. ASSUME NEW n \in Names, ActorStep(n) PROVE NonExistIsAbsent'
  <2>1. CASE NilToken(n)
    <3>1. \E state \in {"NilFound", "NilMissing"} : actor' = [actor EXCEPT ![n] = state]
      BY <2>1 DEF NilToken
    <3> QED  BY <2>1, <3>1, NonExistKept DEF NilToken, storage
  <2>2. CASE NilMissing(n)
    <3>1. \A i \in Ids : value'[i] = value[i] \/ value'[i] = None
      BY <2>2, CleanUpRemoves DEF NilMissing
    <3>2. n \in Ids => value'[n] = None
      BY <2>2 DEF NilMissing, CleanUp, Below
    <3> QED  BY <2>2, <3>1, <3>2, NonExistKept DEF NilMissing
  <2>3. CASE NilFound(n)
    <3>1. actor' = [actor EXCEPT ![n] = IF Stored(n) THEN "Exist" ELSE "NonExist"]
      BY <2>3 DEF NilFound, ReadOutcomes
    <3>2. n \in Ids /\ ~Stored(n) => value[n] = None  BY DEF Stored
    <3> QED  BY <2>3, <3>1, <3>2, NonExistKept DEF NilFound, storage
  <2>4. CASE NonExistCreate(n)
    <3>1. n \notin Ids \/ ~Stored(n)
      BY <2>4 DEF NonExistCreate, Handles, NonExistIsAbsent, Stored
    <3>2. PersistToken(n, requests[Head(mailbox[n]).req].user) /\ Become(n, "Exist")
      BY <2>4, <3>1 DEF NonExistCreate, Stored
    <3> QED  BY <3>2, NonExistKept DEF PersistToken, Become, TypeOK
  <2>5. CASE DeleteExisting(n)
    <3>1. DeleteToken(n) /\ Become(n, "NonExist")  BY <2>5 DEF DeleteExisting
    <3> QED  BY <3>1, NonExistKept DEF DeleteToken, Become, TypeOK
  <2>6. CASE ExistSynchronize(n)
    BY <2>6, NonExistKept DEF ExistSynchronize, Become, storage
  <2>7. CASE SynchronizingDone(n)
    BY <2>7, NonExistKept DEF SynchronizingDone, Become, storage
  <2>8. CASE SynchronizingSynchronize(n)
    BY <2>8, NonExistKept DEF SynchronizingSynchronize, Become, storage
  <2>9. ASSUME NEW state, NEW type, Handles(n, state, type), Become(n, state),
               UNCHANGED storage
        PROVE NonExistIsAbsent'
    BY <2>9, <1>1 DEF Handles, Become, storage, TypeOK
  <2>10. CASE IgnoreDone(n)  BY <2>10, <2>9 DEF IgnoreDone
  <2>11. CASE NonExistRefuse(n)  BY <2>11, <2>9 DEF NonExistRefuse
  <2>12. CASE RefuseCreate(n)  BY <2>12, <2>9 DEF RefuseCreate
  <2> QED
    BY <1>4, <2>1, <2>2, <2>3, <2>4, <2>5, <2>6, <2>7, <2>8, <2>10, <2>11, <2>12
    DEF ActorStep
<1>5. ASSUME NEW s \in Syncs, SyncStep(s) PROVE NonExistIsAbsent'
  <2>1. actor' = actor
    BY <1>5 DEF SyncStep, SyncLookup, SyncMissing, SyncFound, SyncUpdate, SyncTouch, SyncEnd
  <2>2. CASE SyncMissing(s)
    <3>1. sync[s].id \in Names  BY DEF TypeOK
    <3> QED  BY <2>1, <2>2, <3>1, <1>1, CleanUpRemoves DEF SyncMissing
  <2>3. CASE SyncUpdate(s)
    <3>1. value[sync[s].id] # None /\ value' = [value EXCEPT ![sync[s].id] = sync[s].user]
      BY <2>3 DEF SyncUpdate, UpdateToken, Stored
    <3>2. \A i \in Ids : value[i] = None => value'[i] = None
      BY <3>1 DEF TypeOK
    <3> QED  BY <2>1, <3>2 DEF NonExistIsAbsent
  <2>4. CASE SyncLookup(s) \/ SyncFound(s) \/ SyncTouch(s) \/ SyncEnd(s)
    BY <2>1, <2>4, <1>1 DEF SyncLookup, SyncFound, SyncTouch, SyncEnd, storage
  <2> QED  BY <1>5, <2>2, <2>3, <2>4 DEF SyncStep
<1>6. CASE WorkerStep
  <2>1. CASE WorkerMissing
    <3>1. worker.at \in Names  BY DEF TypeOK
    <3> QED  BY <2>1, <3>1, <1>1, CleanUpRemoves DEF WorkerMissing
  <2>2. CASE WorkerTick \/ WorkerLookup \/ WorkerFound \/ WorkerListed
    BY <2>2, <1>1 DEF WorkerTick, WorkerLookup, WorkerFound, WorkerListed, storage
  <2>3. CASE WorkerSend
    <3>1. Head(worker.uniq) \in Names
      <4>1. worker.uniq \in Seq(Names) /\ worker.uniq # <<>>
        BY <2>3 DEF WorkerSend, TypeOK
      <4> QED  BY <4>1, HeadTailProperties
    <3>2. value' = value  BY <2>3 DEF WorkerSend, storage
    <3>3. CASE Post(Head(worker.uniq), [type |-> "ST", req |-> 0])
      BY <3>1, <3>2, <3>3, <1>2
    <3>4. CASE actor' = actor  BY <3>2, <3>4, <1>1
    <3> QED  BY <2>3, <3>3, <3>4 DEF WorkerSend
  <2> QED  BY <1>6, <2>1, <2>2, <2>3 DEF WorkerStep
<1>7. CASE Crash
  <2>1. \A i \in Ids : actor'[i] = "absent"  BY <1>7 DEF Crash, Names
  <2> QED  BY <2>1 DEF NonExistIsAbsent
<1>8. CASE UNCHANGED vars  BY <1>8, <1>1 DEF vars
<1> QED  BY <1>3, <1>4, <1>5, <1>6, <1>7, <1>8 DEF Next

\* In a storage that does not fail, and whose WriteFile creates no files, a
\* create never meets the credentials of a token its actor calls NonExist
\* (token.go, lines 38-49): neither a goroutine of an earlier life of the token
\* nor a restart puts any there.
THEOREM Spec_NonExistIsAbsent ==
  ASSUME ~WriteFileCreates, ~StorageFaults
  PROVE  Spec => []NonExistIsAbsent
<1>1. Init => NonExistIsAbsent  BY DEF Init, NonExistIsAbsent
<1>2. IInv /\ NonExistIsAbsent /\ [Next]_vars => NonExistIsAbsent'
  BY StepNonExistIsAbsent
<1> QED  BY InitIInv, StepIInv, <1>1, <1>2, PTL DEF Spec
=============================================================================
