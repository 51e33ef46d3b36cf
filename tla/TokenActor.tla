------------------------------ MODULE TokenActor ------------------------------
(***************************************************************************)
(* The token life cycle of the bondster-bco-import service.                *)
(*                                                                         *)
(* Three kinds of goroutines share the directory token/<id> of every token *)
(* and nothing but the file system orders them:                            *)
(*                                                                         *)
(*   - the actor of the token (actor/token.go), which takes one message at *)
(*     a time from its mailbox and is a state machine                      *)
(*     Nil -> NonExist | Exist -> Synchronizing;                           *)
(*   - the synchronization goroutines the actor starts and never cancels   *)
(*     (actor/token.go, lines 103-129);                                    *)
(*   - the scheduled worker (integration/worker.go), which lists the       *)
(*     tokens in the storage and asks every one of them to synchronize.    *)
(*                                                                         *)
(* All three read a token with HydrateToken, which first looks whether the *)
(* file exists and then, in a second call, either reads the file or        *)
(* removes the whole directory: the two calls are separate steps here.     *)
(*                                                                         *)
(* A token is the credentials stored for it (a member of Users), or None.  *)
(* What a synchronization imports is the subject of module Workflow.       *)
(***************************************************************************)
EXTENDS Naturals, Sequences, FiniteSets

CONSTANTS
  Ids,               \* names of tokens
  NoName,            \* the empty name: what a zero model.Token carries as ID
  Users,             \* credentials
  None,              \* no credentials, no token
  Syncs,             \* slots for synchronization goroutines (a bound)
  Operations,        \* the requests the clients use
  MaxRequests,       \* bound on the requests sent
  MaxTicks,          \* bound on the ticks of the scheduled worker
  MaxCrashes,        \* bound on the restarts of the service
  ReuseIds,          \* may a client create a token under a name used before?
  WriteFileCreates,  \* does storage.WriteFile create a file that is missing?
  StorageFaults      \* may calls of the storage fail?

Names == Ids \cup {NoName}

ASSUME NamesAssumption == NoName \notin Ids
ASSUME UsersAssumption == None \notin Users
ASSUME OperationsAssumption == Operations \subseteq {"NT", "ST", "DT", "??"}
ASSUME BoundsAssumption ==
  MaxRequests \in Nat /\ MaxTicks \in Nat /\ MaxCrashes \in Nat
ASSUME SwitchesAssumption ==
  ReuseIds \in BOOLEAN /\ WriteFileCreates \in BOOLEAN /\ StorageFaults \in BOOLEAN

VARIABLES
  value,      \* [Ids -> Users or None]: the file token/<id>/value
  dir,        \* the ids whose directory token/<id> exists
  actor,      \* [Names -> ActorStates]
  mailbox,    \* [Names -> Seq(Message)]
  sync,       \* [Syncs -> [pc, id, user]]: synchronization goroutines
  worker,     \* the tick the scheduled worker is in
  ticks, crashes,
  requests,   \* history: every request received, in order, with its reply
  granted,    \* history: what the last successful create or delete left
  waker       \* history: the request that woke the actor (0: a tick did)

storage == <<value, dir>>
vars == <<value, dir, actor, mailbox, sync, worker, ticks, crashes,
          requests, granted, waker>>

-----------------------------------------------------------------------------
(* Types *)

ActorStates == {"absent", "Nil", "NilFound", "NilMissing",
                "NonExist", "Exist", "Synchronizing"}

\* SynchronizeToken, CreateToken, DeleteToken and SynchornizationDone; req is
\* the request a message stems from, 0 for those of the service itself.
MessageTypes == {"ST", "NT", "DT", "Done"}
Message == [type: MessageTypes, req: Nat]

\* TN, TS, TD, EM, EE are the codes of actor/messages.go.
Codes == {"TN", "TS", "TD", "EM", "EE"}
Request == [id: Ids, type: {"NT", "ST", "DT", "??"}, user: Users \cup {None},
            reply: Codes \cup {"pending", "lost"}]

SyncPcs == {"idle", "lookup", "found", "missing", "working", "ending"}
NoSync == [pc |-> "idle", id |-> NoName, user |-> None]

WorkerPcs == {"idle", "list", "found", "missing"}
IdleWorker ==
  [pc |-> "idle", todo |-> {}, at |-> NoName, seen |-> {}, uniq |-> <<>>]

\* Type invariant.
TypeOK ==
  /\ value \in [Ids -> Users \cup {None}]
  /\ dir \subseteq Ids
  /\ actor \in [Names -> ActorStates]
  /\ mailbox \in [Names -> Seq(Message)]
  /\ sync \in [Syncs -> [pc: SyncPcs, id: Names, user: Users \cup {None}]]
  /\ worker \in [pc: WorkerPcs, todo: SUBSET Ids, at: Names,
                 seen: SUBSET (Users \cup {None}), uniq: Seq(Names)]
  /\ ticks \in 0..MaxTicks /\ crashes \in 0..MaxCrashes
  /\ requests \in Seq(Request) /\ Len(requests) <= MaxRequests
  /\ granted \in [Ids -> Users \cup {None}]
  /\ waker \in [Names -> Nat]

-----------------------------------------------------------------------------
(* Storage: persistence/token.go over the local-fs library *)

Stored(n) == n \in Ids /\ value[n] # None

\* storage.Exists as HydrateToken uses it: an error counts as a missing file.
Lookup(n) ==
  (IF Stored(n) THEN {"found"} ELSE {"missing"})
    \cup (IF StorageFaults THEN {"missing"} ELSE {})

\* Mutant of Below: the path is built without the id.
BelowAnything(n) == Ids

\* What lives below token/<n>: everything, when the name is empty.
Below(n) == IF n = NoName THEN Ids ELSE {n}

\* The second call of HydrateToken when the file was not seen: the directory
\* goes, whatever has been written to it meanwhile.
CleanUp(n) ==
  \/ /\ value' = [i \in Ids |-> IF i \in Below(n) THEN None ELSE value[i]]
     /\ dir' = dir \ Below(n)
  \/ StorageFaults /\ UNCHANGED storage

\* The second call when the file was seen: does ReadFileFully deliver it?
ReadOutcomes(n) ==
  {Stored(n)} \cup (IF StorageFaults THEN {FALSE} ELSE {})

\* PersistToken: WriteFileExclusive refuses a file that exists.
PersistToken(n, u) ==
  /\ ~Stored(n)
  /\ value' = [value EXCEPT ![n] = u]
  /\ dir' = dir \cup {n}

\* DeleteToken removes the file; the directory and the statements stay.
DeleteToken(n) == value' = [value EXCEPT ![n] = None] /\ UNCHANGED dir

\* Mutant of UpdateToken: the file is created when it is missing.
UpdateTokenCreates(n, u) ==
  value' = [value EXCEPT ![n] = u] /\ dir' = dir \cup {n}

\* UpdateToken: WriteFile with the credentials the goroutine read earlier.
UpdateToken(n, u) ==
  /\ Stored(n) \/ WriteFileCreates
  /\ value' = [value EXCEPT ![n] = u]
  /\ dir' = dir \cup {n}

-----------------------------------------------------------------------------
(* Mailboxes: the actor-system library and actor/common.go *)

Init ==
  /\ value = [i \in Ids |-> None] /\ dir = {}
  /\ actor = [n \in Names |-> "absent"]
  /\ mailbox = [n \in Names |-> <<>>]
  /\ sync = [s \in Syncs |-> NoSync]
  /\ worker = IdleWorker
  /\ ticks = 0 /\ crashes = 0
  /\ requests = <<>>
  /\ granted = [i \in Ids |-> None]
  /\ waker = [n \in Names |-> 0]

Tell(n, m) == mailbox' = [mailbox EXCEPT ![n] = Append(@, m)]

\* ProcessMessage with a message that parses: the actor is spawned in state
\* Nil if there is none by that name.
Post(n, m) ==
  /\ Tell(n, m)
  /\ actor' = [actor EXCEPT ![n] = IF @ = "absent" THEN "Nil" ELSE @]
  /\ waker' = [waker EXCEPT ![n] = IF actor[n] = "absent" THEN m.req ELSE @]

Fresh(i) == \A r \in DOMAIN requests : requests[r].type = "NT" => requests[r].id # i

\* A request arrives. One that does not parse is answered at once.
Receive(i, type, u) ==
  /\ Len(requests) < MaxRequests
  /\ type = "NT" => ReuseIds \/ Fresh(i)
  /\ requests' = Append(requests,
       [id |-> i, type |-> type, user |-> u,
        reply |-> IF type = "??" THEN "EE" ELSE "pending"])
  /\ IF type = "??"
       THEN UNCHANGED <<mailbox, actor, waker>>
       ELSE Post(i, [type |-> type, req |-> Len(requests) + 1])
  /\ UNCHANGED <<storage, sync, worker, ticks, crashes, granted>>

\* s.SendMessage(code, context.Sender, context.Receiver). The worker and the
\* goroutines have no name to answer to: the reply comes back as a message
\* that does not parse and is dropped.
Reply(m, code) ==
  requests' = IF m.req = 0 THEN requests
              ELSE [requests EXCEPT ![m.req].reply = code]

\* The actor n is in the given state and has the given message first in line.
Handles(n, state, type) ==
  actor[n] = state /\ mailbox[n] # <<>> /\ Head(mailbox[n]).type = type

\* The handler takes the message and leaves the actor in the given state.
Become(n, state) ==
  /\ mailbox' = [mailbox EXCEPT ![n] = Tail(@)]
  /\ actor' = [actor EXCEPT ![n] = state]

-----------------------------------------------------------------------------
(* The actor: one action per branch of the handlers *)

\* Mutant of NilToken: the message that woke the actor is not told again.
NilTokenForgets(n) ==
  /\ actor[n] = "Nil" /\ mailbox[n] # <<>>
  /\ mailbox' = [mailbox EXCEPT ![n] = Tail(@)]
  /\ \E found \in Lookup(n) :
       actor' = [actor EXCEPT ![n] = IF found = "found" THEN "NilFound" ELSE "NilMissing"]
  /\ UNCHANGED <<storage, sync, worker, ticks, crashes, requests, granted, waker>>

\* NilToken: the message that woke the actor goes to the back of the mailbox,
\* then LoadToken looks for the token.
NilToken(n) ==
  /\ actor[n] = "Nil" /\ mailbox[n] # <<>>
  /\ mailbox' = [mailbox EXCEPT ![n] = Append(Tail(@), Head(@))]
  /\ \E found \in Lookup(n) :
       actor' = [actor EXCEPT ![n] = IF found = "found" THEN "NilFound" ELSE "NilMissing"]
  /\ UNCHANGED <<storage, sync, worker, ticks, crashes, requests, granted, waker>>

NilMissing(n) ==
  /\ actor[n] = "NilMissing"
  /\ CleanUp(n)
  /\ actor' = [actor EXCEPT ![n] = "NonExist"]
  /\ UNCHANGED <<mailbox, sync, worker, ticks, crashes, requests, granted, waker>>

NilFound(n) ==
  /\ actor[n] = "NilFound"
  /\ \E ok \in ReadOutcomes(n) :
       actor' = [actor EXCEPT ![n] = IF ok THEN "Exist" ELSE "NonExist"]
  /\ UNCHANGED <<storage, mailbox, sync, worker, ticks, crashes, requests, granted, waker>>

\* A late SynchornizationDone changes nothing outside Synchronizing.
IgnoreDone(n) ==
  \E state \in {"NonExist", "Exist"} :
    /\ Handles(n, state, "Done")
    /\ Become(n, state)
    /\ UNCHANGED <<storage, sync, worker, ticks, crashes, requests, granted, waker>>

NonExistCreate(n) ==
  /\ Handles(n, "NonExist", "NT")
  /\ LET m == Head(mailbox[n])
         u == requests[m.req].user
     IN \/ /\ PersistToken(n, u)
           /\ Become(n, "Exist")
           /\ Reply(m, "TN")
           /\ granted' = [granted EXCEPT ![n] = u]
        \/ /\ Stored(n) \/ StorageFaults
           /\ Become(n, "NonExist")
           /\ Reply(m, "EE")
           /\ UNCHANGED <<storage, granted>>
  /\ UNCHANGED <<sync, worker, ticks, crashes, waker>>

\* DeleteToken and SynchronizeToken of a token that does not exist.
NonExistRefuse(n) ==
  \E type \in {"DT", "ST"} :
    /\ Handles(n, "NonExist", type)
    /\ Become(n, "NonExist")
    /\ Reply(Head(mailbox[n]), "EM")
    /\ UNCHANGED <<storage, sync, worker, ticks, crashes, granted, waker>>

\* CreateToken of a token that exists.
RefuseCreate(n) ==
  \E state \in {"Exist", "Synchronizing"} :
    /\ Handles(n, state, "NT")
    /\ Become(n, state)
    /\ Reply(Head(mailbox[n]), "EE")
    /\ UNCHANGED <<storage, sync, worker, ticks, crashes, granted, waker>>

\* SynchronizeToken in Exist: answer, start the goroutine.
ExistSynchronize(n) ==
  /\ Handles(n, "Exist", "ST")
  /\ Reply(Head(mailbox[n]), "TS")
  /\ \E s \in Syncs :
       /\ sync[s].pc = "idle"
       /\ sync' = [sync EXCEPT ![s] = [pc |-> "lookup", id |-> n, user |-> None]]
  /\ Become(n, "Synchronizing")
  /\ UNCHANGED <<storage, worker, ticks, crashes, granted, waker>>

\* Mutant of DeleteExisting: the actor keeps its state after the delete.
DeleteExistingStays(n) ==
  \E state \in {"Exist", "Synchronizing"} :
    /\ Handles(n, state, "DT")
    /\ DeleteToken(n)
    /\ Become(n, state)
    /\ Reply(Head(mailbox[n]), "TD")
    /\ granted' = [granted EXCEPT ![n] = None]
    /\ UNCHANGED <<sync, worker, ticks, crashes, waker>>

\* DeleteToken in Exist and in Synchronizing: a goroutine that runs is not told.
DeleteExisting(n) ==
  \E state \in {"Exist", "Synchronizing"} :
    /\ Handles(n, state, "DT")
    /\ LET m == Head(mailbox[n])
       IN \/ /\ DeleteToken(n)
             /\ Become(n, "NonExist")
             /\ Reply(m, "TD")
             /\ granted' = [granted EXCEPT ![n] = None]
          \/ /\ StorageFaults
             /\ Become(n, state)
             /\ Reply(m, "EE")
             /\ UNCHANGED <<storage, granted>>
    /\ UNCHANGED <<sync, worker, ticks, crashes, waker>>

SynchronizingDone(n) ==
  /\ Handles(n, "Synchronizing", "Done")
  /\ Become(n, "Exist")
  /\ UNCHANGED <<storage, sync, worker, ticks, crashes, requests, granted, waker>>

\* Mutant of SynchronizingSynchronize: the request is told again, for later.
SynchronizingPutsOff(n) ==
  /\ Handles(n, "Synchronizing", "ST")
  /\ mailbox' = [mailbox EXCEPT ![n] = Append(Tail(@), Head(@))]
  /\ UNCHANGED <<storage, actor, sync, worker, ticks, crashes, requests, granted, waker>>

SynchronizingSynchronize(n) ==
  /\ Handles(n, "Synchronizing", "ST")
  /\ Become(n, "Synchronizing")
  /\ Reply(Head(mailbox[n]), "TS")
  /\ UNCHANGED <<storage, sync, worker, ticks, crashes, granted, waker>>

ActorStep(n) ==
  \/ NilToken(n) \/ NilMissing(n) \/ NilFound(n) \/ IgnoreDone(n)
  \/ NonExistCreate(n) \/ NonExistRefuse(n) \/ RefuseCreate(n)
  \/ ExistSynchronize(n) \/ DeleteExisting(n)
  \/ SynchronizingDone(n) \/ SynchronizingSynchronize(n)

-----------------------------------------------------------------------------
(* A synchronization goroutine *)

SyncLookup(s) ==
  /\ sync[s].pc = "lookup"
  /\ \E found \in Lookup(sync[s].id) : sync' = [sync EXCEPT ![s].pc = found]
  /\ UNCHANGED <<storage, actor, mailbox, worker, ticks, crashes, requests, granted, waker>>

SyncMissing(s) ==
  /\ sync[s].pc = "missing"
  /\ CleanUp(sync[s].id)
  /\ sync' = [sync EXCEPT ![s].pc = "ending"]
  /\ UNCHANGED <<actor, mailbox, worker, ticks, crashes, requests, granted, waker>>

\* The goroutine keeps the token it read until it ends.
SyncFound(s) ==
  /\ sync[s].pc = "found"
  /\ \E ok \in ReadOutcomes(sync[s].id) :
       sync' = IF ok
               THEN [sync EXCEPT ![s].pc = "working", ![s].user = value[sync[s].id]]
               ELSE [sync EXCEPT ![s].pc = "ending"]
  /\ UNCHANGED <<storage, actor, mailbox, worker, ticks, crashes, requests, granted, waker>>

\* The workflow stores the token again whenever a cursor of it moved.
SyncUpdate(s) ==
  /\ sync[s].pc = "working"
  /\ UpdateToken(sync[s].id, sync[s].user)
  /\ UNCHANGED <<actor, mailbox, sync, worker, ticks, crashes, requests, granted, waker>>

\* The workflow writes below token/<id>/statements, which makes the directory.
SyncTouch(s) ==
  /\ sync[s].pc = "working"
  /\ dir' = dir \cup {sync[s].id}
  /\ UNCHANGED <<value, actor, mailbox, sync, worker, ticks, crashes, requests, granted, waker>>

\* Mutant of SyncEnd: no defer, a token that did not load ends in silence.
SyncEndSilent(s) ==
  /\ sync[s].pc \in {"working", "ending"}
  /\ IF sync[s].pc = "working" THEN Tell(sync[s].id, [type |-> "Done", req |-> 0])
     ELSE UNCHANGED mailbox
  /\ sync' = [sync EXCEPT ![s] = NoSync]
  /\ UNCHANGED <<storage, actor, worker, ticks, crashes, requests, granted, waker>>

\* The deferred Tell: the actor learns that the goroutine ends.
SyncEnd(s) ==
  /\ sync[s].pc \in {"working", "ending"}
  /\ Tell(sync[s].id, [type |-> "Done", req |-> 0])
  /\ sync' = [sync EXCEPT ![s] = NoSync]
  /\ UNCHANGED <<storage, actor, worker, ticks, crashes, requests, granted, waker>>

SyncStep(s) ==
  \/ SyncLookup(s) \/ SyncMissing(s) \/ SyncFound(s)
  \/ SyncUpdate(s) \/ SyncTouch(s) \/ SyncEnd(s)

-----------------------------------------------------------------------------
(* The scheduled worker: one tick at a time *)

\* LoadTokens lists the directories; getActiveTokens has seen no user yet.
WorkerTick ==
  /\ worker.pc = "idle" /\ worker.uniq = <<>> /\ ticks < MaxTicks
  /\ ticks' = ticks + 1
  /\ worker' = [IdleWorker EXCEPT !.pc = "list", !.todo = dir]
  /\ UNCHANGED <<storage, actor, mailbox, sync, crashes, requests, granted, waker>>

WorkerLookup ==
  /\ worker.pc = "list"
  /\ \E n \in worker.todo : \E found \in Lookup(n) :
       worker' = [worker EXCEPT !.pc = found, !.at = n, !.todo = @ \ {n}]
  /\ UNCHANGED <<storage, actor, mailbox, sync, ticks, crashes, requests, granted, waker>>

\* Mutant of Collect: the users are collected instead of the names.
CollectUsers(n, u) ==
  worker' = [worker EXCEPT !.pc = "list", !.at = NoName, !.seen = @ \cup {u},
               !.uniq = IF u \in worker.seen THEN @ ELSE Append(@, u)]

\* A token joins the result. Of the tokens of one user only the first counts.
\* A token that failed to load stays in the result as a zero model.Token, whose
\* ID and Username are empty.
Collect(n, u) ==
  worker' = [worker EXCEPT !.pc = "list", !.at = NoName, !.seen = @ \cup {u},
               !.uniq = IF u \in worker.seen THEN @ ELSE Append(@, n)]

WorkerMissing ==
  /\ worker.pc = "missing"
  /\ CleanUp(worker.at)
  /\ Collect(NoName, None)
  /\ UNCHANGED <<actor, mailbox, sync, ticks, crashes, requests, granted, waker>>

WorkerFound ==
  /\ worker.pc = "found"
  /\ \E ok \in ReadOutcomes(worker.at) :
       IF ok THEN Collect(worker.at, value[worker.at]) ELSE Collect(NoName, None)
  /\ UNCHANGED <<storage, actor, mailbox, sync, ticks, crashes, requests, granted, waker>>

WorkerListed ==
  /\ worker.pc = "list" /\ worker.todo = {}
  /\ worker' = [worker EXCEPT !.pc = "idle"]
  /\ UNCHANGED <<storage, actor, mailbox, sync, ticks, crashes, requests, granted, waker>>

\* The callback asks the next token to synchronize, in the name of nobody; the
\* message travels through the lake and may be lost there.
WorkerSend ==
  /\ worker.pc = "idle" /\ worker.uniq # <<>>
  /\ worker' = [worker EXCEPT !.uniq = Tail(@)]
  /\ \/ Post(Head(worker.uniq), [type |-> "ST", req |-> 0])
     \/ UNCHANGED <<mailbox, actor, waker>>
  /\ UNCHANGED <<storage, sync, ticks, crashes, requests, granted>>

WorkerStep ==
  \/ WorkerTick \/ WorkerLookup \/ WorkerMissing \/ WorkerFound
  \/ WorkerListed \/ WorkerSend

-----------------------------------------------------------------------------
(* The whole service *)

\* The process stops and starts again: only the storage survives.
Crash ==
  /\ crashes < MaxCrashes
  /\ crashes' = crashes + 1
  /\ actor' = [n \in Names |-> "absent"]
  /\ mailbox' = [n \in Names |-> <<>>]
  /\ sync' = [s \in Syncs |-> NoSync]
  /\ worker' = IdleWorker
  /\ requests' = [r \in DOMAIN requests |->
       IF requests[r].reply = "pending"
       THEN [requests[r] EXCEPT !.reply = "lost"] ELSE requests[r]]
  /\ waker' = [n \in Names |-> 0]
  /\ UNCHANGED <<storage, ticks, granted>>

Next ==
  \/ \E i \in Ids, type \in Operations \ {"NT"} : Receive(i, type, None)
  \/ \E i \in Ids, u \in Users : "NT" \in Operations /\ Receive(i, "NT", u)
  \/ \E n \in Names : ActorStep(n)
  \/ \E s \in Syncs : SyncStep(s)
  \/ WorkerStep
  \/ Crash

Spec == Init /\ [][Next]_vars

\* Every actor runs on a goroutine of its own, which the runtime schedules.
ActorsRun == \A n \in Names : WF_vars(ActorStep(n))

\* A goroutine ends if the gateways it calls keep answering.
SyncsEnd ==
  \A s \in Syncs : WF_vars(SyncLookup(s) \/ SyncMissing(s) \/ SyncFound(s) \/ SyncEnd(s))

SpecSyncsEnd == Spec /\ ActorsRun /\ SyncsEnd

-----------------------------------------------------------------------------
(* What holds *)

\* An actor that says it is synchronizing is going to be told that it is over:
\* a goroutine started for it still runs, or its SynchornizationDone is in the
\* mailbox. Deletes, re-creations and goroutines that overlap do not break it
\* (actor/token.go, lines 103-109 and 163-165).
SynchronizingHasSync ==
  \A n \in Names :
    actor[n] = "Synchronizing" =>
      \/ \E s \in Syncs : sync[s].pc # "idle" /\ sync[s].id = n
      \/ \E k \in DOMAIN mailbox[n] : mailbox[n][k].type = "Done"

\* No request is forgotten and none is answered twice: it waits in exactly one
\* place, in the mailbox it was sent to, until it has its reply, and nowhere
\* afterwards, although NilToken sends it again (actor/token.go, line 27).
Waiting(n, r) == {k \in DOMAIN mailbox[n] : mailbox[n][k].req = r}

RequestsTracked ==
  \A r \in DOMAIN requests, n \in Names :
    Cardinality(Waiting(n, r)) =
      IF n = requests[r].id /\ requests[r].reply = "pending" THEN 1 ELSE 0

\* The requests of one token are answered in the order of their arrival. The
\* one exception is the request that woke the actor, which NilToken moves
\* behind what arrived meanwhile (actor/token.go, line 27).
Answers(r) ==
  requests[r].reply = "pending" /\ requests'[r].reply \notin {"pending", "lost"}

OvertakenOnlyByWaking ==
  [][\A r \in DOMAIN requests : Answers(r) =>
       \A q \in 1..(r - 1) :
         requests[q].id = requests[r].id /\ requests[q].reply = "pending"
           => waker[requests[q].id] = q]_vars

\* A token its actor calls NonExist has no credentials in the storage, so that
\* the create it waits for can succeed (actor/token.go, lines 38-49). It needs
\* a storage that does not fail: NilMissing swallows the error.
NonExistIsAbsent ==
  \A n \in Ids : actor[n] = "NonExist" => value[n] = None

\* A token whose last delete was acknowledged, or that was never created, has
\* no credentials in the storage, restarts included, although goroutines that
\* synchronize it may outlive the delete and write the token again
\* (actor/token.go, lines 126 and 178; persistence/token.go, line 116).
DeletedIsAbsent == \A n \in Ids : granted[n] = None => value[n] = None

\* As long as nobody deletes a token, the storage holds what the creates that
\* were acknowledged left there, whatever ticks, restarts and synchronizations
\* come in between (persistence/token.go, lines 60-82).
StoredIsGranted ==
  (\A r \in DOMAIN requests : requests[r].type # "DT") => value = granted

\* The service keeps the promise of TokenService.
Promise == INSTANCE TokenService WITH token <- value

Linearizable == Promise!Spec

\* Every request gets its reply, unless the service restarts first.
Answered ==
  \A r \in 1..MaxRequests :
    (r \in DOMAIN requests) ~>
      (r \in DOMAIN requests /\ requests[r].reply # "pending")

\* A token does not stay Synchronizing for ever.
SynchronizingEnds ==
  \A n \in Names : (actor[n] = "Synchronizing") ~> (actor[n] # "Synchronizing")

-----------------------------------------------------------------------------
(* What a comment or a log line of the code says, and the code does not do *)

\* "Cleaned files of no longer existing token" (persistence/token.go, line 95):
\* the removal of a directory takes no credentials with it. The steps that
\* remove a directory are the second calls of HydrateToken.
NeverCleansExisting ==
  [][dir' \subseteq dir /\ dir' # dir /\ crashes' = crashes
       => \A i \in Ids : value[i] # None => value'[i] # None]_vars

\* "ExistToken represents account that does exist" (actor/token.go, line 82).
ExistIsStored ==
  \A n \in Ids : actor[n] \in {"Exist", "Synchronizing"} => value[n] # None

\* "UpdateToken updates data of existing token to storage" (persistence/token.go,
\* line 107): credentials in the storage are those the last create was granted.
StoredIsCurrent ==
  \A n \in Ids : value[n] # None => value[n] = granted[n]
=============================================================================
