# bondster-bco: TLA+ models, model checks and proofs

This directory specifies `bondster-bco`, the part of an open bank that imports
statements of a Bondster account into a ledger. Section 1 is the inventory of
the system, 2 the models and their relation to the code, 3 the checks, 4 the
proofs, 5 what the checks found, 6 what is left out, 7 the plan.

Paths without a prefix are below `src/services/bondster-bco-import/`; `rest:`
stands for `src/services/bondster-bco-rest/`.

## 1. Inventory

Two Go programs. **bondster-bco-import** runs once per tenant, keeps the tokens
(credentials of a Bondster account) and imports their statements.
**bondster-bco-rest** offers HTTP to clients, forwards token requests to the
import service of the tenant through a message broker (the *lake*) and starts
and stops import services through systemd.

```
HTTP client -> rest:api -> rest:actor (relay) -> lake -> actor/token.go  (one actor per token)
                 |                                         |  starts a goroutine per synchronization
                 v                                         v
             rest:system -> systemd              integration/workflow.go -> Bondster gateway
                                                           |             -> vault   (accounts)
   integration/worker.go --tick--> lake --> actor          |             -> ledger  (transactions)
            \________________ persistence: token/<id>/... _/
```

### bondster-bco-import

| Part | State | Operations and how it interacts | Hard behaviour | What makes it correct |
|---|---|---|---|---|
| token actor: `actor/*.go` | per token: the receiver (Nil, NonExist, Exist, Synchronizing) and a mailbox | CreateToken, DeleteToken, SynchronizeToken from clients and ticks; SynchornizationDone from its goroutines; spawned by the first message | Nil sends its waking message to the back of the mailbox; a goroutine is never cancelled and its Done carries no identity | every request answered once and in order; Synchronizing ends; the state agrees with the storage |
| token persistence: `persistence/token.go` | `token/<id>/value`, and the statements below `token/<id>` | create (exclusive), delete, update, load, list | `HydrateToken` checks, then reads or removes the whole directory; three kinds of callers at once; a failed load leaves a zero token in the list | acknowledged creates stay, acknowledged deletes stay |
| scheduled worker: `integration/worker.go`, callback in `boot/init.go` | none between ticks | lists and loads all tokens, one per user name, sends each a SynchronizeToken | loading has side effects; the message may be lost | a tick loses nothing |
| workflow: `integration/workflow.go` | files per statement: directory, `data`, `ack_account`, `ack_transfer`; a cursor per currency in the token | DownloadStatements, CreateAccounts, CreateTransactions | any call fails; restarts between files; two goroutines for one token; chunks that are not in order of dates | marks tell the truth; nothing behind a cursor is missed; every statement reaches the ledger |
| Bondster client and session: `integration/bondster` | JWT and session tokens with their expiry | login by scenario, prolongation, currencies, search, download | 401 in the middle of a call, expiry | a call uses a live session or reports failure |
| ledger and vault clients: `integration/ledger`, `integration/vault` | none | create transaction, create account | 409 is an error for the ledger and a success for the vault; lost answers | an error never counts as success |
| HTTP client: `support/http` | attempt counter | request with retries and backoff | a retry loop with no bound; doubling that overflows; a body that is consumed by the first attempt | waits bounded; a success means that the service has acted |
| months: `support/timeshift` | none | slices an interval into months | month ends, a date equal to a boundary | every day in one slice |
| metrics: `metrics` | five counters | increase; report and reduce by what was read | unsynchronized read beside atomic add | nothing lost, nothing counted twice |
| daemons and pool: `support/concurrent`, `boot/run.go` (both services) | per daemon: channels for done, stop, tick; WaitGroup | start, stop, scheduled work | stop during work; a worker that returns early; one that cannot be set up | the program ends, and only when all workers have; a canceled worker works no more |
| configuration, environment, logging, ids: `config`, `support/env`, `support/logging`, `support/host`, `utils` | none | start-up | - | - |

### bondster-bco-rest

| Part | State | Operations and how it interacts | Hard behaviour | What makes it correct |
|---|---|---|---|---|
| relays: `rest:actor` | a registered actor and a channel per request | send a request, wait for reply or 5 s | a reply after the timeout; a duplicate reply; an unbuffered channel | one answer per call, of the right token; a timeout is reported although the request may still succeed |
| handlers: `rest:api` | none | tokens, tenants, health | mapping of late and unknown answers | 200 only after the confirmation |
| unit control: `rest:system/system.go` | units at systemd | enable then start; stop then disable | the second step fails or times out | the answer tells what the unit is |
| monitors: `rest:system/memory.go`, `storage.go` | free, used, healthy | measure; read by the health handler | three values stored and read one at a time | what the client is told was true while it was asked |
| listing and model: `rest:persistence`, `rest:model` | none (reads the shared storage) | list tokens; a fresh id for every new token | lists while import writes | ids are not used twice |

The black-box tests (`src/bbtest`), packaging (`src/packaging`, where
`Restart=always` makes restarts part of normal life) and both `main.go`
complete the repository. `PROJECT.json` lists the same parts with the modules
that stand for them, and the hazards, each at its line.

## 2. The models

### Modules

| Module | Stands for |
|---|---|
| `TokenActor` | actor, persistence of the token, goroutines and scheduled worker, composed over one storage |
| `TokenService` | abstract specification of the import service: what clients may rely on |
| `Workflow` | what one synchronization does: download, accounts, transactions |
| `GatewayCall` | abstract specification of a call to the ledger or the vault |
| `HttpClient` | the HTTP client with its retries, the ledger client and the vault client |
| `Session` | the session with the Bondster gateway and the queries that need it |
| `TimeShift` | slicing of the time since the last synchronization into months |
| `Metrics` | the counters and the worker that reports them |
| `TokenFormat` | credentials and cursors on their way through message and file |
| `Daemons` | daemons, pool and program, of both services |
| `RestApi` | handlers and relays of the REST service, composed with the import service of `TokenService`; the list of tokens |
| `SystemControl` | units of systemd under the handlers for tenants |
| `Monitors` | memory and disk monitors and the health handler |
| `*_proofs` | theorems; section 4 says which module is about what |
| `MCTokenActor`, `MCWorkflow`, `MCSupport`, `MCRest` | instances for the model checker |

How they build on each other:

```
RestApi --uses the actions of--> TokenService <--implemented by-- TokenActor
                                                                     | SyncUpdate, SyncTouch
                                                                     v
   Session (queries) , TimeShift (months) , TokenFormat (cursor) -> Workflow
                       HttpClient --implements--> GatewayCall --relied on by--^
```

The operators named "Mutant of X" directly before a definition `X` are faulty
variants of it: the property assigned to one in `PROJECT.json` is violated when
it takes the place of `X`. They are no part of the specifications.

### TokenActor

| Variable | In the code |
|---|---|
| `value`, `dir` | content of `token/<id>/value` (credentials), and existence of the directory `token/<id>` |
| `actor` | the receiver function of the actor; `absent` before it is spawned; `NilFound`, `NilMissing`: between the two storage calls of `HydrateToken` inside `NilToken` |
| `mailbox` | the mailbox of the actor |
| `sync` | goroutines of `actor/token.go` 103-129: where they are, for which token, and the credentials they read |
| `worker` | a tick of `BondsterImport.Work`: tokens still to load, user names seen, names to be asked |
| `requests`, `granted`, `waker` | history: what clients asked and were told; what the last acknowledged create or delete left; the request that spawned the actor |

Actions are the branches of the receivers (`NilToken` ... `SynchronizingDone`),
the steps of a goroutine (`SyncLookup` ... `SyncEnd`) and of a tick
(`WorkerTick` ... `WorkerSend`), the arrival of a request (`Receive`) and a
restart (`Crash`). A receiver that makes one storage call that matters is one
action; `HydrateToken` is two steps wherever it is called, because the second
call acts on what the first one saw. The zero `model.Token` of `LoadTokens` has
an empty id, hence the name `NoName`, whose path `token/` is the parent of every
token: `Below(NoName) = Ids`. The import workflow is `SyncUpdate` (a stored
cursor writes back the token as it was read) and `SyncTouch` (anything written
below the directory), in any number and order.

Switches. `ReuseIds`: may a name be used for a second create? The REST service
always draws a new id (`rest:model/model.go` 41-68); the import service accepts
any name from the lake. `WriteFileCreates`: does `storage.WriteFile` of the
local-fs library create a file that is missing? The library is not in the
repository, so both answers are covered. `StorageFaults`: may storage calls fail?

### TokenService

A map of tokens and a sequence of requests. Each request takes effect at one
moment between arrival and reply: create answers TN or EE, delete TD or EM,
synchronize TS or EM; a restart loses pending requests and no token.
`TokenActor` implements it under `token <- value` (`Linearizable`) if the storage
works and one of three things is given up: deletes; or ticks and a second use of
a name, where `WriteFile` must not create files either; or ticks and
synchronizations. Section 4 proves the three. Beyond them the runs of section 5
break the promise: by a delete and a tick, or by a goroutine and a name used again.

### Workflow

| Variable | In the code |
|---|---|
| `clock`, `published` | time and the transactions the gateway has |
| `known`, `data`, `ackAccount`, `ackTransfer` | directory, `data` and mark files below `token/<id>/statements/<currency>` |
| `cursor` | `LastSyncedFrom` of the stored token; a goroutine has its own copy in `run[w].mem` |
| `vault`, `ledger` | accounts and transactions that exist |
| `run` | the goroutine: stage, months left, identifiers to fetch, chunk fetched, latest date seen |
| `lane` | the goroutine per currency of CreateAccounts and CreateTransactions |

Every call to the gateway, the vault or the ledger and every write of a file is
a step; with `Failures` each may fail, and each failure goes where the code
sends it: a failed search or directory ends the currency, a failed chunk counts
as an empty one, a failed account ends the accounts of the currency, a failed
transaction is skipped. A posted transaction may be reported as an error, when
the answer is lost and the repeated request meets 409 (`integration/ledger/client.go` 61).

### GatewayCall and HttpClient

`GatewayCall`: a call is opened and ends with success or failure; success only
if the service has the item; the service may act at any time after the call was
opened, after its end too. This is what `Workflow` assumes of a post.

`HttpClient` has a record per call of `Client.Do`: where the loop is (`pc`),
whether the body has been consumed, the status of the last answer, the doubled
milliseconds of the backoff (`mult`), the wait and who asked for it, and what
the ledger or vault client concludes. `created` are the items the services
have, `stray` the requests that are still at a service although their
connection is gone. The service acts or refuses (`HttpServe`), is overloaded or
reports an error for what it has done (`HttpServeFaulty`); the connection breaks
before or after the service has seen the request (`HttpBreak`). The backoff is
the computation of `backoff.go` with the conversion of a float that does not
fit a duration as a choice between the least and the greatest integer, which
is what the platforms give. `HttpImplements` maps the record to the outcome of
`GatewayCall`.

### Session

`session` is the JWT and the SSID with an expiry each, `query` the step of
`AuthorizedClient.Do` and the session in the headers of the query, `logins` and
`revoked` what the gateway has made and forgotten. Every HTTP call is a step:
check, prolongation, the two steps of a login, writing the headers, sending,
clearing after 401 and beginning again. Time passes between any two steps and
the gateway may forget a session at any moment. A query whose HTTP call gave up
has no response, and `auth.go` 243 looks at its status before its error: the
panic is `SessionRestart`.

### TimeShift, TokenFormat, Metrics

`TimeShift`: time is a number of moments, a calendar any increasing sequence
`Begin` of the beginnings of months, so that months of 28 to 31 days and moments
within a day are instances. `SliceMonth` is an iteration of `SliceByMonths`,
`PartitionInterval` sets the two ends.

`TokenFormat`: a name is a sequence of words and spaces, a word a sequence of
texts with line breaks between them, which is what the message (split at
spaces) and the file (split at lines) tell apart. `CreateToken` is the message
of the one service and its parsing in the other, `Save` and `Load` are
`Serialize` and `Deserialize`; a map is written in any order, dates lose their
time of day. Neither operator is recursive: the parts of a message are positions
in it, the cursor of a currency is the last line with its letters.

`Metrics`: `counter` are the fields, `taken` what `Work` has read; read,
subtract and report are a step per counter, additions come at any moment.

### Daemons

`phase` is where `Start` of a daemon is, `stop` how far its `Stop` is
(`cancelOnce` and the channel done), `tick` whether the channel of its ticker
holds one; `canceled` is the context that all daemons share, `pool` and
`program` are `DaemonPool.Start` and `Program.Start`. The select of a scheduled
daemon is two actions that may both be enabled (`WorkAtTick`, `StartReturns`).
A worker may return although nobody canceled it (`MaxEarly` times); a setup may
fail, which cancels the context and stops the program. Work that returns upon
Cancel is assumed to do so also if Cancel came first.

### RestApi

`calls` are the HTTP calls in the order of their arrival, each with its status
and, as history, the calls that had ended before it began; `relays` the actors
registered, `lake` the messages between the services, `told` what a relay hands
over. `Request`, `Take` and `Timeout` are the handlers, `ImportReceives` and
`ImportReplies` the import service, which does what `TokenService` says:
its actions are used, not copied. `RestReceives` is the REST side of the lake.
Messages overtake each other. One that is lost is one that is never
received, since nothing has to be received. `List`, `ReadToken` and `ListEnds`
are `GET /token`, which reads the shared storage one token at a time.

### SystemControl

`enabled` and `active` are the unit, `job` the job systemd has for it and the
handler that waits for the result, `handler` where `EnableUnit` or
`DisableUnit` is, `blocked` whether the dbus library is stuck with a result
nobody reads. A handler gives up after five seconds (`GiveUp`), the job goes on;
a later job of the other kind replaces it; the machine may restart.

### Monitors

`ok` are the flags of the two monitors, `health` the handler with what it has
read, `during` the history of what was measured since the handler began. How
much is free and used decides nothing and is left out.

### Taken from outside the repository

The actor-system library: FIFO mailboxes, one goroutine per actor, names as the
message carries them. The lake may lose the message of a tick; requests of
clients are modelled from their arrival in `TokenActor` and from their sending
in `RestApi`. local-fs: `Delete` removes a directory
with its content and succeeds if there is none; `WriteFileExclusive` fails on an
existing file; a write is complete or did not happen. Gateway: a statement is
found by the search from its value date on, never before and not later.
Registration of an actor under a name that is free succeeds. systemd: one job
per unit, mode "replace" cancels a job of the other kind; go-systemd delivers
results one after the other on the channels it was given.

## 3. The checks

`tlc -config <run>.cfg <module>.tla`, module `MCTokenActor`, `MCWorkflow`,
`MCSupport` or `MCRest` by the name of the run. All runs set `CHECK_DEADLOCK
FALSE`: when the bounded requests, ticks, faults and restarts are used up and
every goroutine has ended, the system rests.

| Run | Asks | Bounds |
|---|---|---|
| `tokens_hostile` | With failing storage, names used again, a tick and a restart: types; a Synchronizing actor has its end coming (`SynchronizingHasSync`); each request waits in exactly one place until answered (`RequestsTracked`); only the request that woke the actor is overtaken (`OvertakenOnlyByWaking`) | 2 ids, 2 users, 2 goroutines, 3 requests, 1 tick, 1 restart; all switches on |
| `tokens_steady` | Does the service implement `TokenService`? (`Linearizable`) | 4 requests, 1 restart, no tick, fresh names, no faults |
| `tokens_live` | Create, delete and create again, with a tick and a restart: has a NonExist actor really no file (`NonExistIsAbsent`), do acknowledged deletes last (`DeletedIsAbsent`), is what was granted still stored while nobody asks for a delete (`StoredIsGranted`)? Is every request answered (`Answered`), does Synchronizing end (`SynchronizingEnds`)? | 2 ids, 1 user, 2 goroutines, 3 requests, 1 tick, 1 restart |
| `workflow_overlapping` | Two goroutines of one token: types, `CursorCoversPast` | 2 statements in 2 months, chunks of 1, 1 restart |
| `workflow_failing` | Any call may fail: marks are true (`AckedIsPosted`, `AckedHasAccounts`), the cursor covers the past and never moves back | 3 statements, 2 months, chunks of 1 |
| `workflow_imported` | Two currencies, one of them not a main currency: every statement reaches the ledger (`Imported`), never before its accounts (`PostedHasAccounts`) | 3 statements, 2 months, chunks of 2, 1 restart |
| `support` | What actors and workflow rest on, part by part. HTTP: `HttpImplements`, `PostedOnce`, `NeverMalformed`, `WaitBounded`, `HttpEnds`. Session: `NeverResendsRefused`, `RefusedForCause`, `QueriesEnd`. Daemons: `EndIsClean`, `LateOnce`, `ProgramEventuallyEnds`. Counters: `Conserved`. Months: `MonthsSearchedOnce`. Formats: `KeptAsSent`, `CursorKept` | 3 calls, 2 of them for one transaction, 3 faults; 3 queries, 2 troubles, lifetimes of 2 and 3 in 6 moments; 2 daemons that work once, 1 scheduled; 2 counters; 4 months of 4 or 6 moments; 9 names; 2 saves |
| `rest` | What HTTP clients are told. Tokens: `ClientsAgree`, `AcknowledgedIsStored`, `ListIsCurrent`. Tenants: `AgreedIsSo`. Health: `HealthIsRecent` | 3 calls, 2 ids, 1 listing; 2 handlers, 3 calls, 1 restart, 1 refusal; 2 health calls |
| `tokens_wiped`, `tokens_raced`, `tokens_stale`, `workflow_stopped` | expected counterexamples, section 5 | as small as shows them |

`support` and `rest` hold several modules that do not interact. The variable
`part` chooses one of them per behaviour and the others stay where they began,
so that the states are the sum and not the product of the parts. `rest`
uses the symmetry of names and handlers; it checks invariants only. Each checks
the type invariants of its parts as `PartsTypeOK`.

**Why the bounds suffice.** The token hazards need a create, a delete and
another create of one name, or a synchronization between, or two
tokens and a tick that sees a deleted one. Two goroutine slots let one outlive
its token while the next works; if both are taken a third start waits, which
only delays. The sequences of section 5 are all found within these bounds.
A month has two days and the horizon ends in the second month, so a statement
falls at either side of a month boundary; chunks smaller than the months' content make
the cursor move more than once and out of order. Two slots for goroutines in `Workflow` let
one store a cursor while another holds an older copy.
Three faults let a call lose its answer, be overloaded and meet its own duplicate
while a second call posts the same; the backoff passes its maximum and the
overflow within them. With lifetimes of 2 and 3 and a margin of 1 either token
expires first, within a query as well. The HTTP clients of `rest` can create, delete and
use a token again with every order of timeouts and replies. `TimeShift` is
checked for all pairs of dates of its calendar, and proved for every calendar.

Not every property holds everywhere, and that is part of the result:

- `NonExistIsAbsent` needs a storage that does not fail: `NilToken` takes an
  error of `Exists` for absence and becomes NonExist although the directory,
  when its removal fails as well, keeps the credentials (`persistence/token.go` 90).
- `DeletedIsAbsent` needs `~WriteFileCreates`. If `WriteFile` creates missing
  files, a goroutine that outlives the delete writes the credentials back.
- `StoredIsGranted` speaks of histories without a delete; see `tokens_wiped`,
  `tokens_raced` and `tokens_stale` for what happens otherwise.
- `CursorMonotone` is checked for one goroutine: a second one that started
  earlier stores the older cursors it holds. `CursorCoversPast` survives that.
- `PostedHasAccounts` needs one goroutine and calls that succeed:
  `CreateTransactions` does not look at `ack_account`, so after a failed
  account, or when another goroutine has fetched the data meanwhile, it posts anyway.
- `Imported` is stated where only one of CZK and EUR is on offer; see `workflow_stopped`.
- `WaitBounded` speaks of waits the client chose: a Retry-After header is obeyed
  whatever it says, negative or very large.
- `KeptAsSent` speaks of names without spaces and line breaks: they are accepted,
  never read past the end (`actor/common.go` 39), and kept. A name with a
  space makes a message of too many parts, one that ends the message in a space
  is read past the end, and one with a line break moves the lines of the file.
- `AgreedIsSo` speaks of calls that no other call overlapped. After the result of
  a job has found nobody (`blocked`) no later start or stop succeeds until a restart (of the
  service or the machine; the model has the latter).
- `ProgramEventuallyEnds` does not promise an end when a worker returns early:
  `Start` then waits for a Stop that nobody calls (`support/concurrent/oneshot.go` 90).
- `QueriesEnd` is about one query at a time, which is how the workflow uses the
  client. Two that shared it could clear each other's session for ever.

**Fairness.** `ActorsRun`: weak fairness of each actor, which runs on a goroutine
the Go runtime schedules. `SyncsEnd`: weak fairness of the steps that lead a
goroutine to its end, without `SyncUpdate` and `SyncTouch`, which it is free to
skip; it presumes that gateways answer in the end, which `HttpEnds` and
`QueriesEnd` show for finitely many faults. Ticks and restarts are never
forced. `Workflow!Fairness`: weak fairness of the goroutine and its per-currency
goroutines, and of starting the next synchronization, since the worker ticks
for as long as the service runs. Time passing and publishing are not forced.
Restarts are bounded. In `MCSupport`: weak fairness of every call's own
steps and of a service that is asked (faults are not forced, and bounded);
of the steps of the query; of `Stop`, of `Start` and of the
program, each a goroutine. Ticks, signals, early returns, expiry and revocation
are never forced.

## 4. The proofs

`tlapm <module>.tla`. The theorems hold for all values of the constants under
the named assumptions of the modules and those a theorem states itself. Every
invariant and every safety property of a passing run is a theorem, and so are the
properties of `tokens_wiped`, `tokens_raced` and `tokens_stale` under the
assumptions that exclude these counterexamples; section 4 ends with what is not.

| Module | Proves about | Uses |
|---|---|---|
| `TokenActor_proofs` | `TokenActor`: types, what single actors know | - |
| `TokenService_proofs` | `TokenActor`: requests, storage, the refinement to `TokenService` | `TokenActor_proofs` |
| `Workflow_proofs` | `Workflow` | - |
| `HttpClient_proofs`, `Session_proofs` | the modules of these names | - |
| `Support_proofs` | `Daemons`, `Metrics`, `TimeShift`, `TokenFormat`, and all of `MCSupport` | the two above |
| `SystemControl_proofs` | `SystemControl`, `Monitors` | - |
| `RestApi_proofs` | `RestApi`, and all of `MCRest` | `SystemControl_proofs` |

**TokenActor_proofs.**
- `Spec_TypeOK`. `TypeOK` is not inductive. A goroutine that works writes below
  `sync[s].id` and a create writes below the name of its actor, and neither may
  be the empty name that a tick can produce; a CreateToken message takes its
  credentials from its request, which has to exist. `WellFormed` says so and
  `IInv == TypeOK /\ WellFormed` is inductive: `InitIInv`, `StepIInv`, the latter from
  one lemma per actor (`ActorStepIInv`, `SyncStepIInv`, `WorkerStepIInv`,
  `CrashIInv`, `ReceiveIInv`), each with one step per action. The empty name can
  reach `lookup` and never `working`: there is no file to find under it.
- `Spec_SynchronizingHasSync`. Inductive together with `IInv`. The step that
  needs care is an actor that takes a SynchornizationDone of an *earlier*
  goroutine: it leaves Synchronizing by that very step; and every way into the state
  starts a goroutine. Holds for all switches, faults and restarts included.
- `Spec_DeletedIsAbsent`, assuming `~WriteFileCreates`. Inductive relative to
  `IInv`: only a create puts credentials where none are, and it is granted in
  the same step; an update finds its file or fails.
- `Spec_NonExistIsAbsent`, assuming `~WriteFileCreates` and `~StorageFaults`: an actor
  becomes NonExist by a look that found nothing or by a delete, and nobody but
  itself creates the file.

**TokenService_proofs.** What an actor does to its mailbox and to the requests is
one of a few things (`StepMailboxes`): the first message goes to the end
(`Turned`), or is taken and answered (`Handled`), somebody tells it one more, or a
restart empties it. The proofs follow these cases instead of the receivers.
- `Spec_RequestsTracked`, no assumption. `Told` adds to `IInv` that messages are
  genuine (a message of a client has the type of its request) and, for each
  request and each mailbox, *where* in it the request stands: nowhere, or at one
  position (`Tracked`). The cardinality of the property does not say
  that and is not inductive in a form the provers can handle.
- `Spec_OvertakenOnlyByWaking`, an action property, no assumption. `Orderly`:
  mailboxes are sorted but for the request that woke the actor, an actor
  in Nil has that request first, and an absent actor has no mail and no goroutine.
  The latter is why a message of a goroutine wakes nobody.
- `Spec_StoredIsGranted`, assuming `~StorageFaults`. `Kept`: while nobody asks for a
  delete, the storage is what was granted, directories exist only with a token in
  them, and what actors, goroutines and the worker have seen agrees
  with it, so that no lookup comes back empty and nothing is ever
  "cleaned". Holds whether `WriteFile` creates files or not.
- `Linearizable`, the refinement, in three theorems, because a service that deletes
  breaks the promise where section 5 says. `Spec_LinearizableWithoutDeletes`
  assumes `~StorageFaults` and clients that send no delete; names may be used
  again, the worker may tick. `Spec_LinearizableWithDeletes` assumes
  `~StorageFaults`, `~ReuseIds`, `~WriteFileCreates` and no tick, as in the run
  `tokens_steady`. `Spec_LinearizableWithoutSyncs` assumes `~StorageFaults`, no
  client that synchronizes and no tick; names may be used again and again. All
  rest on `StepRefines`, which maps every step that is not
  a goroutine's or the worker's to an action of `TokenService` or a stutter, given that
  actors are right about the storage (`ActorsAgree`); the invariants `Kept`,
  `Steady` and `Quiet` give that and show the other steps to be stutters. `Steady`: a
  goroutine works for a name whose only create has been answered,
  so whoever is about to remove the directory removes nothing that was created
  since. `Quiet`: there is no goroutine, and no message that would start one.
- `Spec_ExistIsStored` and `Spec_NeverCleansExisting`, what `tokens_raced` and
  `tokens_wiped` violate, assuming `~StorageFaults` and `NobodyRaces`, the
  disjunction of the other assumptions of the refinement. Each of the three invariants
  implies `Harmless`: actors agree with the storage, and who is about to remove a
  directory knows truly that no token is in it. `NeverCleansExisting` is an
  action property: of all steps only a delete, or a removal by one who has looked,
  takes a directory away.
- `Spec_StoredIsCurrent`, what `tokens_stale` violates, assuming only `~ReuseIds` and
  `~WriteFileCreates`: with failing storage, ticks and restarts too. There is
  one create for a name (`CreatesUnique`), and what is stored, what was granted and what a
  goroutine holds are all from it.
- `Spec_CredentialsSent`, no assumption: credentials that are stored for a token, were
  granted to it, or are held by a goroutine that works for it, were sent in a create of that
  token. So a goroutine that outlives its token, as in `tokens_stale`, can
  bring back old credentials and never those of somebody else.
- `Spec_RepliesFit` and, as an action property, `Spec_AnsweredOnce`, no assumption:
  an answer is one the request may get, and final, across restarts. They follow from
  `Told` by what each step does to the requests (`Settles`).

**Workflow_proofs.**
- `Spec_TypeOK`, from `WInv`: the types, and that a goroutine which searches has
  a cursor in memory for each currency left.
- `Spec_AckedIsPosted`, `Spec_AckedHasAccounts`, from `WInv` and `LanesKnow`: what a
  lane knows between the acceptance of a call and the mark it writes
  stays true, since nothing is ever removed from vault and ledger; a
  restart loses the lane and not the fact.
- `Spec_CursorCoversPast`, no assumption: any failures, restarts and number of
  goroutines. The property speaks of the stored cursor only. `Covers` gives the same for
  every copy in memory (`Reached`), for the months searched so far up to the
  directories that are still to be made (`Searched`, `Making`), for the
  latest date of a chunk (`Loading`), and, decisive for goroutines that overlap,
  for every statement with a directory: the months before it are known as
  well (`KnownCovers`), whoever made it and whatever failed since. Facts of
  the past stay facts when time passes, statements appear and
  directories are made (`Later`).
- `Spec_OnlyPublished`, no assumption: nothing is imported, nor a cursor set, but for what
  the gateway has published: a transaction and a mark have their data, data its
  directory, a directory its statement at the gateway, and a cursor is the value
  date of a statement with a directory. `Seen` says of each goroutine, by its stage,
  that the identifiers and statements it holds come from the gateway or from a
  directory, that every date it may store is that of a statement with a directory,
  and of each lane that what it is about to mark has its data. The copies of
  cursors that goroutines store over each other are all such dates, whichever is
  stored last.
- `Spec_CursorMonotone`, an action property, assuming one goroutine (`Alone`): a copy
  in memory is not behind the stored cursor (`Aheads`).
- `Spec_PostedHasAccounts`, assuming `~Failures` and `Alone`: `CreateTransactions`
  never looks at `ack_account`, so the invariant (`Prepared`) has to carry through the
  stages that CreateAccounts went through for the currency and that nothing
  was downloaded since.

**HttpClient_proofs.** `HttpInv` adds to the types one conjunct per call
(`CallInv`: the body is whole when it is sent, the result is open until the
end, waits chosen by the client are in bounds, who won is created) and
`OneWinner`. From it `HttpSpec_PostedOnce`, `HttpSpec_NeverMalformed`,
`HttpSpec_WaitBounded`, `HttpSpec_TypeOK`; `HttpSpec_Implements` maps each
step to a step of `GatewayCall` or a stutter.

**Session_proofs.** `SessionInv`: both tokens are of one login, a session that
was refused to the query has been replaced before the query goes on
(`Replaced`), and what is in the headers was good for the margin when it was
checked (`CheckedGood`). From it `Session_NeverResendsRefused`
and, as an action property, `Session_RefusedForCause`.

**Support_proofs.**
- `Daemons_EndIsClean` and `Daemons_LateOnce`, for any number of daemons: what the pool
  and the program saw stays true (`Remembered`), and a daemon that works after its
  Stop has no tick left (`LastTick`).
- `MetricsSpec_Conserved` is inductive with the types.
  `ShiftSpec_MonthsSearchedOnce` rests on an invariant that gives every interval
  made so far in terms of the calendar.
- `FormatSpec_KeptAsSent` and `FormatSpec_CursorKept`. The invariant says where the
  file comes from: it is one of the outcomes of `Serialize` for the token that was
  saved, and that token is `Credible`. The work is in the operators.
  `FileShape`: whatever the order of the cursors, the lines are `created`, texts up
  to some line, and then each cursor in a line of its own. `ReadBack`: from lines
  of that shape `Deserialize` takes for every currency the date of its own line,
  because that is the last one with its letters, also if a password begins with
  the same letters. `ParsedWords` and `ParsedPlain` are about the message: one of
  plain names has three parts and is neither refused nor read past its end. Assumed of
  the constants: a currency is not the sign for a short text, dates are dates.
- `MCSpec_PartsTypeOK`: the invariants of the parts, together.

**SystemControl_proofs.** `AgreedIsSo` is about a call that has ended;
the invariant follows it while it runs alone (`AloneHolds`): the others are idle,
the unit is enabled before the start is waited for, and no job is left when it
disables the unit; `OwnerWaits` says that the handler of a job waits for one of
its kind; `AgreedRests` that nothing is under way once something is agreed.
`Monitors_HealthIsRecent`: each flag the handler has read was found since it
began (`Recent`); it is not inductive without the flags being what was last
measured, nor without the disk that HEAD does not read.

**RestApi_proofs.** `RestSpec_TypeOK`, `RestSpec_ClientsAgree`,
`RestSpec_AcknowledgedIsStored` and `RestSpec_ListIsCurrent`, all from `RestInv` and
without assumptions on clients or lake. A status is the end of a chain and each
link is a conjunct: every request at the import service is from one call and
every call has one at most (`Genuine`); a reply on its way, or held by a relay, is
what the request was answered (`UnderWay`); a status is that of such a reply, or a
timeout (`Ends`); what was answered TN is stored until a TD (`Stores`); and a
request knows what had been acknowledged before its call began (`Agree`), also
if the request itself arrives late. `Lists` is the same for a listing half read.
`MCSpec_PartsTypeOK`: the invariants of the three parts, together.

**Only model-checked**: the liveness properties `Answered`, `SynchronizingEnds`,
`HttpEnds`, `QueriesEnd`, `ProgramEventuallyEnds` and `Imported`. They need
fairness and ENABLED, which the proof system does not reason about.

TLC finds no violation of the inductive invariants either: `Told` and `Orderly` on the
instance of `tokens_hostile`, `Kept` (without deletes) on that of `tokens_live`,
`Steady` on that of `tokens_steady`, `Quiet` on one that creates and deletes only,
`Harmless` on all three, `CredentialsSent`, `RepliesFit` and `AnsweredOnce` on the
instance of `tokens_hostile`, `Covers`, `Aheads`, `Prepared` and `Seen` on those of
the workflow, `FormatInv` on that of `support`, and `RestInv`, `ControlInv` and `MonitorsInv`
on that of `rest`, each as an INVARIANT of a module that extends the proofs.

## 5. What the checks found

Each is a run with an expected counterexample.

1. `tokens_wiped` (`persistence/token.go` 41). Delete leaves an empty directory.
   The next tick fails to load it, removes it, but keeps a zero token in its
   result and asks the token with the *empty name* to synchronize. The actor of
   that name finds no `token//value` and removes `token/`, all tokens with it. The
   log says "Cleaned files of no longer existing token".
2. `tokens_raced` (`persistence/token.go` 91). A goroutine, or a tick, sees the
   file missing after a delete; the token is created anew; then the directory
   is removed. The actor stays in Exist with nothing stored.
3. `tokens_stale` (`persistence/token.go` 116). A goroutine that outlives its
   token stores what it read over the credentials of the token created after it.
4. `workflow_stopped` (`integration/workflow.go` 382). `DownloadStatements`
   returns at once if cursors for CZK and EUR exist. The first synchronization
   stores both before it downloads. Where both are on offer, every later synchronization
   downloads nothing, and what was not fetched the first time never is.

2 and 3 need a name that is used again, which the REST service does not do but
the message interface allows; 1 needs only a delete and a tick. `Spec_StoredIsCurrent`
shows that 3 cannot happen otherwise, unless `WriteFile` creates files;
`Spec_ExistIsStored` and `Spec_NeverCleansExisting` show three ways in which a
service is safe from 1 and 2.

Met while modelling, with no text in the repository that says otherwise, and
hence only noted: a query whose HTTP call gave up panics (`auth.go` 243); an
early return of a worker leaves the program running without it
(`support/concurrent/oneshot.go` 90); a job whose handler has timed out blocks the
dispatcher of go-systemd (`rest:system/system.go` 125); a Retry-After header is
obeyed without a bound (`support/http/backoff.go` 33); the goroutine of a relay
whose call has timed out waits for ever (`rest:actor/token.go` 29).

## 6. Not modelled

Configuration, environment, logging, identification of the host and the
making of identifiers: they compute a value at start-up or format one, and no
property depends on it. The black-box tests. The construction of objects in
both `boot/init.go` beyond the daemons they register. The HTTP server and TLS
(`api/server.go`) beyond being daemons. Checks of paths and bodies that end
an HTTP call before it does anything. The list of tenants and of properties of
units, which only read. Free and used bytes. Encryption: plain and encrypted storage
share their operations. Writes torn by a power failure. Amounts,
counterparties and other content of statements, which the workflow carries
but never branches on.

## 7. Plan

Done: all components above but those of section 6; a theorem for every safety
property of the passing runs, and for three of the four that section 5 violates, where they hold.

What could follow, in this order.

1. `ExistIsStored` with ticks *and* deletes, for names used once. A tick that looks
   for a deleted token may still start an actor for the empty name, so that the
   proof has to follow what that actor finds; `tokens_wiped` shows that the
   directory is lost, and a weaker promise has to be found first.
2. The safety half of the liveness properties: a request that waits has an
   actor that can take it, a lane that has not ended has a step that can.
