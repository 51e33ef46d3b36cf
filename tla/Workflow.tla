------------------------------- MODULE Workflow -------------------------------
(***************************************************************************)
(* What a synchronization goroutine does with one token, and what it       *)
(* leaves behind (integration/workflow.go): it asks the Bondster gateway   *)
(* for the identifiers of new statements month by month, downloads them in *)
(* chunks, creates their accounts in the vault and posts them as           *)
(* transactions to the ledger.                                             *)
(*                                                                         *)
(* A statement is a record with its currency, value date and type. Where   *)
(* it stands is kept in files below token/<id>/statements/<currency>/<id>: *)
(* the directory (known), the file data, and the marks ack_account and     *)
(* ack_transfer; how far a currency has been read is the cursor, stored    *)
(* with the token. Dates are numbered days, 0 being 2017-01-01; the cursor *)
(* is stored with the precision of a day (model/token.go, line 99).        *)
(*                                                                         *)
(* Several goroutines may do this for the same token at the same time: a   *)
(* token that is deleted, created and synchronized again while the first   *)
(* goroutine runs (module TokenActor); each is a member of Runs.           *)
(***************************************************************************)
EXTENDS Naturals, FiniteSets

CONSTANTS
  Currencies,     \* the currencies the gateway offers
  Main,           \* the two currencies DownloadStatements looks for first
  Statements,     \* what the gateway will publish: [id, currency, date, type]
  Types,          \* types of statements
  Runs,           \* synchronization goroutines of the token
  Horizon,        \* the last day considered (a bound)
  DaysPerMonth,
  BatchSize,      \* statements downloaded at once: 100 in the code
  Failures,       \* may gateways and storage calls fail?
  MaxCrashes,     \* bound on the restarts of the service
  None

Days == 0..Horizon

ASSUME DaysAssumption ==
  Horizon \in Nat /\ DaysPerMonth \in Nat \ {0} /\ BatchSize \in Nat \ {0}
ASSUME StatementsAssumption ==
  /\ \A s \in Statements : s.currency \in Currencies /\ s.date \in Days /\ s.type \in Types
  /\ "NOSTRO" \notin Types
ASSUME NoneAssumption == None \notin Nat /\ None \notin Currencies
ASSUME RunsAssumption == Failures \in BOOLEAN /\ MaxCrashes \in Nat

VARIABLES
  clock, published,            \* the day, and the statements at the gateway
  known, data, ackAccount, ackTransfer,  \* files, as sets of statements
  cursor,                      \* the stored token: [Currencies -> day or None]
  vault, ledger,               \* accounts and transactions
  run,                         \* [Runs -> what the goroutine is doing]
  lane,                        \* [Runs -> [Currencies -> goroutine of CreateAccounts
                               \*   or CreateTransactions]]
  crashes

world == <<clock, published>>
files == <<known, data, ackAccount, ackTransfer>>
services == <<vault, ledger>>
vars == <<clock, published, known, data, ackAccount, ackTransfer, cursor,
          vault, ledger, run, lane, crashes>>

Month(day) == day \div DaysPerMonth

Of(c, set) == {s \in set : s.currency = c}

Accounts == Currencies \X (Types \cup {"NOSTRO"})
AccountsOf(s) == {<<s.currency, s.type>>, <<s.currency, "NOSTRO">>}

RunPcs == {"idle", "discover", "initialize", "currency", "months", "mkdir",
           "chunk", "write", "accounts", "transactions"}
Run == [pc: RunPcs, mem: [Currencies -> Days \cup {None}], left: SUBSET Currencies,
        at: Currencies \cup {None}, month: 0..Horizon + 1, last: 0..Horizon,
        ids: SUBSET Statements, got: SUBSET Statements, time: Days]
IdleRun == [pc |-> "idle", mem |-> [c \in Currencies |-> None], left |-> {},
            at |-> None, month |-> 0, last |-> 0, ids |-> {}, got |-> {}, time |-> 0]

LanePcs == {"list", "create", "confirm", "post", "done"}
Lane == [pc: LanePcs, ids: SUBSET Statements, todo: SUBSET Accounts,
         at: SUBSET Statements]
LaneAt(pc) == [pc |-> pc, ids |-> {}, todo |-> {}, at |-> {}]

\* Type invariant.
TypeOK ==
  /\ clock \in Days /\ published \subseteq Statements
  /\ known \subseteq Statements /\ data \subseteq Statements
  /\ ackAccount \subseteq Statements /\ ackTransfer \subseteq Statements
  /\ cursor \in [Currencies -> Days \cup {None}]
  /\ vault \subseteq Accounts /\ ledger \subseteq Statements
  /\ run \in [Runs -> Run]
  /\ lane \in [Runs -> [Currencies -> Lane]]
  /\ crashes \in 0..MaxCrashes

Init ==
  /\ clock = 0 /\ published = {}
  /\ known = {} /\ data = {} /\ ackAccount = {} /\ ackTransfer = {}
  /\ cursor = [c \in Currencies |-> None]
  /\ vault = {} /\ ledger = {}
  /\ run = [w \in Runs |-> IdleRun]
  /\ lane = [w \in Runs |-> [c \in Currencies |-> LaneAt("done")]]
  /\ crashes = 0

-----------------------------------------------------------------------------
(* The world outside: days pass, the gateway publishes *)

Tomorrow ==
  /\ clock < Horizon
  /\ clock' = clock + 1
  /\ UNCHANGED <<published, files, cursor, services, run, lane, crashes>>

\* A statement appears on the day of its value date.
Publish(s) ==
  /\ s \notin published /\ s.date = clock
  /\ published' = published \cup {s}
  /\ UNCHANGED <<clock, files, cursor, services, run, lane, crashes>>

-----------------------------------------------------------------------------
(* DownloadStatements *)

\* The stage CreateAccounts or CreateTransactions: one goroutine for every
\* currency the token in memory has a cursor for.
EnterStage(w, stage, mem) ==
  /\ run' = [run EXCEPT ![w].pc = stage, ![w].mem = mem]
  /\ lane' = [lane EXCEPT ![w] =
       [c \in Currencies |-> LaneAt(IF mem[c] = None THEN "done" ELSE "list")]]

\* LoadToken, and the early return of DownloadStatements.
Start(w) ==
  /\ run[w].pc = "idle"
  /\ IF \A c \in Main : c \in Currencies /\ cursor[c] # None
       THEN EnterStage(w, "accounts", cursor)
       ELSE /\ run' = [run EXCEPT ![w] = [IdleRun EXCEPT !.pc = "discover", !.mem = cursor]]
            /\ UNCHANGED lane
  /\ UNCHANGED <<world, files, cursor, services, crashes>>

GetCurrencies(w) ==
  /\ run[w].pc = "discover"
  /\ \/ /\ run' = [run EXCEPT ![w].pc = "initialize",
                     ![w].left = {c \in Currencies : run[w].mem[c] = None}]
        /\ UNCHANGED lane
     \/ Failures /\ EnterStage(w, "accounts", run[w].mem)
  /\ UNCHANGED <<world, files, cursor, services, crashes>>

\* UpdateToken stores every cursor the goroutine has in memory.
UpdateToken(mem) == cursor' = mem \/ (Failures /\ UNCHANGED cursor)

InitCurrency(w) ==
  /\ run[w].pc = "initialize"
  /\ \E c \in run[w].left :
       LET mem == [run[w].mem EXCEPT ![c] = 0]
       IN /\ run' = [run EXCEPT ![w].mem = mem, ![w].left = @ \ {c}]
          /\ UpdateToken(mem)
  /\ UNCHANGED <<world, files, services, lane, crashes>>

AllInitialized(w) ==
  /\ run[w].pc = "initialize" /\ run[w].left = {}
  /\ run' = [run EXCEPT ![w].pc = "currency",
               ![w].left = {c \in Currencies : run[w].mem[c] # None}]
  /\ UNCHANGED <<world, files, cursor, services, lane, crashes>>

\* Mutant of BeginCurrency: the month of the cursor is taken for complete.
BeginCurrencyNext(w) ==
  /\ run[w].pc = "currency"
  /\ \E c \in run[w].left :
       run' = [run EXCEPT ![w] =
         [@ EXCEPT !.pc = "months", !.at = c, !.left = run[w].left \ {c},
                   !.month = Month(run[w].mem[c]) + 1, !.last = Month(clock)]]
  /\ UNCHANGED <<world, files, cursor, services, lane, crashes>>

\* downloadStatementsForCurrency: the months from that of the cursor to now.
BeginCurrency(w) ==
  /\ run[w].pc = "currency"
  /\ \E c \in run[w].left :
       run' = [run EXCEPT ![w] =
         [@ EXCEPT !.pc = "months", !.at = c, !.left = run[w].left \ {c},
                   !.month = Month(run[w].mem[c]), !.last = Month(clock)]]
  /\ UNCHANGED <<world, files, cursor, services, lane, crashes>>

EndCurrencies(w) ==
  /\ run[w].pc = "currency" /\ run[w].left = {}
  /\ EnterStage(w, "accounts", run[w].mem)
  /\ UNCHANGED <<world, files, cursor, services, crashes>>

\* What the gateway has published for the month, and on to the next month.
Found(w) ==
  [run[w] EXCEPT !.pc = "mkdir", !.month = run[w].month + 1,
     !.ids = {s \in Of(run[w].at, published) : Month(s.date) = run[w].month}]

\* Mutants of Search: no end to the months; and a failed month is left out.
SearchOn(w) ==
  /\ run[w].pc = "months"
  /\ run' = [run EXCEPT ![w] = Found(w)]
  /\ UNCHANGED <<world, files, cursor, services, lane, crashes>>

SearchPastErrors(w) ==
  /\ run[w].pc = "months" /\ run[w].month <= run[w].last
  /\ \/ run' = [run EXCEPT ![w] = Found(w)]
     \/ Failures /\ run' = [run EXCEPT ![w].month = @ + 1]
  /\ UNCHANGED <<world, files, cursor, services, lane, crashes>>

\* GetStatementIdsInInterval for one month; a failure ends the currency.
Search(w) ==
  /\ run[w].pc = "months" /\ run[w].month <= run[w].last
  /\ \/ run' = [run EXCEPT ![w] = Found(w)]
     \/ Failures /\ run' = [run EXCEPT ![w].pc = "currency"]
  /\ UNCHANGED <<world, files, cursor, services, lane, crashes>>

\* Exists and Mkdir for one identifier; a failure ends the currency.
Mkdir(w) ==
  /\ run[w].pc = "mkdir"
  /\ \/ \E s \in run[w].ids :
          /\ known' = known \cup {s}
          /\ run' = [run EXCEPT ![w].ids = @ \ {s}]
     \/ /\ run[w].ids = {}
        /\ run' = [run EXCEPT ![w].pc = "months"]
        /\ UNCHANGED known
     \/ /\ Failures /\ run[w].ids # {}
        /\ run' = [run EXCEPT ![w].pc = "currency", ![w].ids = {}]
        /\ UNCHANGED known
  /\ UNCHANGED <<world, data, ackAccount, ackTransfer, cursor, services, lane, crashes>>

\* yieldUnsynchronizedStatementIds lists the directories without data.
ListPending(w) ==
  /\ run[w].pc = "months" /\ run[w].month > run[w].last
  /\ \E ids \in IF Failures THEN SUBSET (Of(run[w].at, known) \ data)
                ELSE {Of(run[w].at, known) \ data} :
       run' = [run EXCEPT ![w].pc = "chunk", ![w].ids = ids]
  /\ UNCHANGED <<world, files, cursor, services, lane, crashes>>

\* Statements with the given identifiers: all of them, or an error, which is as
\* if nothing had come.
GetStatements(ids) == {ids} \cup (IF Failures THEN {{}} ELSE {})

\* downloadStatements of one chunk.
Download(w) ==
  /\ run[w].pc = "chunk"
  /\ \E chunk \in SUBSET run[w].ids :
       /\ \/ Cardinality(chunk) = BatchSize
          \/ chunk = run[w].ids /\ Cardinality(chunk) < BatchSize
       /\ \E got \in GetStatements(chunk) :
            run' = [run EXCEPT ![w] =
              [@ EXCEPT !.pc = "write", !.ids = run[w].ids \ chunk, !.got = got, !.time = 0]]
  /\ UNCHANGED <<world, files, cursor, services, lane, crashes>>

\* The date counts even if the statement cannot be written.
WriteData(w) ==
  /\ run[w].pc = "write"
  /\ \E s \in run[w].got :
       /\ run' = [run EXCEPT ![w].got = @ \ {s},
                    ![w].time = IF s.date > @ THEN s.date ELSE @]
       /\ data' = data \cup {s} \/ (Failures /\ UNCHANGED data)
  /\ UNCHANGED <<world, known, ackAccount, ackTransfer, cursor, services, lane, crashes>>

\* Mutants of MoveCursor: to the current time; and whatever the chunk brought.
MoveCursorToNow(w) ==
  /\ run[w].pc = "write" /\ run[w].got = {}
  /\ LET mem == [run[w].mem EXCEPT ![run[w].at] = clock]
         pc == IF run[w].ids = {} THEN "currency" ELSE "chunk"
     IN run' = [run EXCEPT ![w].pc = pc, ![w].mem = mem] /\ UpdateToken(mem)
  /\ UNCHANGED <<world, files, services, lane, crashes>>

MoveCursorBack(w) ==
  /\ run[w].pc = "write" /\ run[w].got = {}
  /\ LET mem == [run[w].mem EXCEPT ![run[w].at] = run[w].time]
         pc == IF run[w].ids = {} THEN "currency" ELSE "chunk"
     IN run' = [run EXCEPT ![w].pc = pc, ![w].mem = mem] /\ UpdateToken(mem)
  /\ UNCHANGED <<world, files, services, lane, crashes>>

\* The cursor moves to the latest value date of the chunk, never back.
MoveCursor(w) ==
  /\ run[w].pc = "write" /\ run[w].got = {}
  /\ LET r == run[w]
         mem == [r.mem EXCEPT ![r.at] = r.time]
         pc == IF r.ids = {} THEN "currency" ELSE "chunk"
     IN IF r.time < r.mem[r.at]
        THEN run' = [run EXCEPT ![w].pc = pc] /\ UNCHANGED cursor
        ELSE run' = [run EXCEPT ![w].pc = pc, ![w].mem = mem] /\ UpdateToken(mem)
  /\ UNCHANGED <<world, files, services, lane, crashes>>

-----------------------------------------------------------------------------
(* CreateAccounts: one goroutine per currency *)

\* Mutant of AccountsList: the NOSTRO account is forgotten.
AccountsListTypes(w, c) ==
  /\ run[w].pc = "accounts" /\ lane[w][c].pc = "list"
  /\ LET ids == (Of(c, known) \cap data) \ ackAccount
     IN lane' = [lane EXCEPT ![w][c] =
          IF ids = {} THEN LaneAt("done")
          ELSE [LaneAt("create") EXCEPT !.ids = ids,
                  !.todo = {<<c, s.type>> : s \in ids}]]
  /\ UNCHANGED <<world, files, cursor, services, run, crashes>>

AccountsList(w, c) ==
  /\ run[w].pc = "accounts" /\ lane[w][c].pc = "list"
  /\ LET all == (Of(c, known) \cap data) \ ackAccount
     IN \E ids \in IF Failures THEN SUBSET all ELSE {all} :
          lane' = [lane EXCEPT ![w][c] =
            IF ids = {} THEN LaneAt("done")
            ELSE [LaneAt("create") EXCEPT !.ids = ids,
                    !.todo = UNION {AccountsOf(s) : s \in ids}]]
  /\ UNCHANGED <<world, files, cursor, services, run, crashes>>

\* Mutant of AccountsCreate: an error is logged and the loop goes on.
AccountsCreateOn(w, c) ==
  /\ run[w].pc = "accounts" /\ lane[w][c].pc = "create"
  /\ \E a \in lane[w][c].todo :
       /\ vault' \in {vault \cup {a}} \cup (IF Failures THEN {vault} ELSE {})
       /\ lane' = [lane EXCEPT ![w][c].todo = @ \ {a}]
  /\ UNCHANGED <<world, files, cursor, ledger, run, crashes>>

\* CreateAccount; 409 is a success. Any error ends the goroutine, whether or
\* not the vault has created the account.
AccountsCreate(w, c) ==
  /\ run[w].pc = "accounts" /\ lane[w][c].pc = "create"
  /\ \E a \in lane[w][c].todo :
       \/ /\ vault' = vault \cup {a}
          /\ lane' = [lane EXCEPT ![w][c].todo = @ \ {a}]
       \/ /\ Failures
          /\ vault' \in {vault, vault \cup {a}}
          /\ lane' = [lane EXCEPT ![w][c] = LaneAt("done")]
  /\ UNCHANGED <<world, files, cursor, ledger, run, crashes>>

\* Every statement is marked once every account is there.
AccountsConfirm(w, c) ==
  /\ run[w].pc = "accounts" /\ lane[w][c].pc = "create" /\ lane[w][c].todo = {}
  /\ \/ \E s \in lane[w][c].ids :
          /\ lane' = [lane EXCEPT ![w][c].ids = @ \ {s}]
          /\ ackAccount' = ackAccount \cup {s} \/ (Failures /\ UNCHANGED ackAccount)
     \/ /\ lane[w][c].ids = {}
        /\ lane' = [lane EXCEPT ![w][c] = LaneAt("done")]
        /\ UNCHANGED ackAccount
  /\ UNCHANGED <<world, known, data, ackTransfer, cursor, services, run, crashes>>

LanesDone(w) == \A c \in Currencies : lane[w][c].pc = "done"

AccountsWait(w) ==
  /\ run[w].pc = "accounts" /\ LanesDone(w)
  /\ EnterStage(w, "transactions", run[w].mem)
  /\ UNCHANGED <<world, files, cursor, services, crashes>>

-----------------------------------------------------------------------------
(* CreateTransactions: one goroutine per currency *)

TransactionsList(w, c) ==
  /\ run[w].pc = "transactions" /\ lane[w][c].pc = "list"
  /\ \E ids \in {Of(c, known)} \cup (IF Failures THEN {{}} ELSE {}) :
       lane' = [lane EXCEPT ![w][c] = [LaneAt("post") EXCEPT !.ids = ids]]
  /\ UNCHANGED <<world, files, cursor, services, run, crashes>>

\* A statement that is marked, or has no data, or cannot be read is left out.
TransactionsSkip(w, c) ==
  /\ run[w].pc = "transactions" /\ lane[w][c].pc = "post"
  /\ \E s \in lane[w][c].ids :
       /\ s \in ackTransfer \/ s \notin data \/ Failures
       /\ lane' = [lane EXCEPT ![w][c].ids = @ \ {s}]
  /\ UNCHANGED <<world, files, cursor, services, run, crashes>>

Posted(l, s) == [l EXCEPT !.pc = "confirm", !.at = {s}, !.ids = l.ids \ {s}]

\* Mutant of TransactionsPost: an error does not keep the mark away.
TransactionsPostOn(w, c) ==
  /\ run[w].pc = "transactions" /\ lane[w][c].pc = "post"
  /\ \E s \in lane[w][c].ids :
       /\ s \notin ackTransfer /\ s \in data
       /\ ledger' \in {ledger \cup {s}} \cup (IF Failures THEN {ledger} ELSE {})
       /\ lane' = [lane EXCEPT ![w][c] = Posted(@, s)]
  /\ UNCHANGED <<world, files, cursor, vault, run, crashes>>

\* CreateTransaction. The ledger refuses a transaction it has (409), and the
\* client counts that as an error: the statement is not marked. An error may
\* also hide that the ledger has just accepted the transaction, when the HTTP
\* client repeats the request.
TransactionsPost(w, c) ==
  /\ run[w].pc = "transactions" /\ lane[w][c].pc = "post"
  /\ \E s \in lane[w][c].ids :
       /\ s \notin ackTransfer /\ s \in data
       /\ \/ /\ s \notin ledger
             /\ ledger' = ledger \cup {s}
             /\ lane' = [lane EXCEPT ![w][c] = Posted(@, s)]
          \/ /\ s \in ledger \/ Failures
             /\ ledger' \in {ledger} \cup (IF Failures THEN {ledger \cup {s}} ELSE {})
             /\ lane' = [lane EXCEPT ![w][c].ids = @ \ {s}]
  /\ UNCHANGED <<world, files, cursor, vault, run, crashes>>

TransactionsConfirm(w, c) ==
  /\ run[w].pc = "transactions" /\ lane[w][c].pc = "confirm"
  /\ ackTransfer' = ackTransfer \cup lane[w][c].at \/ (Failures /\ UNCHANGED ackTransfer)
  /\ lane' = [lane EXCEPT ![w][c].pc = "post", ![w][c].at = {}]
  /\ UNCHANGED <<world, known, data, ackAccount, cursor, services, run, crashes>>

TransactionsEnd(w, c) ==
  /\ run[w].pc = "transactions" /\ lane[w][c].pc = "post" /\ lane[w][c].ids = {}
  /\ lane' = [lane EXCEPT ![w][c] = LaneAt("done")]
  /\ UNCHANGED <<world, files, cursor, services, run, crashes>>

\* The goroutine ends; the next tick or request starts another one.
TransactionsWait(w) ==
  /\ run[w].pc = "transactions" /\ LanesDone(w)
  /\ run' = [run EXCEPT ![w] = IdleRun]
  /\ UNCHANGED <<world, files, cursor, services, lane, crashes>>

-----------------------------------------------------------------------------
(* The whole *)

RunStep(w) ==
  \/ Start(w) \/ GetCurrencies(w) \/ InitCurrency(w) \/ AllInitialized(w)
  \/ BeginCurrency(w) \/ EndCurrencies(w) \/ Search(w) \/ Mkdir(w)
  \/ ListPending(w) \/ Download(w) \/ WriteData(w) \/ MoveCursor(w)
  \/ AccountsWait(w) \/ TransactionsWait(w)

LaneStep(w, c) ==
  \/ AccountsList(w, c) \/ AccountsCreate(w, c) \/ AccountsConfirm(w, c)
  \/ TransactionsList(w, c) \/ TransactionsSkip(w, c) \/ TransactionsPost(w, c)
  \/ TransactionsConfirm(w, c) \/ TransactionsEnd(w, c)

\* The service restarts: files, stored token, vault and ledger survive.
Crash ==
  /\ crashes < MaxCrashes
  /\ crashes' = crashes + 1
  /\ run' = [w \in Runs |-> IdleRun]
  /\ lane' = [w \in Runs |-> [c \in Currencies |-> LaneAt("done")]]
  /\ UNCHANGED <<world, files, cursor, services>>

Next ==
  \/ Tomorrow
  \/ \E s \in Statements : Publish(s)
  \/ \E w \in Runs : RunStep(w)
  \/ \E w \in Runs, c \in Currencies : LaneStep(w, c)
  \/ Crash

Spec == Init /\ [][Next]_vars

\* The scheduled worker starts a synchronization again and again, and the
\* goroutines are scheduled.
Fairness ==
  /\ \A w \in Runs : WF_vars(RunStep(w))
  /\ \A w \in Runs, c \in Currencies : WF_vars(LaneStep(w, c))

FairSpec == Spec /\ Fairness

-----------------------------------------------------------------------------
(* What holds *)

\* A statement marked as transferred, which is never posted again, is a
\* transaction in the ledger (lines 168-175 and 221-233).
AckedIsPosted == ackTransfer \subseteq ledger

\* A statement marked ack_account has all its accounts in the vault, although
\* the accounts of a currency are created together and in any order, and any
\* of them may fail (lines 122-144).
AckedHasAccounts == \A s \in ackAccount : AccountsOf(s) \subseteq vault

\* The search never goes back behind the month of the stored cursor, so by then
\* every statement of an earlier month has its directory; what fails later,
\* or is lost in a restart, can be taken up from there (lines 329-377).
CursorCoversPast ==
  \A s \in published :
    LET c == s.currency
    IN cursor[c] # None /\ Month(s.date) < Month(cursor[c]) => s \in known

\* One goroutine alone never moves a stored cursor back (lines 369-376).
CursorMonotone ==
  [][\A c \in Currencies : cursor[c] # None => cursor'[c] # None /\ cursor'[c] >= cursor[c]]_vars

\* If calls do not fail, no transaction is posted whose accounts do not exist:
\* CreateTransactions relies on CreateAccounts having run before it and does
\* not look at ack_account (lines 126-128 of actor/token.go, line 167).
PostedHasAccounts == \A s \in ledger : AccountsOf(s) \subseteq vault

\* If calls do not fail, every published statement ends in the ledger, also if
\* the service restarts (lines 381-465).
Imported == \A s \in Statements : (s \in published) ~> (s \in ledger)

-----------------------------------------------------------------------------
(* What a comment says and the code does not do *)

\* "DownloadStatements download new statements from bonster gateway" (line 380).
Downloaded == \A s \in Statements : (s \in published) ~> (s \in data)
=============================================================================
