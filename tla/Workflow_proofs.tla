---------------------------- MODULE Workflow_proofs ----------------------------
(***************************************************************************)
(* Workflow for any number of currencies, statements, goroutines, days,    *)
(* failures and restarts: types, and that the marks below a token say the  *)
(* truth about the vault and the ledger.                                   *)
(*                                                                         *)
(* The marks are written in a step of their own, after the services have   *)
(* answered and while other goroutines run; Acked is inductive because it  *)
(* also says what a goroutine that is about to write a mark knows.         *)
(***************************************************************************)
EXTENDS Workflow, TLAPS

-----------------------------------------------------------------------------
(* Types *)

\* TypeOK is not inductive: the search for a currency begins at the month of its
\* cursor, so that the currencies left to a goroutine must have one in memory.
WithCursor(r) ==
  r.pc \in {"currency", "months", "mkdir", "chunk", "write"} =>
    \A c \in r.left : r.mem[c] # None

HaveCursors == \A w \in Runs : WithCursor(run[w])

LEMMA MonthTyped == ASSUME NEW day \in Days PROVE Month(day) \in 0..Horizon
  BY DaysAssumption DEF Month, Days

\* A goroutine of the workflow, or one of its lanes, becomes another.
LEMMA RunPut ==
  ASSUME TypeOK, NEW w \in Runs, NEW r \in Run, run' = [run EXCEPT ![w] = r]
  PROVE  run' \in [Runs -> Run]
  BY DEF TypeOK

LEMMA LanePut ==
  ASSUME TypeOK, NEW w \in Runs, NEW c \in Currencies, NEW l \in Lane,
         lane' = [lane EXCEPT ![w][c] = l]
  PROVE  /\ lane' \in [Runs -> [Currencies -> Lane]]
         /\ lane'[w][c] = l
         /\ \A v \in Runs, d \in Currencies :
              v # w \/ d # c => lane'[v][d] = lane[v][d]
  BY DEF TypeOK

LEMMA LaneAtTyped == ASSUME NEW pc \in LanePcs PROVE LaneAt(pc) \in Lane
  BY DEF LaneAt, Lane

LEMMA IdleTyped == IdleRun \in Run
<1>1. 0 \in Days /\ 0 \in 0..Horizon /\ 0 \in 0..Horizon + 1
  BY DaysAssumption DEF Days
<1> QED
  BY <1>1 DEF IdleRun, Run, RunPcs

LEMMA StageTyped ==
  ASSUME TypeOK, NEW w \in Runs, NEW stage \in RunPcs,
         NEW mem \in [Currencies -> Days \cup {None}], EnterStage(w, stage, mem)
  PROVE  /\ run' \in [Runs -> Run]
         /\ lane' \in [Runs -> [Currencies -> Lane]]
         /\ \A c \in Currencies : lane'[w][c].pc \in {"done", "list"}
         /\ \A v \in Runs \ {w} : lane'[v] = lane[v]
<1> DEFINE r == [run[w] EXCEPT !.pc = stage, !.mem = mem]
           l == [c \in Currencies |-> LaneAt(IF mem[c] = None THEN "done" ELSE "list")]
<1>1. run[w] \in Run
  BY DEF TypeOK
<1>2. r \in Run
  BY <1>1 DEF Run
<1>3. run' = [run EXCEPT ![w] = r]
  BY <1>1 DEF EnterStage, TypeOK, Run
<1>4. \A c \in Currencies : l[c] \in Lane /\ l[c].pc \in {"done", "list"}
  BY LaneAtTyped DEF LaneAt, LanePcs
<1>5. l \in [Currencies -> Lane]
  BY <1>4
<1>6. lane' = [lane EXCEPT ![w] = l]
  BY DEF EnterStage
<1>7. run' \in [Runs -> Run]
  <2> HIDE DEF r
  <2> QED
    BY <1>2, <1>3, RunPut
<1>8. lane' \in [Runs -> [Currencies -> Lane]] /\ lane'[w] = l
  <2> HIDE DEF l
  <2> QED
    BY <1>5, <1>6 DEF TypeOK
<1>9. \A v \in Runs \ {w} : lane'[v] = lane[v]
  BY <1>6 DEF TypeOK
<1> QED
  BY <1>4, <1>7, <1>8, <1>9

LEMMA InitTyped == Init => TypeOK
<1> SUFFICES ASSUME Init PROVE TypeOK
  OBVIOUS
<1>1. run \in [Runs -> Run]
  BY IdleTyped DEF Init
<1>2. lane \in [Runs -> [Currencies -> Lane]]
  <2>1. "done" \in LanePcs
    BY DEF LanePcs
  <2> QED
    BY <2>1, LaneAtTyped DEF Init
<1>3. clock \in Days /\ crashes \in 0..MaxCrashes
  BY DaysAssumption, RunsAssumption DEF Init, Days
<1> QED
  BY <1>1, <1>2, <1>3 DEF Init, TypeOK

LEMMA RunTyped ==
  ASSUME TypeOK, NEW w \in Runs
  PROVE  /\ run[w] \in Run /\ run[w].mem \in [Currencies -> Days \cup {None}]
         /\ run[w].ids \subseteq Statements /\ run[w].got \subseteq Statements
         /\ run[w].left \subseteq Currencies /\ run[w].at \in Currencies \cup {None}
         /\ run[w].month \in 0..Horizon + 1 /\ run[w].last \in 0..Horizon
         /\ run[w].time \in Days
         /\ 0 \in Days
  BY DaysAssumption DEF TypeOK, Run, Days

\* Steps of a goroutine that leave files, services and lanes alone.
LEMMA RunOnlyTyped ==
  ASSUME TypeOK, run' \in [Runs -> Run],
         UNCHANGED <<world, files, services, lane, crashes>>,
         cursor' \in [Currencies -> Days \cup {None}]
  PROVE  TypeOK'
  BY DEF TypeOK, world, files, services

\* Steps that enter a stage.
LEMMA StageStepTyped ==
  ASSUME TypeOK, NEW w \in Runs, NEW stage \in RunPcs,
         NEW mem \in [Currencies -> Days \cup {None}], EnterStage(w, stage, mem),
         UNCHANGED <<world, files, cursor, services, crashes>>
  PROVE  TypeOK'
<1>1. run' \in [Runs -> Run] /\ lane' \in [Runs -> [Currencies -> Lane]]
  BY StageTyped
<1> QED
  BY <1>1 DEF TypeOK, world, files, services

LEMMA DownloadTyped ==
  ASSUME TypeOK, HaveCursors, NEW w \in Runs,
         Start(w) \/ GetCurrencies(w) \/ InitCurrency(w) \/ AllInitialized(w)
           \/ BeginCurrency(w) \/ EndCurrencies(w)
  PROVE  TypeOK'
<1>0. /\ run[w] \in Run /\ run[w].mem \in [Currencies -> Days \cup {None}]
      /\ run[w].left \subseteq Currencies
  BY RunTyped
<1>1. cursor \in [Currencies -> Days \cup {None}] /\ clock \in Days
  BY DEF TypeOK
<1>2. CASE Start(w)
  <2>1. CASE EnterStage(w, "accounts", cursor)
    BY <1>1, <1>2, <2>1, StageStepTyped DEF Start, RunPcs
  <2>2. CASE UNCHANGED lane /\ run' = [run EXCEPT ![w] =
               [IdleRun EXCEPT !.pc = "discover", !.mem = cursor]]
    <3>1. [IdleRun EXCEPT !.pc = "discover", !.mem = cursor] \in Run
      BY <1>1, IdleTyped DEF Run, RunPcs
    <3>2. run' \in [Runs -> Run]
      BY <2>2, <3>1, RunPut
    <3> QED
      BY <1>1, <1>2, <2>2, <3>2, RunOnlyTyped DEF Start
  <2> QED
    BY <1>2, <2>1, <2>2 DEF Start
<1>3. CASE GetCurrencies(w)
  <2>1. CASE EnterStage(w, "accounts", run[w].mem)
    BY <1>0, <1>3, <2>1, StageStepTyped DEF GetCurrencies, RunPcs
  <2>2. CASE UNCHANGED lane /\ run' = [run EXCEPT ![w].pc = "initialize",
               ![w].left = {c \in Currencies : run[w].mem[c] = None}]
    <3>1. run' \in [Runs -> Run]
      BY <2>2, <1>0 DEF TypeOK, Run, RunPcs
    <3> QED
      BY <1>1, <1>3, <2>2, <3>1, RunOnlyTyped DEF GetCurrencies
  <2> QED
    BY <1>3, <2>1, <2>2 DEF GetCurrencies
<1>4. CASE InitCurrency(w)
  <2>1. PICK c \in run[w].left :
          /\ run' = [run EXCEPT ![w].mem = [run[w].mem EXCEPT ![c] = 0],
                                ![w].left = run[w].left \ {c}]
          /\ UpdateToken([run[w].mem EXCEPT ![c] = 0])
    BY <1>4 DEF InitCurrency
  <2>2. [run[w].mem EXCEPT ![c] = 0] \in [Currencies -> Days \cup {None}]
    BY <1>0, RunTyped
  <2>3. run' \in [Runs -> Run]
    <3> DEFINE m == [run[w].mem EXCEPT ![c] = 0]
    <3>1. m \in [Currencies -> Days \cup {None}]
      BY <2>2
    <3>2. run' = [run EXCEPT ![w].mem = m, ![w].left = run[w].left \ {c}]
      BY <2>1
    <3> HIDE DEF m
    <3> QED
      BY <1>0, <3>1, <3>2 DEF TypeOK, Run
  <2>4. cursor' \in [Currencies -> Days \cup {None}]
    BY <1>1, <2>1, <2>2 DEF UpdateToken
  <2> QED
    BY <1>4, <2>3, <2>4, RunOnlyTyped DEF InitCurrency
<1>5. CASE AllInitialized(w)
  <2>1. run' \in [Runs -> Run]
    BY <1>5, <1>0 DEF AllInitialized, TypeOK, Run, RunPcs
  <2> QED
    BY <1>1, <1>5, <2>1, RunOnlyTyped DEF AllInitialized
<1>6. CASE BeginCurrency(w)
  <2>1. PICK c \in run[w].left :
          run' = [run EXCEPT ![w] =
               [run[w] EXCEPT !.pc = "months", !.at = c, !.left = run[w].left \ {c},
                         !.month = Month(run[w].mem[c]), !.last = Month(clock)]]
    BY <1>6 DEF BeginCurrency
  <2>2. run[w].mem[c] \in Days
    BY <1>0, <1>6, NoneAssumption DEF BeginCurrency, HaveCursors, WithCursor
  <2> DEFINE m == Month(run[w].mem[c])
             n == Month(clock)
             r == [run[w] EXCEPT !.pc = "months", !.at = c, !.left = run[w].left \ {c},
                         !.month = m, !.last = n]
  <2>3. m \in 0..Horizon + 1 /\ n \in 0..Horizon
    BY <1>1, <2>2, MonthTyped, DaysAssumption
  <2>4. r \in Run
    <3> HIDE DEF m, n
    <3> QED
      BY <1>0, <2>3 DEF Run, RunPcs
  <2>5. run' \in [Runs -> Run]
    BY <2>1, <2>4, RunPut
  <2> QED
    BY <1>1, <1>6, <2>5, RunOnlyTyped DEF BeginCurrency
<1>7. CASE EndCurrencies(w)
  BY <1>0, <1>7, StageStepTyped DEF EndCurrencies, RunPcs
<1> QED
  BY <1>2, <1>3, <1>4, <1>5, <1>6, <1>7

LEMMA SearchTyped ==
  ASSUME TypeOK, NEW w \in Runs,
         Search(w) \/ Mkdir(w) \/ ListPending(w) \/ Download(w) \/ WriteData(w) \/ MoveCursor(w)
  PROVE  TypeOK'
<1>0. /\ run[w] \in Run /\ run[w].mem \in [Currencies -> Days \cup {None}]
      /\ run[w].ids \subseteq Statements /\ run[w].got \subseteq Statements
      /\ run[w].month \in 0..Horizon + 1 /\ run[w].last \in 0..Horizon
      /\ run[w].time \in Days /\ 0 \in Days
  BY RunTyped
<1>1. /\ cursor \in [Currencies -> Days \cup {None}]
      /\ known \subseteq Statements /\ data \subseteq Statements
      /\ published \subseteq Statements
  BY DEF TypeOK
<1>2. CASE Search(w)
  <2>1. run[w].month + 1 \in 0..Horizon + 1
    BY <1>0, <1>2, DaysAssumption DEF Search
  <2>2. {s \in Of(run[w].at, published) : Month(s.date) = run[w].month} \subseteq Statements
    BY <1>1 DEF Of
  <2>3. Found(w) \in Run
    <3> DEFINE ids == {s \in Of(run[w].at, published) : Month(s.date) = run[w].month}
               month == run[w].month + 1
    <3>1. ids \subseteq Statements /\ month \in 0..Horizon + 1
      BY <2>1, <2>2
    <3>2. Found(w) = [run[w] EXCEPT !.pc = "mkdir", !.month = month, !.ids = ids]
      BY DEF Found
    <3> HIDE DEF ids, month
    <3> QED
      BY <1>0, <3>1, <3>2 DEF Run, RunPcs
  <2>4. CASE run' = [run EXCEPT ![w] = Found(w)]
    <3>1. run' \in [Runs -> Run]
      BY <2>3, <2>4, RunPut
    <3> QED
      BY <1>1, <1>2, <3>1, RunOnlyTyped DEF Search
  <2>5. CASE run' = [run EXCEPT ![w].pc = "currency"]
    <3>1. run' \in [Runs -> Run]
      BY <1>0, <2>5 DEF TypeOK, Run, RunPcs
    <3> QED
      BY <1>1, <1>2, <3>1, RunOnlyTyped DEF Search
  <2> QED
    BY <1>2, <2>4, <2>5 DEF Search
<1>3. CASE Mkdir(w)
  <2>1. known' \subseteq Statements
    BY <1>0, <1>1, <1>3 DEF Mkdir
  <2>2. PICK pc \in RunPcs, ids \in SUBSET Statements :
          run' = [run EXCEPT ![w] = [run[w] EXCEPT !.pc = pc, !.ids = ids]]
    <3>1. CASE \E s \in run[w].ids : run' = [run EXCEPT ![w].ids = run[w].ids \ {s}]
      <4>1. PICK s \in run[w].ids : run' = [run EXCEPT ![w].ids = run[w].ids \ {s}]
        BY <3>1
      <4>2. [run[w] EXCEPT !.ids = run[w].ids \ {s}]
              = [run[w] EXCEPT !.pc = run[w].pc, !.ids = run[w].ids \ {s}]
        BY <1>0 DEF Run
      <4>3. run[w].pc \in RunPcs /\ run[w].ids \ {s} \in SUBSET Statements
        BY <1>0 DEF Run
      <4> QED
        BY <4>1, <4>2, <4>3
    <3>2. CASE run[w].ids = {} /\ run' = [run EXCEPT ![w].pc = "months"]
      <4>1. [run[w] EXCEPT !.pc = "months"] = [run[w] EXCEPT !.pc = "months", !.ids = run[w].ids]
        BY <1>0 DEF Run
      <4> QED
        BY <1>0, <3>2, <4>1 DEF RunPcs
    <3>3. CASE run' = [run EXCEPT ![w].pc = "currency", ![w].ids = {}]
      <4>1. run' = [run EXCEPT ![w] = [run[w] EXCEPT !.pc = "currency", !.ids = {}]]
        BY <3>3 DEF TypeOK
      <4> QED
        BY <4>1 DEF RunPcs
    <3> QED
      BY <1>3, <3>1, <3>2, <3>3 DEF Mkdir
  <2>3. [run[w] EXCEPT !.pc = pc, !.ids = ids] \in Run
    BY <1>0 DEF Run
  <2>4. run' \in [Runs -> Run]
    BY <2>2, <2>3, RunPut
  <2> QED
    BY <1>3, <2>1, <2>4 DEF Mkdir, TypeOK, world, services
<1>4. CASE ListPending(w)
  <2>1. PICK ids \in SUBSET Statements :
          run' = [run EXCEPT ![w].pc = "chunk", ![w].ids = ids]
    BY <1>1, <1>4 DEF ListPending, Of
  <2>2. run' \in [Runs -> Run]
    BY <1>0, <2>1 DEF TypeOK, Run, RunPcs
  <2> QED
    BY <1>1, <1>4, <2>2, RunOnlyTyped DEF ListPending
<1>5. CASE Download(w)
  <2>1. PICK chunk \in SUBSET run[w].ids : \E got \in {chunk, {}} :
          run' = [run EXCEPT ![w] = [run[w] EXCEPT !.pc = "write",
                    !.ids = run[w].ids \ chunk, !.got = got, !.time = 0]]
    BY <1>5 DEF Download, GetStatements
  <2>2. PICK got \in {chunk, {}} :
          run' = [run EXCEPT ![w] = [run[w] EXCEPT !.pc = "write",
                    !.ids = run[w].ids \ chunk, !.got = got, !.time = 0]]
    BY <2>1
  <2>3. [run[w] EXCEPT !.pc = "write", !.ids = run[w].ids \ chunk, !.got = got, !.time = 0] \in Run
    BY <1>0 DEF Run, RunPcs
  <2>4. run' \in [Runs -> Run]
    BY <2>2, <2>3, RunPut
  <2> QED
    BY <1>1, <1>5, <2>4, RunOnlyTyped DEF Download
<1>6. CASE WriteData(w)
  <2>1. PICK s \in run[w].got :
          /\ run' = [run EXCEPT ![w].got = run[w].got \ {s},
                       ![w].time = IF s.date > run[w].time THEN s.date ELSE run[w].time]
          /\ data' = data \cup {s} \/ data' = data
    BY <1>6 DEF WriteData
  <2>2. s \in Statements /\ s.date \in Days
    BY <1>0, StatementsAssumption
  <2>3. PICK time \in Days :
          run' = [run EXCEPT ![w].got = run[w].got \ {s}, ![w].time = time]
    BY <1>0, <2>1, <2>2
  <2>4. run' \in [Runs -> Run]
    BY <1>0, <2>3 DEF TypeOK, Run
  <2>5. data' \subseteq Statements
    BY <1>1, <2>1, <2>2
  <2> QED
    BY <1>6, <2>4, <2>5 DEF WriteData, TypeOK, world, services
<1>7. CASE MoveCursor(w)
  <2> DEFINE m == [run[w].mem EXCEPT ![run[w].at] = run[w].time]
             pc == IF run[w].ids = {} THEN "currency" ELSE "chunk"
  <2>1. m \in [Currencies -> Days \cup {None}] /\ pc \in RunPcs
    BY <1>0 DEF RunPcs
  <2>2. CASE run' = [run EXCEPT ![w].pc = pc] /\ UNCHANGED cursor
    <3>1. run' \in [Runs -> Run]
      <4> HIDE DEF pc
      <4> QED
        BY <1>0, <2>1, <2>2 DEF TypeOK, Run
    <3> QED
      BY <1>1, <1>7, <2>2, <3>1, RunOnlyTyped DEF MoveCursor
  <2>3. CASE run' = [run EXCEPT ![w].pc = pc, ![w].mem = m] /\ UpdateToken(m)
    <3>1. run' \in [Runs -> Run]
      <4> HIDE DEF pc, m
      <4> QED
        BY <1>0, <2>1, <2>3 DEF TypeOK, Run
    <3>2. cursor' \in [Currencies -> Days \cup {None}]
      <4> HIDE DEF pc, m
      <4> QED
        BY <1>1, <2>1, <2>3 DEF UpdateToken
    <3> QED
      BY <1>7, <3>1, <3>2, RunOnlyTyped DEF MoveCursor
  <2> QED
    BY <1>7, <2>2, <2>3 DEF MoveCursor
<1> QED
  BY <1>2, <1>3, <1>4, <1>5, <1>6, <1>7

LEMMA WaitTyped ==
  ASSUME TypeOK, NEW w \in Runs, AccountsWait(w) \/ TransactionsWait(w)
  PROVE  TypeOK'
<1>1. CASE AccountsWait(w)
  BY <1>1, RunTyped, StageStepTyped DEF AccountsWait, RunPcs
<1>2. CASE TransactionsWait(w)
  <2>1. run' \in [Runs -> Run]
    BY <1>2, IdleTyped, RunPut DEF TransactionsWait
  <2> QED
    BY <1>2, <2>1 DEF TransactionsWait, TypeOK, world, files, services
<1> QED
  BY <1>1, <1>2

\* What a step of CreateAccounts or CreateTransactions puts in the place of its
\* lane.
LEMMA LaneStepPut ==
  ASSUME TypeOK, NEW w \in Runs, NEW c \in Currencies, LaneStep(w, c)
  PROVE  \E l \in Lane : lane' = [lane EXCEPT ![w][c] = l]
<1>0. /\ lane[w][c] \in Lane
      /\ lane[w][c].ids \subseteq Statements /\ lane[w][c].todo \subseteq Accounts
      /\ known \subseteq Statements
      /\ LaneAt("done") \in Lane /\ LaneAt("create") \in Lane /\ LaneAt("post") \in Lane
  BY LaneAtTyped DEF TypeOK, Lane, LanePcs
<1>1. CASE AccountsList(w, c)
  <2>1. PICK ids \in SUBSET ((Of(c, known) \cap data) \ ackAccount) :
          lane' = [lane EXCEPT ![w][c] =
            IF ids = {} THEN LaneAt("done")
            ELSE [LaneAt("create") EXCEPT !.ids = ids,
                    !.todo = UNION {AccountsOf(s) : s \in ids}]]
    BY <1>1 DEF AccountsList
  <2>2. ids \subseteq Statements
    BY <1>0 DEF Of
  <2>3. UNION {AccountsOf(s) : s \in ids} \subseteq Accounts
    BY <2>2, StatementsAssumption DEF AccountsOf, Accounts
  <2>4. [LaneAt("create") EXCEPT !.ids = ids, !.todo = UNION {AccountsOf(s) : s \in ids}] \in Lane
    <3> DEFINE todo == UNION {AccountsOf(s) : s \in ids}
    <3>1. todo \subseteq Accounts
      BY <2>3
    <3> HIDE DEF todo
    <3>2. [LaneAt("create") EXCEPT !.ids = ids, !.todo = todo] \in Lane
      BY <1>0, <2>2, <3>1 DEF Lane
    <3> USE DEF todo
    <3> QED
      BY <3>2
  <2> QED
    BY <1>0, <2>1, <2>4
<1>2. CASE AccountsCreate(w, c)
  <2>1. CASE \E a \in lane[w][c].todo :
               lane' = [lane EXCEPT ![w][c].todo = lane[w][c].todo \ {a}]
    <3>1. PICK a \in lane[w][c].todo :
               lane' = [lane EXCEPT ![w][c] = [lane[w][c] EXCEPT !.todo = lane[w][c].todo \ {a}]]
      BY <2>1
    <3>2. [lane[w][c] EXCEPT !.todo = lane[w][c].todo \ {a}] \in Lane
      BY <1>0 DEF Lane
    <3> QED
      BY <3>1, <3>2
  <2>2. CASE lane' = [lane EXCEPT ![w][c] = LaneAt("done")]
    BY <1>0, <2>2
  <2> QED
    BY <1>2, <2>1, <2>2 DEF AccountsCreate
<1>3. ASSUME NEW s, lane' = [lane EXCEPT ![w][c].ids = lane[w][c].ids \ {s}]
      PROVE \E l \in Lane : lane' = [lane EXCEPT ![w][c] = l]
  <2>1. [lane[w][c] EXCEPT !.ids = lane[w][c].ids \ {s}] \in Lane
    BY <1>0 DEF Lane
  <2> QED
    BY <1>3, <2>1
<1>4. CASE AccountsConfirm(w, c)
  BY <1>0, <1>3, <1>4 DEF AccountsConfirm
<1>5. CASE TransactionsList(w, c)
  <2>1. PICK ids \in SUBSET Statements :
          lane' = [lane EXCEPT ![w][c] = [LaneAt("post") EXCEPT !.ids = ids]]
    BY <1>0, <1>5 DEF TransactionsList, Of
  <2>2. [LaneAt("post") EXCEPT !.ids = ids] \in Lane
    BY <1>0 DEF Lane
  <2> QED
    BY <2>1, <2>2
<1>6. CASE TransactionsSkip(w, c)
  BY <1>3, <1>6 DEF TransactionsSkip
<1>7. CASE TransactionsPost(w, c)
  <2>1. ASSUME NEW s \in lane[w][c].ids PROVE Posted(lane[w][c], s) \in Lane
    BY <1>0, <2>1 DEF Posted, Lane, LanePcs
  <2> QED
    BY <1>3, <1>7, <2>1 DEF TransactionsPost
<1>8. CASE TransactionsConfirm(w, c)
  <2>1. lane' = [lane EXCEPT ![w][c] = [lane[w][c] EXCEPT !.pc = "post", !.at = {}]]
    BY <1>8 DEF TransactionsConfirm, TypeOK
  <2>2. [lane[w][c] EXCEPT !.pc = "post", !.at = {}] \in Lane
    BY <1>0 DEF Lane, LanePcs
  <2> QED
    BY <2>1, <2>2
<1>9. CASE TransactionsEnd(w, c)
  BY <1>0, <1>9 DEF TransactionsEnd
<1> QED
  BY <1>1, <1>2, <1>4, <1>5, <1>6, <1>7, <1>8, <1>9 DEF LaneStep

LEMMA LaneStepTyped ==
  ASSUME TypeOK, NEW w \in Runs, NEW c \in Currencies, LaneStep(w, c)
  PROVE  TypeOK'
<1>1. lane' \in [Runs -> [Currencies -> Lane]]
  BY LaneStepPut, LanePut
<1>2. /\ lane[w][c].ids \subseteq Statements /\ lane[w][c].at \subseteq Statements
      /\ lane[w][c].todo \subseteq Accounts
  BY DEF TypeOK, Lane
<1>3. /\ ackAccount' \subseteq Statements /\ ackTransfer' \subseteq Statements
      /\ vault' \subseteq Accounts /\ ledger' \subseteq Statements
  BY <1>2 DEF LaneStep, AccountsList, AccountsCreate, AccountsConfirm, TransactionsList,
     TransactionsSkip, TransactionsPost, TransactionsConfirm, TransactionsEnd,
     TypeOK, files, services
<1>4. UNCHANGED <<world, known, data, cursor, run, crashes>>
  BY DEF LaneStep, AccountsList, AccountsCreate, AccountsConfirm, TransactionsList,
     TransactionsSkip, TransactionsPost, TransactionsConfirm, TransactionsEnd, files
<1> QED
  BY <1>1, <1>3, <1>4 DEF TypeOK, world

LEMMA OutsideTyped ==
  ASSUME TypeOK, Tomorrow \/ (\E s \in Statements : Publish(s)) \/ Crash
  PROVE  TypeOK'
<1>1. CASE Tomorrow
  BY <1>1, DaysAssumption DEF Tomorrow, TypeOK, Days, world, files, services
<1>2. CASE \E s \in Statements : Publish(s)
  BY <1>2 DEF Publish, TypeOK, files, services
<1>3. CASE Crash
  <2>1. run' \in [Runs -> Run]
    BY <1>3, IdleTyped DEF Crash
  <2>2. lane' \in [Runs -> [Currencies -> Lane]]
    BY <1>3, LaneAtTyped DEF Crash, LanePcs
  <2>3. crashes' \in 0..MaxCrashes
    BY <1>3, RunsAssumption DEF Crash, TypeOK
  <2> QED
    BY <1>3, <2>1, <2>2, <2>3 DEF Crash, TypeOK, world, files, services
<1> QED
  BY <1>1, <1>2, <1>3

-----------------------------------------------------------------------------
(* The currencies left to a goroutine have a cursor *)

LEMMA HaveCursorsPut ==
  ASSUME TypeOK, HaveCursors, NEW w \in Runs, NEW r, run' = [run EXCEPT ![w] = r],
         WithCursor(r)
  PROVE  HaveCursors'
  BY DEF HaveCursors, TypeOK

\* A step that leaves the goroutine the cursors it has, and no more currencies.
LEMMA HaveCursorsKept ==
  ASSUME TypeOK, HaveCursors, NEW w \in Runs,
         \A v \in Runs \ {w} : run'[v] = run[v],
         run[w].pc \in {"currency", "months", "mkdir", "chunk", "write"},
         run'[w].left \subseteq run[w].left,
         \A c \in Currencies : run[w].mem[c] # None => run'[w].mem[c] # None
  PROVE  HaveCursors'
<1>1. run[w].left \subseteq Currencies
  BY RunTyped
<1>2. \A c \in run'[w].left : run'[w].mem[c] # None
  BY <1>1 DEF HaveCursors, WithCursor
<1> QED
  BY <1>2 DEF HaveCursors, WithCursor

LEMMA RunStepHasCursors ==
  ASSUME TypeOK, HaveCursors, NEW w \in Runs, RunStep(w)
  PROVE  HaveCursors'
<1>0. /\ run \in [Runs -> Run] /\ run[w] \in Run
      /\ run[w].mem \in [Currencies -> Days \cup {None}]
      /\ run[w].time \in Days
  BY RunTyped DEF TypeOK
<1>1. ASSUME NEW stage, NEW mem, stage \in {"accounts", "transactions"},
             EnterStage(w, stage, mem)
      PROVE HaveCursors'
  <2>1. run'[w].pc = stage /\ \A v \in Runs \ {w} : run'[v] = run[v]
    BY <1>0, <1>1 DEF EnterStage, Run
  <2> QED
    BY <1>1, <2>1 DEF HaveCursors, WithCursor
<1>2. ASSUME NEW r, run' = [run EXCEPT ![w] = r], r.pc \in {"idle", "discover", "initialize"}
      PROVE HaveCursors'
  BY <1>2, HaveCursorsPut DEF WithCursor
<1>3. CASE Start(w)
  <2>1. CASE EnterStage(w, "accounts", cursor)
    BY <1>1, <2>1
  <2>2. CASE run' = [run EXCEPT ![w] = [IdleRun EXCEPT !.pc = "discover", !.mem = cursor]]
    <3>1. [IdleRun EXCEPT !.pc = "discover", !.mem = cursor].pc = "discover"
      BY DEF IdleRun
    <3> QED
      BY <1>2, <2>2, <3>1
  <2> QED
    BY <1>3, <2>1, <2>2 DEF Start
<1>4. ASSUME \A v \in Runs \ {w} : run'[v] = run[v], run'[w].pc \in {"idle", "discover", "initialize"}
      PROVE HaveCursors'
  BY <1>4 DEF HaveCursors, WithCursor
<1>5. CASE GetCurrencies(w)
  <2>1. CASE run' = [run EXCEPT ![w].pc = "initialize",
               ![w].left = {c \in Currencies : run[w].mem[c] = None}]
    BY <1>0, <1>4, <2>1 DEF Run
  <2>2. CASE EnterStage(w, "accounts", run[w].mem)
    BY <1>1, <2>2
  <2> QED
    BY <1>5, <2>1, <2>2 DEF GetCurrencies
<1>6. CASE InitCurrency(w)
  <2>1. PICK m, left : run' = [run EXCEPT ![w].mem = m, ![w].left = left]
    BY <1>6 DEF InitCurrency
  <2> QED
    BY <1>0, <1>4, <1>6, <2>1 DEF InitCurrency, Run
<1>7. CASE AllInitialized(w)
  <2>1. /\ \A v \in Runs \ {w} : run'[v] = run[v]
        /\ run'[w].left = {c \in Currencies : run[w].mem[c] # None}
        /\ run'[w].mem = run[w].mem
    BY <1>0, <1>7 DEF AllInitialized, Run
  <2> QED
    BY <2>1 DEF HaveCursors, WithCursor
<1>8. CASE BeginCurrency(w)
  <2>1. PICK c, month, last : run' = [run EXCEPT ![w] =
               [run[w] EXCEPT !.pc = "months", !.at = c, !.left = run[w].left \ {c},
                         !.month = month, !.last = last]]
    BY <1>8 DEF BeginCurrency
  <2>2. /\ \A v \in Runs \ {w} : run'[v] = run[v]
        /\ run'[w].left = run[w].left \ {c} /\ run'[w].mem = run[w].mem
    BY <1>0, <2>1 DEF Run
  <2> QED
    BY <1>8, <2>2, HaveCursorsKept DEF BeginCurrency
<1>9. CASE EndCurrencies(w)
  BY <1>1, <1>9 DEF EndCurrencies
<1>10. CASE Search(w) \/ Mkdir(w) \/ ListPending(w) \/ Download(w) \/ WriteData(w)
  <2>1. /\ \A v \in Runs \ {w} : run'[v] = run[v]
        /\ run'[w].left = run[w].left /\ run'[w].mem = run[w].mem
    <3>1. CASE Search(w)
      <4>1. CASE run' = [run EXCEPT ![w] = Found(w)]
        BY <1>0, <4>1 DEF Found, Run
      <4>2. CASE run' = [run EXCEPT ![w].pc = "currency"]
        BY <1>0, <4>2 DEF Run
      <4> QED
        BY <3>1, <4>1, <4>2 DEF Search
    <3>2. CASE Mkdir(w)
      BY <1>0, <3>2 DEF Mkdir, Run
    <3>3. CASE ListPending(w)
      BY <1>0, <3>3 DEF ListPending, Run
    <3>4. CASE Download(w)
      BY <1>0, <3>4 DEF Download, Run
    <3>5. CASE WriteData(w)
      BY <1>0, <3>5 DEF WriteData, Run
    <3> QED
      BY <1>10, <3>1, <3>2, <3>3, <3>4, <3>5
  <2>2. run[w].pc \in {"months", "mkdir", "chunk", "write"}
    BY <1>10 DEF Search, Mkdir, ListPending, Download, WriteData
  <2> QED
    BY <2>1, <2>2, HaveCursorsKept
<1>11. CASE MoveCursor(w)
  <2> DEFINE m == [run[w].mem EXCEPT ![run[w].at] = run[w].time]
             pc == IF run[w].ids = {} THEN "currency" ELSE "chunk"
  <2>1. \A c \in Currencies : run[w].mem[c] # None => m[c] # None
    BY <1>0, NoneAssumption, DaysAssumption DEF Days
  <2>2. CASE run' = [run EXCEPT ![w].pc = pc]
    BY <1>0, <1>11, <2>2, HaveCursorsKept DEF MoveCursor, Run
  <2>3. CASE run' = [run EXCEPT ![w].pc = pc, ![w].mem = m]
    <3>1. /\ \A v \in Runs \ {w} : run'[v] = run[v]
          /\ run'[w].left = run[w].left /\ run'[w].mem = m
      <4> HIDE DEF m, pc
      <4> QED
        BY <1>0, <2>3 DEF Run
    <3>2. \A c \in Currencies : run[w].mem[c] # None => run'[w].mem[c] # None
      BY <2>1, <3>1
    <3>3. run[w].pc = "write"
      BY <1>11 DEF MoveCursor
    <3> HIDE DEF m, pc
    <3> QED
      BY <3>1, <3>2, <3>3, HaveCursorsKept
  <2> QED
    BY <1>11, <2>2, <2>3 DEF MoveCursor
<1>12. CASE AccountsWait(w)
  BY <1>1, <1>12 DEF AccountsWait
<1>13. CASE TransactionsWait(w)
  BY <1>2, <1>13 DEF TransactionsWait, IdleRun
<1> QED
  BY <1>3, <1>5, <1>6, <1>7, <1>8, <1>9, <1>10, <1>11, <1>12, <1>13 DEF RunStep

-----------------------------------------------------------------------------

WInv == TypeOK /\ HaveCursors

LEMMA WInit == Init => WInv
<1>1. Init => HaveCursors
  BY DEF Init, HaveCursors, WithCursor, IdleRun
<1> QED
  BY <1>1, InitTyped DEF WInv

LEMMA WStep == WInv /\ [Next]_vars => WInv'
<1> SUFFICES ASSUME TypeOK, HaveCursors, [Next]_vars PROVE TypeOK' /\ HaveCursors'
  BY DEF WInv
<1>1. ASSUME NEW w \in Runs, RunStep(w) PROVE TypeOK' /\ HaveCursors'
  BY <1>1, DownloadTyped, SearchTyped, WaitTyped, RunStepHasCursors DEF RunStep
<1>2. ASSUME NEW w \in Runs, NEW c \in Currencies, LaneStep(w, c)
      PROVE TypeOK' /\ HaveCursors'
  <2>1. run' = run
    BY <1>2 DEF LaneStep, AccountsList, AccountsCreate, AccountsConfirm, TransactionsList,
       TransactionsSkip, TransactionsPost, TransactionsConfirm, TransactionsEnd
  <2> QED
    BY <1>2, <2>1, LaneStepTyped DEF HaveCursors
<1>3. CASE Tomorrow \/ (\E s \in Statements : Publish(s)) \/ Crash
  <2>1. run' = run \/ run' = [w \in Runs |-> IdleRun]
    BY <1>3 DEF Tomorrow, Publish, Crash
  <2>2. HaveCursors'
    BY <2>1 DEF HaveCursors, WithCursor, IdleRun
  <2> QED
    BY <1>3, <2>2, OutsideTyped
<1>4. CASE UNCHANGED vars
  BY <1>4 DEF vars, TypeOK, HaveCursors
<1> QED
  BY <1>1, <1>2, <1>3, <1>4 DEF Next

\* Every reachable state is typed: months and cursors stay in the days that
\* there are, files hold statements of the gateway only (workflow.go 329-377).
THEOREM Spec_TypeOK == Spec => []TypeOK
<1>1. WInv => TypeOK
  BY DEF WInv
<1> QED
  BY WInit, WStep, <1>1, PTL DEF Spec

-----------------------------------------------------------------------------
(* The marks *)

\* A goroutine that is about to mark a transaction has it in the ledger; one
\* that is about to mark accounts has each in the vault, or still has to ask.
Knows(l) ==
  /\ l.pc = "confirm" => l.at \subseteq ledger
  /\ l.pc = "create" => \A s \in l.ids : AccountsOf(s) \subseteq vault \cup l.todo

LanesKnow == \A w \in Runs, c \in Currencies : Knows(lane[w][c])

Acked == AckedIsPosted /\ AckedHasAccounts /\ LanesKnow

\* Vault and ledger only grow, so what a goroutine knows stays true.
LEMMA KnowsGrows ==
  ASSUME NEW l, Knows(l), vault \subseteq vault', ledger \subseteq ledger'
  PROVE  /\ l.pc = "confirm" => l.at \subseteq ledger'
         /\ l.pc = "create" => \A s \in l.ids : AccountsOf(s) \subseteq vault' \cup l.todo
  BY DEF Knows

\* A step that puts a lane which knows in the place of another.
LEMMA LanesKnowPut ==
  ASSUME TypeOK, LanesKnow, NEW w \in Runs, NEW c \in Currencies, NEW l \in Lane,
         lane' = [lane EXCEPT ![w][c] = l],
         vault \subseteq vault', ledger \subseteq ledger',
         l.pc = "confirm" => l.at \subseteq ledger',
         l.pc = "create" => \A s \in l.ids : AccountsOf(s) \subseteq vault' \cup l.todo
  PROVE  LanesKnow'
<1> SUFFICES ASSUME NEW v \in Runs, NEW d \in Currencies PROVE Knows(lane[v][d])'
  BY DEF LanesKnow
<1>1. CASE v = w /\ d = c
  <2>1. lane'[v][d] = l
    BY <1>1, LanePut
  <2> QED
    BY <2>1 DEF Knows
<1>2. CASE v # w \/ d # c
  <2>1. lane'[v][d] = lane[v][d]
    BY <1>2, LanePut
  <2>2. Knows(lane[v][d])
    BY DEF LanesKnow
  <2> QED
    BY <2>1, <2>2, KnowsGrows DEF Knows
<1> QED
  BY <1>1, <1>2

LEMMA LaneRead ==
  ASSUME TypeOK, NEW w \in Runs, NEW c \in Currencies, NEW x,
         lane' = [lane EXCEPT ![w][c] = x]
  PROVE  lane'[w][c] = x
  BY DEF TypeOK

LEMMA AckedInit == Init => Acked
  BY DEF Init, Acked, AckedIsPosted, AckedHasAccounts, LanesKnow, Knows, LaneAt

\* CreateAccounts: a lane has asked for every account before it marks.
LEMMA AccountsAcked ==
  ASSUME TypeOK, Acked, NEW w \in Runs, NEW c \in Currencies,
         AccountsList(w, c) \/ AccountsCreate(w, c) \/ AccountsConfirm(w, c)
  PROVE  Acked'
<1>0. /\ lane[w][c] \in Lane /\ Knows(lane[w][c]) /\ LanesKnow
      /\ AckedIsPosted /\ AckedHasAccounts
      /\ LaneAt("done") \in Lane /\ LaneAt("done").pc = "done"
  BY LaneAtTyped DEF TypeOK, Acked, LanesKnow, LaneAt, LanePcs
<1>1. LaneStep(w, c)
  BY DEF LaneStep
<1>2. PICK l \in Lane : lane' = [lane EXCEPT ![w][c] = l]
  BY <1>1, LaneStepPut
<1>3. lane'[w][c] = l
  BY <1>2, LanePut
<1>4. ledger' = ledger /\ ackTransfer' = ackTransfer /\ vault \subseteq vault'
  BY DEF AccountsList, AccountsCreate, AccountsConfirm, files, services
<1>5. l.pc # "confirm"
  <2>1. CASE AccountsList(w, c)
    <3>1. PICK ids : lane' = [lane EXCEPT ![w][c] =
            IF ids = {} THEN LaneAt("done")
            ELSE [LaneAt("create") EXCEPT !.ids = ids,
                    !.todo = UNION {AccountsOf(s) : s \in ids}]]
      BY <2>1 DEF AccountsList
    <3> DEFINE todo == UNION {AccountsOf(s) : s \in ids}
    <3>2. l = IF ids = {} THEN LaneAt("done")
              ELSE [LaneAt("create") EXCEPT !.ids = ids, !.todo = todo]
      BY <1>3, <3>1, LaneRead
    <3> HIDE DEF todo
    <3> QED
      BY <1>0, <3>2 DEF LaneAt
  <2>2. CASE AccountsCreate(w, c)
    BY <1>0, <1>3, <2>2 DEF TypeOK, Lane, AccountsCreate
  <2>3. CASE AccountsConfirm(w, c)
    <3>1. CASE \E s \in lane[w][c].ids :
                 lane' = [lane EXCEPT ![w][c].ids = lane[w][c].ids \ {s}]
      <4>1. lane'[w][c].pc = lane[w][c].pc
        BY <1>0, <3>1 DEF TypeOK, Lane
      <4> QED
        BY <1>3, <2>3, <4>1 DEF AccountsConfirm
    <3>2. CASE lane' = [lane EXCEPT ![w][c] = LaneAt("done")]
      BY <1>0, <1>3, <3>2, LaneRead
    <3> QED
      BY <2>3, <3>1, <3>2 DEF AccountsConfirm
  <2> QED
    BY <2>1, <2>2, <2>3
<1>6. l.pc = "create" => \A s \in l.ids : AccountsOf(s) \subseteq vault' \cup l.todo
  <2>1. CASE AccountsList(w, c)
    <3>1. PICK ids : lane' = [lane EXCEPT ![w][c] =
            IF ids = {} THEN LaneAt("done")
            ELSE [LaneAt("create") EXCEPT !.ids = ids,
                    !.todo = UNION {AccountsOf(s) : s \in ids}]]
      BY <2>1 DEF AccountsList
    <3>2. l = IF ids = {} THEN LaneAt("done")
              ELSE [LaneAt("create") EXCEPT !.ids = ids,
                      !.todo = UNION {AccountsOf(s) : s \in ids}]
      BY <1>3, <3>1, LaneRead
    <3>3. l.pc = "create" => l.ids = ids /\ l.todo = UNION {AccountsOf(s) : s \in ids}
      BY <1>0, <3>2 DEF LaneAt
    <3> QED
      BY <3>3
  <2>2. CASE AccountsCreate(w, c)
    <3>1. CASE \E a \in lane[w][c].todo :
                 /\ vault' = vault \cup {a}
                 /\ lane' = [lane EXCEPT ![w][c].todo = lane[w][c].todo \ {a}]
      <4>1. PICK a \in lane[w][c].todo :
                 /\ vault' = vault \cup {a}
                 /\ lane' = [lane EXCEPT ![w][c] =
                      [lane[w][c] EXCEPT !.todo = lane[w][c].todo \ {a}]]
        BY <3>1
      <4>2. l = [lane[w][c] EXCEPT !.todo = lane[w][c].todo \ {a}]
        BY <1>3, <4>1, LaneRead
      <4>3. l.pc = lane[w][c].pc /\ l.ids = lane[w][c].ids /\ l.todo = lane[w][c].todo \ {a}
        BY <1>0, <4>2 DEF Lane
      <4> QED
        BY <1>0, <4>1, <4>3 DEF Knows
    <3>2. CASE lane' = [lane EXCEPT ![w][c] = LaneAt("done")]
      <4>1. l = LaneAt("done")
        BY <1>3, <3>2, LaneRead
      <4> QED
        BY <1>0, <4>1
    <3> QED
      BY <2>2, <3>1, <3>2 DEF AccountsCreate
  <2>3. CASE AccountsConfirm(w, c)
    BY <1>0, <1>3, <2>3 DEF TypeOK, Knows, Lane, AccountsConfirm, LaneAt, services
  <2> QED
    BY <2>1, <2>2, <2>3
<1>7. LanesKnow'
  BY <1>0, <1>2, <1>4, <1>5, <1>6, LanesKnowPut
<1>8. AckedHasAccounts'
  <2>1. CASE AccountsList(w, c) \/ AccountsCreate(w, c)
    BY <1>0, <1>4, <2>1 DEF AckedHasAccounts, AccountsList, AccountsCreate, files
  <2>2. CASE AccountsConfirm(w, c)
    <3>1. \A s \in lane[w][c].ids : AccountsOf(s) \subseteq vault
      BY <1>0, <2>2 DEF AccountsConfirm, Knows
    <3>2. vault' = vault /\ ackAccount' \subseteq ackAccount \cup lane[w][c].ids
      BY <2>2 DEF AccountsConfirm, services
    <3> QED
      BY <1>0, <3>1, <3>2 DEF AckedHasAccounts
  <2> QED
    BY <2>1, <2>2
<1> QED
  BY <1>0, <1>4, <1>7, <1>8 DEF Acked, AckedIsPosted

\* CreateTransactions: a lane marks what the ledger has just accepted.
LEMMA TransactionsAcked ==
  ASSUME TypeOK, Acked, NEW w \in Runs, NEW c \in Currencies,
         \/ TransactionsList(w, c) \/ TransactionsSkip(w, c) \/ TransactionsPost(w, c)
         \/ TransactionsConfirm(w, c) \/ TransactionsEnd(w, c)
  PROVE  Acked'
<1>0. /\ lane[w][c] \in Lane /\ Knows(lane[w][c]) /\ LanesKnow
      /\ AckedIsPosted /\ AckedHasAccounts
  BY DEF TypeOK, Acked, LanesKnow
<1>1. LaneStep(w, c)
  BY DEF LaneStep
<1>2. PICK l \in Lane : lane' = [lane EXCEPT ![w][c] = l]
  BY <1>1, LaneStepPut
<1>3. lane'[w][c] = l
  BY <1>2, LanePut
<1>4. /\ vault' = vault /\ ackAccount' = ackAccount /\ ledger \subseteq ledger'
  BY DEF TransactionsList, TransactionsSkip, TransactionsPost, TransactionsConfirm,
     TransactionsEnd, files, services
<1>5. l.pc # "create" /\ (l.pc = "confirm" => l.at \subseteq ledger')
  <2>1. CASE \E s \in lane[w][c].ids :
               /\ ledger' = ledger \cup {s}
               /\ lane' = [lane EXCEPT ![w][c] = Posted(lane[w][c], s)]
    <3>1. PICK s \in lane[w][c].ids :
               /\ ledger' = ledger \cup {s}
               /\ lane' = [lane EXCEPT ![w][c] = Posted(lane[w][c], s)]
      BY <2>1
    <3>2. l = Posted(lane[w][c], s)
      BY <1>3, <3>1, LaneRead
    <3>3. l.pc = "confirm" /\ l.at = {s}
      BY <1>0, <3>2 DEF Posted, Lane
    <3> QED
      BY <3>1, <3>3
  <2>2. CASE lane[w][c].pc = "post" /\ \E s \in lane[w][c].ids :
               lane' = [lane EXCEPT ![w][c].ids = lane[w][c].ids \ {s}]
    <3>1. lane'[w][c].pc = "post"
      BY <1>0, <2>2 DEF TypeOK, Lane
    <3> QED
      BY <1>3, <3>1
  <2>3. CASE TransactionsPost(w, c)
    BY <2>1, <2>2, <2>3 DEF TransactionsPost
  <2>4. CASE ~TransactionsPost(w, c)
    BY <1>0, <1>3, <2>2, <2>4 DEF TypeOK, Lane, TransactionsList, TransactionsSkip,
       TransactionsConfirm, TransactionsEnd, LaneAt
  <2> QED
    BY <2>3, <2>4
<1>6. LanesKnow'
  BY <1>0, <1>2, <1>4, <1>5, LanesKnowPut
<1>7. AckedIsPosted'
  <2>1. CASE TransactionsConfirm(w, c)
    <3>1. lane[w][c].at \subseteq ledger
      BY <1>0, <2>1 DEF TransactionsConfirm, Knows
    <3> QED
      BY <1>0, <2>1, <3>1 DEF TransactionsConfirm, AckedIsPosted, services
  <2>2. CASE ~TransactionsConfirm(w, c)
    <3>1. ackTransfer' = ackTransfer
      BY <2>2 DEF TransactionsList, TransactionsSkip, TransactionsPost, TransactionsEnd, files
    <3> QED
      BY <1>0, <1>4, <3>1 DEF AckedIsPosted
  <2> QED
    BY <2>1, <2>2
<1> QED
  BY <1>0, <1>4, <1>7, <1>6 DEF Acked, AckedHasAccounts

\* Everything else leaves marks, vault and ledger alone, and lanes that know
\* nothing yet.
LEMMA OthersAcked ==
  ASSUME TypeOK, Acked, UNCHANGED <<ackAccount, ackTransfer, services>>,
         \A w \in Runs, c \in Currencies :
           lane'[w][c] = lane[w][c] \/ lane'[w][c].pc \in {"done", "list"}
  PROVE  Acked'
  BY DEF Acked, AckedIsPosted, AckedHasAccounts, LanesKnow, Knows, services

LEMMA RunStepAcked ==
  ASSUME TypeOK, Acked, NEW w \in Runs, RunStep(w)
  PROVE  Acked'
<1>1. UNCHANGED <<ackAccount, ackTransfer, services>>
  BY DEF RunStep, Start, GetCurrencies, InitCurrency, AllInitialized, BeginCurrency,
     EndCurrencies, Search, Mkdir, ListPending, Download, WriteData, MoveCursor,
     AccountsWait, TransactionsWait, files
<1>2. ASSUME NEW stage \in RunPcs, NEW mem \in [Currencies -> Days \cup {None}],
             EnterStage(w, stage, mem)
      PROVE  Acked'
  BY <1>1, <1>2, StageTyped, OthersAcked
<1>3. CASE lane' = lane
  BY <1>1, <1>3, OthersAcked
<1>4. /\ {"accounts", "transactions"} \subseteq RunPcs
      /\ cursor \in [Currencies -> Days \cup {None}]
      /\ run[w].mem \in [Currencies -> Days \cup {None}]
  BY RunTyped DEF RunPcs, TypeOK
<1>5. CASE Start(w) \/ GetCurrencies(w) \/ EndCurrencies(w) \/ AccountsWait(w)
  BY <1>2, <1>3, <1>4, <1>5 DEF Start, GetCurrencies, EndCurrencies, AccountsWait
<1>6. CASE ~(Start(w) \/ GetCurrencies(w) \/ EndCurrencies(w) \/ AccountsWait(w))
  <2>1. lane' = lane
    BY <1>6 DEF RunStep, InitCurrency, AllInitialized, BeginCurrency, Search, Mkdir,
       ListPending, Download, WriteData, MoveCursor, TransactionsWait
  <2> QED
    BY <1>3, <2>1
<1> QED
  BY <1>5, <1>6

LEMMA AckedStep == WInv /\ Acked /\ [Next]_vars => Acked'
<1> SUFFICES ASSUME TypeOK, Acked, [Next]_vars PROVE Acked'
  BY DEF WInv
<1>1. ASSUME NEW w \in Runs, RunStep(w) PROVE Acked'
  BY <1>1, RunStepAcked
<1>2. ASSUME NEW w \in Runs, NEW c \in Currencies, LaneStep(w, c) PROVE Acked'
  BY <1>2, AccountsAcked, TransactionsAcked DEF LaneStep
<1>3. CASE Tomorrow \/ (\E s \in Statements : Publish(s)) \/ Crash
  <2>1. UNCHANGED <<ackAccount, ackTransfer, services>>
    BY <1>3 DEF Tomorrow, Publish, Crash, files
  <2>2. \A w \in Runs, c \in Currencies :
          lane'[w][c] = lane[w][c] \/ lane'[w][c].pc \in {"done", "list"}
    BY <1>3 DEF Tomorrow, Publish, Crash, LaneAt
  <2> QED
    BY <2>1, <2>2, OthersAcked
<1>4. CASE UNCHANGED vars
  BY <1>4, OthersAcked DEF vars, services
<1> QED
  BY <1>1, <1>2, <1>3, <1>4 DEF Next

\* A statement marked as transferred is in the ledger, however goroutines,
\* failing calls and restarts interleave (lines 168-175 and 221-233).
THEOREM Spec_AckedIsPosted == Spec => []AckedIsPosted
<1>1. Acked => AckedIsPosted
  BY DEF Acked
<1> QED
  BY WInit, WStep, AckedInit, AckedStep, <1>1, PTL DEF Spec

\* A statement marked ack_account has both its accounts in the vault, whatever
\* the order in which they are created and whichever of them fail (lines 122-144).
THEOREM Spec_AckedHasAccounts == Spec => []AckedHasAccounts
<1>1. Acked => AckedHasAccounts
  BY DEF Acked
<1> QED
  BY WInit, WStep, AckedInit, AckedStep, <1>1, PTL DEF Spec

-----------------------------------------------------------------------------
(* The cursors *)

\* Every statement of the currency among P that falls in a month before that of
\* the day is in K.
Past(P, K, c, day) ==
  \A s \in P : s.currency = c /\ Month(s.date) < Month(day) => s \in K

\* Cursors, stored or in memory, do not lie in the future and cover the past.
Reached(P, K, now, mem) ==
  \A c \in Currencies : mem[c] # None => mem[c] <= now /\ Past(P, K, c, mem[c])

\* The months searched so far are complete, up to the directories still to make.
\* The last month is not: statements may appear in it after it was searched.
Searched(P, K, now, r) ==
  r.pc \in {"months", "mkdir"} =>
    /\ r.last <= Month(now)
    /\ \A s \in P : s.currency = r.at /\ Month(s.date) < r.month /\ Month(s.date) < r.last
         => s \in K \/ (r.pc = "mkdir" /\ s \in r.ids)

\* Directories are made for one month, that of the latest search.
Making(P, r) ==
  r.pc = "mkdir" =>
    /\ r.month <= r.last + 1 /\ r.ids \subseteq P
    /\ \A s \in r.ids : s.currency = r.at /\ Month(s.date) + 1 = r.month

\* What is downloaded has its directory, so the date that the cursor is about to
\* move to covers the past already.
Loading(P, K, now, r) ==
  /\ r.pc \in {"chunk", "write"} => r.ids \subseteq Of(r.at, K)
  /\ r.pc = "write" =>
       r.got \subseteq Of(r.at, K) /\ r.time <= now /\ Past(P, K, r.at, r.time)

RunCovers(P, K, now, r) ==
  /\ Reached(P, K, now, r.mem) /\ Searched(P, K, now, r)
  /\ Making(P, r) /\ Loading(P, K, now, r)

\* The months before that of a known statement are known as well, whichever
\* goroutine made its directory and whatever failed after that.
KnownCovers(P, K, now) ==
  \A s \in K : s \in P /\ s.date <= now /\ Past(P, K, s.currency, s.date)

Covers ==
  /\ \A s \in published : s.date <= clock
  /\ KnownCovers(published, known, clock)
  /\ Reached(published, known, clock, cursor)
  /\ \A w \in Runs : RunCovers(published, known, clock, run[w])

LEMMA MonthMonotone ==
  ASSUME NEW a \in Days, NEW b \in Days, a <= b
  PROVE  Month(a) <= Month(b) /\ Month(a) \in Nat /\ Month(b) \in Nat
  BY DaysAssumption DEF Month, Days

LEMMA MonthZero == Month(0) = 0
  BY DaysAssumption DEF Month

\* What is published later belongs to the current month or a later one, and
\* directories stay: what is covered stays covered.
Later(P, K, now, P2, K2, now2) ==
  /\ P \subseteq P2 /\ P2 \subseteq Statements /\ K \subseteq K2
  /\ now \in Days /\ now2 \in Days /\ now <= now2
  /\ \A s \in P2 : s \in P \/ s.date = now

LEMMA PastStays ==
  ASSUME NEW P, NEW K, NEW now, NEW P2, NEW K2, NEW now2, Later(P, K, now, P2, K2, now2),
         NEW c, NEW day \in Days, day <= now, Past(P, K, c, day)
  PROVE  Past(P2, K2, c, day)
<1> SUFFICES ASSUME NEW s \in P2, s.currency = c, Month(s.date) < Month(day)
             PROVE  s \in K2
  BY DEF Past
<1>1. now \in Days /\ Month(day) <= Month(now) /\ Month(day) \in Nat /\ Month(now) \in Nat
  BY MonthMonotone DEF Later
<1>2. s \in P
  <2>1. s.date # now
    BY <1>1
  <2> QED
    BY <2>1 DEF Later
<1> QED
  BY <1>2 DEF Past, Later

LEMMA ReachedStays ==
  ASSUME NEW P, NEW K, NEW now, NEW P2, NEW K2, NEW now2, Later(P, K, now, P2, K2, now2),
         NEW mem \in [Currencies -> Days \cup {None}], Reached(P, K, now, mem)
  PROVE  Reached(P2, K2, now2, mem)
<1> SUFFICES ASSUME NEW c \in Currencies, mem[c] # None
             PROVE  mem[c] <= now2 /\ Past(P2, K2, c, mem[c])
  BY DEF Reached
<1>1. mem[c] \in Days /\ mem[c] <= now /\ Past(P, K, c, mem[c])
  BY DEF Reached
<1>2. mem[c] <= now2
  BY <1>1 DEF Later, Days
<1> QED
  BY <1>1, <1>2, PastStays

LEMMA RunCoversStays ==
  ASSUME NEW P, NEW K, NEW now, NEW P2, NEW K2, NEW now2, Later(P, K, now, P2, K2, now2),
         NEW r \in Run, RunCovers(P, K, now, r)
  PROVE  RunCovers(P2, K2, now2, r)
<1>0. /\ r.mem \in [Currencies -> Days \cup {None}] /\ r.time \in Days
      /\ r.last \in Nat /\ r.month \in Nat
      /\ now \in Days /\ now2 \in Days /\ now <= now2
  BY DEF Run, Later
<1>1. Reached(P2, K2, now2, r.mem)
  BY <1>0, ReachedStays DEF RunCovers
<1>2. Searched(P2, K2, now2, r)
  <2> SUFFICES ASSUME r.pc \in {"months", "mkdir"}
               PROVE  /\ r.last <= Month(now2)
                      /\ \A s \in P2 : s.currency = r.at /\ Month(s.date) < r.month
                           /\ Month(s.date) < r.last
                           => s \in K2 \/ (r.pc = "mkdir" /\ s \in r.ids)
    BY DEF Searched
  <2>1. r.last <= Month(now) /\ Month(now) \in Nat /\ Month(now2) \in Nat
          /\ Month(now) <= Month(now2)
    BY <1>0, MonthMonotone DEF RunCovers, Searched
  <2>2. ASSUME NEW s \in P2, s.currency = r.at, Month(s.date) < r.month,
               Month(s.date) < r.last
        PROVE  s \in K2 \/ (r.pc = "mkdir" /\ s \in r.ids)
    <3>1. s.date # now
      BY <1>0, <2>1, <2>2
    <3>2. s \in P
      BY <3>1 DEF Later
    <3> QED
      BY <2>2, <3>2 DEF RunCovers, Searched, Later
  <2> QED
    BY <1>0, <2>1, <2>2
<1>3. Making(P2, r)
  BY DEF RunCovers, Making, Later
<1>4. Loading(P2, K2, now2, r)
  <2>1. r.pc \in {"chunk", "write"} => r.ids \subseteq Of(r.at, K2)
    BY DEF RunCovers, Loading, Later, Of
  <2>2. r.pc = "write" => r.got \subseteq Of(r.at, K2)
    BY DEF RunCovers, Loading, Later, Of
  <2>3. r.pc = "write" => r.time <= now2 /\ Past(P2, K2, r.at, r.time)
    <3> SUFFICES ASSUME r.pc = "write" PROVE r.time <= now2 /\ Past(P2, K2, r.at, r.time)
      OBVIOUS
    <3>1. r.time <= now /\ Past(P, K, r.at, r.time)
      BY DEF RunCovers, Loading
    <3>2. r.time <= now2
      BY <1>0, <3>1 DEF Days
    <3> QED
      BY <1>0, <3>1, <3>2, PastStays
  <2> QED
    BY <2>1, <2>2, <2>3 DEF Loading
<1> QED
  BY <1>1, <1>2, <1>3, <1>4 DEF RunCovers

LEMMA KnownCoversStays ==
  ASSUME NEW P, NEW K, NEW now, NEW P2, NEW now2, Later(P, K, now, P2, K, now2),
         KnownCovers(P, K, now)
  PROVE  KnownCovers(P2, K, now2)
<1> SUFFICES ASSUME NEW s \in K
             PROVE  s \in P2 /\ s.date <= now2 /\ Past(P2, K, s.currency, s.date)
  BY DEF KnownCovers
<1>1. s \in P /\ s.date <= now /\ Past(P, K, s.currency, s.date)
  BY DEF KnownCovers
<1>2. s \in P2 /\ s.date \in Days
  BY <1>1, StatementsAssumption DEF Later
<1>3. s.date <= now2
  BY <1>1, <1>2 DEF Later, Days
<1> QED
  BY <1>1, <1>2, <1>3, PastStays

\* A goroutine goes on and makes directories at most; the others are where they were.
LEMMA CoversPut ==
  ASSUME TypeOK, Covers, NEW w \in Runs, NEW r \in Run, run' = [run EXCEPT ![w] = r],
         UNCHANGED world, known \subseteq known',
         KnownCovers(published, known', clock),
         RunCovers(published, known', clock, r), Reached(published, known', clock, cursor')
  PROVE  Covers'
<1>1. Later(published, known, clock, published, known', clock)
  BY DEF Later, TypeOK, Days
<1>2. \A v \in Runs : RunCovers(published, known', clock, run'[v])
  <2> SUFFICES ASSUME NEW v \in Runs PROVE RunCovers(published, known', clock, run'[v])
    OBVIOUS
  <2>1. CASE v = w
    <3>1. run'[v] = r
      BY <2>1 DEF TypeOK
    <3> QED
      BY <3>1
  <2>2. CASE v # w
    <3>1. run'[v] = run[v] /\ run[v] \in Run /\ RunCovers(published, known, clock, run[v])
      BY <2>2 DEF TypeOK, Covers
    <3> QED
      BY <1>1, <3>1, RunCoversStays
  <2> QED
    BY <2>1, <2>2
<1>3. published' = published /\ clock' = clock
  BY DEF world
<1>4. \A s \in published : s.date <= clock
  BY DEF Covers
<1> QED
  BY <1>2, <1>3, <1>4 DEF Covers

\* Most steps leave files and the world alone.
LEMMA CoversOnly ==
  ASSUME TypeOK, Covers, NEW w \in Runs, NEW r \in Run, run' = [run EXCEPT ![w] = r],
         UNCHANGED <<world, known>>,
         RunCovers(published, known, clock, r), Reached(published, known, clock, cursor')
  PROVE  Covers'
<1>1. KnownCovers(published, known, clock) /\ known' = known
  BY DEF Covers
<1> QED
  BY <1>1, CoversPut

\* A goroutine in any stage but those of the search and of the download relies
\* on its cursors only.
LEMMA RelaxedCovers ==
  ASSUME NEW r, r.pc \notin {"months", "mkdir", "chunk", "write"},
         Reached(published, known, clock, r.mem)
  PROVE  RunCovers(published, known, clock, r)
  BY DEF RunCovers, Searched, Making, Loading

LEMMA IdleReached ==
  ASSUME NEW P, NEW K, NEW now PROVE Reached(P, K, now, IdleRun.mem)
  BY DEF Reached, IdleRun

LEMMA CoversRead ==
  ASSUME TypeOK, Covers, NEW w \in Runs
  PROVE  /\ RunCovers(published, known, clock, run[w])
         /\ Reached(published, known, clock, run[w].mem)
         /\ Reached(published, known, clock, cursor)
         /\ KnownCovers(published, known, clock)
         /\ run[w] \in Run /\ run[w].mem \in [Currencies -> Days \cup {None}]
         /\ clock \in Days /\ cursor \in [Currencies -> Days \cup {None}]
         /\ published \subseteq Statements /\ known \subseteq published
  BY RunTyped DEF Covers, RunCovers, TypeOK, KnownCovers

\* A cursor is put into the memory of a goroutine.
LEMMA ReachedPut ==
  ASSUME NEW P, NEW K, NEW now, NEW mem \in [Currencies -> Days \cup {None}],
         Reached(P, K, now, mem), NEW c, NEW day \in Days, day <= now, Past(P, K, c, day)
  PROVE  Reached(P, K, now, [mem EXCEPT ![c] = day])
<1> SUFFICES ASSUME NEW d \in Currencies, [mem EXCEPT ![c] = day][d] # None
             PROVE  /\ [mem EXCEPT ![c] = day][d] <= now
                    /\ Past(P, K, d, [mem EXCEPT ![c] = day][d])
  BY DEF Reached
<1>1. CASE d = c
  BY <1>1
<1>2. CASE d # c
  BY <1>2 DEF Reached
<1> QED
  BY <1>1, <1>2

LEMMA PastZero ==
  ASSUME NEW P \in SUBSET Statements, NEW K, NEW c PROVE Past(P, K, c, 0)
<1> SUFFICES ASSUME NEW s \in P PROVE ~(Month(s.date) < Month(0))
  BY DEF Past
<1>1. Month(s.date) \in Nat
  BY StatementsAssumption, MonthTyped
<1> QED
  BY <1>1, MonthZero

\* UpdateToken stores what the goroutine has in memory, or nothing.
LEMMA UpdateReached ==
  ASSUME NEW mem, UpdateToken(mem), NEW P, NEW K, NEW now, Reached(P, K, now, mem),
         Reached(P, K, now, cursor)
  PROVE  Reached(P, K, now, cursor')
<1>1. cursor' = mem \/ cursor' = cursor
  BY DEF UpdateToken
<1> QED
  BY <1>1

LEMMA StageCovers ==
  ASSUME TypeOK, Covers, NEW w \in Runs, NEW stage \in {"accounts", "transactions"},
         NEW mem \in [Currencies -> Days \cup {None}],
         Reached(published, known, clock, mem), EnterStage(w, stage, mem),
         UNCHANGED <<world, known, cursor>>
  PROVE  Covers'
<1> DEFINE r == [run[w] EXCEPT !.pc = stage, !.mem = mem]
<1>0. run[w] \in Run /\ Reached(published, known, clock, cursor)
  BY CoversRead
<1>1. run' = [run EXCEPT ![w] = r]
  BY DEF EnterStage, TypeOK
<1>2. r \in Run /\ r.pc = stage /\ r.mem = mem
  BY <1>0 DEF Run, RunPcs
<1> HIDE DEF r
<1>3. RunCovers(published, known, clock, r)
  BY <1>2, RelaxedCovers
<1>4. Reached(published, known, clock, cursor') /\ UNCHANGED <<world, known>>
  BY <1>0
<1> QED
  BY <1>1, <1>2, <1>3, <1>4, CoversOnly

LEMMA BeginCovers ==
  ASSUME WInv, Covers, NEW w \in Runs,
         Start(w) \/ GetCurrencies(w) \/ InitCurrency(w) \/ AllInitialized(w)
           \/ BeginCurrency(w) \/ EndCurrencies(w)
  PROVE  Covers'
<1>0. /\ TypeOK /\ HaveCursors
      /\ Reached(published, known, clock, run[w].mem)
      /\ Reached(published, known, clock, cursor)
      /\ run[w] \in Run /\ run[w].mem \in [Currencies -> Days \cup {None}]
      /\ clock \in Days /\ cursor \in [Currencies -> Days \cup {None}]
      /\ published \subseteq Statements
      /\ run[w].left \subseteq Currencies
  BY CoversRead, RunTyped DEF WInv
<1>1. CASE Start(w)
  <2>0. UNCHANGED <<world, known, cursor>>
    BY <1>1 DEF Start, files
  <2>1. CASE EnterStage(w, "accounts", cursor)
    BY <1>0, <2>0, <2>1, StageCovers
  <2>2. CASE run' = [run EXCEPT ![w] = [IdleRun EXCEPT !.pc = "discover", !.mem = cursor]]
    <3> DEFINE r == [IdleRun EXCEPT !.pc = "discover", !.mem = cursor]
    <3>1. r \in Run /\ r.pc = "discover" /\ r.mem = cursor
      BY <1>0, IdleTyped DEF Run, RunPcs
    <3>2. run' = [run EXCEPT ![w] = r]
      BY <2>2
    <3> HIDE DEF r
    <3>3. RunCovers(published, known, clock, r) /\ Reached(published, known, clock, cursor')
      BY <1>0, <2>0, <3>1, RelaxedCovers
    <3> QED
      BY <1>0, <2>0, <3>1, <3>2, <3>3, CoversOnly
  <2> QED
    BY <1>1, <2>1, <2>2 DEF Start
<1>2. CASE GetCurrencies(w)
  <2>0. UNCHANGED <<world, known, cursor>>
    BY <1>2 DEF GetCurrencies, files
  <2>1. CASE EnterStage(w, "accounts", run[w].mem)
    BY <1>0, <2>0, <2>1, StageCovers
  <2>2. CASE run' = [run EXCEPT ![w].pc = "initialize",
               ![w].left = {c \in Currencies : run[w].mem[c] = None}]
    <3> DEFINE left == {c \in Currencies : run[w].mem[c] = None}
               r == [run[w] EXCEPT !.pc = "initialize", !.left = left]
    <3>1. r \in Run /\ r.pc = "initialize" /\ r.mem = run[w].mem
      <4>1. left \subseteq Currencies
        OBVIOUS
      <4> HIDE DEF left
      <4> QED
        BY <1>0, <4>1 DEF Run, RunPcs
    <3>2. run' = [run EXCEPT ![w] = r]
      BY <1>0, <2>2 DEF TypeOK
    <3> HIDE DEF r
    <3>3. RunCovers(published, known, clock, r) /\ Reached(published, known, clock, cursor')
      BY <1>0, <2>0, <3>1, RelaxedCovers
    <3> QED
      BY <1>0, <2>0, <3>1, <3>2, <3>3, CoversOnly
  <2> QED
    BY <1>2, <2>1, <2>2 DEF GetCurrencies
<1>3. CASE InitCurrency(w)
  <2>0. UNCHANGED <<world, known>> /\ run[w].pc = "initialize"
    BY <1>3 DEF InitCurrency, files
  <2>1. PICK c \in run[w].left :
          /\ run' = [run EXCEPT ![w].mem = [run[w].mem EXCEPT ![c] = 0],
                                ![w].left = run[w].left \ {c}]
          /\ UpdateToken([run[w].mem EXCEPT ![c] = 0])
    BY <1>3 DEF InitCurrency
  <2> DEFINE m == [run[w].mem EXCEPT ![c] = 0]
             r == [run[w] EXCEPT !.mem = m, !.left = run[w].left \ {c}]
  <2>2. m \in [Currencies -> Days \cup {None}]
    BY <1>0, RunTyped
  <2>3. Reached(published, known, clock, m)
    <3>1. 0 \in Days /\ 0 <= clock
      BY <1>0, DaysAssumption DEF Days
    <3> QED
      BY <1>0, <3>1, PastZero, ReachedPut
  <2>4. UpdateToken(m) /\ run' = [run EXCEPT ![w] = r]
    BY <1>0, <2>1 DEF TypeOK
  <2>5. Reached(published, known, clock, cursor')
    <3> HIDE DEF m
    <3> QED
      BY <1>0, <2>3, <2>4, UpdateReached
  <2>6. r \in Run /\ r.pc = "initialize" /\ r.mem = m
    <3> HIDE DEF m
    <3> QED
      BY <1>0, <2>0, <2>2 DEF Run
  <2> HIDE DEF r, m
  <2>7. RunCovers(published, known, clock, r)
    BY <2>3, <2>6, RelaxedCovers
  <2> QED
    BY <1>0, <2>0, <2>4, <2>5, <2>6, <2>7, CoversOnly
<1>4. CASE AllInitialized(w)
  <2> DEFINE left == {c \in Currencies : run[w].mem[c] # None}
             r == [run[w] EXCEPT !.pc = "currency", !.left = left]
  <2>1. r \in Run /\ r.pc = "currency" /\ r.mem = run[w].mem
    <3>1. left \subseteq Currencies
      OBVIOUS
    <3> HIDE DEF left
    <3> QED
      BY <1>0, <3>1 DEF Run, RunPcs
  <2>2. run' = [run EXCEPT ![w] = r] /\ UNCHANGED <<world, known, cursor>>
    BY <1>0, <1>4 DEF AllInitialized, TypeOK, files
  <2> HIDE DEF r
  <2>3. RunCovers(published, known, clock, r) /\ Reached(published, known, clock, cursor')
    BY <1>0, <2>1, <2>2, RelaxedCovers
  <2> QED
    BY <1>0, <2>1, <2>2, <2>3, CoversOnly
<1>5. CASE BeginCurrency(w)
  <2>1. PICK c \in run[w].left :
          run' = [run EXCEPT ![w] =
               [run[w] EXCEPT !.pc = "months", !.at = c, !.left = run[w].left \ {c},
                         !.month = Month(run[w].mem[c]), !.last = Month(clock)]]
    BY <1>5 DEF BeginCurrency
  <2>2. run[w].mem[c] \in Days /\ c \in Currencies /\ run[w].mem[c] # None
    BY <1>0, <1>5, NoneAssumption DEF BeginCurrency, HaveCursors, WithCursor
  <2> DEFINE m == Month(run[w].mem[c])
             n == Month(clock)
             r == [run[w] EXCEPT !.pc = "months", !.at = c, !.left = run[w].left \ {c},
                         !.month = m, !.last = n]
  <2>3. m \in 0..Horizon + 1 /\ n \in 0..Horizon
    BY <1>0, <2>2, MonthTyped, DaysAssumption
  <2>4. /\ r \in Run /\ r.pc = "months" /\ r.at = c /\ r.month = m /\ r.last = n
        /\ r.mem = run[w].mem
    <3> HIDE DEF m, n
    <3> QED
      BY <1>0, <2>2, <2>3 DEF Run, RunPcs
  <2>5. run' = [run EXCEPT ![w] = r] /\ UNCHANGED <<world, known, cursor>>
    BY <1>5, <2>1 DEF BeginCurrency, files
  <2>6. Past(published, known, c, run[w].mem[c])
    BY <1>0, <2>2 DEF Reached
  <2> HIDE DEF r
  <2>7. Searched(published, known, clock, r)
    BY <2>3, <2>4, <2>6 DEF Searched, Past
  <2>8. RunCovers(published, known, clock, r) /\ Reached(published, known, clock, cursor')
    BY <1>0, <2>4, <2>5, <2>7 DEF RunCovers, Making, Loading
  <2> QED
    BY <1>0, <2>4, <2>5, <2>8, CoversOnly
<1>6. CASE EndCurrencies(w)
  BY <1>0, <1>6, StageCovers DEF EndCurrencies, files
<1> QED
  BY <1>1, <1>2, <1>3, <1>4, <1>5, <1>6

\* The search takes what is there in a month, and the months before are complete.
LEMMA SearchCovers ==
  ASSUME TypeOK, Covers, NEW w \in Runs, Search(w) PROVE Covers'
<1>0. /\ RunCovers(published, known, clock, run[w])
      /\ Reached(published, known, clock, run[w].mem)
      /\ Reached(published, known, clock, cursor)
      /\ run[w] \in Run /\ run[w].mem \in [Currencies -> Days \cup {None}]
      /\ run[w].month \in 0..Horizon + 1 /\ run[w].last \in 0..Horizon
      /\ clock \in Days /\ published \subseteq Statements
  BY CoversRead, RunTyped
<1>1. /\ UNCHANGED <<world, known, cursor>>
      /\ run[w].pc = "months" /\ run[w].month <= run[w].last
  BY DEF Search, files
<1>2. CASE run' = [run EXCEPT ![w] = Found(w)]
  <2> DEFINE ids == {s \in Of(run[w].at, published) : Month(s.date) = run[w].month}
             month == run[w].month + 1
             r == Found(w)
  <2>1. ids \subseteq Statements /\ month \in 0..Horizon + 1
    BY <1>0, <1>1, DaysAssumption DEF Of
  <2>2. r = [run[w] EXCEPT !.pc = "mkdir", !.month = month, !.ids = ids]
    BY DEF Found
  <2>3. /\ r \in Run /\ r.pc = "mkdir" /\ r.month = month /\ r.ids = ids
        /\ r.last = run[w].last /\ r.at = run[w].at /\ r.mem = run[w].mem
    <3> HIDE DEF ids, month, r
    <3> QED
      BY <1>0, <2>1, <2>2 DEF Run, RunPcs
  <2>4. run' = [run EXCEPT ![w] = r]
    BY <1>2
  <2> HIDE DEF r
  <2>5. \A s \in published : Month(s.date) \in Nat
    BY <1>0, StatementsAssumption, MonthTyped
  <2>6. Searched(published, known, clock, r)
    <3>1. r.last <= Month(clock)
      BY <1>0, <1>1, <2>3 DEF RunCovers, Searched
    <3>2. ASSUME NEW s \in published, s.currency = r.at, Month(s.date) < r.month,
                 Month(s.date) < r.last
          PROVE  s \in known \/ s \in r.ids
      <4>1. CASE Month(s.date) = run[w].month
        BY <2>3, <3>2, <4>1 DEF Of
      <4>2. CASE Month(s.date) < run[w].month
        BY <1>0, <1>1, <2>3, <3>2, <4>2 DEF RunCovers, Searched
      <4> QED
        BY <1>0, <2>3, <2>5, <3>2, <4>1, <4>2
    <3> QED
      BY <2>3, <3>1, <3>2 DEF Searched
  <2>7. Making(published, r)
    <3>1. r.month <= r.last + 1 /\ r.ids \subseteq published
      BY <1>0, <1>1, <2>3 DEF Of
    <3>2. \A s \in r.ids : s.currency = r.at /\ Month(s.date) + 1 = r.month
      BY <2>3 DEF Of
    <3> QED
      BY <3>1, <3>2 DEF Making
  <2>8. RunCovers(published, known, clock, r) /\ Reached(published, known, clock, cursor')
    BY <1>0, <1>1, <2>3, <2>6, <2>7 DEF RunCovers, Loading
  <2> QED
    BY <1>0, <1>1, <2>3, <2>4, <2>8, CoversOnly
<1>3. CASE run' = [run EXCEPT ![w].pc = "currency"]
  <2> DEFINE r == [run[w] EXCEPT !.pc = "currency"]
  <2>1. r \in Run /\ r.pc = "currency" /\ r.mem = run[w].mem
    BY <1>0 DEF Run, RunPcs
  <2>2. run' = [run EXCEPT ![w] = r]
    BY <1>3 DEF TypeOK
  <2> HIDE DEF r
  <2>3. RunCovers(published, known, clock, r) /\ Reached(published, known, clock, cursor')
    BY <1>0, <1>1, <2>1, RelaxedCovers
  <2> QED
    BY <1>1, <2>1, <2>2, <2>3, CoversOnly
<1> QED
  BY <1>2, <1>3 DEF Search

\* Directories of one month are made in any order, and the rest may be left out:
\* each of them stands behind complete months.
LEMMA MkdirCovers ==
  ASSUME TypeOK, Covers, NEW w \in Runs, Mkdir(w) PROVE Covers'
<1>0. /\ RunCovers(published, known, clock, run[w])
      /\ Reached(published, known, clock, run[w].mem)
      /\ Reached(published, known, clock, cursor)
      /\ KnownCovers(published, known, clock)
      /\ run[w] \in Run /\ run[w].mem \in [Currencies -> Days \cup {None}]
      /\ run[w].month \in 0..Horizon + 1 /\ run[w].last \in 0..Horizon
      /\ clock \in Days /\ published \subseteq Statements /\ known \subseteq published
      /\ run[w].ids \subseteq Statements
  BY CoversRead, RunTyped
<1>1. UNCHANGED <<world, cursor>> /\ run[w].pc = "mkdir"
  BY DEF Mkdir
<1>2. \A s \in published : s.date \in Days /\ Month(s.date) \in Nat
  BY <1>0, StatementsAssumption, MonthTyped
<1>3. ASSUME NEW s \in run[w].ids, known' = known \cup {s},
             run' = [run EXCEPT ![w].ids = run[w].ids \ {s}]
      PROVE  Covers'
  <2> DEFINE r == [run[w] EXCEPT !.ids = run[w].ids \ {s}]
  <2>1. /\ r \in Run /\ r.pc = "mkdir" /\ r.ids = run[w].ids \ {s} /\ r.at = run[w].at
        /\ r.month = run[w].month /\ r.last = run[w].last /\ r.mem = run[w].mem
    BY <1>0, <1>1 DEF Run
  <2>2. run' = [run EXCEPT ![w] = r]
    BY <1>3 DEF TypeOK
  <2> HIDE DEF r
  <2>3. Later(published, known, clock, published, known', clock)
    BY <1>0, <1>3 DEF Later, Days
  <2>4. /\ s \in published /\ s.currency = run[w].at /\ Month(s.date) + 1 = run[w].month
        /\ run[w].month <= run[w].last + 1
    BY <1>0, <1>1 DEF RunCovers, Making
  <2>5. Past(published, known', s.currency, s.date)
    <3> SUFFICES ASSUME NEW t \in published, t.currency = s.currency,
                        Month(t.date) < Month(s.date)
                 PROVE  t \in known'
      BY DEF Past
    <3>1. Month(t.date) < run[w].month /\ Month(t.date) < run[w].last
      BY <1>0, <1>2, <2>4
    <3>2. t \in known \/ t \in run[w].ids
      BY <1>0, <1>1, <2>4, <3>1 DEF RunCovers, Searched
    <3>3. t \notin run[w].ids
      <4>1. Month(t.date) + 1 # run[w].month
        BY <1>2, <2>4
      <4> QED
        BY <1>0, <1>1, <4>1 DEF RunCovers, Making
    <3> QED
      BY <1>3, <3>2, <3>3
  <2>6. KnownCovers(published, known', clock)
    <3> SUFFICES ASSUME NEW t \in known'
                 PROVE  /\ t \in published /\ t.date <= clock
                        /\ Past(published, known', t.currency, t.date)
      BY DEF KnownCovers
    <3>1. CASE t = s
      BY <2>4, <2>5, <3>1 DEF Covers
    <3>2. CASE t \in known
      <4>1. /\ t \in published /\ t.date \in Days /\ t.date <= clock
            /\ Past(published, known, t.currency, t.date)
        BY <1>0, <1>2, <3>2 DEF KnownCovers
      <4> QED
        BY <2>3, <4>1, PastStays
    <3> QED
      BY <1>3, <3>1, <3>2
  <2>7. RunCovers(published, known', clock, r)
    <3>1. Reached(published, known', clock, r.mem)
      BY <1>0, <2>1, <2>3, ReachedStays
    <3>2. Searched(published, known', clock, r)
      BY <1>0, <1>1, <1>3, <2>1 DEF RunCovers, Searched
    <3>3. Making(published, r)
      BY <1>0, <1>1, <2>1 DEF RunCovers, Making
    <3> QED
      BY <2>1, <3>1, <3>2, <3>3 DEF RunCovers, Loading
  <2>8. Reached(published, known', clock, cursor')
    <3>1. cursor \in [Currencies -> Days \cup {None}]
      BY DEF TypeOK
    <3> QED
      BY <1>0, <1>1, <2>3, <3>1, ReachedStays
  <2> QED
    BY <1>1, <1>3, <2>1, <2>2, <2>6, <2>7, <2>8, CoversPut
<1>4. CASE run[w].ids = {} /\ run' = [run EXCEPT ![w].pc = "months"] /\ known' = known
  <2> DEFINE r == [run[w] EXCEPT !.pc = "months"]
  <2>1. /\ r \in Run /\ r.pc = "months" /\ r.at = run[w].at
        /\ r.month = run[w].month /\ r.last = run[w].last /\ r.mem = run[w].mem
    BY <1>0 DEF Run, RunPcs
  <2>2. run' = [run EXCEPT ![w] = r]
    BY <1>4 DEF TypeOK
  <2> HIDE DEF r
  <2>3. Searched(published, known, clock, r)
    BY <1>0, <1>1, <1>4, <2>1 DEF RunCovers, Searched
  <2>4. RunCovers(published, known, clock, r) /\ Reached(published, known, clock, cursor')
    BY <1>0, <1>1, <2>1, <2>3 DEF RunCovers, Making, Loading
  <2> QED
    BY <1>1, <1>4, <2>1, <2>2, <2>4, CoversOnly
<1>5. CASE run' = [run EXCEPT ![w].pc = "currency", ![w].ids = {}] /\ known' = known
  <2> DEFINE r == [run[w] EXCEPT !.pc = "currency", !.ids = {}]
  <2>1. r \in Run /\ r.pc = "currency" /\ r.mem = run[w].mem
    BY <1>0 DEF Run, RunPcs
  <2>2. run' = [run EXCEPT ![w] = r]
    BY <1>5 DEF TypeOK
  <2> HIDE DEF r
  <2>3. RunCovers(published, known, clock, r) /\ Reached(published, known, clock, cursor')
    BY <1>0, <1>1, <2>1, RelaxedCovers
  <2> QED
    BY <1>1, <1>5, <2>1, <2>2, <2>3, CoversOnly
<1> QED
  BY <1>3, <1>4, <1>5 DEF Mkdir

\* The cursor moves to the date of a known statement, in memory and in the
\* stored token.
LEMMA LoadCovers ==
  ASSUME TypeOK, Covers, NEW w \in Runs,
         ListPending(w) \/ Download(w) \/ WriteData(w) \/ MoveCursor(w)
  PROVE  Covers'
<1>0. /\ RunCovers(published, known, clock, run[w])
      /\ Reached(published, known, clock, run[w].mem)
      /\ Reached(published, known, clock, cursor)
      /\ KnownCovers(published, known, clock)
      /\ run[w] \in Run /\ run[w].mem \in [Currencies -> Days \cup {None}]
      /\ clock \in Days /\ published \subseteq Statements /\ known \subseteq published
      /\ run[w].ids \subseteq Statements /\ run[w].got \subseteq Statements
      /\ run[w].time \in Days /\ 0 \in Days /\ 0 <= clock
  BY CoversRead, RunTyped DEF Days
<1>1. CASE ListPending(w)
  <2>1. PICK ids \in SUBSET Of(run[w].at, known) :
          run' = [run EXCEPT ![w].pc = "chunk", ![w].ids = ids]
    BY <1>1 DEF ListPending
  <2> DEFINE r == [run[w] EXCEPT !.pc = "chunk", !.ids = ids]
  <2>2. ids \subseteq Statements
    BY <1>0 DEF Of
  <2>3. r \in Run /\ r.pc = "chunk" /\ r.mem = run[w].mem /\ r.ids = ids /\ r.at = run[w].at
    BY <1>0, <2>2 DEF Run, RunPcs
  <2>4. run' = [run EXCEPT ![w] = r] /\ UNCHANGED <<world, known, cursor>>
    BY <1>1, <2>1 DEF TypeOK, ListPending, files
  <2> HIDE DEF r
  <2>5. RunCovers(published, known, clock, r) /\ Reached(published, known, clock, cursor')
    BY <1>0, <2>3, <2>4 DEF RunCovers, Searched, Making, Loading
  <2> QED
    BY <2>3, <2>4, <2>5, CoversOnly
<1>2. CASE Download(w)
  <2>1. PICK chunk \in SUBSET run[w].ids : \E got \in {chunk, {}} :
          run' = [run EXCEPT ![w] = [run[w] EXCEPT !.pc = "write",
                    !.ids = run[w].ids \ chunk, !.got = got, !.time = 0]]
    BY <1>2 DEF Download, GetStatements
  <2>2. PICK got \in {chunk, {}} :
          run' = [run EXCEPT ![w] = [run[w] EXCEPT !.pc = "write",
                    !.ids = run[w].ids \ chunk, !.got = got, !.time = 0]]
    BY <2>1
  <2> DEFINE r == [run[w] EXCEPT !.pc = "write", !.ids = run[w].ids \ chunk,
                     !.got = got, !.time = 0]
  <2>3. /\ r \in Run /\ r.pc = "write" /\ r.mem = run[w].mem /\ r.at = run[w].at
        /\ r.ids = run[w].ids \ chunk /\ r.got = got /\ r.time = 0
    BY <1>0, <2>2 DEF Run, RunPcs
  <2>4. run' = [run EXCEPT ![w] = r] /\ UNCHANGED <<world, known, cursor>>
    BY <1>2, <2>2 DEF Download, files
  <2> HIDE DEF r
  <2>5. run[w].ids \subseteq Of(run[w].at, known)
    BY <1>0, <1>2 DEF RunCovers, Loading, Download
  <2>6. Past(published, known, r.at, r.time)
    BY <1>0, <2>3, PastZero
  <2>7. Loading(published, known, clock, r)
    BY <1>0, <2>2, <2>3, <2>5, <2>6 DEF Loading
  <2>8. RunCovers(published, known, clock, r) /\ Reached(published, known, clock, cursor')
    BY <1>0, <2>3, <2>4, <2>7 DEF RunCovers, Searched, Making
  <2> QED
    BY <2>3, <2>4, <2>8, CoversOnly
<1>3. CASE WriteData(w)
  <2>1. PICK s \in run[w].got :
          run' = [run EXCEPT ![w].got = run[w].got \ {s},
                    ![w].time = IF s.date > run[w].time THEN s.date ELSE run[w].time]
    BY <1>3 DEF WriteData
  <2>2. /\ run[w].pc = "write" /\ run[w].got \subseteq Of(run[w].at, known)
        /\ run[w].ids \subseteq Of(run[w].at, known)
        /\ run[w].time <= clock /\ Past(published, known, run[w].at, run[w].time)
    BY <1>0, <1>3 DEF RunCovers, Loading, WriteData
  <2>3. /\ s \in known /\ s.currency = run[w].at /\ s.date \in Days /\ s.date <= clock
        /\ Past(published, known, run[w].at, s.date)
    BY <1>0, <2>2, StatementsAssumption DEF Of, KnownCovers
  <2>4. PICK time \in {s.date, run[w].time} :
          run' = [run EXCEPT ![w].got = run[w].got \ {s}, ![w].time = time]
    BY <2>1
  <2> DEFINE r == [run[w] EXCEPT !.got = run[w].got \ {s}, !.time = time]
  <2>5. /\ r \in Run /\ r.pc = "write" /\ r.mem = run[w].mem /\ r.at = run[w].at
        /\ r.ids = run[w].ids /\ r.got = run[w].got \ {s} /\ r.time = time
    BY <1>0, <2>2, <2>3 DEF Run
  <2>6. run' = [run EXCEPT ![w] = r] /\ UNCHANGED <<world, known, cursor>>
    BY <1>3, <2>4 DEF TypeOK, WriteData
  <2> HIDE DEF r
  <2>7. Loading(published, known, clock, r)
    BY <2>2, <2>3, <2>5 DEF Loading
  <2>8. RunCovers(published, known, clock, r) /\ Reached(published, known, clock, cursor')
    BY <1>0, <2>5, <2>6, <2>7 DEF RunCovers, Searched, Making
  <2> QED
    BY <2>5, <2>6, <2>8, CoversOnly
<1>4. CASE MoveCursor(w)
  <2> DEFINE m == [run[w].mem EXCEPT ![run[w].at] = run[w].time]
             pc == IF run[w].ids = {} THEN "currency" ELSE "chunk"
  <2>0. /\ run[w].pc = "write" /\ run[w].ids \subseteq Of(run[w].at, known)
        /\ run[w].time <= clock /\ Past(published, known, run[w].at, run[w].time)
    BY <1>0, <1>4 DEF RunCovers, Loading, MoveCursor
  <2>1. m \in [Currencies -> Days \cup {None}] /\ pc \in {"currency", "chunk"}
    BY <1>0
  <2>2. Reached(published, known, clock, m)
    BY <1>0, <2>0, ReachedPut
  <2>3. PICK mem \in {run[w].mem, m} :
          /\ run' = [run EXCEPT ![w].pc = pc, ![w].mem = mem]
          /\ UNCHANGED cursor \/ UpdateToken(m)
    <3>1. CASE run' = [run EXCEPT ![w].pc = pc] /\ UNCHANGED cursor
      <4>1. run' = [run EXCEPT ![w] = [run[w] EXCEPT !.pc = pc]]
        BY <3>1
      <4>2. [run[w] EXCEPT !.pc = pc] = [run[w] EXCEPT !.pc = pc, !.mem = run[w].mem]
        BY <1>0 DEF Run
      <4>3. run' = [run EXCEPT ![w].pc = pc, ![w].mem = run[w].mem]
        <5> HIDE DEF pc
        <5> QED
          BY <4>1, <4>2 DEF TypeOK
      <4> QED
        BY <3>1, <4>3
    <3> QED
      BY <1>4, <3>1 DEF MoveCursor
  <2> DEFINE r == [run[w] EXCEPT !.pc = pc, !.mem = mem]
  <2>4. mem \in [Currencies -> Days \cup {None}] /\ Reached(published, known, clock, mem)
    BY <1>0, <2>1, <2>2
  <2>5. r \in Run /\ r.pc = pc /\ r.mem = mem /\ r.ids = run[w].ids /\ r.at = run[w].at
    <3> HIDE DEF m, pc
    <3> QED
      BY <1>0, <2>1, <2>4 DEF Run, RunPcs
  <2>6. run' = [run EXCEPT ![w] = r]
    <3> HIDE DEF m, pc
    <3> QED
      BY <2>3 DEF TypeOK
  <2>7. Reached(published, known, clock, cursor')
    <3> HIDE DEF m
    <3> QED
      BY <1>0, <2>2, <2>3, UpdateReached
  <2>8. UNCHANGED <<world, known>>
    BY <1>4 DEF MoveCursor, files
  <2> HIDE DEF r, m, pc
  <2>9. RunCovers(published, known, clock, r)
    BY <2>0, <2>1, <2>4, <2>5 DEF RunCovers, Searched, Making, Loading
  <2> QED
    BY <2>5, <2>6, <2>7, <2>8, <2>9, CoversOnly
<1> QED
  BY <1>1, <1>2, <1>3, <1>4

LEMMA RunStepCovers ==
  ASSUME WInv, Covers, NEW w \in Runs, RunStep(w) PROVE Covers'
<1>0. TypeOK /\ Reached(published, known, clock, run[w].mem)
        /\ run[w].mem \in [Currencies -> Days \cup {None}]
        /\ Reached(published, known, clock, cursor)
  BY CoversRead DEF WInv
<1>1. CASE AccountsWait(w)
  BY <1>0, <1>1, StageCovers DEF AccountsWait, files
<1>2. CASE TransactionsWait(w)
  <2>1. RunCovers(published, known, clock, IdleRun)
    BY IdleReached, RelaxedCovers DEF IdleRun
  <2>2. run' = [run EXCEPT ![w] = IdleRun] /\ UNCHANGED <<world, known, cursor>>
    BY <1>2 DEF TransactionsWait, files
  <2> QED
    BY <1>0, <2>1, <2>2, IdleTyped, CoversOnly
<1> QED
  BY <1>0, <1>1, <1>2, BeginCovers, SearchCovers, MkdirCovers, LoadCovers DEF RunStep

\* A statement is published on its value date, in the current month: it is in
\* nobody's past yet.
LEMMA OutsideCovers ==
  ASSUME TypeOK, Covers, Tomorrow \/ \E s \in Statements : Publish(s)
  PROVE  Covers'
<1>1. Later(published, known, clock, published', known', clock')
  <2>1. CASE Tomorrow
    BY <2>1, DaysAssumption DEF Later, TypeOK, Tomorrow, Days, files
  <2>2. ASSUME NEW s \in Statements, Publish(s)
        PROVE  Later(published, known, clock, published', known', clock')
    BY <2>2 DEF Later, TypeOK, Publish, Days, files
  <2> QED
    BY <2>1, <2>2
<1>2. run' = run /\ cursor' = cursor /\ known' = known
  BY DEF Tomorrow, Publish, files
<1>3. \A s \in published' : s.date <= clock'
  <2>1. \A s \in published' : s.date \in Days /\ (s.date <= clock \/ s.date = clock)
    BY <1>1, StatementsAssumption DEF Covers, Later
  <2> QED
    BY <1>1, <2>1 DEF Later, Days
<1>4. KnownCovers(published', known', clock')
  BY <1>1, <1>2, KnownCoversStays DEF Covers
<1>5. Reached(published', known', clock', cursor')
  BY <1>1, <1>2, ReachedStays DEF Covers, TypeOK
<1>6. \A w \in Runs : RunCovers(published', known', clock', run'[w])
  BY <1>1, <1>2, RunCoversStays DEF Covers, TypeOK
<1> QED
  BY <1>3, <1>4, <1>5, <1>6 DEF Covers

LEMMA CoversInit == Init => Covers
<1> SUFFICES ASSUME Init PROVE Covers
  OBVIOUS
<1>1. Reached(published, known, clock, cursor)
  BY DEF Init, Reached
<1>2. KnownCovers(published, known, clock) /\ \A s \in published : s.date <= clock
  BY DEF Init, KnownCovers
<1>3. RunCovers(published, known, clock, IdleRun)
  BY IdleReached, RelaxedCovers DEF IdleRun
<1>4. \A w \in Runs : run[w] = IdleRun
  BY DEF Init
<1> QED
  BY <1>1, <1>2, <1>3, <1>4 DEF Covers

LEMMA CoversStep == WInv /\ Covers /\ [Next]_vars => Covers'
<1> SUFFICES ASSUME WInv, Covers, [Next]_vars PROVE Covers'
  OBVIOUS
<1>0. TypeOK
  BY DEF WInv
<1>1. ASSUME NEW w \in Runs, RunStep(w) PROVE Covers'
  BY <1>1, RunStepCovers
<1>2. ASSUME NEW w \in Runs, NEW c \in Currencies, LaneStep(w, c) PROVE Covers'
  <2>1. UNCHANGED <<run, cursor, published, clock, known>>
    BY <1>2 DEF LaneStep, AccountsList, AccountsCreate, AccountsConfirm, TransactionsList,
       TransactionsSkip, TransactionsPost, TransactionsConfirm, TransactionsEnd, world, files
  <2> QED
    BY <2>1 DEF Covers
<1>3. CASE Tomorrow \/ \E s \in Statements : Publish(s)
  BY <1>0, <1>3, OutsideCovers
<1>4. CASE Crash
  <2>1. UNCHANGED <<cursor, published, clock, known>> /\ \A w \in Runs : run'[w] = IdleRun
    BY <1>4 DEF Crash, world, files
  <2>2. RunCovers(published, known, clock, IdleRun)
    BY IdleReached, RelaxedCovers DEF IdleRun
  <2>3. \A w \in Runs : RunCovers(published', known', clock', run'[w])
    BY <2>1, <2>2
  <2> QED
    BY <2>1, <2>3 DEF Covers
<1>5. CASE UNCHANGED vars
  BY <1>5 DEF vars, Covers
<1> QED
  BY <1>1, <1>2, <1>3, <1>4, <1>5 DEF Next

\* Whatever fails, restarts or overlaps, a statement of a month before that of
\* the stored cursor has its directory, so that it is never lost from the
\* search, which begins at that month (lines 329-377).
THEOREM Spec_CursorCoversPast == Spec => []CursorCoversPast
<1>1. WInv /\ Covers => CursorCoversPast
  <2> SUFFICES ASSUME WInv, Covers, NEW s \in published, cursor[s.currency] # None,
                      Month(s.date) < Month(cursor[s.currency])
               PROVE  s \in known
    BY DEF CursorCoversPast
  <2>1. s.currency \in Currencies
    BY StatementsAssumption DEF WInv, TypeOK
  <2> QED
    BY <2>1 DEF Covers, Reached, Past
<1> QED
  BY WInit, WStep, CoversInit, CoversStep, <1>1, PTL DEF Spec

-----------------------------------------------------------------------------
(* The cursors never go back *)

\* mem has every cursor that cur has, at the same day or a later one.
Above(mem, cur) ==
  \A c \in Currencies : cur[c] # None => mem[c] # None /\ mem[c] >= cur[c]

\* The goroutine has read the stored token after its predecessor wrote it, and has
\* since moved cursors forward only; storing them may have failed.
Ahead(r, cur) ==
  /\ r.pc # "idle" => Above(r.mem, cur)
  /\ r.pc = "initialize" => \A c \in r.left : r.mem[c] = None

Aheads == \A w \in Runs : Ahead(run[w], cursor)

Alone == \A v, w \in Runs : v = w

LEMMA AboveItself ==
  ASSUME NEW cur \in [Currencies -> Days \cup {None}] PROVE Above(cur, cur)
  BY DaysAssumption DEF Above, Days

LEMMA AheadPut ==
  ASSUME TypeOK, Alone, NEW w \in Runs, NEW r, run' = [run EXCEPT ![w] = r],
         Ahead(r, cursor')
  PROVE  Aheads'
<1> SUFFICES ASSUME NEW v \in Runs PROVE Ahead(run'[v], cursor')
  BY DEF Aheads
<1>1. v = w /\ run'[v] = r
  BY DEF Alone, TypeOK
<1> QED
  BY <1>1

\* Steps that neither write the token nor touch the cursors in memory.
LEMMA AheadOnly ==
  ASSUME TypeOK, Alone, Aheads, NEW w \in Runs, NEW r \in Run,
         run' = [run EXCEPT ![w] = r], UNCHANGED cursor,
         run[w].pc # "idle", r.mem = run[w].mem, r.pc # "initialize"
  PROVE  Aheads' /\ Above(cursor', cursor)
<1>1. Above(r.mem, cursor) /\ cursor' = cursor
  BY DEF Aheads, Ahead
<1>2. Ahead(r, cursor')
  BY <1>1 DEF Ahead
<1> QED
  BY <1>1, <1>2, AheadPut, AboveItself DEF TypeOK

LEMMA AheadStage ==
  ASSUME TypeOK, Alone, NEW w \in Runs, NEW stage \in {"accounts", "transactions"},
         NEW mem, EnterStage(w, stage, mem), Above(mem, cursor), UNCHANGED cursor
  PROVE  Aheads' /\ Above(cursor', cursor)
<1> DEFINE r == [run[w] EXCEPT !.pc = stage, !.mem = mem]
<1>1. run[w] \in Run /\ run' = [run EXCEPT ![w] = r]
  BY DEF EnterStage, TypeOK
<1>2. r.pc = stage /\ r.mem = mem
  BY <1>1 DEF Run
<1> HIDE DEF r
<1>3. Ahead(r, cursor')
  BY <1>2 DEF Ahead
<1> QED
  BY <1>1, <1>3, AheadPut, AboveItself DEF TypeOK

\* The cursors in memory are moved and stored, if storing them does not fail.
LEMMA AheadUpdate ==
  ASSUME TypeOK, Alone, NEW w \in Runs, NEW r, NEW mem \in [Currencies -> Days \cup {None}],
         run' = [run EXCEPT ![w] = r], UpdateToken(mem), r.mem = mem, Above(mem, cursor),
         r.pc = "initialize" => \A c \in r.left : r.mem[c] = None
  PROVE  Aheads' /\ Above(cursor', cursor)
<1>1. cursor' = mem \/ cursor' = cursor
  BY DEF UpdateToken
<1>2. Above(mem, cursor') /\ Above(cursor', cursor)
  BY <1>1, AboveItself DEF TypeOK
<1>3. Ahead(r, cursor')
  BY <1>2 DEF Ahead
<1> QED
  BY <1>2, <1>3, AheadPut

LEMMA RunStepAhead ==
  ASSUME WInv, Alone, Aheads, NEW w \in Runs, RunStep(w)
  PROVE  Aheads' /\ Above(cursor', cursor)
<1>0. /\ TypeOK /\ run[w] \in Run /\ run[w].mem \in [Currencies -> Days \cup {None}]
      /\ Ahead(run[w], cursor) /\ cursor \in [Currencies -> Days \cup {None}]
      /\ run[w].left \subseteq Currencies /\ run[w].time \in Days /\ 0 \in Days
      /\ Above(cursor, cursor)
  BY RunTyped, AboveItself DEF WInv, TypeOK, Aheads
<1>1. CASE Start(w)
  <2>1. CASE EnterStage(w, "accounts", cursor)
    BY <1>0, <1>1, <2>1, AheadStage DEF Start
  <2>2. CASE run' = [run EXCEPT ![w] = [IdleRun EXCEPT !.pc = "discover", !.mem = cursor]]
    <3> DEFINE r == [IdleRun EXCEPT !.pc = "discover", !.mem = cursor]
    <3>1. r.pc = "discover" /\ r.mem = cursor /\ run' = [run EXCEPT ![w] = r]
      BY <2>2 DEF IdleRun
    <3>2. cursor' = cursor
      BY <1>1 DEF Start
    <3> HIDE DEF r
    <3>3. Ahead(r, cursor')
      BY <1>0, <3>1, <3>2 DEF Ahead
    <3> QED
      BY <1>0, <3>1, <3>2, <3>3, AheadPut
  <2> QED
    BY <1>1, <2>1, <2>2 DEF Start
<1>2. CASE GetCurrencies(w)
  <2>0. cursor' = cursor /\ Above(run[w].mem, cursor)
    BY <1>0, <1>2 DEF GetCurrencies, Ahead
  <2>1. CASE EnterStage(w, "accounts", run[w].mem)
    BY <1>0, <2>0, <2>1, AheadStage
  <2>2. CASE run' = [run EXCEPT ![w].pc = "initialize",
               ![w].left = {c \in Currencies : run[w].mem[c] = None}]
    <3> DEFINE left == {c \in Currencies : run[w].mem[c] = None}
               r == [run[w] EXCEPT !.pc = "initialize", !.left = left]
    <3>1. r.left = left /\ r.mem = run[w].mem
      <4> HIDE DEF left
      <4> QED
        BY <1>0 DEF Run
    <3>2. run' = [run EXCEPT ![w] = r]
      BY <1>0, <2>2 DEF TypeOK
    <3> HIDE DEF r
    <3>3. Ahead(r, cursor')
      BY <2>0, <3>1 DEF Ahead
    <3> QED
      BY <1>0, <2>0, <3>2, <3>3, AheadPut
  <2> QED
    BY <1>2, <2>1, <2>2 DEF GetCurrencies
<1>3. CASE InitCurrency(w)
  <2>0. /\ run[w].pc = "initialize" /\ Above(run[w].mem, cursor)
        /\ \A c \in run[w].left : run[w].mem[c] = None
    BY <1>0, <1>3 DEF InitCurrency, Ahead
  <2>1. PICK c \in run[w].left :
          /\ run' = [run EXCEPT ![w].mem = [run[w].mem EXCEPT ![c] = 0],
                                ![w].left = run[w].left \ {c}]
          /\ UpdateToken([run[w].mem EXCEPT ![c] = 0])
    BY <1>3 DEF InitCurrency
  <2> DEFINE m == [run[w].mem EXCEPT ![c] = 0]
             left == run[w].left \ {c}
             r == [run[w] EXCEPT !.mem = m, !.left = left]
  <2>2. /\ m \in [Currencies -> Days \cup {None}] /\ UpdateToken(m)
        /\ run' = [run EXCEPT ![w] = r]
    BY <1>0, <2>1 DEF TypeOK
  <2>3. Above(m, cursor)
    BY <1>0, <2>0 DEF Above
  <2>4. \A d \in left : m[d] = None
    BY <1>0, <2>0
  <2>5. r.mem = m /\ r.left = left
    <3> HIDE DEF m, left
    <3> QED
      BY <1>0 DEF Run
  <2> HIDE DEF m, left, r
  <2> QED
    BY <1>0, <2>2, <2>3, <2>4, <2>5, AheadUpdate
<1>4. CASE AllInitialized(w)
  <2> DEFINE left == {c \in Currencies : run[w].mem[c] # None}
             r == [run[w] EXCEPT !.pc = "currency", !.left = left]
  <2>1. r \in Run /\ r.pc = "currency" /\ r.mem = run[w].mem
    <3>1. left \subseteq Currencies
      OBVIOUS
    <3> HIDE DEF left
    <3> QED
      BY <1>0, <3>1 DEF Run, RunPcs
  <2>2. run' = [run EXCEPT ![w] = r] /\ UNCHANGED cursor /\ run[w].pc # "idle"
    BY <1>0, <1>4 DEF AllInitialized, TypeOK
  <2> HIDE DEF r
  <2> QED
    BY <1>0, <2>1, <2>2, AheadOnly
<1>5. CASE EndCurrencies(w) \/ AccountsWait(w)
  <2>1. /\ run[w].pc # "idle" /\ cursor' = cursor
        /\ \E stage \in {"accounts", "transactions"} : EnterStage(w, stage, run[w].mem)
    BY <1>5 DEF EndCurrencies, AccountsWait
  <2> QED
    BY <1>0, <2>1, AheadStage DEF Ahead
<1>6. CASE MoveCursor(w)
  <2> DEFINE m == [run[w].mem EXCEPT ![run[w].at] = run[w].time]
             pc == IF run[w].ids = {} THEN "currency" ELSE "chunk"
  <2>0. Above(run[w].mem, cursor) /\ run[w].pc # "idle"
    BY <1>0, <1>6 DEF Ahead, MoveCursor
  <2>1. m \in [Currencies -> Days \cup {None}] /\ pc \in RunPcs \ {"initialize"}
    BY <1>0 DEF RunPcs
  <2>2. CASE run' = [run EXCEPT ![w].pc = pc] /\ UNCHANGED cursor
    <3> DEFINE r == [run[w] EXCEPT !.pc = pc]
    <3>1. r \in Run /\ r.pc = pc /\ r.mem = run[w].mem
      <4> HIDE DEF pc
      <4> QED
        BY <1>0, <2>1 DEF Run
    <3>2. run' = [run EXCEPT ![w] = r]
      BY <2>2 DEF TypeOK
    <3> HIDE DEF r, pc
    <3> QED
      BY <1>0, <2>0, <2>1, <2>2, <3>1, <3>2, AheadOnly
  <2>3. CASE /\ ~(run[w].time < run[w].mem[run[w].at])
             /\ run' = [run EXCEPT ![w].pc = pc, ![w].mem = m] /\ UpdateToken(m)
    <3> DEFINE r == [run[w] EXCEPT !.pc = pc, !.mem = m]
    <3>1. r.pc = pc /\ r.mem = m
      <4> HIDE DEF pc, m
      <4> QED
        BY <1>0 DEF Run
    <3>2. run' = [run EXCEPT ![w] = r]
      <4> HIDE DEF pc, m
      <4> QED
        BY <2>3 DEF TypeOK
    <3>3. Above(m, cursor)
      <4> SUFFICES ASSUME NEW c \in Currencies, cursor[c] # None
                   PROVE  m[c] # None /\ m[c] >= cursor[c]
        BY DEF Above
      <4>1. /\ run[w].mem[c] \in Days /\ cursor[c] \in Days
            /\ run[w].mem[c] >= cursor[c]
        BY <1>0, <2>0 DEF Above
      <4>2. CASE c = run[w].at
        <5>1. m[c] = run[w].time /\ run[w].time \in Days /\ run[w].time >= run[w].mem[c]
          BY <1>0, <2>3, <4>1, <4>2 DEF Days
        <5> QED
          BY <4>1, <5>1, NoneAssumption DEF Days
      <4>3. CASE c # run[w].at
        BY <1>0, <4>1, <4>3, NoneAssumption DEF Days
      <4> QED
        BY <4>2, <4>3
    <3> HIDE DEF r, pc, m
    <3> QED
      BY <1>0, <2>1, <2>3, <3>1, <3>2, <3>3, AheadUpdate
  <2> QED
    BY <1>6, <2>2, <2>3 DEF MoveCursor
<1>7. CASE TransactionsWait(w)
  <2>1. Ahead(IdleRun, cursor')
    BY DEF Ahead, IdleRun
  <2>2. run' = [run EXCEPT ![w] = IdleRun] /\ cursor' = cursor
    BY <1>7 DEF TransactionsWait
  <2> QED
    BY <1>0, <2>1, <2>2, AheadPut
<1>8. CASE BeginCurrency(w) \/ Search(w) \/ Mkdir(w) \/ ListPending(w)
             \/ Download(w) \/ WriteData(w)
  <2>1. UNCHANGED cursor /\ run[w].pc # "idle" /\ run[w].pc # "initialize"
    BY <1>8 DEF BeginCurrency, Search, Mkdir, ListPending, Download, WriteData
  <2>2. /\ run'[w].mem = run[w].mem /\ run'[w].pc # "initialize"
        /\ run' = [run EXCEPT ![w] = run'[w]]
    <3>1. CASE BeginCurrency(w)
      BY <1>0, <3>1 DEF BeginCurrency, TypeOK, Run
    <3>2. CASE Search(w)
      <4>1. Found(w).mem = run[w].mem /\ Found(w).pc = "mkdir"
        BY <1>0 DEF Found, Run
      <4>2. CASE run' = [run EXCEPT ![w] = Found(w)]
        <5>1. run'[w] = Found(w)
          BY <1>0, <4>2 DEF TypeOK
        <5> QED
          BY <4>1, <4>2, <5>1
      <4>3. CASE run' = [run EXCEPT ![w].pc = "currency"]
        BY <1>0, <4>3 DEF TypeOK, Run
      <4> QED
        BY <3>2, <4>2, <4>3 DEF Search
    <3>3. CASE Mkdir(w)
      <4>1. CASE \E s \in run[w].ids : run' = [run EXCEPT ![w].ids = run[w].ids \ {s}]
        BY <1>0, <2>1, <4>1 DEF TypeOK, Run
      <4>2. CASE run' = [run EXCEPT ![w].pc = "months"]
        BY <1>0, <4>2 DEF TypeOK, Run
      <4>3. CASE run' = [run EXCEPT ![w].pc = "currency", ![w].ids = {}]
        BY <1>0, <4>3 DEF TypeOK, Run
      <4> QED
        BY <3>3, <4>1, <4>2, <4>3 DEF Mkdir
    <3>4. CASE ListPending(w)
      <4>1. PICK ids : run' = [run EXCEPT ![w].pc = "chunk", ![w].ids = ids]
        BY <3>4 DEF ListPending
      <4> QED
        BY <1>0, <4>1 DEF TypeOK, Run
    <3>5. CASE Download(w)
      BY <1>0, <3>5 DEF Download, TypeOK, Run
    <3>6. CASE WriteData(w)
      <4>1. PICK got, time : run' = [run EXCEPT ![w].got = got, ![w].time = time]
        BY <3>6 DEF WriteData
      <4> QED
        BY <1>0, <2>1, <4>1 DEF TypeOK, Run
    <3> QED
      BY <1>8, <3>1, <3>2, <3>3, <3>4, <3>5, <3>6
  <2>3. Ahead(run'[w], cursor')
    BY <1>0, <2>1, <2>2 DEF Ahead
  <2> QED
    BY <1>0, <2>1, <2>2, <2>3, AheadPut
<1> QED
  BY <1>1, <1>2, <1>3, <1>4, <1>5, <1>6, <1>7, <1>8 DEF RunStep

LEMMA AheadStep == WInv /\ Alone /\ Aheads /\ [Next]_vars => Aheads' /\ Above(cursor', cursor)
<1> SUFFICES ASSUME WInv, Alone, Aheads, [Next]_vars PROVE Aheads' /\ Above(cursor', cursor)
  OBVIOUS
<1>0. Above(cursor, cursor)
  BY AboveItself DEF WInv, TypeOK
<1>1. ASSUME NEW w \in Runs, RunStep(w) PROVE Aheads' /\ Above(cursor', cursor)
  BY <1>1, RunStepAhead
<1>2. CASE cursor' = cursor /\ (run' = run \/ run' = [w \in Runs |-> IdleRun])
  <2>1. Ahead(IdleRun, cursor)
    BY DEF Ahead, IdleRun
  <2> QED
    BY <1>0, <1>2, <2>1 DEF Aheads
<1>3. ASSUME NEW w \in Runs, NEW c \in Currencies, LaneStep(w, c)
      PROVE  cursor' = cursor /\ run' = run
  BY <1>3 DEF LaneStep, AccountsList, AccountsCreate, AccountsConfirm, TransactionsList,
     TransactionsSkip, TransactionsPost, TransactionsConfirm, TransactionsEnd
<1>4. CASE Tomorrow \/ (\E s \in Statements : Publish(s)) \/ Crash \/ UNCHANGED vars
  <2>1. cursor' = cursor /\ (run' = run \/ run' = [w \in Runs |-> IdleRun])
    BY <1>4 DEF Tomorrow, Publish, Crash, vars
  <2> QED
    BY <1>2, <2>1
<1> QED
  BY <1>1, <1>2, <1>3, <1>4 DEF Next

\* A goroutine that has the token for itself never moves a stored cursor back,
\* also when storing it fails, or the service restarts in between (lines 369-376).
THEOREM Spec_CursorMonotone == ASSUME Alone PROVE Spec => CursorMonotone
<1>1. Init => Aheads
  BY DEF Init, Aheads, Ahead, IdleRun
<1>2. WInv /\ Aheads /\ [Next]_vars => Aheads'
  BY AheadStep
<1>3. WInv /\ Aheads /\ [Next]_vars =>
        [\A c \in Currencies :
           cursor[c] # None => cursor'[c] # None /\ cursor'[c] >= cursor[c]]_vars
  BY AheadStep DEF Above
<1> QED
  BY WInit, WStep, <1>1, <1>2, <1>3, PTL DEF Spec, CursorMonotone

-----------------------------------------------------------------------------
(* Accounts before transactions *)

\* Every statement of the currency with data has its accounts among V.
Ready(c, V) == \A s \in Of(c, known) \cap data : AccountsOf(s) \subseteq V

\* CreateTransactions does not look at ack_account: what it may rely on is that
\* CreateAccounts went through for every currency it posts statements of, and
\* that nothing was downloaded since.
LaneReady(r, l, c, V) ==
  /\ r.pc = "accounts" =>
       /\ l.pc = "create" => Ready(c, V \cup l.todo)
       /\ l.pc = "done" /\ r.mem[c] # None => Ready(c, V)
  /\ r.pc = "transactions" =>
       /\ r.mem[c] # None => Ready(c, V)
       /\ l.pc # "done" => r.mem[c] # None
       /\ l.pc \in {"post", "confirm"} => l.ids \subseteq Of(c, known)

LanesReady == \A w \in Runs, c \in Currencies : LaneReady(run[w], lane[w][c], c, vault)

Prepared == PostedHasAccounts /\ LanesReady

LEMMA ReadyGrows ==
  ASSUME NEW c, NEW V, NEW W, V \subseteq W, Ready(c, V) PROVE Ready(c, W)
  BY DEF Ready

LEMMA LaneReadyGrows ==
  ASSUME NEW r, NEW l, NEW c, NEW V, NEW W, V \subseteq W, LaneReady(r, l, c, V)
  PROVE  LaneReady(r, l, c, W)
<1>1. V \cup l.todo \subseteq W \cup l.todo
  OBVIOUS
<1> QED
  BY <1>1, ReadyGrows DEF LaneReady

\* A lane of the only goroutine goes on; files stay.
LEMMA LanesReadyPut ==
  ASSUME TypeOK, LanesReady, NEW w \in Runs, NEW c \in Currencies, NEW l \in Lane,
         lane' = [lane EXCEPT ![w][c] = l], run' = run, UNCHANGED <<known, data>>,
         vault \subseteq vault', LaneReady(run[w], l, c, vault')
  PROVE  LanesReady'
<1> SUFFICES ASSUME NEW v \in Runs, NEW d \in Currencies
             PROVE  LaneReady(run[v], lane[v][d], d, vault)'
  BY DEF LanesReady
<1>1. LaneReady(run[v], lane'[v][d], d, vault')
  <2>1. CASE v = w /\ d = c
    <3>1. lane'[v][d] = l
      BY <2>1, LanePut
    <3> QED
      BY <2>1, <3>1
  <2>2. CASE v # w \/ d # c
    <3>1. lane'[v][d] = lane[v][d]
      BY <2>2, LanePut
    <3>2. LaneReady(run[v], lane[v][d], d, vault)
      BY DEF LanesReady
    <3> QED
      BY <3>1, <3>2, LaneReadyGrows
  <2> QED
    BY <2>1, <2>2
<1> QED
  BY <1>1 DEF LaneReady, Ready

\* CreateAccounts: what is marked has its accounts, the rest is on the list.
LEMMA AccountsReady ==
  ASSUME ~Failures, TypeOK, Acked, Prepared, NEW w \in Runs, NEW c \in Currencies,
         AccountsList(w, c) \/ AccountsCreate(w, c) \/ AccountsConfirm(w, c)
  PROVE  Prepared'
<1>0. /\ run[w].pc = "accounts" /\ lane[w][c] \in Lane
      /\ LaneReady(run[w], lane[w][c], c, vault)
      /\ LaneAt("done") \in Lane /\ LaneAt("done").pc = "done"
  <2>1. run[w].pc = "accounts"
    BY DEF AccountsList, AccountsCreate, AccountsConfirm
  <2>2. lane[w][c] \in Lane
    BY DEF TypeOK
  <2>3. LaneReady(run[w], lane[w][c], c, vault)
    BY DEF Prepared, LanesReady
  <2>4. LaneAt("done") \in Lane /\ LaneAt("done").pc = "done"
    BY LaneAtTyped DEF LaneAt, LanePcs
  <2> QED
    BY <2>1, <2>2, <2>3, <2>4
<1>1. LaneStep(w, c)
  BY DEF LaneStep
<1>2. PICK l \in Lane : lane' = [lane EXCEPT ![w][c] = l]
  BY <1>1, LaneStepPut
<1>3. lane'[w][c] = l
  BY <1>2, LanePut
<1>4. run' = run /\ UNCHANGED <<known, data, ledger>> /\ vault \subseteq vault'
  BY DEF AccountsList, AccountsCreate, AccountsConfirm, files, services
<1>5. /\ l.pc = "create" => Ready(c, vault' \cup l.todo)
      /\ l.pc = "done" => Ready(c, vault')
  <2>1. CASE AccountsList(w, c)
    <3> DEFINE ids == (Of(c, known) \cap data) \ ackAccount
               todo == UNION {AccountsOf(s) : s \in ids}
    <3>1. lane' = [lane EXCEPT ![w][c] =
            IF ids = {} THEN LaneAt("done")
            ELSE [LaneAt("create") EXCEPT !.ids = ids, !.todo = todo]]
      BY <2>1 DEF AccountsList
    <3>2. l = IF ids = {} THEN LaneAt("done")
              ELSE [LaneAt("create") EXCEPT !.ids = ids, !.todo = todo]
      <4> HIDE DEF ids, todo
      <4> QED
        BY <1>3, <3>1, LaneRead
    <3>3. (l.pc = "create" => l.todo = todo) /\ (l.pc = "done" => ids = {})
      <4> HIDE DEF ids, todo
      <4> QED
        BY <1>0, <3>2 DEF LaneAt
    <3>4. Ready(c, vault \cup todo) /\ (ids = {} => Ready(c, vault))
      BY DEF Ready, Acked, AckedHasAccounts
    <3>5. vault' = vault
      BY <2>1 DEF AccountsList, services
    <3> HIDE DEF ids, todo
    <3> QED
      BY <3>3, <3>4, <3>5
  <2>2. CASE AccountsCreate(w, c)
    <3>1. PICK a \in lane[w][c].todo :
               /\ vault' = vault \cup {a}
               /\ lane' = [lane EXCEPT ![w][c] =
                    [lane[w][c] EXCEPT !.todo = lane[w][c].todo \ {a}]]
      BY <2>2 DEF AccountsCreate
    <3>2. l = [lane[w][c] EXCEPT !.todo = lane[w][c].todo \ {a}]
      BY <1>3, <3>1, LaneRead
    <3>3. l.pc = "create" /\ l.todo = lane[w][c].todo \ {a}
      BY <1>0, <2>2, <3>2 DEF Lane, AccountsCreate
    <3>4. vault' \cup l.todo = vault \cup lane[w][c].todo
      BY <3>1, <3>3
    <3>5. Ready(c, vault \cup lane[w][c].todo)
      BY <1>0, <2>2 DEF LaneReady, AccountsCreate
    <3> QED
      BY <3>3, <3>4, <3>5
  <2>3. CASE AccountsConfirm(w, c)
    <3>1. Ready(c, vault) /\ vault' = vault
      <4>1. vault \cup lane[w][c].todo = vault
        BY <2>3 DEF AccountsConfirm
      <4> QED
        BY <1>0, <2>3, <4>1 DEF LaneReady, AccountsConfirm, services
    <3> QED
      BY <3>1, ReadyGrows
  <2> QED
    BY <2>1, <2>2, <2>3
<1>6. LaneReady(run[w], l, c, vault')
  BY <1>0, <1>5 DEF LaneReady
<1>7. LanesReady'
  BY <1>2, <1>4, <1>6, LanesReadyPut DEF Prepared
<1> QED
  BY <1>4, <1>7 DEF Prepared, PostedHasAccounts

\* CreateTransactions posts statements with data of a currency that is ready.
LEMMA TransactionsReady ==
  ASSUME ~Failures, TypeOK, Prepared, NEW w \in Runs, NEW c \in Currencies,
         \/ TransactionsList(w, c) \/ TransactionsSkip(w, c) \/ TransactionsPost(w, c)
         \/ TransactionsConfirm(w, c) \/ TransactionsEnd(w, c)
  PROVE  Prepared'
<1>0. /\ run[w].pc = "transactions" /\ lane[w][c] \in Lane
      /\ LaneReady(run[w], lane[w][c], c, vault)
  BY DEF TransactionsList, TransactionsSkip, TransactionsPost, TransactionsConfirm,
     TransactionsEnd, TypeOK, Prepared, LanesReady
<1>1. LaneStep(w, c)
  BY DEF LaneStep
<1>2. PICK l \in Lane : lane' = [lane EXCEPT ![w][c] = l]
  BY <1>1, LaneStepPut
<1>3. lane'[w][c] = l
  BY <1>2, LanePut
<1>4. run' = run /\ UNCHANGED <<known, data, vault>>
  BY DEF TransactionsList, TransactionsSkip, TransactionsPost, TransactionsConfirm,
     TransactionsEnd, files, services
<1>5. lane[w][c].pc \in {"list", "post", "confirm"}
  BY DEF TransactionsList, TransactionsSkip, TransactionsPost, TransactionsConfirm,
     TransactionsEnd
<1>6. run[w].mem[c] # None /\ Ready(c, vault)
  BY <1>0, <1>5 DEF LaneReady
<1>7. l.pc \in {"post", "confirm"} => l.ids \subseteq Of(c, known)
  <2>1. CASE TransactionsList(w, c)
    <3> DEFINE ids == Of(c, known)
    <3>1. lane' = [lane EXCEPT ![w][c] = [LaneAt("post") EXCEPT !.ids = ids]]
      BY <2>1 DEF TransactionsList
    <3>2. l = [LaneAt("post") EXCEPT !.ids = ids]
      <4> HIDE DEF ids
      <4> QED
        BY <1>3, <3>1, LaneRead
    <3>3. l.ids = ids
      <4> HIDE DEF ids
      <4> QED
        BY <3>2 DEF LaneAt
    <3> QED
      BY <3>3
  <2>2. CASE TransactionsEnd(w, c)
    <3>1. l = LaneAt("done")
      BY <1>3, <2>2, LaneRead DEF TransactionsEnd
    <3> QED
      BY <3>1 DEF LaneAt
  <2>3. CASE ~TransactionsList(w, c) /\ ~TransactionsEnd(w, c)
    <3>1. lane[w][c].ids \subseteq Of(c, known)
      BY <1>0, <2>3 DEF LaneReady, TransactionsSkip, TransactionsPost, TransactionsConfirm
    <3>2. l.ids \subseteq lane[w][c].ids
      <4>1. CASE \E s : lane' = [lane EXCEPT ![w][c] = Posted(lane[w][c], s)]
        <5>1. PICK s : lane' = [lane EXCEPT ![w][c] = Posted(lane[w][c], s)]
          BY <4>1
        <5>2. l = Posted(lane[w][c], s)
          BY <1>3, <5>1, LaneRead
        <5> QED
          BY <1>0, <5>2 DEF Posted, Lane
      <4>2. CASE \E s : lane' = [lane EXCEPT ![w][c].ids = lane[w][c].ids \ {s}]
        BY <1>0, <1>3, <4>2 DEF TypeOK, Lane
      <4>3. CASE TransactionsConfirm(w, c)
        BY <1>0, <1>3, <4>3 DEF TypeOK, Lane, TransactionsConfirm
      <4> QED
        BY <2>3, <4>1, <4>2, <4>3 DEF TransactionsSkip, TransactionsPost
    <3> QED
      BY <3>1, <3>2
  <2> QED
    BY <2>1, <2>2, <2>3
<1>8. LaneReady(run[w], l, c, vault')
  BY <1>0, <1>4, <1>6, <1>7 DEF LaneReady
<1>9. LanesReady'
  BY <1>2, <1>4, <1>8, LanesReadyPut DEF Prepared
<1>10. PostedHasAccounts'
  <2>1. CASE TransactionsPost(w, c)
    <3>1. PICK s \in lane[w][c].ids : s \in data /\ ledger' \subseteq ledger \cup {s}
      BY <2>1 DEF TransactionsPost
    <3>2. s \in Of(c, known) \cap data
      BY <1>0, <2>1, <3>1 DEF LaneReady, TransactionsPost
    <3>3. AccountsOf(s) \subseteq vault
      BY <1>6, <3>2 DEF Ready
    <3> QED
      BY <1>4, <3>1, <3>3 DEF Prepared, PostedHasAccounts
  <2>2. CASE ~TransactionsPost(w, c)
    <3>1. ledger' = ledger
      BY <2>2 DEF TransactionsList, TransactionsSkip, TransactionsConfirm,
         TransactionsEnd, services
    <3> QED
      BY <1>4, <3>1 DEF Prepared, PostedHasAccounts
  <2> QED
    BY <2>1, <2>2
<1> QED
  BY <1>9, <1>10 DEF Prepared

LEMMA StageSet ==
  ASSUME TypeOK, NEW w \in Runs, NEW stage, NEW mem, EnterStage(w, stage, mem)
  PROVE  /\ run'[w].pc = stage /\ run'[w].mem = mem
         /\ \A c \in Currencies :
              lane'[w][c] = LaneAt(IF mem[c] = None THEN "done" ELSE "list")
<1>1. run[w] \in Run
  BY DEF TypeOK
<1> QED
  BY <1>1 DEF EnterStage, TypeOK, Run

\* The stages of the only goroutine follow each other.
LEMMA RunStepReady ==
  ASSUME Alone, TypeOK, Prepared, NEW w \in Runs, RunStep(w)
  PROVE  Prepared'
<1>1. UNCHANGED services
  BY DEF RunStep, Start, GetCurrencies, InitCurrency, AllInitialized, BeginCurrency,
     EndCurrencies, Search, Mkdir, ListPending, Download, WriteData, MoveCursor,
     AccountsWait, TransactionsWait
<1>2. PostedHasAccounts'
  BY <1>1 DEF Prepared, PostedHasAccounts, services
<1> SUFFICES LanesReady'
  BY <1>2 DEF Prepared
<1>3. ASSUME \A c \in Currencies : LaneReady(run[w], lane[w][c], c, vault)' PROVE LanesReady'
  <2> SUFFICES ASSUME NEW v \in Runs, NEW c \in Currencies
               PROVE  LaneReady(run[v], lane[v][c], c, vault)'
    BY DEF LanesReady
  <2>1. v = w
    BY DEF Alone
  <2> QED
    BY <1>3, <2>1
<1>4. ASSUME run'[w].pc \notin {"accounts", "transactions"} PROVE LanesReady'
  BY <1>3, <1>4 DEF LaneReady
<1>5. ASSUME NEW mem, EnterStage(w, "accounts", mem) PROVE LanesReady'
  <2>1. ASSUME NEW c \in Currencies PROVE LaneReady(run[w], lane[w][c], c, vault)'
    <3>1. /\ run'[w].pc = "accounts" /\ run'[w].mem = mem
          /\ lane'[w][c] = LaneAt(IF mem[c] = None THEN "done" ELSE "list")
      BY <1>5, StageSet
    <3>2. lane'[w][c].pc # "create" /\ (lane'[w][c].pc = "done" => mem[c] = None)
      BY <3>1 DEF LaneAt
    <3> QED
      BY <3>1, <3>2 DEF LaneReady
  <2> QED
    BY <1>3, <2>1
<1>6. CASE AccountsWait(w)
  <2>1. \A c \in Currencies : run[w].mem[c] # None => Ready(c, vault)
    BY <1>6 DEF AccountsWait, LanesDone, Prepared, LanesReady, LaneReady
  <2>2. UNCHANGED <<known, data, vault>>
    BY <1>6 DEF AccountsWait, files, services
  <2>3. \A c \in Currencies : LaneReady(run'[w], lane'[w][c], c, vault)
    <3> SUFFICES ASSUME NEW c \in Currencies
                 PROVE  LaneReady(run'[w], lane'[w][c], c, vault)
      OBVIOUS
    <3>1. /\ run'[w].pc = "transactions" /\ run'[w].mem = run[w].mem
          /\ lane'[w][c] = LaneAt(IF run[w].mem[c] = None THEN "done" ELSE "list")
      BY <1>6, StageSet DEF AccountsWait
    <3> QED
      BY <2>1, <3>1 DEF LaneReady, LaneAt
  <2>4. \A c \in Currencies : LaneReady(run[w], lane[w][c], c, vault)'
    BY <2>2, <2>3 DEF LaneReady, Ready
  <2> QED
    BY <1>3, <2>4
<1>7. CASE Start(w) \/ GetCurrencies(w) \/ EndCurrencies(w)
  <2>1. CASE \E mem : EnterStage(w, "accounts", mem)
    BY <1>5, <2>1
  <2>2. CASE run'[w].pc \in {"discover", "initialize"}
    BY <1>4, <2>2
  <2>3. CASE run' = [run EXCEPT ![w] = [IdleRun EXCEPT !.pc = "discover", !.mem = cursor]]
    <3>1. run'[w].pc = "discover"
      BY <2>3 DEF TypeOK, IdleRun
    <3> QED
      BY <2>2, <3>1
  <2>4. CASE \E left : run' = [run EXCEPT ![w].pc = "initialize", ![w].left = left]
    <3>1. run'[w].pc = "initialize"
      BY <2>4 DEF TypeOK, Run
    <3> QED
      BY <2>2, <3>1
  <2> QED
    BY <1>7, <2>1, <2>3, <2>4 DEF Start, GetCurrencies, EndCurrencies
<1>8. CASE InitCurrency(w) \/ AllInitialized(w) \/ BeginCurrency(w) \/ Search(w) \/ Mkdir(w)
             \/ ListPending(w) \/ Download(w) \/ WriteData(w) \/ MoveCursor(w)
             \/ TransactionsWait(w)
  <2>1. PICK pc \in RunPcs \ {"accounts", "transactions"} : run'[w].pc = pc
    <3>0. run[w] \in Run
      BY DEF TypeOK
    <3>1. CASE InitCurrency(w)
      <4>1. PICK mem, left : run' = [run EXCEPT ![w].mem = mem, ![w].left = left]
        BY <3>1 DEF InitCurrency
      <4> QED
        BY <3>0, <3>1, <4>1 DEF InitCurrency, TypeOK, Run, RunPcs
    <3>2. CASE AllInitialized(w)
      <4>1. PICK left : run' = [run EXCEPT ![w].pc = "currency", ![w].left = left]
        BY <3>2 DEF AllInitialized
      <4> QED
        BY <3>0, <4>1 DEF TypeOK, Run, RunPcs
    <3>3. CASE BeginCurrency(w)
      BY <3>0, <3>3 DEF BeginCurrency, TypeOK, Run, RunPcs
    <3>4. CASE Download(w)
      <4>1. PICK ids, got : run' = [run EXCEPT ![w] =
              [run[w] EXCEPT !.pc = "write", !.ids = ids, !.got = got, !.time = 0]]
        BY <3>4 DEF Download
      <4> QED
        BY <3>0, <4>1 DEF TypeOK, Run, RunPcs
    <3>5. CASE TransactionsWait(w)
      BY <3>0, <3>5 DEF TransactionsWait, TypeOK, RunPcs, IdleRun
    <3>6. CASE ListPending(w)
      <4>1. PICK ids : run' = [run EXCEPT ![w].pc = "chunk", ![w].ids = ids]
        BY <3>6 DEF ListPending
      <4> QED
        BY <3>0, <4>1 DEF TypeOK, Run, RunPcs
    <3>7. CASE Search(w)
      <4>1. Found(w).pc = "mkdir"
        BY <3>0 DEF Found, Run
      <4> HIDE DEF Found
      <4> QED
        BY <3>0, <3>7, <4>1 DEF Search, TypeOK, Run, RunPcs
    <3>8. CASE Mkdir(w)
      <4>1. CASE \E s \in run[w].ids : run' = [run EXCEPT ![w].ids = run[w].ids \ {s}]
        BY <3>0, <3>8, <4>1 DEF Mkdir, TypeOK, Run, RunPcs
      <4>2. CASE run' = [run EXCEPT ![w].pc = "months"]
        BY <3>0, <4>2 DEF TypeOK, Run, RunPcs
      <4>3. CASE run' = [run EXCEPT ![w].pc = "currency", ![w].ids = {}]
        BY <3>0, <4>3 DEF TypeOK, Run, RunPcs
      <4> QED
        BY <3>8, <4>1, <4>2, <4>3 DEF Mkdir
    <3>9. CASE WriteData(w)
      <4>1. PICK got, time : run' = [run EXCEPT ![w].got = got, ![w].time = time]
        BY <3>9 DEF WriteData
      <4> QED
        BY <3>0, <3>9, <4>1 DEF WriteData, TypeOK, Run, RunPcs
    <3>10. CASE MoveCursor(w)
      <4>1. \E pc \in {"currency", "chunk"} : \E mem :
              run' = [run EXCEPT ![w].pc = pc] \/ run' = [run EXCEPT ![w].pc = pc, ![w].mem = mem]
        BY <3>10 DEF MoveCursor
      <4> QED
        BY <3>0, <4>1 DEF TypeOK, Run, RunPcs
    <3> QED
      BY <1>8, <3>1, <3>2, <3>3, <3>4, <3>5, <3>6, <3>7, <3>8, <3>9, <3>10
  <2> QED
    BY <1>4, <2>1
<1> QED
  BY <1>6, <1>7, <1>8 DEF RunStep

LEMMA PreparedStep ==
  ASSUME ~Failures, Alone
  PROVE  WInv /\ Acked /\ Prepared /\ [Next]_vars => Prepared'
<1> SUFFICES ASSUME TypeOK, Acked, Prepared, [Next]_vars PROVE Prepared'
  BY DEF WInv
<1>1. ASSUME NEW w \in Runs, RunStep(w) PROVE Prepared'
  BY <1>1, RunStepReady
<1>2. ASSUME NEW w \in Runs, NEW c \in Currencies, LaneStep(w, c) PROVE Prepared'
  BY <1>2, AccountsReady, TransactionsReady DEF LaneStep
<1>3. CASE Tomorrow \/ (\E s \in Statements : Publish(s)) \/ UNCHANGED vars
  <2>1. UNCHANGED <<known, data, vault, ledger, run, lane>>
    BY <1>3 DEF Tomorrow, Publish, vars, files, services
  <2> QED
    BY <2>1 DEF Prepared, PostedHasAccounts, LanesReady, LaneReady, Ready
<1>4. CASE Crash
  <2>1. UNCHANGED <<vault, ledger>> /\ \A w \in Runs : run'[w].pc = "idle"
    BY <1>4 DEF Crash, services, IdleRun
  <2> QED
    BY <2>1 DEF Prepared, PostedHasAccounts, LanesReady, LaneReady
<1> QED
  BY <1>1, <1>2, <1>3, <1>4 DEF Next

\* If calls do not fail and one goroutine at a time works on the token, no
\* transaction is posted whose accounts do not exist, wherever the service
\* restarts (lines 126-128 of actor/token.go, line 167).
THEOREM Spec_PostedHasAccounts ==
  ASSUME ~Failures, Alone PROVE Spec => []PostedHasAccounts
<1>1. Init => Prepared
  BY DEF Init, Prepared, PostedHasAccounts, LanesReady, LaneReady, IdleRun
<1>2. WInv /\ Acked /\ Prepared /\ [Next]_vars => Prepared'
  BY PreparedStep
<1>3. Prepared => PostedHasAccounts
  BY DEF Prepared
<1> QED
  BY WInit, WStep, AckedInit, AckedStep, <1>1, <1>2, <1>3, PTL DEF Spec

-----------------------------------------------------------------------------
(* Nothing but what the gateway published *)

\* Nothing is imported that the gateway has not published, nor skipped because of
\* when it was looked for: a transaction and a mark have their statement in a file,
\* a file has its directory, and a cursor is the value date of a statement with a
\* directory, never the time of the search, although cursors that goroutines hold
\* in memory are stored together (lines 95-117, 174-215 and 239-377).
OnlyPublished ==
  /\ ledger \cup ackAccount \subseteq data
  /\ data \subseteq known /\ known \subseteq published
  /\ \A c \in Currencies : cursor[c] \in {None, 0} \cup {s.date : s \in Of(c, known)}

\* A cursor of currency c is the first day, or that of a statement among K.
Dated(c, d, K) == d \in {None, 0} \/ \E s \in Of(c, K) : s.date = d

\* What a goroutine is about to store comes from the gateway, and what it is about
\* to download has its directory, where K is known and P is published. It may hold
\* cursors that it read before another goroutine stored later ones.
RunSeen(r, K, P) ==
  /\ \A c \in Currencies : Dated(c, r.mem[c], K)
  /\ r.pc = "mkdir" => r.ids \subseteq Of(r.at, P)
  /\ r.pc \in {"chunk", "write"} => r.ids \subseteq Of(r.at, K)
  /\ r.pc = "write" => r.got \subseteq Of(r.at, K) /\ Dated(r.at, r.time, K)

\* What a lane is about to mark has its data, D.
LaneSeen(l, D) == l.pc = "create" => l.ids \subseteq D

RunsSeen == \A w \in Runs : RunSeen(run[w], known, published)
LanesSeen == \A w \in Runs, c \in Currencies : LaneSeen(lane[w][c], data)

Seen == OnlyPublished /\ RunsSeen /\ LanesSeen

LEMMA OfGrows ==
  ASSUME NEW c, NEW K, NEW L, K \subseteq L
  PROVE  Of(c, K) \subseteq Of(c, L) /\ \A d : Dated(c, d, K) => Dated(c, d, L)
  BY DEF Of, Dated

LEMMA RunSeenGrows ==
  ASSUME NEW r, NEW K, NEW L, NEW P, NEW Q, K \subseteq L, P \subseteq Q, RunSeen(r, K, P)
  PROVE  RunSeen(r, L, Q)
<1>1. /\ Of(r.at, K) \subseteq Of(r.at, L) /\ Of(r.at, P) \subseteq Of(r.at, Q)
      /\ \A c, d : Dated(c, d, K) => Dated(c, d, L)
  BY OfGrows
<1> QED
  BY <1>1 DEF RunSeen

\* Cursors in memory and in the storage say the same.
LEMMA CursorsDated ==
  (\A c \in Currencies : Dated(c, cursor[c], known))
    <=> \A c \in Currencies : cursor[c] \in {None, 0} \cup {s.date : s \in Of(c, known)}
  BY DEF Dated

\* Steps of a goroutine: it goes on with what has been seen, and so do the lanes.
LEMMA SeenPut ==
  ASSUME TypeOK, Seen, NEW w \in Runs, \A v \in Runs \ {w} : run'[v] = run[v],
         RunSeen(run'[w], known', published),
         known \subseteq known', known' \subseteq published,
         data \subseteq data', data' \subseteq known',
         UNCHANGED <<published, ackAccount, services>>,
         \A c \in Currencies : Dated(c, cursor'[c], known'),
         \A v \in Runs, c \in Currencies :
           lane'[v][c] = lane[v][c] \/ lane'[v][c].pc \in {"done", "list"}
  PROVE  Seen'
<1>1. RunsSeen'
  <2>1. ASSUME NEW v \in Runs PROVE RunSeen(run'[v], known', published')
    <3>1. CASE v = w
      BY <3>1
    <3>2. CASE v # w
      BY <3>2, RunSeenGrows DEF Seen, RunsSeen
    <3> QED
      BY <3>1, <3>2
  <2> QED
    BY <2>1 DEF RunsSeen, RunSeen, Dated, Of
<1>2. LanesSeen'
  BY DEF Seen, LanesSeen, LaneSeen
<1>3. \A c \in Currencies : cursor'[c] \in {None, 0} \cup {s.date : s \in Of(c, known')}
  BY DEF Dated
<1>4. OnlyPublished'
  BY <1>3 DEF Seen, OnlyPublished, Of, services
<1> QED
  BY <1>1, <1>2, <1>4 DEF Seen

\* A goroutine that stores nothing, or only the cursors it has in memory.
LEMMA SeenOnly ==
  ASSUME TypeOK, Seen, NEW w \in Runs, \A v \in Runs \ {w} : run'[v] = run[v],
         RunSeen(run'[w], known, published),
         UNCHANGED <<world, files, services>>,
         cursor' = cursor \/ cursor' = run'[w].mem,
         \A v \in Runs, c \in Currencies :
           lane'[v][c] = lane[v][c] \/ lane'[v][c].pc \in {"done", "list"}
  PROVE  Seen'
<1>1. \A c \in Currencies : Dated(c, cursor[c], known)
  BY CursorsDated DEF Seen, OnlyPublished
<1>2. \A c \in Currencies : Dated(c, run'[w].mem[c], known)
  BY DEF RunSeen
<1>3. known' = known /\ data' = data /\ UNCHANGED <<published, ackAccount>>
  BY DEF world, files
<1> QED
  BY <1>1, <1>2, <1>3, SeenPut DEF Seen, OnlyPublished

\* Entering a stage, with cursors that have been seen.
LEMMA StageSeen ==
  ASSUME TypeOK, Seen, NEW w \in Runs, NEW stage \in {"accounts", "transactions"},
         NEW mem \in [Currencies -> Days \cup {None}], EnterStage(w, stage, mem),
         \A c \in Currencies : Dated(c, mem[c], known),
         UNCHANGED <<world, files, services, cursor>>
  PROVE  Seen'
<1>1. /\ run'[w].pc = stage /\ run'[w].mem = mem
      /\ \A v \in Runs \ {w} : run'[v] = run[v]
  <2>1. run'[w].pc = stage /\ run'[w].mem = mem
    BY StageSet
  <2>2. \A v \in Runs \ {w} : run'[v] = run[v]
    BY DEF EnterStage, TypeOK
  <2> QED
    BY <2>1, <2>2
<1>2. RunSeen(run'[w], known, published)
  BY <1>1 DEF RunSeen
<1>3. \A v \in Runs, c \in Currencies :
        lane'[v][c] = lane[v][c] \/ lane'[v][c].pc \in {"done", "list"}
  <2>1. stage \in RunPcs
    BY DEF RunPcs
  <2> QED
    BY <2>1, StageTyped
<1> QED
  BY <1>1, <1>2, <1>3, SeenOnly

LEMMA RunStepSeen ==
  ASSUME TypeOK, Seen, NEW w \in Runs, RunStep(w)
  PROVE  Seen'
<1>0. /\ run \in [Runs -> Run] /\ run[w] \in Run
      /\ run[w].mem \in [Currencies -> Days \cup {None}]
      /\ cursor \in [Currencies -> Days \cup {None}]
      /\ RunSeen(run[w], known, published)
      /\ \A c \in Currencies : Dated(c, cursor[c], known)
      /\ \A c \in Currencies : Dated(c, run[w].mem[c], known)
  BY RunTyped, CursorsDated DEF TypeOK, Seen, RunsSeen, OnlyPublished, RunSeen
<1>1. ASSUME \A v \in Runs \ {w} : run'[v] = run[v], RunSeen(run'[w], known, published),
             UNCHANGED <<world, files, services, lane>>,
             cursor' = cursor \/ cursor' = run'[w].mem
      PROVE  Seen'
  BY <1>1, SeenOnly
<1>2. ASSUME NEW pc, pc \in {"discover", "initialize", "currency", "months", "idle"},
             \A v \in Runs \ {w} : run'[v] = run[v], run'[w].pc = pc,
             \A c \in Currencies : Dated(c, run'[w].mem[c], known)
      PROVE  RunSeen(run'[w], known, published)
  BY <1>2 DEF RunSeen
<1>3. CASE Start(w)
  <2>1. CASE EnterStage(w, "accounts", cursor)
    BY <1>0, <1>3, <2>1, StageSeen DEF Start
  <2>2. CASE /\ run' = [run EXCEPT ![w] = [IdleRun EXCEPT !.pc = "discover", !.mem = cursor]]
             /\ UNCHANGED lane
    <3>1. /\ \A v \in Runs \ {w} : run'[v] = run[v]
          /\ run'[w].pc = "discover" /\ run'[w].mem = cursor
      BY <1>0, <2>2 DEF IdleRun
    <3> QED
      BY <1>0, <1>1, <1>2, <1>3, <2>2, <3>1 DEF Start
  <2> QED
    BY <1>3, <2>1, <2>2 DEF Start
<1>4. CASE GetCurrencies(w)
  <2>1. CASE EnterStage(w, "accounts", run[w].mem)
    BY <1>0, <1>4, <2>1, StageSeen DEF GetCurrencies
  <2>2. CASE /\ run' = [run EXCEPT ![w].pc = "initialize",
                          ![w].left = {c \in Currencies : run[w].mem[c] = None}]
             /\ UNCHANGED lane
    <3>1. /\ \A v \in Runs \ {w} : run'[v] = run[v]
          /\ run'[w].pc = "initialize" /\ run'[w].mem = run[w].mem
      BY <1>0, <2>2 DEF Run
    <3> QED
      BY <1>0, <1>1, <1>2, <1>4, <2>2, <3>1 DEF GetCurrencies
  <2> QED
    BY <1>4, <2>1, <2>2 DEF GetCurrencies
<1>5. CASE InitCurrency(w)
  <2>1. PICK c \in run[w].left :
          /\ run' = [run EXCEPT ![w].mem = [run[w].mem EXCEPT ![c] = 0],
                                ![w].left = run[w].left \ {c}]
          /\ UpdateToken([run[w].mem EXCEPT ![c] = 0])
    BY <1>5 DEF InitCurrency
  <2>2. PICK mem : mem = [run[w].mem EXCEPT ![c] = 0]
    OBVIOUS
  <2>3. \A k \in Currencies : Dated(k, mem[k], known)
    BY <1>0, <2>2 DEF Dated
  <2>4. /\ \A v \in Runs \ {w} : run'[v] = run[v]
        /\ run'[w].pc = run[w].pc /\ run'[w].mem = mem
    BY <1>0, <2>1, <2>2 DEF Run
  <2>5. cursor' = cursor \/ cursor' = mem
    BY <2>1, <2>2 DEF UpdateToken
  <2> QED
    BY <1>1, <1>2, <1>5, <2>3, <2>4, <2>5 DEF InitCurrency
<1>6. CASE AllInitialized(w) \/ BeginCurrency(w)
  <2>1. /\ \A v \in Runs \ {w} : run'[v] = run[v]
        /\ run'[w].pc \in {"currency", "months"} /\ run'[w].mem = run[w].mem
    <3>1. CASE AllInitialized(w)
      BY <1>0, <3>1 DEF AllInitialized, Run
    <3>2. CASE BeginCurrency(w)
      <4>1. PICK c, month, last : run' = [run EXCEPT ![w] =
               [run[w] EXCEPT !.pc = "months", !.at = c, !.left = run[w].left \ {c},
                         !.month = month, !.last = last]]
        BY <3>2 DEF BeginCurrency
      <4> QED
        BY <1>0, <4>1 DEF Run
    <3> QED
      BY <1>6, <3>1, <3>2
  <2> QED
    BY <1>0, <1>1, <1>2, <1>6, <2>1 DEF AllInitialized, BeginCurrency
<1>7. CASE EndCurrencies(w)
  BY <1>0, <1>7, StageSeen DEF EndCurrencies
<1>8. CASE Search(w)
  <2>1. CASE run' = [run EXCEPT ![w] = Found(w)]
    <3>1. /\ \A v \in Runs \ {w} : run'[v] = run[v]
          /\ run'[w].pc = "mkdir" /\ run'[w].mem = run[w].mem /\ run'[w].at = run[w].at
          /\ run'[w].ids = {s \in Of(run[w].at, published) : Month(s.date) = run[w].month}
      BY <1>0, <2>1 DEF Found, Run
    <3>2. RunSeen(run'[w], known, published)
      BY <1>0, <3>1 DEF RunSeen
    <3> QED
      BY <1>1, <1>8, <3>1, <3>2 DEF Search
  <2>2. CASE run' = [run EXCEPT ![w].pc = "currency"]
    <3>1. /\ \A v \in Runs \ {w} : run'[v] = run[v]
          /\ run'[w].pc = "currency" /\ run'[w].mem = run[w].mem
      BY <1>0, <2>2 DEF Run
    <3> QED
      BY <1>0, <1>1, <1>2, <1>8, <3>1 DEF Search
  <2> QED
    BY <1>8, <2>1, <2>2 DEF Search
<1>9. CASE Mkdir(w)
  <2>1. /\ run[w].pc = "mkdir" /\ run[w].ids \subseteq Of(run[w].at, published)
        /\ UNCHANGED <<world, data, ackAccount, cursor, services, lane>>
    BY <1>0, <1>9 DEF Mkdir, RunSeen
  <2>2. /\ \A v \in Runs \ {w} : run'[v] = run[v]
        /\ run'[w].mem = run[w].mem /\ run'[w].at = run[w].at
        /\ run'[w].ids \subseteq run[w].ids
        /\ run'[w].pc \in {"mkdir", "months", "currency"}
    <3>1. CASE \E s \in run[w].ids : run' = [run EXCEPT ![w].ids = run[w].ids \ {s}]
      BY <1>0, <2>1, <3>1 DEF Run
    <3>2. CASE run' = [run EXCEPT ![w].pc = "months"]
      BY <1>0, <3>2 DEF Run
    <3>3. CASE run' = [run EXCEPT ![w].pc = "currency", ![w].ids = {}]
      BY <1>0, <3>3 DEF Run
    <3> QED
      BY <1>9, <3>1, <3>2, <3>3 DEF Mkdir
  <2>3. known \subseteq known' /\ known' \subseteq known \cup run[w].ids
    BY <1>9 DEF Mkdir
  <2>4. known' \subseteq published /\ data \subseteq known'
    BY <2>1, <2>3 DEF Of, Seen, OnlyPublished
  <2>5. \A c \in Currencies : /\ Dated(c, run'[w].mem[c], known')
                              /\ Dated(c, cursor'[c], known')
    BY <1>0, <2>1, <2>2, <2>3, OfGrows
  <2>6. RunSeen(run'[w], known', published)
    BY <2>1, <2>2, <2>5 DEF RunSeen
  <2> QED
    BY <2>1, <2>2, <2>3, <2>4, <2>5, <2>6, SeenPut DEF world
<1>10. CASE ListPending(w)
  <2>1. PICK ids : /\ run' = [run EXCEPT ![w].pc = "chunk", ![w].ids = ids]
                   /\ ids \subseteq Of(run[w].at, known)
    BY <1>10 DEF ListPending
  <2>2. /\ \A v \in Runs \ {w} : run'[v] = run[v]
        /\ run'[w].pc = "chunk" /\ run'[w].mem = run[w].mem /\ run'[w].at = run[w].at
        /\ run'[w].ids = ids
    BY <1>0, <2>1 DEF Run
  <2>3. RunSeen(run'[w], known, published)
    BY <1>0, <2>1, <2>2 DEF RunSeen
  <2> QED
    BY <1>1, <1>10, <2>2, <2>3 DEF ListPending
<1>11. CASE Download(w)
  <2>1. PICK chunk \in SUBSET run[w].ids : \E got \in GetStatements(chunk) :
            run' = [run EXCEPT ![w] =
              [run[w] EXCEPT !.pc = "write", !.ids = run[w].ids \ chunk, !.got = got, !.time = 0]]
    BY <1>11 DEF Download
  <2>2. PICK got : /\ got \subseteq run[w].ids
                   /\ run' = [run EXCEPT ![w] =
                        [run[w] EXCEPT !.pc = "write", !.ids = run[w].ids \ chunk, !.got = got, !.time = 0]]
    BY <2>1 DEF GetStatements
  <2>3. run[w].ids \subseteq Of(run[w].at, known)
    BY <1>0, <1>11 DEF Download, RunSeen
  <2>4. /\ \A v \in Runs \ {w} : run'[v] = run[v]
        /\ run'[w].pc = "write" /\ run'[w].mem = run[w].mem /\ run'[w].at = run[w].at
        /\ run'[w].ids = run[w].ids \ chunk /\ run'[w].got = got /\ run'[w].time = 0
    BY <1>0, <2>2 DEF Run
  <2>5. RunSeen(run'[w], known, published)
    BY <1>0, <2>2, <2>3, <2>4 DEF RunSeen, Dated
  <2> QED
    BY <1>1, <1>11, <2>4, <2>5 DEF Download
<1>12. CASE WriteData(w)
  <2>1. /\ run[w].pc = "write" /\ run[w].got \subseteq Of(run[w].at, known)
        /\ run[w].ids \subseteq Of(run[w].at, known) /\ Dated(run[w].at, run[w].time, known)
        /\ UNCHANGED <<world, known, ackAccount, cursor, services, lane>>
    BY <1>0, <1>12 DEF WriteData, RunSeen
  <2>2. PICK s \in run[w].got :
          /\ run' = [run EXCEPT ![w].got = run[w].got \ {s},
                       ![w].time = IF s.date > run[w].time THEN s.date ELSE run[w].time]
          /\ data' = data \cup {s} \/ data' = data
    BY <1>12 DEF WriteData
  <2>3. /\ \A v \in Runs \ {w} : run'[v] = run[v]
        /\ run'[w].pc = "write" /\ run'[w].mem = run[w].mem /\ run'[w].at = run[w].at
        /\ run'[w].ids = run[w].ids /\ run'[w].got = run[w].got \ {s}
        /\ run'[w].time \in {s.date, run[w].time}
    BY <1>0, <2>1, <2>2 DEF Run
  <2>4. s \in Of(run[w].at, known)
    BY <2>1, <2>2
  <2>5. Dated(run[w].at, run'[w].time, known)
    BY <2>1, <2>3, <2>4 DEF Dated
  <2>6. RunSeen(run'[w], known', published)
    BY <1>0, <2>1, <2>3, <2>5 DEF RunSeen
  <2>7. data \subseteq data' /\ data' \subseteq known' /\ known' \subseteq published
    BY <2>1, <2>2, <2>4 DEF Of, Seen, OnlyPublished
  <2> QED
    BY <1>0, <2>1, <2>3, <2>6, <2>7, SeenPut DEF world
<1>13. CASE MoveCursor(w)
  <2>1. PICK mem : mem = [run[w].mem EXCEPT ![run[w].at] = run[w].time]
    OBVIOUS
  <2>2. PICK pc : pc = IF run[w].ids = {} THEN "currency" ELSE "chunk"
    OBVIOUS
  <2>3. /\ run[w].pc = "write" /\ run[w].ids \subseteq Of(run[w].at, known)
        /\ Dated(run[w].at, run[w].time, known)
    BY <1>0, <1>13 DEF MoveCursor, RunSeen
  <2>4. \A c \in Currencies : Dated(c, mem[c], known)
    <3>1. ASSUME NEW c \in Currencies
          PROVE  mem[c] = IF c = run[w].at THEN run[w].time ELSE run[w].mem[c]
      BY <1>0, <2>1
    <3> QED
      BY <1>0, <2>3, <3>1
  <2>5. \/ run' = [run EXCEPT ![w].pc = pc] /\ cursor' = cursor
        \/ run' = [run EXCEPT ![w].pc = pc, ![w].mem = mem] /\ UpdateToken(mem)
    BY <1>13, <2>1, <2>2 DEF MoveCursor
  <2>6. /\ \A v \in Runs \ {w} : run'[v] = run[v]
        /\ run'[w].pc = pc /\ run'[w].mem \in {run[w].mem, mem}
        /\ run'[w].at = run[w].at /\ run'[w].ids = run[w].ids
        /\ cursor' = cursor \/ cursor' = run'[w].mem
    <3>1. CASE run' = [run EXCEPT ![w].pc = pc] /\ cursor' = cursor
      BY <1>0, <3>1 DEF Run
    <3>2. CASE run' = [run EXCEPT ![w].pc = pc, ![w].mem = mem] /\ UpdateToken(mem)
      BY <1>0, <3>2 DEF Run, UpdateToken
    <3> QED
      BY <2>5, <3>1, <3>2
  <2>7. RunSeen(run'[w], known, published)
    BY <1>0, <2>2, <2>3, <2>4, <2>6 DEF RunSeen
  <2> QED
    BY <1>1, <1>13, <2>6, <2>7 DEF MoveCursor
<1>14. CASE AccountsWait(w)
  BY <1>0, <1>14, StageSeen DEF AccountsWait
<1>15. CASE TransactionsWait(w)
  <2>1. /\ \A v \in Runs \ {w} : run'[v] = run[v]
        /\ run'[w] = IdleRun /\ run'[w].pc = "idle"
        /\ \A c \in Currencies : run'[w].mem[c] = None
    BY <1>0, <1>15 DEF TransactionsWait, IdleRun
  <2>2. \A c \in Currencies : Dated(c, run'[w].mem[c], known)
    BY <2>1 DEF Dated
  <2> QED
    BY <1>1, <1>2, <1>15, <2>1, <2>2 DEF TransactionsWait
<1> QED
  BY <1>3, <1>4, <1>5, <1>6, <1>7, <1>8, <1>9, <1>10, <1>11, <1>12, <1>13, <1>14, <1>15
  DEF RunStep

\* A goroutine of a stage goes on; it marks or posts what has its data.
LEMMA LaneSeenPut ==
  ASSUME TypeOK, Seen, NEW w \in Runs, NEW c \in Currencies, NEW l \in Lane,
         lane' = [lane EXCEPT ![w][c] = l], LaneSeen(l, data),
         UNCHANGED <<world, known, data, cursor, run>>,
         ledger' \cup ackAccount' \subseteq data
  PROVE  Seen'
<1>1. RunsSeen'
  BY DEF Seen, RunsSeen, RunSeen, Dated, Of, world
<1>2. LanesSeen'
  <2> SUFFICES ASSUME NEW v \in Runs, NEW d \in Currencies PROVE LaneSeen(lane'[v][d], data)
    BY DEF LanesSeen, LaneSeen
  <2>1. CASE v = w /\ d = c
    BY <2>1, LanePut
  <2>2. CASE v # w \/ d # c
    BY <2>2, LanePut DEF Seen, LanesSeen
  <2> QED
    BY <2>1, <2>2
<1>3. OnlyPublished'
  BY DEF Seen, OnlyPublished, Of, world
<1> QED
  BY <1>1, <1>2, <1>3 DEF Seen

LEMMA AccountsSeen ==
  ASSUME TypeOK, Seen, NEW w \in Runs, NEW c \in Currencies,
         AccountsList(w, c) \/ AccountsCreate(w, c) \/ AccountsConfirm(w, c)
  PROVE  Seen'
<1>0. /\ lane[w][c] \in Lane /\ LaneSeen(lane[w][c], data)
      /\ ledger \cup ackAccount \subseteq data
      /\ LaneAt("done").pc = "done" /\ LaneSeen(LaneAt("done"), data)
  BY DEF TypeOK, Seen, LanesSeen, LaneSeen, OnlyPublished, LaneAt
<1>1. LaneStep(w, c)
  BY DEF LaneStep
<1>2. PICK l \in Lane : lane' = [lane EXCEPT ![w][c] = l]
  BY <1>1, LaneStepPut
<1>3. lane'[w][c] = l
  BY <1>2, LanePut
<1>4. UNCHANGED <<world, known, data, cursor, run>> /\ ledger' = ledger
  BY DEF AccountsList, AccountsCreate, AccountsConfirm, files, services
<1>5. LaneSeen(l, data)
  <2>1. CASE AccountsList(w, c)
    <3>1. PICK ids \in SUBSET ((Of(c, known) \cap data) \ ackAccount) :
            lane' = [lane EXCEPT ![w][c] =
              IF ids = {} THEN LaneAt("done")
              ELSE [LaneAt("create") EXCEPT !.ids = ids,
                      !.todo = UNION {AccountsOf(s) : s \in ids}]]
      BY <2>1 DEF AccountsList
    <3>2. l = IF ids = {} THEN LaneAt("done")
              ELSE [LaneAt("create") EXCEPT !.ids = ids,
                      !.todo = UNION {AccountsOf(s) : s \in ids}]
      BY <1>3, <3>1, LaneRead
    <3>3. l.pc = "create" => l.ids = ids
      BY <1>0, <3>2 DEF LaneAt
    <3> QED
      BY <3>3 DEF LaneSeen
  <2>2. CASE AccountsCreate(w, c)
    <3>1. CASE \E a \in lane[w][c].todo :
                 lane' = [lane EXCEPT ![w][c].todo = lane[w][c].todo \ {a}]
      <4>1. lane'[w][c].pc = lane[w][c].pc /\ lane'[w][c].ids = lane[w][c].ids
        BY <1>0, <3>1 DEF TypeOK, Lane
      <4> QED
        BY <1>0, <1>3, <4>1 DEF LaneSeen
    <3>2. CASE lane' = [lane EXCEPT ![w][c] = LaneAt("done")]
      BY <1>0, <1>3, <3>2, LaneRead
    <3> QED
      BY <2>2, <3>1, <3>2 DEF AccountsCreate
  <2>3. CASE AccountsConfirm(w, c)
    <3>1. CASE \E s \in lane[w][c].ids :
                 lane' = [lane EXCEPT ![w][c].ids = lane[w][c].ids \ {s}]
      <4>1. lane'[w][c].pc = lane[w][c].pc /\ lane'[w][c].ids \subseteq lane[w][c].ids
        BY <1>0, <3>1 DEF TypeOK, Lane
      <4> QED
        BY <1>0, <1>3, <4>1 DEF LaneSeen
    <3>2. CASE lane' = [lane EXCEPT ![w][c] = LaneAt("done")]
      BY <1>0, <1>3, <3>2, LaneRead
    <3> QED
      BY <2>3, <3>1, <3>2 DEF AccountsConfirm
  <2> QED
    BY <2>1, <2>2, <2>3
<1>6. ackAccount' \subseteq data
  <2>1. CASE AccountsConfirm(w, c)
    <3>1. lane[w][c].ids \subseteq data /\ ackAccount' \subseteq ackAccount \cup lane[w][c].ids
      BY <1>0, <2>1 DEF AccountsConfirm, LaneSeen
    <3> QED
      BY <1>0, <3>1
  <2>2. CASE AccountsList(w, c) \/ AccountsCreate(w, c)
    BY <1>0, <2>2 DEF AccountsList, AccountsCreate, files
  <2> QED
    BY <2>1, <2>2
<1> QED
  BY <1>0, <1>2, <1>4, <1>5, <1>6, LaneSeenPut

LEMMA TransactionsSeen ==
  ASSUME TypeOK, Seen, NEW w \in Runs, NEW c \in Currencies,
         \/ TransactionsList(w, c) \/ TransactionsSkip(w, c) \/ TransactionsPost(w, c)
         \/ TransactionsConfirm(w, c) \/ TransactionsEnd(w, c)
  PROVE  Seen'
<1>0. /\ lane[w][c] \in Lane /\ ledger \cup ackAccount \subseteq data
  BY DEF TypeOK, Seen, OnlyPublished
<1>1. LaneStep(w, c)
  BY DEF LaneStep
<1>2. PICK l \in Lane : lane' = [lane EXCEPT ![w][c] = l]
  BY <1>1, LaneStepPut
<1>3. lane'[w][c] = l
  BY <1>2, LanePut
<1>4. UNCHANGED <<world, known, data, cursor, run, ackAccount>>
  BY DEF TransactionsList, TransactionsSkip, TransactionsPost, TransactionsConfirm,
     TransactionsEnd, files
<1>5. l.pc # "create"
  <2>1. CASE \E s \in lane[w][c].ids : lane' = [lane EXCEPT ![w][c] = Posted(lane[w][c], s)]
    <3>1. PICK s \in lane[w][c].ids : lane' = [lane EXCEPT ![w][c] = Posted(lane[w][c], s)]
      BY <2>1
    <3>2. l = Posted(lane[w][c], s)
      BY <1>3, <3>1, LaneRead
    <3> QED
      BY <1>0, <3>2 DEF Posted, Lane
  <2>2. CASE lane[w][c].pc = "post" /\ \E s \in lane[w][c].ids :
               lane' = [lane EXCEPT ![w][c].ids = lane[w][c].ids \ {s}]
    <3>1. lane'[w][c].pc = "post"
      BY <1>0, <2>2 DEF TypeOK, Lane
    <3> QED
      BY <1>3, <3>1
  <2>3. CASE TransactionsPost(w, c)
    BY <2>1, <2>2, <2>3 DEF TransactionsPost
  <2>4. CASE TransactionsList(w, c)
    <3>1. PICK ids : lane' = [lane EXCEPT ![w][c] = [LaneAt("post") EXCEPT !.ids = ids]]
      BY <2>4 DEF TransactionsList
    <3>2. l = [LaneAt("post") EXCEPT !.ids = ids]
      BY <1>3, <3>1, LaneRead
    <3> QED
      BY <3>2 DEF LaneAt
  <2>5. CASE TransactionsSkip(w, c)
    BY <2>2, <2>5 DEF TransactionsSkip
  <2>6. CASE TransactionsConfirm(w, c)
    BY <1>0, <1>3, <2>6 DEF TypeOK, Lane, TransactionsConfirm
  <2>7. CASE TransactionsEnd(w, c)
    <3>1. l = LaneAt("done")
      BY <1>3, <2>7, LaneRead DEF TransactionsEnd
    <3> QED
      BY <3>1 DEF LaneAt
  <2> QED
    BY <2>3, <2>4, <2>5, <2>6, <2>7
<1>6. ledger' \subseteq data
  <2>1. CASE TransactionsPost(w, c)
    <3>1. PICK s \in data : ledger' \subseteq ledger \cup {s}
      BY <2>1 DEF TransactionsPost
    <3> QED
      BY <1>0, <3>1
  <2>2. CASE ~TransactionsPost(w, c)
    BY <1>0, <2>2 DEF TransactionsList, TransactionsSkip, TransactionsConfirm,
       TransactionsEnd, services
  <2> QED
    BY <2>1, <2>2
<1> QED
  BY <1>0, <1>2, <1>4, <1>5, <1>6, LaneSeenPut DEF LaneSeen

LEMMA SeenInit == Init => Seen
  BY DEF Init, Seen, OnlyPublished, RunsSeen, RunSeen, LanesSeen, LaneSeen, Dated,
     IdleRun, LaneAt

LEMMA SeenStep == WInv /\ Seen /\ [Next]_vars => Seen'
<1> SUFFICES ASSUME TypeOK, Seen, [Next]_vars PROVE Seen'
  BY DEF WInv
<1>1. ASSUME NEW w \in Runs, RunStep(w) PROVE Seen'
  BY <1>1, RunStepSeen
<1>2. ASSUME NEW w \in Runs, NEW c \in Currencies, LaneStep(w, c) PROVE Seen'
  BY <1>2, AccountsSeen, TransactionsSeen DEF LaneStep
<1>3. CASE Tomorrow \/ (\E s \in Statements : Publish(s)) \/ UNCHANGED vars
  <2>1. UNCHANGED <<files, cursor, services, run, lane>> /\ published \subseteq published'
    BY <1>3 DEF Tomorrow, Publish, vars, files, services
  <2>2. UNCHANGED <<known, data, ackAccount, ledger>>
    BY <2>1 DEF files, services
  <2>3. RunsSeen'
    BY <2>1, <2>2, RunSeenGrows DEF Seen, RunsSeen
  <2>4. LanesSeen'
    BY <2>1, <2>2 DEF Seen, LanesSeen, LaneSeen
  <2>5. OnlyPublished'
    BY <2>1, <2>2 DEF Seen, OnlyPublished, Of
  <2> QED
    BY <2>3, <2>4, <2>5 DEF Seen
<1>4. CASE Crash
  <2>1. UNCHANGED <<known, data, published, ackAccount, ledger, cursor>>
    BY <1>4 DEF Crash, files, world, services
  <2>2. RunsSeen'
    BY <1>4 DEF Crash, RunsSeen, RunSeen, IdleRun, Dated
  <2>3. LanesSeen'
    BY <1>4 DEF Crash, LanesSeen, LaneSeen, LaneAt
  <2>4. OnlyPublished'
    BY <2>1 DEF Seen, OnlyPublished, Of
  <2> QED
    BY <2>2, <2>3, <2>4 DEF Seen
<1> QED
  BY <1>1, <1>2, <1>3, <1>4 DEF Next

\* Nothing is imported that the gateway has not published, and every cursor is the
\* value date of a statement with a directory, however goroutines, failing calls
\* and restarts interleave (lines 95-117, 174-215 and 239-377).
THEOREM Spec_OnlyPublished == Spec => []OnlyPublished
<1>1. Seen => OnlyPublished
  BY DEF Seen
<1> QED
  BY WInit, WStep, SeenInit, SeenStep, <1>1, PTL DEF Spec
=============================================================================
