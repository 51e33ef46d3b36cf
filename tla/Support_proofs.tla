----------------------------- MODULE Support_proofs -----------------------------
(***************************************************************************)
(* Proofs about the parts of the import service that token actors and      *)
(* workflows rest on: the daemons, the metrics, the months and the formats *)
(* of a token, for any number of workers, any counters, any calendar and   *)
(* any names and cursors; and the types of all parts of MCSupport.         *)
(***************************************************************************)
EXTENDS MCSupport, HttpClient_proofs, Session_proofs, FiniteSetTheorems

(***************************************************************************)
(* Daemons, for any number of workers of both kinds and any number of      *)
(* workers that return early. The inductive invariant adds to the type     *)
(* invariant what the pool and the program remember of the daemons that    *)
(* have returned, and that a daemon that has been stopped has one tick     *)
(* left at most, or has used it.                                           *)
(***************************************************************************)

\* The pool is done when all daemons have returned, the program has ended when
\* the pool was done: neither forgets.
Remembered ==
  /\ pool = "done" => \A d \in AllDaemons : phase[d] = "returned"
  /\ program = "ended" => PoolDone

\* Once Stop has ended, the tick that is waiting is the last one.
LastTick ==
  \A d \in Scheduled :
    late[d] > 0 => stop[d] = "done" /\ ~tick[d] /\ late[d] = 1

DaemonsInv == DaemonsTypeOK /\ Remembered /\ LastTick

-----------------------------------------------------------------------------
(* The initial state and the consequences *)

LEMMA DaemonsInv_Init == DaemonsInit => DaemonsInv
<1> SUFFICES ASSUME DaemonsInit PROVE DaemonsInv
  OBVIOUS
<1>1. /\ phase = [d \in AllDaemons |-> "new"] /\ stop = [d \in AllDaemons |-> "no"]
      /\ tick = [d \in Scheduled |-> FALSE] /\ late = [d \in Scheduled |-> 0]
  BY DEF DaemonsInit
<1>2. DaemonsTypeOK
  <2>1. early \in 0..MaxEarly /\ canceled = FALSE /\ signal = FALSE
    BY EarlyAssumption, SMT DEF DaemonsInit
  <2>2. \A d \in AllDaemons : phase[d] = "new" /\ stop[d] = "no"
    BY <1>1
  <2>3. \A d \in Scheduled : phase[d] # "waiting"
    BY <2>2 DEF AllDaemons
  <2>4. late \in [Scheduled -> Nat]
    BY <1>1, SMT
  <2> QED BY <1>1, <2>1, <2>2, <2>3, <2>4 DEF DaemonsInit, DaemonsTypeOK
<1>3. Remembered
  BY DEF DaemonsInit, Remembered
<1>4. LastTick
  BY <1>1, SMT DEF LastTick
<1> QED BY <1>2, <1>3, <1>4 DEF DaemonsInv

LEMMA DaemonsInv_EndIsClean == DaemonsInv => EndIsClean
  BY DEF DaemonsInv, Remembered, PoolDone, EndIsClean

LEMMA DaemonsInv_LateOnce == DaemonsInv => LateOnce
  BY SMT DEF DaemonsInv, DaemonsTypeOK, LastTick, LateOnce

-----------------------------------------------------------------------------
(* The steps of one daemon *)

LEMMA StopKeeps ==
  ASSUME DaemonsInv, program # "ended", NEW d \in AllDaemons, DaemonStop(d)
  PROVE  DaemonsInv'
<1>1. CASE StopBegins(d)
  <2>1. DaemonsTypeOK'
    BY <1>1, SMT DEF DaemonsInv, DaemonsTypeOK, StopBegins, AllDaemons
  <2>2. Remembered'
    BY <1>1, SMT DEF DaemonsInv, DaemonsTypeOK, Remembered, StopBegins, PoolDone
  <2>3. LastTick'
    BY <1>1, SMT DEF DaemonsInv, DaemonsTypeOK, LastTick, StopBegins, AllDaemons
  <2> QED BY <2>1, <2>2, <2>3 DEF DaemonsInv
<1>2. CASE StopEnds(d)
  <2>1. DaemonsTypeOK'
    BY <1>2, SMT DEF DaemonsInv, DaemonsTypeOK, StopEnds, AllDaemons
  <2>2. Remembered'
    BY <1>2, SMT DEF DaemonsInv, DaemonsTypeOK, Remembered, StopEnds, PoolDone
  <2>3. LastTick'
    BY <1>2, SMT DEF DaemonsInv, DaemonsTypeOK, LastTick, StopEnds, AllDaemons
  <2> QED BY <2>1, <2>2, <2>3 DEF DaemonsInv
<1> QED BY <1>1, <1>2 DEF DaemonStop

\* Start of daemon d goes on to another place and does not return.
Moves(d, place) ==
  /\ phase[d] # "returned" /\ (d \in Scheduled => place # "waiting")
  /\ phase' = [phase EXCEPT ![d] = place]
  /\ tick' \in [Scheduled -> BOOLEAN] /\ late' \in [Scheduled -> Nat]
  /\ early' \in 0..MaxEarly
  /\ UNCHANGED <<stop, canceled, pool, program, signal>>

LEMMA MoveKeeps ==
  ASSUME DaemonsInv, program # "ended",
         NEW d \in AllDaemons, NEW place \in {"ready", "working", "waiting"},
         Moves(d, place)
  PROVE  DaemonsTypeOK' /\ Remembered'
<1>1. (canceled <=> \E e \in AllDaemons : phase[e] = "returned")'
  BY SMT DEF Moves, DaemonsInv, DaemonsTypeOK
<1>2. DaemonsTypeOK'
  BY <1>1, SMT DEF Moves, DaemonsInv, DaemonsTypeOK, AllDaemons
<1>3. Remembered'
  BY SMT DEF Moves, DaemonsInv, DaemonsTypeOK, Remembered, PoolDone
<1> QED BY <1>2, <1>3

\* Whatever makes Start of one daemon return.
LEMMA ReturnKeeps ==
  ASSUME DaemonsInv, program # "ended", NEW d \in AllDaemons, Return(d),
         UNCHANGED <<stop, tick, late, early, pool, program, signal>>
  PROVE  DaemonsInv'
<1>1. DaemonsTypeOK'
  BY SMT DEF DaemonsInv, DaemonsTypeOK, Return, AllDaemons
<1>2. Remembered'
  BY SMT DEF DaemonsInv, DaemonsTypeOK, Remembered, Return, PoolDone
<1>3. LastTick'
  BY SMT DEF DaemonsInv, LastTick
<1> QED BY <1>1, <1>2, <1>3 DEF DaemonsInv

LEMMA StartKeeps ==
  ASSUME DaemonsInv, program # "ended", NEW d \in AllDaemons,
         DaemonStart(d) \/ WorkOnceEnds(d)
  PROVE  DaemonsInv'
<1> USE DaemonsAssumption, EarlyAssumption
<1>0. late \in [Scheduled -> Nat] /\ tick \in [Scheduled -> BOOLEAN] /\ early \in 0..MaxEarly
  BY DEF DaemonsInv, DaemonsTypeOK
<1>1. CASE SetupWorker(d)
  <2>1. CASE d \in MayFail /\ Return(d)
    BY <1>1, <2>1, ReturnKeeps DEF SetupWorker
  <2>2. CASE phase' = [phase EXCEPT ![d] = "ready"] /\ UNCHANGED canceled
    <3>1. Moves(d, "ready")
      BY <1>0, <1>1, <2>2, SMT DEF SetupWorker, Moves
    <3>2. LastTick'
      BY <1>1, SMT DEF SetupWorker, DaemonsInv, LastTick
    <3> QED BY <3>1, <3>2, MoveKeeps DEF DaemonsInv
  <2> QED BY <1>1, <2>1, <2>2 DEF SetupWorker
<1>2. CASE WorkOnce(d)
  <2>1. Moves(d, "working")
    BY <1>0, <1>2, SMT DEF WorkOnce, Moves
  <2>2. LastTick'
    BY <1>2, SMT DEF WorkOnce, DaemonsInv, LastTick
  <2> QED BY <2>1, <2>2, MoveKeeps DEF DaemonsInv
<1>3. CASE WorkOnceEnds(d)
  <2>1. early' \in 0..MaxEarly
    BY <1>0, <1>3, SMT DEF WorkOnceEnds
  <2>2. Moves(d, "waiting")
    BY <1>0, <1>3, <2>1, SMT DEF WorkOnceEnds, Moves
  <2>3. LastTick'
    BY <1>3, SMT DEF WorkOnceEnds, DaemonsInv, LastTick
  <2> QED BY <2>2, <2>3, MoveKeeps DEF DaemonsInv
<1>4. CASE WorkAtTickEnds(d)
  <2>1. Moves(d, "ready")
    BY <1>0, <1>4, SMT DEF WorkAtTickEnds, Moves
  <2>2. LastTick'
    BY <1>4, SMT DEF WorkAtTickEnds, DaemonsInv, LastTick
  <2> QED BY <2>1, <2>2, MoveKeeps DEF DaemonsInv
<1>5. CASE StartReturns(d)
  BY <1>5, ReturnKeeps DEF StartReturns
<1> QED BY <1>1, <1>2, <1>3, <1>4, <1>5 DEF DaemonStart

\* The ticker does not touch a daemon that has been stopped.
LEMMA TickKeeps ==
  ASSUME DaemonsInv, program # "ended", NEW d \in Scheduled, Tick(d)
  PROVE  DaemonsInv'
<1>1. DaemonsTypeOK'
  BY SMT DEF DaemonsInv, DaemonsTypeOK, Tick
<1>2. Remembered'
  BY SMT DEF DaemonsInv, Remembered, Tick, PoolDone
<1>3. LastTick'
  BY SMT DEF DaemonsInv, DaemonsTypeOK, LastTick, Tick
<1> QED BY <1>1, <1>2, <1>3 DEF DaemonsInv

\* The tick that is taken after the end of Stop is gone for good: the daemon had
\* not begun to work after it before.
LEMMA WorkAtTickKeeps ==
  ASSUME DaemonsInv, program # "ended", NEW d \in Scheduled, WorkAtTick(d)
  PROVE  DaemonsInv'
<1>0. d \in AllDaemons
  BY DEF AllDaemons
<1>1. tick \in [Scheduled -> BOOLEAN] /\ late \in [Scheduled -> Nat] /\ early \in 0..MaxEarly
  BY DEF DaemonsInv, DaemonsTypeOK
<1>2. late[d] = 0
  BY <1>1, SMT DEF WorkAtTick, DaemonsInv, LastTick
<1>3. PICK count \in 0..1 :
        late' = [late EXCEPT ![d] = count] /\ (count = 1 => stop[d] = "done")
  <2>1. CASE stop[d] = "done"
    <3>1. late' = [late EXCEPT ![d] = 1]
      BY <1>1, <1>2, <2>1, SMT DEF WorkAtTick
    <3> QED BY <2>1, <3>1, SMT
  <2>2. CASE stop[d] # "done"
    <3>1. late' = [late EXCEPT ![d] = 0]
      BY <1>1, <1>2, <2>2, SMT DEF WorkAtTick
    <3> QED BY <2>2, <3>1, SMT
  <2> QED BY <2>1, <2>2
<1>4. Moves(d, "working")
  <2>1. late' \in [Scheduled -> Nat] /\ tick' \in [Scheduled -> BOOLEAN]
    BY <1>1, <1>3, SMT DEF WorkAtTick
  <2> QED BY <1>1, <2>1, SMT DEF WorkAtTick, Moves
<1>5. LastTick'
  BY <1>1, <1>3, SMT DEF WorkAtTick, DaemonsInv, LastTick
<1> QED BY <1>0, <1>4, <1>5, MoveKeeps DEF DaemonsInv

-----------------------------------------------------------------------------
(* Every step *)

LEMMA ProgramKeeps ==
  ASSUME DaemonsInv, program # "ended", ProgramStep \/ Signal
  PROVE  DaemonsInv'
<1>1. CASE PoolStarts
  BY <1>1, SMT DEF PoolStarts, daemons, DaemonsInv, DaemonsTypeOK, Remembered, LastTick, PoolDone
<1>2. CASE PoolEnds
  BY <1>2, SMT DEF PoolEnds, daemons, DaemonsInv, DaemonsTypeOK, Remembered, LastTick, PoolDone
<1>3. CASE Signal
  BY <1>3, SMT DEF Signal, daemons, DaemonsInv, DaemonsTypeOK, Remembered, LastTick, PoolDone
<1>4. CASE ProgramStops
  BY <1>4, SMT DEF ProgramStops, daemons, DaemonsInv, DaemonsTypeOK, Remembered, LastTick, PoolDone
<1>5. CASE ProgramEnds
  BY <1>5, SMT DEF ProgramEnds, daemons, DaemonsInv, DaemonsTypeOK, Remembered, LastTick, PoolDone
<1> QED BY <1>1, <1>2, <1>3, <1>4, <1>5 DEF ProgramStep

LEMMA DaemonsInv_Next == DaemonsInv /\ [DaemonsNext]_daemonsVars => DaemonsInv'
<1> SUFFICES ASSUME DaemonsInv, [DaemonsNext]_daemonsVars PROVE DaemonsInv'
  OBVIOUS
<1>1. CASE UNCHANGED daemonsVars
  BY <1>1, SMT DEF daemonsVars, daemons, DaemonsInv, DaemonsTypeOK, Remembered, LastTick, PoolDone
<1>2. CASE DaemonsNext
  <2>1. program # "ended"
    BY <1>2 DEF DaemonsNext
  <2>2. CASE \E d \in AllDaemons : DaemonStop(d) \/ DaemonStart(d) \/ WorkOnceEnds(d)
    BY <2>1, <2>2, StopKeeps, StartKeeps
  <2>3. CASE \E d \in Scheduled : Tick(d) \/ WorkAtTick(d)
    BY <2>1, <2>3, TickKeeps, WorkAtTickKeeps
  <2>4. CASE ProgramStep \/ Signal
    BY <2>1, <2>4, ProgramKeeps
  <2> QED BY <1>2, <2>2, <2>3, <2>4 DEF DaemonsNext
<1> QED BY <1>1, <1>2

-----------------------------------------------------------------------------
(* The theorems *)

\* However many workers there are, the program ends only when each of them has
\* been canceled and its Start has returned (run.go 31-50, pool.go, oneshot.go).
THEOREM Daemons_EndIsClean == DaemonsSpec => []EndIsClean
  BY DaemonsInv_Init, DaemonsInv_Next, DaemonsInv_EndIsClean, PTL DEF DaemonsSpec

\* A scheduled worker that has been canceled begins to work once more at most,
\* whatever select prefers (scheduled.go 65-101).
THEOREM Daemons_LateOnce == DaemonsSpec => []LateOnce
  BY DaemonsInv_Init, DaemonsInv_Next, DaemonsInv_LateOnce, PTL DEF DaemonsSpec

-----------------------------------------------------------------------------
(***************************************************************************)
(* Metrics: no event is lost or reported twice by the worker, for all sets *)
(* of counters and amounts, however additions fall between its reads, its  *)
(* subtractions and its reports. Conserved is inductive together with the  *)
(* type invariant, whose last conjunct keeps the counters natural.         *)
(***************************************************************************)

MetricsInv == MetricsTypeOK /\ Conserved

LEMMA MetricsInit_Inv == MetricsInit => MetricsInv
  BY DEF MetricsInit, MetricsInv, MetricsTypeOK, Conserved, InFlight, Taking, Stages

LEMMA MetricsNext_TypeOK == MetricsTypeOK /\ [MetricsNext]_metricsVars => MetricsTypeOK'
<1> SUFFICES ASSUME MetricsTypeOK, [MetricsNext]_metricsVars PROVE MetricsTypeOK'
  OBVIOUS
<1> USE DEF MetricsTypeOK, Taking, Stages, Does
<1>1. ASSUME NEW c \in Counters, NEW n \in Amounts, AddInt64(c, n) PROVE MetricsTypeOK'
  <2>1. n \in Nat
    BY AmountsAssumption
  <2> QED
    BY <1>1, <2>1 DEF AddInt64
<1>2. ASSUME NEW c \in Counters, Read(c) PROVE MetricsTypeOK'
  BY <1>2 DEF Read
<1>3. ASSUME NEW c \in Counters, Subtract(c) PROVE MetricsTypeOK'
  <2>1. counter[c] - taken[c] \in Nat
    BY <1>3 DEF Subtract
  <2> QED
    BY <1>3, <2>1 DEF Subtract
<1>4. ASSUME NEW c \in Counters, Report(c) PROVE MetricsTypeOK'
  BY <1>4 DEF Report
<1>5. CASE NextStage
  BY <1>5 DEF NextStage
<1>6. CASE UNCHANGED metricsVars
  BY <1>6 DEF metricsVars
<1> QED
  BY <1>1, <1>2, <1>3, <1>4, <1>5, <1>6 DEF MetricsNext

LEMMA MetricsNext_Conserved == MetricsInv /\ [MetricsNext]_metricsVars => Conserved'
<1> SUFFICES ASSUME MetricsInv, [MetricsNext]_metricsVars, NEW k \in Counters
             PROVE (reported[k] + InFlight(k) + counter[k] = happened[k])'
  BY DEF Conserved
<1> USE DEF MetricsInv, MetricsTypeOK, Conserved, InFlight, Taking, Stages, Does
<1>1. ASSUME NEW c \in Counters, NEW n \in Amounts, AddInt64(c, n)
      PROVE (reported[k] + InFlight(k) + counter[k] = happened[k])'
  <2>1. n \in Nat
    BY AmountsAssumption
  <2> QED
    BY <1>1, <2>1 DEF AddInt64
<1>2. ASSUME NEW c \in Counters, Read(c)
      PROVE (reported[k] + InFlight(k) + counter[k] = happened[k])'
  BY <1>2 DEF Read
<1>3. ASSUME NEW c \in Counters, Subtract(c)
      PROVE (reported[k] + InFlight(k) + counter[k] = happened[k])'
  BY <1>3 DEF Subtract
<1>4. ASSUME NEW c \in Counters, Report(c)
      PROVE (reported[k] + InFlight(k) + counter[k] = happened[k])'
  BY <1>4 DEF Report
<1>5. CASE NextStage
  BY <1>5 DEF NextStage
<1>6. CASE UNCHANGED metricsVars
  BY <1>6 DEF metricsVars
<1> QED
  BY <1>1, <1>2, <1>3, <1>4, <1>5, <1>6 DEF MetricsNext

LEMMA MetricsInv_Next == MetricsInv /\ [MetricsNext]_metricsVars => MetricsInv'
  BY MetricsNext_TypeOK, MetricsNext_Conserved DEF MetricsInv

\* What is reported, what Work has taken and not reported yet, and what the
\* counters hold add up to what happened (metrics.go 111-135).
THEOREM MetricsSpec_Conserved == MetricsSpec => []Conserved
<1>1. MetricsInv => Conserved
  BY DEF MetricsInv
<1> QED
  BY <1>1, MetricsInit_Inv, MetricsInv_Next, PTL DEF MetricsSpec

-----------------------------------------------------------------------------
(***************************************************************************)
(* TimeShift: the intervals of PartitionInterval leave no month out and    *)
(* name none twice, for every calendar and every pair of times. The loop   *)
(* invariant says what each interval is: the one of month First + i - 1.   *)
(***************************************************************************)

\* The month of startDate.
First == current - Len(timeline)

\* Where interval i starts and ends.
StartOf(i) == IF loop = "done" /\ i = 1 THEN startDate ELSE Begin[First + i - 1]

EndOf(i) ==
  IF loop = "done" /\ i = Len(timeline) THEN endDate ELSE Begin[First + i] - Day

ShiftInv ==
  /\ ShiftTypeOK
  /\ First \in 1..Months
  /\ Begin[First] <= startDate /\ startDate < Begin[First + 1]
  /\ \A i \in 1..Len(timeline) :
       timeline[i].start = StartOf(i) /\ timeline[i].end = EndOf(i)
  /\ loop = "done" => endDate <= Begin[current]

LEMMA BeginNat == ASSUME NEW m \in 1..(Months + 1) PROVE Begin[m] \in Nat
  BY BeginAssumption

LEMMA BeginGrows ==
  ASSUME NEW m \in 1..(Months + 1), NEW n \in 1..(Months + 1), m < n
  PROVE Begin[m] + Day <= Begin[n] /\ Begin[m] < Begin[n]
<1>1. Begin[m] + Day <= Begin[n]
  BY BeginAssumption
<1>2. Begin[m] \in Nat /\ Begin[n] \in Nat /\ Day \in Nat /\ Day > 0
  BY BeginNat, DayAssumption
<1> QED
  BY <1>1, <1>2

LEMMA BeginOrder ==
  ASSUME NEW m \in 1..(Months + 1), NEW n \in 1..(Months + 1), m <= n
  PROVE Begin[m] <= Begin[n]
<1>1. CASE m = n
  BY <1>1, BeginNat
<1>2. CASE m < n
  BY <1>2, BeginGrows, BeginNat
<1> QED
  BY <1>1, <1>2, MonthsAssumption

LEMMA ElementOf ==
  ASSUME NEW S, NEW s \in Seq(S), NEW i \in 1..Len(s) PROVE s[i] \in S
  OBVIOUS

LEMMA IsSeq == ASSUME NEW S, NEW n \in Nat, NEW s \in [1..n -> S] PROVE s \in Seq(S) /\ Len(s) = n
  OBVIOUS

LEMMA ShiftInit_Inv == ShiftInit => ShiftInv
<1> SUFFICES ASSUME ShiftInit PROVE ShiftInv
  OBVIOUS
<1>1. timeline = <<>> /\ Len(timeline) = 0 /\ timeline \in Seq([start: Times, end: Times])
  BY DEF ShiftInit
<1>2. First = current /\ current \in 1..Months
  BY <1>1 DEF First, ShiftInit
<1>3. ShiftTypeOK
  BY <1>1, <1>2, MonthsAssumption DEF ShiftInit, ShiftTypeOK
<1> QED
  BY <1>1, <1>2, <1>3 DEF ShiftInit, ShiftInv

LEMMA SliceMonth_Inv == ShiftInv /\ SliceMonth => ShiftInv'
<1> SUFFICES ASSUME ShiftInv, SliceMonth PROVE ShiftInv'
  OBVIOUS
<1> USE MonthsAssumption, DayAssumption
<1> DEFINE new == [start |-> Begin[current], end |-> Begin[current + 1] - Day]
<1>1. current \in 1..Months
  <2>1. current \in 1..(Months + 1) /\ endDate \in Times
    BY DEF ShiftInv, ShiftTypeOK
  <2>2. Begin[current] < endDate /\ Begin[current] \in Nat
    BY <2>1, BeginNat DEF SliceMonth, Before
  <2>3. endDate < Begin[Months + 1] /\ endDate \in Int /\ Begin[Months + 1] \in Nat
    BY <2>1, BeginNat DEF Times
  <2>4. current # Months + 1
    BY <2>2, <2>3
  <2> QED
    BY <2>1, <2>4
<1>2. Begin[current] + Day <= Begin[current + 1] /\ Begin[current] \in Nat
      /\ Begin[current + 1] \in Nat
  BY <1>1, BeginGrows, BeginNat
<1>3. new.start \in Times /\ new.end \in Times
  <2>1. Begin[1] <= Begin[current]
    BY <1>1, BeginOrder
  <2>2. Begin[current + 1] <= Begin[Months + 1]
    BY <1>1, BeginOrder
  <2>3. Begin[1] \in Nat /\ Begin[Months + 1] \in Nat
    BY BeginNat
  <2> QED
    BY <1>2, <2>1, <2>2, <2>3 DEF Times
<1>4. timeline' = Append(timeline, new)
  BY DEF SliceMonth, LastDay
<1>5. timeline \in Seq([start: Times, end: Times])
  BY DEF ShiftInv, ShiftTypeOK
<1>6. /\ timeline' \in Seq([start: Times, end: Times])
      /\ Len(timeline') = Len(timeline) + 1
      /\ \A i \in 1..Len(timeline) : timeline'[i] = timeline[i]
      /\ timeline'[Len(timeline) + 1] = new
  BY <1>3, <1>4, <1>5
<1>7. First' = First /\ First \in 1..Months /\ First + Len(timeline) = current
      /\ current' = current + 1 /\ Len(timeline) \in Nat
  BY <1>1, <1>5, <1>6 DEF First, SliceMonth, ShiftInv
<1>8. ShiftTypeOK'
  BY <1>1, <1>6 DEF ShiftInv, ShiftTypeOK, SliceMonth, Times
<1>9. ASSUME NEW i \in 1..Len(timeline')
      PROVE timeline'[i].start = StartOf(i)' /\ timeline'[i].end = EndOf(i)'
  <2>1. CASE i = Len(timeline) + 1
    BY <2>1, <1>6, <1>7 DEF StartOf, EndOf, SliceMonth
  <2>2. CASE i \in 1..Len(timeline)
    <3>1. timeline[i].start = StartOf(i) /\ timeline[i].end = EndOf(i)
      BY <2>2 DEF ShiftInv
    <3> QED
      BY <2>2, <3>1, <1>6, <1>7 DEF StartOf, EndOf, SliceMonth
  <2> QED
    BY <2>1, <2>2, <1>6, <1>7
<1> QED
  BY <1>7, <1>8, <1>9 DEF ShiftInv, SliceMonth

LEMMA PartitionInterval_Inv == ShiftInv /\ PartitionInterval => ShiftInv'
<1> SUFFICES ASSUME ShiftInv, PartitionInterval PROVE ShiftInv'
  OBVIOUS
<1> USE MonthsAssumption, DayAssumption
<1>1. timeline \in Seq([start: Times, end: Times]) /\ startDate \in Times /\ endDate \in Times
      /\ current \in 1..(Months + 1)
  BY DEF ShiftInv, ShiftTypeOK
<1>2. Len(timeline) \in Nat /\ DOMAIN timeline = 1..Len(timeline)
  BY <1>1
<1>3. ASSUME NEW i \in 1..Len(timeline)
      PROVE timeline[i].start \in Times /\ timeline[i].end \in Times
  <2>1. timeline[i] \in [start: Times, end: Times]
    BY <1>1, ElementOf
  <2> QED
    BY <2>1
<1>4. timeline' = [i \in 1..Len(timeline) |->
        [start |-> IF i = 1 THEN startDate ELSE timeline[i].start,
         end |-> IF i = Len(timeline) THEN endDate ELSE timeline[i].end]]
  BY <1>2 DEF PartitionInterval, WithEnds
<1>5. timeline' \in Seq([start: Times, end: Times]) /\ Len(timeline') = Len(timeline)
  <2>1. \A i \in 1..Len(timeline) : timeline'[i] \in [start: Times, end: Times]
    BY <1>1, <1>3, <1>4
  <2>2. timeline' \in [1..Len(timeline) -> [start: Times, end: Times]]
    BY <2>1, <1>4
  <2> QED
    BY <2>2, <1>2, IsSeq
<1>6. First' = First
  BY <1>5 DEF First, PartitionInterval
<1>7. ASSUME NEW i \in 1..Len(timeline')
      PROVE timeline'[i].start = StartOf(i)' /\ timeline'[i].end = EndOf(i)'
  <2>1. timeline[i].start = StartOf(i) /\ timeline[i].end = EndOf(i)
    BY <1>5 DEF ShiftInv
  <2>2. /\ timeline'[i].start = IF i = 1 THEN startDate ELSE timeline[i].start
        /\ timeline'[i].end = IF i = Len(timeline) THEN endDate ELSE timeline[i].end
    BY <1>4, <1>5
  <2> QED
    BY <2>1, <2>2, <1>5, <1>6 DEF StartOf, EndOf, PartitionInterval
<1>8. endDate <= Begin[current]
  <2>1. Begin[current] \in Nat /\ endDate \in Int
    BY <1>1, BeginNat DEF Times
  <2> QED
    BY <2>1 DEF PartitionInterval, Before
<1>9. ShiftTypeOK'
  BY <1>5, <1>1 DEF ShiftTypeOK, PartitionInterval, Times
<1> QED
  BY <1>6, <1>7, <1>8, <1>9 DEF ShiftInv, PartitionInterval

LEMMA ShiftInv_Next == ShiftInv /\ [ShiftNext]_shiftVars => ShiftInv'
<1>1. ShiftInv /\ UNCHANGED shiftVars => ShiftInv'
  BY DEF shiftVars, ShiftInv, ShiftTypeOK, First, StartOf, EndOf, Times
<1> QED
  BY <1>1, SliceMonth_Inv, PartitionInterval_Inv DEF ShiftNext

LEMMA ShiftSpec_Inv == ShiftSpec => []ShiftInv
  BY ShiftInit_Inv, ShiftInv_Next, PTL DEF ShiftSpec

LEMMA ShiftInv_EveryMonthSearched == ShiftInv => EveryMonthSearched
<1> SUFFICES ASSUME ShiftInv, loop = "done", startDate < endDate, NEW m \in 1..Months,
                    startDate < Begin[m + 1], Begin[m] <= endDate
             PROVE \E i \in DOMAIN timeline : Searches(i, m)
  BY DEF EveryMonthSearched
<1> USE MonthsAssumption, DayAssumption
<1> DEFINE n == Len(timeline)
<1>1. n \in Nat /\ DOMAIN timeline = 1..n /\ First \in 1..Months /\ current = First + n
      /\ current \in 1..(Months + 1)
  BY DEF ShiftInv, ShiftTypeOK, First
<1>2. startDate \in Int /\ endDate \in Int /\ Begin[First] \in Nat /\ Begin[m + 1] \in Nat
      /\ Begin[m] \in Nat
  BY <1>1, BeginNat DEF ShiftInv, ShiftTypeOK, Times
<1>3. Begin[First] <= startDate /\ endDate <= Begin[current]
  BY DEF ShiftInv
<1>4. First <= m
  <2>1. Begin[First] < Begin[m + 1]
    BY <1>2, <1>3
  <2>2. ~(m + 1 <= First)
    BY <1>1, <1>2, <2>1, BeginOrder
  <2> QED
    BY <1>1, <2>2
<1>5. n # 0
  <2>1. n = 0 => current = First
    BY <1>1
  <2> QED
    BY <1>2, <1>3, <2>1
<1>6. ASSUME NEW i \in 1..n
      PROVE /\ timeline[i].start = IF i = 1 THEN startDate ELSE Begin[First + i - 1]
            /\ timeline[i].end = IF i = n THEN endDate ELSE Begin[First + i] - Day
  BY DEF ShiftInv, StartOf, EndOf
<1>7. CASE m >= current - 1
  <2>1. timeline[n].end = endDate
    <3>1. n \in 1..n
      BY <1>1, <1>5
    <3> QED
      BY <3>1, <1>6
  <2>2. timeline[n].start < Begin[m + 1]
    <3>1. CASE n = 1
      BY <3>1, <1>6
    <3>2. CASE n # 1
      <4>1. timeline[n].start = Begin[current - 1]
        <5>1. n \in 1..n /\ First + n - 1 = current - 1
          BY <1>1, <1>5
        <5>2. timeline[n].start = Begin[First + n - 1]
          BY <3>2, <5>1, <1>6
        <5> QED
          BY <5>1, <5>2
      <4>2. current - 1 < m + 1 /\ current - 1 \in 1..(Months + 1)
        BY <1>1, <1>5, <1>7
      <4>3. Begin[current - 1] <= Begin[m] /\ Begin[m] < Begin[m + 1]
            /\ Begin[current - 1] \in Nat
        BY <1>1, <1>7, <4>2, BeginOrder, BeginGrows, BeginNat
      <4> QED
        BY <4>1, <4>3, <1>2
    <3> QED
      BY <3>1, <3>2
  <2> QED
    BY <2>1, <2>2, <1>1, <1>5 DEF Searches
<1>8. CASE m < current - 1
  <2> DEFINE i == m - First + 1
  <2>1. i \in 1..n /\ i # n /\ First + i = m + 1 /\ First + i - 1 = m
    BY <1>1, <1>4, <1>8
  <2>2. timeline[i].end = Begin[m + 1] - Day
    BY <2>1, <1>6
  <2>3. timeline[i].start = startDate \/ timeline[i].start = Begin[m]
    BY <2>1, <1>6
  <2>4. Begin[m] + Day <= Begin[m + 1] /\ Begin[m] < Begin[m + 1]
    BY BeginGrows
  <2>5. Searches(i, m)
    BY <2>2, <2>3, <2>4, <1>2 DEF Searches
  <2> QED
    BY <2>1, <2>5, <1>1
<1> QED
  BY <1>7, <1>8, <1>1

LEMMA ShiftInv_NoMonthTwice == ShiftInv => NoMonthTwice
<1> SUFFICES ASSUME ShiftInv, NEW i \in DOMAIN timeline, NEW j \in DOMAIN timeline,
                    NEW m \in 1..Months, Searches(i, m), Searches(j, m), i < j
             PROVE FALSE
  <2>1. DOMAIN timeline = 1..Len(timeline) /\ Len(timeline) \in Nat
    BY DEF ShiftInv, ShiftTypeOK
  <2> QED
    BY <2>1 DEF NoMonthTwice
<1> USE MonthsAssumption, DayAssumption
<1> DEFINE n == Len(timeline)
<1>1. n \in Nat /\ i \in 1..n /\ j \in 1..n /\ First \in 1..Months /\ current = First + n
      /\ current \in 1..(Months + 1)
  BY DEF ShiftInv, ShiftTypeOK, First
<1>2. timeline[i].end = Begin[First + i] - Day
  <2>1. timeline[i].end = EndOf(i)
    BY <1>1 DEF ShiftInv
  <2>2. i # Len(timeline)
    BY <1>1
  <2> QED
    BY <2>1, <2>2 DEF EndOf
<1>3. timeline[j].start = Begin[First + j - 1]
  <2>1. timeline[j].start = StartOf(j)
    BY <1>1 DEF ShiftInv
  <2>2. j # 1
    BY <1>1
  <2> QED
    BY <2>1, <2>2 DEF StartOf
<1>4. First + i \in 1..(Months + 1) /\ First + j - 1 \in 1..(Months + 1)
      /\ First + i <= First + j - 1
  BY <1>1
<1>5. Begin[m] \in Nat /\ Begin[m + 1] \in Nat /\ Begin[First + i] \in Nat
      /\ Begin[First + j - 1] \in Nat
  BY <1>4, BeginNat
<1>6. m < First + i
  <2>1. Begin[m] < Begin[First + i]
    BY <1>2, <1>5 DEF Searches
  <2>2. ~(First + i <= m)
    BY <1>4, <1>5, <2>1, BeginOrder
  <2> QED
    BY <1>1, <2>2
<1>7. Begin[m + 1] <= Begin[First + j - 1]
  <2>1. PICK a, b : a = m + 1 /\ b = First + j - 1
    OBVIOUS
  <2>2. a \in 1..(Months + 1) /\ b \in 1..(Months + 1) /\ a <= b
    BY <1>1, <1>4, <1>6, <2>1
  <2>3. Begin[a] <= Begin[b]
    BY <2>2, BeginOrder
  <2> QED
    BY <2>1, <2>3
<1> QED
  BY <1>3, <1>5, <1>7 DEF Searches

\* In every calendar every month between the cursor and now is searched, and no
\* month for two intervals (utils.go 24-46).
THEOREM ShiftSpec_MonthsSearchedOnce == ShiftSpec => []MonthsSearchedOnce
<1>1. ShiftInv => MonthsSearchedOnce
  BY ShiftInv_EveryMonthSearched, ShiftInv_NoMonthTwice DEF MonthsSearchedOnce
<1> QED
  BY <1>1, ShiftSpec_Inv, PTL

-----------------------------------------------------------------------------
(* All parts of MCSupport, of which one moves at a time *)

\* Every part keeps its type while the others rest.
THEOREM MCSpec_PartsTypeOK == MCSpec => []PartsTypeOK
<1> DEFINE Inv == HttpInv /\ SessionInv /\ DaemonsInv /\ MetricsInv /\ ShiftInv
<1>1. MCInit => Inv
  BY HttpInit_Inv, SessionInv_Init, DaemonsInv_Init, MetricsInit_Inv, ShiftInit_Inv DEF MCInit
<1>2. Inv /\ [MCNext]_mcVars => Inv'
  <2> SUFFICES ASSUME Inv, [MCNext]_mcVars PROVE Inv'
    OBVIOUS
  <2>1. /\ [HttpNext]_httpVars /\ [SessionNext]_sessionVars /\ [DaemonsNext]_daemonsVars
        /\ [MetricsNext]_metricsVars /\ [ShiftNext]_shiftVars
    BY DEF MCNext, In, mcVars, partVars
  <2> QED
    BY <2>1, HttpNext_Inv, SessionInv_Next, DaemonsInv_Next, MetricsInv_Next, ShiftInv_Next
<1>3. Inv => PartsTypeOK
  BY DEF HttpInv, SessionInv, DaemonsInv, MetricsInv, ShiftInv, PartsTypeOK
<1> QED
  BY <1>1, <1>2, <1>3, PTL DEF MCSpec

-----------------------------------------------------------------------------
(***************************************************************************)
(* TokenFormat, for any names and cursors. A file that is not empty is one *)
(* that Serialize may write for the token that was saved, so that the      *)
(* proofs are about what Deserialize makes of the lines of Serialize: the  *)
(* cursor of a currency is read from its own line, because that is the     *)
(* last line with its letters, whatever credentials come before it.        *)
(***************************************************************************)

Texts == DOMAIN Prefix
SomeWord == Seq(Texts) \ {<<>>}
Date == [year: Nat, month: 1..12, day: 1..31, hour: 0..23]

IsCursor(c) ==
  IsFiniteSet(DOMAIN c) /\ Short \notin DOMAIN c /\ \A k \in DOMAIN c : c[k] \in Date

\* A token has credentials, and plain ones are those of s, which were sent.
Credible(s, t) ==
  t.kind = "token" =>
    /\ t.user \in SomeWord /\ t.pass \in SomeWord /\ IsCursor(t.cursor)
    /\ Plain(s.user) /\ Plain(s.pass) => t.user = s.user[1] /\ t.pass = s.pass[1]

FormatInv ==
  /\ sent \in [user: Names, pass: Names]
  /\ Credible(sent, held) /\ Credible(sent, saved)
  /\ Plain(sent.user) /\ Plain(sent.pass) => held.kind \in {"sent", "token"}
  /\ file # <<>> => saved.kind = "token" /\ file \in Serialize(saved)

Joined(s, t, st) == st = s \o t

\* Sequence st is s, of length m, with t, of length n, behind it.
IsJoint(E, s, t, st, m, n) ==
  /\ st \in Seq(E) /\ Len(st) = m + n
  /\ \A i \in 1..m : st[i] = s[i]
  /\ \A j \in 1..n : st[m + j] = t[j]

LEMMA ConcatIsJoint ==
  ASSUME NEW E, NEW s \in Seq(E), NEW t \in Seq(E)
  PROVE  IsJoint(E, s, t, s \o t, Len(s), Len(t))
  BY DEF IsJoint

LEMMA JoinedIsJoint ==
  ASSUME NEW E, NEW s \in Seq(E), NEW t \in Seq(E), NEW st, Joined(s, t, st),
         NEW m, NEW n, Len(s) = m, Len(t) = n
  PROVE  IsJoint(E, s, t, st, m, n)
  BY ConcatIsJoint DEF Joined

LEMMA WordLen ==
  ASSUME NEW E, NEW s \in Seq(E) \ {<<>>}
  PROVE  Len(s) \in Nat /\ Len(s) >= 1 /\ s[1] \in E
<1>1. Len(s) \in Nat /\ Len(s) # 0
  OBVIOUS
<1> QED
  BY <1>1

\* A set of numbers up to n has a greatest one.
LEMMA GreatestIn ==
  ASSUME NEW n \in Nat, NEW S \in SUBSET (1..n), S # {}
  PROVE  \E x \in S : \A y \in S : y <= x
<1> DEFINE T == {n - x : x \in S}
<1>1. T \subseteq Nat /\ T # {}
  <2>1. \A x \in S : n - x \in Nat
    <3>1. \A x \in S : x \in 1..n
      OBVIOUS
    <3> QED
      BY <3>1
  <2> QED
    BY <2>1
<1>2. IsWellFoundedOn(OpToRel(<, Nat), Nat)
  BY NatLessThanWellFounded
<1>3. PICK z \in T : \A y \in T : <<y, z>> \notin OpToRel(<, Nat)
  BY <1>1, <1>2, WFMin
<1>4. \A y \in T : ~(y < z)
  BY <1>1, <1>3 DEF OpToRel
<1>5. PICK x \in S : z = n - x
  OBVIOUS
<1>6. ASSUME NEW y \in S PROVE y <= x
  <2>1. n - y \in T
    OBVIOUS
  <2>2. ~(n - y < n - x)
    BY <1>4, <1>5, <2>1
  <2>3. x \in Int /\ y \in Int
    OBVIOUS
  <2> QED
    BY <2>2, <2>3
<1> QED
  BY <1>6

LEMMA MaxFacts ==
  ASSUME NEW n \in Nat, NEW S \in SUBSET (1..n), S # {}
  PROVE  Max(S) \in S /\ \A y \in S : y <= Max(S)
<1>1. \E x \in S : \A y \in S : x >= y
  <2>1. \A x \in S : x \in Int
    OBVIOUS
  <2> QED
    BY <2>1, GreatestIn
<1>2. Max(S) \in S /\ \A y \in S : Max(S) >= y
  BY <1>1 DEF Max
<1>3. \A x \in S : x \in Int
  OBVIOUS
<1> QED
  BY <1>2, <1>3

\* The lines of a file: created, the texts of the credentials up to line h, and then
\* every cursor in a line of its own.
Shape(t, lines, h) ==
  /\ h \in Nat /\ h >= 3 /\ Len(lines) \in Nat /\ h <= Len(lines)
  /\ lines[2] = [text |-> t.user[1]]
  /\ Len(t.user) = 1 => lines[3] = [text |-> t.pass[1]]
  /\ \A i \in 2..h : \E w \in Texts : lines[i] = [text |-> w]
  /\ \A i \in (h + 1)..Len(lines) : lines[i] \in CursorLines(t.cursor)
  /\ \A l \in CursorLines(t.cursor) : \E i \in (h + 1)..Len(lines) : lines[i] = l
  /\ \A i, j \in (h + 1)..Len(lines) : lines[i] = lines[j] => i = j

LEMMA CursorLinesFinite ==
  ASSUME NEW c, IsFiniteSet(DOMAIN c)
  PROVE  IsFiniteSet(CursorLines(c))
<1> DEFINE f == [k \in DOMAIN c |-> [key |-> k, date |-> DateText(c[k])]]
<1>1. f \in Surjection(DOMAIN c, CursorLines(c))
  BY DEF Surjection, CursorLines
<1> QED
  BY <1>1, FS_Surjection

\* An enumeration leaves nothing out.
LEMMA Enumerated ==
  ASSUME NEW S, IsFiniteSet(S), NEW f \in SetToSeqs(S)
  PROVE  /\ Cardinality(S) \in Nat /\ f \in [1..Cardinality(S) -> S]
         /\ \A i, j \in 1..Cardinality(S) : f[i] = f[j] => i = j
         /\ \A x \in S : \E i \in 1..Cardinality(S) : f[i] = x
<1> DEFINE n == Cardinality(S)
<1>1. n \in Nat
  BY FS_CardinalityType
<1> HIDE DEF n
<1>2. f \in [1..n -> S] /\ \A i, j \in 1..n : f[i] = f[j] => i = j
  BY DEF SetToSeqs, n
<1>3. f \in Injection(1..n, S)
  BY <1>2 DEF Injection, IsInjective
<1>4. Cardinality(1..n) = n
  BY <1>1, FS_Interval
<1>5. f \in Surjection(1..n, S)
  BY <1>3, <1>4, FS_Injection DEF n
<1> QED
  BY <1>1, <1>2, <1>5 DEF Surjection, n

LEMMA TextLinesFacts ==
  ASSUME NEW word \in SomeWord
  PROVE  /\ TextLines(word) \in Seq([text: Texts]) /\ Len(TextLines(word)) = Len(word)
         /\ \A i \in 1..Len(word) : TextLines(word)[i] = [text |-> word[i]]
         /\ Len(word) \in Nat /\ Len(word) >= 1
<1>1. Len(word) \in Nat /\ Len(word) >= 1 /\ DOMAIN word = 1..Len(word)
      /\ \A i \in 1..Len(word) : word[i] \in Texts
  BY WordLen DEF SomeWord
<1>2. TextLines(word) \in [1..Len(word) -> [text: Texts]]
  BY <1>1 DEF TextLines
<1>3. TextLines(word) \in Seq([text: Texts]) /\ Len(TextLines(word)) = Len(word)
  BY <1>1, <1>2, IsSeq
<1> QED
  BY <1>1, <1>3 DEF TextLines

LEMMA SeqGrows ==
  ASSUME NEW D, NEW E, D \subseteq E, NEW s \in Seq(D)
  PROVE  s \in Seq(E)
  OBVIOUS

\* The lines are a first one, and those of u, p and c.
AreParts(lines, u, p, c, m, n, k) ==
  /\ Len(lines) = 1 + m + n + k
  /\ \A i \in 1..m : lines[1 + i] = u[i]
  /\ \A i \in 1..n : lines[1 + m + i] = p[i]
  /\ \A i \in 1..k : lines[1 + m + n + i] = c[i]

LEMMA FourParts ==
  ASSUME NEW E, NEW first \in Seq(E), Len(first) = 1,
         NEW u \in Seq(E), NEW p \in Seq(E), NEW c \in Seq(E),
         NEW m \in Nat, Len(u) = m, NEW n \in Nat, Len(p) = n, NEW k \in Nat, Len(c) = k,
         NEW fu, NEW fup, NEW lines,
         Joined(first, u, fu), Joined(fu, p, fup), Joined(fup, c, lines)
  PROVE  AreParts(lines, u, p, c, m, n, k)
<1>1. PICK l \in Nat : l = 1 + m
  OBVIOUS
<1>2. fu \in Seq(E) /\ Len(fu) = l /\ \A i \in 1..m : fu[1 + i] = u[i]
  <2>1. IsJoint(E, first, u, fu, 1, m)
    BY JoinedIsJoint
  <2> QED
    BY <1>1, <2>1 DEF IsJoint
<1>3. PICK h \in Nat : h = l + n
  OBVIOUS
<1>4. /\ fup \in Seq(E) /\ Len(fup) = h
      /\ (\A i \in 1..l : fup[i] = fu[i])
      /\ \A i \in 1..n : fup[l + i] = p[i]
  <2>1. IsJoint(E, fu, p, fup, l, n)
    BY <1>2, JoinedIsJoint
  <2> QED
    BY <1>3, <2>1 DEF IsJoint
<1>5. PICK z \in Nat : z = h + k
  OBVIOUS
<1>6. /\ Len(lines) = z
      /\ \A i \in 1..h : lines[i] = fup[i]
      /\ \A i \in 1..k : lines[h + i] = c[i]
  <2>1. IsJoint(E, fup, c, lines, h, k)
    BY <1>4, JoinedIsJoint
  <2> QED
    BY <1>5, <2>1 DEF IsJoint
<1>7. ASSUME NEW i \in 1..m PROVE lines[1 + i] = u[i]
  <2>1. 1 + i \in 1..l /\ 1 + i \in 1..h
    BY <1>1, <1>3
  <2> QED
    BY <1>2, <1>4, <1>6, <2>1
<1>8. ASSUME NEW i \in 1..n PROVE lines[l + i] = p[i]
  <2>1. l + i \in 1..h
    BY <1>3
  <2> QED
    BY <1>4, <1>6, <2>1
<1> QED
  BY <1>1, <1>3, <1>5, <1>6, <1>7, <1>8 DEF AreParts

LEMMA FileShape ==
  ASSUME NEW t, t.user \in SomeWord, t.pass \in SomeWord, IsCursor(t.cursor),
         NEW lines \in Serialize(t)
  PROVE  lines # <<>> /\ \E h : Shape(t, lines, h)
<1>1. PICK C : C = CursorLines(t.cursor)
  OBVIOUS
<1>2. PICK cl \in SetToSeqs(C) :
        lines = <<[text |-> "created"]>> \o TextLines(t.user) \o TextLines(t.pass) \o cl
  <2>1. lines \in {<<[text |-> "created"]>> \o TextLines(t.user) \o TextLines(t.pass) \o l :
                     l \in SetToSeqs(CursorLines(t.cursor))}
    BY Zenon DEF Serialize
  <2> QED
    BY <1>1, <2>1
<1>3. IsFiniteSet(C)
  BY <1>1, CursorLinesFinite DEF IsCursor
<1>4. PICK k \in Nat : k = Cardinality(C)
  BY <1>3, FS_CardinalityType
<1>5. /\ cl \in [1..k -> C]
      /\ \A i, j \in 1..k : cl[i] = cl[j] => i = j
      /\ \A x \in C : \E i \in 1..k : cl[i] = x
  BY <1>3, <1>4, Enumerated
<1>6. cl \in Seq(C) /\ Len(cl) = k
  BY <1>4, <1>5, IsSeq
<1>7. PICK u : u = TextLines(t.user)
  OBVIOUS
<1>8. PICK p : p = TextLines(t.pass)
  OBVIOUS
<1>9. PICK m \in Nat \ {0} :
        /\ Len(t.user) = m /\ u \in Seq([text: Texts]) /\ Len(u) = m
        /\ \A i \in 1..m : u[i] = [text |-> t.user[i]]
  <2>1. Len(t.user) \in Nat \ {0}
    BY TextLinesFacts
  <2> QED
    BY <1>7, <2>1, TextLinesFacts
<1>10. PICK n \in Nat \ {0} :
        /\ Len(t.pass) = n /\ p \in Seq([text: Texts]) /\ Len(p) = n
        /\ \A i \in 1..n : p[i] = [text |-> t.pass[i]]
  <2>1. Len(t.pass) \in Nat \ {0}
    BY TextLinesFacts
  <2> QED
    BY <1>8, <2>1, TextLinesFacts
<1>11. /\ \A i \in 1..m : t.user[i] \in Texts
       /\ \A i \in 1..n : t.pass[i] \in Texts
  BY <1>9, <1>10 DEF SomeWord
<1>12. PICK E : [text: Texts \cup {"created"}] \subseteq E /\ C \subseteq E
  <2>1. \E E : E = [text: Texts \cup {"created"}] \cup C
    OBVIOUS
  <2> QED
    BY <2>1
<1>13. u \in Seq(E) /\ p \in Seq(E) /\ cl \in Seq(E)
  <2>1. [text: Texts] \subseteq E
    BY <1>12
  <2> QED
    BY <1>6, <1>9, <1>10, <1>12, <2>1, SeqGrows
<1>14. PICK first : first = <<[text |-> "created"]>> /\ first \in Seq(E) /\ Len(first) = 1
  <2>1. PICK x \in E : x = [text |-> "created"]
    BY <1>12
  <2>2. <<x>> \in Seq(E) /\ Len(<<x>>) = 1
    OBVIOUS
  <2> QED
    BY <2>1, <2>2
<1>15. /\ Len(lines) = 1 + m + n + k
       /\ \A i \in 1..m : lines[1 + i] = u[i]
       /\ \A i \in 1..n : lines[1 + m + i] = p[i]
       /\ \A i \in 1..k : lines[1 + m + n + i] = cl[i]
  <2>1. PICK fu, fup : Joined(first, u, fu) /\ Joined(fu, p, fup) /\ Joined(fup, cl, lines)
    BY <1>2, <1>7, <1>8, <1>14 DEF Joined
  <2>2. Len(u) = m /\ Len(p) = n /\ Len(cl) = k
    BY <1>6, <1>9, <1>10
  <2>3. AreParts(lines, u, p, cl, m, n, k)
    BY <1>13, <1>14, <2>1, <2>2, FourParts
  <2> QED
    BY <2>3 DEF AreParts
<1>16. PICK h \in Nat : h = 1 + m + n /\ h >= 3
  OBVIOUS
<1>17. Len(lines) = h + k /\ Len(lines) \in Nat /\ h <= Len(lines)
       /\ \A i \in 1..k : lines[h + i] = cl[i]
  BY <1>15, <1>16
<1>18. lines[2] = [text |-> t.user[1]]
       /\ (Len(t.user) = 1 => lines[3] = [text |-> t.pass[1]])
  <2>1. lines[1 + 1] = [text |-> t.user[1]]
    <3>1. 1 \in 1..m
      OBVIOUS
    <3> QED
      BY <1>9, <1>15, <3>1
  <2>2. lines[1 + m + 1] = [text |-> t.pass[1]]
    <3>1. 1 \in 1..n
      OBVIOUS
    <3> QED
      BY <1>10, <1>15, <3>1
  <2>3. m = 1 => 1 + m + 1 = 3
    OBVIOUS
  <2> QED
    BY <1>9, <2>1, <2>2, <2>3
<1>19. ASSUME NEW i \in 2..h PROVE \E w \in Texts : lines[i] = [text |-> w]
  <2>1. CASE i <= 1 + m
    <3>1. PICK j \in 1..m : i = 1 + j
      <4>1. i - 1 \in 1..m /\ i = 1 + (i - 1)
        BY <2>1
      <4> QED
        BY <4>1
    <3>2. lines[1 + j] = u[j] /\ u[j] = [text |-> t.user[j]] /\ t.user[j] \in Texts
      BY <1>9, <1>11, <1>15
    <3> QED
      BY <3>1, <3>2
  <2>2. CASE i > 1 + m
    <3>1. PICK j \in 1..n : i = 1 + m + j
      <4>1. i - 1 - m \in 1..n /\ i = 1 + m + (i - 1 - m)
        BY <1>16, <2>2
      <4> QED
        BY <4>1
    <3>2. lines[i] = [text |-> t.pass[j]]
      BY <1>10, <1>15, <3>1
    <3> QED
      BY <1>11, <3>2
  <2> QED
    BY <2>1, <2>2
<1>20. ASSUME NEW i \in (h + 1)..Len(lines) PROVE i - h \in 1..k /\ lines[i] = cl[i - h]
  <2>1. i - h \in 1..k /\ i = h + (i - h)
    BY <1>17
  <2> QED
    BY <1>17, <2>1
<1>21. \A i \in (h + 1)..Len(lines) : lines[i] \in C
  BY <1>5, <1>20
<1>22. ASSUME NEW l \in C PROVE \E i \in (h + 1)..Len(lines) : lines[i] = l
  <2>1. PICK i \in 1..k : cl[i] = l
    BY <1>5
  <2>2. h + i \in (h + 1)..Len(lines) /\ lines[h + i] = l
    BY <1>17, <2>1
  <2> QED
    BY <2>2
<1>23. ASSUME NEW i \in (h + 1)..Len(lines), NEW j \in (h + 1)..Len(lines),
              lines[i] = lines[j]
       PROVE  i = j
  <2>1. i - h = j - h
    BY <1>5, <1>20, <1>23
  <2> QED
    BY <2>1
<1>24. Shape(t, lines, h)
  BY <1>1, <1>16, <1>17, <1>18, <1>19, <1>21, <1>22, <1>23 DEF Shape
<1> QED
  BY <1>16, <1>17, <1>24

LEMMA DateReadBack ==
  ASSUME NEW d \in Date
  PROVE  /\ ParsedDate(DateText(d)) = [d EXCEPT !.hour = 0]
         /\ [d EXCEPT !.hour = 0] \in Date
<1>1. d.year \in Nat /\ d.month \in 1..12 /\ d.day \in 1..31 /\ d.hour \in 0..23
      /\ d = [year |-> d.year, month |-> d.month, day |-> d.day, hour |-> d.hour]
  BY DEF Date
<1>2. [d EXCEPT !.hour = 0] = [year |-> d.year, month |-> d.month, day |-> d.day, hour |-> 0]
  BY DEF Date
<1>3. ParsedDate(DateText(d)) = [year |-> d.year, month |-> d.month, day |-> d.day, hour |-> 0]
  BY <1>1 DEF ParsedDate, DateText
<1>4. [year |-> d.year, month |-> d.month, day |-> d.day, hour |-> 0] \in Date
  BY <1>1 DEF Date
<1> QED
  BY <1>2, <1>3, <1>4

LEMMA TextLineIs ==
  ASSUME NEW w
  PROVE  KeyOf([text |-> w]) = Prefix[w] /\ DateOf([text |-> w]) = Epoch
<1>1. ~IsCursorLine([text |-> w])
  BY DEF IsCursorLine
<1> QED
  BY <1>1 DEF KeyOf, DateOf

LEMMA CursorLineIs ==
  ASSUME NEW k, NEW x
  PROVE  KeyOf([key |-> k, date |-> x]) = k /\ DateOf([key |-> k, date |-> x]) = ParsedDate(x)
<1>1. IsCursorLine([key |-> k, date |-> x])
  BY DEF IsCursorLine
<1> QED
  BY <1>1 DEF KeyOf, DateOf

\* A line of the cursor has the letters of one currency and its date.
LEMMA CursorLineOf ==
  ASSUME NEW t, IsCursor(t.cursor), NEW l \in CursorLines(t.cursor)
  PROVE  /\ KeyOf(l) \in DOMAIN t.cursor
         /\ l = [key |-> KeyOf(l), date |-> DateText(t.cursor[KeyOf(l)])]
         /\ DateOf(l) = [t.cursor[KeyOf(l)] EXCEPT !.hour = 0]
         /\ DateOf(l) \in Date
<1>1. PICK k \in DOMAIN t.cursor : l = [key |-> k, date |-> DateText(t.cursor[k])]
  BY DEF CursorLines
<1>2. KeyOf(l) = k /\ DateOf(l) = ParsedDate(DateText(t.cursor[k]))
  BY <1>1, CursorLineIs
<1>3. t.cursor[k] \in Date
  BY DEF IsCursor
<1> QED
  BY <1>1, <1>2, <1>3, DateReadBack

Keyed(lines) == {i \in 4..Len(lines) : KeyOf(lines[i]) # Short}

LastOf(lines, k) ==
  CHOOSE i \in Keyed(lines) :
    KeyOf(lines[i]) = k /\ \A j \in Keyed(lines) : KeyOf(lines[j]) = k => j <= i

LEMMA DeserializeIs ==
  ASSUME NEW lines
  PROVE  Deserialize(lines) =
           Token(<<lines[2].text>>, <<lines[3].text>>,
                 [k \in {KeyOf(lines[i]) : i \in Keyed(lines)} |->
                    DateOf(lines[LastOf(lines, k)])])
  BY Zenon DEF Deserialize, Keyed, LastOf

\* Every key that is read has a last line.
LEMMA LastOfFacts ==
  ASSUME NEW lines, Len(lines) \in Nat, NEW k, \E i \in Keyed(lines) : KeyOf(lines[i]) = k
  PROVE  /\ LastOf(lines, k) \in Keyed(lines) /\ KeyOf(lines[LastOf(lines, k)]) = k
         /\ \A j \in Keyed(lines) : KeyOf(lines[j]) = k => j <= LastOf(lines, k)
<1> DEFINE S == {i \in Keyed(lines) : KeyOf(lines[i]) = k}
<1>1. S \in SUBSET (1..Len(lines)) /\ S # {}
  BY DEF Keyed
<1>2. \E x \in S : \A y \in S : y <= x
  BY <1>1, GreatestIn
<1>3. \E i \in Keyed(lines) :
        KeyOf(lines[i]) = k /\ \A j \in Keyed(lines) : KeyOf(lines[j]) = k => j <= i
  BY <1>2
<1> QED
  BY <1>3, Zenon DEF LastOf

LEMMA ReadBack ==
  ASSUME NEW t, t.user \in SomeWord, t.pass \in SomeWord, IsCursor(t.cursor),
         NEW lines, NEW h, Shape(t, lines, h)
  PROVE  LET d == Deserialize(lines)
         IN  /\ d.kind = "token" /\ d.user = <<t.user[1]>>
             /\ Len(t.user) = 1 => d.pass = <<t.pass[1]>>
             /\ d.user \in SomeWord /\ d.pass \in SomeWord /\ IsCursor(d.cursor)
             /\ \A k \in DOMAIN t.cursor :
                  k \in DOMAIN d.cursor /\ d.cursor[k] = [t.cursor[k] EXCEPT !.hour = 0]
<1>0. /\ h \in Nat /\ h >= 3 /\ Len(lines) \in Nat /\ h <= Len(lines)
      /\ lines[2] = [text |-> t.user[1]]
      /\ Len(t.user) = 1 => lines[3] = [text |-> t.pass[1]]
      /\ \A i \in 2..h : \E w \in Texts : lines[i] = [text |-> w]
      /\ \A i \in (h + 1)..Len(lines) : lines[i] \in CursorLines(t.cursor)
      /\ \A l \in CursorLines(t.cursor) : \E i \in (h + 1)..Len(lines) : lines[i] = l
      /\ \A i, j \in (h + 1)..Len(lines) : lines[i] = lines[j] => i = j
  BY DEF Shape
<1>1. PICK d : d = Deserialize(lines)
  OBVIOUS
<1>2. PICK c : c = [k \in {KeyOf(lines[i]) : i \in Keyed(lines)} |->
                      DateOf(lines[LastOf(lines, k)])]
  OBVIOUS
<1>3. /\ d.kind = "token" /\ d.user = <<lines[2].text>> /\ d.pass = <<lines[3].text>>
      /\ d.cursor = c
  BY <1>1, <1>2, DeserializeIs DEF Token
\* The credentials.
<1>4. d.user = <<t.user[1]>> /\ (Len(t.user) = 1 => d.pass = <<t.pass[1]>>)
  BY <1>0, <1>3
<1>5. lines[2].text \in Texts /\ lines[3].text \in Texts
  <2>1. 2 \in 2..h /\ 3 \in 2..h
    BY <1>0
  <2>2. \E w \in Texts : lines[2] = [text |-> w]
    BY <1>0, <2>1
  <2>3. \E w \in Texts : lines[3] = [text |-> w]
    BY <1>0, <2>1
  <2> QED
    BY <2>2, <2>3
<1>6. d.user \in SomeWord /\ d.pass \in SomeWord
  <2>1. \A w \in Texts : <<w>> \in Seq(Texts) /\ <<w>> # <<>>
    OBVIOUS
  <2> QED
    BY <1>3, <1>5, <2>1 DEF SomeWord
\* The dates.
<1>7. ASSUME NEW i \in Keyed(lines) PROVE DateOf(lines[i]) \in Date
  <2>1. i \in 4..Len(lines)
    BY DEF Keyed
  <2>2. CASE i <= h
    <3>1. i \in 2..h
      BY <1>0, <2>1, <2>2
    <3>2. PICK w \in Texts : lines[i] = [text |-> w]
      BY <1>0, <3>1
    <3>3. Epoch \in Date
      BY DEF Epoch, Date
    <3> QED
      BY <3>2, <3>3, TextLineIs
  <2>3. CASE i > h
    <3>1. i \in (h + 1)..Len(lines)
      BY <1>0, <2>1, <2>3
    <3>2. lines[i] \in CursorLines(t.cursor)
      BY <1>0, <3>1
    <3> QED
      BY <3>2, CursorLineOf
  <2> QED
    BY <1>0, <2>1, <2>2, <2>3
<1>8. IsCursor(c)
  <2>1. DOMAIN c = {KeyOf(lines[i]) : i \in Keyed(lines)}
    BY <1>2
  <2>2. IsFiniteSet(DOMAIN c)
    <3>1. Keyed(lines) \in SUBSET (4..Len(lines)) /\ IsFiniteSet(4..Len(lines))
      BY <1>0, FS_Interval DEF Keyed
    <3>2. IsFiniteSet(Keyed(lines))
      BY <3>1, FS_Subset
    <3> DEFINE f == [i \in Keyed(lines) |-> KeyOf(lines[i])]
    <3>3. f \in Surjection(Keyed(lines), DOMAIN c)
      BY <2>1 DEF Surjection
    <3> QED
      BY <3>2, <3>3, FS_Surjection
  <2>3. Short \notin DOMAIN c
    BY <2>1 DEF Keyed
  <2>4. ASSUME NEW k \in DOMAIN c PROVE c[k] \in Date
    <3>1. \E i \in Keyed(lines) : KeyOf(lines[i]) = k
      BY <2>1
    <3>2. LastOf(lines, k) \in Keyed(lines)
      BY <1>0, <3>1, LastOfFacts
    <3>3. c[k] = DateOf(lines[LastOf(lines, k)])
      BY <1>2, <2>1
    <3> QED
      BY <1>7, <3>2, <3>3
  <2> QED
    BY <2>2, <2>3, <2>4 DEF IsCursor
\* The last line with the letters of a currency is the one of its cursor.
<1>9. ASSUME NEW k \in DOMAIN t.cursor
      PROVE  k \in DOMAIN c /\ c[k] = [t.cursor[k] EXCEPT !.hour = 0]
  <2>1. PICK l \in CursorLines(t.cursor) : l = [key |-> k, date |-> DateText(t.cursor[k])]
    BY DEF CursorLines
  <2>2. PICK i \in (h + 1)..Len(lines) : lines[i] = l
    BY <1>0
  <2>3. KeyOf(lines[i]) = k
    BY <2>1, <2>2, CursorLineIs
  <2>4. i \in Keyed(lines)
    <3>1. k # Short
      BY DEF IsCursor
    <3>2. i \in 4..Len(lines)
      BY <1>0
    <3> QED
      BY <2>3, <3>1, <3>2 DEF Keyed
  <2>5. PICK n : n = LastOf(lines, k)
    OBVIOUS
  <2>6. n \in Keyed(lines) /\ KeyOf(lines[n]) = k /\ i <= n
    BY <1>0, <2>3, <2>4, <2>5, LastOfFacts
  <2>7. n \in (h + 1)..Len(lines)
    <3>1. n \in 4..Len(lines)
      BY <2>6 DEF Keyed
    <3> QED
      BY <1>0, <2>6, <3>1
  <2>8. DateOf(lines[n]) = [t.cursor[k] EXCEPT !.hour = 0]
    <3>1. lines[n] \in CursorLines(t.cursor)
      BY <1>0, <2>7
    <3> QED
      BY <2>6, <3>1, CursorLineOf
  <2>9. k \in DOMAIN c /\ c[k] = DateOf(lines[n])
    BY <1>2, <2>3, <2>4, <2>5
  <2> QED
    BY <2>8, <2>9
<1> QED
  BY <1>1, <1>3, <1>4, <1>6, <1>8, <1>9

\* The message is NT, a space, user, a space and pass.
IsMessage(message, user, pass, m, n) ==
  /\ Len(message) = 3 + m + n
  /\ message[1] = <<"NT">> /\ message[2] = Space /\ message[3 + m] = Space
  /\ \A i \in 1..m : message[2 + i] = user[i]
  /\ \A i \in 1..n : message[3 + m + i] = pass[i]

LEMMA MessageIs ==
  ASSUME NEW user \in Seq(Seq(Texts)), NEW pass \in Seq(Seq(Texts)),
         NEW m \in Nat, Len(user) = m, NEW n \in Nat, Len(pass) = n
  PROVE  /\ Message(user, pass) \in Seq(Seq(Texts \cup {"NT"}))
         /\ IsMessage(Message(user, pass), user, pass, m, n)
<1>1. PICK E : E = Seq(Texts \cup {"NT"})
  OBVIOUS
<1>2. PICK first, second : first = << <<"NT">>, Space>> /\ second = <<Space>>
  OBVIOUS
<1>3. /\ first \in Seq(E) /\ Len(first) = 2 /\ first[1] = <<"NT">> /\ first[2] = Space
      /\ second \in Seq(E) /\ Len(second) = 1 /\ second[1] = Space
  <2>1. <<"NT">> \in E /\ Space \in E
    BY <1>1 DEF Space
  <2> QED
    BY <1>2, <2>1
<1>4. user \in Seq(E) /\ pass \in Seq(E)
  <2>1. Seq(Texts) \subseteq E
    BY <1>1, SeqGrows
  <2> QED
    BY <2>1, SeqGrows
<1>5. PICK fu, fus, message :
        /\ Joined(first, user, fu) /\ Joined(fu, second, fus) /\ Joined(fus, pass, message)
        /\ message = Message(user, pass)
  BY <1>2 DEF Joined, Message
<1>6. PICK k \in Nat : k = 2 + m
  OBVIOUS
<1>7. /\ fu \in Seq(E) /\ Len(fu) = k /\ fu[1] = <<"NT">> /\ fu[2] = Space
      /\ \A i \in 1..m : fu[2 + i] = user[i]
  <2>1. IsJoint(E, first, user, fu, 2, m)
    BY <1>3, <1>4, <1>5, JoinedIsJoint
  <2> QED
    BY <1>3, <1>6, <2>1 DEF IsJoint
<1>8. PICK l \in Nat : l = k + 1
  OBVIOUS
<1>9. /\ fus \in Seq(E) /\ Len(fus) = l /\ fus[l] = Space
      /\ \A i \in 1..k : fus[i] = fu[i]
  <2>1. IsJoint(E, fu, second, fus, k, 1)
    BY <1>3, <1>5, <1>7, JoinedIsJoint
  <2> QED
    BY <1>3, <1>8, <2>1 DEF IsJoint
<1>10. /\ message \in Seq(E) /\ Len(message) = l + n
       /\ \A i \in 1..l : message[i] = fus[i]
       /\ \A i \in 1..n : message[l + i] = pass[i]
  <2>1. IsJoint(E, fus, pass, message, l, n)
    BY <1>4, <1>5, <1>9, JoinedIsJoint
  <2> QED
    BY <2>1 DEF IsJoint
<1>11. \A i \in 1..k : message[i] = fu[i]
  BY <1>8, <1>9, <1>10
<1>12. l = 3 + m /\ message[l] = Space /\ message[1] = <<"NT">> /\ message[2] = Space
  BY <1>6, <1>7, <1>8, <1>9, <1>10, <1>11
<1>13. ASSUME NEW i \in 1..m PROVE message[2 + i] = user[i]
  <2>1. 2 + i \in 1..k
    BY <1>6
  <2> QED
    BY <1>7, <1>11, <2>1
<1> QED
  BY <1>1, <1>5, <1>10, <1>12, <1>13 DEF IsMessage

\* Of the third part and the second one, neither is NT, which is the first.
LEMMA MessageWords ==
  ASSUME NEW user \in Seq(Seq(Texts)), NEW pass \in Seq(Seq(Texts)),
         NEW i \in DOMAIN Message(user, pass), i # 1
  PROVE  Message(user, pass)[i] \in Seq(Texts)
<1>1. PICK m \in Nat, n \in Nat : Len(user) = m /\ Len(pass) = n
  OBVIOUS
<1>2. PICK message : message = Message(user, pass)
  OBVIOUS
<1>3. DOMAIN message = 1..Len(message) /\ IsMessage(message, user, pass, m, n)
  BY <1>1, <1>2, MessageIs
<1>4. i \in 2..(3 + m + n)
  BY <1>2, <1>3 DEF IsMessage
<1>5. Space \in Seq(Texts)
  BY DEF Space
<1>6. /\ \A j \in 1..m : user[j] \in Seq(Texts)
      /\ \A j \in 1..n : pass[j] \in Seq(Texts)
  BY <1>1
<1>7. CASE i = 2 \/ i = 3 + m
  BY <1>2, <1>3, <1>5, <1>7 DEF IsMessage
<1>8. CASE i > 2 /\ i < 3 + m
  <2>1. PICK j \in 1..m : i = 2 + j
    <3>1. i - 2 \in 1..m /\ i = 2 + (i - 2)
      BY <1>4, <1>8
    <3> QED
      BY <3>1
  <2> QED
    BY <1>2, <1>3, <1>6, <2>1 DEF IsMessage
<1>9. CASE i > 3 + m
  <2>1. PICK j \in 1..n : i = 3 + m + j
    <3>1. i - 3 - m \in 1..n /\ i = 3 + m + (i - 3 - m)
      BY <1>4, <1>9
    <3> QED
      BY <3>1
  <2> QED
    BY <1>2, <1>3, <1>6, <2>1 DEF IsMessage
<1> QED
  BY <1>4, <1>7, <1>8, <1>9

\* The last two of three numbers up to n are greater than the least one.
LEMMA LastTwoOfThree ==
  ASSUME NEW n \in Nat, NEW S \in SUBSET (1..n), Cardinality(S) = 3
  PROVE  LET x == Max(S)  y == Max(S \ {x})
         IN  x \in S /\ y \in S \ {x} /\ x # 1 /\ y # 1
<1>1. IsFiniteSet(S)
  <2>1. IsFiniteSet(1..n)
    BY FS_Interval
  <2> QED
    BY <2>1, FS_Subset
<1>2. S # {}
  BY <1>1, FS_EmptySet
<1>3. PICK x \in S : x = Max(S) /\ \A z \in S : z <= x
  BY <1>2, MaxFacts
<1>4. IsFiniteSet(S \ {x}) /\ Cardinality(S \ {x}) = 2
  BY <1>1, <1>3, FS_RemoveElement
<1>5. S \ {x} # {}
  BY <1>4, FS_EmptySet
<1>6. PICK y \in S \ {x} : y = Max(S \ {x}) /\ \A z \in S \ {x} : z <= y
  <2>1. S \ {x} \in SUBSET (1..n)
    OBVIOUS
  <2> QED
    BY <1>5, <2>1, MaxFacts
<1>7. Cardinality((S \ {x}) \ {y}) = 1 /\ IsFiniteSet((S \ {x}) \ {y})
  BY <1>4, <1>6, FS_RemoveElement
<1>8. PICK z \in S : z # x /\ z # y
  <2>1. (S \ {x}) \ {y} # {}
    BY <1>7, FS_EmptySet
  <2> QED
    BY <2>1
<1>9. x \in Int /\ y \in Int /\ z \in Int /\ 1 <= z /\ z <= y /\ y <= x
  BY <1>3, <1>6, <1>8
<1>10. x # 1 /\ y # 1
  BY <1>8, <1>9
<1> QED
  BY <1>3, <1>6, <1>10

\* What a client sends as a token has words for credentials.
LEMMA ParsedWords ==
  ASSUME NEW user \in Seq(Seq(Texts)), NEW pass \in Seq(Seq(Texts)),
         NEW t, t = Parsed(Message(user, pass)), t.kind = "token"
  PROVE  t.user \in SomeWord /\ t.pass \in SomeWord /\ t.cursor = NoCursor
<1>1. PICK message : message = Message(user, pass)
  OBVIOUS
<1>2. PICK n \in Nat : DOMAIN message = 1..n
  BY <1>1, MessageIs
<1>3. PICK parts \in SUBSET (1..n) : parts = {i \in DOMAIN message : message[i] # Space}
  BY <1>2
<1>4. PICK x, y : x = Max(parts) /\ y = Max(parts \ {x})
  OBVIOUS
<1>5. PICK rest : rest = SubSeq(message, Len(message) - 1, Len(message))
  OBVIOUS
<1>6. t = IF Cardinality(parts) = 3 /\ rest # <<Space, Space>>
            THEN Token(message[y], message[x], NoCursor)
          ELSE IF Cardinality(parts) < 3 /\ rest[2] = Space THEN Failure("panic")
          ELSE Failure("error")
  BY <1>1, <1>3, <1>4, <1>5, Zenon DEF Parsed
<1>7. Cardinality(parts) = 3 /\ t = Token(message[y], message[x], NoCursor)
  BY <1>6 DEF Failure
<1>8. x \in parts /\ y \in parts /\ x # 1 /\ y # 1
  BY <1>4, <1>7, LastTwoOfThree
<1>9. message[x] \in SomeWord /\ message[y] \in SomeWord
  BY <1>1, <1>3, <1>8, MessageWords DEF SomeWord, Space
<1> QED
  BY <1>7, <1>9 DEF Token

\* Plain credentials are the third part and the second one.
LEMMA ParsedPlain ==
  ASSUME NEW user \in Seq(Seq(Texts)), NEW pass \in Seq(Seq(Texts)), Plain(user), Plain(pass),
         NEW t, t = Parsed(Message(user, pass))
  PROVE  t.kind = "token" /\ t.user = user[1] /\ t.pass = pass[1]
<1>1. PICK message : message = Message(user, pass)
  OBVIOUS
<1>2. /\ Len(message) = 5 /\ DOMAIN message = 1..5
      /\ message[1] # Space /\ message[2] = Space /\ message[3] = user[1]
      /\ message[4] = Space /\ message[5] = pass[1]
  <2>1. IsMessage(message, user, pass, 1, 1) /\ DOMAIN message = 1..Len(message)
    <3>1. Len(user) = 1 /\ Len(pass) = 1 /\ 1 \in Nat
      BY DEF Plain
    <3>2. message \in Seq(Seq(Texts \cup {"NT"})) /\ IsMessage(message, user, pass, 1, 1)
      BY <1>1, <3>1, MessageIs
    <3> QED
      BY <3>2
  <2>2. <<"NT">> # Space
    BY DEF Space
  <2>3. /\ 3 + 1 + 1 = 5 /\ 2 + 1 = 3 /\ 3 + 1 = 4 /\ 1 \in 1..1
    OBVIOUS
  <2> QED
    BY <2>1, <2>2, <2>3 DEF IsMessage
<1>3. message[3] # Space /\ message[5] # Space
  <2>1. Len(message[3]) = 1 /\ Len(message[5]) = 1
    BY <1>2 DEF Plain
  <2>2. Len(Space) = 0
    BY DEF Space
  <2>3. ASSUME NEW w, Len(w) = 1 PROVE w # Space
    <3>1. 0 # 1
      OBVIOUS
    <3> QED
      BY <2>2, <2>3, <3>1, Zenon
  <2> QED
    BY <2>1, <2>3
<1>4. PICK parts \in SUBSET (1..5) :
        parts = {i \in DOMAIN message : message[i] # Space} /\ parts = {1, 3, 5}
  <2>1. \A i \in 1..5 : i = 1 \/ i = 2 \/ i = 3 \/ i = 4 \/ i = 5
    OBVIOUS
  <2>2. {i \in 1..5 : message[i] # Space} = {1, 3, 5}
    BY <1>2, <1>3, <2>1
  <2> QED
    BY <1>2, <2>2
<1>5. PICK x, y : x = Max(parts) /\ y = Max(parts \ {x})
  OBVIOUS
<1>6. x = 5
  <2>1. parts # {} /\ 5 \in Nat
    BY <1>4
  <2>2. x \in parts /\ \A z \in parts : z <= x
    BY <1>5, <2>1, MaxFacts
  <2>3. (x = 1 \/ x = 3 \/ x = 5) /\ 5 <= x
    BY <1>4, <2>2
  <2> QED
    BY <2>3
<1>7. y = 3
  <2>1. parts \ {x} = {1, 3}
    BY <1>4, <1>6
  <2>2. parts \ {x} \in SUBSET (1..5) /\ parts \ {x} # {}
    BY <2>1
  <2>3. y \in parts \ {x} /\ \A z \in parts \ {x} : z <= y
    BY <1>5, <2>2, MaxFacts
  <2> QED
    BY <2>1, <2>3
<1>8. PICK rest : rest = SubSeq(message, Len(message) - 1, Len(message))
  OBVIOUS
<1>9. t = IF Cardinality(parts) = 3 /\ rest # <<Space, Space>>
            THEN Token(message[y], message[x], NoCursor)
          ELSE IF Cardinality(parts) < 3 /\ rest[2] = Space THEN Failure("panic")
          ELSE Failure("error")
  BY <1>1, <1>4, <1>5, <1>8, Zenon DEF Parsed
<1>10. Cardinality(parts) = 3
  <2>1. PICK one : one = {5} /\ IsFiniteSet(one) /\ Cardinality(one) = 1
    BY FS_Singleton
  <2>2. PICK two : two = one \cup {3} /\ IsFiniteSet(two) /\ Cardinality(two) = 2
    <3>1. 3 \notin one /\ 1 + 1 = 2
      BY <2>1
    <3>2. IsFiniteSet(one \cup {3}) /\ Cardinality(one \cup {3}) = Cardinality(one) + 1
      BY <2>1, <3>1, FS_AddElement
    <3> QED
      BY <2>1, <3>1, <3>2
  <2>3. Cardinality(two \cup {1}) = 3
    <3>1. 1 \notin two /\ 2 + 1 = 3
      BY <2>1, <2>2
    <3>2. Cardinality(two \cup {1}) = Cardinality(two) + 1
      BY <2>2, <3>1, FS_AddElement
    <3> QED
      BY <2>2, <3>1, <3>2
  <2>4. parts = two \cup {1}
    BY <1>4, <2>1, <2>2
  <2> QED
    BY <2>3, <2>4
<1>11. rest # <<Space, Space>>
  <2>1. message \in Seq(Seq(Texts \cup {"NT"}))
    BY <1>1, MessageIs
  <2>2. rest = SubSeq(message, 4, 5)
    BY <1>2, <1>8
  <2>3. rest[2] = message[5]
    BY <1>2, <2>1, <2>2
  <2>4. <<Space, Space>>[2] = Space
    OBVIOUS
  <2> QED
    BY <1>3, <2>3, <2>4
<1>12. t = Token(message[y], message[x], NoCursor)
  BY <1>9, <1>10, <1>11, Zenon
<1> QED
  BY <1>2, <1>6, <1>7, <1>12 DEF Token

LEMMA FormatInv_Init == FormatInit => FormatInv
<1> SUFFICES ASSUME FormatInit PROVE FormatInv
  OBVIOUS
<1>1. /\ sent \in [user: Names, pass: Names]
      /\ held.kind = "sent" /\ saved.kind = "sent" /\ file = <<>>
  BY DEF FormatInit, Failure
<1> QED
  BY <1>1 DEF FormatInv, Credible

LEMMA CreateTokenCredible ==
  ASSUME NEW s \in [user: Names, pass: Names]
  PROVE  /\ Credible(s, Parsed(Message(s.user, s.pass)))
         /\ Plain(s.user) /\ Plain(s.pass) => Parsed(Message(s.user, s.pass)).kind = "token"
<1>1. PICK t : t = Parsed(Message(s.user, s.pass))
  OBVIOUS
<1>2. s.user \in Seq(Seq(Texts)) /\ s.pass \in Seq(Seq(Texts))
  BY NamesAssumption DEF Texts
<1>3. IsCursor(NoCursor)
  <2>1. DOMAIN NoCursor = {}
    BY DEF NoCursor
  <2> QED
    BY <2>1, FS_EmptySet DEF IsCursor
<1>4. ASSUME t.kind = "token"
      PROVE  t.user \in SomeWord /\ t.pass \in SomeWord /\ t.cursor = NoCursor
  BY <1>1, <1>2, <1>4, ParsedWords
<1>5. ASSUME Plain(s.user), Plain(s.pass)
      PROVE  t.kind = "token" /\ t.user = s.user[1] /\ t.pass = s.pass[1]
  BY <1>1, <1>2, <1>5, ParsedPlain
<1> QED
  BY <1>1, <1>3, <1>4, <1>5 DEF Credible

LEMMA CursorGrows ==
  ASSUME NEW c, IsCursor(c), NEW k \in Currencies, NEW d \in Dates
  PROVE  IsCursor([x \in DOMAIN c \cup {k} |-> IF x = k THEN d ELSE c[x]])
<1>1. IsFiniteSet(DOMAIN c \cup {k})
  BY FS_AddElement DEF IsCursor
<1>2. Short \notin DOMAIN c \cup {k}
  BY CurrenciesAssumption DEF IsCursor
<1>3. d \in Date
  BY DatesAssumption DEF Date
<1>4. \A x \in DOMAIN c : c[x] \in Date
  BY DEF IsCursor
<1> QED
  BY <1>1, <1>2, <1>3, <1>4 DEF IsCursor

\* What is read from the file is as credible as what was saved.
LEMMA ReadCredible ==
  ASSUME NEW s, NEW t, t.kind = "token", Credible(s, t), NEW lines \in Serialize(t)
  PROVE  Credible(s, Deserialize(lines))
<1>1. t.user \in SomeWord /\ t.pass \in SomeWord /\ IsCursor(t.cursor)
  BY DEF Credible
<1>2. PICK h : Shape(t, lines, h)
  BY <1>1, FileShape
<1>3. PICK d : d = Deserialize(lines)
  OBVIOUS
<1>4. /\ d.user = <<t.user[1]>> /\ (Len(t.user) = 1 => d.pass = <<t.pass[1]>>)
      /\ d.user \in SomeWord /\ d.pass \in SomeWord /\ IsCursor(d.cursor)
  BY <1>1, <1>2, <1>3, ReadBack
<1>5. ASSUME NEW w \in SomeWord, Len(w) = 1 PROVE <<w[1]>> = w
  BY <1>5 DEF SomeWord
<1>6. ASSUME Plain(s.user), Plain(s.pass) PROVE d.user = s.user[1] /\ d.pass = s.pass[1]
  <2>1. t.user = s.user[1] /\ t.pass = s.pass[1]
    BY <1>6 DEF Credible
  <2>2. Len(t.user) = 1 /\ Len(t.pass) = 1
    BY <1>6, <2>1 DEF Plain
  <2>3. <<t.user[1]>> = t.user /\ <<t.pass[1]>> = t.pass
    BY <1>1, <1>5, <2>2
  <2> QED
    BY <1>4, <2>1, <2>2, <2>3
<1> QED
  BY <1>3, <1>4, <1>6 DEF Credible

LEMMA FormatInv_Next == FormatInv /\ [FormatNext]_formatVars => FormatInv'
<1> SUFFICES ASSUME FormatInv, [FormatNext]_formatVars PROVE FormatInv'
  OBVIOUS
<1>0. /\ sent \in [user: Names, pass: Names]
      /\ Credible(sent, held) /\ Credible(sent, saved)
      /\ Plain(sent.user) /\ Plain(sent.pass) => held.kind \in {"sent", "token"}
      /\ file # <<>> => saved.kind = "token" /\ file \in Serialize(saved)
  BY DEF FormatInv
<1>1. CASE CreateToken
  <2>1. UNCHANGED <<sent, file, saved>> /\ held' = Parsed(Message(sent.user, sent.pass))
    BY <1>1 DEF CreateToken
  <2>2. /\ Credible(sent, held')
        /\ Plain(sent.user) /\ Plain(sent.pass) => held'.kind = "token"
    BY <1>0, <2>1, CreateTokenCredible
  <2> QED
    BY <1>0, <2>1, <2>2 DEF FormatInv
<1>2. ASSUME NEW c \in Currencies, NEW d \in Dates, SetLastSyncedTime(c, d)
      PROVE  FormatInv'
  <2>1. PICK cursor :
          cursor = [x \in DOMAIN held.cursor \cup {c} |-> IF x = c THEN d ELSE held.cursor[x]]
    OBVIOUS
  <2>2. /\ UNCHANGED <<sent, file, saved>> /\ held.kind = "token"
        /\ held'.kind = "token"
        /\ held'.user = held.user /\ held'.pass = held.pass /\ held'.cursor = cursor
    BY <1>2, <2>1 DEF SetLastSyncedTime, Token
  <2>3. IsCursor(cursor)
    <3>1. PICK old : old = held.cursor
      OBVIOUS
    <3>2. IsCursor(old)
      BY <1>0, <2>2, <3>1 DEF Credible
    <3>3. IsCursor([x \in DOMAIN old \cup {c} |-> IF x = c THEN d ELSE old[x]])
      BY <1>2, <3>2, CursorGrows
    <3> QED
      BY <2>1, <3>1, <3>3
  <2>4. Credible(sent, held')
    BY <1>0, <2>2, <2>3 DEF Credible
  <2> QED
    BY <1>0, <2>2, <2>4 DEF FormatInv
<1>3. CASE Save
  <2>1. UNCHANGED <<sent, held>> /\ held.kind = "token" /\ saved' = held
        /\ file' \in Serialize(held)
    BY <1>3 DEF Save
  <2> QED
    BY <1>0, <2>1 DEF FormatInv
<1>4. CASE Load
  <2>1. UNCHANGED <<sent, file, saved>> /\ file # <<>> /\ held' = Deserialize(file)
    BY <1>4 DEF Load
  <2>2. Credible(sent, held') /\ held'.kind = "token"
    BY <1>0, <2>1, ReadCredible, DeserializeIs DEF Token
  <2> QED
    BY <1>0, <2>1, <2>2 DEF FormatInv
<1>5. CASE UNCHANGED formatVars
  <2>1. UNCHANGED <<sent, held, file, saved>>
    BY <1>5 DEF formatVars
  <2> QED
    BY <1>0, <2>1 DEF FormatInv
<1> QED
  BY <1>1, <1>2, <1>3, <1>4, <1>5 DEF FormatNext

LEMMA FormatInv_KeptAsSent == FormatInv => KeptAsSent
<1> SUFFICES ASSUME FormatInv, Plain(sent.user), Plain(sent.pass), file # <<>>,
                    NEW t, t = Deserialize(file)
             PROVE  t.user = sent.user[1] /\ t.pass = sent.pass[1]
  BY DEF KeptAsSent, FormatInv
<1>1. saved.kind = "token" /\ file \in Serialize(saved) /\ Credible(sent, saved)
  BY DEF FormatInv
<1>2. Credible(sent, t)
  BY <1>1, ReadCredible
<1>3. t.kind = "token"
  BY DeserializeIs DEF Token
<1> QED
  BY <1>2, <1>3 DEF Credible

LEMMA FormatInv_CursorKept == FormatInv => CursorKept
<1> SUFFICES ASSUME FormatInv, file # <<>>, NEW k \in DOMAIN saved.cursor
             PROVE  Deserialize(file).cursor[k] = [saved.cursor[k] EXCEPT !.hour = 0]
  BY DEF CursorKept
<1>1. saved.kind = "token" /\ file \in Serialize(saved) /\ Credible(sent, saved)
  BY DEF FormatInv
<1>2. saved.user \in SomeWord /\ saved.pass \in SomeWord /\ IsCursor(saved.cursor)
  BY <1>1 DEF Credible
<1>3. PICK h : Shape(saved, file, h)
  BY <1>1, <1>2, FileShape
<1>4. PICK d : d = Deserialize(file)
  OBVIOUS
<1>5. \A x \in DOMAIN saved.cursor : d.cursor[x] = [saved.cursor[x] EXCEPT !.hour = 0]
  BY <1>2, <1>3, <1>4, ReadBack
<1> QED
  BY <1>4, <1>5

LEMMA FormatInv_Always == FormatSpec => []FormatInv
<1> QED
  BY FormatInv_Init, FormatInv_Next, PTL DEF FormatSpec

\* Credentials without spaces and line breaks are neither refused nor read past
\* their end, and are read from the file as the HTTP client gave them, for any
\* names and however often the token is written and read (messages.go 45-47, common.go 23-71 and token.go 85-135).
THEOREM FormatSpec_KeptAsSent == FormatSpec => []KeptAsSent
<1> QED
  BY FormatInv_Always, FormatInv_KeptAsSent, PTL

\* A cursor is read from the file as the midnight before it, whatever the credentials
\* and the other cursors are and in whatever order they were written (token.go 95-100
\* and 123-132).
THEOREM FormatSpec_CursorKept == FormatSpec => []CursorKept
<1> QED
  BY FormatInv_Always, FormatInv_CursorKept, PTL
=============================================================================
