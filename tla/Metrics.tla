-------------------------------- MODULE Metrics --------------------------------
(***************************************************************************)
(* The counters of bondster-bco-import (metrics/metrics.go). Actors and    *)
(* the goroutines that synchronize tokens add to them atomically, while a  *)
(* worker reads them one after the other, takes off what it has read and   *)
(* reports it to statsd. The worker reads without synchronization: on the  *)
(* 64 bit machines the service is built for, a read returns some value the *)
(* counter has had, which is what Read chooses.                            *)
(***************************************************************************)
EXTENDS Integers

CONSTANTS
  Counters,   \* createdTokens, deletedTokens, importedTransactions, ...
  Amounts,    \* what is added at once
  MaxEvents   \* bound on what is added to a counter

ASSUME AmountsAssumption == Amounts \subseteq Nat
ASSUME EventsAssumption == MaxEvents \in Nat

VARIABLES
  counter,   \* the fields of StatsdMetrics
  stage,     \* Work: where it is,
  undone,    \* the counters it has still to do there,
  taken,     \* and the values it has read
  reported,  \* what statsd has been told in all
  happened   \* history: what was added in all

metricsVars == <<counter, stage, undone, taken, reported, happened>>

Stages == {"read", "subtract", "report"}

\* Read by Work and not taken off yet.
Taking(c) ==
  \/ stage = "read" /\ c \notin undone
  \/ stage = "subtract" /\ c \in undone

\* Type invariant: also, no more will be taken off a counter than is there.
MetricsTypeOK ==
  /\ counter \in [Counters -> Nat]
  /\ stage \in Stages /\ undone \subseteq Counters /\ taken \in [Counters -> Nat]
  /\ reported \in [Counters -> Nat]
  /\ happened \in [Counters -> Nat]
  /\ \A c \in Counters : Taking(c) => taken[c] <= counter[c]

MetricsInit ==
  /\ counter = [c \in Counters |-> 0]
  /\ stage = "read" /\ undone = Counters /\ taken = counter
  /\ reported = counter /\ happened = counter

\* TokenCreated, TokenDeleted, TransactionImported, StatementsImported: one
\* atomic.AddInt64. TransactionImported adds to two counters, one by one.
AddInt64(c, n) ==
  /\ happened[c] + n <= MaxEvents
  /\ counter' = [counter EXCEPT ![c] = @ + n]
  /\ happened' = [happened EXCEPT ![c] = @ + n]
  /\ UNCHANGED <<stage, undone, taken, reported>>

\* Counter c is next at stage s.
Does(s, c) ==
  /\ stage = s /\ c \in undone
  /\ undone' = undone \ {c} /\ UNCHANGED stage

Read(c) ==
  /\ Does("read", c)
  /\ taken' = [taken EXCEPT ![c] = counter[c]]
  /\ UNCHANGED <<counter, reported, happened>>

\* Mutant of Subtract: the counter is set to zero.
Zero(c) ==
  /\ Does("subtract", c)
  /\ counter' = [counter EXCEPT ![c] = 0]
  /\ UNCHANGED <<taken, reported, happened>>

\* atomic.AddInt64 of what was read, negated.
Subtract(c) ==
  /\ Does("subtract", c)
  /\ counter' = [counter EXCEPT ![c] = @ - taken[c]]
  /\ UNCHANGED <<taken, reported, happened>>

\* Mutant of Report: the counter as it is by then is reported.
ReportCounter(c) ==
  /\ Does("report", c)
  /\ reported' = [reported EXCEPT ![c] = @ + counter[c]]
  /\ UNCHANGED <<taken, counter, happened>>

\* statsd.Client.Count of what was read.
Report(c) ==
  /\ Does("report", c)
  /\ reported' = [reported EXCEPT ![c] = @ + taken[c]]
  /\ UNCHANGED <<taken, counter, happened>>

\* All counters are done: Work goes on, or begins again at the next tick.
NextStage ==
  /\ undone = {} /\ undone' = Counters
  /\ stage' = IF stage = "read" THEN "subtract"
              ELSE IF stage = "subtract" THEN "report" ELSE "read"
  /\ UNCHANGED <<taken, counter, reported, happened>>

MetricsNext ==
  \/ \E c \in Counters : Read(c) \/ Subtract(c) \/ Report(c) \/ \E n \in Amounts : AddInt64(c, n)
  \/ NextStage

MetricsSpec == MetricsInit /\ [][MetricsNext]_metricsVars

-----------------------------------------------------------------------------
(* What holds *)

\* Taken off a counter and not reported yet.
InFlight(c) ==
  IF \/ stage = "report" /\ c \in undone
     \/ stage = "subtract" /\ c \notin undone
  THEN taken[c] ELSE 0

\* What is added while Work reads, subtracts and reports is neither lost nor
\* reported twice (metrics.go 111-135).
Conserved ==
  \A c \in Counters : reported[c] + InFlight(c) + counter[c] = happened[c]
=============================================================================
