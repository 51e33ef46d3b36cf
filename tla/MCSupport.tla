------------------------------- MODULE MCSupport -------------------------------
(***************************************************************************)
(* For TLC, the parts of the import service that token actors and          *)
(* workflows rest on, each on its own: part says which one a behaviour is  *)
(* about, and the others stay in one of their initial states.              *)
(***************************************************************************)
EXTENDS HttpClient, Session, Daemons, Metrics, TimeShift, TokenFormat, TLC

VARIABLE part

partVars == <<httpVars, sessionVars, daemonsVars, metricsVars, shiftVars, formatVars>>
mcVars == <<partVars, part>>

\* HttpClient: three calls, two of them for one transaction.
Three == {"c1", "c2", "c3"}
ThreeServices == [c \in Three |-> IF c = "c3" THEN "vault" ELSE "ledger"]
ThreeItems == [c \in Three |-> IF c = "c3" THEN "account" ELSE "transaction"]
SomeWaits == {-1, 7}

\* TimeShift: months of two and three days of two moments.
FourMonths == <<0, 6, 10, 16, 22>>

\* TokenFormat
Word(text) == <<text>>
SomePrefixes ==
  ("ann" :> "short") @@ ("longword" :> "lon") @@ ("CZKsecret" :> "CZK")
SomeNames == {
  <<Word("ann")>>, <<Word("longword")>>, <<Space>>, <<Space, Word("ann")>>,
  <<Word("ann"), Space>>, <<Word("ann"), Space, Space>>,
  <<Word("ann"), Space, Word("longword")>>,
  << <<"ann", "longword">> >>, << <<"longword", "CZKsecret">> >>}
SomeDates == {
  [year |-> 2020, month |-> 12, day |-> 13, hour |-> 5],
  [year |-> 2021, month |-> 3, day |-> 4, hour |-> 0]}

Parts == {"http", "session", "daemons", "metrics", "shift", "format"}

MCInit ==
  /\ part \in Parts
  /\ HttpInit /\ SessionInit /\ DaemonsInit /\ MetricsInit /\ ShiftInit /\ FormatInit
  /\ part # "shift" => startDate = 0 /\ endDate = 0
  /\ part # "format" => sent = [user |-> <<Word("ann")>>, pass |-> <<Word("ann")>>]

\* A step of part p.
In(p, step) ==
  /\ part = p /\ step /\ UNCHANGED part
  /\ p = "http" \/ UNCHANGED httpVars
  /\ p = "session" \/ UNCHANGED sessionVars
  /\ p = "daemons" \/ UNCHANGED daemonsVars
  /\ p = "metrics" \/ UNCHANGED metricsVars
  /\ p = "shift" \/ UNCHANGED shiftVars
  /\ p = "format" \/ UNCHANGED formatVars

MCNext ==
  \/ In("http", HttpNext)
  \/ In("session", SessionNext)
  \/ In("daemons", DaemonsNext)
  \/ In("metrics", MetricsNext)
  \/ In("shift", ShiftNext)
  \/ In("format", FormatNext)

\* The type invariants of the parts.
PartsTypeOK ==
  /\ HttpTypeOK /\ SessionTypeOK /\ DaemonsTypeOK /\ MetricsTypeOK /\ ShiftTypeOK

\* Client.Do is scheduled, and services answer what reaches them; goroutines of
\* daemons are scheduled, and a worker that is canceled returns.
MCFairness ==
  /\ \A c \in Calls : WF_mcVars(In("http", HttpStep(c) \/ HttpServe(c)))
  /\ WF_mcVars(In("session", QueryStep))
  /\ \A d \in AllDaemons :
       /\ WF_mcVars(In("daemons", program # "ended" /\ DaemonStop(d)))
       /\ WF_mcVars(In("daemons", program # "ended" /\ DaemonStart(d)))
  /\ WF_mcVars(In("daemons", ProgramStep))

MCSpec == MCInit /\ [][MCNext]_mcVars /\ MCFairness
=============================================================================
