------------------------------ MODULE HttpClient ------------------------------
(***************************************************************************)
(* http.Client.Do (support/http) as the ledger and the vault client of the *)
(* import service use it: a request is sent until the answer is final, the *)
(* waits between the attempts double up to a maximum, and the client that  *)
(* asked reads success or failure from the final status.                   *)
(*                                                                         *)
(* Between the attempts the network and the service do what they like: a   *)
(* connection breaks before the service has seen the request, after it has *)
(* acted on it, or while the request still waits there; the service        *)
(* refuses, is overloaded, or reports an error for what it has done.       *)
(* Several calls run at once, also for the same transaction or account.    *)
(***************************************************************************)
EXTENDS Integers, FiniteSets

CONSTANTS
  Calls,             \* calls of Client.Do
  ServiceOf,         \* [Calls -> {"ledger", "vault"}]
  ItemOf,            \* the transaction or account a call creates
  MinWait, MaxWait,  \* a millisecond and a second
  Overflow,          \* from here on a wait does not fit a time.Duration
  RetryAfters,       \* what a Retry-After header asks for
  MaxFaults          \* bound on the faults of network and services

ASSUME ServicesAssumption == ServiceOf \in [Calls -> {"ledger", "vault"}]
ASSUME WaitsAssumption ==
  /\ MinWait \in Nat /\ MaxWait \in Nat /\ Overflow \in Nat
  /\ 0 < MinWait /\ MinWait <= MaxWait /\ MaxWait < Overflow
ASSUME RetryAftersAssumption == RetryAfters \subseteq Int
ASSUME FaultsAssumption == MaxFaults \in Nat

VARIABLES
  http,     \* [Calls -> HttpCall]
  created,  \* the transactions and accounts the services have
  stray,    \* calls with a request at the service whose connection is gone
  faults

httpVars == <<http, created, stray, faults>>

HttpPcs == {"ready", "send", "sent", "answered", "broken", "fatal", "waiting", "done"}

\* 200 stands for the statuses the ledger accepts (200, 201, 202), 503 for those
\* from 500 on other than 501, 404 for the ones nobody looks for.
Statuses == {0, 200, 400, 404, 409, 429, 501, 503}

\* mult is 2^i milliseconds before attempt i; asked: the wait is the service's.
HttpCall == [pc: HttpPcs, body: {"whole", "spent"}, status: Statuses,
             mult: 0..2 * Overflow, wait: Nat \cup RetryAfters, asked: BOOLEAN,
             result: {"none", "ok", "failed"}]

\* Type invariant.
HttpTypeOK ==
  /\ http \in [Calls -> HttpCall]
  /\ created \subseteq {ItemOf[c] : c \in Calls}
  /\ stray \subseteq Calls
  /\ faults \in 0..MaxFaults

HttpInit ==
  /\ http = [c \in Calls |-> [pc |-> "ready", body |-> "spent", status |-> 0,
               mult |-> MinWait, wait |-> 0, asked |-> FALSE, result |-> "none"]]
  /\ created = {} /\ stray = {} /\ faults = 0

-----------------------------------------------------------------------------
(* The loop of Client.Do *)

HttpBegin(c) ==
  /\ http[c].pc = "ready"
  /\ http' = [http EXCEPT ![c].pc = "send"]
  /\ UNCHANGED <<created, stray, faults>>

\* Mutant of HttpSend: the body of the first attempt serves all.
HttpSendAgain(c) ==
  /\ http[c].pc = "send"
  /\ http' = [http EXCEPT ![c].pc = "sent",
                ![c].body = IF http[c].mult = MinWait THEN "whole" ELSE @]
  /\ UNCHANGED <<created, stray, faults>>

\* Every attempt gets a new reader of the body.
HttpSend(c) ==
  /\ http[c].pc = "send"
  /\ http' = [http EXCEPT ![c].pc = "sent", ![c].body = "whole"]
  /\ UNCHANGED <<created, stray, faults>>

\* Mutant of HttpRetries: what is not a success is tried again.
HttpRetriesRefusals(c) ==
  \/ http[c].pc = "broken"
  \/ http[c].pc = "answered" /\ http[c].status >= 400

\* DefaultRetryPolicy: broken connections, overload, and errors of the service
\* except "not implemented". Redirect loops, unknown schemes and certificates of
\* unknown authorities ("fatal") are final.
HttpRetries(c) ==
  \/ http[c].pc = "broken"
  \/ /\ http[c].pc = "answered"
     /\ \/ http[c].status = 429
        \/ http[c].status >= 500 /\ http[c].status # 501

\* Mutant of Backoff: the conversion is trusted.
BackoffUnchecked(mult) ==
  IF mult < Overflow THEN {IF mult > MaxWait THEN MaxWait ELSE mult} ELSE {-Overflow}

\* DefaultBackoff without a header. The conversion of a float that does not fit
\* is up to the platform: the least integer, or the greatest.
Backoff(mult) ==
  LET converted == IF mult < Overflow THEN {mult} ELSE {-Overflow, Overflow - 1}
  IN {IF sleep # mult \/ sleep > MaxWait THEN MaxWait ELSE sleep : sleep \in converted}

\* The Retry-After header of an overloaded service is obeyed, whatever it says.
HttpWait(c) ==
  /\ http[c].pc \in {"answered", "broken"} /\ HttpRetries(c)
  /\ \/ \E w \in Backoff(http[c].mult) :
          http' = [http EXCEPT ![c] =
            [@ EXCEPT !.pc = "waiting", !.wait = w, !.status = 0, !.asked = FALSE]]
     \/ /\ http[c].pc = "answered" /\ http[c].status \in {429, 503}
        /\ \E w \in RetryAfters :
             http' = [http EXCEPT ![c] =
               [@ EXCEPT !.pc = "waiting", !.wait = w, !.status = 0, !.asked = TRUE]]
  /\ UNCHANGED <<created, stray, faults>>

\* Beyond Overflow all values of mult give the same wait.
HttpWake(c) ==
  /\ http[c].pc = "waiting"
  /\ http' = [http EXCEPT ![c].pc = "send", ![c].wait = 0, ![c].asked = FALSE,
                         ![c].mult = IF @ < Overflow THEN 2 * @ ELSE @]
  /\ UNCHANGED <<created, stray, faults>>

\* Mutants of Accepts: the status is not looked at; and the ledger is read like
\* the vault.
AcceptsAll(service, status) == TRUE

AcceptsDuplicates(service, status) == status \in {200, 409}

\* CreateTransaction takes a duplicate for an error, CreateAccount does not.
Accepts(service, status) ==
  status = 200 \/ (service = "vault" /\ status = 409)

HttpReturn(c) ==
  /\ http[c].pc \in {"answered", "fatal"} /\ ~HttpRetries(c)
  /\ http' = [http EXCEPT ![c].pc = "done", ![c].result =
       IF http[c].pc = "answered" /\ Accepts(ServiceOf[c], http[c].status)
       THEN "ok" ELSE "failed"]
  /\ UNCHANGED <<created, stray, faults>>

HttpStep(c) == HttpBegin(c) \/ HttpSend(c) \/ HttpWait(c) \/ HttpWake(c) \/ HttpReturn(c)

-----------------------------------------------------------------------------
(* The ledger and the vault, and the network before them *)

Whole == {c \in Calls : http[c].body = "whole"}

HttpAnswer(c, status) ==
  http' = [http EXCEPT ![c] =
    [@ EXCEPT !.pc = "answered", !.status = status, !.body = "spent"]]

\* A service that works creates what it does not have, and refuses a request
\* without its body.
HttpServe(c) ==
  /\ http[c].pc = "sent"
  /\ IF c \notin Whole THEN HttpAnswer(c, 400) /\ UNCHANGED created
     ELSE IF ItemOf[c] \in created THEN HttpAnswer(c, 409) /\ UNCHANGED created
     ELSE HttpAnswer(c, 200) /\ created' = created \cup {ItemOf[c]}
  /\ UNCHANGED <<stray, faults>>

HttpServeFaulty(c) ==
  /\ http[c].pc = "sent" /\ faults < MaxFaults
  /\ \/ /\ \E status \in {404, 429, 501, 503} : HttpAnswer(c, status)
        /\ UNCHANGED created
     \/ /\ HttpAnswer(c, 503)
        /\ c \in Whole /\ created' = created \cup {ItemOf[c]}
  /\ faults' = faults + 1
  /\ UNCHANGED stray

\* The connection is refused for good, or breaks: then the request may have been
\* lost, or have reached the service.
HttpBreak(c) ==
  /\ http[c].pc = "sent" /\ faults < MaxFaults
  /\ \/ /\ http' = [http EXCEPT ![c].pc = "fatal", ![c].body = "spent"]
        /\ UNCHANGED stray
     \/ /\ http' = [http EXCEPT ![c].pc = "broken", ![c].body = "spent"]
        /\ stray' \in {stray} \cup {stray \cup {d} : d \in {c} \cap Whole}
  /\ faults' = faults + 1
  /\ UNCHANGED created

\* A request nobody waits for any more is served in the end, or dropped.
HttpServeStray(c) ==
  /\ c \in stray
  /\ stray' = stray \ {c}
  /\ created' \in {created, created \cup {ItemOf[c]}}
  /\ UNCHANGED <<http, faults>>

HttpNext ==
  \E c \in Calls :
    \/ HttpStep(c)
    \/ HttpServe(c) \/ HttpServeFaulty(c) \/ HttpBreak(c) \/ HttpServeStray(c)

HttpSpec == HttpInit /\ [][HttpNext]_httpVars

-----------------------------------------------------------------------------
(* What holds *)

\* A call keeps the promise of GatewayCall: success is reported only for what
\* the service has, whatever was lost, repeated or served late on the way
\* (client.go 81-140, ledger/client.go 56-74, vault/client.go 55-70).
HttpPromise == INSTANCE GatewayCall WITH
  outcome <- [c \in Calls |->
    IF http[c].pc = "ready" THEN "ready"
    ELSE IF http[c].pc = "done" THEN http[c].result ELSE "open"]

HttpImplements == HttpPromise!Spec

\* However many calls post the same transaction, and however often each repeats
\* it, at most one of them reports success (ledger/client.go, line 61).
PostedOnce ==
  \A c, d \in Calls :
    /\ ServiceOf[c] = "ledger" /\ ServiceOf[d] = "ledger" /\ ItemOf[c] = ItemOf[d]
    /\ http[c].result = "ok" /\ http[d].result = "ok"
    => c = d

\* No attempt reaches a service without its body, which the attempt before it
\* has consumed (client.go 84-95, request.go 36-38).
NeverMalformed == \A c \in Calls : http[c].status # 400

\* Without a Retry-After header the wait is never shorter than the minimum, so
\* that a service that is down is not flooded, nor longer than the maximum,
\* although the doubling leaves the range of a duration (backoff.go 38-43).
WaitBounded ==
  \A c \in Calls :
    http[c].pc = "waiting" /\ ~http[c].asked => http[c].wait \in MinWait..MaxWait

\* If faults are finitely many, every call ends although the loop has no bound
\* (client.go, line 81).
HttpEnds == \A c \in Calls : (http[c].pc # "ready") ~> (http[c].pc = "done")
=============================================================================
