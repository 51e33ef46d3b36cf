---------------------------- MODULE HttpClient_proofs ----------------------------
(***************************************************************************)
(* HttpClient for any number of calls, services and faults: what the       *)
(* caller of Client.Do is promised (GatewayCall), that a transaction is    *)
(* acknowledged to one call at most, that no attempt is without its body,  *)
(* and the bounds of the waits.                                            *)
(*                                                                         *)
(* HttpInv is inductive. Its heart is that an answer the caller would      *)
(* accept, now or in the end, is about something the service has, and that *)
(* at the ledger only the call that created it ever gets such an answer.   *)
(***************************************************************************)
EXTENDS HttpClient, TLAPS

\* Call c has an answer that counts as success.
Won(c) ==
  \/ http[c].pc = "answered" /\ Accepts(ServiceOf[c], http[c].status)
  \/ http[c].result = "ok"

CallInv(c) ==
  /\ http[c].mult >= MinWait
  /\ http[c].pc # "done" => http[c].result = "none"
  /\ http[c].pc = "sent" => http[c].body = "whole"
  /\ http[c].status # 400
  /\ c \in stray => http[c].pc # "ready"
  /\ Won(c) => ItemOf[c] \in created
  /\ http[c].pc = "waiting" /\ ~http[c].asked => http[c].wait \in MinWait..MaxWait

OneWinner ==
  \A c, d \in Calls :
    /\ ServiceOf[c] = "ledger" /\ ServiceOf[d] = "ledger" /\ ItemOf[c] = ItemOf[d]
    /\ Won(c) /\ Won(d)
    => c = d

HttpInv == HttpTypeOK /\ (\A c \in Calls : CallInv(c)) /\ OneWinner

LEMMA HttpInit_Inv == HttpInit => HttpInv
<1> SUFFICES ASSUME HttpInit PROVE HttpInv
  OBVIOUS
<1>1. \A c \in Calls : http[c] = [pc |-> "ready", body |-> "spent", status |-> 0,
        mult |-> MinWait, wait |-> 0, asked |-> FALSE, result |-> "none"]
  BY DEF HttpInit
<1>2. HttpTypeOK
  <2>1. MinWait \in 0..2 * Overflow
    BY WaitsAssumption
  <2>2. 0 \in 0..MaxFaults
    BY FaultsAssumption
  <2> QED
    BY <2>1, <2>2 DEF HttpInit, HttpTypeOK, HttpCall, HttpPcs, Statuses
<1>3. \A c \in Calls : ~Won(c)
  BY <1>1 DEF Won
<1>4. ASSUME NEW c \in Calls PROVE CallInv(c)
  BY <1>1, <1>3, WaitsAssumption DEF CallInv, HttpInit
<1> QED
  BY <1>2, <1>3, <1>4 DEF HttpInv, OneWinner

\* What a step of call c has to show: the rest of HttpInv follows.
LEMMA HttpStep_Inv ==
  ASSUME HttpInv, NEW c \in Calls, HttpTypeOK',
         \A d \in Calls \ {c} : http'[d] = http[d],
         created \subseteq created', stray' \subseteq stray \cup {c},
         http'[c].pc # "ready", http'[c].mult >= MinWait,
         http'[c].pc # "done" => http'[c].result = "none",
         http'[c].pc = "sent" => http'[c].body = "whole",
         http'[c].status # 400,
         Won(c)' => ItemOf[c] \in created',
         ServiceOf[c] = "ledger" /\ Won(c)' => Won(c) \/ ItemOf[c] \notin created,
         http'[c].pc = "waiting" /\ ~http'[c].asked => http'[c].wait \in MinWait..MaxWait
  PROVE HttpInv'
<1>1. \A d \in Calls \ {c} : Won(d)' <=> Won(d)
  BY DEF Won
<1>2. ASSUME NEW d \in Calls PROVE CallInv(d)'
  <2>1. CASE d = c
    BY <2>1 DEF CallInv
  <2>2. CASE d # c
    BY <2>2, <1>1 DEF CallInv, HttpInv
  <2> QED
    BY <2>1, <2>2
<1>3. OneWinner'
  <2> SUFFICES ASSUME NEW a \in Calls, NEW b \in Calls, ServiceOf[a] = "ledger",
                      ServiceOf[b] = "ledger", ItemOf[a] = ItemOf[b], Won(a)', Won(b)'
               PROVE a = b
    BY DEF OneWinner
  <2>1. \A d \in Calls : Won(d) => ItemOf[d] \in created
    BY DEF HttpInv, CallInv
  <2>2. CASE a = c /\ b # c
    BY <2>2, <2>1, <1>1 DEF HttpInv, OneWinner
  <2>3. CASE a # c /\ b = c
    BY <2>3, <2>1, <1>1 DEF HttpInv, OneWinner
  <2>4. CASE a # c /\ b # c
    BY <2>4, <1>1 DEF HttpInv, OneWinner
  <2> QED
    BY <2>2, <2>3, <2>4
<1> QED
  BY <1>2, <1>3 DEF HttpInv

LEMMA Backoff_Bounded ==
  ASSUME NEW mult \in Nat, mult >= MinWait, NEW w \in Backoff(mult)
  PROVE w \in MinWait..MaxWait
  BY WaitsAssumption DEF Backoff

\* What the invariant says of the call that takes a step.
LEMMA CallTyped ==
  ASSUME HttpInv, NEW c \in Calls
  PROVE /\ http \in [Calls -> HttpCall] /\ http[c] \in HttpCall
        /\ CallInv(c)
        /\ created \subseteq {ItemOf[d] : d \in Calls} /\ stray \subseteq Calls
        /\ faults \in 0..MaxFaults
        /\ MinWait \in Nat /\ MaxWait \in Nat /\ Overflow \in Nat /\ 0 < MinWait
  BY WaitsAssumption DEF HttpInv, HttpTypeOK

\* Typing of a call whose wait, or whose answer, has been written.
LEMMA CallPut ==
  ASSUME NEW r \in HttpCall, NEW pc \in HttpPcs, NEW s \in Statuses, NEW b \in {"whole", "spent"},
         NEW m \in 0..2 * Overflow, NEW w \in Nat \cup RetryAfters, NEW a \in BOOLEAN
  PROVE [r EXCEPT !.pc = pc, !.status = s, !.body = b, !.mult = m, !.wait = w, !.asked = a]
          \in HttpCall
  BY DEF HttpCall

\* Typing of a call that begins to wait.
LEMMA CallWaits ==
  ASSUME NEW r \in HttpCall, NEW w \in Nat \cup RetryAfters, NEW a \in BOOLEAN
  PROVE [r EXCEPT !.pc = "waiting", !.wait = w, !.status = 0, !.asked = a] \in HttpCall
<1>1. "waiting" \in HttpPcs /\ 0 \in Statuses
  BY DEF HttpPcs, Statuses
<1> QED
  BY <1>1 DEF HttpCall

\* What an answer changes.
LEMMA Answered ==
  ASSUME HttpInv, NEW c \in Calls, NEW s \in Statuses, HttpAnswer(c, s)
  PROVE /\ http' \in [Calls -> HttpCall]
        /\ http'[c].pc = "answered" /\ http'[c].status = s
        /\ http'[c].mult = http[c].mult /\ http'[c].result = http[c].result
        /\ \A d \in Calls \ {c} : http'[d] = http[d]
<1>0. http \in [Calls -> HttpCall] /\ http[c] \in HttpCall
  BY CallTyped
<1>1. http' = [http EXCEPT ![c] = [@ EXCEPT !.pc = "answered", !.status = s, !.body = "spent"]]
  BY DEF HttpAnswer
<1>2. [http[c] EXCEPT !.pc = "answered", !.status = s, !.body = "spent"] \in HttpCall
  BY <1>0 DEF HttpCall, HttpPcs
<1>3. http' \in [Calls -> HttpCall]
  BY <1>0, <1>1, <1>2
<1>4. http'[c] = [http[c] EXCEPT !.pc = "answered", !.status = s, !.body = "spent"]
  BY <1>0, <1>1
<1>5. \A d \in Calls \ {c} : http'[d] = http[d]
  BY <1>0, <1>1
<1> QED
  BY <1>0, <1>3, <1>4, <1>5 DEF HttpCall

LEMMA HttpBegin_Inv ==
  ASSUME HttpInv, NEW c \in Calls, HttpBegin(c) PROVE HttpInv'
<1>1. http'[c] = [http[c] EXCEPT !.pc = "send"]
  BY CallTyped DEF HttpBegin
<1>2. HttpTypeOK'
  BY CallTyped DEF HttpBegin, HttpTypeOK, HttpCall, HttpPcs
<1>3. Won(c)' => Won(c)
  BY CallTyped, <1>1 DEF Won, HttpCall
<1> QED
  BY <1>1, <1>2, <1>3, CallTyped, HttpStep_Inv DEF HttpBegin, HttpCall, CallInv

LEMMA HttpSend_Inv ==
  ASSUME HttpInv, NEW c \in Calls, HttpSend(c) PROVE HttpInv'
<1>1. http'[c] = [http[c] EXCEPT !.pc = "sent", !.body = "whole"]
  BY CallTyped DEF HttpSend
<1>2. HttpTypeOK'
  BY CallTyped DEF HttpSend, HttpTypeOK, HttpCall, HttpPcs
<1>3. Won(c)' => Won(c)
  BY CallTyped, <1>1 DEF Won, HttpCall
<1> QED
  BY <1>1, <1>2, <1>3, CallTyped, HttpStep_Inv DEF HttpSend, HttpCall, CallInv

LEMMA HttpWake_Inv ==
  ASSUME HttpInv, NEW c \in Calls, HttpWake(c) PROVE HttpInv'
<1>0. /\ http \in [Calls -> HttpCall] /\ http[c] \in HttpCall
      /\ CallInv(c)
  BY CallTyped
<1>1. http'[c] = [http[c] EXCEPT !.pc = "send", !.wait = 0, !.asked = FALSE,
                    !.mult = IF @ < Overflow THEN 2 * @ ELSE @]
  BY CallTyped DEF HttpWake
<1>2. http[c].mult \in 0..2 * Overflow
  BY CallTyped DEF HttpCall
<1>3. /\ http'[c].mult \in 0..2 * Overflow
      /\ http'[c].mult >= http[c].mult
  BY <1>1, <1>2, CallTyped DEF HttpCall
<1>4. http'[c] \in HttpCall
  <2>1. http'[c] = [http[c] EXCEPT !.pc = "send", !.status = http[c].status,
                     !.body = http[c].body, !.mult = http'[c].mult, !.wait = 0, !.asked = FALSE]
    BY <1>1, CallTyped DEF HttpCall
  <2>2. http[c].status \in Statuses /\ http[c].body \in {"whole", "spent"}
    BY CallTyped DEF HttpCall
  <2>3. "send" \in HttpPcs /\ 0 \in Nat \cup RetryAfters
    BY DEF HttpPcs
  <2>4. [http[c] EXCEPT !.pc = "send", !.status = http[c].status, !.body = http[c].body,
           !.mult = http'[c].mult, !.wait = 0, !.asked = FALSE] \in HttpCall
    BY <1>0, <2>2, <2>3, <1>3, CallPut
  <2> QED
    BY <2>1, <2>4
<1>5. HttpTypeOK'
  BY <1>4, CallTyped DEF HttpWake, HttpTypeOK
<1>6. Won(c)' => Won(c)
  BY CallTyped, <1>1 DEF Won, HttpCall
<1>7. http'[c].mult >= MinWait
  BY <1>2, <1>3, CallTyped DEF CallInv
<1> QED
  BY <1>1, <1>5, <1>6, <1>7, CallTyped, HttpStep_Inv DEF HttpWake, HttpCall, CallInv

LEMMA HttpReturn_Inv ==
  ASSUME HttpInv, NEW c \in Calls, HttpReturn(c) PROVE HttpInv'
<1>1. http'[c] = [http[c] EXCEPT !.pc = "done", !.result =
         IF http[c].pc = "answered" /\ Accepts(ServiceOf[c], http[c].status)
         THEN "ok" ELSE "failed"]
  BY CallTyped DEF HttpReturn
<1>2. HttpTypeOK'
  BY CallTyped DEF HttpReturn, HttpTypeOK, HttpCall, HttpPcs
<1>3. Won(c)' => Won(c)
  BY CallTyped, <1>1 DEF Won, HttpCall
<1>4. Won(c) => ItemOf[c] \in created
  BY CallTyped DEF CallInv
<1> QED
  BY <1>1, <1>2, <1>3, <1>4, CallTyped, HttpStep_Inv DEF HttpReturn, HttpCall, CallInv

LEMMA HttpWait_Inv ==
  ASSUME HttpInv, NEW c \in Calls, HttpWait(c) PROVE HttpInv'
<1>0. /\ http \in [Calls -> HttpCall] /\ http[c] \in HttpCall
      /\ CallInv(c)
  BY CallTyped
<1>1. PICK w \in Nat \cup RetryAfters, asked \in BOOLEAN :
        /\ http' = [http EXCEPT ![c] =
                 [@ EXCEPT !.pc = "waiting", !.wait = w, !.status = 0, !.asked = asked]]
        /\ ~asked => w \in MinWait..MaxWait
  <2>1. CASE \E w \in Backoff(http[c].mult) :
               http' = [http EXCEPT ![c] =
                 [@ EXCEPT !.pc = "waiting", !.wait = w, !.status = 0, !.asked = FALSE]]
    <3>1. PICK w \in Backoff(http[c].mult) :
               http' = [http EXCEPT ![c] =
                 [@ EXCEPT !.pc = "waiting", !.wait = w, !.status = 0, !.asked = FALSE]]
      BY <2>1
    <3>2. http[c].mult \in Nat /\ http[c].mult >= MinWait
      BY CallTyped DEF HttpCall, CallInv
    <3>3. w \in MinWait..MaxWait
      BY <3>2, Backoff_Bounded
    <3>4. w \in Nat
      BY <3>3, CallTyped
    <3> QED
      BY <3>1, <3>3, <3>4
  <2>2. CASE \E w \in RetryAfters :
               http' = [http EXCEPT ![c] =
                 [@ EXCEPT !.pc = "waiting", !.wait = w, !.status = 0, !.asked = TRUE]]
    BY <2>2
  <2> QED
    BY <2>1, <2>2 DEF HttpWait
<1>2. http'[c] = [http[c] EXCEPT !.pc = "waiting", !.wait = w, !.status = 0, !.asked = asked]
  BY <1>1, CallTyped
<1>3. http'[c] \in HttpCall
  <2>1. http[c] \in HttpCall /\ w \in Nat \cup RetryAfters /\ asked \in BOOLEAN
    BY CallTyped
  <2>2. [http[c] EXCEPT !.pc = "waiting", !.wait = w, !.status = 0, !.asked = asked] \in HttpCall
    BY <2>1, CallWaits, Zenon
  <2> QED
    BY <1>2, <2>2, Zenon
<1>4. HttpTypeOK'
  <2>1. \A d \in Calls \ {c} : http'[d] = http[d]
    BY <1>1, CallTyped
  <2>2. http' = [d \in Calls |-> http'[d]]
    BY <1>1, CallTyped
  <2>3. http' \in [Calls -> HttpCall]
    BY <2>1, <2>2, <1>3, CallTyped
  <2> QED
    BY <2>3, CallTyped DEF HttpWait, HttpTypeOK
<1>5. Won(c)' => Won(c)
  BY CallTyped, <1>2 DEF Won, HttpCall
<1>6. http'[c].pc = "waiting" /\ ~http'[c].asked => http'[c].wait \in MinWait..MaxWait
  BY <1>1, <1>2, CallTyped DEF HttpCall
<1>7. Won(c) => ItemOf[c] \in created
  BY CallTyped DEF CallInv
<1>8. /\ http'[c].mult >= MinWait /\ http'[c].pc # "ready" /\ http'[c].pc # "sent"
      /\ http'[c].status # 400 /\ http'[c].result = "none"
  <2>1. http[c].mult >= MinWait /\ http[c].result = "none"
    BY <1>0 DEF CallInv, HttpWait
  <2> QED
    BY <1>2, <2>1, CallTyped DEF HttpCall
<1>9. /\ \A d \in Calls \ {c} : http'[d] = http[d]
      /\ created' = created /\ stray' = stray
  BY <1>1, CallTyped DEF HttpWait
<1> QED
  BY <1>4, <1>5, <1>6, <1>7, <1>8, <1>9, HttpStep_Inv

\* The answer of a service that works.
LEMMA HttpServe_Inv ==
  ASSUME HttpInv, NEW c \in Calls, HttpServe(c) PROVE HttpInv'
<1>0. /\ CallInv(c)
      /\ http[c].pc = "sent" /\ http[c].body = "whole" /\ http[c].result = "none"
  BY CallTyped DEF HttpServe, CallInv
<1>1. PICK status \in {200, 409} :
        /\ HttpAnswer(c, status)
        /\ \/ status = 409 /\ ItemOf[c] \in created /\ created' = created
           \/ /\ status = 200 /\ ItemOf[c] \notin created
              /\ created' = created \cup {ItemOf[c]}
  BY <1>0 DEF HttpServe, Whole
<1>2. /\ http' \in [Calls -> HttpCall]
      /\ http'[c].pc = "answered" /\ http'[c].status = status
      /\ http'[c].mult = http[c].mult /\ http'[c].result = http[c].result
      /\ \A d \in Calls \ {c} : http'[d] = http[d]
  <2>1. status \in Statuses
    BY <1>1 DEF Statuses
  <2> QED
    BY <1>1, <2>1, Answered
<1>3. HttpTypeOK'
  BY <1>1, <1>2, CallTyped DEF HttpServe, HttpTypeOK
<1>4. /\ http'[c].pc = "answered" /\ http'[c].status = status /\ status # 400
      /\ http'[c].result = "none" /\ http'[c].mult >= MinWait
  BY <1>0, <1>1, <1>2 DEF CallInv
<1>5. ServiceOf[c] = "ledger" /\ Won(c)' => ItemOf[c] \notin created
  BY <1>1, <1>4 DEF Won, Accepts
<1>6. /\ created \subseteq created' /\ stray' \subseteq stray \cup {c}
      /\ Won(c)' => ItemOf[c] \in created'
  BY <1>1 DEF HttpServe
<1> QED
  BY <1>2, <1>3, <1>4, <1>5, <1>6, HttpStep_Inv

\* No status of a faulty service is a success, whatever the service has done.
LEMMA HttpServeFaulty_Inv ==
  ASSUME HttpInv, NEW c \in Calls, HttpServeFaulty(c) PROVE HttpInv'
<1>0. CallInv(c) /\ http[c].pc = "sent" /\ http[c].result = "none"
  BY CallTyped DEF HttpServeFaulty, CallInv
<1>1. PICK status \in Statuses :
        HttpAnswer(c, status) /\ status \in {404, 429, 501, 503}
  BY DEF HttpServeFaulty, Statuses
<1>2. created' \in {created, created \cup {ItemOf[c]}}
  BY DEF HttpServeFaulty
<1>3. /\ http' \in [Calls -> HttpCall]
      /\ http'[c].pc = "answered" /\ http'[c].status = status
      /\ http'[c].mult = http[c].mult /\ http'[c].result = http[c].result
      /\ \A d \in Calls \ {c} : http'[d] = http[d]
  BY <1>1, Answered
<1>4. faults' \in 0..MaxFaults
  BY CallTyped, FaultsAssumption DEF HttpServeFaulty
<1>5. HttpTypeOK'
  BY <1>2, <1>3, <1>4, CallTyped DEF HttpServeFaulty, HttpTypeOK
<1>6. /\ http'[c].pc = "answered" /\ http'[c].status = status
      /\ status \in {404, 429, 501, 503}
      /\ http'[c].result = "none" /\ http'[c].mult >= MinWait
  BY <1>0, <1>1, <1>3 DEF CallInv
<1>7. ~Won(c)' /\ http'[c].status # 400
  BY <1>6 DEF Won, Accepts
<1>8. created \subseteq created' /\ stray' \subseteq stray \cup {c}
  BY <1>2 DEF HttpServeFaulty
<1> QED
  BY <1>3, <1>5, <1>6, <1>7, <1>8, HttpStep_Inv

LEMMA HttpBreak_Inv ==
  ASSUME HttpInv, NEW c \in Calls, HttpBreak(c) PROVE HttpInv'
<1>0. /\ http \in [Calls -> HttpCall] /\ http[c] \in HttpCall
      /\ CallInv(c) /\ http[c].pc = "sent"
  BY CallTyped DEF HttpBreak
<1>1. PICK pc \in {"fatal", "broken"} :
        /\ http' = [http EXCEPT ![c].pc = pc, ![c].body = "spent"]
        /\ stray' \subseteq stray \cup {c}
  BY DEF HttpBreak
<1>2. http'[c] = [http[c] EXCEPT !.pc = pc, !.body = "spent"]
  BY <1>0, <1>1
<1>3. HttpTypeOK'
  <2>1. faults' \in 0..MaxFaults
    BY CallTyped, FaultsAssumption DEF HttpBreak
  <2>2. http' \in [Calls -> HttpCall]
    BY <1>0, <1>1 DEF HttpCall, HttpPcs
  <2> QED
    BY <2>1, <2>2, <1>1, CallTyped DEF HttpBreak, HttpTypeOK
<1>4. http[c].result = "none"
  BY <1>0 DEF CallInv
<1>5. ~Won(c)'
  BY <1>0, <1>2, <1>4 DEF Won, HttpCall
<1> QED
  BY <1>0, <1>1, <1>2, <1>3, <1>4, <1>5, HttpStep_Inv DEF HttpBreak, HttpCall, CallInv

LEMMA HttpServeStray_Inv ==
  ASSUME HttpInv, NEW c \in Calls, HttpServeStray(c) PROVE HttpInv'
<1>1. http' = http /\ created \subseteq created' /\ stray' \subseteq stray
  BY DEF HttpServeStray
<1>2. HttpTypeOK'
  BY CallTyped DEF HttpServeStray, HttpTypeOK
<1>3. \A d \in Calls : (Won(d)' <=> Won(d)) /\ CallInv(d)'
  BY <1>1, CallTyped DEF Won, CallInv
<1> QED
  BY <1>2, <1>3 DEF HttpInv, OneWinner

-----------------------------------------------------------------------------

LEMMA HttpNext_Inv == HttpInv /\ [HttpNext]_httpVars => HttpInv'
<1> SUFFICES ASSUME HttpInv, [HttpNext]_httpVars PROVE HttpInv'
  OBVIOUS
<1>1. ASSUME UNCHANGED httpVars PROVE HttpInv'
  BY <1>1 DEF httpVars, HttpInv, HttpTypeOK, CallInv, OneWinner, Won
<1>2. ASSUME NEW c \in Calls,
             HttpStep(c) \/ HttpServe(c) \/ HttpServeFaulty(c) \/ HttpBreak(c) \/ HttpServeStray(c)
      PROVE HttpInv'
  BY <1>2, HttpBegin_Inv, HttpSend_Inv, HttpWait_Inv, HttpWake_Inv, HttpReturn_Inv,
     HttpServe_Inv, HttpServeFaulty_Inv, HttpBreak_Inv, HttpServeStray_Inv DEF HttpStep
<1> QED
  BY <1>1, <1>2 DEF HttpNext

\* The invariant holds in every state of every behaviour.
LEMMA HttpSpec_Inv == HttpSpec => []HttpInv
<1>1. HttpInit => HttpInv
  BY HttpInit_Inv
<1>2. HttpInv /\ [HttpNext]_httpVars => HttpInv'
  BY HttpNext_Inv
<1> QED
  BY <1>1, <1>2, PTL DEF HttpSpec

\* Calls, statuses and waits keep their types.
THEOREM HttpSpec_TypeOK == HttpSpec => []HttpTypeOK
<1>1. HttpInv => HttpTypeOK
  BY DEF HttpInv
<1> QED
  BY <1>1, HttpSpec_Inv, PTL

\* However many calls post a transaction, and however often each repeats it, at
\* most one reports success (ledger/client.go, line 61).
THEOREM HttpSpec_PostedOnce == HttpSpec => []PostedOnce
<1>1. HttpInv => PostedOnce
  BY DEF HttpInv, OneWinner, PostedOnce, Won
<1> QED
  BY <1>1, HttpSpec_Inv, PTL

\* No attempt is made with the body the attempt before it has consumed
\* (client.go 84-95).
THEOREM HttpSpec_NeverMalformed == HttpSpec => []NeverMalformed
<1>1. HttpInv => NeverMalformed
  BY DEF HttpInv, CallInv, NeverMalformed
<1> QED
  BY <1>1, HttpSpec_Inv, PTL

\* The client's own waits stay in their bounds when the doubling overflows
\* (backoff.go 38-43).
THEOREM HttpSpec_WaitBounded == HttpSpec => []WaitBounded
<1>1. HttpInv => WaitBounded
  BY DEF HttpInv, CallInv, WaitBounded
<1> QED
  BY <1>1, HttpSpec_Inv, PTL

-----------------------------------------------------------------------------
(* HttpClient implements GatewayCall *)

\* A step of call c that only moves it within the loop shows its caller nothing.
LEMMA Promise_Stutter ==
  ASSUME HttpInv, NEW c \in Calls, created' = created,
         \A d \in Calls \ {c} : http'[d] = http[d],
         http[c].pc \notin {"ready", "done"}, http'[c].pc \notin {"ready", "done"}
  PROVE UNCHANGED HttpPromise!vars
  BY DEF HttpPromise!vars

LEMMA Promise_Open ==
  ASSUME HttpInv, NEW c \in Calls, HttpBegin(c) PROVE HttpPromise!Open(c)
<1>1. /\ http'[c].pc = "send" /\ http[c].pc = "ready"
      /\ \A d \in Calls \ {c} : http'[d] = http[d]
      /\ created' = created
  BY CallTyped DEF HttpBegin, HttpCall
<1> QED
  BY <1>1 DEF HttpPromise!Open, HttpPromise!Become

\* The attempts and the waits between them.
LEMMA Promise_Loop ==
  ASSUME HttpInv, NEW c \in Calls, HttpSend(c) \/ HttpWait(c) \/ HttpWake(c)
  PROVE UNCHANGED HttpPromise!vars
<1>0. http \in [Calls -> HttpCall] /\ http[c] \in HttpCall
  BY CallTyped
<1>1. ASSUME HttpSend(c)
      PROVE /\ \A d \in Calls \ {c} : http'[d] = http[d]
            /\ http[c].pc = "send" /\ http'[c].pc = "sent"
  BY <1>0, <1>1 DEF HttpSend, HttpCall
<1>2. ASSUME HttpWait(c)
      PROVE /\ \A d \in Calls \ {c} : http'[d] = http[d]
            /\ http[c].pc \in {"answered", "broken"} /\ http'[c].pc = "waiting"
  <2>1. PICK w, asked :
          http' = [http EXCEPT ![c] =
                 [@ EXCEPT !.pc = "waiting", !.wait = w, !.status = 0, !.asked = asked]]
    BY <1>2 DEF HttpWait
  <2> QED
    BY <1>0, <1>2, <2>1 DEF HttpWait, HttpCall
<1>3. ASSUME HttpWake(c)
      PROVE /\ \A d \in Calls \ {c} : http'[d] = http[d]
            /\ http[c].pc = "waiting" /\ http'[c].pc = "send"
  BY <1>0, <1>3 DEF HttpWake, HttpCall
<1>4. created' = created
  BY DEF HttpSend, HttpWait, HttpWake
<1> QED
  BY <1>1, <1>2, <1>3, <1>4, Promise_Stutter

LEMMA Promise_End ==
  ASSUME HttpInv, NEW c \in Calls, HttpReturn(c)
  PROVE HttpPromise!Succeed(c) \/ HttpPromise!Fail(c)
<1>1. /\ http'[c].pc = "done" /\ http'[c].result \in {"ok", "failed"}
      /\ http[c].pc \notin {"ready", "done"}
      /\ \A d \in Calls \ {c} : http'[d] = http[d]
      /\ created' = created
  BY CallTyped DEF HttpReturn, HttpCall
<1>2. ASSUME http'[c].result = "ok" PROVE ItemOf[c] \in created
  <2>1. Won(c)
    BY <1>2, CallTyped DEF HttpReturn, HttpCall, Won
  <2> QED
    BY <2>1, CallTyped DEF CallInv
<1>3. ASSUME http'[c].result = "ok" PROVE HttpPromise!Succeed(c)
  BY <1>1, <1>2, <1>3 DEF HttpPromise!Succeed, HttpPromise!Become
<1>4. ASSUME http'[c].result = "failed" PROVE HttpPromise!Fail(c)
  BY <1>1, <1>4 DEF HttpPromise!Fail, HttpPromise!Become
<1> QED
  BY <1>1, <1>3, <1>4

\* The service creates what it was asked for.
LEMMA Promise_Perform ==
  ASSUME HttpInv, NEW c \in Calls, http[c].pc # "ready",
         created' = created \cup {ItemOf[c]},
         \/ \A d \in Calls : http'[d] = http[d]
         \/ /\ \A d \in Calls \ {c} : http'[d] = http[d]
            /\ http[c].pc # "done" /\ http'[c].pc \notin {"ready", "done"}
  PROVE HttpPromise!Perform(c)
<1>1. ASSUME \A d \in Calls : http'[d] = http[d] PROVE HttpPromise!Perform(c)
  <2>1. http[c].result # "ready"
    BY CallTyped DEF HttpCall
  <2> QED
    BY <1>1, <2>1 DEF HttpPromise!Perform
<1>2. ASSUME http[c].pc # "done", http'[c].pc \notin {"ready", "done"},
             \A d \in Calls \ {c} : http'[d] = http[d]
      PROVE HttpPromise!Perform(c)
  BY <1>2 DEF HttpPromise!Perform
<1> QED
  BY <1>1, <1>2

\* A step of the service or the network creates the item, or shows nothing.
LEMMA Promise_Outside ==
  ASSUME HttpInv, NEW c \in Calls,
         HttpServe(c) \/ HttpServeFaulty(c) \/ HttpBreak(c) \/ HttpServeStray(c)
  PROVE HttpPromise!Perform(c) \/ UNCHANGED HttpPromise!vars
<1>1. ASSUME HttpServe(c) \/ HttpServeFaulty(c) \/ HttpBreak(c)
      PROVE HttpPromise!Perform(c) \/ UNCHANGED HttpPromise!vars
  <2>1. /\ \A d \in Calls \ {c} : http'[d] = http[d]
        /\ http[c].pc = "sent" /\ http'[c].pc \in {"answered", "broken", "fatal"}
    <3>1. http[c] \in HttpCall /\ http \in [Calls -> HttpCall]
      BY CallTyped
    <3>2. ASSUME NEW s \in Statuses, HttpAnswer(c, s)
          PROVE (\A d \in Calls \ {c} : http'[d] = http[d]) /\ http'[c].pc = "answered"
      BY <3>1, <3>2, Answered DEF HttpCall
    <3>3. ASSUME HttpServe(c) \/ HttpServeFaulty(c)
          PROVE http[c].pc = "sent" /\ \E s \in Statuses : HttpAnswer(c, s)
      BY <3>3 DEF HttpServe, HttpServeFaulty, Statuses
    <3>4. ASSUME HttpBreak(c)
          PROVE /\ \A d \in Calls \ {c} : http'[d] = http[d]
                /\ http[c].pc = "sent" /\ http'[c].pc \in {"broken", "fatal"}
      BY <3>1, <3>4 DEF HttpBreak, HttpCall
    <3> QED
      BY <1>1, <3>2, <3>3, <3>4
  <2>2. created' \in {created, created \cup {ItemOf[c]}}
    BY <1>1 DEF HttpServe, HttpServeFaulty, HttpBreak
  <2>3. ASSUME created' = created PROVE UNCHANGED HttpPromise!vars
    BY <2>1, <2>3, Promise_Stutter
  <2>4. ASSUME created' = created \cup {ItemOf[c]} PROVE HttpPromise!Perform(c)
    BY <2>1, <2>4, Promise_Perform
  <2> QED
    BY <2>2, <2>3, <2>4
<1>2. ASSUME HttpServeStray(c)
      PROVE HttpPromise!Perform(c) \/ UNCHANGED HttpPromise!vars
  <2>1. http[c].pc # "ready" /\ http' = http
    BY <1>2, CallTyped DEF HttpServeStray, CallInv
  <2>2. ASSUME created' = created PROVE UNCHANGED HttpPromise!vars
    BY <2>1, <2>2 DEF HttpPromise!vars
  <2>3. ASSUME created' = created \cup {ItemOf[c]} PROVE HttpPromise!Perform(c)
    BY <2>1, <2>3, Promise_Perform
  <2> QED
    BY <1>2, <2>2, <2>3 DEF HttpServeStray
<1> QED
  BY <1>1, <1>2

LEMMA Promise_Step ==
  HttpInv /\ [HttpNext]_httpVars => [HttpPromise!Next]_(HttpPromise!vars)
<1> SUFFICES ASSUME HttpInv, [HttpNext]_httpVars PROVE [HttpPromise!Next]_(HttpPromise!vars)
  OBVIOUS
<1>1. ASSUME UNCHANGED httpVars PROVE UNCHANGED HttpPromise!vars
  BY <1>1 DEF httpVars, HttpPromise!vars
<1>2. ASSUME NEW c \in Calls, HttpStep(c)
      PROVE [HttpPromise!Next]_(HttpPromise!vars)
  BY <1>2, Promise_Open, Promise_Loop, Promise_End DEF HttpStep, HttpPromise!Next
<1>3. ASSUME NEW c \in Calls,
             HttpServe(c) \/ HttpServeFaulty(c) \/ HttpBreak(c) \/ HttpServeStray(c)
      PROVE [HttpPromise!Next]_(HttpPromise!vars)
  BY <1>3, Promise_Outside DEF HttpPromise!Next
<1> QED
  BY <1>1, <1>2, <1>3 DEF HttpNext

\* Client.Do keeps the promise of GatewayCall: a call reports success only for
\* what the service has (client.go 81-140, ledger/client.go 56-74,
\* vault/client.go 55-70).
THEOREM HttpSpec_Implements == HttpSpec => HttpImplements
<1>1. HttpInit => HttpPromise!Init
  BY DEF HttpInit, HttpPromise!Init
<1>2. HttpInv /\ [HttpNext]_httpVars => [HttpPromise!Next]_(HttpPromise!vars)
  BY Promise_Step
<1> QED
  BY <1>1, <1>2, HttpSpec_Inv, PTL DEF HttpSpec, HttpImplements, HttpPromise!Spec
=============================================================================
