----------------------------- MODULE RestApi_proofs -----------------------------
(***************************************************************************)
(* Proofs about RestApi, for any clients, names, calls and listings: what  *)
(* one client is told is not contradicted by what another one is told, and *)
(* lists show what has been acknowledged.                                  *)
(*                                                                         *)
(* A status is the end of a chain: the call, its request, the effect on    *)
(* the tokens, the reply, the relay. RestInv follows a call along it. Each *)
(* of its parts is an operator of the values it relates, C for calls, Q    *)
(* for requests, S for senders, and is shown to survive a longer sequence  *)
(* of calls, a call that ends, a longer sequence of requests and a request *)
(* that is answered. At the end, the types of all parts of MCRest.         *)
(***************************************************************************)
EXTENDS MCRest, SystemControl_proofs

ImportRequest ==
  [id: Ids, type: Types \cup {"??"}, user: Users \cup BadUsers \cup {None},
   reply: Replies \cup {"pending"}]

\* A call of the set has acknowledged something of the type about name i.
Acks(C, type, set, i) ==
  \E j \in set : C[j].type = type /\ C[j].status = 200 /\ C[j].id = i

\* The request of call k has been answered by code.
Answers(Q, S, k, code) == \E r \in DOMAIN Q : S[r] = k /\ Q[r].reply = code

\* The calls of a set have ended, so that what they acknowledged is settled.
HaveEnded(C, set) == \A j \in set : j \in DOMAIN C /\ C[j].status # 0

\* Tokens are created under a new name each.
CallsSound(C) ==
  /\ \A k \in DOMAIN C : (C[k].type = "NT" <=> C[k].user # None) /\ HaveEnded(C, C[k].after)
  /\ \A j, k \in DOMAIN C :
       C[j].type = "NT" /\ C[k].type = "NT" /\ C[j].id = C[k].id => j = k

\* The import service has every request from one call, and at most one of each.
Genuine(C, Q, S) ==
  /\ \A r \in DOMAIN Q :
       /\ S[r] \in DOMAIN C /\ Q[r].id = C[S[r]].id /\ Q[r].user = C[S[r]].user
       /\ Q[r].type = IF C[S[r]].user \in BadUsers THEN "??" ELSE C[S[r]].type
  /\ \A r, s \in DOMAIN Q : S[r] = S[s] => r = s

RelaysSound(C, R) == \A q \in R : q.name = q.call /\ q.call \in DOMAIN C /\ C[q.call].status = 0

\* What is under way in the lake or held by a relay.
UnderWay(C, Q, S, L, D) ==
  /\ \A m \in L :
       /\ m.kind = "request" => m.call \in DOMAIN C /\ \A r \in DOMAIN Q : S[r] # m.call
       /\ m.kind = "reply" => Answers(Q, S, m.to, m.code)
  /\ \A t \in D : Answers(Q, S, t.call, t.code)

\* A call ends with what its request was answered, or for want of an answer.
Ends(C, Q, S) ==
  \A k \in DOMAIN C : C[k].status \notin {0, 504} =>
    \E code \in Replies : Answers(Q, S, k, code) /\ C[k].status = StatusOf(C[k].type, code)

\* A token is what its creation left, until it is deleted for good.
Stores(Q, T) ==
  /\ \A r \in DOMAIN Q :
       /\ Q[r].reply = "TN" => Q[r].type = "NT"
       /\ Q[r].reply = "TD" => Q[r].type = "DT"
       /\ Q[r].reply = "TN" => T[Q[r].id] = Q[r].user \/
            \E s \in DOMAIN Q : Q[s].id = Q[r].id /\ Q[s].reply = "TD"
       /\ Q[r].reply = "TD" => T[Q[r].id] = None /\
            \E s \in DOMAIN Q : Q[s].id = Q[r].id /\ Q[s].reply = "TN"
  /\ \A i \in Ids : T[i] # None => \E s \in DOMAIN Q : Q[s].id = i /\ Q[s].reply = "TN"

\* A request knows what had been acknowledged before its call began.
Agree(C, Q, S) ==
  \A r \in DOMAIN Q :
    LET c == C[S[r]]
    IN /\ Acks(C, "DT", c.after, c.id) => Q[r].reply \notin {"TD", "TS"}
       /\ Acks(C, "NT", c.after, c.id) /\ Q[r].reply = "EM" =>
            \E j \in DOMAIN C \ {S[r]} : C[j].type = "DT" /\ C[j].id = c.id

\* What has been read and what is still to be read.
Lists(C, l) ==
  l.pc = "read" =>
    /\ HaveEnded(C, l.after)
    /\ \A i \in Ids : Acks(C, "NT", l.after, i) =>
         i \in l.got \cup l.todo \/ \E j \in DOMAIN C : C[j].type = "DT" /\ C[j].id = i
    /\ \A i \in l.got \cup l.todo : ~Acks(C, "DT", l.after, i)

RestInv ==
  /\ RestTypeOK /\ requests \in Seq(ImportRequest)
  /\ CallsSound(calls) /\ RelaysSound(calls, relays) /\ Genuine(calls, requests, senders)
  /\ UnderWay(calls, requests, senders, lake, told)
  /\ Ends(calls, requests, senders) /\ Stores(requests, token)
  /\ Agree(calls, requests, senders) /\ Lists(calls, listing)

LEMMA RestInitInv == RestInit => RestInv
<1> SUFFICES ASSUME RestInit PROVE RestInv
  OBVIOUS
<1>1. /\ token = [i \in Ids |-> None] /\ requests = <<>> /\ senders = <<>>
      /\ calls = <<>> /\ lake = {} /\ relays = {} /\ told = {} /\ listings = 0
      /\ listing = NoListing
  BY DEF RestInit, Import!Init
<1>2. listing \in [pc: {"idle", "read"}, todo: SUBSET Ids, got: SUBSET Ids,
                   after: SUBSET CallNumbers] /\ listing.pc = "idle"
  BY <1>1 DEF NoListing
<1>3. RestTypeOK
  BY <1>1, <1>2, RestBoundsAssumption DEF RestTypeOK
<1>4. requests \in Seq(ImportRequest)
  BY <1>1
<1>5. CallsSound(calls) /\ RelaysSound(calls, relays)
  BY <1>1 DEF CallsSound, RelaysSound
<1>6. Genuine(calls, requests, senders) /\ UnderWay(calls, requests, senders, lake, told)
  BY <1>1 DEF Genuine, UnderWay
<1>7. Ends(calls, requests, senders) /\ Agree(calls, requests, senders)
  BY <1>1 DEF Ends, Agree
<1>8. Stores(requests, token) /\ Lists(calls, listing)
  BY <1>1, <1>2 DEF Stores, Lists
<1> QED
  BY <1>3, <1>4, <1>5, <1>6, <1>7, <1>8 DEF RestInv

-----------------------------------------------------------------------------
(* What stays when calls and requests are added and come to an end *)

LEMMA AppendFacts ==
  ASSUME NEW E, NEW s \in Seq(E), NEW e \in E
  PROVE  /\ Append(s, e) \in Seq(E) /\ Len(Append(s, e)) = Len(s) + 1
         /\ DOMAIN Append(s, e) = DOMAIN s \cup {Len(s) + 1}
         /\ Len(s) + 1 \notin DOMAIN s
         /\ Append(s, e)[Len(s) + 1] = e
         /\ \A j \in DOMAIN s : Append(s, e)[j] = s[j]
  OBVIOUS

LEMMA ExceptFacts ==
  ASSUME NEW E, NEW s \in Seq(E), NEW i \in DOMAIN s, NEW e \in E
  PROVE  /\ [s EXCEPT ![i] = e] \in Seq(E) /\ Len([s EXCEPT ![i] = e]) = Len(s)
         /\ DOMAIN [s EXCEPT ![i] = e] = DOMAIN s
         /\ [s EXCEPT ![i] = e][i] = e
         /\ \A j \in DOMAIN s : j # i => [s EXCEPT ![i] = e][j] = s[j]
  OBVIOUS

\* Calls are added, and those that run may end.
CallsGrow(C, C2) ==
  \A k \in DOMAIN C :
    /\ k \in DOMAIN C2 /\ C2[k].type = C[k].type /\ C2[k].id = C[k].id
    /\ C2[k].user = C[k].user /\ C2[k].after = C[k].after
    /\ C[k].status # 0 => C2[k].status = C[k].status

\* Requests are added, and those that are pending may be answered.
RequestsGrow(Q, S, Q2, S2) ==
  \A r \in DOMAIN Q :
    /\ r \in DOMAIN Q2 /\ S2[r] = S[r]
    /\ Q2[r].id = Q[r].id /\ Q2[r].type = Q[r].type /\ Q2[r].user = Q[r].user
    /\ Q[r].reply # "pending" => Q2[r].reply = Q[r].reply

LEMMA AcksSettled ==
  ASSUME NEW C, NEW C2, CallsGrow(C, C2), NEW set, HaveEnded(C, set), NEW type, NEW i
  PROVE  HaveEnded(C2, set) /\ (Acks(C2, type, set, i) <=> Acks(C, type, set, i))
  BY DEF CallsGrow, HaveEnded, Acks

LEMMA AnswersStay ==
  ASSUME NEW Q, NEW S, NEW Q2, NEW S2, RequestsGrow(Q, S, Q2, S2),
         NEW k, NEW code, code # "pending", Answers(Q, S, k, code)
  PROVE  Answers(Q2, S2, k, code)
  BY DEF RequestsGrow, Answers

LEMMA UnderWayStays ==
  ASSUME NEW C, NEW C2, CallsGrow(C, C2), NEW Q, NEW S, NEW L, NEW D, UnderWay(C, Q, S, L, D)
  PROVE  UnderWay(C2, Q, S, L, D)
  BY DEF UnderWay, CallsGrow

LEMMA AgreeStays ==
  ASSUME NEW C, NEW C2, CallsGrow(C, C2), CallsSound(C), NEW Q, NEW S, Genuine(C, Q, S),
         Agree(C, Q, S)
  PROVE  Agree(C2, Q, S)
<1> SUFFICES ASSUME NEW r \in DOMAIN Q
             PROVE  /\ Acks(C2, "DT", C2[S[r]].after, C2[S[r]].id)
                         => Q[r].reply \notin {"TD", "TS"}
                    /\ Acks(C2, "NT", C2[S[r]].after, C2[S[r]].id) /\ Q[r].reply = "EM" =>
                         \E j \in DOMAIN C2 \ {S[r]} :
                           C2[j].type = "DT" /\ C2[j].id = C2[S[r]].id
  BY DEF Agree
<1> DEFINE a == C[S[r]].after
           i == C[S[r]].id
<1>1. /\ S[r] \in DOMAIN C /\ C2[S[r]].after = a /\ C2[S[r]].id = i
      /\ HaveEnded(C, a)
  BY DEF Genuine, CallsGrow, CallsSound
<1>2. \A type : Acks(C2, type, a, i) <=> Acks(C, type, a, i)
  BY <1>1, AcksSettled
<1>3. /\ Acks(C, "DT", a, i) => Q[r].reply \notin {"TD", "TS"}
      /\ Acks(C, "NT", a, i) /\ Q[r].reply = "EM" =>
           \E j \in DOMAIN C \ {S[r]} : C[j].type = "DT" /\ C[j].id = i
  BY DEF Agree
<1> HIDE DEF a, i
<1>4. (\E j \in DOMAIN C \ {S[r]} : C[j].type = "DT" /\ C[j].id = i)
        => \E j \in DOMAIN C2 \ {S[r]} : C2[j].type = "DT" /\ C2[j].id = i
  BY DEF CallsGrow
<1> QED
  BY <1>1, <1>2, <1>3, <1>4

LEMMA GenuineStays ==
  ASSUME NEW C, NEW C2, CallsGrow(C, C2), NEW Q, NEW S, Genuine(C, Q, S)
  PROVE  Genuine(C2, Q, S)
  BY DEF CallsGrow, Genuine

LEMMA ListsStays ==
  ASSUME NEW C, NEW C2, CallsGrow(C, C2), NEW l, Lists(C, l)
  PROVE  Lists(C2, l)
<1> SUFFICES ASSUME l.pc = "read"
             PROVE  /\ HaveEnded(C2, l.after)
                    /\ \A i \in Ids : Acks(C2, "NT", l.after, i) =>
                         \/ i \in l.got \cup l.todo
                         \/ \E j \in DOMAIN C2 : C2[j].type = "DT" /\ C2[j].id = i
                    /\ \A i \in l.got \cup l.todo : ~Acks(C2, "DT", l.after, i)
  BY DEF Lists
<1>1. HaveEnded(C, l.after)
  BY DEF Lists
<1>2. HaveEnded(C2, l.after)
        /\ \A i : /\ Acks(C2, "NT", l.after, i) <=> Acks(C, "NT", l.after, i)
                  /\ Acks(C2, "DT", l.after, i) <=> Acks(C, "DT", l.after, i)
  BY <1>1, AcksSettled
<1>3. ASSUME NEW i \in Ids, Acks(C2, "NT", l.after, i), i \notin l.got \cup l.todo
      PROVE  \E j \in DOMAIN C2 : C2[j].type = "DT" /\ C2[j].id = i
  <2>1. \E j \in DOMAIN C : C[j].type = "DT" /\ C[j].id = i
    BY <1>2, <1>3 DEF Lists
  <2> QED
    BY <2>1 DEF CallsGrow
<1>4. \A i \in l.got \cup l.todo : ~Acks(C2, "DT", l.after, i)
  BY <1>2 DEF Lists
<1> QED
  BY <1>2, <1>3, <1>4

-----------------------------------------------------------------------------
(* A call begins *)

LEMMA HandleEnded == HaveEnded(calls, Ended)
  BY DEF HaveEnded, Ended

LEMMA RequestKeeps ==
  ASSUME RestInv, NEW type \in Types, NEW i \in Ids,
         NEW u \in Users \cup BadUsers \cup {None},
         type = "NT" <=> u # None, type = "NT" => i \notin Drawn,
         Request(type, i, u)
  PROVE  RestInv'
<1> DEFINE k == Len(calls) + 1
           c == [type |-> type, id |-> i, user |-> u, status |-> 0, after |-> Ended]
<1>0. /\ calls \in Seq(Call) /\ Len(calls) <= MaxCalls /\ MaxCalls \in Nat
      /\ CallsSound(calls) /\ RelaysSound(calls, relays) /\ Genuine(calls, requests, senders)
      /\ UnderWay(calls, requests, senders, lake, told)
      /\ Ends(calls, requests, senders) /\ Stores(requests, token)
      /\ Agree(calls, requests, senders) /\ Lists(calls, listing)
      /\ Len(calls) \in Nat /\ DOMAIN calls = 1..Len(calls)
  BY RestBoundsAssumption DEF RestInv, RestTypeOK
<1>1. /\ k <= MaxCalls /\ calls' = Append(calls, c)
      /\ relays' \subseteq relays \cup {[name |-> k, call |-> k]}
      /\ lake' = lake \cup {[kind |-> "request", call |-> k]}
      /\ UNCHANGED <<token, requests, senders, told, listing, listings>>
  BY DEF Request, RelayName, importVars, listVars
<1>2. k \in CallNumbers /\ c \in Call /\ Ended \subseteq DOMAIN calls
  BY <1>0, <1>1 DEF CallNumbers, Call, Ended
<1>3. /\ calls' \in Seq(Call) /\ Len(calls') = k
      /\ DOMAIN calls' = DOMAIN calls \cup {k} /\ k \notin DOMAIN calls
      /\ calls'[k] = c /\ \A j \in DOMAIN calls : calls'[j] = calls[j]
  BY <1>0, <1>1, <1>2, AppendFacts
<1>4. c.type = type /\ c.id = i /\ c.user = u /\ c.status = 0 /\ c.after = Ended
  OBVIOUS
<1> HIDE DEF k, c
<1>5. CallsGrow(calls, calls')
  BY <1>3 DEF CallsGrow
<1>6. CallsSound(calls')
  <2>1. ASSUME NEW j \in DOMAIN calls'
        PROVE  /\ calls'[j].type = "NT" <=> calls'[j].user # None
               /\ HaveEnded(calls', calls'[j].after)
    <3>1. CASE j = k
      BY <1>3, <1>4, <1>5, <3>1, HandleEnded, AcksSettled
    <3>2. CASE j \in DOMAIN calls
      <4>1. HaveEnded(calls, calls[j].after) /\ (calls[j].type = "NT" <=> calls[j].user # None)
        BY <1>0, <3>2 DEF CallsSound
      <4> QED
        BY <1>3, <1>5, <3>2, <4>1, AcksSettled
    <3> QED
      BY <1>3, <3>1, <3>2
  <2>2. ASSUME NEW j \in DOMAIN calls', NEW m \in DOMAIN calls', calls'[j].type = "NT",
               calls'[m].type = "NT", calls'[j].id = calls'[m].id
        PROVE  j = m
    <3>1. \A n \in DOMAIN calls : calls[n].type = "NT" /\ type = "NT" => calls[n].id # i
      BY DEF Drawn
    <3> QED
      BY <1>0, <1>3, <1>4, <2>2, <3>1 DEF CallsSound
  <2> QED
    BY <2>1, <2>2 DEF CallsSound
<1>7. RelaysSound(calls', relays')
  BY <1>0, <1>1, <1>3, <1>4 DEF RelaysSound
<1>8. Genuine(calls', requests, senders) /\ Agree(calls', requests, senders)
        /\ Lists(calls', listing)
  BY <1>0, <1>5, GenuineStays, AgreeStays, ListsStays
<1>9. UnderWay(calls', requests, senders, lake', told)
  <2>1. UnderWay(calls', requests, senders, lake, told)
    BY <1>0, <1>5, UnderWayStays
  <2>2. k \in DOMAIN calls' /\ \A r \in DOMAIN requests : senders[r] # k
    BY <1>0, <1>3 DEF Genuine
  <2> QED
    BY <1>1, <2>1, <2>2 DEF UnderWay
<1>10. Ends(calls', requests, senders)
  BY <1>0, <1>3, <1>4 DEF Ends
<1>11. RestTypeOK'
  <2>1. lake' \subseteq ToImport \cup ToRest
    BY <1>1, <1>2 DEF RestInv, RestTypeOK, ToImport
  <2>2. relays' \subseteq [name: CallNumbers, call: CallNumbers]
    BY <1>1, <1>2 DEF RestInv, RestTypeOK
  <2>3. \A r \in relays' : calls'[r.call].status = 0
    BY <1>7 DEF RelaysSound
  <2>4. Len(calls') <= MaxCalls
    BY <1>1, <1>3
  <2> QED
    BY <1>1, <1>3, <2>1, <2>2, <2>3, <2>4 DEF RestInv, RestTypeOK
<1>12. requests' \in Seq(ImportRequest) /\ Stores(requests, token)
  BY <1>0, <1>1 DEF RestInv
<1> QED
  BY <1>1, <1>6, <1>7, <1>8, <1>9, <1>10, <1>11, <1>12 DEF RestInv

-----------------------------------------------------------------------------
(* A call ends *)

LEMMA StatusTyped ==
  ASSUME NEW type \in Types, NEW code \in Replies
  PROVE  StatusOf(type, code) \in {200, 404, 500}
  BY DEF StatusOf

\* With the status of what it was told, or 504.
LEMMA EndKeeps ==
  ASSUME RestInv, NEW k \in DOMAIN calls, NEW status, End(k, status),
         \/ status = 504
         \/ \E code \in Replies : /\ Answers(requests, senders, k, code)
                                  /\ status = StatusOf(calls[k].type, code),
         told' \subseteq told, UNCHANGED <<importVars, lake, listVars>>
  PROVE  RestInv'
<1>0. /\ calls \in Seq(Call) /\ Len(calls) <= MaxCalls /\ calls[k].status = 0
      /\ CallsSound(calls) /\ RelaysSound(calls, relays) /\ Genuine(calls, requests, senders)
      /\ UnderWay(calls, requests, senders, lake, told)
      /\ Ends(calls, requests, senders) /\ Stores(requests, token)
      /\ Agree(calls, requests, senders) /\ Lists(calls, listing)
      /\ calls[k] \in Call /\ calls[k].type \in Types
  <2>1. calls \in Seq(Call) /\ Len(calls) <= MaxCalls
    BY DEF RestInv, RestTypeOK
  <2>2. calls[k] \in Call
    BY <2>1
  <2>3. calls[k].type \in Types
    BY <2>2 DEF Call
  <2> QED
    BY <2>1, <2>2, <2>3 DEF RestInv, End
<1>1. /\ calls' = [calls EXCEPT ![k].status = status]
      /\ relays' = {r \in relays : r.name # k}
      /\ UNCHANGED <<token, requests, senders, lake, listing, listings>>
  BY DEF End, RelayName, importVars, listVars
<1>2. status \in {200, 404, 500, 504}
  BY <1>0, StatusTyped
<1>3. /\ calls' \in Seq(Call) /\ Len(calls') = Len(calls) /\ DOMAIN calls' = DOMAIN calls
      /\ \A j \in DOMAIN calls : j # k => calls'[j] = calls[j]
      /\ calls'[k].status = status /\ calls'[k].type = calls[k].type
      /\ calls'[k].id = calls[k].id /\ calls'[k].user = calls[k].user
      /\ calls'[k].after = calls[k].after
  <2>0. [calls[k] EXCEPT !.status = status] \in Call
    BY <1>0, <1>2 DEF Call
  <2>1. PICK c \in Call : c = [calls[k] EXCEPT !.status = status]
    BY <2>0
  <2>2. calls' = [calls EXCEPT ![k] = c]
    BY <1>1, <2>1
  <2>3. /\ calls' \in Seq(Call) /\ Len(calls') = Len(calls) /\ DOMAIN calls' = DOMAIN calls
        /\ \A j \in DOMAIN calls : j # k => calls'[j] = calls[j]
        /\ calls'[k] = c
    BY <1>0, <2>2
  <2>4. /\ c.status = status /\ c.type = calls[k].type /\ c.id = calls[k].id
        /\ c.user = calls[k].user /\ c.after = calls[k].after
    BY <1>0, <2>1 DEF Call
  <2> QED
    BY <2>3, <2>4
<1>4. CallsGrow(calls, calls')
  BY <1>0, <1>3 DEF CallsGrow
<1>5. CallsSound(calls')
  <2>1. ASSUME NEW j \in DOMAIN calls'
        PROVE  /\ calls'[j].type = "NT" <=> calls'[j].user # None
               /\ HaveEnded(calls', calls'[j].after)
    <3>1. /\ calls'[j].type = calls[j].type /\ calls'[j].user = calls[j].user
          /\ calls'[j].after = calls[j].after /\ j \in DOMAIN calls
      BY <1>3
    <3>2. HaveEnded(calls, calls[j].after) /\ (calls[j].type = "NT" <=> calls[j].user # None)
      BY <1>0, <3>1 DEF CallsSound
    <3> QED
      BY <1>4, <3>1, <3>2, AcksSettled
  <2>2. \A j, m \in DOMAIN calls' :
          calls'[j].type = "NT" /\ calls'[m].type = "NT" /\ calls'[j].id = calls'[m].id => j = m
    BY <1>0, <1>3 DEF CallsSound
  <2> QED
    BY <2>1, <2>2 DEF CallsSound
<1>6. RelaysSound(calls', relays')
  BY <1>0, <1>1, <1>3 DEF RelaysSound
<1>7. Genuine(calls', requests, senders) /\ Agree(calls', requests, senders)
        /\ Lists(calls', listing)
  BY <1>0, <1>4, GenuineStays, AgreeStays, ListsStays
<1>8. UnderWay(calls', requests, senders, lake, told')
  <2>1. UnderWay(calls', requests, senders, lake, told)
    BY <1>0, <1>4, UnderWayStays
  <2> QED
    BY <2>1 DEF UnderWay
<1>9. Ends(calls', requests, senders)
  BY <1>0, <1>3 DEF Ends
<1>10. RestTypeOK'
  <2>1. \A r \in relays' : calls'[r.call].status = 0
    BY <1>6 DEF RelaysSound
  <2>2. told' \subseteq [call: CallNumbers, code: Replies]
    BY DEF RestInv, RestTypeOK
  <2> QED
    BY <1>0, <1>1, <1>3, <2>1, <2>2 DEF RestInv, RestTypeOK
<1>11. requests' \in Seq(ImportRequest)
  BY <1>1 DEF RestInv
<1> QED
  BY <1>0, <1>1, <1>5, <1>6, <1>7, <1>8, <1>9, <1>10, <1>11 DEF RestInv

-----------------------------------------------------------------------------
(* What an acknowledgement means *)

LEMMA StatusMeans ==
  ASSUME NEW type, NEW code, StatusOf(type, code) = 200
  PROVE  /\ type = "NT" => code = "TN"
         /\ type = "DT" => code = "TD"
         /\ type = "ST" => code = "TS"
  BY DEF StatusOf

\* A creation acknowledged to call j has stored its credentials.
LEMMA CreatedMeans ==
  ASSUME RestInv, NEW j \in DOMAIN calls, calls[j].type = "NT", calls[j].status = 200
  PROVE  \/ token[calls[j].id] = calls[j].user /\ calls[j].user # None
         \/ \E s \in DOMAIN requests :
              requests[s].id = calls[j].id /\ requests[s].reply = "TD"
<1>1. PICK code \in Replies : /\ Answers(requests, senders, j, code)
                              /\ StatusOf(calls[j].type, code) = 200
  BY DEF RestInv, Ends
<1>2. PICK r \in DOMAIN requests : senders[r] = j /\ requests[r].reply = "TN"
  BY <1>1, StatusMeans DEF Answers
<1>3. requests[r].id = calls[j].id /\ requests[r].user = calls[j].user
  BY <1>2 DEF RestInv, Genuine
<1>4. calls[j].user # None
  BY DEF RestInv, CallsSound
<1> QED
  BY <1>2, <1>3, <1>4 DEF RestInv, Stores

\* A delete acknowledged to any call of a set is for good.
LEMMA DeletedMeans ==
  ASSUME RestInv, NEW set, HaveEnded(calls, set), NEW i, Acks(calls, "DT", set, i)
  PROVE  token[i] = None
<1>1. PICK j \in DOMAIN calls :
        calls[j].type = "DT" /\ calls[j].status = 200 /\ calls[j].id = i
  BY DEF Acks, HaveEnded
<1>2. PICK code \in Replies : /\ Answers(requests, senders, j, code)
                              /\ StatusOf(calls[j].type, code) = 200
  BY <1>1 DEF RestInv, Ends
<1>3. PICK r \in DOMAIN requests : senders[r] = j /\ requests[r].reply = "TD"
  BY <1>1, <1>2, StatusMeans DEF Answers
<1>4. requests[r].id = i
  BY <1>1, <1>3 DEF RestInv, Genuine
<1> QED
  BY <1>3, <1>4 DEF RestInv, Stores

\* A delete that has been done was asked for in a call of its own.
LEMMA DeletedByCall ==
  ASSUME RestInv, NEW s \in DOMAIN requests, requests[s].reply = "TD"
  PROVE  /\ senders[s] \in DOMAIN calls /\ calls[senders[s]].type = "DT"
         /\ calls[senders[s]].id = requests[s].id
  BY DEF RestInv, Genuine, Stores

-----------------------------------------------------------------------------
(* The import service *)

LEMMA ImportReceivesKeeps ==
  ASSUME RestInv, NEW k \in DOMAIN calls, ImportReceives(k)
  PROVE  RestInv'
<1> DEFINE bad == calls[k].user \in BadUsers
           q == [id |-> calls[k].id, type |-> IF bad THEN "??" ELSE calls[k].type,
                 user |-> calls[k].user,
                 reply |-> IF (IF bad THEN "??" ELSE calls[k].type) = "??"
                           THEN "EE" ELSE "pending"]
           m == [kind |-> "request", call |-> k]
           a == [kind |-> "reply", to |-> k, code |-> "EE"]
<1>0. /\ calls \in Seq(Call) /\ requests \in Seq(ImportRequest)
      /\ senders \in Seq(CallNumbers) /\ Len(senders) = Len(requests)
      /\ Genuine(calls, requests, senders)
      /\ UnderWay(calls, requests, senders, lake, told)
      /\ Ends(calls, requests, senders) /\ Stores(requests, token)
      /\ Agree(calls, requests, senders)
      /\ lake \subseteq ToImport \cup ToRest /\ k \in CallNumbers
  <2>1. calls \in Seq(Call) /\ Len(calls) <= MaxCalls
    BY DEF RestInv, RestTypeOK
  <2>2. k \in CallNumbers
    BY <2>1, RestBoundsAssumption DEF CallNumbers
  <2> QED
    BY <2>2 DEF RestInv, RestTypeOK
<1>1. /\ m \in lake
      /\ requests' = Append(requests, q) /\ senders' = Append(senders, k)
      /\ lake' = (lake \ {m}) \cup (IF bad THEN {a} ELSE {})
      /\ UNCHANGED <<token, calls, relays, told, listing, listings>>
  BY DEF ImportReceives, Import!Receive, RelayName, relayVars, listVars
<1>2. calls[k] \in Call
  BY <1>0
<1>3. q \in ImportRequest
  BY <1>2 DEF ImportRequest, Call, Types, Replies
<1>4. /\ q.id = calls[k].id /\ q.user = calls[k].user
      /\ q.type = (IF bad THEN "??" ELSE calls[k].type)
      /\ q.reply \in {"EE", "pending"} /\ (bad => q.reply = "EE")
  OBVIOUS
<1> DEFINE n == Len(requests) + 1
<1>5. /\ requests' \in Seq(ImportRequest) /\ senders' \in Seq(CallNumbers)
      /\ Len(requests') = n /\ Len(senders') = n
      /\ DOMAIN requests' = DOMAIN requests \cup {n} /\ n \notin DOMAIN requests
      /\ requests'[n] = q /\ senders'[n] = k
      /\ \A r \in DOMAIN requests : requests'[r] = requests[r] /\ senders'[r] = senders[r]
  <2>1. DOMAIN senders = DOMAIN requests
    BY <1>0
  <2> HIDE DEF q
  <2>2. /\ requests' \in Seq(ImportRequest) /\ Len(requests') = n
        /\ DOMAIN requests' = DOMAIN requests \cup {n} /\ n \notin DOMAIN requests
        /\ requests'[n] = q /\ \A r \in DOMAIN requests : requests'[r] = requests[r]
    BY <1>0, <1>1, <1>3, AppendFacts
  <2>3. /\ senders' \in Seq(CallNumbers) /\ Len(senders') = n /\ senders'[n] = k
        /\ \A r \in DOMAIN requests : senders'[r] = senders[r]
    BY <1>0, <1>1, <2>1, AppendFacts
  <2> QED
    BY <2>2, <2>3
<1> HIDE DEF q, n
<1>6. RequestsGrow(requests, senders, requests', senders')
  BY <1>5 DEF RequestsGrow
<1>7. \A r \in DOMAIN requests : senders[r] # k
  <2>1. m.kind = "request" /\ m.call = k
    OBVIOUS
  <2> QED
    BY <1>0, <1>1, <2>1 DEF UnderWay
<1>8. Genuine(calls, requests', senders')
  <2>1. /\ \A r \in DOMAIN requests :
             /\ senders[r] \in DOMAIN calls /\ requests[r].id = calls[senders[r]].id
             /\ requests[r].user = calls[senders[r]].user
             /\ requests[r].type = IF calls[senders[r]].user \in BadUsers THEN "??"
                                   ELSE calls[senders[r]].type
        /\ \A r, s \in DOMAIN requests : senders[r] = senders[s] => r = s
    BY <1>0 DEF Genuine
  <2>2. ASSUME NEW r \in DOMAIN requests'
        PROVE  /\ senders'[r] \in DOMAIN calls /\ requests'[r].id = calls[senders'[r]].id
               /\ requests'[r].user = calls[senders'[r]].user
               /\ requests'[r].type = IF calls[senders'[r]].user \in BadUsers THEN "??"
                                      ELSE calls[senders'[r]].type
    <3>1. CASE r = n
      BY <1>0, <1>4, <1>5, <3>1
    <3>2. CASE r # n
      BY <1>5, <2>1, <3>2
    <3> QED
      BY <3>1, <3>2
  <2>3. ASSUME NEW r \in DOMAIN requests', NEW s \in DOMAIN requests', senders'[r] = senders'[s]
        PROVE  r = s
    BY <1>5, <1>7, <2>1, <2>3
  <2> QED
    BY <2>2, <2>3 DEF Genuine
<1>9. UnderWay(calls, requests', senders', lake', told)
  <2>1. ASSUME NEW x \in lake', x.kind = "request"
        PROVE  x.call \in DOMAIN calls /\ \A r \in DOMAIN requests' : senders'[r] # x.call
    <3>1. x \in lake /\ x # m
      BY <1>1, <2>1
    <3>2. x \in ToImport
      BY <1>0, <2>1, <3>1 DEF ToRest
    <3>3. x.call # k
      BY <3>1, <3>2 DEF ToImport
    <3> QED
      BY <1>0, <1>5, <2>1, <3>1, <3>3 DEF UnderWay
  <2>2. ASSUME NEW x \in lake', x.kind = "reply"
        PROVE  Answers(requests', senders', x.to, x.code)
    <3>1. CASE x \in lake
      <4>1. Answers(requests, senders, x.to, x.code) /\ x.code # "pending"
        BY <1>0, <2>2, <3>1 DEF UnderWay, ToImport, ToRest, Replies
      <4> QED
        BY <1>6, <4>1, AnswersStay
    <3>2. CASE bad /\ x = a
      BY <1>4, <1>5, <3>2 DEF Answers
    <3> QED
      BY <1>1, <3>1, <3>2
  <2>3. ASSUME NEW t \in told PROVE Answers(requests', senders', t.call, t.code)
    <3>1. Answers(requests, senders, t.call, t.code) /\ t.code # "pending"
      BY <1>0 DEF UnderWay, RestInv, RestTypeOK, Replies
    <3> QED
      BY <1>6, <3>1, AnswersStay
  <2> QED
    BY <2>1, <2>2, <2>3 DEF UnderWay
<1>10. Ends(calls, requests', senders')
  <2>1. "pending" \notin Replies
    BY DEF Replies
  <2> QED
    BY <1>0, <1>6, <2>1, AnswersStay DEF Ends
<1>11. Stores(requests', token)
  <2>1. \A s \in DOMAIN requests' :
          requests'[s].reply \in {"TN", "TD"}
            => s \in DOMAIN requests /\ requests'[s] = requests[s]
    BY <1>4, <1>5
  <2>2. \A i, code : (\E s \in DOMAIN requests : requests[s].id = i /\ requests[s].reply = code)
          => \E s \in DOMAIN requests' : requests'[s].id = i /\ requests'[s].reply = code
    BY <1>5
  <2>3. ASSUME NEW s \in DOMAIN requests', requests'[s].reply = "TN"
        PROVE  /\ requests'[s].type = "NT"
               /\ \/ token[requests'[s].id] = requests'[s].user
                  \/ \E t \in DOMAIN requests' :
                       requests'[t].id = requests'[s].id /\ requests'[t].reply = "TD"
    <3>1. s \in DOMAIN requests /\ requests'[s] = requests[s]
      BY <2>1, <2>3
    <3>2. /\ requests[s].type = "NT"
          /\ \/ token[requests[s].id] = requests[s].user
             \/ \E t \in DOMAIN requests :
                  requests[t].id = requests[s].id /\ requests[t].reply = "TD"
      BY <1>0, <2>3, <3>1 DEF Stores
    <3> QED
      BY <2>2, <3>1, <3>2
  <2>4. ASSUME NEW s \in DOMAIN requests', requests'[s].reply = "TD"
        PROVE  /\ requests'[s].type = "DT" /\ token[requests'[s].id] = None
               /\ \E t \in DOMAIN requests' :
                    requests'[t].id = requests'[s].id /\ requests'[t].reply = "TN"
    <3>1. s \in DOMAIN requests /\ requests'[s] = requests[s]
      BY <2>1, <2>4
    <3>2. /\ requests[s].type = "DT" /\ token[requests[s].id] = None
          /\ \E t \in DOMAIN requests :
               requests[t].id = requests[s].id /\ requests[t].reply = "TN"
      BY <1>0, <2>4, <3>1 DEF Stores
    <3> QED
      BY <2>2, <3>1, <3>2
  <2>5. \A i \in Ids : token[i] # None =>
          \E s \in DOMAIN requests' : requests'[s].id = i /\ requests'[s].reply = "TN"
    BY <1>0, <2>2 DEF Stores
  <2> QED
    BY <2>3, <2>4, <2>5 DEF Stores
<1>12. Agree(calls, requests', senders')
  <2> SUFFICES ASSUME NEW s \in DOMAIN requests', requests'[s].reply \in {"TD", "TS", "EM"}
               PROVE  s \in DOMAIN requests /\ requests'[s] = requests[s]
                        /\ senders'[s] = senders[s]
    BY <1>0 DEF Agree
  <2> QED
    BY <1>4, <1>5
<1>13. RestTypeOK'
  <2>1. lake' \subseteq ToImport \cup ToRest
    BY <1>0, <1>1 DEF ToRest, Replies
  <2> QED
    BY <1>1, <1>5, <2>1 DEF RestInv, RestTypeOK
<1> QED
  BY <1>1, <1>5, <1>8, <1>9, <1>10, <1>11, <1>12, <1>13 DEF RestInv

\* Code accords with what the client of call k may know.
Accords(C, k, code) ==
  /\ Acks(C, "DT", C[k].after, C[k].id) => code \notin {"TD", "TS"}
  /\ Acks(C, "NT", C[k].after, C[k].id) /\ code = "EM"
       => \E j \in DOMAIN C \ {k} : C[j].type = "DT" /\ C[j].id = C[k].id

\* Request r is answered by code.
LEMMA ReplyKeeps ==
  ASSUME RestInv, NEW r \in DOMAIN requests, requests[r].reply = "pending",
         NEW code \in Replies, requests' = [requests EXCEPT ![r].reply = code],
         token' \in [Ids -> Users \cup BadUsers \cup {None}],
         Stores(requests', token'),
         Accords(calls, senders[r], code),
         lake' = lake \cup {[kind |-> "reply", to |-> senders[r], code |-> requests'[r].reply]},
         UNCHANGED <<senders, relayVars, listVars>>
  PROVE  RestInv'
<1>0. /\ requests \in Seq(ImportRequest) /\ senders \in Seq(CallNumbers)
      /\ Len(senders) = Len(requests) /\ Genuine(calls, requests, senders)
      /\ UnderWay(calls, requests, senders, lake, told)
      /\ Ends(calls, requests, senders) /\ Agree(calls, requests, senders)
      /\ lake \subseteq ToImport \cup ToRest
  BY DEF RestInv, RestTypeOK
<1>1. requests[r] \in ImportRequest /\ senders[r] \in CallNumbers
  BY <1>0
<1>2. /\ requests' \in Seq(ImportRequest) /\ Len(requests') = Len(requests)
      /\ DOMAIN requests' = DOMAIN requests
      /\ \A s \in DOMAIN requests : s # r => requests'[s] = requests[s]
      /\ requests'[r].reply = code /\ requests'[r].id = requests[r].id
      /\ requests'[r].type = requests[r].type /\ requests'[r].user = requests[r].user
  <2> DEFINE q == [requests[r] EXCEPT !.reply = code]
  <2>1. /\ q \in ImportRequest /\ q.reply = code /\ q.id = requests[r].id
        /\ q.type = requests[r].type /\ q.user = requests[r].user
    BY <1>1 DEF ImportRequest
  <2>2. requests' = [requests EXCEPT ![r] = q]
    OBVIOUS
  <2> HIDE DEF q
  <2>3. requests \in Seq(ImportRequest) /\ q \in ImportRequest
    BY <1>0, <2>1
  <2>4. /\ requests' \in Seq(ImportRequest) /\ Len(requests') = Len(requests)
        /\ DOMAIN requests' = DOMAIN requests /\ requests'[r] = q
        /\ \A s \in DOMAIN requests : s # r => requests'[s] = requests[s]
    BY <2>2, <2>3, ExceptFacts
  <2> QED
    BY <2>1, <2>4
<1>3. RequestsGrow(requests, senders, requests', senders)
  BY <1>2 DEF RequestsGrow
<1>4. Genuine(calls, requests', senders)
  BY <1>0, <1>2 DEF Genuine
<1>5. UNCHANGED <<senders, calls, relays, told, listing, listings>>
  BY DEF relayVars, listVars
<1>6. UnderWay(calls, requests', senders, lake', told)
  <2>1. ASSUME NEW x \in lake', x.kind = "request"
        PROVE  x.call \in DOMAIN calls /\ \A s \in DOMAIN requests' : senders[s] # x.call
    BY <1>0, <1>2, <2>1 DEF UnderWay
  <2>2. ASSUME NEW x \in lake', x.kind = "reply"
        PROVE  Answers(requests', senders, x.to, x.code)
    <3>1. CASE x \in lake
      <4>1. Answers(requests, senders, x.to, x.code) /\ x.code # "pending"
        BY <1>0, <2>2, <3>1 DEF UnderWay, ToImport, ToRest, Replies
      <4> QED
        BY <1>3, <4>1, AnswersStay
    <3>2. CASE x = [kind |-> "reply", to |-> senders[r], code |-> requests'[r].reply]
      BY <1>2, <3>2 DEF Answers
    <3> QED
      BY <3>1, <3>2
  <2>3. ASSUME NEW t \in told PROVE Answers(requests', senders, t.call, t.code)
    <3>1. Answers(requests, senders, t.call, t.code) /\ t.code # "pending"
      BY <1>0 DEF UnderWay, RestInv, RestTypeOK, Replies
    <3> QED
      BY <1>3, <3>1, AnswersStay
  <2> QED
    BY <2>1, <2>2, <2>3 DEF UnderWay
<1>7. Ends(calls, requests', senders)
  <2>1. "pending" \notin Replies
    BY DEF Replies
  <2> QED
    BY <1>0, <1>3, <2>1, AnswersStay DEF Ends
<1>8. Agree(calls, requests', senders)
  BY <1>0, <1>2 DEF Agree, Accords
<1>9. RestTypeOK'
  <2>1. lake' \subseteq ToImport \cup ToRest
    <3> DEFINE a == [kind |-> "reply", to |-> senders[r], code |-> code]
    <3>1. a \in ToRest
      BY <1>1 DEF ToRest
    <3>2. lake' = lake \cup {a}
      BY <1>2
    <3> HIDE DEF a
    <3> QED
      BY <1>0, <3>1, <3>2
  <2> QED
    BY <1>2, <1>5, <2>1 DEF RestInv, RestTypeOK
<1> QED
  BY <1>2, <1>4, <1>5, <1>6, <1>7, <1>8, <1>9 DEF RestInv

\* A name is created by one request.
LEMMA CreatedOnce ==
  ASSUME RestInv, NEW r \in DOMAIN requests, NEW s \in DOMAIN requests,
         requests[r].type = "NT", requests[s].type = "NT", requests[r].id = requests[s].id
  PROVE  r = s
<1>1. /\ senders[r] \in DOMAIN calls /\ calls[senders[r]].type = "NT"
      /\ calls[senders[r]].id = requests[r].id
      /\ senders[s] \in DOMAIN calls /\ calls[senders[s]].type = "NT"
      /\ calls[senders[s]].id = requests[s].id
  BY DEF RestInv, Genuine
<1>2. senders[r] = senders[s]
  BY <1>1 DEF RestInv, CallsSound
<1> QED
  BY <1>2 DEF RestInv, Genuine

\* What the answer code to request r says of the tokens T before and T2 after it.
Effect(Q, T, T2, r, code) ==
  /\ \A j \in Ids : j # Q[r].id => T2[j] = T[j]
  /\ code = "TN" =>
       /\ Q[r].type = "NT" /\ T2[Q[r].id] = Q[r].user
       /\ \A s \in DOMAIN Q : Q[s].id = Q[r].id => Q[s].reply \notin {"TN", "TD"}
  /\ code = "TD" =>
       /\ Q[r].type = "DT" /\ T2[Q[r].id] = None
       /\ \E s \in DOMAIN Q : Q[s].id = Q[r].id /\ Q[s].reply = "TN"
  /\ code \notin {"TN", "TD"} => T2[Q[r].id] = T[Q[r].id]

LEMMA StoresPut ==
  ASSUME RestInv, NEW r \in DOMAIN requests, requests[r].reply = "pending",
         NEW code \in Replies, requests' = [requests EXCEPT ![r].reply = code],
         Effect(requests, token, token', r, code)
  PROVE  Stores(requests', token')
<1> DEFINE i == requests[r].id
<1>1. /\ \A j \in Ids : j # i => token'[j] = token[j]
      /\ code = "TN" => /\ requests[r].type = "NT" /\ token'[i] = requests[r].user
                        /\ \A s \in DOMAIN requests :
                             requests[s].id = i => requests[s].reply \notin {"TN", "TD"}
      /\ code = "TD" => /\ requests[r].type = "DT" /\ token'[i] = None
                        /\ \E s \in DOMAIN requests :
                             requests[s].id = i /\ requests[s].reply = "TN"
      /\ code \notin {"TN", "TD"} => token'[i] = token[i]
  BY DEF Effect
<1>0. /\ requests \in Seq(ImportRequest) /\ Stores(requests, token)
      /\ \A s \in DOMAIN requests : requests[s] \in ImportRequest
  BY DEF RestInv
<1>2. /\ DOMAIN requests' = DOMAIN requests /\ requests'[r].reply = code
      /\ \A s \in DOMAIN requests :
           /\ s # r => requests'[s] = requests[s]
           /\ requests'[s].id = requests[s].id /\ requests'[s].type = requests[s].type
           /\ requests'[s].user = requests[s].user
      /\ requests'[r].id = i
  BY <1>0 DEF ImportRequest
<1>3. \A s \in DOMAIN requests : requests[s].id \in Ids
  BY <1>0 DEF ImportRequest
<1>4. \A j, x : (\E s \in DOMAIN requests : requests[s].id = j /\ requests[s].reply = x)
                  /\ x # "pending"
        => \E s \in DOMAIN requests' : requests'[s].id = j /\ requests'[s].reply = x
  BY <1>2
<1> HIDE DEF i
<1>5. ASSUME NEW s \in DOMAIN requests', requests'[s].reply = "TN"
      PROVE  /\ requests'[s].type = "NT"
             /\ \/ token'[requests'[s].id] = requests'[s].user
                \/ \E t \in DOMAIN requests' :
                     requests'[t].id = requests'[s].id /\ requests'[t].reply = "TD"
  <2>1. CASE s = r
    BY <1>2, <1>5, <1>1, <2>1
  <2>2. CASE s # r
    <3>1. s \in DOMAIN requests /\ requests'[s] = requests[s] /\ requests[s].reply = "TN"
      BY <1>2, <1>5, <2>2
    <3>2. /\ requests[s].type = "NT" /\ requests[s].id \in Ids
          /\ \/ token[requests[s].id] = requests[s].user
             \/ \E t \in DOMAIN requests :
                  requests[t].id = requests[s].id /\ requests[t].reply = "TD"
      BY <1>0, <1>3, <3>1 DEF Stores
    <3>3. CASE token'[requests[s].id] = token[requests[s].id]
      BY <1>4, <3>1, <3>2, <3>3
    <3>4. CASE token'[requests[s].id] # token[requests[s].id]
      <4>1. requests[s].id = i
        BY <1>1, <3>2, <3>4
      <4>2. code = "TD"
        BY <1>1, <3>1, <3>2, <3>4, <4>1
      <4> QED
        BY <1>2, <3>1, <3>2, <4>1, <4>2
    <3> QED
      BY <3>3, <3>4
  <2> QED
    BY <2>1, <2>2
<1>6. ASSUME NEW s \in DOMAIN requests', requests'[s].reply = "TD"
      PROVE  /\ requests'[s].type = "DT" /\ token'[requests'[s].id] = None
             /\ \E t \in DOMAIN requests' :
                  requests'[t].id = requests'[s].id /\ requests'[t].reply = "TN"
  <2>1. CASE s = r
    <3>1. code = "TD" /\ requests'[r].id = i /\ requests'[r].type = requests[r].type
      BY <1>2, <1>6, <2>1
    <3> QED
      BY <1>4, <1>1, <2>1, <3>1
  <2>2. CASE s # r
    <3>1. s \in DOMAIN requests /\ requests'[s] = requests[s] /\ requests[s].reply = "TD"
      BY <1>2, <1>6, <2>2
    <3>2. /\ requests[s].type = "DT" /\ requests[s].id \in Ids
          /\ token[requests[s].id] = None
          /\ \E t \in DOMAIN requests :
               requests[t].id = requests[s].id /\ requests[t].reply = "TN"
      BY <1>0, <1>3, <3>1 DEF Stores
    <3>3. token'[requests[s].id] = None
      <4>1. CASE requests[s].id = i
        <5>1. code # "TN"
          BY <1>1, <3>1, <4>1
        <5> QED
          BY <1>1, <3>2, <4>1, <5>1
      <4>2. CASE requests[s].id # i
        BY <1>1, <3>2, <4>2
      <4> QED
        BY <4>1, <4>2
    <3> QED
      BY <1>4, <3>1, <3>2, <3>3
  <2> QED
    BY <2>1, <2>2
<1>7. ASSUME NEW j \in Ids, token'[j] # None
      PROVE  \E s \in DOMAIN requests' : requests'[s].id = j /\ requests'[s].reply = "TN"
  <2>1. CASE token'[j] = token[j]
    <3>1. \E s \in DOMAIN requests : requests[s].id = j /\ requests[s].reply = "TN"
      BY <1>0, <1>7, <2>1 DEF Stores
    <3> QED
      BY <1>4, <3>1
  <2>2. CASE token'[j] # token[j]
    <3>1. j = i /\ code = "TN"
      BY <1>7, <1>1, <2>2
    <3> QED
      BY <1>2, <3>1
  <2> QED
    BY <2>1, <2>2
<1> QED
  BY <1>5, <1>6, <1>7 DEF Stores

LEMMA ImportRepliesKeeps ==
  ASSUME RestInv, NEW r \in DOMAIN requests, ImportReplies(r)
  PROVE  RestInv'
<1>0. /\ requests \in Seq(ImportRequest) /\ Stores(requests, token)
      /\ token \in [Ids -> Users \cup BadUsers \cup {None}]
      /\ requests[r].reply = "pending"
  BY DEF RestInv, RestTypeOK, ImportReplies
<1>1. PICK i \in Ids : i = requests[r].id
  <2>1. requests[r] \in ImportRequest
    BY <1>0
  <2> QED
    BY <2>1 DEF ImportRequest
<1>2. requests[r].user \in Users \cup BadUsers \cup {None}
  <2>1. requests[r] \in ImportRequest
    BY <1>0
  <2> QED
    BY <2>1 DEF ImportRequest
<1>3. /\ senders[r] \in DOMAIN calls /\ calls[senders[r]].id = i
      /\ HaveEnded(calls, calls[senders[r]].after)
  BY <1>1 DEF RestInv, Genuine, CallsSound
<1>4. /\ lake' = lake \cup {[kind |-> "reply", to |-> senders[r], code |-> requests'[r].reply]}
      /\ UNCHANGED <<senders, relayVars, listVars>>
      /\ Import!Create(r) \/ Import!Delete(r) \/ Import!Synchronize(r)
  BY DEF ImportReplies
\* What was acknowledged before the call began.
<1>5. Acks(calls, "DT", calls[senders[r]].after, calls[senders[r]].id) => token[i] = None
  BY <1>3, DeletedMeans
<1>6. ASSUME Acks(calls, "NT", calls[senders[r]].after, calls[senders[r]].id), token[i] = None
      PROVE  \E j \in DOMAIN calls \ {senders[r]} :
               calls[j].type = "DT" /\ calls[j].id = calls[senders[r]].id
  <2>1. PICK j \in DOMAIN calls :
          calls[j].type = "NT" /\ calls[j].status = 200 /\ calls[j].id = i
    BY <1>3, <1>6 DEF Acks, HaveEnded
  <2>2. PICK s \in DOMAIN requests : requests[s].id = i /\ requests[s].reply = "TD"
    BY <1>6, <2>1, CreatedMeans
  <2>3. senders[s] # senders[r]
    <3>1. s # r
      BY <1>0, <2>2
    <3> QED
      BY <3>1 DEF RestInv, Genuine
  <2> QED
    BY <1>3, <2>2, <2>3, DeletedByCall
<1>7. "TN" \in Replies /\ "TD" \in Replies /\ "TS" \in Replies /\ "EM" \in Replies
        /\ "EE" \in Replies
  BY DEF Replies
\* Any answer that has its effect.
<1>8. ASSUME NEW code \in Replies, requests' = [requests EXCEPT ![r].reply = code],
             token' \in [Ids -> Users \cup BadUsers \cup {None}],
             Effect(requests, token, token', r, code),
             code \in {"TD", "TS"} => token[i] # None,
             code = "EM" => token[i] = None
      PROVE  RestInv'
  <2>1. Stores(requests', token')
    BY <1>0, <1>8, StoresPut
  <2>2. Accords(calls, senders[r], code)
    BY <1>5, <1>6, <1>8 DEF Accords
  <2>3. /\ lake' = lake \cup
                {[kind |-> "reply", to |-> senders[r], code |-> requests'[r].reply]}
        /\ UNCHANGED <<senders, relayVars, listVars>>
    BY <1>4
  <2> QED
    BY <1>0, <1>8, <2>1, <2>2, <2>3, ReplyKeeps
<1>9. CASE Import!Create(r)
  <2>0. requests[r].type = "NT"
    BY <1>9 DEF Import!Create
  <2>1. CASE /\ token[i] = None /\ token' = [token EXCEPT ![i] = requests[r].user]
             /\ requests' = [requests EXCEPT ![r].reply = "TN"]
    <3>1. \A s \in DOMAIN requests : requests[s].id = i => requests[s].reply \notin {"TN", "TD"}
      <4>1. ASSUME NEW s \in DOMAIN requests, requests[s].id = i, requests[s].reply = "TN"
            PROVE  FALSE
        <5>1. requests[s].type = "NT"
          BY <1>0, <4>1 DEF Stores
        <5> QED
          BY <1>0, <1>1, <2>0, <4>1, <5>1, CreatedOnce
      <4> QED
        BY <1>0, <4>1 DEF Stores
    <3>2. token' \in [Ids -> Users \cup BadUsers \cup {None}]
            /\ token'[i] = requests[r].user /\ \A j \in Ids : j # i => token'[j] = token[j]
      BY <1>0, <1>2, <2>1
    <3>3. Effect(requests, token, token', r, "TN")
      BY <1>1, <2>0, <3>1, <3>2 DEF Effect
    <3>4. requests' = [requests EXCEPT ![r].reply = "TN"]
      BY <2>1
    <3> QED
      BY <1>7, <1>8, <3>2, <3>3, <3>4
  <2>2. CASE token' = token /\ requests' = [requests EXCEPT ![r].reply = "EE"]
    <3>1. token' \in [Ids -> Users \cup BadUsers \cup {None}]
      BY <1>0, <2>2
    <3>2. Effect(requests, token, token', r, "EE")
      BY <2>2 DEF Effect
    <3>3. requests' = [requests EXCEPT ![r].reply = "EE"]
      BY <2>2
    <3> QED
      BY <1>7, <1>8, <3>1, <3>2, <3>3
  <2> QED
    BY <1>1, <1>9, <2>1, <2>2 DEF Import!Create, Import!Answer
<1>10. CASE Import!Delete(r)
  <2>0. /\ requests[r].type = "DT" /\ token' = [token EXCEPT ![i] = None]
        /\ requests' = [requests EXCEPT ![r].reply = IF token[i] = None THEN "EM" ELSE "TD"]
    BY <1>1, <1>10 DEF Import!Delete, Import!Answer
  <2>1. /\ token' \in [Ids -> Users \cup BadUsers \cup {None}]
        /\ token'[i] = None /\ \A j \in Ids : j # i => token'[j] = token[j]
    BY <1>0, <2>0
  <2>2. CASE token[i] = None
    <3>1. requests' = [requests EXCEPT ![r].reply = "EM"]
      BY <2>0, <2>2
    <3>2. Effect(requests, token, token', r, "EM")
      BY <1>1, <2>1, <2>2 DEF Effect
    <3> QED
      BY <1>7, <1>8, <2>1, <2>2, <3>1, <3>2
  <2>3. CASE token[i] # None
    <3>1. requests' = [requests EXCEPT ![r].reply = "TD"]
      BY <2>0, <2>3
    <3>2. \E s \in DOMAIN requests : requests[s].id = i /\ requests[s].reply = "TN"
      BY <1>0, <2>3 DEF Stores
    <3>3. Effect(requests, token, token', r, "TD")
      BY <1>1, <2>0, <2>1, <3>2 DEF Effect
    <3> QED
      BY <1>7, <1>8, <2>1, <2>3, <3>1, <3>3
  <2> QED
    BY <2>2, <2>3
<1>11. CASE Import!Synchronize(r)
  <2>1. /\ token' = token
        /\ requests' = [requests EXCEPT ![r].reply = IF token[i] = None THEN "EM" ELSE "TS"]
    BY <1>1, <1>11 DEF Import!Synchronize, Import!Answer
  <2>2. token' \in [Ids -> Users \cup BadUsers \cup {None}]
    BY <1>0, <2>1
  <2>3. \A code \in {"EM", "TS"} : Effect(requests, token, token', r, code)
    BY <2>1 DEF Effect
  <2>4. CASE token[i] = None
    <3>1. requests' = [requests EXCEPT ![r].reply = "EM"]
      BY <2>1, <2>4
    <3> QED
      BY <1>7, <1>8, <2>2, <2>3, <2>4, <3>1
  <2>5. CASE token[i] # None
    <3>1. requests' = [requests EXCEPT ![r].reply = "TS"]
      BY <2>1, <2>5
    <3> QED
      BY <1>7, <1>8, <2>2, <2>3, <2>5, <3>1
  <2> QED
    BY <2>4, <2>5
<1> QED
  BY <1>4, <1>9, <1>10, <1>11

-----------------------------------------------------------------------------
(* The relays *)

LEMMA RestReceivesKeeps ==
  ASSUME RestInv, NEW m \in lake, RestReceives(m)
  PROVE  RestInv'
<1>1. /\ m.kind = "reply" /\ lake' = lake \ {m}
      /\ told' = told \cup {[call |-> q.call, code |-> m.code] :
                              q \in {p \in relays : p.name = m.to}}
      /\ UNCHANGED <<token, requests, senders, calls, relays, listing, listings>>
  BY DEF RestReceives, importVars, listVars
<1>2. /\ m.code \in Replies /\ Answers(requests, senders, m.to, m.code)
      /\ lake \subseteq ToImport \cup ToRest
      /\ UnderWay(calls, requests, senders, lake, told)
      /\ relays \subseteq [name: CallNumbers, call: CallNumbers]
      /\ told \subseteq [call: CallNumbers, code: Replies]
  <2>1. m \in ToImport \cup ToRest
    BY DEF RestInv, RestTypeOK
  <2>2. m.code \in Replies
    BY <1>1, <2>1 DEF ToImport, ToRest
  <2> QED
    BY <1>1, <2>2 DEF RestInv, RestTypeOK, UnderWay
<1>3. ASSUME NEW t \in told', t \notin told
      PROVE  t.call = m.to /\ t.code = m.code /\ t \in [call: CallNumbers, code: Replies]
  <2>1. PICK q \in relays : q.name = m.to /\ t = [call |-> q.call, code |-> m.code]
    BY <1>1, <1>3
  <2>2. q.call = q.name
    BY DEF RestInv, RelaysSound
  <2>3. q.call \in CallNumbers
    BY <1>2
  <2> QED
    BY <1>2, <2>1, <2>2, <2>3
<1>4. UnderWay(calls, requests, senders, lake', told')
  BY <1>1, <1>2, <1>3 DEF UnderWay
<1>5. told' \subseteq [call: CallNumbers, code: Replies]
  BY <1>2, <1>3
<1>6. lake' \subseteq ToImport \cup ToRest
  BY <1>1, <1>2
<1>7. RestTypeOK'
  BY <1>1, <1>5, <1>6 DEF RestInv, RestTypeOK
<1> QED
  BY <1>1, <1>4, <1>7 DEF RestInv

LEMMA TakeKeeps ==
  ASSUME RestInv, NEW k \in DOMAIN calls, Take(k)
  PROVE  RestInv'
<1>1. PICK t \in told :
        /\ t.call = k
        /\ End(k, StatusOf(calls[k].type, t.code))
        /\ told' = told \ {t}
        /\ UNCHANGED <<importVars, lake, listVars>>
  BY DEF Take
<1>2. t.code \in Replies /\ Answers(requests, senders, k, t.code)
  BY <1>1 DEF RestInv, RestTypeOK, UnderWay
<1>3. PICK status : status = StatusOf(calls[k].type, t.code)
  OBVIOUS
<1>4. End(k, status) /\ told' \subseteq told
  BY <1>1, <1>3
<1>5. \E code \in Replies : /\ Answers(requests, senders, k, code)
                            /\ status = StatusOf(calls[k].type, code)
  BY <1>2, <1>3
<1>6. UNCHANGED <<importVars, lake, listVars>>
  BY <1>1
<1> QED
  BY <1>4, <1>5, <1>6, EndKeeps

LEMMA TimeoutKeeps ==
  ASSUME RestInv, NEW k \in DOMAIN calls, Timeout(k)
  PROVE  RestInv'
<1>1. /\ End(k, 504) /\ told' \subseteq told
      /\ UNCHANGED <<importVars, lake, listVars>>
  BY DEF Timeout
<1> QED
  BY <1>1, EndKeeps

-----------------------------------------------------------------------------
(* The listing *)

\* A listing that goes on while nothing else happens.
LEMMA ListingKeeps ==
  ASSUME RestInv, UNCHANGED <<importVars, relayVars, lake>>,
         listing' \in [pc: {"idle", "read"}, todo: SUBSET Ids, got: SUBSET Ids,
                       after: SUBSET CallNumbers],
         listings' \in 0..MaxListings,
         Lists(calls, listing')
  PROVE  RestInv'
<1>1. UNCHANGED <<token, requests, senders, calls, relays, told, lake>>
  BY DEF importVars, relayVars
<1>2. RestTypeOK'
  BY <1>1 DEF RestInv, RestTypeOK
<1> QED
  BY <1>1, <1>2 DEF RestInv

LEMMA ListKeeps ==
  ASSUME RestInv, List
  PROVE  RestInv'
<1> DEFINE l == [pc |-> "read", todo |-> {i \in Ids : token[i] # None}, got |-> {},
                 after |-> Ended]
<1>1. /\ listings < MaxListings /\ listings' = listings + 1 /\ listing' = l
      /\ UNCHANGED <<importVars, relayVars, lake>>
  BY DEF List
<1>2. listings' \in 0..MaxListings
  BY <1>1, RestBoundsAssumption DEF RestInv, RestTypeOK
<1>3. /\ l.pc = "read" /\ l.todo = {i \in Ids : token[i] # None} /\ l.got = {}
      /\ l.after = Ended
  OBVIOUS
<1>4. Ended \subseteq CallNumbers
  BY RestBoundsAssumption DEF RestInv, RestTypeOK, Ended, CallNumbers
<1>5. l \in [pc: {"idle", "read"}, todo: SUBSET Ids, got: SUBSET Ids,
             after: SUBSET CallNumbers]
  BY <1>4
<1> HIDE DEF l
<1>6. Lists(calls, l)
  <2>1. ASSUME NEW i \in Ids, Acks(calls, "NT", Ended, i), token[i] = None
        PROVE  \E j \in DOMAIN calls : calls[j].type = "DT" /\ calls[j].id = i
    <3>1. PICK j \in DOMAIN calls :
            calls[j].type = "NT" /\ calls[j].status = 200 /\ calls[j].id = i
      BY <2>1, HandleEnded DEF Acks, HaveEnded
    <3>2. PICK s \in DOMAIN requests : requests[s].id = i /\ requests[s].reply = "TD"
      BY <2>1, <3>1, CreatedMeans
    <3> QED
      BY <3>2, DeletedByCall
  <2>2. ASSUME NEW i \in Ids, token[i] # None PROVE ~Acks(calls, "DT", Ended, i)
    BY <2>2, HandleEnded, DeletedMeans
  <2> QED
    BY <1>3, <2>1, <2>2, HandleEnded DEF Lists
<1> QED
  BY <1>1, <1>2, <1>5, <1>6, ListingKeeps

LEMMA ReadTokenKeeps ==
  ASSUME RestInv, NEW i \in Ids, ReadToken(i)
  PROVE  RestInv'
<1> DEFINE new == IF token[i] = None THEN {} ELSE {i}
           l == [listing EXCEPT !.todo = @ \ {i}, !.got = @ \cup new]
<1>1. /\ listing.pc = "read" /\ i \in listing.todo /\ listing' = l /\ listings' = listings
      /\ UNCHANGED <<importVars, relayVars, lake>>
  BY DEF ReadToken
<1>2. listing \in [pc: {"idle", "read"}, todo: SUBSET Ids, got: SUBSET Ids,
                   after: SUBSET CallNumbers] /\ listings \in 0..MaxListings
  BY DEF RestInv, RestTypeOK
<1>3. /\ l.pc = listing.pc /\ l.todo = listing.todo \ {i} /\ l.got = listing.got \cup new
      /\ l.after = listing.after
  BY <1>2
<1>4. l \in [pc: {"idle", "read"}, todo: SUBSET Ids, got: SUBSET Ids,
             after: SUBSET CallNumbers]
  BY <1>2
<1>5. new \subseteq {i} /\ (token[i] # None => new = {i})
  OBVIOUS
<1> HIDE DEF l, new
<1>6. Lists(calls, l)
  <2>1. /\ HaveEnded(calls, listing.after)
        /\ \A j \in Ids : Acks(calls, "NT", listing.after, j) =>
             \/ j \in listing.got \cup listing.todo
             \/ \E k \in DOMAIN calls : calls[k].type = "DT" /\ calls[k].id = j
        /\ \A j \in listing.got \cup listing.todo : ~Acks(calls, "DT", listing.after, j)
    BY <1>1 DEF RestInv, Lists
  <2>2. ASSUME Acks(calls, "NT", listing.after, i), i \notin l.got
        PROVE  \E k \in DOMAIN calls : calls[k].type = "DT" /\ calls[k].id = i
    <3>1. token[i] = None
      BY <1>3, <1>5, <2>2
    <3>2. PICK j \in DOMAIN calls :
            calls[j].type = "NT" /\ calls[j].status = 200 /\ calls[j].id = i
      BY <2>1, <2>2 DEF Acks, HaveEnded
    <3>3. PICK s \in DOMAIN requests : requests[s].id = i /\ requests[s].reply = "TD"
      BY <3>1, <3>2, CreatedMeans
    <3> QED
      BY <3>3, DeletedByCall
  <2>3. l.got \cup l.todo \subseteq listing.got \cup listing.todo
    BY <1>1, <1>3, <1>5
  <2>4. \A j \in listing.got \cup listing.todo : j = i \/ j \in l.got \cup l.todo
    BY <1>3
  <2>5. ASSUME NEW j \in Ids, Acks(calls, "NT", l.after, j)
        PROVE  \/ j \in l.got \cup l.todo
               \/ \E k \in DOMAIN calls : calls[k].type = "DT" /\ calls[k].id = j
    <3>1. Acks(calls, "NT", listing.after, j)
      BY <1>3, <2>5
    <3>2. CASE j = i
      BY <2>2, <3>1, <3>2
    <3>3. CASE j # i
      BY <2>1, <2>4, <3>1, <3>3
    <3> QED
      BY <3>2, <3>3
  <2>6. HaveEnded(calls, l.after) /\ \A j \in l.got \cup l.todo : ~Acks(calls, "DT", l.after, j)
    BY <1>3, <2>1, <2>3
  <2> QED
    BY <2>5, <2>6 DEF Lists
<1>7. listing' = l /\ listings' \in 0..MaxListings
  BY <1>1, <1>2
<1> QED
  BY <1>1, <1>4, <1>6, <1>7, ListingKeeps

LEMMA ListEndsKeeps ==
  ASSUME RestInv, ListEnds
  PROVE  RestInv'
<1>1. /\ listing' = NoListing /\ listings' = listings
      /\ UNCHANGED <<importVars, relayVars, lake>>
  BY DEF ListEnds
<1>2. listings' \in 0..MaxListings
  BY <1>1 DEF RestInv, RestTypeOK
<1>3. /\ NoListing \in [pc: {"idle", "read"}, todo: SUBSET Ids, got: SUBSET Ids,
                        after: SUBSET CallNumbers]
      /\ NoListing.pc = "idle"
  BY DEF NoListing
<1>4. Lists(calls, NoListing)
  BY <1>3 DEF Lists
<1> QED
  BY <1>1, <1>2, <1>3, <1>4, ListingKeeps

-----------------------------------------------------------------------------
(* The whole *)

LEMMA RestStep ==
  ASSUME RestInv, [RestNext]_restVars
  PROVE  RestInv'
<1>1. ASSUME NEW i \in Ids, NEW u \in Users \cup BadUsers, Create(i, u)
      PROVE  RestInv'
  <2>1. "NT" \in Types /\ u # None
    BY RestUsersAssumption DEF Types
  <2>2. i \notin Drawn /\ Request("NT", i, u)
    BY <1>1 DEF Create
  <2> QED
    BY <2>1, <2>2, RequestKeeps
<1>2. ASSUME NEW i \in Ids, Delete(i)
      PROVE  RestInv'
  BY <1>2, RequestKeeps DEF Delete, Types
<1>3. ASSUME NEW i \in Ids, Synchronize(i)
      PROVE  RestInv'
  BY <1>3, RequestKeeps DEF Synchronize, Types
<1>4. ASSUME NEW k \in DOMAIN calls, Take(k) \/ Timeout(k) \/ ImportReceives(k)
      PROVE  RestInv'
  BY <1>4, TakeKeeps, TimeoutKeeps, ImportReceivesKeeps
<1>5. ASSUME NEW r \in DOMAIN requests, ImportReplies(r)
      PROVE  RestInv'
  BY <1>5, ImportRepliesKeeps
<1>6. ASSUME NEW m \in lake, RestReceives(m)
      PROVE  RestInv'
  BY <1>6, RestReceivesKeeps
<1>7. ASSUME List \/ (\E i \in Ids : ReadToken(i)) \/ ListEnds
      PROVE  RestInv'
  BY <1>7, ListKeeps, ReadTokenKeeps, ListEndsKeeps
<1>8. CASE UNCHANGED restVars
  <2>1. UNCHANGED <<token, requests, senders, calls, relays, told, lake, listing, listings>>
    BY <1>8 DEF restVars, importVars, relayVars, listVars
  <2>2. RestTypeOK'
    BY <2>1 DEF RestInv, RestTypeOK
  <2> QED
    BY <2>1, <2>2 DEF RestInv
<1> QED
  BY <1>1, <1>2, <1>3, <1>4, <1>5, <1>6, <1>7, <1>8 DEF RestNext

LEMMA Spec_RestInv == RestSpec => []RestInv
<1>1. RestInv /\ [RestNext]_restVars => RestInv'
  BY RestStep
<1> QED
  BY <1>1, RestInitInv, PTL DEF RestSpec

\* The state stays typed, and no relay outlives its call (actor/token.go 40-41).
THEOREM RestSpec_TypeOK == RestSpec => []RestTypeOK
<1>1. RestInv => RestTypeOK
  BY DEF RestInv
<1> QED
  BY <1>1, Spec_RestInv, PTL

\* No client is told what contradicts an acknowledgement that another client had
\* before the call began (actor/token.go 35-119, api/token.go 53-170).
THEOREM RestSpec_ClientsAgree == RestSpec => []ClientsAgree
<1>1. ASSUME RestInv PROVE ClientsAgree
  <2> SUFFICES ASSUME NEW k \in DOMAIN calls
               PROVE  /\ calls[k].status = 200 =>
                           \/ calls[k].type = "NT"
                           \/ calls[k].id \notin Acknowledged("DT", calls[k].after)
                      /\ /\ calls[k].status = 404
                         /\ calls[k].id \in Acknowledged("NT", calls[k].after)
                         => \E j \in DOMAIN calls \ {k} :
                              calls[j].type = "DT" /\ calls[j].id = calls[k].id
    BY DEF ClientsAgree
  <2>1. \A type, set, i : i \in Acknowledged(type, set) <=> Acks(calls, type, set, i)
    BY DEF Acknowledged, Acks
  <2>2. CASE calls[k].status \in {200, 404}
    <3>1. PICK code \in Replies : /\ Answers(requests, senders, k, code)
                                  /\ calls[k].status = StatusOf(calls[k].type, code)
      BY <1>1, <2>2 DEF RestInv, Ends
    <3>2. PICK r \in DOMAIN requests : senders[r] = k /\ requests[r].reply = code
      BY <3>1 DEF Answers
    <3>3. /\ Acks(calls, "DT", calls[k].after, calls[k].id) => code \notin {"TD", "TS"}
          /\ Acks(calls, "NT", calls[k].after, calls[k].id) /\ code = "EM" =>
               \E j \in DOMAIN calls \ {k} : calls[j].type = "DT" /\ calls[j].id = calls[k].id
      BY <1>1, <3>2 DEF RestInv, Agree
    <3>4. calls[k].status = 200 /\ calls[k].type # "NT" => code \in {"TD", "TS"}
      BY <3>1 DEF StatusOf
    <3>5. calls[k].status = 404 => code = "EM"
      BY <3>1 DEF StatusOf
    <3> QED
      BY <2>1, <3>3, <3>4, <3>5
  <2> QED
    BY <2>2
<1> QED
  BY <1>1, Spec_RestInv, PTL

\* A creation that was acknowledged is stored, with its own credentials, for as
\* long as nobody asks to delete the token (api/token.go 106-114).
THEOREM RestSpec_AcknowledgedIsStored == RestSpec => []AcknowledgedIsStored
<1>1. ASSUME RestInv PROVE AcknowledgedIsStored
  <2> SUFFICES ASSUME NEW k \in DOMAIN calls, calls[k].type = "NT", calls[k].status = 200,
                      calls[k].id \notin DeleteCalled
               PROVE  token[calls[k].id] = calls[k].user
    BY DEF AcknowledgedIsStored
  <2>1. ASSUME NEW s \in DOMAIN requests, requests[s].id = calls[k].id,
               requests[s].reply = "TD"
        PROVE  FALSE
    BY <1>1, <2>1, DeletedByCall DEF DeleteCalled
  <2> QED
    BY <1>1, <2>1, CreatedMeans
<1> QED
  BY <1>1, Spec_RestInv, PTL

\* A list shows what had been acknowledged when it was asked for, although the
\* tokens are read one by one while others are deleted (persistence/token.go 30-60).
THEOREM RestSpec_ListIsCurrent == RestSpec => []ListIsCurrent
<1>1. ASSUME RestInv PROVE ListIsCurrent
  <2> SUFFICES ASSUME listing.pc = "read", listing.todo = {}
               PROVE  /\ Acknowledged("NT", listing.after) \ DeleteCalled \subseteq listing.got
                      /\ listing.got \cap Acknowledged("DT", listing.after) = {}
    BY DEF ListIsCurrent, Listed
  <2>1. \A type, set, i : i \in Acknowledged(type, set) <=> Acks(calls, type, set, i)
    BY DEF Acknowledged, Acks
  <2>2. /\ HaveEnded(calls, listing.after)
        /\ \A i \in Ids : Acks(calls, "NT", listing.after, i) =>
             \/ i \in listing.got
             \/ \E j \in DOMAIN calls : calls[j].type = "DT" /\ calls[j].id = i
        /\ \A i \in listing.got : ~Acks(calls, "DT", listing.after, i)
    BY <1>1 DEF RestInv, Lists
  <2>3. \A k \in DOMAIN calls : calls[k].id \in Ids
    <3>1. \A k \in DOMAIN calls : calls[k] \in Call
      BY <1>1 DEF RestInv, RestTypeOK
    <3> QED
      BY <3>1 DEF Call
  <2>4. ASSUME NEW i, i \in Acknowledged("NT", listing.after), i \notin DeleteCalled
        PROVE  i \in listing.got
    <3>1. Acks(calls, "NT", listing.after, i) /\ i \in Ids
      BY <2>1, <2>2, <2>3, <2>4 DEF Acks, HaveEnded
    <3>2. ~\E j \in DOMAIN calls : calls[j].type = "DT" /\ calls[j].id = i
      BY <2>4 DEF DeleteCalled
    <3> QED
      BY <2>2, <3>1, <3>2
  <2> QED
    BY <2>1, <2>2, <2>4
<1> QED
  BY <1>1, Spec_RestInv, PTL

-----------------------------------------------------------------------------
(* The parts of the service, of which one moves at a time *)

\* Every part keeps its type while the others rest: the relays of RestApi, the
\* handlers of SystemControl and those of Monitors leave no debris behind.
THEOREM MCSpec_PartsTypeOK == MCSpec => []PartsTypeOK
<1> DEFINE Inv == RestInv /\ ControlInv /\ MonitorsInv
<1>1. MCInit => Inv
  BY RestInitInv, ControlInv_Init, MonitorsInv_Init DEF MCInit
<1>2. Inv /\ [MCNext]_mcVars => Inv'
  <2> SUFFICES ASSUME Inv, [MCNext]_mcVars PROVE Inv'
    OBVIOUS
  <2>1. /\ [RestNext]_restVars /\ [ControlNext]_controlVars /\ [MonitorsNext]_monitorVars
    BY DEF MCNext, In, mcVars
  <2> QED
    BY <2>1, RestStep, ControlInv_Next, MonitorsInv_Next
<1>3. Inv => PartsTypeOK
  BY DEF RestInv, ControlInv, MonitorsInv, PartsTypeOK
<1> QED
  BY <1>1, <1>2, <1>3, PTL DEF MCSpec
=============================================================================
