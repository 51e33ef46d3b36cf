----------------------------- MODULE TokenService -----------------------------
(***************************************************************************)
(* What bondster-bco-import promises the clients that create, delete and   *)
(* synchronize tokens: a map from names to credentials, on which every     *)
(* request takes effect at one moment between its arrival and its reply,   *)
(* and which a restart of the service does not touch. Mailboxes, actors,   *)
(* files, the scheduled worker and the goroutines that synchronize are     *)
(* hidden; TokenActor implements this module where the README says so.     *)
(***************************************************************************)
EXTENDS Naturals, Sequences

CONSTANTS Ids, Users, None, MaxRequests

VARIABLES token, requests

vars == <<token, requests>>

Init == token = [i \in Ids |-> None] /\ requests = <<>>

Receive(i, type, u) ==
  /\ Len(requests) < MaxRequests
  /\ requests' = Append(requests,
       [id |-> i, type |-> type, user |-> u,
        reply |-> IF type = "??" THEN "EE" ELSE "pending"])
  /\ UNCHANGED token

\* Request r takes effect and is answered.
Answer(r, code) == requests' = [requests EXCEPT ![r].reply = code]

Create(r) ==
  LET i == requests[r].id
  IN /\ requests[r].type = "NT"
     /\ IF token[i] = None
          THEN token' = [token EXCEPT ![i] = requests[r].user] /\ Answer(r, "TN")
          ELSE UNCHANGED token /\ Answer(r, "EE")

Delete(r) ==
  LET i == requests[r].id
  IN /\ requests[r].type = "DT"
     /\ token' = [token EXCEPT ![i] = None]
     /\ Answer(r, IF token[i] = None THEN "EM" ELSE "TD")

Synchronize(r) ==
  /\ requests[r].type = "ST"
  /\ Answer(r, IF token[requests[r].id] = None THEN "EM" ELSE "TS")
  /\ UNCHANGED token

\* The requests that are pending will never be answered: the service restarts.
Lose ==
  /\ requests' = [r \in DOMAIN requests |->
       IF requests[r].reply = "pending"
       THEN [requests[r] EXCEPT !.reply = "lost"] ELSE requests[r]]
  /\ UNCHANGED token

Next ==
  \/ \E i \in Ids, type \in {"NT", "DT", "ST", "??"}, u \in Users \cup {None} :
       Receive(i, type, u)
  \/ \E r \in DOMAIN requests :
       requests[r].reply = "pending" /\ (Create(r) \/ Delete(r) \/ Synchronize(r))
  \/ Lose

Spec == Init /\ [][Next]_vars
=============================================================================
