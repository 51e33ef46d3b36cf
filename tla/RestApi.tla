-------------------------------- MODULE RestApi --------------------------------
(***************************************************************************)
(* bondster-bco-rest between its HTTP clients and the import service of a  *)
(* tenant (api/token.go, actor/token.go, persistence/token.go).            *)
(*                                                                         *)
(* For every HTTP call the REST service registers a relay actor under a    *)
(* new name, sends a message to the token through the lake and waits for   *)
(* what the relay hands over, or five seconds. The import service is the   *)
(* one TokenService promises: its actions are used here as they are, so    *)
(* that what holds below holds for every import service that keeps the     *)
(* promise. Messages overtake each other in the lake. One that is lost     *)
(* there is one that is never received, and a request that is lost in a    *)
(* restart of the import service is one that is never answered. Tokens are *)
(* listed by reading the storage that both services share, while the       *)
(* import service writes it.                                               *)
(*                                                                         *)
(* Call number k of an HTTP client is calls[k], and its relay is named k.  *)
(***************************************************************************)
EXTENDS Naturals, Sequences, FiniteSets

CONSTANTS
  Ids,          \* names the REST service may draw for tokens
  Users,        \* credentials that fit a message
  BadUsers,     \* credentials with a space: the message has too many parts
  None,
  MaxCalls,     \* bound on the HTTP calls
  MaxListings   \* bound on the listings

ASSUME RestUsersAssumption == Users \cap BadUsers = {} /\ None \notin Users \cup BadUsers
ASSUME RestBoundsAssumption == MaxCalls \in Nat /\ MaxListings \in Nat

VARIABLES
  token, requests,  \* the import service, as TokenService has it
  calls,            \* the HTTP calls, in the order of their arrival
  lake,             \* messages under way between the services
  relays,           \* the relay actors registered: [name, call]
  senders,          \* the relay that waits for the reply to a request
  told,             \* the reply a relay hands over, or tries to: [call, code]
  listing,          \* GET /token: what is still to be read, the result, and the
                    \* calls that had ended when it began
  listings

importVars == <<token, requests, senders>>
relayVars == <<calls, relays, told>>
listVars == <<listing, listings>>
restVars == <<importVars, relayVars, listVars, lake>>

Import == INSTANCE TokenService WITH MaxRequests <- MaxCalls, Users <- Users \cup BadUsers

Types == {"NT", "DT", "ST"}
Replies == {"TN", "TD", "TS", "EM", "EE"}
CallNumbers == 1..MaxCalls

\* after: the calls that had ended when this one began (history).
Call == [type: Types, id: Ids, user: Users \cup BadUsers \cup {None},
         status: {0, 200, 404, 500, 504}, after: SUBSET CallNumbers]
ToImport == [kind: {"request"}, call: CallNumbers]
ToRest == [kind: {"reply"}, to: CallNumbers, code: Replies]

NoListing == [pc |-> "idle", todo |-> {}, got |-> {}, after |-> {}]

\* Type invariant: also, a relay is registered only for as long as its call waits,
\* so that the actors of the REST service do not pile up (actor/token.go 40-41).
\* What TokenService keeps is its own business.
RestTypeOK ==
  /\ token \in [Ids -> Users \cup BadUsers \cup {None}]
  /\ senders \in Seq(CallNumbers) /\ Len(senders) = Len(requests)
  /\ calls \in Seq(Call) /\ Len(calls) <= MaxCalls
  /\ lake \subseteq ToImport \cup ToRest
  /\ relays \subseteq [name: CallNumbers, call: CallNumbers]
  /\ \A r \in relays : calls[r.call].status = 0
  /\ told \subseteq [call: CallNumbers, code: Replies]
  /\ listing \in [pc: {"idle", "read"}, todo: SUBSET Ids, got: SUBSET Ids,
                  after: SUBSET CallNumbers]
  /\ listings \in 0..MaxListings

RestInit ==
  /\ Import!Init /\ senders = <<>>
  /\ calls = <<>> /\ lake = {} /\ relays = {} /\ told = {}
  /\ listing = NoListing
  /\ listings = 0

Ended == {k \in DOMAIN calls : calls[k].status # 0}

-----------------------------------------------------------------------------
(* CreateToken, DeleteToken and SynchronizeToken of api/token.go *)

\* Mutant of RelayName: the relay is named after the token.
RelayNameOfToken(k, i) == i

\* "relay/" and a new xid.
RelayName(k, i) == k

\* json.Unmarshal draws a new id for a token that is created.
Drawn == {calls[k].id : k \in {j \in DOMAIN calls : calls[j].type = "NT"}}

\* The relay is registered, unless there is one by its name, and the message sent.
Request(type, i, u) ==
  LET k == Len(calls) + 1
  IN /\ k <= MaxCalls
     /\ calls' = Append(calls, [type |-> type, id |-> i, user |-> u, status |-> 0,
                                after |-> Ended])
     /\ relays' = relays \cup
          {r \in {[name |-> RelayName(k, i), call |-> k]} :
             \A q \in relays : q.name # r.name}
     /\ lake' = lake \cup {[kind |-> "request", call |-> k]}
     /\ UNCHANGED <<importVars, told, listVars>>

Create(i, u) == i \notin Drawn /\ Request("NT", i, u)

\* The client knows the id from an answer or from a list.
Delete(i) == i \in Drawn /\ Request("DT", i, None)

Synchronize(i) == i \in Drawn /\ Request("ST", i, None)

\* Mutant of StatusOf: every reply is a success.
StatusOfReply(type, code) == 200

\* The switch over the type of the reply; the default is an error.
StatusOf(type, code) ==
  IF <<type, code>> \in {<<"NT", "TN">>, <<"DT", "TD">>, <<"ST", "TS">>} THEN 200
  ELSE IF type # "NT" /\ code = "EM" THEN 404
  ELSE 500

\* The call ends, and its relay is unregistered by name.
End(k, status) ==
  /\ calls[k].status = 0
  /\ calls' = [calls EXCEPT ![k].status = status]
  /\ relays' = {r \in relays : r.name # RelayName(k, calls[k].id)}

\* select: the relay has a reply.
Take(k) ==
  \E t \in told :
    /\ t.call = k
    /\ End(k, StatusOf(calls[k].type, t.code))
    /\ told' = told \ {t}
    /\ UNCHANGED <<importVars, lake, listVars>>

\* Mutant of Timeout: the relay stays registered.
TimeoutLeaks(k) ==
  /\ calls[k].status = 0
  /\ calls' = [calls EXCEPT ![k].status = 504]
  /\ UNCHANGED <<importVars, relays, told, lake, listVars>>

\* select: five seconds are over, even if a reply is there as well: the goroutine
\* of the relay keeps it for ever, and nobody sees it again.
Timeout(k) ==
  /\ End(k, 504)
  /\ told' = {t \in told : t.call # k}
  /\ UNCHANGED <<importVars, lake, listVars>>

-----------------------------------------------------------------------------
(* The lake, and ProcessMessage on both sides *)

\* The import service takes a message. One with too many parts is answered at once.
ImportReceives(k) ==
  /\ [kind |-> "request", call |-> k] \in lake
  /\ LET c == calls[k]
         bad == c.user \in BadUsers
         name == RelayName(k, c.id)
     IN /\ Import!Receive(c.id, IF bad THEN "??" ELSE c.type, c.user)
        /\ senders' = Append(senders, name)
        /\ lake' = (lake \ {[kind |-> "request", call |-> k]})
                     \cup (IF bad THEN {[kind |-> "reply", to |-> name, code |-> "EE"]} ELSE {})
  /\ UNCHANGED <<relayVars, listVars>>

ImportReplies(r) ==
  /\ requests[r].reply = "pending"
  /\ Import!Create(r) \/ Import!Delete(r) \/ Import!Synchronize(r)
  /\ lake' = lake \cup {[kind |-> "reply", to |-> senders[r], code |-> requests'[r].reply]}
  /\ UNCHANGED <<senders, relayVars, listVars>>

\* ProcessMessage: the relay by that name is told, or there is none any more.
RestReceives(m) ==
  /\ m.kind = "reply"
  /\ lake' = lake \ {m}
  /\ told' = told \cup {[call |-> r.call, code |-> m.code] : r \in {q \in relays : q.name = m.to}}
  /\ UNCHANGED <<importVars, calls, relays, listVars>>

-----------------------------------------------------------------------------
(* GetTokens: LoadTokens of persistence/token.go *)

\* Exists and ListDirectory. Names are drawn once, so that the directories that
\* deleted tokens leave never hold a value again, and are left out.
List ==
  /\ listing.pc = "idle" /\ listings < MaxListings
  /\ listings' = listings + 1
  /\ listing' = [pc |-> "read", todo |-> {i \in Ids : token[i] # None}, got |-> {},
                 after |-> Ended]
  /\ UNCHANGED <<importVars, relayVars, lake>>

\* Mutant of ReadToken: a token that cannot be read ends the list.
ReadTokenOrStop(i) ==
  /\ listing.pc = "read" /\ i \in listing.todo
  /\ listing' = IF token[i] = None THEN [listing EXCEPT !.todo = {}]
                ELSE [listing EXCEPT !.todo = @ \ {i}, !.got = @ \cup {i}]
  /\ UNCHANGED <<importVars, relayVars, lake, listings>>

\* HydrateToken: a token that has been deleted meanwhile is skipped.
ReadToken(i) ==
  /\ listing.pc = "read" /\ i \in listing.todo
  /\ listing' = [listing EXCEPT !.todo = @ \ {i},
                   !.got = @ \cup (IF token[i] = None THEN {} ELSE {i})]
  /\ UNCHANGED <<importVars, relayVars, lake, listings>>

Listed == listing.pc = "read" /\ listing.todo = {}

ListEnds ==
  /\ Listed
  /\ listing' = NoListing
  /\ UNCHANGED <<importVars, relayVars, lake, listings>>

-----------------------------------------------------------------------------
(* The whole *)

RestNext ==
  \/ \E i \in Ids : (\E u \in Users \cup BadUsers : Create(i, u)) \/ Delete(i) \/ Synchronize(i)
  \/ \E k \in DOMAIN calls : Take(k) \/ Timeout(k) \/ ImportReceives(k)
  \/ \E r \in DOMAIN requests : ImportReplies(r)
  \/ \E m \in lake : RestReceives(m)
  \/ List \/ (\E i \in Ids : ReadToken(i)) \/ ListEnds

RestSpec == RestInit /\ [][RestNext]_restVars

-----------------------------------------------------------------------------
(* What holds *)

Acknowledged(type, set) ==
  {calls[k].id : k \in {j \in set : calls[j].type = type /\ calls[j].status = 200}}

DeleteCalled == {calls[k].id : k \in {j \in DOMAIN calls : calls[j].type = "DT"}}

\* What one client was told, a later call of any client does not contradict: a
\* token whose delete was acknowledged is neither deleted again nor synchronized,
\* and a token whose creation was acknowledged is missing only if somebody asked
\* to delete it. Timeouts, late replies and restarts lie in between
\* (actor/token.go 35-119, api/token.go 53-170).
ClientsAgree ==
  \A k \in DOMAIN calls :
    LET c == calls[k]
    IN /\ c.status = 200 => c.type = "NT" \/ c.id \notin Acknowledged("DT", c.after)
       /\ c.status = 404 /\ c.id \in Acknowledged("NT", c.after)
            => \E j \in DOMAIN calls \ {k} : calls[j].type = "DT" /\ calls[j].id = c.id

\* A token whose creation was acknowledged is stored with the credentials of that
\* very call for as long as nobody asks to delete it (api/token.go 106-114).
AcknowledgedIsStored ==
  \A k \in DOMAIN calls :
    calls[k].type = "NT" /\ calls[k].status = 200 /\ calls[k].id \notin DeleteCalled
      => token[calls[k].id] = calls[k].user

\* A list contains every token acknowledged before it was asked for, unless
\* somebody asked to delete it, and none whose delete was acknowledged by then,
\* although the tokens are read one by one (persistence/token.go 30-60).
ListIsCurrent ==
  Listed =>
    /\ Acknowledged("NT", listing.after) \ DeleteCalled \subseteq listing.got
    /\ listing.got \cap Acknowledged("DT", listing.after) = {}

=============================================================================
