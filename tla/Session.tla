------------------------------- MODULE Session -------------------------------
(***************************************************************************)
(* bondster.AuthorizedClient: the queries to the Bondster gateway and the  *)
(* session they need (integration/bondster/auth.go). A session is a web    *)
(* token (JWT) and an SSID with an expiry each; before a query it is       *)
(* prolonged or replaced by a login if it is about to expire, and after    *)
(* an answer 401 it is thrown away and the query repeated.                 *)
(*                                                                         *)
(* DownloadStatements makes its queries one after the other, so that the   *)
(* mutex of the client is never contended and left out. A call of          *)
(* http.Client.Do is one step here, with the outcome that HttpClient       *)
(* leaves: a final status or an error. Time passes between any two steps.  *)
(*                                                                         *)
(* The n-th login makes session n; 0 is no session. The tokens carry their *)
(* expiry, as signed web tokens do.                                        *)
(***************************************************************************)
EXTENDS Naturals

CONSTANTS
  Lifetime,      \* how long a JWT is good for
  SsidLifetime,  \* how long an SSID is good for
  Margin,        \* how long before its expiry the client gives a token up: 10 s
  MaxTime,       \* bound on the clock
  MaxTroubles,   \* bound on the troubles of gateway and network
  MaxQueries     \* bound on the queries

ASSUME LifetimeAssumption ==
  /\ Margin \in Nat
  /\ Lifetime \in Nat /\ Margin < Lifetime
  /\ SsidLifetime \in Nat /\ Margin < SsidLifetime
ASSUME SessionBoundsAssumption ==
  MaxTime \in Nat /\ MaxTroubles \in Nat /\ MaxQueries \in Nat

VARIABLES
  session,   \* the session of the client
  query,     \* where the query is, and the session in its headers
  checked,   \* history: when the session was last checked
  refused,   \* history: the sessions refused to this query
  logins,    \* the sessions the gateway has made
  revoked,   \* those it has forgotten
  now, troubles, queries

gateway == <<logins, revoked>>
history == <<checked, refused>>
sessionVars == <<session, query, history, gateway, now, troubles, queries>>

QueryPcs == {"idle", "check", "prolong", "login", "scenario", "headers", "send",
             "clear", "panicked"}
SessionRecord == [jwt: 0..logins, jwtExp: Nat, ssid: 0..logins, ssidExp: Nat]
NoSession == [jwt |-> 0, jwtExp |-> 0, ssid |-> 0, ssidExp |-> 0]
NoQuery == [pc |-> "idle", sent |-> NoSession]

\* Type invariant.
SessionTypeOK ==
  /\ logins \in Nat /\ revoked \subseteq 1..logins
  /\ session \in SessionRecord
  /\ query \in [pc: QueryPcs, sent: SessionRecord]
  /\ checked \in 0..MaxTime /\ refused \subseteq 1..logins
  /\ now \in 0..MaxTime /\ troubles \in 0..MaxTroubles /\ queries \in 0..MaxQueries

SessionInit ==
  /\ session = NoSession
  /\ query = NoQuery
  /\ checked = 0 /\ refused = {}
  /\ logins = 0 /\ revoked = {}
  /\ now = 0 /\ troubles = 0 /\ queries = 0

-----------------------------------------------------------------------------
(* The gateway *)

Honoured(s) ==
  /\ s.jwt # 0 /\ s.jwt = s.ssid /\ s.jwt \notin revoked
  /\ now <= s.jwtExp /\ now <= s.ssidExp

TimePasses ==
  /\ now < MaxTime
  /\ now' = now + 1
  /\ UNCHANGED <<session, query, history, gateway, troubles, queries>>

Trouble == troubles < MaxTroubles /\ troubles' = troubles + 1

\* The gateway forgets a session: it restarts, or the user logs in elsewhere.
Revoke ==
  /\ Trouble
  /\ logins \notin revoked \cup {0}
  /\ revoked' = revoked \cup {logins}
  /\ UNCHANGED <<session, query, history, logins, now, queries>>

-----------------------------------------------------------------------------
(* AuthorizedClient.Do *)

\* Mutant of IsJWTExpired: the margin is forgotten.
IsJWTExpiredLate(s) == s.jwt # 0 /\ now > s.jwtExp

IsJWTExpired(s) == s.jwt # 0 /\ now + Margin > s.jwtExp

IsSSIDExpired(s) == s.jwt = 0 \/ s.ssid = 0 \/ now + Margin > s.ssidExp

At(pc) == query' = [query EXCEPT !.pc = pc]

Query ==
  /\ query.pc = "idle" /\ queries < MaxQueries
  /\ queries' = queries + 1
  /\ At("check")
  /\ refused' = {}
  /\ UNCHANGED <<session, checked, gateway, now, troubles>>

Check ==
  /\ query.pc = "check"
  /\ checked' = now
  /\ At(IF IsJWTExpired(session) THEN "prolong"
        ELSE IF IsSSIDExpired(session) THEN "login" ELSE "headers")
  /\ UNCHANGED <<session, refused, gateway, now, troubles, queries>>

\* prolong: a new JWT beside the same SSID. Whatever goes wrong leads to a login.
Prolong ==
  /\ query.pc = "prolong"
  /\ \/ /\ Honoured(session)
        /\ session' = [session EXCEPT !.jwtExp = now + Lifetime]
        /\ At(IF IsSSIDExpired(session) THEN "login" ELSE "headers")
        /\ UNCHANGED troubles
     \/ /\ IF Honoured(session) THEN Trouble ELSE UNCHANGED troubles
        /\ At("login")
        /\ UNCHANGED session
  /\ UNCHANGED <<history, gateway, now, queries>>

\* login starts by clearing the session; getLoginScenario.
Login ==
  /\ query.pc = "login"
  /\ session' = NoSession
  /\ \/ At("scenario") /\ UNCHANGED troubles
     \/ Trouble /\ query' = NoQuery
  /\ UNCHANGED <<history, gateway, now, queries>>

\* What the gateway answers for the n-th login.
WebToken(n) == [jwt |-> n, jwtExp |-> now + Lifetime,
                ssid |-> n, ssidExp |-> now + SsidLifetime]

\* validateLoginStep: the credentials buy a new session.
Validate ==
  /\ query.pc = "scenario"
  /\ \/ /\ logins' = logins + 1
        /\ session' = WebToken(logins')
        /\ At("headers")
        /\ UNCHANGED troubles
     \/ Trouble /\ query' = NoQuery /\ UNCHANGED <<session, logins>>
  /\ UNCHANGED <<history, revoked, now, queries>>

Headers ==
  /\ query.pc = "headers"
  /\ query' = [pc |-> "send", sent |-> session]
  /\ UNCHANGED <<session, history, gateway, now, troubles, queries>>

\* The query itself. A call of http.Client.Do that gave up has no response, and
\* its status is looked at all the same.
Send ==
  /\ query.pc = "send"
  /\ \/ /\ Honoured(query.sent)
        /\ query' = NoQuery
        /\ UNCHANGED <<refused, troubles>>
     \/ /\ ~Honoured(query.sent)
        /\ At("clear")
        /\ refused' = refused \cup {query.sent.jwt}
        /\ UNCHANGED troubles
     \/ /\ Trouble
        /\ query' = NoQuery \/ At("panicked")
        /\ UNCHANGED refused
  /\ UNCHANGED <<session, checked, gateway, now, queries>>

\* Mutant of Clear: the query is repeated with the session as it is.
ClearForgotten ==
  /\ query.pc = "clear"
  /\ At("check")
  /\ UNCHANGED <<session, history, gateway, now, troubles, queries>>

\* "authorization lost": the session is cleared and Do calls itself.
Clear ==
  /\ query.pc = "clear"
  /\ session' = NoSession
  /\ query' = [NoQuery EXCEPT !.pc = "check"]
  /\ UNCHANGED <<history, gateway, now, troubles, queries>>

\* A panic ends the program; after the restart there is a new client.
SessionRestart ==
  /\ query.pc = "panicked"
  /\ session' = NoSession
  /\ query' = NoQuery
  /\ UNCHANGED <<history, gateway, now, troubles, queries>>

QueryStep ==
  \/ Check \/ Prolong \/ Login \/ Validate \/ Headers \/ Send \/ Clear
  \/ SessionRestart

SessionNext == TimePasses \/ Revoke \/ Query \/ QueryStep

SessionSpec == SessionInit /\ [][SessionNext]_sessionVars

-----------------------------------------------------------------------------
(* What holds *)

\* A session the gateway refused to this query is not sent with it again: the
\* recursion of Do makes progress although it has no bound (auth.go 241-249).
NeverResendsRefused == query.pc = "send" => query.sent.jwt \notin refused

\* The margin works: a query is refused only if the gateway forgot its session
\* or more time than the margin passed since it was checked, whichever of the
\* two tokens expires first (model.go 55-83, auth.go 213-220).
RefusedForCause ==
  [][query.pc = "send" /\ query'.pc = "clear" =>
       query.sent.jwt \in revoked \/ now - checked > Margin]_sessionVars

\* If troubles are finitely many and the queries are not slower than the sessions
\* expire, every query ends (auth.go, line 248).
QueriesEnd == (query.pc # "idle") ~> (query.pc = "idle")
=============================================================================
