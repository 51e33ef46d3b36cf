---------------------------- MODULE Session_proofs ----------------------------
(***************************************************************************)
(* Proofs about Session, for any lifetimes of the two tokens and any       *)
(* number of queries, troubles and moments. The inductive invariant says   *)
(* that both tokens are always of one login, that a session which was      *)
(* refused to the query has been replaced before the query goes on, and    *)
(* that what is about to be sent was good for the margin when it was       *)
(* checked.                                                                *)
(***************************************************************************)
EXTENDS Session, TLAPS

\* The steps of Do before a query is answered.
Underway == {"check", "prolong", "login", "scenario", "headers", "send"}

\* There is a session, and when it was checked it was good for the margin.
Good(s) == s.jwt # 0 /\ checked + Margin <= s.jwtExp /\ checked + Margin <= s.ssidExp

OneLogin == session.jwt = session.ssid

Replaced == query.pc \in Underway => session.jwt \notin refused

CheckedGood ==
  /\ checked <= now
  /\ query.pc \in {"headers", "send"} => Good(session)
  /\ query.pc = "send" => query.sent = session

SessionInv == SessionTypeOK /\ OneLogin /\ Replaced /\ CheckedGood

LEMMA NoSessionTyped ==
  ASSUME NEW n \in Nat
  PROVE  NoSession \in [jwt: 0..n, jwtExp: Nat, ssid: 0..n, ssidExp: Nat]
  BY SMT DEF NoSession

LEMMA SessionInv_Init == SessionInit => SessionInv
<1> SUFFICES ASSUME SessionInit PROVE SessionInv
  OBVIOUS
<1>1. session = NoSession /\ query.pc = "idle" /\ query.sent = NoSession /\ logins = 0
  BY DEF SessionInit, NoQuery
<1>2. NoSession \in SessionRecord
  BY <1>1, NoSessionTyped, SMT DEF SessionRecord
<1>3. query \in [pc: QueryPcs, sent: SessionRecord]
  BY <1>2 DEF SessionInit, NoQuery, QueryPcs
<1>4. checked \in 0..MaxTime /\ now \in 0..MaxTime /\ troubles \in 0..MaxTroubles /\ queries \in 0..MaxQueries
  BY SessionBoundsAssumption, SMT DEF SessionInit
<1>5. SessionTypeOK
  BY <1>1, <1>2, <1>3, <1>4 DEF SessionInit, SessionTypeOK
<1>6. OneLogin /\ Replaced /\ CheckedGood
  BY <1>1, SMT DEF SessionInit, NoSession, OneLogin, Replaced, CheckedGood, Underway
<1> QED BY <1>5, <1>6 DEF SessionInv

-----------------------------------------------------------------------------
(* The types, step by step *)

\* The query goes on with what it has.
LEMMA AtTyped ==
  ASSUME SessionTypeOK, NEW pc \in QueryPcs, At(pc)
  PROVE  /\ query' \in [pc: QueryPcs, sent: SessionRecord]
         /\ query'.pc = pc /\ query'.sent = query.sent
  BY SMT DEF SessionTypeOK, At

LEMMA NoQueryTyped ==
  ASSUME SessionTypeOK, NEW pc \in QueryPcs
  PROVE  /\ [NoQuery EXCEPT !.pc = pc] \in [pc: QueryPcs, sent: SessionRecord]
         /\ [NoQuery EXCEPT !.pc = pc].pc = pc
<1>1. NoSession \in SessionRecord
  BY NoSessionTyped DEF SessionTypeOK, SessionRecord
<1> QED BY <1>1, SMT DEF NoQuery, QueryPcs

LEMMA IdleTyped ==
  ASSUME SessionTypeOK
  PROVE  NoQuery \in [pc: QueryPcs, sent: SessionRecord] /\ NoQuery.pc = "idle"
<1>1. NoSession \in SessionRecord
  BY NoSessionTyped DEF SessionTypeOK, SessionRecord
<1> QED BY <1>1 DEF NoQuery, QueryPcs

\* Whatever does not log in keeps the types if it keeps those of its parts.
LEMMA PartsTyped ==
  ASSUME SessionTypeOK, session' \in SessionRecord,
         query' \in [pc: QueryPcs, sent: SessionRecord],
         UNCHANGED logins, revoked' \subseteq 1..logins,
         checked' \in 0..MaxTime, refused' \subseteq 1..logins,
         now' \in 0..MaxTime, troubles' \in 0..MaxTroubles, queries' \in 0..MaxQueries
  PROVE  SessionTypeOK'
  BY DEF SessionTypeOK, SessionRecord

LEMMA TroubleTyped ==
  ASSUME SessionTypeOK, Trouble \/ UNCHANGED troubles
  PROVE  troubles' \in 0..MaxTroubles
  BY SessionBoundsAssumption, SMT DEF SessionTypeOK, Trouble

-----------------------------------------------------------------------------
(* The gateway and time *)

LEMMA TimeKeeps ==
  ASSUME SessionInv, TimePasses
  PROVE  SessionInv'
<1>1. now' \in 0..MaxTime /\ now' = now + 1 /\ now \in Nat /\ checked \in Nat
  BY SessionBoundsAssumption, SMT DEF TimePasses, SessionInv, SessionTypeOK
<1>2. UNCHANGED <<session, query, checked, refused, logins, revoked, troubles, queries>>
  BY DEF TimePasses, history, gateway
<1>3. SessionTypeOK'
  BY <1>1, <1>2 DEF SessionInv, SessionTypeOK, SessionRecord
<1>4. OneLogin' /\ Replaced'
  BY <1>2 DEF SessionInv, OneLogin, Replaced
<1>5. CheckedGood'
  <2>1. checked' <= now'
    BY <1>1, <1>2, SMT DEF SessionInv, CheckedGood
  <2> QED BY <1>2, <2>1 DEF SessionInv, CheckedGood, Good
<1> QED BY <1>3, <1>4, <1>5 DEF SessionInv

LEMMA RevokeKeeps ==
  ASSUME SessionInv, Revoke
  PROVE  SessionInv'
<1>1. UNCHANGED <<session, query, checked, refused, logins, now, queries>>
  BY DEF Revoke, history
<1>2. revoked' \subseteq 1..logins
  BY SMT DEF Revoke, SessionInv, SessionTypeOK
<1>3. SessionTypeOK'
  BY <1>1, <1>2, TroubleTyped DEF Revoke, SessionInv, SessionTypeOK, SessionRecord
<1> QED BY <1>1, <1>3 DEF SessionInv, OneLogin, Replaced, CheckedGood, Good

-----------------------------------------------------------------------------
(* AuthorizedClient.Do *)

LEMMA QueryKeeps ==
  ASSUME SessionInv, Query
  PROVE  SessionInv'
<1>1. /\ query' \in [pc: QueryPcs, sent: SessionRecord] /\ query'.pc = "check"
  BY AtTyped DEF Query, SessionInv, QueryPcs
<1>2. queries' \in 0..MaxQueries /\ refused' = {}
  BY SessionBoundsAssumption, SMT DEF Query, SessionInv, SessionTypeOK
<1>3. UNCHANGED <<session, checked, logins, revoked, now, troubles>>
  BY DEF Query, gateway
<1>4. SessionTypeOK'
  BY <1>1, <1>2, <1>3 DEF SessionInv, SessionTypeOK, SessionRecord
<1> QED BY <1>1, <1>2, <1>3, <1>4 DEF SessionInv, OneLogin, Replaced, CheckedGood

\* A session is taken as it is only if neither token is about to expire.
LEMMA CheckKeeps ==
  ASSUME SessionInv, Check
  PROVE  SessionInv'
<1>1. PICK pc \in {"prolong", "login", "headers"} :
        /\ At(pc)
        /\ pc = "headers" => ~IsJWTExpired(session) /\ ~IsSSIDExpired(session)
  BY DEF Check
<1>2. query' \in [pc: QueryPcs, sent: SessionRecord] /\ query'.pc = pc
  BY <1>1, AtTyped DEF SessionInv, QueryPcs
<1>3. UNCHANGED <<session, refused, logins, revoked, now, troubles, queries>> /\ checked' = now
  BY DEF Check, gateway
<1>4. SessionTypeOK'
  BY <1>2, <1>3 DEF SessionInv, SessionTypeOK, SessionRecord
<1>5. OneLogin' /\ Replaced'
  BY <1>2, <1>3 DEF Check, SessionInv, OneLogin, Replaced, Underway
<1>6. pc = "headers" => Good(session)'
  <2>1. /\ session.jwtExp \in Nat /\ session.ssidExp \in Nat /\ now \in Nat /\ Margin \in Nat
    BY LifetimeAssumption, SMT DEF SessionInv, SessionTypeOK, SessionRecord
  <2> QED BY <1>1, <1>3, <2>1, SMT DEF IsJWTExpired, IsSSIDExpired, Good
<1>7. CheckedGood'
  <2>1. checked' <= now'
    BY <1>3, SMT DEF SessionInv, SessionTypeOK
  <2> QED BY <1>2, <1>6, <2>1 DEF CheckedGood
<1> QED BY <1>4, <1>5, <1>7 DEF SessionInv

\* A new JWT is good for longer than the margin; the SSID beside it is looked at.
LEMMA ProlongKeeps ==
  ASSUME SessionInv, Prolong
  PROVE  SessionInv'
<1>1. /\ session.jwtExp \in Nat /\ session.ssidExp \in Nat /\ now \in Nat /\ checked \in Nat
      /\ Margin \in Nat /\ Lifetime \in Nat /\ Margin < Lifetime /\ checked <= now
      /\ session \in SessionRecord
  BY LifetimeAssumption, SMT DEF SessionInv, SessionTypeOK, SessionRecord, CheckedGood
<1>2. UNCHANGED <<checked, refused, logins, revoked, now, queries>>
  BY DEF Prolong, history, gateway
<1>3. troubles' \in 0..MaxTroubles
  <2>1. Trouble \/ UNCHANGED troubles
    BY DEF Prolong
  <2> QED BY <2>1, TroubleTyped DEF SessionInv
<1>4. session.jwt \notin refused
  BY DEF Prolong, SessionInv, Replaced, Underway
<1>5. CASE session' = [session EXCEPT !.jwtExp = now + Lifetime]
           /\ At(IF IsSSIDExpired(session) THEN "login" ELSE "headers")
  <2>1. PICK pc \in {"login", "headers"} :
          At(pc) /\ (pc = "headers" => ~IsSSIDExpired(session))
    BY <1>5
  <2>2. query' \in [pc: QueryPcs, sent: SessionRecord] /\ query'.pc = pc
    BY <2>1, AtTyped DEF SessionInv, QueryPcs
  <2>3. /\ session' \in SessionRecord
        /\ session'.jwt = session.jwt /\ session'.ssid = session.ssid
        /\ session'.ssidExp = session.ssidExp /\ session'.jwtExp = now + Lifetime
    BY <1>1, <1>5, SMT DEF SessionRecord
  <2>4. SessionTypeOK'
    BY <1>2, <1>3, <2>2, <2>3, PartsTyped DEF SessionInv, SessionTypeOK
  <2>5. OneLogin' /\ Replaced'
    BY <1>2, <1>4, <2>3 DEF SessionInv, OneLogin, Replaced
  <2>6. pc = "headers" => Good(session)'
    BY <1>1, <1>2, <2>1, <2>3, SMT DEF IsSSIDExpired, Good
  <2>7. CheckedGood'
    BY <1>1, <1>2, <2>2, <2>6 DEF CheckedGood
  <2> QED BY <2>4, <2>5, <2>7 DEF SessionInv
<1>6. CASE UNCHANGED session /\ At("login")
  <2>1. query' \in [pc: QueryPcs, sent: SessionRecord] /\ query'.pc = "login"
    BY <1>6, AtTyped DEF SessionInv, QueryPcs
  <2>2. SessionTypeOK'
    BY <1>1, <1>2, <1>3, <1>6, <2>1, PartsTyped DEF SessionInv, SessionTypeOK
  <2> QED BY <1>1, <1>2, <1>4, <1>6, <2>1, <2>2 DEF SessionInv, OneLogin, Replaced, CheckedGood
<1> QED BY <1>5, <1>6 DEF Prolong

\* Steps after which the client has no session, and the query nothing to send.
LEMMA ClearedKeeps ==
  ASSUME SessionInv, session' = NoSession,
         query' \in [pc: QueryPcs, sent: SessionRecord],
         query'.pc \notin {"headers", "send"},
         UNCHANGED <<history, gateway, now, queries>>, Trouble \/ UNCHANGED troubles
  PROVE  SessionInv'
<1>1. NoSession \in SessionRecord /\ NoSession.jwt = 0 /\ NoSession.ssid = 0
  BY NoSessionTyped DEF SessionInv, SessionTypeOK, SessionRecord, NoSession
<1>2. UNCHANGED <<checked, refused, logins, revoked>> /\ troubles' \in 0..MaxTroubles
  BY TroubleTyped DEF history, gateway, SessionInv
<1>3. SessionTypeOK'
  BY <1>1, <1>2, PartsTyped DEF SessionInv, SessionTypeOK
<1>4. 0 \notin refused
  BY SMT DEF SessionInv, SessionTypeOK
<1>5. OneLogin' /\ Replaced'
  BY <1>1, <1>2, <1>4 DEF OneLogin, Replaced
<1>6. CheckedGood'
  BY <1>2 DEF SessionInv, CheckedGood
<1> QED BY <1>3, <1>5, <1>6 DEF SessionInv

LEMMA LoginKeeps ==
  ASSUME SessionInv, Login
  PROVE  SessionInv'
<1>1. CASE At("scenario")
  BY <1>1, AtTyped, ClearedKeeps DEF Login, SessionInv, QueryPcs
<1>2. CASE query' = NoQuery
  BY <1>2, IdleTyped, ClearedKeeps DEF Login, SessionInv
<1> QED BY <1>1, <1>2 DEF Login

LEMMA ClearKeeps ==
  ASSUME SessionInv, Clear \/ SessionRestart
  PROVE  SessionInv'
<1>1. CASE Clear
  BY <1>1, NoQueryTyped, ClearedKeeps DEF Clear, SessionInv, QueryPcs
<1>2. CASE SessionRestart
  BY <1>2, IdleTyped, ClearedKeeps DEF SessionRestart, SessionInv
<1> QED BY <1>1, <1>2

\* A session that is new was refused to nobody.
LEMMA ValidateKeeps ==
  ASSUME SessionInv, Validate
  PROVE  SessionInv'
<1>1. UNCHANGED <<checked, refused, revoked, now, queries>> /\ troubles' \in 0..MaxTroubles
  <2>1. Trouble \/ UNCHANGED troubles
    BY DEF Validate
  <2> QED BY <2>1, TroubleTyped DEF Validate, history, SessionInv
<1>2. CASE logins' = logins + 1 /\ session' = WebToken(logins') /\ At("headers")
  <2>1. /\ logins \in Nat /\ now \in Nat /\ checked \in Nat /\ checked <= now
        /\ refused \subseteq 1..logins /\ revoked \subseteq 1..logins
        /\ query \in [pc: QueryPcs, sent: SessionRecord]
    BY SMT DEF SessionInv, SessionTypeOK, CheckedGood
  <2>2. /\ session'.jwt = logins + 1 /\ session'.ssid = logins + 1
        /\ session'.jwtExp = now + Lifetime /\ session'.ssidExp = now + SsidLifetime
        /\ session' \in [jwt: 0..(logins + 1), jwtExp: Nat, ssid: 0..(logins + 1), ssidExp: Nat]
    BY <1>2, <2>1, LifetimeAssumption, SMT DEF WebToken
  <2>3. query'.pc = "headers" /\ query'.sent = query.sent /\ query' \in [pc: QueryPcs, sent: SessionRecord]
    BY <1>2, AtTyped DEF SessionInv, QueryPcs
  <2>4. SessionRecord \subseteq [jwt: 0..(logins + 1), jwtExp: Nat, ssid: 0..(logins + 1), ssidExp: Nat]
    BY <2>1, SMT DEF SessionRecord
  <2>5. SessionTypeOK'
    <3>1. query' \in [pc: QueryPcs, sent: SessionRecord']
      BY <1>2, <2>3, <2>4 DEF SessionRecord
    <3>2. logins' \in Nat /\ revoked' \subseteq 1..logins' /\ refused' \subseteq 1..logins'
      BY <1>1, <1>2, <2>1, SMT
    <3>3. session' \in SessionRecord'
      BY <1>2, <2>2 DEF SessionRecord
    <3> QED BY <1>1, <3>1, <3>2, <3>3 DEF SessionInv, SessionTypeOK
  <2>6. OneLogin' /\ Replaced'
    BY <1>1, <2>1, <2>2, SMT DEF OneLogin, Replaced
  <2>7. CheckedGood'
    <3>1. Good(session)'
      BY <1>1, <2>1, <2>2, LifetimeAssumption, SMT DEF Good
    <3> QED BY <1>1, <2>1, <2>3, <3>1 DEF CheckedGood
  <2> QED BY <2>5, <2>6, <2>7 DEF SessionInv
<1>3. CASE query' = NoQuery /\ UNCHANGED <<session, logins>>
  <2>1. SessionTypeOK'
    BY <1>1, <1>3, IdleTyped, PartsTyped DEF SessionInv, SessionTypeOK
  <2> QED BY <1>1, <1>3, <2>1, IdleTyped DEF SessionInv, OneLogin, Replaced, CheckedGood, Underway
<1> QED BY <1>2, <1>3 DEF Validate

LEMMA HeadersKeeps ==
  ASSUME SessionInv, Headers
  PROVE  SessionInv'
<1>1. UNCHANGED <<session, checked, refused, logins, revoked, now, troubles, queries>>
  BY DEF Headers, history, gateway
<1>2. /\ query' \in [pc: QueryPcs, sent: SessionRecord]
      /\ query'.pc = "send" /\ query'.sent = session
  BY DEF Headers, SessionInv, SessionTypeOK, QueryPcs
<1>3. SessionTypeOK'
  BY <1>1, <1>2 DEF SessionInv, SessionTypeOK, SessionRecord
<1>4. OneLogin' /\ Replaced'
  BY <1>1, <1>2 DEF Headers, SessionInv, OneLogin, Replaced, Underway
<1>5. CheckedGood'
  BY <1>1, <1>2 DEF Headers, SessionInv, CheckedGood, Good
<1> QED BY <1>3, <1>4, <1>5 DEF SessionInv

LEMMA SendKeeps ==
  ASSUME SessionInv, Send
  PROVE  SessionInv'
<1>1. UNCHANGED <<session, checked, logins, revoked, now, queries>> /\ troubles' \in 0..MaxTroubles
  <2>1. Trouble \/ UNCHANGED troubles
    BY DEF Send
  <2> QED BY <2>1, TroubleTyped DEF Send, gateway, SessionInv
<1>2. query' \in [pc: QueryPcs, sent: SessionRecord] /\ query'.pc \in {"idle", "clear", "panicked"}
  <2>1. CASE query' = NoQuery
    BY <2>1, IdleTyped DEF SessionInv
  <2>2. CASE At("clear")
    BY <2>2, AtTyped DEF SessionInv, QueryPcs
  <2>3. CASE At("panicked")
    BY <2>3, AtTyped DEF SessionInv, QueryPcs
  <2> QED BY <2>1, <2>2, <2>3 DEF Send
<1>3. query.sent.jwt \in 1..logins
  BY SMT DEF Send, SessionInv, CheckedGood, Good, SessionTypeOK, SessionRecord
<1>4. refused' \subseteq 1..logins
  <2>1. refused \subseteq 1..logins
    BY DEF SessionInv, SessionTypeOK
  <2>2. refused' = refused \/ refused' = refused \cup {query.sent.jwt}
    BY DEF Send
  <2> QED BY <1>3, <2>1, <2>2
<1>5. SessionTypeOK'
  BY <1>1, <1>2, <1>4, PartsTyped DEF SessionInv, SessionTypeOK
<1>6. OneLogin' /\ Replaced' /\ CheckedGood'
  BY <1>1, <1>2 DEF SessionInv, OneLogin, Replaced, CheckedGood, Underway
<1> QED BY <1>5, <1>6 DEF SessionInv

-----------------------------------------------------------------------------
(* Every step, and the theorems *)

LEMMA SessionInv_Next == SessionInv /\ [SessionNext]_sessionVars => SessionInv'
<1> SUFFICES ASSUME SessionInv, [SessionNext]_sessionVars PROVE SessionInv'
  OBVIOUS
<1>1. CASE UNCHANGED sessionVars
  BY <1>1 DEF sessionVars, history, gateway, SessionInv, SessionTypeOK, SessionRecord,
              OneLogin, Replaced, CheckedGood, Good
<1>2. CASE TimePasses \/ Revoke \/ Query
  BY <1>2, TimeKeeps, RevokeKeeps, QueryKeeps
<1>3. CASE QueryStep
  BY <1>3, CheckKeeps, ProlongKeeps, LoginKeeps, ValidateKeeps, HeadersKeeps, SendKeeps,
     ClearKeeps DEF QueryStep
<1> QED BY <1>1, <1>2, <1>3 DEF SessionNext

\* For any lifetimes and any number of refusals a session is not sent again with
\* the query it was refused to (auth.go 241-249).
THEOREM Session_NeverResendsRefused == SessionSpec => []NeverResendsRefused
<1>1. SessionInv => NeverResendsRefused
  BY DEF SessionInv, Replaced, CheckedGood, Underway, NeverResendsRefused
<1> QED BY <1>1, SessionInv_Init, SessionInv_Next, PTL DEF SessionSpec

\* What was checked is refused only if the gateway forgot it or if the query took
\* longer than the margin: no order of expiries makes the client send a session
\* that was about to end (model.go 55-83, auth.go 213-220).
THEOREM Session_RefusedForCause == SessionSpec => RefusedForCause
<1>1. ASSUME SessionInv, [SessionNext]_sessionVars, query.pc = "send", query'.pc = "clear"
      PROVE  query.sent.jwt \in revoked \/ now - checked > Margin
  <2>1. ~Honoured(query.sent)
    <3>1. query' # query
      BY <1>1
    <3>2. SessionNext
      BY <1>1, <3>1 DEF sessionVars
    <3>3. Send
      BY <1>1, <3>1, <3>2 DEF SessionNext, TimePasses, Revoke, Query, QueryStep, Check, Prolong,
         Login, Validate, Headers, Clear, SessionRestart
    <3>4. query' # NoQuery
      BY <1>1, IdleTyped DEF SessionInv
    <3>5. ~At("panicked")
      BY <1>1, AtTyped DEF SessionInv, QueryPcs
    <3> QED BY <3>3, <3>4, <3>5 DEF Send
  <2>2. /\ query.sent.jwt # 0 /\ query.sent.jwt = query.sent.ssid
        /\ checked + Margin <= query.sent.jwtExp /\ checked + Margin <= query.sent.ssidExp
    BY <1>1 DEF SessionInv, OneLogin, CheckedGood, Good
  <2>3. /\ query.sent.jwtExp \in Nat /\ query.sent.ssidExp \in Nat /\ now \in Nat
        /\ checked \in Nat /\ Margin \in Nat
    BY <1>1, LifetimeAssumption, SMT DEF SessionInv, SessionTypeOK, SessionRecord
  <2> QED BY <2>1, <2>2, <2>3, SMT DEF Honoured
<1>2. SessionInv /\ [SessionNext]_sessionVars =>
        [query.pc = "send" /\ query'.pc = "clear" =>
           query.sent.jwt \in revoked \/ now - checked > Margin]_sessionVars
  BY <1>1
<1> QED BY <1>2, SessionInv_Init, SessionInv_Next, PTL DEF SessionSpec, RefusedForCause
=============================================================================
