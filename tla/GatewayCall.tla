----------------------------- MODULE GatewayCall -----------------------------
(***************************************************************************)
(* What a call to the ledger or the vault promises its caller in the       *)
(* workflow: it ends with success or with an error; success means that the *)
(* transaction or the account exists at the service; an error means        *)
(* nothing, the service may have created it, or may still do so later.     *)
(* Attempts, statuses, lost answers and waiting are hidden; HttpClient     *)
(* implements this module.                                                 *)
(***************************************************************************)

CONSTANTS Calls, ItemOf

VARIABLES outcome, created

vars == <<outcome, created>>

Init == outcome = [c \in Calls |-> "ready"] /\ created = {}

Become(c, from, to) == outcome[c] = from /\ outcome' = [outcome EXCEPT ![c] = to]

Open(c) == Become(c, "ready", "open") /\ UNCHANGED created

\* The service acts on a request it was sent, possibly after the call ended.
Perform(c) ==
  /\ outcome[c] # "ready"
  /\ created' = created \cup {ItemOf[c]}
  /\ UNCHANGED outcome

Succeed(c) == ItemOf[c] \in created /\ Become(c, "open", "ok") /\ UNCHANGED created

Fail(c) == Become(c, "open", "failed") /\ UNCHANGED created

Next == \E c \in Calls : Open(c) \/ Perform(c) \/ Succeed(c) \/ Fail(c)

Spec == Init /\ [][Next]_vars
=============================================================================
