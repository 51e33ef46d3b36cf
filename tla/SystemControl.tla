----------------------------- MODULE SystemControl -----------------------------
(***************************************************************************)
(* How bondster-bco-rest creates and deletes a tenant: it enables and      *)
(* starts, or stops and disables, the unit bondster-bco-import@<tenant>    *)
(* through systemd (system/system.go, api/tenant.go). Starting and         *)
(* stopping are jobs of systemd; a handler waits five seconds for the      *)
(* result, and the job goes on when nobody waits any more. Several         *)
(* handlers may work on one unit, and the machine may restart.             *)
(*                                                                         *)
(* The dbus library delivers the result of a job on the unbuffered channel *)
(* of the handler that asked for it and holds a lock meanwhile: the result *)
(* of a job whose handler has given up blocks it, and every later start or *)
(* stop with it (blocked).                                                 *)
(***************************************************************************)
EXTENDS Naturals

CONSTANTS
  Handlers,       \* HTTP handlers at work on the tenant
  Nobody,
  MaxTenantCalls, \* bound on the calls
  MaxReboots,     \* bound on the restarts of the machine
  MaxRefusals     \* bound on the errors of systemd

ASSUME HandlersAssumption == Nobody \notin Handlers
ASSUME ControlBoundsAssumption ==
  MaxTenantCalls \in Nat /\ MaxReboots \in Nat /\ MaxRefusals \in Nat

VARIABLES
  enabled, active,  \* the unit: starts with the machine; runs
  job,              \* the job of systemd for the unit, and who waits for it
  blocked,          \* the dbus library cannot deliver a result
  handler,          \* [Handlers -> where EnableUnit or DisableUnit is]
  alone,            \* history: calls that no other call overlapped
  agreed,           \* history: what the last such call was told, if none came since
  tenantCalls, reboots, refusals

unit == <<enabled, active>>
bounds == <<tenantCalls, reboots, refusals>>
controlVars == <<unit, job, blocked, handler, alone, agreed, bounds>>

HandlerPcs == {"idle", "enable", "start", "starting", "stop", "stopping", "disable"}
NoJob == [kind |-> "none", owner |-> Nobody]

\* Type invariant: also, the handler a job is for waits for it.
ControlTypeOK ==
  /\ enabled \in BOOLEAN /\ active \in BOOLEAN /\ blocked \in BOOLEAN
  /\ job \in [kind: {"none", "start", "stop"}, owner: Handlers \cup {Nobody}]
  /\ handler \in [Handlers -> HandlerPcs]
  /\ job.owner # Nobody => handler[job.owner] \in {"starting", "stopping"}
  /\ alone \subseteq {h \in Handlers : handler[h] # "idle"}
  /\ agreed \in {"nothing", "created", "deleted"}
  /\ tenantCalls \in 0..MaxTenantCalls
  /\ reboots \in 0..MaxReboots /\ refusals \in 0..MaxRefusals

ControlInit ==
  /\ enabled = FALSE /\ active = FALSE
  /\ job = NoJob /\ blocked = FALSE
  /\ handler = [h \in Handlers |-> "idle"]
  /\ alone = {} /\ agreed = "nothing"
  /\ tenantCalls = 0 /\ reboots = 0 /\ refusals = 0

-----------------------------------------------------------------------------
(* CreateTenant and DeleteTenant *)

Move(h, pc) == handler' = [handler EXCEPT ![h] = pc]

\* The HTTP call ends; what is agreed if it was alone.
Answer(h, verdict) ==
  /\ Move(h, "idle")
  /\ alone' = alone \ {h}
  /\ agreed' = IF h \in alone THEN verdict ELSE agreed

Busy == {h \in Handlers : handler[h] # "idle"}

TenantCall(h) ==
  /\ handler[h] = "idle" /\ tenantCalls < MaxTenantCalls
  /\ tenantCalls' = tenantCalls + 1
  /\ Move(h, "enable") \/ Move(h, "stop")
  /\ alone' = IF Busy = {} THEN {h} ELSE {}
  /\ agreed' = "nothing"
  /\ UNCHANGED <<unit, job, blocked, reboots, refusals>>

\* systemd refuses: the error is returned at once.
Refused(h) ==
  /\ handler[h] \in {"enable", "start", "stop", "disable"}
  /\ refusals < MaxRefusals /\ refusals' = refusals + 1
  /\ Answer(h, "nothing")
  /\ UNCHANGED <<unit, job, blocked, tenantCalls, reboots>>

EnableUnitFiles(h) ==
  /\ handler[h] = "enable"
  /\ enabled' = TRUE
  /\ Move(h, "start")
  /\ UNCHANGED <<active, job, blocked, alone, agreed, bounds>>

\* Mutant of Succeeds: the result is not looked at.
SucceedsAnyway(result) == TRUE

Succeeds(result) == result = "done"

\* StartUnit and StopUnit with mode "replace": a job of the other kind is
\* canceled; one of the same kind is joined, and the one who waited for it is
\* forgotten.
Replace(h, kind, waiting) ==
  LET canceled == job.kind \notin {"none", kind}
      failed == {o \in Handlers : canceled /\ job.owner = o}
  IN /\ ~blocked
     /\ job' = [kind |-> kind, owner |-> h]
     /\ blocked' = (canceled /\ failed = {})
     /\ handler' = [o \in Handlers |->
          IF o = h THEN waiting ELSE IF o \in failed THEN "idle" ELSE handler[o]]
     /\ alone' = alone \ failed
     /\ UNCHANGED <<unit, agreed, bounds>>

StartUnit(h) == handler[h] = "start" /\ Replace(h, "start", "starting")

StopUnit(h) == handler[h] = "stop" /\ Replace(h, "stop", "stopping")

\* The job ends: done, or failed with the unit as it was.
JobEnds(result) ==
  /\ job.kind # "none" /\ ~blocked
  /\ active' = IF result = "done" THEN job.kind = "start" ELSE active
  /\ job' = NoJob
  /\ IF job.owner = Nobody
       THEN blocked' = TRUE /\ UNCHANGED <<handler, alone, agreed, refusals>>
       ELSE /\ IF ~Succeeds(result) THEN Answer(job.owner, "nothing")
               ELSE IF job.kind = "start" THEN Answer(job.owner, "created")
               ELSE Move(job.owner, "disable") /\ UNCHANGED <<alone, agreed>>
            /\ UNCHANGED blocked
  /\ IF result = "done" THEN UNCHANGED refusals
     ELSE refusals < MaxRefusals /\ refusals' = refusals + 1
  /\ UNCHANGED <<enabled, tenantCalls, reboots>>

\* Five seconds have passed; the job goes on.
GiveUp(h) ==
  /\ handler[h] \in {"starting", "stopping"}
  /\ job' = IF job.owner = h THEN [job EXCEPT !.owner = Nobody] ELSE job
  /\ Answer(h, "nothing")
  /\ UNCHANGED <<unit, blocked, bounds>>

DisableUnitFiles(h) ==
  /\ handler[h] = "disable"
  /\ enabled' = FALSE
  /\ Answer(h, "deleted")
  /\ UNCHANGED <<active, job, blocked, bounds>>

ControlStep(h) ==
  \/ EnableUnitFiles(h) \/ StartUnit(h) \/ StopUnit(h) \/ GiveUp(h)
  \/ DisableUnitFiles(h)

\* The machine restarts: the units that are enabled are started.
Reboot ==
  /\ reboots < MaxReboots /\ reboots' = reboots + 1
  /\ active' = enabled
  /\ job' = NoJob /\ blocked' = FALSE
  /\ handler' = [h \in Handlers |-> "idle"]
  /\ alone' = {}
  /\ UNCHANGED <<enabled, agreed, tenantCalls, refusals>>

ControlNext ==
  \/ \E h \in Handlers : TenantCall(h) \/ Refused(h) \/ ControlStep(h)
  \/ \E result \in {"done", "failed"} : JobEnds(result)
  \/ Reboot

ControlSpec == ControlInit /\ [][ControlNext]_controlVars

-----------------------------------------------------------------------------
(* What holds *)

\* A tenant whose creation was answered 200, with no other call beside it or
\* since, runs and will run after a restart of the machine; one whose deletion was
\* answered 200 does neither, whatever earlier calls left half done or still under
\* way in systemd (system.go 116-184).
AgreedIsSo ==
  /\ agreed = "created" => enabled /\ active
  /\ agreed = "deleted" => ~enabled /\ ~active

=============================================================================
