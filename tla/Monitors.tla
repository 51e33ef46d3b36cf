-------------------------------- MODULE Monitors --------------------------------
(***************************************************************************)
(* GET /health and HEAD /health of bondster-bco-rest (api/health.go) and   *)
(* the two monitors they ask, of the memory and of the disk                *)
(* (system/memory.go, system/storage.go), each in a daemon of its own. The *)
(* handler reads one monitor after the other while they measure. How much  *)
(* is free and used is told to the client and decides nothing: it is left  *)
(* out but for what a measurement makes of it.                             *)
(***************************************************************************)
EXTENDS Naturals

CONSTANTS
  Memory, Disk,  \* the monitors
  Limited,       \* those that have a limit
  MaxHealthCalls \* bound on the calls

ASSUME MonitorsAssumption == Memory # Disk /\ Limited \subseteq {Memory, Disk}
ASSUME HealthCallsAssumption == MaxHealthCalls \in Nat

VARIABLES
  ok,          \* [Capacities -> the field ok]
  sound,       \* history: [Capacities -> what the last measurement found]
  health,      \* the handler: what it does next, and the flags it has read
  during,      \* history: [Capacities -> what was found while the handler read]
  healthCalls

monitorVars == <<ok, sound, health, during, healthCalls>>

Capacities == {Memory, Disk}

\* Type invariant: what has not been read counts as good.
MonitorsTypeOK ==
  /\ ok \in [Capacities -> BOOLEAN] /\ sound \in [Capacities -> BOOLEAN]
  /\ health \in [method: {"GET", "HEAD"}, at: {"idle", "memory", "disk", "answer"},
                 read: [Capacities -> BOOLEAN]]
  /\ during \in [Capacities -> SUBSET BOOLEAN]
  /\ healthCalls \in 0..MaxHealthCalls
  /\ health.at \in {"idle", "memory"} => \A m \in Capacities : health.read[m]
  /\ health.at = "disk" => health.read[Disk]

Good == [m \in Capacities |-> TRUE]
NoCall == [method |-> "GET", at |-> "idle", read |-> Good]

\* Before the first measurement a monitor is healthy.
MonitorsInit ==
  /\ ok = Good /\ sound = Good
  /\ health = NoCall /\ during = [m \in Capacities |-> {}]
  /\ healthCalls = 0

\* Mutant of Verdict: the flag is kept if the system call fails.
VerdictKept(m, result) ==
  \/ result = "enough" \/ (result = "scarce" /\ m \notin Limited)
  \/ result = "error" /\ ok[m]

\* A failing system call, and less than the limit, if there is one.
Verdict(m, result) == result = "enough" \/ (result = "scarce" /\ m \notin Limited)

Sound(m, result) == result # "error" /\ (m \in Limited => result = "enough")

\* CheckMemoryAllocation, CheckDiskSpace
Measure(m, result) ==
  /\ ok' = [ok EXCEPT ![m] = Verdict(m, result)]
  /\ sound' = [sound EXCEPT ![m] = Sound(m, result)]
  /\ during' = [during EXCEPT ![m] = IF health.at = "idle" THEN @ ELSE @ \cup {Sound(m, result)}]
  /\ UNCHANGED <<health, healthCalls>>

HealthCall(method) ==
  /\ health.at = "idle" /\ healthCalls < MaxHealthCalls
  /\ healthCalls' = healthCalls + 1
  /\ health' = [NoCall EXCEPT !.method = method, !.at = "memory"]
  /\ during' = [m \in Capacities |-> {sound[m]}]
  /\ UNCHANGED <<ok, sound>>

\* HEAD does not ask for the disk if the memory is short.
ReadMemory ==
  /\ health.at = "memory"
  /\ health' = [health EXCEPT !.read[Memory] = ok[Memory],
       !.at = IF ok[Memory] \/ health.method = "GET" THEN "disk" ELSE "answer"]
  /\ UNCHANGED <<ok, sound, during, healthCalls>>

ReadDisk ==
  /\ health.at = "disk"
  /\ health' = [health EXCEPT !.read[Disk] = ok[Disk], !.at = "answer"]
  /\ UNCHANGED <<ok, sound, during, healthCalls>>

\* 200 or 503
Healthy == \A m \in Capacities : health.read[m]

AnswerHealth ==
  /\ health.at = "answer"
  /\ health' = NoCall
  /\ during' = [m \in Capacities |-> {}]
  /\ UNCHANGED <<ok, sound, healthCalls>>

MonitorsNext ==
  \/ \E m \in Capacities, result \in {"error", "scarce", "enough"} : Measure(m, result)
  \/ \E method \in {"GET", "HEAD"} : HealthCall(method)
  \/ ReadMemory \/ ReadDisk \/ AnswerHealth

MonitorsSpec == MonitorsInit /\ [][MonitorsNext]_monitorVars

-----------------------------------------------------------------------------
(* What holds *)

\* What the client is told was true while its call was handled: 200 only if each
\* monitor had found enough at some moment, 503 only if one had not, although the
\* monitors measure between the two reads and a measurement may fail
\* (health.go 25-65).
HealthIsRecent ==
  health.at = "answer" =>
    IF Healthy THEN \A m \in Capacities : TRUE \in during[m]
    ELSE \E m \in Capacities : FALSE \in during[m]
=============================================================================
