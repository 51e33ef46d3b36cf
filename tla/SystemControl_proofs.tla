------------------------- MODULE SystemControl_proofs -------------------------
(***************************************************************************)
(* Proofs about the rest of bondster-bco-rest. The first part is about     *)
(* SystemControl, for any number of handlers, calls, restarts and          *)
(* refusals. AgreedIsSo says what a call that was answered 200 has left    *)
(* behind; the inductive invariant follows such a call while it is alone:  *)
(* nobody else is at work on the unit, what its earlier steps did still    *)
(* holds, and the job it waits for is of its own kind. The second part is  *)
(* about Monitors.                                                         *)
(***************************************************************************)
EXTENDS SystemControl, Monitors, TLAPS

\* A job is waited for by a handler that asked for one of its kind.
OwnerWaits ==
  /\ job.kind = "none" => job.owner = Nobody
  /\ job.kind = "start" /\ job.owner # Nobody => handler[job.owner] = "starting"
  /\ job.kind = "stop" /\ job.owner # Nobody => handler[job.owner] = "stopping"

\* What a call that is alone has done is not undone, and once it has stopped the
\* unit no job that is left can start it.
AloneHolds ==
  \A h \in alone :
    /\ \A o \in Handlers : o # h => handler[o] = "idle"
    /\ handler[h] \in {"start", "starting"} => enabled
    /\ handler[h] = "disable" => job.kind = "none" /\ ~active

\* Nothing is under way that could change what was agreed.
AgreedRests ==
  agreed # "nothing" =>
    job.kind = "none" /\ \A h \in Handlers : handler[h] = "idle"

ControlInv == ControlTypeOK /\ OwnerWaits /\ AloneHolds /\ AgreedRests /\ AgreedIsSo

LEMMA ControlInv_Init == ControlInit => ControlInv
<1> SUFFICES ASSUME ControlInit PROVE ControlInv
  OBVIOUS
<1>1. job.kind = "none" /\ job.owner = Nobody /\ alone = {} /\ agreed = "nothing"
  BY DEF ControlInit, NoJob
<1>2. job \in [kind: {"none", "start", "stop"}, owner: Handlers \cup {Nobody}]
  BY SMT DEF ControlInit, NoJob
<1>3. tenantCalls \in 0..MaxTenantCalls /\ reboots \in 0..MaxReboots /\ refusals \in 0..MaxRefusals
  BY ControlBoundsAssumption, SMT DEF ControlInit
<1>4. handler \in [Handlers -> HandlerPcs]
  BY SMT DEF ControlInit, HandlerPcs
<1>5. ControlTypeOK
  BY <1>1, <1>2, <1>3, <1>4 DEF ControlInit, ControlTypeOK
<1>6. OwnerWaits
  BY <1>1, SMT DEF OwnerWaits
<1>7. AloneHolds /\ AgreedRests /\ AgreedIsSo
  BY <1>1 DEF AloneHolds, AgreedRests, AgreedIsSo
<1> QED BY <1>5, <1>6, <1>7 DEF ControlInv

-----------------------------------------------------------------------------
(* The steps *)

\* A call that begins is alone or makes the one that was alone lose that.
LEMMA CallKeeps ==
  ASSUME ControlInv, NEW h \in Handlers, TenantCall(h)
  PROVE  ControlInv'
<1>1. PICK pc \in {"enable", "stop"} : handler' = [handler EXCEPT ![h] = pc]
  BY DEF TenantCall, Move
<1>2. handler[h] = "idle" /\ handler' \in [Handlers -> HandlerPcs]
  BY <1>1, SMT DEF TenantCall, ControlInv, ControlTypeOK, HandlerPcs
<1>3. alone' \subseteq {h} /\ (alone' # {} => \A o \in Handlers : o # h => handler'[o] = "idle")
  BY <1>1, <1>2 DEF TenantCall, Busy, ControlInv, ControlTypeOK
<1>4. ControlTypeOK'
  <2>1. tenantCalls' \in 0..MaxTenantCalls
    BY ControlBoundsAssumption, SMT DEF TenantCall, ControlInv, ControlTypeOK
  <2>2. (job.owner # Nobody => handler[job.owner] \in {"starting", "stopping"})'
    BY <1>1, <1>2, SMT DEF TenantCall, ControlInv, ControlTypeOK
  <2>3. (alone \subseteq {o \in Handlers : handler[o] # "idle"})'
    BY <1>1, <1>2, <1>3, SMT DEF ControlInv, ControlTypeOK
  <2> QED BY <1>2, <2>1, <2>2, <2>3 DEF TenantCall, unit, ControlInv, ControlTypeOK
<1>5. OwnerWaits'
  BY <1>1, <1>2, SMT DEF TenantCall, ControlInv, ControlTypeOK, OwnerWaits
<1>6. AloneHolds'
  BY <1>1, <1>2, <1>3, SMT DEF AloneHolds
<1>7. AgreedRests' /\ AgreedIsSo'
  BY DEF TenantCall, AgreedRests, AgreedIsSo
<1> QED BY <1>4, <1>5, <1>6, <1>7 DEF ControlInv

\* A call that ends: it is told "nothing", or something that is so.
LEMMA AnswerKeeps ==
  ASSUME ControlInv, NEW h \in Handlers, NEW verdict \in {"nothing", "created", "deleted"},
         Answer(h, verdict), handler[h] # "idle",
         job' \in [kind: {"none", "start", "stop"}, owner: Handlers \cup {Nobody}],
         job'.owner # Nobody => job'.owner # h /\ job' = job,
         job'.kind = "none" => job'.owner = Nobody,
         active' \in BOOLEAN, enabled' \in BOOLEAN, blocked' \in BOOLEAN,
         refusals' \in 0..MaxRefusals, UNCHANGED <<tenantCalls, reboots>>,
         h \in alone /\ verdict # "nothing" => job'.kind = "none",
         h \in alone /\ verdict = "created" => enabled' /\ active',
         h \in alone /\ verdict = "deleted" => ~enabled' /\ ~active'
  PROVE  ControlInv'
<1>1. /\ handler' = [handler EXCEPT ![h] = "idle"] /\ alone' = alone \ {h}
      /\ agreed' = IF h \in alone THEN verdict ELSE agreed
      /\ handler \in [Handlers -> HandlerPcs]
  BY DEF Answer, Move, ControlInv, ControlTypeOK
<1>2. handler'[h] = "idle" /\ \A o \in Handlers : o # h => handler'[o] = handler[o]
  BY <1>1
<1>3. agreed = "nothing"
  BY DEF ControlInv, AgreedRests
<1>4. alone' = {}
  BY <1>1, SMT DEF ControlInv, AloneHolds, ControlTypeOK
<1>5. ControlTypeOK'
  <2>1. handler' \in [Handlers -> HandlerPcs]
    BY <1>1, SMT DEF HandlerPcs
  <2>2. (job.owner # Nobody => handler[job.owner] \in {"starting", "stopping"})'
    BY <1>2, SMT DEF ControlInv, ControlTypeOK
  <2>3. agreed' \in {"nothing", "created", "deleted"}
    BY <1>1, <1>3
  <2> QED BY <1>4, <2>1, <2>2, <2>3 DEF ControlInv, ControlTypeOK
<1>6. OwnerWaits'
  BY <1>2, SMT DEF ControlInv, ControlTypeOK, OwnerWaits
<1>7. AloneHolds'
  BY <1>4 DEF AloneHolds
<1>8. AgreedRests' /\ AgreedIsSo'
  <2>1. CASE h \in alone
    <3>1. \A o \in Handlers : handler'[o] = "idle"
      BY <1>2, <2>1 DEF ControlInv, AloneHolds
    <3> QED BY <1>1, <2>1, <3>1 DEF AgreedRests, AgreedIsSo
  <2>2. CASE h \notin alone
    BY <1>1, <1>3, <2>2 DEF AgreedRests, AgreedIsSo
  <2> QED BY <2>1, <2>2
<1> QED BY <1>5, <1>6, <1>7, <1>8 DEF ControlInv

LEMMA RefusedKeeps ==
  ASSUME ControlInv, NEW h \in Handlers, Refused(h)
  PROVE  ControlInv'
<1>1. refusals' \in 0..MaxRefusals
  BY ControlBoundsAssumption, SMT DEF Refused, ControlInv, ControlTypeOK
<1>2. job.owner # h /\ handler[h] # "idle"
  BY HandlersAssumption, SMT DEF Refused, ControlInv, ControlTypeOK
<1> QED BY <1>1, <1>2, AnswerKeeps DEF Refused, unit, ControlInv, ControlTypeOK, OwnerWaits

LEMMA GiveUpKeeps ==
  ASSUME ControlInv, NEW h \in Handlers, GiveUp(h)
  PROVE  ControlInv'
<1>1. job \in [kind: {"none", "start", "stop"}, owner: Handlers \cup {Nobody}]
  BY DEF ControlInv, ControlTypeOK
<1>2. CASE job.owner = h
  <2>1. job' = [job EXCEPT !.owner = Nobody]
    BY <1>2 DEF GiveUp
  <2>2. /\ job' \in [kind: {"none", "start", "stop"}, owner: Handlers \cup {Nobody}]
        /\ job'.owner = Nobody
    BY <1>1, <2>1, SMT
  <2>3. handler[h] # "idle"
    BY SMT DEF GiveUp
  <2> QED BY <2>2, <2>3, AnswerKeeps DEF GiveUp, unit, bounds, ControlInv, ControlTypeOK
<1>3. CASE job.owner # h
  <2>1. job' = job /\ handler[h] # "idle"
    BY <1>3, SMT DEF GiveUp
  <2> QED BY <1>1, <1>3, <2>1, AnswerKeeps DEF GiveUp, unit, bounds, ControlInv, ControlTypeOK, OwnerWaits
<1> QED BY <1>2, <1>3

\* A handler that goes on with another step, while the job stays as it is.
LEMMA MoveKeepsTypes ==
  ASSUME ControlInv, NEW h \in Handlers, NEW pc \in {"start", "disable"}, Move(h, pc),
         handler[h] # "idle",
         (job' = job /\ job.owner # h) \/ job' = NoJob,
         active' \in BOOLEAN, enabled' \in BOOLEAN,
         refusals' \in 0..MaxRefusals, UNCHANGED <<blocked, alone, agreed, tenantCalls, reboots>>
  PROVE  ControlTypeOK' /\ OwnerWaits' /\ AgreedRests' /\ AgreedIsSo'
<1>1. handler' = [handler EXCEPT ![h] = pc] /\ handler \in [Handlers -> HandlerPcs]
  BY DEF Move, ControlInv, ControlTypeOK
<1>2. handler'[h] = pc /\ \A o \in Handlers : o # h => handler'[o] = handler[o]
  BY <1>1
<1>3. job' \in [kind: {"none", "start", "stop"}, owner: Handlers \cup {Nobody}]
  BY SMT DEF NoJob, ControlInv, ControlTypeOK
<1>4. job' = job \/ (job'.kind = "none" /\ job'.owner = Nobody)
  BY SMT DEF NoJob
<1>5. ControlTypeOK'
  <2>1. handler' \in [Handlers -> HandlerPcs]
    BY <1>1, SMT DEF HandlerPcs
  <2>2. (job.owner # Nobody => handler[job.owner] \in {"starting", "stopping"})'
    BY <1>2, <1>3, <1>4, SMT DEF NoJob, ControlInv, ControlTypeOK
  <2>3. alone \subseteq {o \in Handlers : handler'[o] # "idle"}
    BY <1>2, SMT DEF ControlInv, ControlTypeOK
  <2> QED BY <1>3, <2>1, <2>2, <2>3 DEF ControlInv, ControlTypeOK
<1>6. OwnerWaits'
  BY <1>2, <1>3, <1>4, SMT DEF NoJob, ControlInv, ControlTypeOK, OwnerWaits
<1>7. agreed = "nothing"
  BY DEF ControlInv, AgreedRests
<1>8. AgreedRests' /\ AgreedIsSo'
  BY <1>7 DEF AgreedRests, AgreedIsSo
<1> QED BY <1>5, <1>6, <1>8

LEMMA EnableKeeps ==
  ASSUME ControlInv, NEW h \in Handlers, EnableUnitFiles(h)
  PROVE  ControlInv'
<1>1. job.owner # h
  BY HandlersAssumption, SMT DEF EnableUnitFiles, ControlInv, ControlTypeOK
<1>2. ControlTypeOK' /\ OwnerWaits' /\ AgreedRests' /\ AgreedIsSo'
  BY <1>1, MoveKeepsTypes DEF EnableUnitFiles, bounds, ControlInv, ControlTypeOK
<1>3. AloneHolds'
  BY SMT DEF EnableUnitFiles, Move, ControlInv, ControlTypeOK, AloneHolds
<1> QED BY <1>2, <1>3 DEF ControlInv

LEMMA DisableKeeps ==
  ASSUME ControlInv, NEW h \in Handlers, DisableUnitFiles(h)
  PROVE  ControlInv'
<1>1. job.owner # h
  BY HandlersAssumption, SMT DEF DisableUnitFiles, ControlInv, ControlTypeOK
<1>2. h \in alone => job.kind = "none" /\ ~active
  BY DEF DisableUnitFiles, ControlInv, AloneHolds
<1> QED BY <1>1, <1>2, AnswerKeeps DEF DisableUnitFiles, bounds, ControlInv, ControlTypeOK, OwnerWaits

\* A new job takes the place of the old one, whose handler, if one of the other
\* kind waited, returns.
LEMMA ReplaceKeeps ==
  ASSUME ControlInv, NEW h \in Handlers, StartUnit(h) \/ StopUnit(h)
  PROVE  ControlInv'
<1>1. PICK kind \in {"start", "stop"}, waiting \in {"starting", "stopping"} :
        /\ handler[h] = kind /\ Replace(h, kind, waiting)
        /\ (kind = "start") <=> (waiting = "starting")
  BY DEF StartUnit, StopUnit
<1> DEFINE failed == {o \in Handlers : job.kind \notin {"none", kind} /\ job.owner = o}
<1>2. /\ handler' = [o \in Handlers |->
           IF o = h THEN waiting ELSE IF o \in failed THEN "idle" ELSE handler[o]]
      /\ alone' = alone \ failed /\ job' = [kind |-> kind, owner |-> h]
      /\ blocked' \in BOOLEAN /\ UNCHANGED <<unit, agreed, bounds>>
  BY <1>1 DEF Replace
<1>3. /\ job' \in [kind: {"none", "start", "stop"}, owner: Handlers \cup {Nobody}]
      /\ job'.kind = kind /\ job'.owner = h
  BY <1>2, SMT
<1>4. h \notin failed /\ handler \in [Handlers -> HandlerPcs] /\ h # Nobody
  BY <1>1, HandlersAssumption, SMT DEF ControlInv, ControlTypeOK
<1>5. /\ handler'[h] = waiting
      /\ \A o \in Handlers : o # h => handler'[o] = IF o \in failed THEN "idle" ELSE handler[o]
  BY <1>2
<1> HIDE DEF failed
<1>6. ControlTypeOK'
  <2>1. handler' \in [Handlers -> HandlerPcs]
    BY <1>2, <1>4, SMT DEF HandlerPcs
  <2>2. alone' \subseteq {o \in Handlers : handler'[o] # "idle"}
    BY <1>2, <1>4, <1>5, SMT DEF ControlInv, ControlTypeOK
  <2> QED BY <1>2, <1>3, <1>5, <2>1, <2>2 DEF unit, bounds, ControlInv, ControlTypeOK
<1>7. OwnerWaits'
  BY <1>1, <1>3, <1>5, SMT DEF OwnerWaits
<1>8. AloneHolds'
  <2>1. \A o \in alone' : o = h
    BY <1>1, <1>2, SMT DEF ControlInv, ControlTypeOK, AloneHolds
  <2>2. h \in alone' => h \in alone /\ \A o \in Handlers : o # h => handler'[o] = "idle"
    BY <1>2, <1>5 DEF ControlInv, AloneHolds
  <2>3. h \in alone' /\ waiting = "starting" => enabled'
    BY <1>1, <1>2 DEF unit, ControlInv, AloneHolds
  <2> QED BY <1>5, <2>1, <2>2, <2>3, SMT DEF AloneHolds
<1>9. AgreedRests' /\ AgreedIsSo'
  <2>1. agreed' = "nothing"
    BY <1>1, <1>2, SMT DEF ControlInv, AgreedRests
  <2> QED BY <2>1 DEF AgreedRests, AgreedIsSo
<1> QED BY <1>6, <1>7, <1>8, <1>9 DEF ControlInv

LEMMA JobEndsKeeps ==
  ASSUME ControlInv, NEW result \in {"done", "failed"}, JobEnds(result)
  PROVE  ControlInv'
<1>1. refusals' \in 0..MaxRefusals /\ active' \in BOOLEAN
  <2>1. /\ refusals \in 0..MaxRefusals /\ active \in BOOLEAN
        /\ refusals' = refusals \/ (refusals < MaxRefusals /\ refusals' = refusals + 1)
    BY DEF JobEnds, ControlInv, ControlTypeOK
  <2>2. refusals' \in 0..MaxRefusals
    BY <2>1, ControlBoundsAssumption, SMT
  <2>3. active' \in BOOLEAN
    BY <2>1 DEF JobEnds
  <2> QED BY <2>2, <2>3
<1>2. /\ job' \in [kind: {"none", "start", "stop"}, owner: Handlers \cup {Nobody}]
      /\ job'.kind = "none" /\ job'.owner = Nobody
  BY SMT DEF JobEnds, NoJob
<1>3. agreed = "nothing" /\ UNCHANGED <<enabled, tenantCalls, reboots>> /\ blocked' \in BOOLEAN /\ enabled' \in BOOLEAN
  BY DEF JobEnds, ControlInv, ControlTypeOK, AgreedRests
<1>4. CASE job.owner = Nobody
  <2>1. UNCHANGED <<handler, alone, agreed>>
    BY <1>4 DEF JobEnds
  <2>2. ControlTypeOK'
    BY <1>1, <1>2, <1>3, <2>1 DEF ControlInv, ControlTypeOK
  <2>3. OwnerWaits' /\ AgreedRests' /\ AgreedIsSo'
    BY <1>2, <1>3, <2>1, SMT DEF OwnerWaits, AgreedRests, AgreedIsSo
  <2>4. AloneHolds'
    BY <1>2, <1>3, <2>1, SMT DEF JobEnds, ControlInv, AloneHolds
  <2> QED BY <2>2, <2>3, <2>4 DEF ControlInv
<1>5. CASE job.owner # Nobody
  <2>1. PICK h \in Handlers : h = job.owner
    BY <1>5 DEF ControlInv, ControlTypeOK
  <2>2. handler[h] \in {"starting", "stopping"}
    BY <1>5, <2>1 DEF ControlInv, ControlTypeOK
  <2>3. job.kind \in {"start", "stop"}
    BY DEF JobEnds, ControlInv, ControlTypeOK
  <2>4. CASE ~Succeeds(result)
    <3>1. Answer(h, "nothing") /\ UNCHANGED blocked
      BY <1>5, <2>1, <2>4 DEF JobEnds
    <3> QED BY <1>1, <1>2, <1>3, <2>2, <3>1, AnswerKeeps
  <2>5. CASE Succeeds(result) /\ job.kind = "start"
    <3>1. Answer(h, "created") /\ UNCHANGED blocked /\ active' = TRUE
      BY <1>5, <2>1, <2>5 DEF JobEnds, Succeeds
    <3>2. h \in alone => enabled
      BY <1>5, <2>1, <2>5 DEF ControlInv, OwnerWaits, AloneHolds
    <3> QED BY <1>1, <1>2, <1>3, <2>2, <3>1, <3>2, AnswerKeeps
  <2>6. CASE Succeeds(result) /\ job.kind = "stop"
    <3>1. Move(h, "disable") /\ UNCHANGED <<blocked, alone, agreed>> /\ active' = FALSE
      BY <1>5, <2>1, <2>6 DEF JobEnds, Succeeds
    <3>2. job' = NoJob
      BY DEF JobEnds
    <3>3. ControlTypeOK' /\ OwnerWaits' /\ AgreedRests' /\ AgreedIsSo'
      BY <1>1, <1>3, <2>2, <3>1, <3>2, MoveKeepsTypes DEF ControlInv, ControlTypeOK
    <3>4. handler' = [handler EXCEPT ![h] = "disable"] /\ handler \in [Handlers -> HandlerPcs]
      BY <3>1 DEF Move, ControlInv, ControlTypeOK
    <3>5. \A o \in alone : o = h
      BY <2>2, SMT DEF ControlInv, AloneHolds, ControlTypeOK
    <3>6. AloneHolds'
      BY <1>2, <3>1, <3>4, <3>5, SMT DEF ControlInv, AloneHolds
    <3> QED BY <3>3, <3>6 DEF ControlInv
  <2> QED BY <2>3, <2>4, <2>5, <2>6
<1> QED BY <1>4, <1>5

\* All handlers are gone; what was agreed holds because the units that are
\* enabled, and only they, are started.
LEMMA RebootKeeps ==
  ASSUME ControlInv, Reboot
  PROVE  ControlInv'
<1>1. reboots' \in 0..MaxReboots
  BY ControlBoundsAssumption, SMT DEF Reboot, ControlInv, ControlTypeOK
<1>2. /\ job' \in [kind: {"none", "start", "stop"}, owner: Handlers \cup {Nobody}]
      /\ job'.kind = "none" /\ job'.owner = Nobody
  BY SMT DEF Reboot, NoJob
<1>3. handler' \in [Handlers -> HandlerPcs] /\ \A h \in Handlers : handler'[h] = "idle"
  BY SMT DEF Reboot, HandlerPcs
<1>4. ControlTypeOK'
  BY <1>1, <1>2, <1>3 DEF Reboot, ControlInv, ControlTypeOK
<1>5. OwnerWaits' /\ AgreedRests'
  BY <1>2, <1>3, SMT DEF OwnerWaits, AgreedRests
<1>6. AloneHolds'
  BY DEF Reboot, AloneHolds
<1>7. AgreedIsSo'
  BY DEF Reboot, ControlInv, AgreedIsSo
<1> QED BY <1>4, <1>5, <1>6, <1>7 DEF ControlInv

-----------------------------------------------------------------------------
(* Every step, and the theorems *)

LEMMA ControlInv_Next == ControlInv /\ [ControlNext]_controlVars => ControlInv'
<1> SUFFICES ASSUME ControlInv, [ControlNext]_controlVars PROVE ControlInv'
  OBVIOUS
<1>1. CASE UNCHANGED controlVars
  BY <1>1 DEF controlVars, unit, bounds, ControlInv, ControlTypeOK, OwnerWaits,
              AloneHolds, AgreedRests, AgreedIsSo
<1>2. ASSUME NEW h \in Handlers, TenantCall(h) \/ Refused(h) \/ ControlStep(h)
      PROVE  ControlInv'
  BY <1>2, CallKeeps, RefusedKeeps, EnableKeeps, ReplaceKeeps, GiveUpKeeps, DisableKeeps
     DEF ControlStep
<1>3. ASSUME NEW result \in {"done", "failed"}, JobEnds(result)
      PROVE  ControlInv'
  BY <1>3, JobEndsKeeps
<1>4. CASE Reboot
  BY <1>4, RebootKeeps
<1> QED BY <1>1, <1>2, <1>3, <1>4 DEF ControlNext

\* At most one handler waits for the result of a job, and none for a job that is
\* not there, however calls, refusals and restarts follow each other (system.go).
THEOREM SystemControl_TypeOK == ControlSpec => []ControlTypeOK
<1>1. ControlInv => ControlTypeOK
  BY DEF ControlInv
<1> QED BY <1>1, ControlInv_Init, ControlInv_Next, PTL DEF ControlSpec

\* A tenant whose creation, or deletion, was answered 200 is what the answer says
\* as long as no other call comes, whatever was left half done before and through
\* restarts of the machine (system.go 116-184).
THEOREM SystemControl_AgreedIsSo == ControlSpec => []AgreedIsSo
<1>1. ControlInv => AgreedIsSo
  BY DEF ControlInv
<1> QED BY <1>1, ControlInv_Init, ControlInv_Next, PTL DEF ControlSpec

-----------------------------------------------------------------------------
(* Monitors *)

\* A monitor says what it last found. A call has seen that from its beginning on,
\* and every flag it has read was found while it ran; HEAD leaves out the disk
\* only if the memory was short.
Recent ==
  /\ ok = sound
  /\ health.at # "idle" => \A m \in Capacities : sound[m] \in during[m]
  /\ health.at \in {"disk", "answer"} => health.read[Memory] \in during[Memory]
  /\ health.at = "answer" =>
       health.read[Disk] \in during[Disk] \/ (health.read[Disk] /\ ~health.read[Memory])

MonitorsInv == MonitorsTypeOK /\ Recent

LEMMA MonitorsInv_Init == MonitorsInit => MonitorsInv
<1> SUFFICES ASSUME MonitorsInit PROVE MonitorsInv
  OBVIOUS
<1>1. health.at = "idle" /\ \A m \in Capacities : health.read[m]
  BY DEF MonitorsInit, NoCall, Good
<1>2. health \in [method: {"GET", "HEAD"}, at: {"idle", "memory", "disk", "answer"},
                  read: [Capacities -> BOOLEAN]]
  BY DEF MonitorsInit, NoCall, Good
<1>3. MonitorsTypeOK
  BY <1>1, <1>2, HealthCallsAssumption DEF MonitorsInit, MonitorsTypeOK, Good
<1>4. Recent
  BY <1>1 DEF MonitorsInit, Recent
<1> QED
  BY <1>3, <1>4 DEF MonitorsInv

LEMMA MeasureKeeps ==
  ASSUME MonitorsInv, NEW m \in Capacities, NEW result \in {"error", "scarce", "enough"},
         Measure(m, result)
  PROVE  MonitorsInv'
<1>1. PICK found \in BOOLEAN : found = Sound(m, result)
  BY DEF Sound
<1>2. Verdict(m, result) = found
  BY <1>1 DEF Verdict, Sound
<1>3. /\ ok' = [ok EXCEPT ![m] = found] /\ sound' = [sound EXCEPT ![m] = found]
      /\ during' = [during EXCEPT ![m] =
                      IF health.at = "idle" THEN during[m] ELSE during[m] \cup {found}]
      /\ UNCHANGED <<health, healthCalls>>
  BY <1>1, <1>2 DEF Measure
<1>4. /\ ok \in [Capacities -> BOOLEAN] /\ sound = ok
      /\ during \in [Capacities -> SUBSET BOOLEAN]
  BY DEF MonitorsInv, MonitorsTypeOK, Recent
<1>5. /\ ok' \in [Capacities -> BOOLEAN] /\ sound' = ok'
      /\ during' \in [Capacities -> SUBSET BOOLEAN]
  BY <1>3, <1>4
<1>6. \A n \in Capacities : during[n] \subseteq during'[n]
  BY <1>3, <1>4
<1>7. ASSUME NEW n \in Capacities, health.at # "idle" PROVE sound'[n] \in during'[n]
  <2>1. CASE n = m
    BY <1>3, <1>4, <1>7, <2>1
  <2>2. CASE n # m
    <3>1. sound[n] \in during[n] /\ sound'[n] = sound[n]
      BY <1>3, <1>4, <1>7, <2>2 DEF MonitorsInv, Recent
    <3> QED
      BY <1>6, <3>1
  <2> QED
    BY <2>1, <2>2
<1>8. MonitorsTypeOK'
  BY <1>3, <1>5 DEF MonitorsInv, MonitorsTypeOK
<1>9. Recent'
  <2>1. Memory \in Capacities /\ Disk \in Capacities
    BY DEF Capacities
  <2> QED
    BY <1>3, <1>5, <1>6, <1>7, <2>1 DEF MonitorsInv, Recent
<1> QED
  BY <1>8, <1>9 DEF MonitorsInv

LEMMA HealthCallKeeps ==
  ASSUME MonitorsInv, NEW method \in {"GET", "HEAD"}, HealthCall(method)
  PROVE  MonitorsInv'
<1>1. /\ health'.at = "memory" /\ health'.read = Good /\ health'.method = method
      /\ health' \in [method: {"GET", "HEAD"}, at: {"idle", "memory", "disk", "answer"},
                       read: [Capacities -> BOOLEAN]]
  BY DEF HealthCall, NoCall, Good
<1>2. /\ during' = [m \in Capacities |-> {sound[m]}] /\ ok' = ok /\ sound' = sound
      /\ healthCalls' = healthCalls + 1 /\ healthCalls < MaxHealthCalls
  BY DEF HealthCall
<1>3. healthCalls' \in 0..MaxHealthCalls
  BY <1>2, HealthCallsAssumption DEF MonitorsInv, MonitorsTypeOK
<1>4. MonitorsTypeOK'
  BY <1>1, <1>2, <1>3 DEF MonitorsInv, MonitorsTypeOK, Good
<1>5. Recent'
  BY <1>1, <1>2 DEF MonitorsInv, Recent
<1> QED
  BY <1>4, <1>5 DEF MonitorsInv

LEMMA ReadMemoryKeeps ==
  ASSUME MonitorsInv, ReadMemory
  PROVE  MonitorsInv'
<1>0. Memory \in Capacities /\ Disk \in Capacities /\ Memory # Disk
  BY MonitorsAssumption DEF Capacities
<1>1. /\ health \in [method: {"GET", "HEAD"}, at: {"idle", "memory", "disk", "answer"},
                      read: [Capacities -> BOOLEAN]]
      /\ ok \in [Capacities -> BOOLEAN] /\ ok = sound /\ health.at = "memory"
      /\ ok[Memory] \in during[Memory] /\ health.read[Disk]
  BY <1>0 DEF ReadMemory, MonitorsInv, MonitorsTypeOK, Recent
<1>2. PICK at \in {"disk", "answer"} :
        at = IF ok[Memory] \/ health.method = "GET" THEN "disk" ELSE "answer"
  OBVIOUS
<1>3. /\ health' = [health EXCEPT !.read[Memory] = ok[Memory], !.at = at]
      /\ UNCHANGED <<ok, sound, during, healthCalls>>
  BY <1>2 DEF ReadMemory
<1>4. /\ health'.at = at /\ health'.read = [health.read EXCEPT ![Memory] = ok[Memory]]
      /\ health'.method = health.method
      /\ health' \in [method: {"GET", "HEAD"}, at: {"idle", "memory", "disk", "answer"},
                       read: [Capacities -> BOOLEAN]]
  BY <1>0, <1>1, <1>3
<1>5. health'.read[Memory] = ok[Memory] /\ health'.read[Disk]
  BY <1>0, <1>1, <1>4
<1>6. at = "answer" => ~ok[Memory]
  BY <1>2
<1>7. MonitorsTypeOK'
  BY <1>3, <1>4, <1>5 DEF MonitorsInv, MonitorsTypeOK
<1>8. \A m \in Capacities : sound[m] \in during[m]
  BY <1>1 DEF MonitorsInv, Recent
<1>9. Recent'
  BY <1>1, <1>3, <1>4, <1>5, <1>6, <1>8 DEF Recent
<1> QED
  BY <1>7, <1>9 DEF MonitorsInv

LEMMA ReadDiskKeeps ==
  ASSUME MonitorsInv, ReadDisk
  PROVE  MonitorsInv'
<1>0. Memory \in Capacities /\ Disk \in Capacities /\ Memory # Disk
  BY MonitorsAssumption DEF Capacities
<1>1. /\ health \in [method: {"GET", "HEAD"}, at: {"idle", "memory", "disk", "answer"},
                      read: [Capacities -> BOOLEAN]]
      /\ ok \in [Capacities -> BOOLEAN] /\ ok = sound /\ health.at = "disk"
      /\ ok[Disk] \in during[Disk] /\ health.read[Memory] \in during[Memory]
      /\ \A m \in Capacities : sound[m] \in during[m]
  BY <1>0 DEF ReadDisk, MonitorsInv, MonitorsTypeOK, Recent
<1>2. /\ health' = [health EXCEPT !.read[Disk] = ok[Disk], !.at = "answer"]
      /\ UNCHANGED <<ok, sound, during, healthCalls>>
  BY DEF ReadDisk
<1>3. /\ health'.at = "answer" /\ health'.read = [health.read EXCEPT ![Disk] = ok[Disk]]
      /\ health' \in [method: {"GET", "HEAD"}, at: {"idle", "memory", "disk", "answer"},
                       read: [Capacities -> BOOLEAN]]
  BY <1>0, <1>1, <1>2
<1>4. health'.read[Disk] = ok[Disk] /\ health'.read[Memory] = health.read[Memory]
  BY <1>0, <1>1, <1>3
<1>5. MonitorsTypeOK'
  BY <1>2, <1>3 DEF MonitorsInv, MonitorsTypeOK
<1>6. Recent'
  BY <1>1, <1>2, <1>3, <1>4 DEF Recent
<1> QED
  BY <1>5, <1>6 DEF MonitorsInv

LEMMA AnswerHealthKeeps ==
  ASSUME MonitorsInv, AnswerHealth
  PROVE  MonitorsInv'
<1>1. /\ health'.at = "idle" /\ health'.read = Good
      /\ health' \in [method: {"GET", "HEAD"}, at: {"idle", "memory", "disk", "answer"},
                       read: [Capacities -> BOOLEAN]]
  BY DEF AnswerHealth, NoCall, Good
<1>2. during' = [m \in Capacities |-> {}] /\ UNCHANGED <<ok, sound, healthCalls>>
  BY DEF AnswerHealth
<1>3. MonitorsTypeOK'
  BY <1>1, <1>2 DEF MonitorsInv, MonitorsTypeOK, Good
<1>4. Recent'
  BY <1>1, <1>2 DEF MonitorsInv, Recent
<1> QED
  BY <1>3, <1>4 DEF MonitorsInv

LEMMA MonitorsInv_Next == MonitorsInv /\ [MonitorsNext]_monitorVars => MonitorsInv'
<1> SUFFICES ASSUME MonitorsInv, [MonitorsNext]_monitorVars PROVE MonitorsInv'
  OBVIOUS
<1>1. CASE UNCHANGED monitorVars
  BY <1>1 DEF monitorVars, MonitorsInv, MonitorsTypeOK, Recent
<1>2. ASSUME NEW m \in Capacities, NEW result \in {"error", "scarce", "enough"},
             Measure(m, result)
      PROVE  MonitorsInv'
  BY <1>2, MeasureKeeps
<1>3. ASSUME NEW method \in {"GET", "HEAD"}, HealthCall(method)
      PROVE  MonitorsInv'
  BY <1>3, HealthCallKeeps
<1>4. CASE ReadMemory \/ ReadDisk \/ AnswerHealth
  BY <1>4, ReadMemoryKeeps, ReadDiskKeeps, AnswerHealthKeeps
<1> QED
  BY <1>1, <1>2, <1>3, <1>4 DEF MonitorsNext

\* What GET and HEAD /health tell was found while they were handled, although the
\* monitors measure between the reads and HEAD may leave out the disk
\* (health.go 25-65).
THEOREM Monitors_HealthIsRecent == MonitorsSpec => []HealthIsRecent
<1>1. ASSUME MonitorsInv PROVE HealthIsRecent
  <2> SUFFICES ASSUME health.at = "answer"
               PROVE  IF Healthy THEN \A m \in Capacities : TRUE \in during[m]
                      ELSE \E m \in Capacities : FALSE \in during[m]
    BY DEF HealthIsRecent
  <2>1. Capacities = {Memory, Disk} /\ health.read \in [Capacities -> BOOLEAN]
    BY <1>1 DEF MonitorsInv, MonitorsTypeOK, Capacities
  <2>2. /\ health.read[Memory] \in BOOLEAN /\ health.read[Disk] \in BOOLEAN
        /\ health.read[Memory] \in during[Memory]
        /\ health.read[Disk] \in during[Disk] \/ (health.read[Disk] /\ ~health.read[Memory])
    BY <1>1, <2>1 DEF MonitorsInv, Recent
  <2>3. CASE Healthy
    <3>1. health.read[Memory] = TRUE /\ health.read[Disk] = TRUE
      BY <2>1, <2>2, <2>3 DEF Healthy
    <3>2. TRUE \in during[Memory] /\ TRUE \in during[Disk]
      BY <2>2, <3>1
    <3> QED
      BY <2>1, <2>3, <3>2
  <2>4. CASE ~Healthy
    <3>1. health.read[Memory] = FALSE \/ health.read[Disk] = FALSE
      BY <2>1, <2>2, <2>4 DEF Healthy
    <3>2. FALSE \in during[Memory] \/ FALSE \in during[Disk]
      BY <2>2, <3>1
    <3> QED
      BY <2>1, <2>4, <3>2
  <2> QED
    BY <2>3, <2>4
<1> QED
  BY <1>1, MonitorsInv_Init, MonitorsInv_Next, PTL DEF MonitorsSpec
=============================================================================
