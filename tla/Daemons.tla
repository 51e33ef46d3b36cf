-------------------------------- MODULE Daemons --------------------------------
(***************************************************************************)
(* How both services start and stop (support/concurrent, boot/run.go): a   *)
(* pool runs every worker in a daemon of its own, one that works once or   *)
(* one that works at every tick, and the program ends on a signal or when  *)
(* the pool is done.                                                       *)
(*                                                                         *)
(* All daemons share one context, which the first of them to return        *)
(* cancels. A worker that cannot be set up thus stops the whole program,   *)
(* and whoever supervises the unit starts it again.                        *)
(***************************************************************************)
EXTENDS Naturals

CONSTANTS
  OneShots,   \* daemons that work once: the actor system, the HTTP server
  Scheduled,  \* daemons that work at every tick
  MayFail,    \* daemons whose worker may be impossible to set up
  MaxEarly    \* bound on the workers that return although nobody canceled them

ASSUME DaemonsAssumption == OneShots \cap Scheduled = {}
ASSUME MayFailAssumption == MayFail \subseteq OneShots \cup Scheduled
ASSUME EarlyAssumption == MaxEarly \in Nat

AllDaemons == OneShots \cup Scheduled

VARIABLES
  phase,     \* [AllDaemons -> where Start is]
  stop,      \* [AllDaemons -> how far Stop is: cancelOnce and the channel done]
  tick,      \* [Scheduled -> the ticker's channel holds a tick]
  canceled,  \* the context
  pool,      \* DaemonPool.Start; "done" is its channel done
  program,   \* Program.Start
  signal,    \* a signal has come
  late,      \* history: works begun after the end of Stop
  early      \* how many workers have returned early

daemons == <<phase, stop, tick, late, early>>
daemonsVars == <<daemons, canceled, pool, program, signal>>

\* Type invariant: also, what has returned has canceled the context, and nothing
\* is stopped but by the context or the program.
DaemonsTypeOK ==
  /\ phase \in [AllDaemons -> {"new", "ready", "working", "waiting", "returned"}]
  /\ \A d \in Scheduled : phase[d] # "waiting"
  /\ stop \in [AllDaemons -> {"no", "canceling", "done"}]
  /\ tick \in [Scheduled -> BOOLEAN] /\ late \in [Scheduled -> Nat]
  /\ canceled \in BOOLEAN /\ signal \in BOOLEAN
  /\ pool \in {"new", "running", "done"}
  /\ program \in {"running", "stopping", "ended"}
  /\ early \in 0..MaxEarly
  /\ canceled <=> \E d \in AllDaemons : phase[d] = "returned"
  /\ (\E d \in AllDaemons : stop[d] # "no") => canceled \/ program # "running"

DaemonsInit ==
  /\ phase = [d \in AllDaemons |-> "new"]
  /\ stop = [d \in AllDaemons |-> "no"]
  /\ tick = [d \in Scheduled |-> FALSE] /\ late = [d \in Scheduled |-> 0]
  /\ canceled = FALSE /\ pool = "new" /\ program = "running" /\ signal = FALSE
  /\ early = 0

-----------------------------------------------------------------------------
(* Daemon.Stop *)

\* Called for every daemon by the program, and by those who watch the context.
StopBegins(d) ==
  /\ stop[d] = "no"
  /\ canceled \/ program = "stopping"
  /\ stop' = [stop EXCEPT ![d] = "canceling"]
  /\ UNCHANGED <<phase, tick, late, early, canceled, pool, program, signal>>

\* The ticker is stopped and Worker.Cancel has returned: close(done).
StopEnds(d) ==
  /\ stop[d] = "canceling"
  /\ stop' = [stop EXCEPT ![d] = "done"]
  /\ UNCHANGED <<phase, tick, late, early, canceled, pool, program, signal>>

\* Mutant of Tick: the ticker goes on.
TickOn(d) ==
  /\ ~tick[d]
  /\ tick' = [tick EXCEPT ![d] = TRUE]
  /\ UNCHANGED <<phase, stop, late, early, canceled, pool, program, signal>>

\* Stop begins with the ticker. Its channel keeps a tick that is there already.
Tick(d) ==
  /\ stop[d] = "no" /\ ~tick[d]
  /\ tick' = [tick EXCEPT ![d] = TRUE]
  /\ UNCHANGED <<phase, stop, late, early, canceled, pool, program, signal>>

-----------------------------------------------------------------------------
(* Daemon.Start *)

\* Mutant of Return: without defer cancelFunction().
ReturnQuietly(d) ==
  /\ phase' = [phase EXCEPT ![d] = "returned"]
  /\ UNCHANGED canceled

Return(d) ==
  /\ phase' = [phase EXCEPT ![d] = "returned"]
  /\ canceled' = TRUE

\* Setup; the goroutine that calls Start is one of the pool.
SetupWorker(d) ==
  /\ pool = "running" /\ phase[d] = "new"
  /\ \/ d \in MayFail /\ Return(d)
     \/ phase' = [phase EXCEPT ![d] = "ready"] /\ UNCHANGED canceled
  /\ UNCHANGED <<stop, tick, late, early, pool, program, signal>>

\* Work, even if the daemon has been stopped meanwhile.
WorkOnce(d) ==
  /\ d \in OneShots /\ phase[d] = "ready"
  /\ phase' = [phase EXCEPT ![d] = "working"]
  /\ UNCHANGED <<stop, tick, late, early, canceled, pool, program, signal>>

\* What cancels the work makes it return, be it begun before or after.
WorkOnceEnds(d) ==
  /\ d \in OneShots /\ phase[d] = "working"
  /\ \/ stop[d] # "no" /\ UNCHANGED early
     \/ stop[d] = "no" /\ early < MaxEarly /\ early' = early + 1
  /\ phase' = [phase EXCEPT ![d] = "waiting"]
  /\ UNCHANGED <<stop, tick, late, canceled, pool, program, signal>>

\* select: a tick, which may win although the daemon has been stopped.
WorkAtTick(d) ==
  /\ d \in Scheduled /\ phase[d] = "ready" /\ tick[d]
  /\ phase' = [phase EXCEPT ![d] = "working"]
  /\ tick' = [tick EXCEPT ![d] = FALSE]
  /\ late' = [late EXCEPT ![d] = IF stop[d] = "done" /\ @ < 2 THEN @ + 1 ELSE @]
  /\ UNCHANGED <<stop, early, canceled, pool, program, signal>>

WorkAtTickEnds(d) ==
  /\ d \in Scheduled /\ phase[d] = "working"
  /\ phase' = [phase EXCEPT ![d] = "ready"]
  /\ UNCHANGED <<stop, tick, late, early, canceled, pool, program, signal>>

\* <-Done(), or Stop called from the select, is over.
StartReturns(d) ==
  /\ phase[d] = IF d \in Scheduled THEN "ready" ELSE "waiting"
  /\ stop[d] = "done"
  /\ Return(d)
  /\ UNCHANGED <<stop, tick, late, early, pool, program, signal>>

-----------------------------------------------------------------------------
(* DaemonPool and Program *)

PoolStarts ==
  /\ pool = "new"
  /\ pool' = "running"
  /\ UNCHANGED <<daemons, canceled, program, signal>>

\* wg.Wait: every Start has returned.
PoolEnds ==
  /\ pool = "running" /\ \A d \in AllDaemons : phase[d] = "returned"
  /\ pool' = "done"
  /\ UNCHANGED <<daemons, canceled, program, signal>>

\* Mutant of PoolDone: the pool's own channel is left out.
PoolDoneDaemons == \A d \in AllDaemons : stop[d] = "done"

\* DaemonPool.Done
PoolDone == pool = "done" /\ \A d \in AllDaemons : stop[d] = "done"

Signal ==
  /\ ~signal
  /\ signal' = TRUE
  /\ UNCHANGED <<daemons, canceled, pool, program>>

ProgramStops ==
  /\ program = "running" /\ (signal \/ PoolDone)
  /\ program' = "stopping"
  /\ UNCHANGED <<daemons, canceled, pool, signal>>

ProgramEnds ==
  /\ program = "stopping" /\ PoolDone
  /\ program' = "ended"
  /\ UNCHANGED <<daemons, canceled, pool, signal>>

DaemonStop(d) == StopBegins(d) \/ StopEnds(d)

\* What Start owes: a tick is owed to nobody, and a worker may return early or
\* not, but one that is canceled returns.
DaemonStart(d) ==
  \/ SetupWorker(d) \/ WorkOnce(d)
  \/ stop[d] # "no" /\ WorkOnceEnds(d)
  \/ WorkAtTickEnds(d) \/ StartReturns(d)

ProgramStep == PoolStarts \/ PoolEnds \/ ProgramStops \/ ProgramEnds

\* The process and all its goroutines are gone when the program ends.
DaemonsNext ==
  /\ program # "ended"
  /\ \/ \E d \in AllDaemons : DaemonStop(d) \/ DaemonStart(d) \/ WorkOnceEnds(d)
     \/ \E d \in Scheduled : Tick(d) \/ WorkAtTick(d)
     \/ ProgramStep \/ Signal

DaemonsSpec == DaemonsInit /\ [][DaemonsNext]_daemonsVars

-----------------------------------------------------------------------------
(* What holds *)

\* When the program ends no worker is at work or has been left without Cancel,
\* and a worker that was never set up does not work either, in whatever order
\* the signal, a failing setup and the start of the pool come (run.go 31-50).
EndIsClean ==
  program = "ended" =>
    \A d \in AllDaemons : phase[d] = "returned" /\ stop[d] = "done"

\* A worker that has been canceled begins to work once more at most: with the
\* tick that was waiting (scheduled.go 65-101).
LateOnce == \A d \in Scheduled : late[d] <= 1

\* The program ends after a signal, and it ends when one of its parts cannot be
\* set up, instead of running on without that part (oneshot.go 72-80).
ProgramEventuallyEnds ==
  (signal \/ \E d \in AllDaemons : phase[d] = "returned") ~> (program = "ended")
=============================================================================
