-------------------------------- MODULE MCRest --------------------------------
(***************************************************************************)
(* The parts of bondster-bco-rest for TLC, each on its own: part says      *)
(* which one a behaviour is about, and the others rest in their initial    *)
(* states.                                                                 *)
(***************************************************************************)
EXTENDS RestApi, SystemControl, Monitors, TLC

VARIABLE part

mcVars == <<restVars, controlVars, monitorVars, part>>

\* The runs of this module check invariants only.
Symmetry == Permutations(Ids) \cup Permutations(Handlers)

MCInit ==
  /\ RestInit /\ ControlInit /\ MonitorsInit
  /\ part \in {"api", "control", "health"}

\* A step of part p.
In(p, step) ==
  /\ part = p /\ step /\ UNCHANGED part
  /\ p = "api" \/ UNCHANGED restVars
  /\ p = "control" \/ UNCHANGED controlVars
  /\ p = "health" \/ UNCHANGED monitorVars

MCNext ==
  \/ In("api", RestNext)
  \/ In("control", ControlNext)
  \/ In("health", MonitorsNext)

\* The type invariants of the parts.
PartsTypeOK == RestTypeOK /\ ControlTypeOK /\ MonitorsTypeOK

MCSpec == MCInit /\ [][MCNext]_mcVars
=============================================================================
