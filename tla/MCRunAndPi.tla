----------------------------- MODULE MCRunAndPi -----------------------------
(***************************************************************************)
(* The run manager's lifecycle on the host and the shutter lines of one    *)
(* node, side by side: each behaviour is one of one of them, the other     *)
(* stays as it was begun.  They share no state: a fire is a request to the *)
(* node, whatever run it is for.                                           *)
(***************************************************************************)
EXTENDS RunLifecycle, PiGpio

VARIABLE part      \* the component at work

RunAndPiInit ==
    /\ part \in {"run", "pi"}
    /\ Init
    /\ PiInit /\ (part = "run" => ~behind)

RunAndPiNext ==
    /\ part' = part
    /\ \/ part = "run" /\ Next /\ UNCHANGED piVars
       \/ part = "pi" /\ PiNext /\ UNCHANGED vars

\* The fairness of FairSpec and of FairPiSpec.
FairRunAndPi ==
    /\ RunAndPiInit /\ [][RunAndPiNext]_<<part, vars, piVars>>
    /\ WF_vars(part = "run" /\ TickNext)
    /\ \A s \in Starts : WF_vars(part = "run" /\ StartNext(s))
    /\ WF_piVars(part = "pi" /\ Tick)
    /\ WF_piVars(part = "pi" /\ Read)
    /\ WF_piVars(part = "pi" /\ Shooting)
    /\ WF_piVars(part = "pi" /\ Scheduling)
    /\ WF_piVars(part = "pi" /\ (WatchdogReleases \/ WatchdogFails))
=============================================================================
