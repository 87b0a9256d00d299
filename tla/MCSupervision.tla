---------------------------- MODULE MCSupervision ----------------------------
(* What watches over the vehicle, checked in one run: the failsafes of the    *)
(* GNC over the mission, and the watchdog over the processes.  A behaviour of *)
(* this module is a behaviour of the one in focus, the other stays in its     *)
(* initial state.                                                             *)
EXTENDS GncFailsafe, Watchdog, TLC

VARIABLE focus

(* The watchdog treats its services alike.                                    *)
Interchangeable == Permutations(Services)

SupervisionInit == focus \in {"failsafe", "watchdog"} /\ Init /\ WatchdogInit

SupervisionNext ==
    /\ UNCHANGED focus
    /\ \/ focus = "failsafe" /\ Next /\ UNCHANGED watchdogVars
       \/ focus = "watchdog" /\ WatchdogNext /\ UNCHANGED vars

SupervisionSpec ==
    SupervisionInit /\ [][SupervisionNext]_<<focus, vars, watchdogVars>>
=============================================================================
