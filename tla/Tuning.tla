-------------------------------- MODULE Tuning --------------------------------
(* Where the GNC's tuning lives (gnc/process.py): gnc_config, and the copies  *)
(* of it inside the controllers that are running.  Two of its fields stand    *)
(* for all: "cruise", which _apply_gnc_config hands to running controllers    *)
(* and which a route or a station may override, and "threshold" (the PID's    *)
(* e_x_threshold_deg), which only the constructor of a controller takes.      *)
EXTENDS Naturals

CONSTANTS
    Cruises,        \* cruise speeds that are sent
    CruiseLimit,    \* the largest a GncConfig accepts
    Thresholds,     \* thresholds that are sent
    DefaultCruise, DefaultThreshold

ASSUME TuningAssumption ==
    /\ Cruises \subseteq Nat /\ Thresholds \subseteq Nat
    /\ DefaultCruise \in Cruises /\ DefaultThreshold \in Thresholds
    /\ CruiseLimit \in Nat /\ DefaultCruise \in 1..CruiseLimit

VARIABLES
    config,     \* gnc_config
    main,       \* what self.controller runs with
    keeping,    \* a station stationCtl exists
    stationCtl      \* what its controller runs with

tuningVars == <<config, main, keeping, stationCtl>>

Defaults == [cruise |-> DefaultCruise, threshold |-> DefaultThreshold]

TuningInit ==
    /\ config = Defaults /\ main = Defaults
    /\ keeping = FALSE /\ stationCtl = Defaults

(* GncConfig(...): 0 < cruise_speed_kn <= 4.                                  *)
Valid(c) == c.cruise \in 1..CruiseLimit

(* _apply_gnc_config: everything but the threshold reaches the controllers.   *)
Retuned(controller, c) == [controller EXCEPT !.cruise = c.cruise]

(* Mutant: the station's controller is forgotten.                             *)
ApplyMain(c) ==
    /\ config' = c
    /\ main' = Retuned(main, c)
    /\ UNCHANGED stationCtl

Apply(c) ==
    /\ config' = c
    /\ main' = Retuned(main, c)
    /\ stationCtl' = IF keeping THEN Retuned(stationCtl, c) ELSE stationCtl

(* SET_GNC_CONFIG: the fields sent are merged into gnc_config and the whole   *)
(* is validated; an invalid one changes nothing.                              *)
Merge(merged) ==
    /\ IF Valid(merged) THEN Apply(merged) ELSE UNCHANGED <<config, main, stationCtl>>
    /\ UNCHANGED keeping

SetGncConfig ==
    \/ \E c \in Cruises : Merge([config EXCEPT !.cruise = c])
    \/ \E t \in Thresholds : Merge([config EXCEPT !.threshold = t])

(* gnc_config in the Manager's heartbeat: applied when it differs.            *)
HeartbeatConfig(c) ==
    /\ c # config
    /\ IF Valid(c) THEN Apply(c) ELSE UNCHANGED <<config, main, stationCtl>>
    /\ UNCHANGED keeping

(* START_WP_ROUTE with a cruise speed of its own: assigned, not validated; a  *)
(* new controller takes the configuration whole.                              *)
StartRouteAt(c) ==
    LET new == [config EXCEPT !.cruise = c]
    IN  /\ config' = new /\ main' = new
        /\ stationCtl' = IF keeping THEN Retuned(stationCtl, new) ELSE stationCtl
        /\ UNCHANGED keeping

(* START_STATION: the override reaches the running controllers, and the new   *)
(* station controller, which is not given the threshold.                      *)
StartStationAt(c) ==
    LET new == [config EXCEPT !.cruise = c]
    IN  /\ config' = new /\ main' = Retuned(main, new)
        /\ keeping' = TRUE
        /\ stationCtl' = [Defaults EXCEPT !.cruise = c]

EndStation ==
    /\ keeping /\ keeping' = FALSE
    /\ stationCtl' = Defaults
    /\ UNCHANGED <<config, main>>

TuningNext ==
    \/ SetGncConfig
    \/ \E c \in Cruises, t \in Thresholds : HeartbeatConfig([cruise |-> c, threshold |-> t])
    \/ \E c \in Cruises : StartRouteAt(c) \/ StartStationAt(c)
    \/ EndStation

TuningSpec == TuningInit /\ [][TuningNext]_tuningVars

-----------------------------------------------------------------------------
(* The type invariant: every copy is a configuration that was given.          *)
TuningTypeOK ==
    /\ {config, main, stationCtl} \subseteq [cruise : Cruises, threshold : Thresholds]
    /\ keeping \in BOOLEAN

(* Whoever set it last (the operator, the heartbeat, a route, a station), the *)
(* running controllers and gnc_config agree on the cruise speed.              *)
OneCruise == main.cruise = config.cruise /\ (keeping => stationCtl.cruise = config.cruise)
=============================================================================
