-------------------------- MODULE MCVehicleControl --------------------------
(* Instances of VehicleControl for TLC: the commands of each run.             *)
EXTENDS VehicleControl

Plain(types) == [type : types, arg : {"none"}]

(* Arming, manual driving and the real-time simulation, the legacy AUTO       *)
(* mission and the commands a handler refuses or ignores.                     *)
SimCommands ==
    Plain({"ARM", "DISARM", "MANUAL_INPUT", "STOP_RT_SIM", "STOP_STATION",
           "CLEAR_WP_ROUTE"})
        \union [type : {"START_RT_SIM", "UPLOAD_MISSION"}, arg : {"ok", "bad"}]
        \union [type : {"SET_MODE"}, arg : {"AUTO"}]
        \union [type : {"START_WP_ROUTE", "START_STATION"}, arg : {"bad"}]

(* Arming, modes, missions and the simulation that disarms.                   *)
AutoCommands ==
    Plain({"ARM", "DISARM", "STOP_WP_ROUTE"})
        \union [type : {"SET_MODE"}, arg : {"WP_ROUTE"}]
        \union [type : {"START_WP_ROUTE", "START_STATION", "START_RT_SIM"},
                arg : {"ok"}]
=============================================================================
