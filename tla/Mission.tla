------------------------------- MODULE Mission -------------------------------
(* The GNC's plans (gnc/process.py) and the controller that follows them      *)
(* (gnc/autopilot.py, GNCController): a WP route, with its three completion   *)
(* modes and its navigation metrics, and the legacy mission of AUTO mode.     *)
(* Both load their waypoints into the ONE self.controller, each in a frame of *)
(* its own whose origin is its first waypoint.                                *)
(*                                                                            *)
(* The waters are a line; a waypoint is [at, force], its place and the surge  *)
(* force its crossing speed asks for.  Forces are multiples of 1 / Ramp.      *)
EXTENDS Integers, Sequences, SequencesExt, FiniteSetsExt

CONSTANTS
    Shore,          \* the waters are 0..Shore
    Plans,          \* the waypoint lists an operator may send
    Completions,    \* completion modes, among CompletionModes
    Radius,         \* acceptance radius
    Cruise,         \* surge force of the cruise speed
    Ramp,           \* length of an acceleration or deceleration ramp
    MaxDrifts,      \* steps of the current (bounds TLC)
    MaxOrders       \* plans sent (bounds TLC)

CompletionModes == {"stop", "loop", "loop_reverse"}
Waypoints == [at : 0..Shore, force : 0..Cruise]

ASSUME MissionAssumption ==
    /\ {Shore, Cruise, Radius, MaxDrifts, MaxOrders} \subseteq Nat
    /\ Ramp \in Nat \ {0}
    /\ Plans \subseteq Seq(Waypoints) /\ <<>> \notin Plans
    /\ Completions \subseteq CompletionModes

VARIABLES
    boat,       \* where the boat is (lat, lon)
    armed,      \* can_execute: armed, or simulating
    mode,       \* the GNC's mode
    route,      \* wp_route_*: [active, wps, origin, completion, forward]
    mission,    \* [loaded, wps, origin]
    ctl,        \* PathFollower: [path, idx, done], path in its plan's frame
    owner,      \* whose waypoints ctl.path holds
    cumDist,    \* _route_active_cum_dist
    command,    \* the last motor command published: its force
    passed,     \* waypoints whose circle held the boat at a tick of this pass
    drifts, orders

plans == <<route, mission, ctl, owner, cumDist>>
missionVars == <<boat, armed, mode, plans, command, passed, drifts,
                 orders>>

Modes == {"MANUAL", "AUTO", "WP_ROUTE"}
Dist(a, b) == IF a < b THEN b - a ELSE a - b

NoRoute == [active |-> FALSE, wps |-> <<>>, origin |-> 0, completion |-> "stop",
            forward |-> TRUE]
NoMission == [loaded |-> FALSE, wps |-> <<>>, origin |-> 0]

MissionInit ==
    /\ boat \in 0..Shore
    /\ armed = FALSE /\ mode = "MANUAL"
    /\ route = NoRoute /\ mission = NoMission
    /\ ctl = [path |-> <<>>, idx |-> 1, done |-> FALSE] /\ owner = "none"
    /\ cumDist = <<>> /\ command = 0 /\ passed = {}
    /\ drifts = 0 /\ orders = 0

-----------------------------------------------------------------------------
(* GNCController: set_waypoints, update, get_tau_x.                           *)

(* latlon_to_ned of a plan, relative to an origin.                            *)
InFrame(wps, origin) == [i \in DOMAIN wps |-> [wps[i] EXCEPT !.at = @ - origin]]

Loaded(path) == [path |-> path, idx |-> 1, done |-> FALSE]

(* Mutant: the index of the waypoints starts at 0.                            *)
RewoundToZero(c) == [c EXCEPT !.idx = 0, !.done = FALSE]

(* controller.reset(): the path stays, its progress restarts.                 *)
Rewound(c) == [c EXCEPT !.idx = 1, !.done = FALSE]

Within(c, i, pos) == Dist(pos, c.path[i].at) < Radius

(* PathFollower.update: every waypoint whose circle holds the boat is         *)
(* switched past in the same call; the last one completes the plan.           *)
Updated(c, pos) ==
    IF c.done \/ Len(c.path) < 2 THEN c
    ELSE LET last == Len(c.path) - 1
             next == Min({i \in c.idx..last : i = last \/ ~Within(c, i + 1, pos)})
         IN  [c EXCEPT !.idx = next, !.done = next = last /\ Within(c, last + 1, pos)]


(* VelocityProfiler.get_tau_x, scaled by Ramp: the least of the cruise force, *)
(* the deceleration towards the next waypoint and the acceleration away from  *)
(* the circle of the current one.                                             *)
Blend(part, from, to) == part * to + (Ramp - part) * from

Ceiling(wp, dist) ==
    IF wp.force < Cruise /\ dist <= Ramp THEN Blend(dist, wp.force, Cruise)
    ELSE Cruise * Ramp

SurgeForce(c, pos) ==
    IF Len(c.path) < 2 THEN Cruise * Ramp
    ELSE LET from == c.path[c.idx]
             to == c.path[c.idx + 1]
         IN  Min({Ceiling(to, Dist(pos, to.at)),
                  Ceiling(from, Max({0, Dist(pos, from.at) - Radius}))})

(* The way the boat sails until the next tick: towards the next waypoint;     *)
(* once the plan is complete it keeps the heading it happens to have.         *)
Ways(c, pos) ==
    LET to == c.path[c.idx + 1].at
    IN  IF c.done \/ Len(c.path) < 2 THEN -1..1
        ELSE {IF to > pos THEN 1 ELSE IF to < pos THEN -1 ELSE 0}

-----------------------------------------------------------------------------
(* The commands of the operator and of the Manager; those that load a plan    *)
(* are counted.                                                               *)
Order == orders < MaxOrders /\ orders' = orders + 1

(* _compute_cum_dist                                                          *)
CumDist(wps) ==
    LET cum[i \in DOMAIN wps] ==
            IF i = 1 THEN 0 ELSE cum[i - 1] + Dist(wps[i - 1].at, wps[i].at)
    IN  cum

(* The path of a route: a leg from the boat to its first waypoint, then the   *)
(* waypoints; loading it restarts the follower.                               *)
LoadRoute(wps, origin) ==
    LET leg == [at |-> boat, force |-> wps[1].force]
    IN  /\ ctl' = Loaded(InFrame(<<leg>> \o wps, origin))
        /\ owner' = "route"
        /\ passed' = {}

(* START_WP_ROUTE                                                             *)
StartRoute(wps, completion, forward) ==
    LET way == IF forward THEN wps ELSE Reverse(wps)
    IN  /\ Order /\ armed
        /\ route' = [active |-> TRUE, wps |-> way, origin |-> way[1].at,
                     completion |-> completion, forward |-> forward]
        /\ LoadRoute(way, way[1].at)
        /\ cumDist' = CumDist(way)
        /\ UNCHANGED <<boat, armed, mode, mission, command, drifts>>

(* _stop_wp_route: nothing unless a route runs.                               *)
StopRoute ==
    /\ route' = [route EXCEPT !.active = FALSE]
    /\ command' = IF route.active THEN 0 ELSE command

StopWpRoute ==
    /\ StopRoute
    /\ UNCHANGED <<boat, armed, mode, mission, ctl, owner, cumDist, passed, drifts, orders>>

(* UPLOAD_MISSION: _load_mission puts the waypoints into the controller,      *)
(* whatever it is following; an empty list only clears mission_loaded.        *)
UploadMission(wps) ==
    /\ Order
    /\ mission' = [loaded |-> TRUE, wps |-> wps, origin |-> wps[1].at]
    /\ ctl' = Loaded(InFrame(wps, wps[1].at))
    /\ owner' = "mission" /\ passed' = {}
    /\ UNCHANGED <<boat, armed, mode, route, cumDist, command, drifts>>

ClearMission ==
    /\ mission' = [mission EXCEPT !.loaded = FALSE, !.wps = <<>>]
    /\ UNCHANGED <<boat, armed, mode, route, ctl, owner, cumDist, command,
                   passed, drifts, orders>>

Arm ==
    /\ ~armed
    /\ armed' = TRUE
    /\ UNCHANGED <<boat, mode, plans, command, passed, drifts, orders>>

Disarm ==
    /\ armed' = FALSE
    /\ ctl' = Rewound(ctl) /\ passed' = {}
    /\ StopRoute
    /\ UNCHANGED <<boat, mode, mission, owner, cumDist, drifts, orders>>

(* A new mode that is not the route's ends the route.                         *)
LeaveRouteFor(m) ==
    IF m # "WP_ROUTE" THEN StopRoute ELSE UNCHANGED <<route, command>>

(* SET_MODE: AUTO rewinds the controller, but does not load the mission again.*)
SetMode(m) ==
    /\ mode' = m
    /\ LeaveRouteFor(m)
    /\ IF m = "AUTO" /\ mission.loaded
       THEN ctl' = Rewound(ctl) /\ passed' = {}
       ELSE UNCHANGED <<ctl, passed>>
    /\ UNCHANGED <<boat, armed, mission, owner, cumDist, drifts, orders>>

(* The mode in the Manager's heartbeat (_consume_status): only a change acts, *)
(* and AUTO rewinds nothing.                                                  *)
HeartbeatMode(m) ==
    /\ m # mode
    /\ mode' = m
    /\ LeaveRouteFor(m)
    /\ UNCHANGED <<boat, armed, mission, ctl, owner, cumDist, passed,
                   drifts, orders>>

-----------------------------------------------------------------------------
(* One turn of loop() that reaches the controller, and the boat's way on it.  *)
Step(origin) ==
    LET pos == boat - origin
        c == Updated(ctl, pos)
        force == SurgeForce(c, pos)
    IN  /\ command' = force
        /\ boat' \in IF force = 0 THEN {boat} ELSE {boat + w : w \in Ways(c, pos)} \cap 0..Shore
        /\ passed' = IF ctl.done THEN passed
                     ELSE passed \union {i \in 2..Len(c.path) : Within(c, i, pos)}

(* What is published of the way left: the next leg and, by the tables of the  *)
(* route, what lies beyond it; a route of no length has none.                 *)
NextLeg(c, pos) == IF Len(c.path) < 2 THEN 0 ELSE Dist(pos, c.path[c.idx + 1].at)

RemainingOf(c, pos) ==
    LET total == cumDist[Len(cumDist)]
    IN  IF total > 0 /\ c.idx <= Len(cumDist)
        THEN NextLeg(c, pos) + Max({0, total - cumDist[c.idx]})
        ELSE -1

(* _handle_wp_route_completion: stop, once more, or the other way round.      *)
Repeat ==
    /\ LoadRoute(route.wps, route.origin)
    /\ UNCHANGED <<route, cumDist>>

(* Mutant: the waypoints kept are those of the way out.                       *)
TurnRoundFlagOnly ==
    LET back == Reverse(route.wps)
    IN  /\ route' = [route EXCEPT !.forward = ~@]
        /\ LoadRoute(back, route.origin)
        /\ cumDist' = CumDist(back)

TurnRound ==
    LET back == Reverse(route.wps)
    IN  /\ route' = [route EXCEPT !.wps = back, !.forward = ~@]
        /\ LoadRoute(back, route.origin)
        /\ cumDist' = CumDist(back)

RouteTick ==
    /\ route.active /\ armed
    /\ UNCHANGED <<armed, mode, mission, drifts, orders>>
    /\ LET pos == boat - route.origin
           c == Updated(ctl, pos)
       IN  \/ /\ ~c.done
              /\ Step(route.origin)
              /\ ctl' = c
              /\ UNCHANGED <<route, owner, cumDist>>
           \/ /\ c.done /\ route.completion = "stop"
              /\ StopRoute
              /\ ctl' = c
              /\ passed' = passed \union {i \in 2..Len(c.path) : Within(c, i, pos)}
              /\ UNCHANGED <<owner, cumDist, boat>>
           \/ /\ c.done /\ route.completion # "stop"
              /\ command' = SurgeForce(c, pos)
              /\ IF route.completion = "loop" THEN Repeat ELSE TurnRound
              /\ UNCHANGED boat

(* AUTO mode: a complete mission is only logged.                              *)
MissionTick ==
    LET pos == boat - mission.origin
        c == Updated(ctl, pos)
    IN  /\ ~route.active /\ mode = "AUTO" /\ armed /\ mission.loaded
        /\ ctl' = c
        /\ Step(mission.origin)
        /\ UNCHANGED <<armed, mode, route, mission, owner, cumDist, drifts, orders>>

(* Wind and current move the boat.                                            *)
Drift ==
    /\ drifts < MaxDrifts /\ drifts' = drifts + 1
    /\ boat' \in {boat - 1, boat + 1} \cap 0..Shore
    /\ UNCHANGED <<armed, mode, plans, command, passed, orders>>

MissionNext ==
    \/ \E wps \in Plans, completion \in Completions, forward \in BOOLEAN :
            StartRoute(wps, completion, forward)
    \/ StopWpRoute
    \/ \E wps \in Plans : UploadMission(wps)
    \/ ClearMission \/ Arm \/ Disarm
    \/ \E m \in Modes : SetMode(m) \/ HeartbeatMode(m)
    \/ RouteTick \/ MissionTick
    \/ Drift

MissionFairness == WF_missionVars(RouteTick)

MissionSpec == MissionInit /\ [][MissionNext]_missionVars /\ MissionFairness

-----------------------------------------------------------------------------
(* The type invariant: the follower stays on its path, the force in its range.*)
MissionTypeOK ==
    /\ boat \in 0..Shore
    /\ armed \in BOOLEAN /\ mode \in Modes
    /\ route.active \in BOOLEAN /\ route.completion \in CompletionModes
    /\ owner \in {"none", "route", "mission"}
    /\ ctl.path # <<>> => ctl.idx \in 1..Max({1, Len(ctl.path) - 1})
    /\ command \in 0..(Cruise * Ramp)

Places(wps) == {wps[i].at : i \in DOMAIN wps}
Aim(origin) == origin + ctl.path[ctl.idx + 1].at

(* Each plan has a frame of its own and they share the controller: loop()     *)
(* steers by the frame of the plan it executes, towards waypoints of the plan *)
(* loaded last.  When that is one plan the boat is steered to a place of it.  *)
(* They are two after UPLOAD_MISSION during a route, and in AUTO after a      *)
(* route: then it is steered beside the places of the plan loaded last, by the*)
(* distance between the origins of the two.                                   *)
Steers == route.active \/ (mode = "AUTO" /\ mission.loaded)
Executes == IF route.active THEN "route" ELSE "mission"
Executed == IF Executes = "route" THEN route ELSE mission
Held == IF owner = "route" THEN route ELSE mission

SteersToItsPlan ==
    /\ Steers /\ owner # "none"
    /\ owner = "mission" => mission.loaded /\ Len(ctl.path) > 1
    => /\ owner = Executes => Aim(Executed.origin) \in Places(Executed.wps)
       /\ Aim(Executed.origin) - (Executed.origin - Held.origin) \in Places(Held.wps)

(* The remaining distance is computed from tables made when the route starts  *)
(* and when it turns round: it is the length of the path not yet sailed.      *)
RestOfPath(c, pos) ==
    LET rest[i \in DOMAIN c.path] ==
            IF i = Len(c.path) THEN 0
            ELSE Dist(c.path[i].at, c.path[i + 1].at) + rest[i + 1]
    IN  Dist(pos, c.path[c.idx + 1].at) + rest[c.idx + 1]

RemainingIsTrue ==
    route.active /\ owner = "route" =>
        LET pos == boat - route.origin
            c == Updated(ctl, pos)
        IN  RemainingOf(c, pos) \in {-1, RestOfPath(c, pos)}

(* A plan is complete only when the boat has been in the circle of every one  *)
(* of its waypoints since it was loaded or rewound.                           *)
NoWaypointSkipped == ctl.done => passed = 2..Len(ctl.path)

(* KP is measured along the route as it was sent: wp_route_forward tells      *)
(* which way round its waypoints are executed, however often it turned.       *)
TurnsRound ==
    [][route.active /\ route'.active /\ route.forward # route'.forward /\ orders' = orders
        => route'.wps = Reverse(route.wps)
           /\ route'.origin \in {route.wps[1].at, route.wps[Len(route.wps)].at}]_missionVars

(* A route that is to stop does end when it is left alone: no force profile   *)
(* between two waypoints leaves the boat without thrust short of the next.    *)
Ending == route.active /\ route.completion = "stop" /\ owner = "route"
RouteCompletes == Ending ~> ~Ending
=============================================================================
