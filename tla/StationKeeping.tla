---------------------------- MODULE StationKeeping ----------------------------
(* StationKeeper of gnc/autopilot.py as gnc/process.py runs it: inside the    *)
(* reaching radius the boat idles, beyond the station radius it comes back.   *)
(* The waters are a line; forces are multiples of 1 / SlowDown.               *)
EXTENDS Integers, FiniteSetsExt

CONSTANTS
    Reach,          \* the waters are -Reach..Reach
    Stations,       \* the points an operator may send
    Radii,          \* the [reaching, station] radii an operator may send
    Thrust,         \* surge force of the cruise speed
    SlowDown,       \* length of the deceleration ramp before the station
    MaxPushes,      \* steps of wind and current (bounds TLC)
    MaxStarts       \* START_STATION commands (bounds TLC)

Waters == -Reach..Reach

ASSUME StationAssumption ==
    /\ {Reach, Thrust, MaxPushes, MaxStarts} \subseteq Nat
    /\ SlowDown \in Nat \ {0}
    /\ Stations \subseteq Waters
    /\ Radii \subseteq [reaching : Nat, station : Nat]

VARIABLES
    place,      \* where the boat is
    keeper,     \* station_keeper: [on, state, at, radii, from]
    thrust,     \* the last force published
    turnedAt,   \* where the boat was when the keeper last changed its state
    pushes, starts

stationVars == <<place, keeper, thrust, turnedAt, pushes, starts>>

APPROACHING == "APPROACHING"
IDLE == "IDLE"

Away(a, b) == IF a < b THEN b - a ELSE a - b

NoKeeper == [on |-> FALSE, state |-> APPROACHING, at |-> 0,
             radii |-> [reaching |-> 0, station |-> 0], from |-> 0]

StationInit ==
    /\ place \in Waters
    /\ keeper = NoKeeper
    /\ thrust = 0 /\ turnedAt = 0 /\ pushes = 0 /\ starts = 0

(* START_STATION, and the failsafe's own: a new keeper with an approach from  *)
(* where the boat is, whatever an earlier one was doing.                      *)
StartStation(at, radii) ==
    /\ starts < MaxStarts /\ starts' = starts + 1
    /\ keeper' = [on |-> TRUE, state |-> APPROACHING, at |-> at, radii |-> radii,
                  from |-> place]
    /\ turnedAt' = place
    /\ UNCHANGED <<place, thrust, pushes>>

(* STOP_STATION, DISARM or another mode: _stop_station.                       *)
StopStation ==
    /\ keeper.on
    /\ keeper' = NoKeeper
    /\ thrust' = 0 /\ turnedAt' = 0
    /\ UNCHANGED <<place, pushes, starts>>

(* The controller on the two waypoints of _load_approach, the station with    *)
(* crossing speed 0: inside the reaching radius the path is complete and the  *)
(* heading is whatever it is, but the force is that of the ramp all the same. *)
RampForce(dist) == Min({Thrust * SlowDown, dist * Thrust})

WaysBack(k, dist) ==
    IF dist < k.radii.reaching THEN {-1, 0, 1}
    ELSE {IF k.at > place THEN 1 ELSE IF k.at < place THEN -1 ELSE 0}

Approach(k, dist) ==
    /\ thrust' = RampForce(dist)
    /\ place' \in IF RampForce(dist) = 0 THEN {place}
                  ELSE {place + w : w \in WaysBack(k, dist)} \cap Waters

(* StationKeeper.step and the boat's way on what it commands.                 *)
Distance == Away(place, keeper.at)

Rest ==
    /\ thrust' = 0
    /\ UNCHANGED place

ReachStation ==
    /\ keeper.state = APPROACHING /\ Distance < keeper.radii.reaching
    /\ keeper' = [keeper EXCEPT !.state = IDLE]
    /\ turnedAt' = place
    /\ Rest

KeepApproaching ==
    /\ keeper.state = APPROACHING /\ Distance >= keeper.radii.reaching
    /\ Approach(keeper, Distance)
    /\ UNCHANGED <<keeper, turnedAt>>

(* Mutant: one radius for both borders.                                       *)
ReEngageEarly ==
    /\ keeper.state = IDLE /\ Distance >= keeper.radii.reaching
    /\ keeper' = [keeper EXCEPT !.state = APPROACHING, !.from = place]
    /\ turnedAt' = place
    /\ Approach(keeper, Distance)

ReEngage ==
    /\ keeper.state = IDLE /\ Distance > keeper.radii.station
    /\ keeper' = [keeper EXCEPT !.state = APPROACHING, !.from = place]
    /\ turnedAt' = place
    /\ Approach(keeper, Distance)

KeepIdle ==
    /\ keeper.state = IDLE /\ Distance <= keeper.radii.station
    /\ Rest
    /\ UNCHANGED <<keeper, turnedAt>>

StationTick ==
    /\ keeper.on
    /\ ReachStation \/ KeepApproaching \/ ReEngage \/ KeepIdle
    /\ UNCHANGED <<pushes, starts>>

Push ==
    /\ pushes < MaxPushes /\ pushes' = pushes + 1
    /\ place' \in {place - 1, place + 1} \cap Waters
    /\ UNCHANGED <<keeper, thrust, turnedAt, starts>>

StationNext ==
    \/ \E at \in Stations, radii \in Radii : StartStation(at, radii)
    \/ StopStation \/ StationTick \/ Push

StationFairness == WF_stationVars(StationTick)

StationSpec == StationInit /\ [][StationNext]_stationVars /\ StationFairness

-----------------------------------------------------------------------------
(* The type invariant of the station and its keeper.                          *)
StationTypeOK ==
    /\ place \in Waters /\ turnedAt \in Waters
    /\ keeper \in [on : BOOLEAN, state : {APPROACHING, IDLE}, at : Waters,
                   radii : Radii \union {NoKeeper.radii}, from : Waters]
    /\ thrust \in 0..(Thrust * SlowDown)
    /\ pushes \in 0..MaxPushes /\ starts \in 0..MaxStarts

(* The two radii are a hysteresis: an idle boat is called back only when it   *)
(* has drifted across the whole ring between them since it became idle, so    *)
(* the motors never pulse at a border (there is no ring when the station      *)
(* radius is the smaller one).                                                *)
CrossesTheRing ==
    [][keeper.on /\ keeper'.on /\ starts' = starts
        /\ keeper.state = IDLE /\ keeper'.state = APPROACHING
        => Distance - Away(turnedAt, keeper.at)
                > keeper.radii.station - keeper.radii.reaching]_stationVars

(* Inside the reaching radius the boat idles: a turn of the loop that finds it*)
(* there commands thrust only to an idle boat that is beyond a station radius *)
(* smaller than the reaching radius (nothing compares the two an operator     *)
(* sends), and that turn calls the boat back, so that the next one idles.     *)
BackFromInside ==
    /\ keeper.radii.station < Distance /\ Distance < keeper.radii.reaching
    /\ keeper.state = IDLE /\ keeper'.state = APPROACHING

InsideRests ==
    [][StationTick /\ Distance < keeper.radii.reaching
        => thrust' = 0 \/ BackFromInside]_stationVars

(* A station that is kept is reached: the approach never leaves the boat      *)
(* without thrust, nor leads it elsewhere.                                    *)
StationReached == keeper.on /\ keeper.state = APPROACHING
                    ~> ~keeper.on \/ keeper.state = IDLE
=============================================================================
