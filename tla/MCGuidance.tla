----------------------------- MODULE MCGuidance -----------------------------
(* The parts of the GNC process below the command path, checked in one run.   *)
(* A behaviour of this module is a behaviour of the one component in focus,   *)
(* the others stay in their initial states.                                   *)
EXTENDS Mission, StationKeeping, Tuning, HeadingControl, LineOfSight

VARIABLE focus

MCPlans == {<<[at |-> 0, force |-> 1], [at |-> 3, force |-> 2], [at |-> 2, force |-> 1]>>}
MCStations == {-1, 2}
MCRadii == {[reaching |-> 1, station |-> 2], [reaching |-> 3, station |-> 1]}
MCErrors == {-9, -1, 2, 9}

Only(f) == focus = f /\ UNCHANGED focus
Init ==
    /\ focus \in {"mission", "station", "tuning", "heading", "sight"}
    /\ MissionInit /\ StationInit /\ TuningInit /\ HeadingInit /\ SightInit
    \* fewer initial states: the boat starts at a waypoint, components at rest in one
    /\ boat = 2
    /\ focus # "station" => place = 0

OfMission == Only("mission") /\ MissionNext
    /\ UNCHANGED <<stationVars, tuningVars, headingVars, sightVars>>
OfStation == Only("station") /\ StationNext
    /\ UNCHANGED <<missionVars, tuningVars, headingVars, sightVars>>
OfTuning == Only("tuning") /\ TuningNext
    /\ UNCHANGED <<missionVars, stationVars, headingVars, sightVars>>
OfHeading == Only("heading") /\ HeadingNext
    /\ UNCHANGED <<missionVars, stationVars, tuningVars, sightVars>>
OfSight == Only("sight") /\ SightNext
    /\ UNCHANGED <<missionVars, stationVars, tuningVars, headingVars>>
Next == OfMission \/ OfStation \/ OfTuning \/ OfHeading \/ OfSight
vars == <<focus, missionVars, stationVars, tuningVars, headingVars, sightVars>>

(* The fairness of each component, for the one in focus.                      *)
Fairness ==
    /\ WF_missionVars(focus = "mission" /\ RouteTick)
    /\ WF_stationVars(focus = "station" /\ StationTick)
    /\ WF_headingVars(focus = "heading" /\ \E e \in Errors : Compute(e))

Spec == Init /\ [][Next]_vars /\ Fairness

(* The type invariants of the five components.                                *)
TypesHold == MissionTypeOK /\ StationTypeOK /\ TuningTypeOK /\ HeadingTypeOK /\ SightTypeOK

(* A plan is executed as it was sent: every waypoint of it, measured to its   *)
(* true end, turned round as a whole, and in its own frame unless the other   *)
(* plan was loaded into the controller meanwhile, when the places steered to  *)
(* are those of that plan moved by the distance of the two frames (Mission).  *)
PlanIsKept ==
    []SteersToItsPlan /\ []NoWaypointSkipped /\ []RemainingIsTrue /\ TurnsRound

(* What the vehicle is steered by does not jump or pulse: the station's       *)
(* hysteresis and the aim point of the line of sight.                         *)
MotionIsSteady == CrossesTheRing /\ InsideRests /\ []AimIsAhead /\ AimNeverReturns

(* The liveness of each component (Mission, StationKeeping, HeadingControl),  *)
(* in the behaviours in which it moves.                                       *)
(* A route that is to stop ends when it is left alone (RouteCompletes).       *)
RouteEnds == focus = "mission" => RouteCompletes
(* A station that is kept is reached (StationKeeper).                         *)
StationIsReached == focus = "station" => StationReached
(* The heading reference comes to rest on the heading asked for (refModel3).  *)
ReferenceComesToRest == focus = "heading" => ReferenceSettles
=============================================================================
