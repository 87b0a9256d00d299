------------------------------ MODULE StaticSim ------------------------------
(* One profile of the static simulation, _run_simulation_sync of the web      *)
(* server: the controller and the vehicle model advance for a fixed number of *)
(* steps, the completion mode says what happens when the last waypoint is     *)
(* reached, and every Decimation-th step is logged.  The dynamics are a       *)
(* choice: in a step the vehicle is inside the circles of some next waypoints,*)
(* which the path follower takes one after the other.                         *)
EXTENDS Naturals, Sequences, SequencesExt, FiniteSetsExt

CONSTANTS
  Waypoints,    \* number of waypoints of the request
  Steps,        \* N_steps = int(total_time / time_step)
  Decimation    \* LOG_DECIMATION = max(1, int(0.1 / time_step))

ASSUME StaticSimAssumption ==
  Waypoints \in Nat \ {0, 1} /\ Steps \in Nat /\ Decimation \in Nat \ {0}

CompletionModes == {"stop_time", "one_way", "loop", "loop_reverse"}
StartModes == {"first_wp", "last_wp", "current_pos"}
Never == Steps    \* mission_complete_time = None

VARIABLES
  completion, start,  \* completion_mode and start_mode of the profile
  route,              \* current_wp_ned: waypoint numbers in sailing order
  leg,                \* wp_index of the path follower
  done,               \* is_mission_complete()
  i,                  \* steps finished
  finished,           \* the loop was left
  completeTime,       \* step of the first completion, or Never
  samples,            \* the logged rows: step and waypoint index
  laps                \* restarts of the route

staticVars == <<completion, start, route, leg, done, i, finished, completeTime,
                samples, laps>>

Forward == [k \in 1 .. Waypoints |-> k]

StaticInit ==
  /\ completion \in CompletionModes /\ start \in StartModes
  /\ route = (IF start = "last_wp" THEN Reverse(Forward) ELSE Forward)
  /\ leg = 1 /\ done = FALSE
  /\ i = 0 /\ finished = FALSE /\ completeTime = Never
  /\ samples = <<>> /\ laps = 0

\* controller.step: leg + 1 is the waypoint steered to; hits of them in a row
\* are reached in one step, and the last one ends the route.
Reached(hits) == done \/ leg + hits >= Waypoints
Leg(hits) == IF done THEN leg ELSE Min({leg + hits, Waypoints - 1})

\* set_waypoints and reset on completion, in the modes that go on.
Restarts(hits) == Reached(hits) /\ completion \in {"loop", "loop_reverse"}

Restart(hits) ==
  IF Restarts(hits)
  THEN /\ route' = (IF completion = "loop_reverse" THEN Reverse(route) ELSE route)
       /\ leg' = 1 /\ done' = FALSE /\ laps' = laps + 1
  ELSE /\ leg' = Leg(hits) /\ done' = Reached(hits)
       /\ UNCHANGED <<route, laps>>

\* The row of a step shows the waypoint index before a restart (debug).
Row(hits) == [step |-> i, leg |-> Leg(hits), at |-> IF Reached(hits) THEN "end" ELSE "way"]
StopsEarly(hits) == completion = "one_way" /\ Reached(hits)

Logged(hits) == i % Decimation = 0 \/ StopsEarly(hits)

Step(hits) ==
  /\ ~finished /\ i < Steps
  /\ Restart(hits)
  /\ completeTime' = (IF Reached(hits) /\ completeTime = Never THEN i ELSE completeTime)
  /\ samples' = (IF Logged(hits) THEN Append(samples, Row(hits)) ELSE samples)
  /\ i' = i + 1 /\ finished' = (StopsEarly(hits) \/ i + 1 = Steps)
  /\ UNCHANGED <<completion, start>>

StaticNext == \E hits \in 0 .. Waypoints - 1 : Step(hits)
StaticFairness == WF_staticVars(StaticNext)
StaticSpec == StaticInit /\ [][StaticNext]_staticVars /\ StaticFairness

----------------------------------------------------------------------------
\* Types: a profile that goes round is never left in the completed state.
StaticTypeOK ==
  /\ completion \in CompletionModes /\ start \in StartModes
  /\ route \in {Forward, Reverse(Forward)}
  /\ leg \in 1 .. Waypoints - 1 /\ done \in BOOLEAN /\ finished \in BOOLEAN
  /\ i \in 0 .. Steps /\ completeTime \in 0 .. Steps /\ laps \in 0 .. Steps
  /\ (completion \in {"loop", "loop_reverse"} => ~done)

\* loop_reverse sails there and back, lap after lap, and every other mode
\* keeps the direction it started in.
LapsAlternate ==
  LET first == IF start = "last_wp" THEN Reverse(Forward) ELSE Forward
  IN route = IF completion = "loop_reverse" /\ laps % 2 = 1 THEN Reverse(first) ELSE first

\* The reported completion is the first arrival at the end of the route, in
\* every mode, and the rows before it are all of the way.
CompletionIsFirst ==
  /\ completeTime # Never <=> (done \/ laps > 0)
  /\ \A k \in DOMAIN samples :
       (samples[k].step < completeTime => samples[k].at = "way")
       /\ (samples[k].step = completeTime => samples[k].at = "end")

\* The rows are in steady steps of time, none of them twice; only the arrival
\* of a one-way run is added to them, and it is always there.
RowsAreSteady ==
  /\ \A k \in DOMAIN samples :
       samples[k].step = (k - 1) * Decimation
       \/ (k = Len(samples) /\ finished /\ completion = "one_way"
           /\ samples[k].step = completeTime)
  /\ (finished /\ completion = "one_way" /\ done) => Last(samples).step = completeTime
=============================================================================
