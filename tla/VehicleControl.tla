--------------------------- MODULE VehicleControl ---------------------------
(* The command path of the vehicle: the Manager and the GNC processes, the    *)
(* topics they exchange over the ZMQ broker, the mute switch of the HAL and   *)
(* the newest frame the motor node would forward to the ESP32.                *)
(*                                                                            *)
(* Both processes subscribe to command/user and each keeps its own copy of    *)
(* the arming, mode, simulation and mission flags.  The Manager's heartbeat   *)
(* (system/status) overwrites the GNC's arming and mode; the GNC's failsafes  *)
(* flow back on gnc/sync.  Each drain loop of a process is one action per     *)
(* message, in the order the loop drains its topics.                          *)
EXTENDS Naturals, Sequences

CONSTANTS
    Commands,     \* the operator commands of this instance, a subset of Command
    MaxCommands,  \* bound: operator commands issued in a behaviour
    MaxPending,   \* bound: operator commands in flight to one process
    StatusHWM,    \* high-water mark of system/status (10 in _TOPIC_HWM)
    MaxSync,      \* bound: operations on gnc/sync in flight to the Manager
    Crashable,    \* the processes that may crash in this instance
    MaxCrashes    \* bound: crashes in a behaviour

Process == {"manager", "gnc"}

(* VehicleMode; AUTO is a mode only the GNC knows. *)
VehicleMode == {"MANUAL", "STATION", "WP_ROUTE"}

(* CommandMessage: the type and what the handlers read of the payload.  A     *)
(* bad START has no waypoints, a null position or a rejected RTSimConfig; a   *)
(* bad UPLOAD_MISSION has an empty list of waypoints.                         *)
Command ==
    [type : {"ARM", "DISARM", "MANUAL_INPUT", "STOP_RT_SIM", "STOP_WP_ROUTE",
             "CLEAR_WP_ROUTE", "STOP_STATION"},
     arg  : {"none"}]
        \union [type : {"SET_MODE"}, arg : VehicleMode \union {"AUTO"}]
        \union [type : {"UPLOAD_MISSION", "START_WP_ROUTE", "START_STATION",
                        "START_RT_SIM"},
                arg  : {"ok", "bad"}]

SyncOp == {"emergency_stop", "failsafe_station", "failsafe_return_home"}

ASSUME ConstantsAssumption ==
    /\ Commands \subseteq Command
    /\ Crashable \subseteq Process
    /\ {MaxCommands, MaxPending, StatusHWM, MaxSync, MaxCrashes} \subseteq Nat

VARIABLES
    up,        \* the processes that are running
    mgr,       \* ManagerProcess: armed, mode, sim, route, station
    gnc,       \* GNCProcess: the same, pos (not at (0, 0)), mission (uploaded)
    mgrPhase,  \* the drain loop the Manager's tick is in
    gncPhase,  \* the drain loop the GNC's tick is in
    cmds,      \* command/user: what each process has not consumed yet
    statusQ,   \* system/status: heartbeats on their way to the GNC
    syncQ,     \* gnc/sync: operations on their way to the Manager
    muteQ,     \* command/user: MUTE and UNMUTE on their way to the HAL
    muted,     \* HALProcess.sensors_muted
    motor,     \* origin of the thrust in the newest hardware frame, or "zero"
    estopped,  \* history: an emergency stop no ARM has followed
    sent,      \* operator commands issued so far
    crashes    \* crashes so far

procVars == <<mgrPhase, gncPhase, up, crashes>>
chanVars == <<statusQ, syncQ, muteQ>>
vars == <<up, mgr, gnc, mgrPhase, gncPhase, cmds, statusQ, syncQ, muteQ,
          muted, motor, estopped, sent, crashes>>

ManagerState == [armed : BOOLEAN, mode : VehicleMode, sim : BOOLEAN,
                 route : BOOLEAN, station : BOOLEAN]
GncState == [armed : BOOLEAN, mode : VehicleMode \union {"AUTO"}, sim : BOOLEAN,
             route : BOOLEAN, station : BOOLEAN, pos : BOOLEAN, mission : BOOLEAN]
Heartbeat == [armed : BOOLEAN, mode : VehicleMode, sim : BOOLEAN]

ManagerReset == [armed |-> FALSE, mode |-> "MANUAL", sim |-> FALSE,
                 route |-> FALSE, station |-> FALSE]
GncReset == [armed |-> FALSE, mode |-> "MANUAL", sim |-> FALSE, route |-> FALSE,
             station |-> FALSE, pos |-> FALSE, mission |-> FALSE]

Init ==
    /\ up = Process
    /\ mgr = ManagerReset
    /\ gnc = GncReset
    /\ mgrPhase = "commands"
    /\ gncPhase = "commands"
    /\ cmds = [p \in Process |-> <<>>]
    /\ statusQ = <<>> /\ syncQ = <<>> /\ muteQ = <<>>
    /\ muted = FALSE
    /\ motor = "zero"
    /\ estopped = FALSE
    /\ sent = 0 /\ crashes = 0

-----------------------------------------------------------------------------
(* Publishing.  The broker forwards to running subscribers only.              *)

Deliver(queues, c) ==
    [p \in Process |-> IF p \in up THEN Append(queues[p], c) ELSE queues[p]]

(* A status topic at its high-water mark loses the heartbeat.                 *)
Heartbeats(queue, hb) ==
    IF "gnc" \in up /\ Len(queue) < StatusHWM THEN Append(queue, hb) ELSE queue

(* The frontend issues a command; the web server publishes it.                *)
OperatorSends ==
    /\ sent < MaxCommands
    /\ \A p \in Process : Len(cmds[p]) < MaxPending
    /\ sent' = sent + 1
    /\ \E c \in Commands : cmds' = Deliver(cmds, c)
    /\ UNCHANGED <<mgr, gnc, procVars, chanVars, muted, motor, estopped>>

-----------------------------------------------------------------------------
(* ManagerProcess: loop() drains commands, then gnc/sync, then publishes.     *)

(* handle_command takes the next command, which has type t.                   *)
MgrTakes(t) ==
    /\ "manager" \in up
    /\ mgrPhase = "commands"
    /\ cmds["manager"] # <<>>
    /\ Head(cmds["manager"]).type = t
    /\ cmds' = [cmds EXCEPT !["manager"] = Tail(@)]
    /\ UNCHANGED <<gnc, procVars, chanVars, muted, sent>>

MgrArg == Head(cmds["manager"]).arg

(* Mutant: ARM is accepted during a simulation.                               *)
MgrArmedUngated(m) == [m EXCEPT !.armed = TRUE]
MgrArmed(m) == [m EXCEPT !.armed = @ \/ ~m.sim]

MgrArm ==
    /\ MgrTakes("ARM")
    /\ mgr' = MgrArmed(mgr)
    /\ estopped' = (estopped /\ mgr.sim)
    /\ UNCHANGED motor

MgrDisarm ==
    /\ MgrTakes("DISARM")
    /\ mgr' = [mgr EXCEPT !.armed = FALSE]
    /\ UNCHANGED <<motor, estopped>>

MgrSwitched(m, mode) ==
    IF mode \notin VehicleMode THEN m
    ELSE [m EXCEPT !.mode = mode, !.station = @ /\ mode = "STATION",
                   !.route = @ /\ mode = "WP_ROUTE"]

MgrSetMode ==
    /\ MgrTakes("SET_MODE")
    /\ mgr' = MgrSwitched(mgr, MgrArg)
    /\ UNCHANGED <<motor, estopped>>

(* Drives the motors directly, for REAL mode only.                            *)
MgrManualInput ==
    /\ MgrTakes("MANUAL_INPUT")
    /\ motor' = IF mgr.armed /\ mgr.mode = "MANUAL" /\ ~mgr.sim
                THEN "manual" ELSE motor
    /\ UNCHANGED <<mgr, estopped>>

MgrStartRoute ==
    /\ MgrTakes("START_WP_ROUTE")
    /\ mgr' = [mgr EXCEPT !.route = TRUE]
    /\ UNCHANGED <<motor, estopped>>

MgrStopRoute ==
    /\ MgrTakes("STOP_WP_ROUTE") \/ MgrTakes("CLEAR_WP_ROUTE")
    /\ mgr' = [mgr EXCEPT !.route = FALSE]
    /\ UNCHANGED <<motor, estopped>>

MgrStartStation ==
    /\ MgrTakes("START_STATION")
    /\ mgr' = [mgr EXCEPT !.station = TRUE]
    /\ UNCHANGED <<motor, estopped>>

MgrStopStation ==
    /\ MgrTakes("STOP_STATION")
    /\ mgr' = [mgr EXCEPT !.station = FALSE]
    /\ UNCHANGED <<motor, estopped>>

(* Mutant: START_RT_SIM leaves the vehicle armed.                             *)
MgrSimulatingArmed(m) == [m EXCEPT !.sim = TRUE]
(* The Manager does not parse the RTSimConfig: a payload the GNC rejects      *)
(* switches it to SIMULATION all the same.                                    *)
MgrSimulating(m) == [m EXCEPT !.sim = TRUE, !.armed = FALSE]

MgrStartSim ==
    /\ MgrTakes("START_RT_SIM")
    /\ mgr' = MgrSimulating(mgr)
    /\ UNCHANGED <<motor, estopped>>

MgrStopSim ==
    /\ MgrTakes("STOP_RT_SIM")
    /\ mgr' = [mgr EXCEPT !.sim = FALSE]
    /\ UNCHANGED <<motor, estopped>>

(* Commands whose handler leaves these flags alone.                           *)
MgrIgnores ==
    /\ MgrTakes("UPLOAD_MISSION")
    /\ UNCHANGED <<mgr, motor, estopped>>

(* Mutant: the emergency stop clears the missions and leaves the arming.      *)
SyncedWithoutDisarm(m, op) == [m EXCEPT !.station = FALSE, !.route = FALSE]
(* _handle_gnc_sync mirrors a failsafe the GNC reports.                       *)
SyncedBy(m, op) ==
    CASE op = "emergency_stop" ->
            [m EXCEPT !.armed = FALSE, !.station = FALSE, !.route = FALSE]
      [] op = "failsafe_station" -> [m EXCEPT !.route = FALSE, !.station = TRUE]
      [] op = "failsafe_return_home" -> [m EXCEPT !.station = FALSE, !.route = TRUE]

MgrSync ==
    /\ "manager" \in up
    /\ syncQ # <<>>
    /\ mgrPhase' = "sync"
    /\ mgr' = SyncedBy(mgr, Head(syncQ))
    /\ syncQ' = Tail(syncQ)
    /\ UNCHANGED <<up, gnc, gncPhase, cmds, statusQ, muteQ, muted, motor,
                   estopped, sent, crashes>>

(* The tick ends with the heartbeat; the next tick starts with the commands.  *)
MgrHeartbeat ==
    /\ "manager" \in up
    /\ mgrPhase' = "commands"
    /\ statusQ' = Heartbeats(statusQ,
                     [armed |-> mgr.armed, mode |-> mgr.mode, sim |-> mgr.sim])
    /\ UNCHANGED <<up, mgr, gnc, gncPhase, cmds, syncQ, muteQ, muted, motor,
                   estopped, sent, crashes>>

MgrCommand ==
    \/ MgrArm \/ MgrDisarm \/ MgrSetMode \/ MgrManualInput
    \/ MgrStartRoute \/ MgrStopRoute \/ MgrStartStation \/ MgrStopStation
    \/ MgrStartSim \/ MgrStopSim \/ MgrIgnores

Manager == MgrCommand \/ MgrSync \/ MgrHeartbeat

-----------------------------------------------------------------------------
(* GNCProcess: loop() drains commands, then heartbeats, then runs failsafes   *)
(* and the active mission.                                                    *)

GncTakes(t) ==
    /\ "gnc" \in up
    /\ gncPhase = "commands"
    /\ cmds["gnc"] # <<>>
    /\ Head(cmds["gnc"]).type = t
    /\ UNCHANGED <<mgr, procVars, statusQ, syncQ, muted, sent>>

GncArg == Head(cmds["gnc"]).arg

(* The command is consumed and nothing is published on command/user.          *)
GncConsumes ==
    /\ cmds' = [cmds EXCEPT !["gnc"] = Tail(@)]
    /\ UNCHANGED muteQ

(* Mutant: a mission runs on an unarmed vehicle.                              *)
CanExecuteUnarmed(g) == TRUE
CanExecute(g) == g.armed \/ g.sim

(* _stop_wp_route and _stop_station publish a zero frame if the mission ran.  *)
StopRoute(g) == [g EXCEPT !.route = FALSE]
StopStation(g) == [g EXCEPT !.station = FALSE]
ZeroedIf(stopped) == IF stopped THEN "zero" ELSE motor

(* _start_wp_route and _start_station refuse an unarmed vehicle and a bad     *)
(* payload; neither looks at the mode nor stops the other mission.            *)
StartRoute(g, valid) ==
    IF CanExecute(g) /\ valid THEN [g EXCEPT !.route = TRUE] ELSE g
StartStation(g, valid) ==
    IF CanExecute(g) /\ valid THEN [g EXCEPT !.station = TRUE] ELSE g

GncArm ==
    /\ GncTakes("ARM") /\ GncConsumes
    /\ gnc' = [gnc EXCEPT !.armed = @ \/ ~gnc.sim]
    /\ estopped' = (estopped /\ gnc.sim)
    /\ UNCHANGED motor

GncDisarm ==
    /\ GncTakes("DISARM") /\ GncConsumes
    /\ gnc' = [StopStation(StopRoute(gnc)) EXCEPT !.armed = FALSE]
    /\ motor' = ZeroedIf(gnc.route \/ gnc.station)
    /\ UNCHANGED estopped

(* A mode change stops the missions that do not belong to the new mode.       *)
Switched(g, mode) ==
    [g EXCEPT !.mode = mode, !.route = @ /\ mode = "WP_ROUTE",
              !.station = @ /\ mode = "STATION"]
(* Mutant: the zero frame is published for a route only.                      *)
StoppedRouteBySwitch(g, mode) == g.route /\ mode # "WP_ROUTE"
StoppedBySwitch(g, mode) ==
    (g.route /\ mode # "WP_ROUTE") \/ (g.station /\ mode # "STATION")

GncSetMode ==
    /\ GncTakes("SET_MODE") /\ GncConsumes
    /\ gnc' = Switched(gnc, GncArg)
    /\ motor' = ZeroedIf(StoppedBySwitch(gnc, GncArg))
    /\ UNCHANGED estopped

(* Mutant: the frame of a simulation carries the hardware source.             *)
ManualDrivesInSim(g) == CanExecute(g) /\ g.mode = "MANUAL"
(* Published with source "sim" during a simulation, which the motor node      *)
(* skips, and to the hardware otherwise.                                      *)
ManualDrives(g) == CanExecute(g) /\ g.mode = "MANUAL" /\ ~g.sim

GncManualInput ==
    /\ GncTakes("MANUAL_INPUT") /\ GncConsumes
    /\ motor' = IF ManualDrives(gnc) THEN "manual" ELSE motor
    /\ UNCHANGED <<gnc, estopped>>

(* _load_mission unloads the mission when it is given no waypoints.           *)
GncUploadMission ==
    /\ GncTakes("UPLOAD_MISSION") /\ GncConsumes
    /\ gnc' = [gnc EXCEPT !.mission = (GncArg = "ok")]
    /\ UNCHANGED <<motor, estopped>>

GncStartRoute ==
    /\ GncTakes("START_WP_ROUTE") /\ GncConsumes
    /\ gnc' = StartRoute(gnc, GncArg = "ok")
    /\ UNCHANGED <<motor, estopped>>

GncStopRoute ==
    /\ GncTakes("STOP_WP_ROUTE") /\ GncConsumes
    /\ gnc' = StopRoute(gnc)
    /\ motor' = ZeroedIf(gnc.route)
    /\ UNCHANGED estopped

GncStartStation ==
    /\ GncTakes("START_STATION") /\ GncConsumes
    /\ gnc' = StartStation(gnc, GncArg = "ok")
    /\ UNCHANGED <<motor, estopped>>

GncStopStation ==
    /\ GncTakes("STOP_STATION") /\ GncConsumes
    /\ gnc' = StopStation(gnc)
    /\ motor' = ZeroedIf(gnc.station)
    /\ UNCHANGED estopped

(* The GNC has no handler for CLEAR_WP_ROUTE: an active route goes on.        *)
GncIgnores ==
    /\ GncTakes("CLEAR_WP_ROUTE") /\ GncConsumes
    /\ UNCHANGED <<gnc, motor, estopped>>

(* _start_rt_sim: disarm locally and publish the DISARM, mute the sensors.    *)
Disarm == [type |-> "DISARM", arg |-> "none"]

GncStartSim ==
    /\ GncTakes("START_RT_SIM")
    /\ LET rest == [cmds EXCEPT !["gnc"] = Tail(@)]
       IN  IF GncArg = "ok"
           THEN /\ gnc' = [gnc EXCEPT !.armed = FALSE, !.sim = TRUE]
                /\ cmds' = IF gnc.armed THEN Deliver(rest, Disarm) ELSE rest
                /\ muteQ' = Append(muteQ, "MUTE")
           ELSE /\ cmds' = rest
                /\ UNCHANGED <<gnc, muteQ>>
    /\ UNCHANGED <<motor, estopped>>

(* Mutant: stopping the simulation leaves the sensors muted.                  *)
LeftMuted(queue, g) == queue
(* _stop_rt_sim returns early when no simulation runs.                        *)
Unmuted(queue, g) == IF g.sim THEN Append(queue, "UNMUTE") ELSE queue

GncStopSim ==
    /\ GncTakes("STOP_RT_SIM")
    /\ cmds' = [cmds EXCEPT !["gnc"] = Tail(@)]
    /\ gnc' = [gnc EXCEPT !.sim = FALSE]
    /\ muteQ' = Unmuted(muteQ, gnc)
    /\ UNCHANGED <<motor, estopped>>

(* Mutants: a heartbeat that only disarms, one that leaves the mode alone.    *)
HeardDisarm(g, hb) ==
    LET h == [g EXCEPT !.armed = @ /\ hb.armed]
    IN  IF hb.mode # g.mode THEN Switched(h, hb.mode) ELSE h
HeardArming(g, hb) == [g EXCEPT !.armed = hb.armed]
(* _consume_status: the Manager's arming always wins, its mode if it differs. *)
Heard(g, hb) ==
    LET h == [g EXCEPT !.armed = hb.armed]
    IN  IF hb.mode # g.mode THEN Switched(h, hb.mode) ELSE h

GncHeartbeat ==
    /\ "gnc" \in up
    /\ statusQ # <<>>
    /\ gncPhase' = "status"
    /\ LET hb == Head(statusQ)
       IN  /\ gnc' = Heard(gnc, hb)
           /\ motor' = ZeroedIf(hb.mode # gnc.mode /\ StoppedBySwitch(gnc, hb.mode))
    /\ statusQ' = Tail(statusQ)
    /\ UNCHANGED <<up, mgr, mgrPhase, cmds, syncQ, muteQ, muted, estopped, sent,
                   crashes>>

-----------------------------------------------------------------------------
(* _check_failsafes.  When the timers expire is the subject of GncFailsafe;   *)
(* here either branch, or both in one tick, may fire while a mission runs.    *)

FailsafesChecked(g) == g.armed /\ ~g.sim /\ (g.route \/ g.station)

EmergencyStop(g) == [g EXCEPT !.route = FALSE, !.station = FALSE, !.armed = FALSE]

(* Both report to the Manager whether or not the start was accepted.          *)
FailsafeStationKeeping(g) == StartStation(StopRoute(g), g.pos)
FailsafeReturnHome(g) == StartRoute(StopStation(StopRoute(g)), TRUE)

Fire(g, act) ==
    CASE act = "none" -> g
      [] act = "emergency_stop" -> EmergencyStop(g)
      [] act = "failsafe_station" -> FailsafeStationKeeping(g)
      [] act = "failsafe_return_home" -> FailsafeReturnHome(g)

GnssActions == {"none", "emergency_stop", "failsafe_station"}
CommActions == {"none", "failsafe_station", "failsafe_return_home"}

(* Failsafes are seconds apart and the Manager reads every 100 ms: gnc/sync   *)
(* never nears its high-water mark (50) and loses nothing to a running Manager*)
Report(queue, act) ==
    IF act = "none" \/ "manager" \notin up THEN queue ELSE Append(queue, act)

(* The mission that holds the vehicle: a route before a station before AUTO.  *)
Running(g) ==
    IF ~CanExecute(g) \/ ~g.pos THEN "none"
    ELSE CASE g.route                -> "route"
           [] g.station /\ ~g.route  -> "station"
           [] OTHER -> IF g.mode = "AUTO" /\ g.mission THEN "mission" ELSE "none"

(* One execution step from state g with the newest frame f: the thrust may    *)
(* be nil, and a route whose completion is "stop" may end with this step.     *)
Executes(g, f) ==
    LET run   == Running(g)
        frame == IF g.sim THEN f
                 ELSE IF run = "mission" THEN "mission" ELSE "auto"
    IN  \/ /\ gnc' = g
           /\ motor' \in IF run = "none" THEN {f}
                         ELSE {frame, IF g.sim THEN f ELSE "zero"}
        \/ /\ run = "route"
           /\ gnc' = StopRoute(g)
           /\ motor' = "zero"

GncRun ==
    /\ "gnc" \in up
    /\ gncPhase' = "commands"
    /\ \E nav \in BOOLEAN, gnss \in GnssActions, comm \in CommActions :
        LET g0 == [gnc EXCEPT !.pos = nav]
            g1 == Fire(g0, gnss)
        IN  /\ \/ gnss = "none" /\ comm = "none"
               \/ FailsafesChecked(g0) /\ Len(syncQ) + 2 <= MaxSync
            /\ syncQ' = Report(Report(syncQ, gnss), comm)
            /\ estopped' = (estopped \/ gnss = "emergency_stop")
            /\ Executes(Fire(g1, comm),
                        IF gnss = "emergency_stop" THEN "zero" ELSE motor)
    /\ UNCHANGED <<up, mgr, mgrPhase, cmds, statusQ, muteQ, muted, sent, crashes>>

GncCommand ==
    \/ GncArm \/ GncDisarm \/ GncSetMode \/ GncManualInput \/ GncUploadMission
    \/ GncStartRoute \/ GncStopRoute \/ GncStartStation \/ GncStopStation
    \/ GncIgnores \/ GncStartSim \/ GncStopSim

Gnc == GncCommand \/ GncHeartbeat \/ GncRun

-----------------------------------------------------------------------------
(* HALProcess.loop applies the mute commands of the GNC.                      *)
HalMute ==
    /\ muteQ # <<>>
    /\ muted' = (Head(muteQ) = "MUTE")
    /\ muteQ' = Tail(muteQ)
    /\ UNCHANGED <<mgr, gnc, procVars, cmds, statusQ, syncQ, motor, estopped, sent>>

(* Esp32Node: a bus silent for 100 ms makes the node send a zero frame.       *)
MotorIdle ==
    /\ motor' = "zero"
    /\ UNCHANGED <<mgr, gnc, procVars, cmds, chanVars, muted, estopped, sent>>

-----------------------------------------------------------------------------
(* A process dies with its sockets; the watchdog starts a fresh one no sooner *)
(* than a second later, long after the motor node has fallen back to zero.    *)

Crash(p) ==
    /\ p \in Crashable \cap up
    /\ crashes < MaxCrashes
    /\ crashes' = crashes + 1
    /\ up' = up \ {p}
    /\ cmds' = [cmds EXCEPT ![p] = <<>>]
    /\ statusQ' = IF p = "gnc" THEN <<>> ELSE statusQ
    /\ syncQ' = IF p = "manager" THEN <<>> ELSE syncQ
    /\ UNCHANGED <<mgr, gnc, mgrPhase, gncPhase, muteQ, muted, motor, estopped, sent>>

MgrRestart ==
    /\ "manager" \notin up
    /\ motor # "manual"
    /\ up' = up \union {"manager"}
    /\ mgr' = ManagerReset
    /\ mgrPhase' = "commands"
    /\ UNCHANGED <<gnc, gncPhase, cmds, chanVars, muted, motor, estopped, sent, crashes>>

GncRestart ==
    /\ "gnc" \notin up
    /\ motor = "zero"
    /\ up' = up \union {"gnc"}
    /\ gnc' = GncReset
    /\ gncPhase' = "commands"
    /\ UNCHANGED <<mgr, mgrPhase, cmds, chanVars, muted, motor, estopped, sent, crashes>>

Next ==
    \/ OperatorSends
    \/ Manager
    \/ Gnc
    \/ HalMute
    \/ MotorIdle
    \/ \E p \in Crashable : Crash(p)
    \/ MgrRestart
    \/ GncRestart

(* The processes run their loops for ever and the watchdog restarts them.  A  *)
(* GNC tick drains its commands before the heartbeats that end the drain, so  *)
(* heartbeats cannot keep it from its commands: strong fairness.              *)
Fairness ==
    /\ WF_vars(MgrCommand) /\ WF_vars(MgrSync) /\ WF_vars(MgrHeartbeat)
    /\ SF_vars(GncCommand) /\ WF_vars(GncHeartbeat) /\ WF_vars(GncRun)
    /\ WF_vars(HalMute) /\ WF_vars(MotorIdle)
    /\ WF_vars(MgrRestart) /\ WF_vars(GncRestart)

Spec == Init /\ [][Next]_vars
FairSpec == Spec /\ Fairness

-----------------------------------------------------------------------------
(* The type invariant: what the Manager, the GNC and the HAL hold, and what   *)
(* is queued between them (manager/process.py, gnc/process.py).              *)
TypeOK ==
    /\ up \subseteq Process
    /\ mgr \in ManagerState
    /\ gnc \in GncState
    /\ mgrPhase \in {"commands", "sync"}
    /\ gncPhase \in {"commands", "status"}
    /\ cmds \in [Process -> Seq(Command)]
    /\ statusQ \in Seq(Heartbeat)
    /\ syncQ \in Seq(SyncOp)
    /\ muteQ \in Seq({"MUTE", "UNMUTE"})
    /\ muted \in BOOLEAN
    /\ motor \in {"zero", "manual", "auto", "mission"}
    /\ estopped \in BOOLEAN
    /\ sent \in Nat /\ crashes \in Nat

InQueue(p, t) == \E i \in 1..Len(cmds[p]) : cmds[p][i].type = t

(* What the Manager reports is never armed and in simulation at once, in its  *)
(* own state or in any heartbeat still on its way (Manager START_RT_SIM, ARM).*)
SimNeverArmed ==
    /\ ~(mgr.sim /\ mgr.armed)
    /\ \A i \in 1..Len(statusQ) : ~(statusQ[i].sim /\ statusQ[i].armed)

(* One process has yet to read what the other has read: START_RT_SIM by the   *)
(* Manager or STOP_RT_SIM by the GNC.                                         *)
SimWindow == InQueue("manager", "START_RT_SIM") \/ InQueue("gnc", "STOP_RT_SIM")

(* As long as no process has crashed, the Manager is armed while the GNC      *)
(* simulates only inside that window: both gate ARM on their own copy of the  *)
(* simulation flag, read from their own queue.                                *)
SimWindowWithoutRestart ==
    crashes = 0 /\ gnc.sim /\ mgr.armed => SimWindow

(* "Real motors must never run during simulation" (Manager, START_RT_SIM):    *)
(* outside the window, a MANUAL_INPUT the Manager reads while the GNC         *)
(* simulates does not put thrust on the hardware.                             *)
RealMotorsRest ==
    [][gnc.sim /\ up = Process /\ motor # "manual" /\ motor' = "manual"
          => SimWindow]_vars

(* Every way out of an automatic run (stop, disarm, a mode change commanded   *)
(* or heard, emergency stop, both failsafes in one tick, completion) publishes*)
(* a zero frame: the thrust of a route or a station does not outlive it.  The *)
(* exception is a failsafe that drops the route at position (0, 0), where     *)
(* _start_station refuses to hold.                                            *)
AutoRunEndsInZero ==
    [][\/ motor # "auto" \/ "gnc" \notin up \/ "gnc" \notin up'
       \/ ~(gnc.route \/ gnc.station)
       \/ gnc'.route \/ gnc'.station
       \/ motor' = "zero" \/ ~gnc'.pos]_vars

(* Once both processes simulate, no step of either puts thrust on the         *)
(* hardware.                                                                  *)
SimIsolation ==
    [][gnc.sim /\ mgr.sim /\ up = Process => motor' \in {motor, "zero"}]_vars

(* Whatever the interleaving of commands, stale heartbeats, failsafes and     *)
(* restarts, the two copies of the arming and of the mode agree for ever once *)
(* the operator is silent: the heartbeat is the authority.                    *)
ArmingAgrees == <>[](gnc.armed = mgr.armed)
ModeAgrees == <>[](gnc.mode = mgr.mode)

(* The HAL ends up muted exactly when the GNC simulates.                      *)
MuteAgrees == <>[](muted = gnc.sim)

(* If the Manager stays disarmed the motors come to rest and stay at rest,    *)
(* even when the GNC keeps an active mission, an unread ARM or an old         *)
(* heartbeat.                                                                 *)
DisarmedComesToRest == <>[]~mgr.armed => <>[](motor = "zero")

(* An emergency stop of the GNC holds in both processes: unless a later ARM is*)
(* accepted, neither is armed again by what was in flight.                    *)
EmergencyStopHolds == <>[]estopped => <>[](~mgr.armed /\ ~gnc.armed)
=============================================================================
