------------------------ MODULE VehicleControlProofs ------------------------
(* Theorems of VehicleControl for every set of commands and every bound.      *)
EXTENDS VehicleControl, SequenceTheorems, TLAPS

(* A queue loses its head or gains a member of its type.                      *)
LEMMA QueueType ==
    ASSUME NEW S, NEW q \in Seq(S)
    PROVE  /\ \A e \in S : Append(q, e) \in Seq(S)
           /\ q # <<>> => Head(q) \in S /\ Tail(q) \in Seq(S)
  OBVIOUS

(* What the broker delivers stays a queue of commands.                        *)
LEMMA DeliverType ==
    ASSUME NEW queues \in [Process -> Seq(Command)], NEW c \in Command
    PROVE  Deliver(queues, c) \in [Process -> Seq(Command)]
  BY DEF Deliver

(* A process that consumes a command leaves queues of commands.               *)
LEMMA ConsumeType ==
    ASSUME NEW queues \in [Process -> Seq(Command)], NEW p \in Process,
           queues[p] # <<>>
    PROVE  /\ Head(queues[p]) \in Command
           /\ [queues EXCEPT ![p] = Tail(@)] \in [Process -> Seq(Command)]
  BY QueueType

(* DISARM, the command the GNC issues itself, is a command.                   *)
LEMMA DisarmType == Disarm \in Command
  BY DEF Disarm, Command

(* A mode change commands a mode the GNC knows.                               *)
LEMMA SetModeArg ==
    ASSUME NEW c \in Command, c.type = "SET_MODE"
    PROVE  c.arg \in VehicleMode \union {"AUTO"}
  BY DEF Command

(* The operators on the GNC's state keep its type.                            *)
LEMMA GncHelpersType ==
    ASSUME NEW g \in GncState
    PROVE  /\ StopRoute(g) \in GncState
           /\ StopStation(g) \in GncState
           /\ \A v \in BOOLEAN : StartRoute(g, v) \in GncState
           /\ \A v \in BOOLEAN : StartStation(g, v) \in GncState
           /\ \A m \in VehicleMode \union {"AUTO"} : Switched(g, m) \in GncState
           /\ \A hb \in Heartbeat : Heard(g, hb) \in GncState
           /\ EmergencyStop(g) \in GncState
  <1>1. StopRoute(g) \in GncState /\ StopStation(g) \in GncState
    BY DEF GncState, StopRoute, StopStation
  <1>2. \A v \in BOOLEAN : StartRoute(g, v) \in GncState
    BY DEF GncState, StartRoute, StopStation, CanExecute
  <1>3. \A v \in BOOLEAN : StartStation(g, v) \in GncState
    BY DEF GncState, StartStation, StopRoute, CanExecute
  <1>4. \A m \in VehicleMode \union {"AUTO"} : Switched(g, m) \in GncState
    BY DEF GncState, Switched, StopRoute, StopStation, VehicleMode
  <1>5. \A hb \in Heartbeat : Heard(g, hb) \in GncState
    BY DEF GncState, Heard, Heartbeat, Switched, StopRoute, StopStation, VehicleMode
  <1>6. EmergencyStop(g) \in GncState
    BY DEF GncState, EmergencyStop, StopRoute, StopStation
  <1> QED  BY <1>1, <1>2, <1>3, <1>4, <1>5, <1>6

LEMMA FireType ==
    ASSUME NEW g \in GncState, NEW act \in GnssActions \union CommActions
    PROVE  Fire(g, act) \in GncState
  <1>1. FailsafeStationKeeping(g) \in GncState
    <2>1. StopRoute(g) \in GncState /\ g.pos \in BOOLEAN
      BY GncHelpersType DEF GncState
    <2> QED  BY <2>1, GncHelpersType DEF FailsafeStationKeeping
  <1>2. FailsafeReturnHome(g) \in GncState
    <2>1. StopStation(StopRoute(g)) \in GncState
      BY GncHelpersType
    <2> QED  BY <2>1, GncHelpersType DEF FailsafeReturnHome
  <1> QED  BY <1>1, <1>2, GncHelpersType DEF Fire, GnssActions, CommActions

-----------------------------------------------------------------------------
(* Type correctness, actor by actor.                                          *)

(* The operators on the Manager's state keep its type.                        *)
LEMMA ManagerHelpersType ==
    ASSUME NEW m \in ManagerState
    PROVE  /\ MgrArmed(m) \in ManagerState
           /\ MgrSimulating(m) \in ManagerState
           /\ \A a : MgrSwitched(m, a) \in ManagerState
           /\ \A op \in SyncOp : SyncedBy(m, op) \in ManagerState
  BY DEF ManagerState, MgrArmed, MgrSimulating, MgrSwitched, SyncedBy, SyncOp

LEMMA OperatorType == TypeOK /\ OperatorSends => TypeOK'
  <1> SUFFICES ASSUME TypeOK, OperatorSends PROVE TypeOK'
    OBVIOUS
  <1>1. cmds' \in [Process -> Seq(Command)]
    BY DeliverType, ConstantsAssumption DEF TypeOK, OperatorSends
  <1> QED  BY <1>1 DEF TypeOK, OperatorSends, procVars, chanVars

LEMMA MgrCommandType == TypeOK /\ MgrCommand => TypeOK'
  <1> SUFFICES ASSUME TypeOK, MgrCommand PROVE TypeOK'
    OBVIOUS
  <1>1. PICK t : MgrTakes(t)
    BY DEF MgrCommand, MgrArm, MgrDisarm, MgrSetMode, MgrManualInput,
           MgrStartRoute, MgrStopRoute, MgrStartStation, MgrStopStation,
           MgrStartSim, MgrStopSim, MgrIgnores
  <1>2. cmds' \in [Process -> Seq(Command)]
    BY <1>1, ConsumeType DEF MgrTakes, TypeOK, Process
  <1>3. mgr' \in ManagerState
    <2>1. CASE MgrArm
      BY <2>1, ManagerHelpersType DEF MgrArm, TypeOK
    <2>2. CASE MgrSetMode
      BY <2>2, ManagerHelpersType DEF MgrSetMode, TypeOK
    <2>3. CASE MgrStartSim
      BY <2>3, ManagerHelpersType DEF MgrStartSim, TypeOK
    <2>4. CASE MgrDisarm \/ MgrManualInput \/ MgrIgnores \/ MgrStopSim
      BY <2>4 DEF MgrDisarm, MgrManualInput, MgrIgnores, MgrStopSim, TypeOK,
                  ManagerState
    <2>5. CASE MgrStartRoute \/ MgrStopRoute \/ MgrStartStation \/ MgrStopStation
      BY <2>5 DEF MgrStartRoute, MgrStopRoute, MgrStartStation, MgrStopStation,
                  TypeOK, ManagerState
    <2> QED  BY <2>1, <2>2, <2>3, <2>4, <2>5 DEF MgrCommand
  <1>4. motor' \in {"zero", "manual", "auto", "mission"} /\ estopped' \in BOOLEAN
    BY DEF MgrCommand, MgrArm, MgrDisarm, MgrSetMode, MgrManualInput,
           MgrStartRoute, MgrStopRoute, MgrStartStation, MgrStopStation,
           MgrStartSim, MgrStopSim, MgrIgnores, TypeOK, ManagerState
  <1> QED  BY <1>1, <1>2, <1>3, <1>4 DEF MgrTakes, TypeOK, procVars, chanVars

LEMMA MgrLoopType == TypeOK /\ (MgrSync \/ MgrHeartbeat) => TypeOK'
  <1>1. ASSUME TypeOK, MgrSync PROVE TypeOK'
    <2>1. Head(syncQ) \in SyncOp /\ Tail(syncQ) \in Seq(SyncOp)
      BY <1>1, QueueType DEF TypeOK, MgrSync
    <2>2. mgr' \in ManagerState
      BY <1>1, <2>1, ManagerHelpersType DEF TypeOK, MgrSync
    <2> QED  BY <1>1, <2>1, <2>2 DEF TypeOK, MgrSync
  <1>2. ASSUME TypeOK, MgrHeartbeat PROVE TypeOK'
    <2>1. [armed |-> mgr.armed, mode |-> mgr.mode, sim |-> mgr.sim] \in Heartbeat
      BY <1>2 DEF TypeOK, ManagerState, Heartbeat
    <2>2. statusQ' \in Seq(Heartbeat)
      BY <1>2, <2>1, QueueType DEF TypeOK, MgrHeartbeat, Heartbeats
    <2> QED  BY <1>2, <2>2 DEF TypeOK, MgrHeartbeat
  <1> QED  BY <1>1, <1>2

LEMMA GncCommandType == TypeOK /\ GncCommand => TypeOK'
  <1> SUFFICES ASSUME TypeOK, GncCommand PROVE TypeOK'
    OBVIOUS
  <1>1. PICK t : GncTakes(t)
    BY DEF GncCommand, GncArm, GncDisarm, GncSetMode, GncManualInput,
           GncUploadMission, GncStartRoute, GncStopRoute, GncStartStation,
           GncStopStation, GncIgnores, GncStartSim, GncStopSim
  <1>2. /\ Head(cmds["gnc"]) \in Command
        /\ [cmds EXCEPT !["gnc"] = Tail(@)] \in [Process -> Seq(Command)]
    BY <1>1, ConsumeType DEF GncTakes, TypeOK, Process
  <1>3. cmds' \in [Process -> Seq(Command)]
    <2>1. CASE GncStartSim
      BY <1>2, <2>1, DeliverType, DisarmType DEF GncStartSim
    <2>2. CASE GncStopSim
      BY <1>2, <2>2 DEF GncStopSim
    <2> QED  BY <1>2, <2>1, <2>2
             DEF GncCommand, GncArm, GncDisarm, GncSetMode, GncManualInput,
                 GncUploadMission, GncStartRoute, GncStopRoute, GncStartStation,
                 GncStopStation, GncIgnores, GncConsumes
  <1>4. gnc' \in GncState
    <2>1. CASE GncArm \/ GncManualInput \/ GncUploadMission \/ GncIgnores
      BY <2>1 DEF GncArm, GncManualInput, GncUploadMission, GncIgnores, TypeOK,
                  GncState
    <2>2. CASE GncDisarm
      BY <2>2 DEF GncDisarm, StopStation, StopRoute, TypeOK, GncState
    <2>3. CASE GncSetMode
      <3>1. GncArg \in VehicleMode \union {"AUTO"}
        BY <1>2, <2>3, SetModeArg DEF GncSetMode, GncTakes, GncArg
      <3> QED  BY <2>3, <3>1, GncHelpersType DEF GncSetMode, TypeOK
    <2>4. CASE GncStartRoute \/ GncStopRoute \/ GncStartStation \/ GncStopStation
      BY <2>4, GncHelpersType DEF GncStartRoute, GncStopRoute, GncStartStation,
                                  GncStopStation, TypeOK
    <2>5. CASE GncStartSim \/ GncStopSim
      BY <2>5 DEF GncStartSim, GncStopSim, TypeOK, GncState
    <2> QED  BY <2>1, <2>2, <2>3, <2>4, <2>5 DEF GncCommand
  <1>5. muteQ' \in Seq({"MUTE", "UNMUTE"})
    <2>1. muteQ \in Seq({"MUTE", "UNMUTE"})
      BY DEF TypeOK
    <2>2. \/ muteQ' = muteQ
          \/ muteQ' = Append(muteQ, "MUTE")
          \/ muteQ' = Append(muteQ, "UNMUTE")
      BY DEF GncCommand, GncArm, GncDisarm, GncSetMode, GncManualInput,
             GncUploadMission, GncStartRoute, GncStopRoute, GncStartStation,
             GncStopStation, GncIgnores, GncConsumes, GncStartSim, GncStopSim,
             Unmuted
    <2> QED  BY <2>1, <2>2, QueueType
  <1>6. motor' \in {"zero", "manual", "auto", "mission"} /\ estopped' \in BOOLEAN
    BY DEF TypeOK, GncState, GncCommand, GncArm, GncDisarm, GncSetMode,
           GncManualInput, GncUploadMission, GncStartRoute, GncStopRoute,
           GncStartStation, GncStopStation, GncIgnores, GncStartSim, GncStopSim,
           ZeroedIf
  <1> QED  BY <1>1, <1>3, <1>4, <1>5, <1>6 DEF GncTakes, TypeOK, procVars

LEMMA GncHeartbeatType == TypeOK /\ GncHeartbeat => TypeOK'
  <1> SUFFICES ASSUME TypeOK, GncHeartbeat PROVE TypeOK'
    OBVIOUS
  <1>1. Head(statusQ) \in Heartbeat /\ Tail(statusQ) \in Seq(Heartbeat)
    BY QueueType DEF TypeOK, GncHeartbeat
  <1>2. gnc' \in GncState
    BY <1>1, GncHelpersType DEF TypeOK, GncHeartbeat
  <1> QED  BY <1>1, <1>2 DEF TypeOK, GncHeartbeat, ZeroedIf

LEMMA GncRunType == TypeOK /\ GncRun => TypeOK'
  <1> SUFFICES ASSUME TypeOK, GncRun PROVE TypeOK'
    OBVIOUS
  <1>1. PICK nav \in BOOLEAN, gnss \in GnssActions, comm \in CommActions :
          /\ syncQ' = Report(Report(syncQ, gnss), comm)
          /\ estopped' = (estopped \/ gnss = "emergency_stop")
          /\ Executes(Fire(Fire([gnc EXCEPT !.pos = nav], gnss), comm),
                      IF gnss = "emergency_stop" THEN "zero" ELSE motor)
    BY DEF GncRun
  <1>2. syncQ' \in Seq(SyncOp)
    BY <1>1 DEF TypeOK, Report, GnssActions, CommActions, SyncOp
  <1>3. Fire(Fire([gnc EXCEPT !.pos = nav], gnss), comm) \in GncState
    <2>1. [gnc EXCEPT !.pos = nav] \in GncState
      BY DEF TypeOK, GncState
    <2> QED  BY <2>1, FireType
  <1>4. gnc' \in GncState /\ motor' \in {"zero", "manual", "auto", "mission"}
    BY <1>1, <1>3, GncHelpersType DEF TypeOK, Executes
  <1> QED  BY <1>1, <1>2, <1>4 DEF TypeOK, GncRun

LEMMA EnvironmentType ==
    /\ TypeOK
    /\ HalMute \/ MotorIdle \/ (\E p \in Crashable : Crash(p)) \/ MgrRestart \/ GncRestart
    => TypeOK'
  <1> SUFFICES ASSUME TypeOK PROVE
        HalMute \/ MotorIdle \/ (\E p \in Crashable : Crash(p)) \/ MgrRestart
            \/ GncRestart => TypeOK'
    OBVIOUS
  <1>1. ASSUME HalMute PROVE TypeOK'
    BY <1>1 DEF HalMute, TypeOK, procVars
  <1>2. ASSUME MotorIdle PROVE TypeOK'
    BY <1>2 DEF MotorIdle, TypeOK, procVars, chanVars
  <1>3. ASSUME NEW p \in Crashable, Crash(p) PROVE TypeOK'
    BY <1>3, ConstantsAssumption DEF Crash, TypeOK
  <1>4. ASSUME MgrRestart PROVE TypeOK'
    BY <1>4 DEF MgrRestart, TypeOK, chanVars, ManagerReset, ManagerState,
                VehicleMode, Process
  <1>5. ASSUME GncRestart PROVE TypeOK'
    BY <1>5 DEF GncRestart, TypeOK, chanVars, GncReset, GncState, VehicleMode, Process
  <1> QED  BY <1>1, <1>2, <1>3, <1>4, <1>5

LEMMA InitType == Init => TypeOK
  <1> SUFFICES ASSUME Init PROVE TypeOK
    OBVIOUS
  <1>1. mgr \in ManagerState /\ gnc \in GncState
    BY DEF Init, ManagerReset, ManagerState, GncReset, GncState, VehicleMode
  <1>2. cmds \in [Process -> Seq(Command)]
    BY DEF Init
  <1>3. /\ statusQ \in Seq(Heartbeat) /\ syncQ \in Seq(SyncOp)
        /\ muteQ \in Seq({"MUTE", "UNMUTE"})
    BY DEF Init
  <1> QED  BY <1>1, <1>2, <1>3 DEF Init, TypeOK

(* Every reachable state is well typed, for every set of operator commands and*)
(* every bound: no handler writes a mode, a flag or a message its readers do  *)
(* not know (ManagerProcess and GNCProcess).                                  *)
THEOREM TypeCorrect == Spec => []TypeOK
  <1>1. TypeOK /\ [Next]_vars => TypeOK'
    <2>1. TypeOK /\ UNCHANGED vars => TypeOK'
      BY DEF TypeOK, vars
    <2> QED  BY <2>1, OperatorType, MgrCommandType, MgrLoopType, GncCommandType,
                GncHeartbeatType, GncRunType, EnvironmentType
             DEF Next, Manager, Gnc
  <1> QED  BY InitType, <1>1, PTL DEF Spec

-----------------------------------------------------------------------------
(* Simulation and arming exclude each other in all the Manager reports.       *)

(* Whatever the operator sends, the Manager never believes, nor tells the GNC,*)
(* that the vehicle is armed while it simulates (ARM is refused in SIMULATION,*)
(* START_RT_SIM disarms, a failsafe only ever disarms).                       *)
THEOREM SimNeverArmedHolds == Spec => []SimNeverArmed
  <1>1. Init => SimNeverArmed
    BY DEF Init, SimNeverArmed, ManagerReset
  <1>2. TypeOK /\ SimNeverArmed /\ [Next]_vars => SimNeverArmed'
    <2> SUFFICES ASSUME TypeOK, SimNeverArmed, [Next]_vars PROVE SimNeverArmed'
      OBVIOUS
    <2>1. CASE MgrCommand
      <3>1. statusQ' = statusQ
        BY <2>1 DEF MgrCommand, MgrArm, MgrDisarm, MgrSetMode, MgrManualInput,
                    MgrStartRoute, MgrStopRoute, MgrStartStation, MgrStopStation,
                    MgrStartSim, MgrStopSim, MgrIgnores, MgrTakes, chanVars
      <3>2. ~(mgr'.sim /\ mgr'.armed)
        <4>1. CASE MgrArm
          BY <4>1 DEF MgrArm, MgrArmed, TypeOK, ManagerState, SimNeverArmed
        <4>2. CASE MgrSetMode
          BY <4>2 DEF MgrSetMode, MgrSwitched, TypeOK, ManagerState, SimNeverArmed
        <4>3. CASE MgrStartSim \/ MgrStopSim \/ MgrDisarm
          BY <4>3 DEF MgrStartSim, MgrSimulating, MgrStopSim, MgrDisarm, TypeOK,
                      ManagerState, SimNeverArmed
        <4>4. CASE MgrManualInput \/ MgrIgnores
          BY <4>4 DEF MgrManualInput, MgrIgnores, SimNeverArmed
        <4>5. CASE MgrStartRoute \/ MgrStopRoute \/ MgrStartStation \/ MgrStopStation
          BY <4>5 DEF MgrStartRoute, MgrStopRoute, MgrStartStation, MgrStopStation,
                      TypeOK, ManagerState, SimNeverArmed
        <4> QED  BY <2>1, <4>1, <4>2, <4>3, <4>4, <4>5 DEF MgrCommand
      <3> QED  BY <3>1, <3>2 DEF SimNeverArmed
    <2>2. CASE MgrSync
      <3>1. Head(syncQ) \in SyncOp
        BY <2>2, QueueType DEF TypeOK, MgrSync
      <3>2. ~(mgr'.sim /\ mgr'.armed)
        BY <2>2, <3>1 DEF MgrSync, SyncedBy, SyncOp, TypeOK, ManagerState, SimNeverArmed
      <3> QED  BY <2>2, <3>2 DEF MgrSync, SimNeverArmed
    <2>3. CASE MgrHeartbeat
      <3> DEFINE hb == [armed |-> mgr.armed, mode |-> mgr.mode, sim |-> mgr.sim]
      <3>1. hb \in Heartbeat /\ ~(hb.sim /\ hb.armed)
        BY DEF TypeOK, ManagerState, Heartbeat, SimNeverArmed
      <3>2. statusQ' = statusQ \/ statusQ' = Append(statusQ, hb)
        BY <2>3 DEF MgrHeartbeat, Heartbeats
      <3> HIDE DEF hb
      <3>3. \A i \in 1..Len(statusQ') : ~(statusQ'[i].sim /\ statusQ'[i].armed)
        <4> SUFFICES ASSUME NEW i \in 1..Len(statusQ')
                     PROVE  ~(statusQ'[i].sim /\ statusQ'[i].armed)
          OBVIOUS
        <4>1. statusQ \in Seq(Heartbeat)
          BY DEF TypeOK
        <4>2. statusQ'[i] = hb \/ (i \in 1..Len(statusQ) /\ statusQ'[i] = statusQ[i])
          BY <3>1, <3>2, <4>1
        <4> QED  BY <3>1, <4>2 DEF SimNeverArmed
      <3> QED  BY <2>3, <3>3 DEF MgrHeartbeat, SimNeverArmed
    <2>4. CASE GncHeartbeat
      <3>1. mgr' = mgr /\ statusQ # <<>> /\ statusQ' = Tail(statusQ)
        BY <2>4 DEF GncHeartbeat
      <3> QED  BY <3>1 DEF TypeOK, SimNeverArmed
    <2>5. CASE MgrRestart
      BY <2>5 DEF MgrRestart, ManagerReset, SimNeverArmed, chanVars
    <2>6. CASE \E p \in Crashable : Crash(p)
      BY <2>6 DEF Crash, SimNeverArmed
    <2>7. CASE GncCommand \/ GncRun
      BY <2>7 DEF GncCommand, GncArm, GncDisarm, GncSetMode, GncManualInput,
                  GncUploadMission, GncStartRoute, GncStopRoute, GncStartStation,
                  GncStopStation, GncIgnores, GncStartSim, GncStopSim, GncTakes,
                  GncRun, SimNeverArmed
    <2>8. CASE OperatorSends \/ HalMute \/ MotorIdle \/ GncRestart \/ UNCHANGED vars
      BY <2>8 DEF OperatorSends, HalMute, MotorIdle, GncRestart, vars, chanVars,
                  SimNeverArmed
    <2> QED  BY <2>1, <2>2, <2>3, <2>4, <2>5, <2>6, <2>7, <2>8 DEF Next, Manager, Gnc
  <1> QED  BY <1>1, <1>2, TypeCorrect, PTL DEF Spec

-----------------------------------------------------------------------------
(* An automatic run that ends leaves a zero frame.                            *)

EndsInZero ==
    \/ motor # "auto" \/ "gnc" \notin up \/ "gnc" \notin up'
    \/ ~(gnc.route \/ gnc.station)
    \/ gnc'.route \/ gnc'.station
    \/ motor' = "zero" \/ ~gnc'.pos

(* A failsafe keeps a mission, or ends every one of them with the emergency   *)
(* stop, or found the vehicle without a position.                             *)
LEMMA FailsafesEnd ==
    ASSUME NEW g \in GncState, FailsafesChecked(g), g.pos,
           NEW gnss \in GnssActions, NEW comm \in CommActions
    PROVE  LET h == Fire(Fire(g, gnss), comm)
           IN  \/ h.route \/ h.station
               \/ gnss = "emergency_stop" /\ ~CanExecute(h)
  <1>1. CASE gnss = "emergency_stop"
    BY <1>1 DEF FailsafesChecked, CanExecute, Fire, CommActions, EmergencyStop, FailsafeStationKeeping,
                FailsafeReturnHome, StopRoute, StopStation, StartRoute,
                StartStation, GncState
  <1>2. CASE gnss # "emergency_stop"
    <2>1. LET h == Fire(g, gnss)
          IN  h \in GncState /\ h.armed /\ (h.route \/ h.station) /\ h.pos
      BY <1>2 DEF FailsafesChecked, Fire, GnssActions, FailsafeStationKeeping, StopRoute,
                  StartStation, CanExecute, GncState
    <2> DEFINE h == Fire(g, gnss)
    <2> HIDE DEF h
    <2>2. LET k == Fire(h, comm) IN k.route \/ k.station
      BY <2>1 DEF h, Fire, CommActions, FailsafeStationKeeping, FailsafeReturnHome,
                  StopRoute, StopStation, StartRoute, StartStation, CanExecute,
                  GncState
    <2> QED  BY <2>2 DEF h
  <1> QED  BY <1>1, <1>2

LEMMA RunEndsInZero == TypeOK /\ GncRun => EndsInZero
  <1> SUFFICES ASSUME TypeOK, GncRun, gnc.route \/ gnc.station, motor = "auto",
                      gnc'.pos, ~gnc'.route, ~gnc'.station
               PROVE  motor' = "zero"
    BY DEF EndsInZero
  <1>1. PICK nav \in BOOLEAN, gnss \in GnssActions, comm \in CommActions :
          LET g0 == [gnc EXCEPT !.pos = nav]
          IN  /\ FailsafesChecked(g0) \/ (gnss = "none" /\ comm = "none")
              /\ Executes(Fire(Fire(g0, gnss), comm),
                          IF gnss = "emergency_stop" THEN "zero" ELSE motor)
    BY DEF GncRun
  <1> DEFINE g0 == [gnc EXCEPT !.pos = nav]
             h == Fire(Fire(g0, gnss), comm)
             f == IF gnss = "emergency_stop" THEN "zero" ELSE motor
  <1>2. g0 \in GncState /\ (g0.route \/ g0.station) /\ g0.pos = nav
    BY DEF TypeOK, GncState
  <1>3. h \in GncState
    BY <1>2, FireType
  <1>4. h.pos = nav
    BY <1>2 DEF Fire, GnssActions, CommActions, EmergencyStop, FailsafeReturnHome,
                FailsafeStationKeeping, StopRoute, StopStation, StartRoute,
                StartStation, GncState
  <1>5. Executes(h, f)
    BY <1>1
  <1> HIDE DEF g0, h, f
  <1>6. nav
    BY <1>3, <1>4, <1>5 DEF Executes, StopRoute, GncState
  <1>7. h.route \/ h.station \/ (f = "zero" /\ ~CanExecute(h))
    <2>1. CASE gnss = "none" /\ comm = "none"
      BY <1>2, <2>1 DEF h, Fire
    <2>2. CASE FailsafesChecked(g0)
      BY <1>2, <1>6, <2>2, FailsafesEnd DEF h, f
    <2> QED  BY <1>1, <2>1, <2>2 DEF g0
  <1>8. CASE gnc' = h
    BY <1>3, <1>5, <1>7, <1>8 DEF Executes, Running, GncState, StopRoute
  <1>9. CASE gnc' # h
    BY <1>5, <1>9 DEF Executes
  <1> QED  BY <1>8, <1>9

(* Every way out of a route or a station, commanded, heard from the Manager or*)
(* decided by a failsafe, publishes a zero frame to the motors in that step,  *)
(* unless the position was lost (_stop_wp_route, _stop_station,               *)
(* _emergency_stop, _handle_wp_route_completion).                             *)
THEOREM AutoRunEndsInZeroHolds == Spec => AutoRunEndsInZero
  <1>1. TypeOK /\ [Next]_vars => [EndsInZero]_vars
    <2> SUFFICES ASSUME TypeOK, Next PROVE EndsInZero \/ UNCHANGED vars
      OBVIOUS
    <2>1. CASE GncRun
      BY <2>1, RunEndsInZero
    <2>2. CASE GncHeartbeat
      <3>1. Head(statusQ) \in Heartbeat
        BY <2>2, QueueType DEF TypeOK, GncHeartbeat
      <3> QED  BY <2>2, <3>1 DEF GncHeartbeat, Heard, Switched, StoppedBySwitch,
                                 ZeroedIf, EndsInZero, TypeOK, GncState, Heartbeat
    <2>3. CASE GncCommand
      <3>1. CASE GncDisarm
        BY <3>1 DEF GncDisarm, ZeroedIf, EndsInZero
      <3>2. CASE GncSetMode
        BY <3>2 DEF GncSetMode, Switched, StoppedBySwitch, ZeroedIf, EndsInZero,
                    TypeOK, GncState
      <3>3. CASE GncStopRoute \/ GncStopStation
        BY <3>3 DEF GncStopRoute, GncStopStation, StopRoute, StopStation, ZeroedIf,
                    EndsInZero, TypeOK, GncState
      <3>4. CASE GncStartRoute \/ GncStartStation
        BY <3>4 DEF GncStartRoute, GncStartStation, StartRoute, StartStation,
                    EndsInZero, TypeOK, GncState
      <3>5. CASE GncArm \/ GncManualInput \/ GncUploadMission \/ GncIgnores
        BY <3>5 DEF GncArm, GncManualInput, GncUploadMission, GncIgnores,
                    EndsInZero, TypeOK, GncState
      <3>6. CASE GncStartSim \/ GncStopSim
        BY <3>6 DEF GncStartSim, GncStopSim, EndsInZero, TypeOK, GncState
      <3> QED  BY <2>3, <3>1, <3>2, <3>3, <3>4, <3>5, <3>6 DEF GncCommand
    <2>4. CASE GncRestart
      BY <2>4 DEF GncRestart, EndsInZero
    <2>5. CASE MgrCommand
      BY <2>5 DEF MgrCommand, MgrArm, MgrDisarm, MgrSetMode, MgrManualInput,
                  MgrStartRoute, MgrStopRoute, MgrStartStation, MgrStopStation,
                  MgrStartSim, MgrStopSim, MgrIgnores, MgrTakes, EndsInZero
    <2>6. CASE MgrSync \/ MgrHeartbeat \/ MgrRestart
      BY <2>6 DEF MgrSync, MgrHeartbeat, MgrRestart, EndsInZero
    <2>7. CASE OperatorSends \/ HalMute \/ MotorIdle \/ \E p \in Crashable : Crash(p)
      BY <2>7 DEF OperatorSends, HalMute, MotorIdle, Crash, EndsInZero
    <2> QED  BY <2>1, <2>2, <2>3, <2>4, <2>5, <2>6, <2>7 DEF Next, Manager, Gnc
  <1>2. AutoRunEndsInZero <=> [][EndsInZero]_vars
    BY DEF AutoRunEndsInZero, EndsInZero
  <1> QED  BY <1>1, <1>2, TypeCorrect, PTL DEF Spec

-----------------------------------------------------------------------------
(* The window in which only one of the two processes simulates.  Both read    *)
(* the same commands in the same order, so one queue is the end of the other: *)
(* what the process behind has yet to read of the lead decides whether the    *)
(* two simulation flags will agree when it has caught up.                     *)

MgrStarts == {"ok", "bad"}
GncStarts == {"ok"}

(* The simulation flag once command c is read.                                *)
SimRead(sim, starts, c) ==
    /\ c.type # "STOP_RT_SIM"
    /\ sim \/ (c.type = "START_RT_SIM" /\ c.arg \in starts)

(* The simulation flag once the first n commands of q are read.               *)
SimAfter(sim, starts, q, n) ==
    \/ sim /\ \A i \in 1..n : q[i].type # "STOP_RT_SIM"
    \/ \E i \in 1..n : /\ q[i].type = "START_RT_SIM" /\ q[i].arg \in starts
                       /\ \A j \in (i + 1)..n : q[j].type # "STOP_RT_SIM"

(* The commands of q are the last ones of long.                               *)
EndOf(q, long) ==
    /\ Len(q) <= Len(long)
    /\ \A k \in 1..Len(q) : long[Len(long) - Len(q) + k] = q[k]

(* When the process behind has caught up, the GNC simulates only if the       *)
(* Manager does.                                                              *)
MgrLeads(qm, qg, ms, gs) ==
    /\ EndOf(qm, qg)
    /\ SimAfter(gs, GncStarts, qg, Len(qg) - Len(qm)) => ms
GncLeads(qm, qg, ms, gs) ==
    /\ EndOf(qg, qm)
    /\ gs => SimAfter(ms, MgrStarts, qm, Len(qm) - Len(qg))
SimFollows(qm, qg, ms, gs) ==
    MgrLeads(qm, qg, ms, gs) \/ GncLeads(qm, qg, ms, gs)

(* The inductive invariant behind SimWindowWithoutRestart: a restarted process*)
(* has lost its queue and its flags.                                          *)
SimInv ==
    crashes = 0 => /\ up = Process
                   /\ SimFollows(cmds["manager"], cmds["gnc"], mgr.sim, gnc.sim)

(* Reading the head of a queue anticipates the same flag.                     *)
LEMMA SimAfterHead ==
    ASSUME NEW sim \in BOOLEAN, NEW starts, NEW q \in Seq(Command), q # <<>>,
           NEW n \in 1..Len(q)
    PROVE  SimAfter(SimRead(sim, starts, Head(q)), starts, Tail(q), n - 1)
             <=> SimAfter(sim, starts, q, n)
  <1>1. /\ Head(q) = q[1]
        /\ \A i \in 1..(n - 1) : Tail(q)[i] = q[i + 1]
    OBVIOUS
  <1>2. (\A i \in 1..(n - 1) : Tail(q)[i].type # "STOP_RT_SIM")
          <=> (\A i \in 2..n : q[i].type # "STOP_RT_SIM")
    <2>1. \A i \in 2..n : i - 1 \in 1..(n - 1) /\ (i - 1) + 1 = i
      OBVIOUS
    <2>2. \A i \in 1..(n - 1) : i + 1 \in 2..n
      OBVIOUS
    <2> QED  BY <1>1, <2>1, <2>2
  <1> DEFINE Late(i) == /\ q[i].type = "START_RT_SIM" /\ q[i].arg \in starts
                        /\ \A j \in (i + 1)..n : q[j].type # "STOP_RT_SIM"
             LateTail(i) ==
                 /\ Tail(q)[i].type = "START_RT_SIM" /\ Tail(q)[i].arg \in starts
                 /\ \A j \in (i + 1)..(n - 1) : Tail(q)[j].type # "STOP_RT_SIM"
  <1>3. ASSUME NEW i \in 1..(n - 1) PROVE LateTail(i) <=> Late(i + 1)
    <2>1. \A j \in (i + 1)..(n - 1) : Tail(q)[j] = q[j + 1] /\ j + 1 \in (i + 2)..n
      BY <1>1
    <2>2. \A j \in (i + 2)..n : j - 1 \in (i + 1)..(n - 1) /\ (j - 1) + 1 = j
      OBVIOUS
    <2>3. Tail(q)[i] = q[i + 1] /\ (i + 1) + 1 = i + 2
      BY <1>1
    <2>4. (\A j \in (i + 1)..(n - 1) : Tail(q)[j].type # "STOP_RT_SIM")
            <=> (\A j \in (i + 2)..n : q[j].type # "STOP_RT_SIM")
      BY <2>1, <2>2
    <2> QED  BY <2>3, <2>4
  <1>4. (\E i \in 1..(n - 1) : LateTail(i)) <=> (\E i \in 2..n : Late(i))
    <2>1. \A i \in 2..n : i - 1 \in 1..(n - 1) /\ (i - 1) + 1 = i
      OBVIOUS
    <2>2. \A i \in 1..(n - 1) : i + 1 \in 2..n
      OBVIOUS
    <2> HIDE DEF Late, LateTail
    <2> QED  BY <1>3, <2>1, <2>2
  <1>5. /\ 1..n = {1} \union 2..n
        /\ 1 + 1 = 2
    OBVIOUS
  <1>6. SimAfter(sim, starts, q, n) <=>
          \/ sim /\ q[1].type # "STOP_RT_SIM" /\ \A i \in 2..n : q[i].type # "STOP_RT_SIM"
          \/ Late(1)
          \/ \E i \in 2..n : Late(i)
    BY <1>5 DEF SimAfter
  <1>7. Late(1) <=> /\ q[1].type = "START_RT_SIM" /\ q[1].arg \in starts
                    /\ \A i \in 2..n : q[i].type # "STOP_RT_SIM"
    BY <1>5
  <1>8. SimAfter(SimRead(sim, starts, Head(q)), starts, Tail(q), n - 1) <=>
          \/ /\ SimRead(sim, starts, q[1])
             /\ \A i \in 1..(n - 1) : Tail(q)[i].type # "STOP_RT_SIM"
          \/ \E i \in 1..(n - 1) : LateTail(i)
    BY <1>1 DEF SimAfter
  <1> HIDE DEF Late, LateTail
  <1> QED  BY <1>2, <1>4, <1>6, <1>7, <1>8 DEF SimRead

(* One more command of the lead is read as SimRead reads it.                  *)
LEMMA SimAfterNext ==
    ASSUME NEW sim \in BOOLEAN, NEW starts, NEW q \in Seq(Command),
           NEW n \in Nat, n < Len(q)
    PROVE  SimAfter(sim, starts, q, n + 1)
             <=> SimRead(SimAfter(sim, starts, q, n), starts, q[n + 1])
  <1>1. 1..(n + 1) = 1..n \union {n + 1} /\ (n + 1 + 1)..(n + 1) = {}
    OBVIOUS
  <1>2. \A i \in 1..n : (i + 1)..(n + 1) = (i + 1)..n \union {n + 1}
    OBVIOUS
  <1>3. n + 1 \notin 1..n
    OBVIOUS
  <1> DEFINE Last(i, m) == /\ q[i].type = "START_RT_SIM" /\ q[i].arg \in starts
                           /\ \A j \in (i + 1)..m : q[j].type # "STOP_RT_SIM"
  <1>4. \A i \in 1..n : Last(i, n + 1) <=> Last(i, n) /\ q[n + 1].type # "STOP_RT_SIM"
    BY <1>2
  <1>5. Last(n + 1, n + 1) <=> q[n + 1].type = "START_RT_SIM" /\ q[n + 1].arg \in starts
    BY <1>1
  <1>6. /\ SimAfter(sim, starts, q, n + 1) <=>
             \/ sim /\ \A i \in 1..(n + 1) : q[i].type # "STOP_RT_SIM"
             \/ \E i \in 1..(n + 1) : Last(i, n + 1)
        /\ SimAfter(sim, starts, q, n) <=>
             \/ sim /\ \A i \in 1..n : q[i].type # "STOP_RT_SIM"
             \/ \E i \in 1..n : Last(i, n)
    BY DEF SimAfter
  <1> HIDE DEF Last
  <1> QED  BY <1>1, <1>4, <1>5, <1>6 DEF SimRead

(* A command appended behind the lead changes nothing in it.                  *)
LEMMA SimAfterAppend ==
    ASSUME NEW sim \in BOOLEAN, NEW starts, NEW q \in Seq(Command),
           NEW c \in Command, NEW n \in 0..Len(q)
    PROVE  SimAfter(sim, starts, Append(q, c), n) <=> SimAfter(sim, starts, q, n)
  <1>1. \A i \in 1..n : Append(q, c)[i] = q[i] /\ \A j \in (i + 1)..n : j \in 1..n
    OBVIOUS
  <1> QED  BY <1>1 DEF SimAfter

LEMMA DeliveryKeeps ==
    ASSUME NEW qm \in Seq(Command), NEW qg \in Seq(Command), NEW c \in Command,
           NEW ms \in BOOLEAN, NEW gs \in BOOLEAN, SimFollows(qm, qg, ms, gs)
    PROVE  SimFollows(Append(qm, c), Append(qg, c), ms, gs)
  <1>1. ASSUME NEW p \in Seq(Command), NEW q \in Seq(Command), EndOf(p, q)
        PROVE  EndOf(Append(p, c), Append(q, c))
    <2>1. /\ Len(Append(p, c)) = Len(p) + 1 /\ Len(Append(q, c)) = Len(q) + 1
          /\ Len(q) + 1 - (Len(p) + 1) = Len(q) - Len(p)
      OBVIOUS
    <2>2. ASSUME NEW k \in 1..(Len(p) + 1)
          PROVE  Append(q, c)[Len(q) - Len(p) + k] = Append(p, c)[k]
      <3>1. CASE k \in 1..Len(p)
        <4>1. Len(q) - Len(p) + k \in 1..Len(q)
          BY <1>1, <3>1 DEF EndOf
        <4> QED  BY <1>1, <3>1, <4>1 DEF EndOf
      <3>2. CASE k = Len(p) + 1
        <4>1. Len(q) - Len(p) + k = Len(q) + 1
          BY <3>2
        <4> QED  BY <3>2, <4>1
      <3>3. Len(p) \in Nat /\ (k \in 1..Len(p) \/ k = Len(p) + 1)
        BY <2>2
      <3> QED  BY <3>1, <3>2, <3>3
    <2>3. Len(p) =< Len(q) /\ Len(p) \in Nat /\ Len(q) \in Nat
      BY <1>1 DEF EndOf
    <2>4. Len(Append(p, c)) =< Len(Append(q, c))
      BY <2>1, <2>3
    <2>5. \A k \in 1..Len(Append(p, c)) :
            Append(q, c)[Len(Append(q, c)) - Len(Append(p, c)) + k]
              = Append(p, c)[k]
      <3>1. ASSUME NEW k \in 1..Len(Append(p, c))
            PROVE  Append(q, c)[Len(Append(q, c)) - Len(Append(p, c)) + k]
                     = Append(p, c)[k]
        <4>1. k \in 1..(Len(p) + 1)
          BY <2>1, <3>1
        <4>2. Len(Append(q, c)) - Len(Append(p, c)) + k = Len(q) - Len(p) + k
          BY <2>1, <2>3, <4>1
        <4> HIDE <2>1
        <4> QED  BY <2>2, <4>1, <4>2
      <3> QED  BY <3>1
    <2> QED  BY <2>4, <2>5 DEF EndOf
  <1>2. CASE MgrLeads(qm, qg, ms, gs)
    <2>1. Len(qg) - Len(qm) \in 0..Len(qg)
      <3>1. Len(qm) <= Len(qg)
        BY <1>2 DEF MgrLeads, EndOf
      <3> QED  BY <3>1
    <2>2. Len(Append(qg, c)) - Len(Append(qm, c)) = Len(qg) - Len(qm)
      OBVIOUS
    <2> QED  BY <1>1, <1>2, <2>1, <2>2, SimAfterAppend DEF MgrLeads, SimFollows
  <1>3. CASE GncLeads(qm, qg, ms, gs)
    <2>1. Len(qm) - Len(qg) \in 0..Len(qm)
      <3>1. Len(qg) <= Len(qm)
        BY <1>3 DEF GncLeads, EndOf
      <3> QED  BY <3>1
    <2>2. Len(Append(qm, c)) - Len(Append(qg, c)) = Len(qm) - Len(qg)
      OBVIOUS
    <2> QED  BY <1>1, <1>3, <2>1, <2>2, SimAfterAppend DEF GncLeads, SimFollows
  <1> QED  BY <1>2, <1>3 DEF SimFollows

(* Reading one command of the longer queue leaves it longer, or equal.        *)
LEMMA LongerRead ==
    ASSUME NEW q \in Seq(Command), NEW long \in Seq(Command), EndOf(q, long),
           Len(q) < Len(long)
    PROVE  EndOf(q, Tail(long)) /\ long # <<>> /\ Tail(long) \in Seq(Command)
  <1>1. /\ long # <<>> /\ Tail(long) \in Seq(Command)
        /\ Len(Tail(long)) = Len(long) - 1 /\ Len(q) <= Len(Tail(long))
    OBVIOUS
  <1>2. ASSUME NEW k \in 1..Len(q)
        PROVE  Tail(long)[Len(Tail(long)) - Len(q) + k] = q[k]
    <2>1. /\ Len(Tail(long)) - Len(q) + k \in 1..Len(Tail(long))
          /\ (Len(Tail(long)) - Len(q) + k) + 1 = Len(long) - Len(q) + k
      BY <1>1
    <2>2. \A i \in 1..Len(Tail(long)) : Tail(long)[i] = long[i + 1]
      OBVIOUS
    <2>3. Tail(long)[Len(Tail(long)) - Len(q) + k] = long[Len(long) - Len(q) + k]
      BY <2>1, <2>2
    <2> QED  BY <2>3 DEF EndOf
  <1> QED  BY <1>1, <1>2 DEF EndOf

(* Reading one command of the other puts it further behind.                   *)
LEMMA ShorterRead ==
    ASSUME NEW q \in Seq(Command), NEW long \in Seq(Command), EndOf(q, long),
           q # <<>>
    PROVE  /\ EndOf(Tail(q), long)
           /\ Len(long) - Len(q) \in Nat /\ Len(long) - Len(q) < Len(long)
           /\ Len(long) - Len(Tail(q)) = Len(long) - Len(q) + 1
           /\ long[Len(long) - Len(q) + 1] = Head(q)
  <1>1. \A k \in 1..Len(Tail(q)) : Tail(q)[k] = q[k + 1] /\ k + 1 \in 1..Len(q)
    OBVIOUS
  <1>2. Len(Tail(q)) = Len(q) - 1 /\ Head(q) = q[1] /\ 1 \in 1..Len(q)
    OBVIOUS
  <1> QED  BY <1>1, <1>2 DEF EndOf

LEMMA EqualEnds ==
    ASSUME NEW p \in Seq(Command), NEW q \in Seq(Command), EndOf(p, q),
           Len(p) = Len(q)
    PROVE  EndOf(q, p)
  BY DEF EndOf

LEMMA NothingAhead ==
    ASSUME NEW sim \in BOOLEAN, NEW starts, NEW q
    PROVE  SimAfter(sim, starts, q, 0) <=> sim
  BY DEF SimAfter

LEMMA MgrReadKeeps ==
    ASSUME NEW qm \in Seq(Command), NEW qg \in Seq(Command),
           NEW ms \in BOOLEAN, NEW gs \in BOOLEAN, SimFollows(qm, qg, ms, gs),
           qm # <<>>
    PROVE  SimFollows(Tail(qm), qg, SimRead(ms, MgrStarts, Head(qm)), gs)
  <1>1. CASE MgrLeads(qm, qg, ms, gs)
    <2> DEFINE n == Len(qg) - Len(qm)
    <2>1. /\ EndOf(Tail(qm), qg) /\ n \in Nat /\ n < Len(qg)
          /\ Len(qg) - Len(Tail(qm)) = n + 1 /\ qg[n + 1] = Head(qm)
      BY <1>1, ShorterRead DEF MgrLeads
    <2> HIDE DEF n
    <2>2. SimAfter(gs, GncStarts, qg, n + 1)
            => SimRead(SimAfter(gs, GncStarts, qg, n), GncStarts, Head(qm))
      BY <2>1, SimAfterNext
    <2>3. SimAfter(gs, GncStarts, qg, n) => ms
      BY <1>1 DEF MgrLeads, n
    <2> QED  BY <2>1, <2>2, <2>3 DEF MgrLeads, SimFollows, SimRead, MgrStarts, GncStarts
  <1>2. CASE GncLeads(qm, qg, ms, gs) /\ Len(qg) < Len(qm)
    <2>1. EndOf(qg, Tail(qm))
      BY <1>2, LongerRead DEF GncLeads
    <2>2. /\ Len(qm) - Len(qg) \in 1..Len(qm)
          /\ Len(Tail(qm)) - Len(qg) = (Len(qm) - Len(qg)) - 1
      BY <1>2
    <2> QED  BY <1>2, <2>1, <2>2, SimAfterHead DEF GncLeads, SimFollows
  <1>3. CASE GncLeads(qm, qg, ms, gs) /\ Len(qg) = Len(qm)
    <2>1. Len(qm) - Len(qg) = 0 /\ Len(qg) - Len(qm) = 0
      BY <1>3
    <2>2. MgrLeads(qm, qg, ms, gs)
      BY <1>3, <2>1, EqualEnds, NothingAhead DEF GncLeads, MgrLeads
    <2> QED  BY <1>1, <2>2
  <1> QED  BY <1>1, <1>2, <1>3 DEF SimFollows, GncLeads, EndOf

LEMMA GncReadKeeps ==
    ASSUME NEW qm \in Seq(Command), NEW qg \in Seq(Command),
           NEW ms \in BOOLEAN, NEW gs \in BOOLEAN, SimFollows(qm, qg, ms, gs),
           qg # <<>>
    PROVE  SimFollows(qm, Tail(qg), ms, SimRead(gs, GncStarts, Head(qg)))
  <1>1. CASE GncLeads(qm, qg, ms, gs)
    <2> DEFINE n == Len(qm) - Len(qg)
    <2>1. /\ EndOf(Tail(qg), qm) /\ n \in Nat /\ n < Len(qm)
          /\ Len(qm) - Len(Tail(qg)) = n + 1 /\ qm[n + 1] = Head(qg)
      BY <1>1, ShorterRead DEF GncLeads
    <2> HIDE DEF n
    <2>2. SimRead(SimAfter(ms, MgrStarts, qm, n), MgrStarts, Head(qg))
            => SimAfter(ms, MgrStarts, qm, n + 1)
      BY <2>1, SimAfterNext
    <2>3. gs => SimAfter(ms, MgrStarts, qm, n)
      BY <1>1 DEF GncLeads, n
    <2> QED  BY <2>1, <2>2, <2>3 DEF GncLeads, SimFollows, SimRead, MgrStarts, GncStarts
  <1>2. CASE MgrLeads(qm, qg, ms, gs) /\ Len(qm) < Len(qg)
    <2>1. EndOf(qm, Tail(qg))
      BY <1>2, LongerRead DEF MgrLeads
    <2>2. /\ Len(qg) - Len(qm) \in 1..Len(qg)
          /\ Len(Tail(qg)) - Len(qm) = (Len(qg) - Len(qm)) - 1
      BY <1>2
    <2> QED  BY <1>2, <2>1, <2>2, SimAfterHead DEF MgrLeads, SimFollows
  <1>3. CASE MgrLeads(qm, qg, ms, gs) /\ Len(qm) = Len(qg)
    <2>1. Len(qm) - Len(qg) = 0 /\ Len(qg) - Len(qm) = 0
      BY <1>3
    <2>2. GncLeads(qm, qg, ms, gs)
      BY <1>3, <2>1, EqualEnds, NothingAhead DEF GncLeads, MgrLeads
    <2> QED  BY <1>1, <2>2
  <1> QED  BY <1>1, <1>2, <1>3 DEF SimFollows, MgrLeads, EndOf

(* Both processes read the simulation commands as SimRead does; the GNC may   *)
(* publish a DISARM after it.                                                 *)
LEMMA MgrReads ==
    ASSUME TypeOK, MgrCommand
    PROVE  /\ cmds["manager"] # <<>> /\ gnc' = gnc
           /\ cmds' = [cmds EXCEPT !["manager"] = Tail(@)]
           /\ mgr'.sim <=> SimRead(mgr.sim, MgrStarts, Head(cmds["manager"]))
           /\ up' = up /\ crashes' = crashes
  <1> DEFINE c == Head(cmds["manager"])
  <1>1. PICK t : MgrTakes(t)
    BY DEF MgrCommand, MgrArm, MgrDisarm, MgrSetMode, MgrManualInput,
           MgrStartRoute, MgrStopRoute, MgrStartStation, MgrStopStation,
           MgrStartSim, MgrStopSim, MgrIgnores
  <1>2. c \in Command
    BY <1>1, ConsumeType DEF MgrTakes, TypeOK, Process
  <1>3. c.type = "START_RT_SIM" => c.arg \in MgrStarts
    BY <1>2 DEF Command, MgrStarts
  <1>4. mgr \in ManagerState
    BY DEF TypeOK
  <1>5. mgr'.sim <=> SimRead(mgr.sim, MgrStarts, c)
    <2>1. CASE MgrStartSim
      BY <1>3, <1>4, <2>1 DEF MgrStartSim, MgrTakes, MgrSimulating, SimRead, ManagerState
    <2>2. CASE MgrStopSim
      BY <1>4, <2>2 DEF MgrStopSim, MgrTakes, SimRead, ManagerState
    <2>3. CASE MgrArm \/ MgrDisarm \/ MgrManualInput \/ MgrIgnores
      BY <1>4, <2>3 DEF MgrArm, MgrArmed, MgrDisarm, MgrManualInput, MgrIgnores,
                        MgrTakes, SimRead, ManagerState
    <2>4. CASE MgrSetMode
      BY <1>4, <2>4 DEF MgrSetMode, MgrSwitched, MgrTakes, SimRead, ManagerState
    <2>5. CASE MgrStartRoute \/ MgrStopRoute \/ MgrStartStation \/ MgrStopStation
      BY <1>4, <2>5 DEF MgrStartRoute, MgrStopRoute, MgrStartStation, MgrStopStation,
                        MgrTakes, SimRead, ManagerState
    <2> QED  BY <2>1, <2>2, <2>3, <2>4, <2>5 DEF MgrCommand
  <1> QED  BY <1>1, <1>5 DEF MgrTakes, procVars

LEMMA GncReads ==
    ASSUME TypeOK, GncCommand
    PROVE  /\ cmds["gnc"] # <<>> /\ mgr' = mgr
           /\ LET rest == [cmds EXCEPT !["gnc"] = Tail(@)]
              IN  cmds' \in {rest, Deliver(rest, Disarm)}
           /\ gnc'.sim <=> SimRead(gnc.sim, GncStarts, Head(cmds["gnc"]))
           /\ up' = up /\ crashes' = crashes
  <1> DEFINE c == Head(cmds["gnc"])
             rest == [cmds EXCEPT !["gnc"] = Tail(@)]
  <1>1. PICK t : GncTakes(t)
    BY DEF GncCommand, GncArm, GncDisarm, GncSetMode, GncManualInput,
           GncUploadMission, GncStartRoute, GncStopRoute, GncStartStation,
           GncStopStation, GncIgnores, GncStartSim, GncStopSim
  <1>2. gnc \in GncState
    BY DEF TypeOK
  <1>3. /\ gnc'.sim <=> SimRead(gnc.sim, GncStarts, c)
        /\ cmds' \in {rest, Deliver(rest, Disarm)}
    <2>1. CASE GncStartSim
      BY <1>2, <2>1 DEF GncStartSim, GncTakes, GncArg, SimRead, GncStarts, GncState
    <2>2. CASE GncStopSim
      BY <1>2, <2>2 DEF GncStopSim, GncTakes, SimRead, GncState
    <2>3. CASE GncArm \/ GncManualInput \/ GncUploadMission \/ GncIgnores
      BY <1>2, <2>3 DEF GncArm, GncManualInput, GncUploadMission, GncIgnores,
                        GncConsumes, GncTakes, SimRead, GncState
    <2>4. CASE GncDisarm \/ GncStopRoute \/ GncStopStation
      BY <1>2, <2>4 DEF GncDisarm, GncStopRoute, GncStopStation, StopRoute,
                        StopStation, GncConsumes, GncTakes, SimRead, GncState
    <2>5. CASE GncSetMode
      BY <1>2, <2>5 DEF GncSetMode, Switched, GncConsumes, GncTakes, SimRead, GncState
    <2>6. CASE GncStartRoute \/ GncStartStation
      BY <1>2, <2>6 DEF GncStartRoute, GncStartStation, StartRoute, StartStation,
                        GncConsumes, GncTakes, SimRead, GncState
    <2> QED  BY <2>1, <2>2, <2>3, <2>4, <2>5, <2>6 DEF GncCommand
  <1> QED  BY <1>1, <1>3 DEF GncTakes, procVars

(* Outside the commands the GNC keeps its simulation flag.                    *)
LEMMA GncRunKeepsSim == TypeOK /\ GncRun => gnc'.sim = gnc.sim
  <1> SUFFICES ASSUME TypeOK, GncRun PROVE gnc'.sim = gnc.sim
    OBVIOUS
  <1>1. PICK nav \in BOOLEAN, gnss \in GnssActions, comm \in CommActions :
          Executes(Fire(Fire([gnc EXCEPT !.pos = nav], gnss), comm),
                   IF gnss = "emergency_stop" THEN "zero" ELSE motor)
    BY DEF GncRun
  <1>2. ASSUME NEW g \in GncState, NEW act \in GnssActions \union CommActions
        PROVE  Fire(g, act).sim = g.sim
    BY <1>2 DEF Fire, GnssActions, CommActions, EmergencyStop, FailsafeReturnHome,
                FailsafeStationKeeping, StopRoute, StopStation, StartRoute,
                StartStation, GncState
  <1> DEFINE g0 == [gnc EXCEPT !.pos = nav]
             h == Fire(Fire(g0, gnss), comm)
  <1>3. g0 \in GncState /\ g0.sim = gnc.sim
    BY DEF TypeOK, GncState
  <1>4. h \in GncState /\ h.sim = gnc.sim
    <2>1. Fire(g0, gnss) \in GncState /\ Fire(g0, gnss).sim = gnc.sim
      BY <1>2, <1>3, FireType
    <2> QED  BY <1>2, <2>1, FireType
  <1>5. gnc' = h \/ gnc' = StopRoute(h)
    BY <1>1 DEF Executes
  <1> HIDE DEF h
  <1> QED  BY <1>4, <1>5 DEF StopRoute, GncState

LEMMA SimInvStep == TypeOK /\ SimInv /\ [Next]_vars => SimInv'
  <1> SUFFICES ASSUME TypeOK, SimInv, [Next]_vars, crashes' = 0
               PROVE  /\ up' = Process
                      /\ SimFollows(cmds'["manager"], cmds'["gnc"], mgr'.sim, gnc'.sim)
    BY DEF SimInv
  <1> DEFINE qm == cmds["manager"]
             qg == cmds["gnc"]
  <1>1. /\ qm \in Seq(Command) /\ qg \in Seq(Command)
        /\ mgr.sim \in BOOLEAN /\ gnc.sim \in BOOLEAN
    BY DEF TypeOK, Process, ManagerState, GncState
  <1>2. crashes = 0
    BY DEF Next, Manager, Gnc, MgrCommand, MgrArm, MgrDisarm, MgrSetMode,
           MgrManualInput, MgrStartRoute, MgrStopRoute, MgrStartStation,
           MgrStopStation, MgrStartSim, MgrStopSim, MgrIgnores, MgrTakes, MgrSync,
           MgrHeartbeat, GncCommand, GncArm, GncDisarm, GncSetMode, GncManualInput,
           GncUploadMission, GncStartRoute, GncStopRoute, GncStartStation,
           GncStopStation, GncIgnores, GncStartSim, GncStopSim, GncTakes,
           GncHeartbeat, GncRun, HalMute, MotorIdle, Crash, MgrRestart, GncRestart,
           OperatorSends, procVars, vars, TypeOK
  <1>3. up = Process /\ SimFollows(qm, qg, mgr.sim, gnc.sim)
    BY <1>2 DEF SimInv
  <1>4. ASSUME NEW queues \in [Process -> Seq(Command)], NEW c \in Command
        PROVE  /\ Deliver(queues, c)["manager"] = Append(queues["manager"], c)
               /\ Deliver(queues, c)["gnc"] = Append(queues["gnc"], c)
    BY <1>3 DEF Deliver, Process
  <1>5. CASE OperatorSends
    <2>1. PICK c \in Command : cmds' = Deliver(cmds, c)
      BY <1>5, ConstantsAssumption DEF OperatorSends
    <2>2. cmds'["manager"] = Append(qm, c) /\ cmds'["gnc"] = Append(qg, c)
      BY <1>4, <2>1 DEF TypeOK
    <2>3. mgr' = mgr /\ gnc' = gnc /\ up' = up
      BY <1>5 DEF OperatorSends, procVars
    <2> HIDE DEF qm, qg
    <2> QED  BY <1>1, <1>3, <2>2, <2>3, DeliveryKeeps
  <1>6. CASE MgrCommand
    <2>1. cmds'["manager"] = Tail(qm) /\ cmds'["gnc"] = qg /\ qm # <<>>
      BY <1>6, MgrReads DEF TypeOK, Process
    <2>2. /\ mgr'.sim <=> SimRead(mgr.sim, MgrStarts, Head(qm))
          /\ gnc' = gnc /\ up' = up
      BY <1>6, MgrReads
    <2>3. mgr'.sim \in BOOLEAN
      BY <1>6, MgrCommandType DEF TypeOK, ManagerState
    <2>4. SimFollows(Tail(qm), qg, SimRead(mgr.sim, MgrStarts, Head(qm)), gnc.sim)
      BY <1>1, <1>3, <2>1, MgrReadKeeps
    <2>5. mgr'.sim = SimRead(mgr.sim, MgrStarts, Head(qm))
      BY <2>2, <2>3 DEF SimRead
    <2> QED  BY <1>3, <2>1, <2>2, <2>4, <2>5
  <1>7. CASE GncCommand
    <2> DEFINE rest == [cmds EXCEPT !["gnc"] = Tail(@)]
    <2>1. /\ qg # <<>> /\ mgr' = mgr /\ up' = up
          /\ cmds' \in {rest, Deliver(rest, Disarm)}
          /\ gnc'.sim <=> SimRead(gnc.sim, GncStarts, Head(qg))
      BY <1>7, GncReads
    <2>2. gnc'.sim \in BOOLEAN
      BY <1>7, GncCommandType DEF TypeOK, GncState
    <2>3. gnc'.sim = SimRead(gnc.sim, GncStarts, Head(qg))
      BY <2>1, <2>2 DEF SimRead
    <2>4. SimFollows(qm, Tail(qg), mgr.sim, gnc'.sim)
      BY <1>1, <1>3, <2>1, <2>3, GncReadKeeps
    <2>5. /\ rest["manager"] = qm /\ rest["gnc"] = Tail(qg)
          /\ rest \in [Process -> Seq(Command)] /\ Tail(qg) \in Seq(Command)
      BY <2>1 DEF TypeOK, Process
    <2> HIDE DEF rest, qm, qg
    <2>6. CASE cmds' = rest
      BY <1>3, <2>1, <2>4, <2>5, <2>6
    <2>7. CASE cmds' = Deliver(rest, Disarm)
      <3>1. cmds'["manager"] = Append(qm, Disarm) /\ cmds'["gnc"] = Append(Tail(qg), Disarm)
        BY <1>4, <2>5, <2>7, DisarmType
      <3> QED  BY <1>1, <1>3, <2>1, <2>2, <2>4, <2>5, <3>1, DisarmType, DeliveryKeeps
    <2> QED  BY <2>1, <2>6, <2>7
  <1>8. CASE MgrSync
    <2>1. Head(syncQ) \in SyncOp
      BY <1>8, QueueType DEF TypeOK, MgrSync
    <2>2. mgr'.sim = mgr.sim
      BY <1>8, <2>1 DEF MgrSync, SyncedBy, SyncOp, TypeOK, ManagerState
    <2> QED  BY <1>3, <1>8, <2>2 DEF MgrSync
  <1>9. CASE GncHeartbeat
    <2>1. gnc'.sim = gnc.sim
      BY <1>9 DEF GncHeartbeat, Heard, Switched, TypeOK, GncState
    <2> QED  BY <1>3, <1>9, <2>1 DEF GncHeartbeat
  <1>10. CASE GncRun
    BY <1>3, <1>10, GncRunKeepsSim DEF GncRun
  <1>11. CASE MgrHeartbeat \/ HalMute \/ MotorIdle \/ UNCHANGED vars
    BY <1>3, <1>11 DEF MgrHeartbeat, HalMute, MotorIdle, procVars, vars
  <1>12. ~MgrRestart /\ ~GncRestart
    BY <1>3 DEF MgrRestart, GncRestart, Process
  <1>13. ~\E p \in Crashable : Crash(p)
    BY <1>2 DEF Crash
  <1> QED  BY <1>5, <1>6, <1>7, <1>8, <1>9, <1>10, <1>11, <1>12, <1>13
           DEF Next, Manager, Gnc

(* As long as no process has crashed, the Manager is armed while the GNC      *)
(* simulates only in the window in which one of them has yet to read the      *)
(* START_RT_SIM or the STOP_RT_SIM the other has read (handle_command of both *)
(* processes, _start_rt_sim, _stop_rt_sim).  Inside the window it may be: an  *)
(* ARM and a MANUAL_INPUT queued behind a STOP_RT_SIM the GNC has yet to read *)
(* reach the motors while the GNC still simulates.                            *)
THEOREM SimWindowHolds == Spec => []SimWindowWithoutRestart
  <1>1. Init => SimInv
    BY DEF Init, SimInv, SimFollows, MgrLeads, EndOf, SimAfter, Process,
           ManagerReset, GncReset
  <1>2. TypeOK /\ SimNeverArmed /\ SimInv => SimWindowWithoutRestart
    <2> SUFFICES ASSUME TypeOK, SimNeverArmed, SimInv, crashes = 0, gnc.sim, mgr.armed
                 PROVE  InQueue("manager", "START_RT_SIM") \/ InQueue("gnc", "STOP_RT_SIM")
      BY DEF SimWindowWithoutRestart, SimWindow
    <2> DEFINE qm == cmds["manager"]
               qg == cmds["gnc"]
    <2>1. ~mgr.sim /\ SimFollows(qm, qg, mgr.sim, gnc.sim)
      BY DEF SimNeverArmed, SimInv
    <2>2. qm \in Seq(Command) /\ qg \in Seq(Command)
      BY DEF TypeOK, Process
    <2>3. CASE MgrLeads(qm, qg, mgr.sim, gnc.sim)
      <3>1. PICK i \in 1..(Len(qg) - Len(qm)) : qg[i].type = "STOP_RT_SIM"
        BY <2>1, <2>3 DEF MgrLeads, SimAfter
      <3>2. i \in 1..Len(qg)
        BY <2>2
      <3> QED  BY <3>1, <3>2 DEF InQueue
    <2>4. CASE GncLeads(qm, qg, mgr.sim, gnc.sim)
      <3>1. PICK i \in 1..(Len(qm) - Len(qg)) : qm[i].type = "START_RT_SIM"
        BY <2>1, <2>4 DEF GncLeads, SimAfter
      <3>2. i \in 1..Len(qm)
        BY <2>2
      <3> QED  BY <3>1, <3>2 DEF InQueue
    <2> QED  BY <2>1, <2>3, <2>4 DEF SimFollows
  <1> QED  BY <1>1, <1>2, SimInvStep, TypeCorrect, SimNeverArmedHolds, PTL DEF Spec

-----------------------------------------------------------------------------
(* No thrust reaches the hardware while both processes simulate.              *)

Isolated == gnc.sim /\ mgr.sim /\ up = Process => motor' \in {motor, "zero"}

(* A simulating GNC checks no failsafe and executes without the hardware: only*)
(* the zero frame a finished route ends with goes through.                    *)
LEMMA RunIsolated == TypeOK /\ GncRun => Isolated
  <1> SUFFICES ASSUME TypeOK, GncRun, gnc.sim PROVE motor' \in {motor, "zero"}
    BY DEF Isolated
  <1>1. PICK nav \in BOOLEAN, gnss \in GnssActions, comm \in CommActions :
          LET g0 == [gnc EXCEPT !.pos = nav]
          IN  /\ FailsafesChecked(g0) \/ (gnss = "none" /\ comm = "none")
              /\ Executes(Fire(Fire(g0, gnss), comm),
                          IF gnss = "emergency_stop" THEN "zero" ELSE motor)
    BY DEF GncRun
  <1> DEFINE g0 == [gnc EXCEPT !.pos = nav]
  <1>2. g0.sim
    BY DEF TypeOK, GncState
  <1>3. gnss = "none" /\ comm = "none"
    BY <1>1, <1>2 DEF FailsafesChecked
  <1>4. Executes(g0, motor)
    BY <1>1, <1>3 DEF Fire
  <1> HIDE DEF g0
  <1> QED  BY <1>2, <1>4 DEF Executes

(* Once both processes simulate, no step of either puts thrust on the hardware*)
(* (the source "sim" of a simulated frame, the gate of MANUAL_INPUT in the    *)
(* Manager).                                                                  *)
THEOREM SimIsolationHolds == Spec => SimIsolation
  <1>1. TypeOK /\ [Next]_vars => [Isolated]_vars
    <2> SUFFICES ASSUME TypeOK, Next PROVE Isolated \/ UNCHANGED vars
      OBVIOUS
    <2>1. CASE GncRun
      BY <2>1, RunIsolated
    <2>2. CASE GncHeartbeat
      BY <2>2 DEF GncHeartbeat, ZeroedIf, Isolated
    <2>3. CASE GncCommand
      BY <2>3 DEF GncCommand, GncArm, GncDisarm, GncSetMode, GncManualInput,
                  GncUploadMission, GncStartRoute, GncStopRoute, GncStartStation,
                  GncStopStation, GncIgnores, GncStartSim, GncStopSim,
                  ManualDrives, ZeroedIf, Isolated
    <2>4. CASE MgrCommand
      BY <2>4 DEF MgrCommand, MgrArm, MgrDisarm, MgrSetMode, MgrManualInput,
                  MgrStartRoute, MgrStopRoute, MgrStartStation, MgrStopStation,
                  MgrStartSim, MgrStopSim, MgrIgnores, Isolated
    <2>5. CASE MgrSync \/ MgrHeartbeat \/ MgrRestart \/ GncRestart
      BY <2>5 DEF MgrSync, MgrHeartbeat, MgrRestart, GncRestart, Isolated
    <2>6. CASE OperatorSends \/ HalMute \/ MotorIdle \/ \E p \in Crashable : Crash(p)
      BY <2>6 DEF OperatorSends, HalMute, MotorIdle, Crash, Isolated
    <2> QED  BY <2>1, <2>2, <2>3, <2>4, <2>5, <2>6 DEF Next, Manager, Gnc
  <1>2. SimIsolation <=> [][Isolated]_vars
    BY DEF SimIsolation, Isolated
  <1> QED  BY <1>1, <1>2, TypeCorrect, PTL DEF Spec
=============================================================================
