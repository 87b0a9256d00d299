----------------------------- MODULE MCHardware -----------------------------
(* The components between the wires and the navigation state, and the motor   *)
(* node, checked in one run.  A behaviour of this module is a behaviour of    *)
(* the one component in focus, the others stay in their initial states.       *)
EXTENDS SensorNodes, GnssDriver, ImuBurst, PowerMeter, Esp32Link, Navigation

VARIABLE focus

Only(f) == focus = f /\ UNCHANGED focus
Init == /\ focus \in {"sensors", "gnss", "imu", "power", "esp32", "navigation"}
        /\ SensorInit /\ GnssInit /\ ImuInit /\ PowerInit /\ EspInit /\ NavInit
        \* one initial state is enough for the components that rest
        /\ focus # "sensors" => phase = [n \in Nodes |-> "start"]
        /\ focus # "gnss" => caster
        /\ focus # "esp32" => relay = 1
        \* and the receiver starts with RTK, which reception may take from it
        /\ gps = "rtk"

OfSensors == Only("sensors") /\ SensorNext /\ UNCHANGED <<gnssVars, imuVars, powerVars, espVars, navVars>>
OfGnss == Only("gnss") /\ GnssNext /\ UNCHANGED <<sensorVars, imuVars, powerVars, espVars, navVars>>
OfImu == Only("imu") /\ ImuNext /\ UNCHANGED <<sensorVars, gnssVars, powerVars, espVars, navVars>>
OfPower == Only("power") /\ PowerNext /\ UNCHANGED <<sensorVars, gnssVars, imuVars, espVars, navVars>>
OfEsp == Only("esp32") /\ EspNext /\ UNCHANGED <<sensorVars, gnssVars, imuVars, powerVars, navVars>>
OfNav == Only("navigation") /\ NavNext
       /\ UNCHANGED <<sensorVars, gnssVars, imuVars, powerVars, espVars>>

Next == OfSensors \/ OfGnss \/ OfImu \/ OfPower \/ OfEsp \/ OfNav
vars == <<focus, sensorVars, gnssVars, imuVars, powerVars, espVars, navVars>>

(* The fairness of each component, for the one in focus.                      *)
Fairness ==
    /\ \A n \in Nodes :
        /\ WF_sensorVars(focus = "sensors" /\ StartDriver(n))
        /\ WF_sensorVars(focus = "sensors" /\ TearDown(n))
        /\ WF_sensorVars(focus = "sensors" /\ Recreate(n))
        /\ WF_sensorVars(focus = "sensors" /\ Heartbeat(n))
        /\ WF_sensorVars(focus = "sensors" /\ Data(n))
        /\ WF_sensorVars(focus = "sensors" /\ Silence(n))
        /\ WF_sensorVars(focus = "sensors" /\ ReaderGivesUp(n))
        /\ WF_sensorVars(focus = "sensors" /\ LineReturns(n))
    /\ WF_gnssVars(focus = "gnss" /\ NtripStep)
    /\ WF_espVars(focus = "esp32" /\ OpenPort) /\ WF_espVars(focus = "esp32" /\ SendFrame)
    /\ SF_espVars(focus = "esp32" /\ BoardReceives)
    /\ WF_espVars(focus = "esp32" /\ AckTimeout) /\ WF_espVars(focus = "esp32" /\ BoardTimeout)
    \* NavLoop, which is always enabled, is the step that changes what is read
    /\ WF_reading(focus = "navigation" /\ reading' \in {"gnss", "imu"} \ {reading})
    /\ WF_navVars(focus = "navigation" /\ HearMute)
    /\ WF_navVars(focus = "navigation" /\ RealGnss)
    /\ WF_navVars(focus = "navigation" /\ AgeFix)
    /\ WF_navVars(focus = "navigation" /\ AgeHeading)

Spec == Init /\ [][Next]_vars /\ Fairness

(* The type invariants of the six components.                                 *)
TypesHold == SensorTypeOK /\ GnssTypeOK /\ ImuTypeOK /\ PowerTypeOK /\ EspTypeOK /\ NavTypeOK

(* What a driver hands on is recent and complete, and only a configuration    *)
(* during a retry's wait leaves a reader of a replaced driver behind: the     *)
(* promises of GnssDriver, ImuBurst and SensorNodes.                          *)
DriversAreFaithful ==
    []SnapshotAge /\ ReaderLeftBehind /\ PublishesLatest /\ WholeBurstPublished

(* The liveness of each component (SensorNodes, GnssDriver, Esp32Link), in    *)
(* the behaviours in which it moves.                                          *)
(* A sensor that delivers nothing for good does not stay reported OK.         *)
LossIsReported == focus = "sensors" => LossReported
(* A port lost while data was flowing is closed and opened again.             *)
PortIsReopened == focus = "sensors" => LostPortReopened
(* The power node always comes back, whenever its device was lost.            *)
PowerNodeReturns == focus = "sensors" => PowerComesBack
(* The link to an NTRIP caster that keeps serving comes back (_rtcm_loop).    *)
CasterIsReconnected == focus = "gnss" => CasterReconnected
(* stop() ends the RTCM thread, whatever it was doing.                        *)
StopEndsRtcmThread == focus = "gnss" => StopEndsThread
(* Relays that stay put reach the board, whatever frames are lost.            *)
RelaysAreSet == focus = "esp32" => RelaysReachBoard
(* A vehicle commanded by nobody comes to rest, whatever the serial line did. *)
UncommandedVehicleRests == focus = "esp32" => UncommandedRests
(* The board follows the node over a serial line that loses frames.           *)
BoardFollows == RelaysAreSet /\ UncommandedVehicleRests
(* A lost fix is published as lost, for good (NavigationProcess).             *)
FixLossIsPublished == focus = "navigation" => FixLossPublished
(* After a simulation the real position comes back to a receiver with RTK.    *)
RtkBringsPositionBack == focus = "navigation" => RtkBringsBack
(* The published position follows the receiver, in loss and in recovery.      *)
FixIsFollowed == FixLossIsPublished /\ RtkBringsPositionBack
=============================================================================
