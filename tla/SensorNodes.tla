----------------------------- MODULE SensorNodes -----------------------------
(* The sensor nodes of the HAL process (drivers/process.py): GnssNode,        *)
(* ImuNode and PowerNode, each a thread with the same life cycle (start the   *)
(* driver, monitor it, tear it down, wait, retry), the reader thread of each  *)
(* driver, and the HAL's mute switch.  A driver outlives its node's interest  *)
(* in it when nobody stops it: such a driver is an orphan.                    *)
(*                                                                            *)
(* Time is abstract: fresh[n] turns FALSE when more than _STATUS_TIMEOUT has  *)
(* passed since _last_data_time, which can only be while no reader delivers.  *)
EXTENDS Naturals

CONSTANTS
    Nodes,          \* the nodes of this instance, among AllNodes
    MaxFaults,      \* faults of the lines (bounds TLC)
    MaxRequests     \* mutes, unmutes and configurations (bounds TLC)

AllNodes == {"gnss", "imu", "power"}

ASSUME SensorAssumption ==
    Nodes \subseteq AllNodes /\ MaxFaults \in Nat /\ MaxRequests \in Nat

VARIABLES
    phase,      \* "absent" (constructor failed), "start", "monitor" or "wait"
    driver,     \* the node's driver: "idle", "open", or "lost" (its port is gone)
    orphan,     \* a reader of a driver the node has dropped is still alive
    connected,  \* _connected
    fresh,      \* data within _STATUS_TIMEOUT
    muted,      \* the node's _muted event
    status,     \* the last SensorStatusMessage
    line,       \* the device: "ok", "silent" (no answer) or "gone" (unplugged)
    early,      \* history: a configuration has come while the GNSS node waits
    faults, requests

nodeVars == <<phase, driver, orphan, connected, fresh, muted, status, early>>
sensorVars == <<nodeVars, line, faults, requests>>

Statuses == {"none", "OK", "ERROR", "DISCONNECTED"}

(* setup(): a constructor that raises leaves the node None for good.          *)
SensorInit ==
    /\ phase \in [Nodes -> {"absent", "start"}]
    /\ driver = [n \in Nodes |-> "idle"]
    /\ orphan = [n \in Nodes |-> FALSE]
    /\ connected = [n \in Nodes |-> FALSE]
    /\ fresh = [n \in Nodes |-> FALSE]
    /\ muted = [n \in Nodes |-> FALSE]
    /\ status = [n \in Nodes |-> "none"]
    /\ line = [n \in Nodes |-> "ok"]
    /\ early = FALSE
    /\ faults = 0 /\ requests = 0

(* A port can be opened unless the device is unplugged.                       *)
Started(n) == IF line[n] = "gone" THEN "idle" ELSE "open"

(* The top of run(): driver.start() either opens the port or the node reports *)
(* DISCONNECTED and waits.                                                    *)
StartDriver(n) ==
    /\ phase[n] = "start"
    /\ driver' = [driver EXCEPT ![n] = Started(n)]
    /\ connected' = [connected EXCEPT ![n] = FALSE]
    /\ IF line[n] = "gone"
       THEN /\ phase' = [phase EXCEPT ![n] = "wait"]
            /\ status' = [status EXCEPT ![n] = "DISCONNECTED"]
            /\ UNCHANGED fresh
       ELSE /\ phase' = [phase EXCEPT ![n] = "monitor"]
            /\ fresh' = [fresh EXCEPT ![n] = TRUE]
            /\ UNCHANGED status
    /\ UNCHANGED <<orphan, muted, early, line, faults, requests>>

(* A reader thread hears the device.                                          *)
Hears(n) == line[n] = "ok" /\ (driver[n] = "open" \/ orphan[n])

(* The callback of a reader publishes unless the node is muted: a muted node  *)
(* does not note that data arrived either.                                    *)
Delivering(n) == Hears(n) /\ ~muted[n]

Data(n) ==
    /\ Delivering(n)
    /\ fresh' = [fresh EXCEPT ![n] = TRUE]
    /\ connected' = [connected EXCEPT ![n] = TRUE]
    /\ status' = [status EXCEPT ![n] = IF connected[n] THEN @ ELSE "OK"]
    /\ UNCHANGED <<phase, driver, orphan, muted, early, line, faults, requests>>

(* _STATUS_TIMEOUT passes without data.                                       *)
Silence(n) ==
    /\ fresh[n] /\ ~Delivering(n)
    /\ fresh' = [fresh EXCEPT ![n] = FALSE]
    /\ UNCHANGED <<phase, driver, orphan, connected, muted, status, early, line, faults, requests>>

(* PZEMDriver._read_loop ends after MAX_CONSECUTIVE_ERRORS; the other readers *)
(* keep retrying their dead handle.                                           *)
ReaderGivesUp(n) ==
    /\ n = "power" /\ (driver[n] = "lost" \/ (driver[n] = "open" /\ line[n] # "ok"))
    /\ driver' = [driver EXCEPT ![n] = "idle"]
    /\ UNCHANGED <<phase, orphan, connected, fresh, muted, status, early, line, faults, requests>>

ReaderEnded(n) == n = "power" /\ driver[n] = "idle"

TimedOut(n) == connected[n] /\ ~fresh[n]

(* One iteration of the monitor loop: the periodic status, or the end of the  *)
(* loop, which stops the driver and waits.                                    *)
Heartbeat(n) ==
    /\ phase[n] = "monitor" /\ ~ReaderEnded(n) /\ ~TimedOut(n)
    /\ status' = [status EXCEPT ![n] = IF connected[n] THEN "OK" ELSE "ERROR"]
    /\ UNCHANGED <<phase, driver, orphan, connected, fresh, muted, early, line, faults, requests>>

TearDown(n) ==
    /\ phase[n] = "monitor" /\ (ReaderEnded(n) \/ TimedOut(n))
    /\ phase' = [phase EXCEPT ![n] = "wait"]
    /\ connected' = [connected EXCEPT ![n] = FALSE]
    /\ status' = [status EXCEPT ![n] = "ERROR"]
    /\ driver' = [driver EXCEPT ![n] = "idle"]
    /\ UNCHANGED <<orphan, fresh, muted, early, line, faults, requests>>

(* After _RETRY_INTERVAL a new driver object replaces the old one, running or *)
(* not.                                                                       *)
Recreate(n) ==
    /\ phase[n] = "wait"
    /\ phase' = [phase EXCEPT ![n] = "start"]
    /\ orphan' = [orphan EXCEPT ![n] = @ \/ driver[n] # "idle"]
    /\ driver' = [driver EXCEPT ![n] = "idle"]
    /\ early' = (early /\ n # "gnss")
    /\ UNCHANGED <<connected, fresh, muted, status, line, faults, requests>>

(* GnssNode._check_commands, called by the monitor loop and by the GNSS       *)
(* node's waits: SET_GNSS_CONFIG stops the driver, then starts a new one; a   *)
(* payload that does not convert leaves the old one stopped.                  *)
ApplyConfig(valid) ==
    /\ "gnss" \in Nodes /\ phase["gnss"] \in {"monitor", "wait"}
    /\ requests < MaxRequests
    /\ requests' = requests + 1
    /\ driver' = [driver EXCEPT !["gnss"] = IF valid THEN Started("gnss") ELSE "idle"]
    /\ early' = (early \/ phase["gnss"] = "wait")
    /\ UNCHANGED <<phase, orphan, connected, fresh, muted, status, line, faults>>

(* HALProcess.loop: MUTE_SENSORS and UNMUTE_SENSORS reach the GNSS and the    *)
(* IMU node, if they exist.                                                   *)
SetMuted(on) ==
    /\ requests < MaxRequests
    /\ requests' = requests + 1
    /\ muted' = [n \in Nodes |-> IF n # "power" /\ phase[n] # "absent" THEN on ELSE muted[n]]
    /\ UNCHANGED <<phase, driver, orphan, connected, fresh, status, early, line, faults>>

(* The device stops answering or is unplugged; an open handle does not        *)
(* survive the unplugging, nor does the port an orphan reads.                 *)
LineFails(n, how) ==
    /\ line[n] = "ok" /\ faults < MaxFaults
    /\ line' = [line EXCEPT ![n] = how]
    /\ faults' = faults + 1
    /\ driver' = [driver EXCEPT ![n] = IF how = "gone" /\ @ = "open" THEN "lost" ELSE @]
    /\ orphan' = [orphan EXCEPT ![n] = @ /\ how # "gone"]
    /\ UNCHANGED <<phase, connected, fresh, muted, status, early, requests>>

LineReturns(n) ==
    /\ line[n] # "ok"
    /\ line' = [line EXCEPT ![n] = "ok"]
    /\ UNCHANGED <<nodeVars, faults, requests>>

NodeStep(n) ==
    \/ StartDriver(n) \/ Heartbeat(n) \/ TearDown(n) \/ Recreate(n)

SensorNext ==
    \/ \E n \in Nodes :
        \/ NodeStep(n) \/ Data(n) \/ Silence(n) \/ ReaderGivesUp(n)
        \/ LineFails(n, "silent") \/ LineFails(n, "gone") \/ LineReturns(n)
    \/ \E b \in BOOLEAN : ApplyConfig(b) \/ SetMuted(b)

(* The node's thread loops, readers run while their device talks, time passes *)
(* and devices come back.                                                     *)
SensorFairness ==
    \A n \in Nodes :
        /\ WF_sensorVars(StartDriver(n)) /\ WF_sensorVars(TearDown(n))
        /\ WF_sensorVars(Recreate(n)) /\ WF_sensorVars(Heartbeat(n))
        /\ WF_sensorVars(Data(n)) /\ WF_sensorVars(Silence(n))
        /\ WF_sensorVars(ReaderGivesUp(n)) /\ WF_sensorVars(LineReturns(n))

SensorSpec == SensorInit /\ [][SensorNext]_sensorVars /\ SensorFairness

-----------------------------------------------------------------------------
(* The type invariant of the nodes and their lines; before it is started a    *)
(* driver owns no port.                                                       *)
SensorTypeOK ==
    /\ phase \in [Nodes -> {"absent", "start", "monitor", "wait"}]
    /\ driver \in [Nodes -> {"idle", "open", "lost"}]
    /\ \A n \in Nodes : phase[n] \in {"absent", "start"} => driver[n] = "idle"
    /\ orphan \in [Nodes -> BOOLEAN] /\ connected \in [Nodes -> BOOLEAN]
    /\ fresh \in [Nodes -> BOOLEAN] /\ muted \in [Nodes -> BOOLEAN]
    /\ status \in [Nodes -> Statuses] /\ early \in BOOLEAN
    /\ line \in [Nodes -> {"ok", "silent", "gone"}]
    /\ faults \in 0..MaxFaults /\ requests \in 0..MaxRequests

(* A reader outlives its driver in one way only: a configuration came to the  *)
(* GNSS node while it waited for its retry, which then replaces the driver    *)
(* that _apply_config has started.  Whatever else ends a monitor loop stops   *)
(* the reader before its driver is replaced.                                  *)
ReaderLeftBehind ==
    [][\A n \in Nodes : orphan'[n] /\ ~orphan[n] => n = "gnss" /\ early]_sensorVars

(* A sensor that delivers nothing for good, because it fell silent, was       *)
(* unplugged or is muted, does not stay reported OK.                          *)
LossReported == \A n \in Nodes : (<>[]~Delivering(n)) => (<>[](status[n] # "OK"))

(* A port lost while data was flowing is closed and opened again.             *)
LostPortReopened ==
    \A n \in Nodes :
        (phase[n] = "monitor" /\ connected[n] /\ driver[n] = "lost")
            ~> (driver[n] = "open")

(* The power node always comes back, whenever its device was lost.            *)
PowerComesBack ==
    "power" \in Nodes /\ phase["power"] # "absent" => []<>(connected["power"])

=============================================================================
