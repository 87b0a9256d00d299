------------------------------ MODULE Esp32Link ------------------------------
(* The serial link between Esp32Node (drivers/esp32.py) and the firmware of   *)
(* the motor controller: one frame at a time, an acknowledgement that carries *)
(* the frame's checksum, a reconnection when it does not come in 200 ms, and  *)
(* the firmware's own timeout of 250 ms.  One motor and one relay stand for   *)
(* the two and the three; a lost or late reply is a reply not read before the *)
(* host's timeout.                                                            *)
EXTENDS Integers

CONSTANTS
    Percents,       \* motor commands on gnc/control_output, 0 among them
    Short           \* those whose double is just below the integer: the host
                    \* truncates them one lower than the firmware, which takes
                    \* them as a float (29, 57 and 58 with the default calibration)

ASSUME Esp32Assumption == Percents \subseteq Nat /\ 0 \in Percents /\ Short \subseteq Percents

VARIABLES
    host,           \* the node: "closed", "ready" or "sent" (waiting for the ACK)
    latched,        \* _relay_states, from the Manager's heartbeat
    relay,          \* the Manager's relay state
    source,         \* who commands the motors: "none", "real" or "sim"
    pct,            \* and what
    frame,          \* the frame last sent
    wire,           \* it has not reached the firmware yet
    reply,          \* what the firmware wrote back: a checksum, NoReply or Refused
    board           \* the firmware's outputs: motor and relay

espVars == <<host, latched, relay, source, pct, frame, wire, reply, board>>

NoReply == -1
Refused == -2         \* an ERR line

Frames == [motor : Percents, relay : {0, 1}]

(* int() of the calibrated percentage in Python, (int) of a float in C.       *)
HostChecksum(f) == (IF f.motor \in Short THEN f.motor - 1 ELSE f.motor) + f.relay
BoardChecksum(f) == f.motor + f.relay

(* setup(): failsafe outputs, relays off until the first frame.               *)
AfterReset == [motor |-> 0, relay |-> 0]

EspInit ==
    /\ host = "closed" /\ latched = 1 /\ relay \in {0, 1}
    /\ source = "none" /\ pct = 0
    /\ frame = [motor |-> 0, relay |-> 1] /\ wire = FALSE /\ reply = NoReply
    /\ board = AfterReset

(* ESP32Driver(): opening the port drops what it had buffered, and its DTR    *)
(* line may reset the firmware, which the driver gives two seconds for.       *)
OpenPort ==
    /\ host = "closed"
    /\ host' = "ready"
    /\ reply' = NoReply
    /\ \/ board' = AfterReset /\ wire' = FALSE
       \/ UNCHANGED <<board, wire>>
    /\ UNCHANGED <<latched, relay, source, pct, frame>>

(* One pass of the inner loop: the heartbeats give the relays, the freshest   *)
(* command the motors; a simulated command ends the pass, no command sends    *)
(* the idle frame.                                                            *)
SendFrame ==
    /\ host = "ready"
    /\ latched' = relay
    /\ IF source = "sim"
       THEN UNCHANGED <<host, frame, wire>>
       ELSE /\ frame' = [motor |-> IF source = "real" THEN pct ELSE 0, relay |-> relay]
            /\ wire' = TRUE
            /\ host' = "sent"
    /\ UNCHANGED <<relay, source, pct, reply, board>>

(* The firmware's loop on a line: outputs and ACK, or an ERR.                 *)
BoardReceives ==
    /\ wire
    /\ wire' = FALSE
    /\ IF HostChecksum(frame) = BoardChecksum(frame)
       THEN board' = frame /\ reply' = BoardChecksum(frame)
       ELSE UNCHANGED board /\ reply' = Refused
    /\ UNCHANGED <<host, latched, relay, source, pct, frame>>

LineLosesFrame ==
    /\ wire /\ wire' = FALSE
    /\ UNCHANGED <<host, latched, relay, source, pct, frame, reply, board>>

(* Mutant: the firmware has no timeout.                                       *)
BoardTimeoutNever == FALSE /\ UNCHANGED espVars

(* 250 ms without a valid frame: motors off, relays kept.                     *)
BoardTimeout ==
    /\ ~wire /\ board.motor # 0
    /\ board' = [board EXCEPT !.motor = 0]
    /\ UNCHANGED <<host, latched, relay, source, pct, frame, wire, reply>>

(* A reply is read: the checksum that was sent ends the wait, anything else   *)
(* is logged.                                                                 *)
ReadReply ==
    /\ host = "sent" /\ reply # NoReply
    /\ reply' = NoReply
    /\ host' = IF reply = HostChecksum(frame) THEN "ready" ELSE "sent"
    /\ UNCHANGED <<latched, relay, source, pct, frame, wire, board>>

(* 200 ms without the ACK: the port is closed for _RETRY_INTERVAL.            *)
AckTimeout ==
    /\ host = "sent"
    /\ host' = "closed"
    /\ UNCHANGED <<latched, relay, source, pct, frame, wire, reply, board>>

(* The bus: other commands and another relay configuration.                   *)
Commanded(s, p) ==
    /\ source' = s /\ pct' = p
    /\ UNCHANGED <<host, latched, relay, frame, wire, reply, board>>

RelaySet ==
    /\ relay' = 1 - relay
    /\ UNCHANGED <<host, latched, source, pct, frame, wire, reply, board>>

EspNext ==
    \/ OpenPort \/ SendFrame \/ BoardReceives \/ LineLosesFrame
    \/ BoardTimeout \/ ReadReply \/ AckTimeout \/ RelaySet
    \/ \E s \in {"none", "real", "sim"}, p \in Percents : Commanded(s, p)

(* The node and the firmware loop; of the frames sent again and again some    *)
(* reach the board.  The firmware's timeout is fair too.                      *)
EspFairness ==
    /\ WF_espVars(OpenPort) /\ WF_espVars(SendFrame) /\ SF_espVars(BoardReceives)
    /\ WF_espVars(AckTimeout) /\ WF_espVars(BoardTimeout)

EspSpec == EspInit /\ [][EspNext]_espVars /\ EspFairness

-----------------------------------------------------------------------------
(* The type invariant of both ends of the serial line; a frame on its way     *)
(* carries the relays the node holds.                                         *)
EspTypeOK ==
    /\ host \in {"closed", "ready", "sent"}
    /\ latched \in {0, 1} /\ relay \in {0, 1}
    /\ source \in {"none", "real", "sim"} /\ pct \in Percents
    /\ frame \in Frames /\ wire \in BOOLEAN
    /\ reply \in Nat \union {NoReply, Refused}
    /\ board \in Frames
    /\ host = "sent" => frame.relay = latched

(* "The latest relay state is applied even when the vehicle is disarmed":     *)
(* relays that stay put reach the board whatever frames are lost, as long as  *)
(* the newest commands are not simulated ones, nor of those the two ends      *)
(* count differently.  They stay set unless the port is reopened for ever,    *)
(* which may reset the board each time: then they are set again each time.    *)
Heeded == source = "none" \/ (source = "real" /\ pct \notin Short)
RelaysReachBoard ==
    \A r \in {0, 1} :
        (<>[](relay = r /\ Heeded)) =>
            /\ []<>(board.relay = r)
            /\ (<>[](host # "closed")) => (<>[](board.relay = r))

(* A vehicle that is commanded by nobody, or only in simulation, comes to     *)
(* rest whatever is lost, late or repeated on the serial line.                *)
UncommandedRests == (<>[](source # "real")) => (<>[](board.motor = 0))

(* The firmware's checksum is computed "as in Python: sum of integers": a     *)
(* frame that arrives intact is accepted.                                     *)
IntactFrameAccepted == [][(wire /\ ~wire' /\ reply' # reply) => reply' # Refused]_espVars
=============================================================================
