----------------------------- MODULE CommandLink -----------------------------
(* The link between an operator's browser (stores/telemetry.js) and the web   *)
(* server (comms/web_server.py): WebSocket connections that follow each other,*)
(* commands numbered per connection, acknowledgements, pings, the broadcast   *)
(* of telemetry, and the liveness the server reports on comms/link.           *)
(*                                                                            *)
(* A connection is a TCP stream: frames arrive in order, and late; a path     *)
(* fails towards the browser ("deaf") or in both directions ("cut"), without  *)
(* either end being told.  The client may repeat a frame that was not         *)
(* acknowledged, as the server's duplicate suppression expects of it.         *)
EXTENDS Naturals, Sequences

CONSTANTS
    MaxConns,       \* connections the browser opens (bounds TLC)
    MaxGiven,       \* commands given on one connection (bounds TLC)
    MaxInFlight,    \* frames under way on one connection (bounds TLC)
    MaxFaults       \* failures of a path, a publication or the consumer
                    \* (bounds TLC)

ASSUME LinkAssumption ==
    /\ MaxConns \in Nat /\ MaxGiven \in Nat /\ MaxInFlight \in Nat
    /\ MaxFaults \in Nat

Conns == 1..MaxConns

VARIABLES
    current,    \* the browser's connection (0: none yet)
    linked,     \* isConnected
    gone,       \* the operator has closed the page
    cmdSeq,     \* _cmdSeq, per connection
    lastAck,    \* lastAckSeq, per connection
    up,         \* frames on their way to the server
    path,       \* "good", "deaf" or "cut"
    endpoint,   \* the server's handler: "none", "open" or "ended"
    active,     \* active_connections
    lastSeq,    \* websocket._last_seq
    pinged,     \* connections with a ping within _PING_ALIVE_WINDOW_S
    consumer,   \* consume_zmq runs (FALSE: it pauses before it restarts)
    bus,        \* what was published on command/user
    unpublished, \* commands whose publication raised (history)
    faults

browserVars == <<current, linked, gone, cmdSeq, lastAck>>
serverVars == <<endpoint, active, lastSeq, pinged, consumer, bus, unpublished>>
linkVars == <<browserVars, up, path, serverVars, faults>>

Init ==
    /\ current = 0 /\ linked = FALSE /\ gone = FALSE
    /\ cmdSeq = [c \in Conns |-> 0] /\ lastAck = [c \in Conns |-> 0]
    /\ up = [c \in Conns |-> <<>>] /\ path = [c \in Conns |-> "good"]
    /\ endpoint = [c \in Conns |-> "none"]
    /\ active = {} /\ lastSeq = [c \in Conns |-> 0] /\ pinged = {}
    /\ consumer = TRUE /\ bus = <<>> /\ unpublished = {} /\ faults = 0

-----------------------------------------------------------------------------
(* The browser.                                                               *)

(* connectWebSocket and onopen; ConnectionManager.connect counts a fresh      *)
(* connection as alive.                                                       *)
OpenConnection ==
    /\ ~linked /\ ~gone /\ current < MaxConns
    /\ current' = current + 1
    /\ linked' = TRUE
    /\ endpoint' = [endpoint EXCEPT ![current'] = "open"]
    /\ active' = active \union {current'}
    /\ pinged' = pinged \union {current'}
    /\ UNCHANGED <<gone, cmdSeq, lastAck, up, path, lastSeq, consumer, bus, unpublished, faults>>

(* sendCommand.                                                               *)
SendCommand ==
    /\ linked /\ cmdSeq[current] < MaxGiven /\ Len(up[current]) < MaxInFlight
    /\ cmdSeq' = [cmdSeq EXCEPT ![current] = @ + 1]
    /\ up' = [up EXCEPT ![current] = Append(@, cmdSeq'[current])]
    /\ UNCHANGED <<current, linked, gone, lastAck, path, serverVars, faults>>

(* A client that repeats what was not acknowledged.                           *)
Resend(s) ==
    /\ linked /\ Len(up[current]) < MaxInFlight
    /\ lastAck[current] < s /\ s <= cmdSeq[current]
    /\ up' = [up EXCEPT ![current] = Append(@, s)]
    /\ UNCHANGED <<browserVars, path, serverVars, faults>>

Ping ==
    /\ linked /\ path[current] # "cut" /\ endpoint[current] = "open"
    /\ pinged' = pinged \union {current}
    /\ UNCHANGED <<browserVars, up, path, endpoint, active, lastSeq, consumer, bus, unpublished, faults>>

(* Nothing heard for 10 s, neither telemetry nor a pong, or onclose.          *)
LoseConnection ==
    /\ linked /\ (path[current] # "good" \/ endpoint[current] = "ended")
    /\ linked' = FALSE
    /\ UNCHANGED <<current, gone, cmdSeq, lastAck, up, path, serverVars, faults>>

ClosePage ==
    /\ ~gone
    /\ gone' = TRUE /\ linked' = FALSE
    /\ UNCHANGED <<current, cmdSeq, lastAck, up, path, serverVars, faults>>

-----------------------------------------------------------------------------
(* The server.                                                                *)
Abandoned(c) == c # current \/ ~linked

(* process_incoming_command: a number that is not higher than the last one is *)
(* a duplicate; the others are noted, published and acknowledged.  A number   *)
(* whose publication raises stays noted and is not acknowledged; its repeat   *)
(* is, as a duplicate.  An acknowledgement may be lost with the path.         *)
Publishes(command) == bus' = Append(bus, command) /\ UNCHANGED <<unpublished, faults>>

PublicationFails(command) ==
    /\ faults < MaxFaults /\ faults' = faults + 1
    /\ unpublished' = unpublished \union {command}
    /\ UNCHANGED bus

(* Mutant: a number that was seen is accepted again.                          *)
AcceptedAgain(c, published) ==
    LET s == Head(up[c])
        command == [conn |-> c, seq |-> s]
    IN  /\ lastSeq' = [lastSeq EXCEPT ![c] = s]
        /\ IF published THEN Publishes(command) ELSE PublicationFails(command)

(* Mutant: the number is noted and the command is not published.              *)
AcceptedDropped(c, published) ==
    LET s == Head(up[c])
    IN  /\ s > lastSeq[c]
        /\ lastSeq' = [lastSeq EXCEPT ![c] = s]
        /\ UNCHANGED <<bus, unpublished, faults>>

Accepted(c, published) ==
    LET s == Head(up[c])
        command == [conn |-> c, seq |-> s]
    IN  /\ s > lastSeq[c]
        /\ lastSeq' = [lastSeq EXCEPT ![c] = s]
        /\ IF published THEN Publishes(command) ELSE PublicationFails(command)

Duplicate(c) ==
    Head(up[c]) <= lastSeq[c] /\ UNCHANGED <<lastSeq, bus, unpublished, faults>>

Acknowledge(c, acked) ==
    lastAck' = IF acked /\ path[c] = "good" /\ ~Abandoned(c)
               THEN [lastAck EXCEPT ![c] = Head(up[c])] ELSE lastAck

ReceiveCommand(c) ==
    /\ endpoint[c] = "open" /\ path[c] # "cut" /\ up[c] # <<>>
    /\ up' = [up EXCEPT ![c] = Tail(@)]
    /\ \/ \E published \in BOOLEAN : Accepted(c, published) /\ Acknowledge(c, published)
       \/ Duplicate(c) /\ Acknowledge(c, TRUE)
    /\ UNCHANGED <<current, linked, gone, cmdSeq, path, endpoint, active, pinged, consumer>>

(* broadcast: a failed send removes the connection and closes it; the close   *)
(* does not get through a broken path, and what the browser had sent is still *)
(* read.                                                                      *)
BroadcastFails(c) ==
    /\ consumer /\ c \in active /\ path[c] # "good"
    /\ active' = active \ {c}
    /\ UNCHANGED <<browserVars, up, path, endpoint, lastSeq, pinged, consumer, bus, unpublished, faults>>

(* websocket_endpoint ends: the browser's close frame comes after the         *)
(* commands it sent; a connection that is cut loses them.                     *)
EndpointEnds(c) ==
    /\ endpoint[c] = "open"
    /\ path[c] = "cut" \/ (Abandoned(c) /\ up[c] = <<>>)
    /\ endpoint' = [endpoint EXCEPT ![c] = "ended"]
    /\ active' = active \ {c}
    /\ UNCHANGED <<browserVars, up, path, lastSeq, pinged, consumer, bus, unpublished, faults>>

(* Two seconds without a ping.                                                *)
PingExpires(c) ==
    /\ c \in pinged /\ (Abandoned(c) \/ path[c] = "cut" \/ endpoint[c] = "ended")
    /\ pinged' = pinged \ {c}
    /\ UNCHANGED <<browserVars, up, path, endpoint, active, lastSeq, consumer, bus, unpublished, faults>>

(* Mutant: an open connection counts as alive.                                *)
WsAliveConnected == active # {}

(* link_status: the youngest ping among the connections of the broadcast.     *)
WsAlive == active \intersect pinged # {}

PathFails(c, how) ==
    /\ faults < MaxFaults /\ endpoint[c] = "open" /\ path[c] = "good"
    /\ path' = [path EXCEPT ![c] = how]
    /\ faults' = faults + 1
    /\ UNCHANGED <<browserVars, up, serverVars>>

ConsumerCrashes ==
    /\ faults < MaxFaults /\ consumer
    /\ consumer' = FALSE
    /\ faults' = faults + 1
    /\ UNCHANGED <<browserVars, up, path, endpoint, active, lastSeq, pinged, bus, unpublished>>

ConsumerRestarts ==
    /\ ~consumer /\ consumer' = TRUE
    /\ UNCHANGED <<browserVars, up, path, endpoint, active, lastSeq, pinged, bus, unpublished, faults>>

Next ==
    \/ OpenConnection \/ SendCommand \/ Ping \/ LoseConnection \/ ClosePage
    \/ \E s \in 1..MaxGiven : current # 0 /\ Resend(s)
    \/ \E c \in Conns :
        \/ ReceiveCommand(c) \/ BroadcastFails(c) \/ EndpointEnds(c) \/ PingExpires(c)
        \/ PathFails(c, "deaf") \/ PathFails(c, "cut")
    \/ ConsumerCrashes \/ ConsumerRestarts

Spec == Init /\ [][Next]_linkVars

(* The event loops of both ends run and time passes; giving commands,         *)
(* repeating them and faults are free, and nothing is assumed of how soon the *)
(* server's TCP stack ends a connection the other end has left.               *)
FairSpec ==
    /\ Spec
    /\ WF_linkVars(OpenConnection) /\ WF_linkVars(Ping) /\ WF_linkVars(LoseConnection)
    /\ WF_linkVars(ConsumerRestarts)
    /\ \A c \in Conns :
        /\ WF_linkVars(ReceiveCommand(c)) /\ WF_linkVars(BroadcastFails(c))
        /\ WF_linkVars(PingExpires(c))

-----------------------------------------------------------------------------
(* The type invariant of both ends of the link.                               *)
TypeOK ==
    /\ current \in 0..MaxConns /\ linked \in BOOLEAN /\ gone \in BOOLEAN
    /\ cmdSeq \in [Conns -> 0..MaxGiven] /\ lastAck \in [Conns -> 0..MaxGiven]
    /\ up \in [Conns -> Seq(1..MaxGiven)]
    /\ path \in [Conns -> {"good", "deaf", "cut"}]
    /\ endpoint \in [Conns -> {"none", "open", "ended"}]
    /\ active \subseteq Conns /\ pinged \subseteq Conns
    /\ lastSeq \in [Conns -> 0..MaxGiven] /\ consumer \in BOOLEAN
    /\ bus \in Seq([conn : Conns, seq : 1..MaxGiven])
    /\ unpublished \subseteq [conn : Conns, seq : 1..MaxGiven] /\ faults \in 0..MaxFaults

Published(c, s) == \E i \in DOMAIN bus : bus[i] = [conn |-> c, seq |-> s]
Failed(c, s) == [conn |-> c, seq |-> s] \in unpublished

(* The link is the promised service: commands of a connection are executed at *)
(* most once and in order, with repeated frames, lost acknowledgements and    *)
(* connections that overlap.                                                  *)
Service == INSTANCE CommandService WITH given <- cmdSeq, executed <- bus
ServiceSpec == Service!Spec

(* "ACK the accepted command": every number up to the one the browser takes   *)
(* as acknowledged was published, or its publication raised, whatever was     *)
(* repeated or lost; the latter is acknowledged by the answer to its repeat   *)
(* or to a later command.                                                     *)
AckedIsPublished ==
    \A c \in Conns : \A s \in 1..lastAck[c] : Published(c, s) \/ Failed(c, s)

(* Every command given on a connection that stays up is published, unless its *)
(* publication raised.                                                        *)
GivenIsPublished ==
    \A c \in Conns :
        (<>[](linked /\ c = current /\ path[c] = "good"))
            => <>[](\A s \in 1..MaxGiven : s <= cmdSeq[c] => Published(c, s) \/ Failed(c, s))

(* B-15: a browser that the broadcast has dropped, or that hears nothing,     *)
(* does not stay so: it reconnects as long as its page is open.               *)
BrowserHearsAgain ==
    []<>(gone \/ \E c \in active : linked /\ c = current /\ path[c] = "good")

(* comms/link, which gates the comm failsafe of the GNC: an operator who has  *)
(* left is noticed, whatever connections were left behind.                    *)
DepartureNoticed == gone ~> []~WsAlive

=============================================================================
