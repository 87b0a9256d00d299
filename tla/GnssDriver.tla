----------------------------- MODULE GnssDriver -----------------------------
(* drivers/gnss_um982.py, UM982Driver: the reader thread, which gathers the   *)
(* sentences of an epoch into one dictionary and hands out a snapshot at each *)
(* GGA, and the RTCM thread, which owns the link to the NTRIP caster.  The    *)
(* two meet in the fix the second uploads; neither waits for the other.       *)
(*                                                                            *)
(* The RTCM thread's loop takes about a second (the socket's timeout), which  *)
(* is the unit of its timers.                                                 *)
EXTENDS Integers

CONSTANTS
    Stall, UplinkEvery, RetryAfter,     \* _NTRIP_STALL_TIMEOUT, _GGA_UPLINK_INTERVAL,
                                        \* _NTRIP_RETRY_INTERVAL, in seconds
    MaxBad,         \* the longest run of bad sentences of one kind
    MaxEpoch        \* bounds TLC

ASSUME GnssAssumption ==
    /\ Stall \in Nat /\ UplinkEvery \in Nat \ {0} /\ RetryAfter \in Nat
    /\ MaxBad \in Nat /\ MaxEpoch \in Nat

VARIABLES
    gnssRunning,    \* running
    epoch, turn,    \* the receiver: epoch, and which sentence of it is next
    parsed,         \* the epoch of each part of self.data, that of its oldest
                    \* field (0: never)
    bad,            \* how many sentences of each kind were bad in a row
    snapshot,       \* the parts of the last snapshot
    fixed,          \* data and _latest_gga hold a position with a fix
    rtcm,           \* the RTCM thread: "loop", "accepted", "retry" or "ended"
    sock,           \* ntrip_sock: "none", "live" or "dead" (nothing arrives on it)
    caster,         \* the caster serves: TRUE, or refuses and ends streams
    sinceRtcm, sinceGga, retryLeft

readerVars == <<epoch, turn, parsed, bad, snapshot, fixed>>
ntripVars == <<rtcm, sock, caster, sinceRtcm, sinceGga, retryLeft>>
gnssVars == <<gnssRunning, readerVars, ntripVars>>

(* The sentences in the order they are requested; VTG stands for the ones     *)
(* between and after that only set a field (GSA, GST, VTG, ZDA).              *)
Sentence == <<"GGA", "THS", "VTG">>
Parts == {"GGA", "THS", "VTG"}

GnssInit ==
    /\ gnssRunning = TRUE
    /\ epoch = 1 /\ turn = 1
    /\ parsed = [p \in Parts |-> 0] /\ bad = [p \in Parts |-> 0]
    /\ snapshot = parsed /\ fixed = FALSE
    /\ rtcm = "loop" /\ sock = "none" /\ caster \in BOOLEAN
    /\ sinceRtcm = 0 /\ sinceGga = UplinkEvery /\ retryLeft = 0

-----------------------------------------------------------------------------
(* The reader.  A bad sentence (its checksum, which THS is not asked for)     *)
(* leaves its part of the data as it was, one with a field that does not      *)
(* convert the rest of it; a GGA hands out the data, parsed or not.           *)
Outcomes == {"good", "partial", "bad"}

NextTurn ==
    /\ turn' = IF turn = 3 THEN 1 ELSE turn + 1
    /\ epoch' = IF turn = 3 THEN epoch + 1 ELSE epoch

Parse(p, outcome, fix) ==
    /\ parsed' = IF outcome = "good" THEN [parsed EXCEPT ![p] = epoch] ELSE parsed
    /\ bad' = [bad EXCEPT ![p] = IF outcome = "good" THEN 0 ELSE @ + 1]
    /\ fixed' = IF outcome # "bad" /\ p = "GGA" THEN fix ELSE fixed

Dispatch(outcome, fix) ==
    LET p == Sentence[turn]
    IN  /\ gnssRunning /\ epoch <= MaxEpoch
        /\ outcome = "good" \/ bad[p] < MaxBad
        /\ Parse(p, outcome, fix)
        /\ snapshot' = IF p = "GGA" THEN parsed' ELSE snapshot
        /\ NextTurn
        /\ UNCHANGED <<gnssRunning, ntripVars>>

-----------------------------------------------------------------------------

(* The RTCM thread.                                                           *)
LoopEnds ==
    /\ rtcm \in {"loop", "retry"} /\ ~gnssRunning
    /\ rtcm' = "ended"
    /\ UNCHANGED <<gnssRunning, readerVars, sock, caster, sinceRtcm, sinceGga, retryLeft>>

(* _reconnect_ntrip: a refused or unreachable caster is tried again after     *)
(* RetryAfter.  The handshake ends with a look at running; stop() may still   *)
(* come between that and the assignment of ntrip_sock.                        *)
ConnectNtrip ==
    /\ rtcm = "loop" /\ gnssRunning /\ sock = "none"
    /\ rtcm' = IF caster THEN "accepted" ELSE "retry"
    /\ retryLeft' = IF caster THEN retryLeft ELSE RetryAfter
    /\ UNCHANGED <<gnssRunning, readerVars, sock, caster, sinceRtcm, sinceGga>>

AdoptStream ==
    /\ rtcm = "accepted"
    /\ rtcm' = "loop"
    /\ sock' = "live" /\ sinceRtcm' = 0 /\ sinceGga' = UplinkEvery
    /\ UNCHANGED <<gnssRunning, readerVars, caster, retryLeft>>

RetryWaits ==
    /\ rtcm = "retry" /\ gnssRunning
    /\ retryLeft' = IF retryLeft = 0 THEN 0 ELSE retryLeft - 1
    /\ rtcm' = IF retryLeft = 0 THEN "loop" ELSE "retry"
    /\ UNCHANGED <<gnssRunning, readerVars, sock, caster, sinceRtcm, sinceGga>>

(* The caster ends the stream, or recv raises on a broken one.                *)
Broken == sock = "dead" \/ (sock = "live" /\ ~caster)

StreamEnds ==
    /\ rtcm = "loop" /\ gnssRunning /\ Broken
    /\ sock' = "none"
    /\ UNCHANGED <<gnssRunning, readerVars, rtcm, caster, sinceRtcm, sinceGga, retryLeft>>

UplinkDue == sinceGga >= UplinkEvery /\ fixed

(* One pass on an open stream: corrections or a timeout of the socket, then   *)
(* the position for the caster, which may fail and close a broken stream, then*)
(* the check for a stalled one.                                               *)
Forward(gotRtcm, sent) ==
    LET age == IF gotRtcm THEN 0 ELSE sinceRtcm + 1
    IN  /\ rtcm = "loop" /\ gnssRunning /\ sock # "none"
        /\ gotRtcm => (sock = "live" /\ caster)
        /\ ~sent => UplinkDue /\ Broken
        /\ sinceGga' = IF UplinkDue /\ sent THEN 0
                       ELSE IF sinceGga < UplinkEvery THEN sinceGga + 1 ELSE sinceGga
        /\ sinceRtcm' = age
        /\ sock' = IF age > Stall \/ ~sent THEN "none" ELSE sock
        /\ UNCHANGED <<gnssRunning, readerVars, rtcm, caster, retryLeft>>

(* The network drops the connection without a word; the caster comes and      *)
(* goes.                                                                      *)
LinkDies ==
    /\ sock = "live" /\ sock' = "dead"
    /\ UNCHANGED <<gnssRunning, readerVars, rtcm, caster, sinceRtcm, sinceGga, retryLeft>>

CasterFlips ==
    /\ caster' = ~caster
    /\ UNCHANGED <<gnssRunning, readerVars, rtcm, sock, sinceRtcm, sinceGga, retryLeft>>

(* stop(), from the node's thread: the socket is closed under the RTCM        *)
(* thread's hands.                                                            *)
StopDriver ==
    /\ gnssRunning
    /\ gnssRunning' = FALSE
    /\ sock' = "none"
    /\ UNCHANGED <<readerVars, rtcm, caster, sinceRtcm, sinceGga, retryLeft>>

NtripStep ==
    \/ LoopEnds \/ ConnectNtrip \/ AdoptStream \/ RetryWaits \/ StreamEnds
    \/ \E got, sent \in BOOLEAN : Forward(got, sent)

GnssNext ==
    \/ \E outcome \in Outcomes, fix \in BOOLEAN : Dispatch(outcome, fix)
    \/ NtripStep \/ LinkDies \/ CasterFlips \/ StopDriver

(* The RTCM thread runs.                                                      *)
GnssFairness == WF_gnssVars(NtripStep)

GnssSpec == GnssInit /\ [][GnssNext]_gnssVars /\ GnssFairness

-----------------------------------------------------------------------------
(* The type invariant: no part is of an epoch to come, no timer runs away.    *)
GnssTypeOK ==
    /\ gnssRunning \in BOOLEAN /\ fixed \in BOOLEAN /\ caster \in BOOLEAN
    /\ epoch \in 1..(MaxEpoch + 1) /\ turn \in 1..3
    /\ parsed \in [Parts -> 0..MaxEpoch] /\ snapshot \in [Parts -> 0..MaxEpoch]
    /\ bad \in [Parts -> 0..MaxBad]
    /\ rtcm \in {"loop", "accepted", "retry", "ended"} /\ sock \in {"none", "live", "dead"}
    /\ sinceRtcm \in 0..(Stall + 1) /\ sinceGga \in 0..UplinkEvery
    /\ retryLeft \in 0..RetryAfter

(* When a snapshot has just been handed out, the position in it is of this    *)
(* epoch and the heading and course of the one before, one epoch older for    *)
(* each bad or half converted sentence in a row: the time stamp GnssNode adds *)
(* is no younger than the data by more than that.                             *)
SnapshotAge ==
    (turn = 2) =>
        /\ snapshot["GGA"] + bad["GGA"] >= epoch
        /\ \A p \in {"THS", "VTG"} : snapshot[p] + bad[p] + 1 >= epoch

(* _rtcm_loop, "reconnect on failure": with a caster that keeps serving the   *)
(* link comes back, however it was lost; a connection that the network has    *)
(* silently dropped is noticed.                                               *)
CasterReconnected == (<>[](caster /\ gnssRunning)) => []<>(sock = "live")

(* stop() ends the RTCM thread, whatever it was doing: an orderly stop never  *)
(* leaves a thread that writes to the receiver.                               *)
StopEndsThread == ~gnssRunning ~> (rtcm = "ended")
=============================================================================
