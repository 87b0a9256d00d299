------------------------------ MODULE Navigation ------------------------------
(* NavigationProcess (gnc/navigation.py) with its INS (gnc/ins_mekf.py), fed  *)
(* by the real sensors or, during a simulation, by the GNC's simulated ones   *)
(* (gnc/sim_sensors.py) while the HAL is muted.                               *)
(*                                                                            *)
(* Positions are abstract: "real" is where the boat is, "sim" where the       *)
(* simulated one is, farther from it than the innovation gate of the filter.  *)
(* Ages are flags: valid and hdgFresh become FALSE when the time the code     *)
(* allows has passed since the last message that set them.                    *)
EXTENDS Naturals, Sequences

CONSTANTS
    SimFix,         \* fix type the simulation sends (its GNSS mode)
    MaxQueue,       \* messages waiting on a topic (bounds TLC)
    MaxSims,        \* simulations (bounds TLC)
    MaxChanges      \* changes of reception or configuration (bounds TLC)

Sources == {"real", "sim"}
Fixes == {"none", "gps", "rtk"}     \* RTK fixed, or a worse one

ASSUME NavAssumption ==
    /\ SimFix \in Fixes \ {"none"}
    /\ {MaxQueue, MaxSims, MaxChanges} \subseteq Nat

VARIABLES
    simOn, halMuted,    \* the GNC simulates; the HAL is muted
    gps,                \* what the receiver delivers: a fix type, or "dead"
    gnssQ, imuQ,        \* the topics sensor/gnss and sensor/imu
    reading,            \* of loop(): "gnss" or "imu", which is read next
    enabled,            \* ins_config.enabled
    fix,                \* the GNSS state: [place, type, valid]
    hdgFresh,           \* the dual-antenna heading is valid and recent
    imuSrc,             \* imu_source ("none": no IMU yet)
    ins,                \* the filter: [on, at, src]
    fed,                \* sources of the samples this filter integrated
    aid,                \* gnss_updated and the filter was initialised before
    pub,                \* the last USVState: [place, fix, heading]
    sims, changes

world == <<simOn, halMuted, gps>>
nav == <<fix, hdgFresh, imuSrc>>
navVars == <<world, gnssQ, imuQ, reading, enabled, nav, ins, fed, aid, pub, sims, changes>>

Off == [on |-> FALSE, at |-> "real", src |-> "none"]
NoState == [place |-> "none", fix |-> "none", heading |-> "other"]

NavInit ==
    /\ simOn = FALSE /\ halMuted = FALSE /\ gps \in {"gps", "rtk"}
    /\ gnssQ = <<>> /\ imuQ = <<>> /\ reading = "gnss"
    /\ enabled = TRUE
    /\ fix = [place |-> "none", type |-> "none", valid |-> FALSE]
    /\ hdgFresh = FALSE /\ imuSrc = "none"
    /\ ins = Off /\ fed = {} /\ aid = FALSE /\ pub = NoState
    /\ sims = 0 /\ changes = 0

-----------------------------------------------------------------------------
(* What arrives.                                                              *)
Messages == [src : Sources, type : Fixes, heading : BOOLEAN]

(* A message carries a heading or not, with any fix (heading_status).         *)
RealGnss ==
    /\ ~halMuted /\ gps # "dead" /\ Len(gnssQ) < MaxQueue
    /\ \E heading \in BOOLEAN :
            gnssQ' = Append(gnssQ, [src |-> "real", type |-> gps, heading |-> heading])
    /\ UNCHANGED <<world, imuQ, reading, enabled, nav, ins, fed, aid, pub, sims, changes>>

RealImu ==
    /\ ~halMuted /\ Len(imuQ) < MaxQueue
    /\ imuQ' = Append(imuQ, "real")
    /\ UNCHANGED <<world, gnssQ, reading, enabled, nav, ins, fed, aid, pub, sims, changes>>

(* _rt_sim_step publishes a simulated fix and a simulated IMU sample.         *)
SimStep ==
    /\ simOn /\ Len(gnssQ) < MaxQueue /\ Len(imuQ) < MaxQueue
    /\ gnssQ' = Append(gnssQ, [src |-> "sim", type |-> SimFix, heading |-> TRUE])
    /\ imuQ' = Append(imuQ, "sim")
    /\ UNCHANGED <<world, reading, enabled, nav, ins, fed, aid, pub, sims, changes>>

(* The simulation starts or stops; the HAL hears of it later.                 *)
StartSim ==
    /\ ~simOn /\ sims < MaxSims /\ sims' = sims + 1
    /\ simOn' = TRUE
    /\ UNCHANGED <<halMuted, gps, gnssQ, imuQ, reading, enabled, nav, ins, fed, aid, pub, changes>>

StopSim ==
    /\ simOn /\ simOn' = FALSE
    /\ UNCHANGED <<halMuted, gps, gnssQ, imuQ, reading, enabled, nav, ins, fed, aid, pub, sims,
                   changes>>

HearMute ==
    /\ halMuted # simOn /\ halMuted' = simOn
    /\ UNCHANGED <<simOn, gps, gnssQ, imuQ, reading, enabled, nav, ins, fed, aid, pub, sims,
                   changes>>

Reception ==
    /\ changes < MaxChanges /\ changes' = changes + 1
    /\ gps' \in (Fixes \union {"dead"}) \ {gps}
    /\ UNCHANGED <<simOn, halMuted, gnssQ, imuQ, reading, enabled, nav, ins, fed, aid, pub, sims>>

(* Time passes without the message that would have kept a flag up.            *)
AgeFix ==
    /\ fix.valid /\ fix' = [fix EXCEPT !.valid = FALSE]
    /\ UNCHANGED <<world, gnssQ, imuQ, reading, enabled, hdgFresh, imuSrc, ins, fed, aid, pub, sims, changes>>

AgeHeading ==
    /\ hdgFresh /\ hdgFresh' = FALSE
    /\ UNCHANGED <<world, gnssQ, imuQ, reading, enabled, fix, imuSrc, ins, fed, aid, pub, sims, changes>>

-----------------------------------------------------------------------------

(* Another offsets_config or ins_config in the heartbeat: _reset_ins.         *)
Reconfigure ==
    /\ reading = "gnss" /\ changes < MaxChanges /\ changes' = changes + 1
    /\ enabled' \in BOOLEAN
    /\ ins' = Off /\ fed' = {}
    /\ UNCHANGED <<world, gnssQ, imuQ, reading, nav, aid, pub, sims>>

(* loop() reads every GNSS message: the last one counts, a valid one renews   *)
(* the time of the last valid fix, one with a heading the heading.            *)
ReadGnss ==
    LET last == gnssQ[Len(gnssQ)]
        anyFix == \E i \in DOMAIN gnssQ : gnssQ[i].type # "none"
    IN  /\ reading = "gnss" /\ reading' = "imu"
        /\ aid' = (gnssQ # <<>> /\ ins.on)
        /\ IF gnssQ = <<>> THEN UNCHANGED <<fix, hdgFresh>>
           ELSE /\ fix' = [place |-> last.src, type |-> last.type,
                           valid |-> fix.valid \/ anyFix]
                /\ hdgFresh' = (hdgFresh \/ \E i \in DOMAIN gnssQ : gnssQ[i].heading)
        /\ gnssQ' = <<>>
        /\ UNCHANGED <<world, imuQ, enabled, imuSrc, ins, fed, pub, sims, changes>>

(* _initialize_ins_if_ready on the remembered fix and the sample's source.    *)
Ready(filter) == enabled /\ ~filter.on /\ fix.valid /\ fix.type # "none"
Initialized(src) == [on |-> TRUE, at |-> fix.place, src |-> src]

(* InsMekf.predict: the sample enters position, velocity and attitude.        *)
Predicted(sources, src) == sources \union {src}

(* Mutant: a change of source does not reset the filter.                      *)
SampleMixed(s, src) ==
    [ins |-> IF Ready(s.ins) THEN Initialized(src) ELSE s.ins,
     fed |-> IF s.ins.on /\ enabled THEN Predicted(s.fed, src) ELSE s.fed,
     renewed |-> s.renewed]

(* One IMU sample: a filter fed by another source is reset; a new one starts  *)
(* on the spot, and one that runs integrates the sample.                      *)
Sample(s, src) ==
    LET reset == s.ins.on /\ s.ins.src # src
        kept == IF reset THEN Off ELSE s.ins
    IN  [ins |-> IF Ready(kept) THEN Initialized(src) ELSE kept,
         fed |-> IF kept.on /\ enabled THEN Predicted(s.fed, src)
                 ELSE IF reset THEN {} ELSE s.fed,
         renewed |-> s.renewed \/ reset]

(* The samples of a queue one after the other, from filter s0.                *)
Integrated(s0, queue) ==
    LET run[n \in 0..Len(queue)] ==
            IF n = 0 THEN s0 ELSE Sample(run[n - 1], queue[n])
    IN  run[Len(queue)]

(* InsMekf._correct: a measurement beyond the gate is rejected, or its        *)
(* innovation is clipped, and the filter is drawn to it all the same.         *)
Corrected(filter, place, clipInnovation) ==
    IF clipInnovation THEN [filter EXCEPT !.at = place] ELSE filter

(* _update_ins_from_gnss: only an RTK fixed position is clipped.              *)
Aided(filter) == Corrected(filter, fix.place, fix.type = "rtk")

(* Mutant: the fix type does not decay.                                       *)
RememberedFix == fix.type

EffectiveFix == IF fix.valid THEN fix.type ELSE "none"

(* The state published: of the filter, or of the GNSS alone.                  *)
State(filter) ==
    [place |-> IF filter.on THEN filter.at ELSE fix.place,
     fix |-> EffectiveFix,
     heading |-> IF hdgFresh THEN "gnss" ELSE "other"]

(* The rest of loop(): the IMU samples, the aiding and the publication.       *)
ReadImu ==
    LET s == Integrated([ins |-> ins, fed |-> fed, renewed |-> FALSE], imuQ)
        last == IF imuQ = <<>> THEN imuSrc ELSE imuQ[Len(imuQ)]
        started == IF Ready(s.ins) /\ last # "none" THEN Initialized(last) ELSE s.ins
        filter == IF aid /\ ~s.renewed /\ started.on /\ enabled THEN Aided(started) ELSE started
    IN  /\ reading = "imu" /\ reading' = "gnss"
        /\ imuQ' = <<>>
        /\ imuSrc' = last
        /\ ins' = filter /\ fed' = s.fed /\ aid' = FALSE
        /\ pub' = IF (enabled /\ filter.on) \/ fix.place # "none" THEN State(filter) ELSE pub
        /\ UNCHANGED <<world, gnssQ, enabled, fix, hdgFresh, sims, changes>>

NavLoop == ReadGnss \/ ReadImu

NavNext ==
    \/ RealGnss \/ RealImu \/ SimStep
    \/ StartSim \/ StopSim \/ HearMute \/ Reception
    \/ AgeFix \/ AgeHeading
    \/ Reconfigure \/ NavLoop

(* The 20 Hz loop runs, commands reach the HAL, the receiver delivers and     *)
(* time passes.                                                               *)
NavFairness ==
    /\ WF_navVars(NavLoop) /\ WF_navVars(HearMute) /\ WF_navVars(RealGnss)
    /\ WF_navVars(AgeFix) /\ WF_navVars(AgeHeading)

NavSpec == NavInit /\ [][NavNext]_navVars /\ NavFairness

-----------------------------------------------------------------------------
(* The type invariant of the queues, the filter and what is published.        *)
NavTypeOK ==
    /\ simOn \in BOOLEAN /\ halMuted \in BOOLEAN /\ gps \in Fixes \union {"dead"}
    /\ gnssQ \in Seq(Messages) /\ Len(gnssQ) <= MaxQueue
    /\ imuQ \in Seq(Sources) /\ Len(imuQ) <= MaxQueue
    /\ reading \in {"gnss", "imu"} /\ enabled \in BOOLEAN
    /\ fix \in [place : Sources \union {"none"}, type : Fixes, valid : BOOLEAN]
    /\ {hdgFresh, aid} \subseteq BOOLEAN
    /\ imuSrc \in Sources \union {"none"}
    /\ ins \in [on : BOOLEAN, at : Sources, src : Sources \union {"none"}]
    /\ fed \subseteq Sources

(* One filter never integrates both boats: whatever the interleaving of real  *)
(* and simulated samples, a change of source starts a new filter.  None runs  *)
(* on while the INS is switched off, to go on from a stale state later.       *)
OneSourcePerFilter == ins.on => enabled /\ fed \subseteq {ins.src}

(* When the receiver has lost its fix, or is silent, for good, the navigation *)
(* state says so for good, INS or not: the GNC's failsafe reads fix_type.  The*)
(* heading ages on its own: it is given up when the receiver is silent.       *)
FixLossPublished ==
    /\ <>[](gps \in {"none", "dead"} /\ ~simOn) => <>[](pub.fix = "none")
    /\ <>[](gps = "dead" /\ ~simOn) => <>[](pub.heading = "other")

(* After a simulation the real position comes back, if the receiver has RTK:  *)
(* with less, the filter may keep rejecting it as an outlier.                 *)
RtkBringsBack == <>[](~simOn /\ gps = "rtk") => <>[](pub.place = "real")
=============================================================================
