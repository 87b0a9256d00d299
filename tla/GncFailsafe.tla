----------------------------- MODULE GncFailsafe -----------------------------
(* The failsafe timers of GNCProcess during a mission in REAL mode: GNSS loss *)
(* and loss of the operator's link (_check_failsafes), the two writers of the *)
(* fix type they read, the missions that reset them, and the Manager, whose   *)
(* heartbeat arms and disarms the vehicle under a mission.  Which mission runs*)
(* or is started by a failsafe is the subject of VehicleControl.              *)
(*                                                                            *)
(* Time is counted in GNC loops: a loop() handles the commands that came in   *)
(* (GncCommand), then reads its topics and checks (Loop).  A timer is the age *)
(* of the instant the code stores, saturated once it has expired.             *)
EXTENDS Integers

CONSTANTS
    InsTimeout,    \* ins_timeout, in loops
    CommTimeout,   \* comm_timeout, in loops
    LossTimeout,   \* gnss_loss_timeout_s of NavigationProcess, in loops
    NavGap,        \* bound: loops without a message on gnc/ekf_state
    StatusGap,     \* bound: loops without a heartbeat of a running Manager
    LinkGap,       \* bound: loops without a message on comms/link (1 Hz)
    HistoryBound   \* bound: the loops a history variable counts

ASSUME ConstantsAssumption ==
    {InsTimeout, CommTimeout, LossTimeout, NavGap, StatusGap, LinkGap,
     HistoryBound} \subseteq Nat

VARIABLES
    link,       \* a frontend has pinged the web server lately
    nav,        \* NavigationProcess: what is left of the receiver's sentences
    mgr,        \* ManagerProcess: what its heartbeats carry
    gaps,       \* loops since the GNC last read each of its topics
    gnc,        \* GNCProcess: the state the failsafes read and write
    fired,      \* history: the GNSS failsafe of the loop that just ended
    shown,      \* history: loops since navigation was heard with a fix
    held,       \* history: the loss timer ran while the vehicle was disarmed
    alarms,     \* history: GNSS alarms since a fix, a START or a comm failsafe
    outage,     \* history: loops of an unanswered GNSS outage in this mission
    restarts,   \* history: loops of that outage that restarted the loss timer
    silence     \* history: loops of an unanswered link loss in this mission

histories == <<fired, shown, held, alarms, outage, restarts, silence>>
vars == <<link, nav, mgr, gaps, gnc, histories>>

None == -1
Age(limit) == None..limit
Older(age, limit) == IF age \in {None, limit} THEN age ELSE age + 1

Capped(n) == IF n > HistoryBound THEN HistoryBound ELSE n

Topics == {"nav", "status", "link"}
Gap == [nav |-> NavGap, status |-> StatusGap, link |-> LinkGap]
InsActions == {"emergency_stop", "station_keeping"}

NavState == [last : BOOLEAN,               \* there is a fix in the last sentence
             age  : 0..(LossTimeout + 1)]  \* loops since a sentence with a fix

ManagerState == [up  : BOOLEAN,
                 was : BOOLEAN,   \* is_armed in the heartbeats still to be read
                 is  : BOOLEAN,   \* is_armed
                 raw : BOOLEAN]   \* gnss_fix_type: a fix in the last sentence

GncState ==
    [armed : BOOLEAN,
     mission : BOOLEAN,              \* a route or a station is active
     fix  : BOOLEAN,                 \* last_gnss_fix_type >= min_gnss_fix
     lost : Age(InsTimeout + 1),     \* age of gnss_lost_since
     latch : BOOLEAN,                \* gnss_failsafe_active
     beat : Age(CommTimeout + 1),    \* age of last_heartbeat_time
     ws   : BOOLEAN,                 \* ws_alive
     ins  : InsActions]              \* failsafe_config.ins_action

(* The type invariant: ages stay within their limits (gnc/process.py,         *)
(* GncProcess: the timers of the two failsafes).                             *)
TypeOK ==
    /\ link \in BOOLEAN
    /\ nav \in NavState
    /\ mgr \in ManagerState
    /\ gaps \in [Topics -> Nat] /\ \A t \in Topics : gaps[t] <= Gap[t]
    /\ gnc \in GncState
    /\ fired \in InsActions \union {"none"}
    /\ shown \in 0..(InsTimeout + 1) /\ held \in BOOLEAN
    /\ alarms \in Nat
    /\ {outage, restarts, silence} \subseteq 0..HistoryBound

ManagerReset == [up |-> TRUE, was |-> FALSE, is |-> FALSE, raw |-> FALSE]

Init ==
    /\ link = FALSE
    /\ nav = [last |-> FALSE, age |-> LossTimeout + 1]
    /\ mgr = ManagerReset
    /\ gaps = [t \in Topics |-> 0]
    /\ gnc = [armed |-> FALSE, mission |-> FALSE, fix |-> FALSE, lost |-> None,
              latch |-> FALSE, beat |-> None, ws |-> FALSE, ins |-> "emergency_stop"]
    /\ fired = "none"
    /\ shown = InsTimeout + 1 /\ held = FALSE
    /\ alarms = 0 /\ outage = 0 /\ restarts = 0 /\ silence = 0

-----------------------------------------------------------------------------
(* The surroundings: the operator's link comes and goes, the receiver sends a *)
(* sentence with a fix or without, or falls silent.  Navigation and the       *)
(* Manager both keep the last sentence: the fix type navigation publishes     *)
(* decays once sentences with a fix have been missing for LossTimeout, the    *)
(* Manager's never does.                                                      *)

LinkChanges ==
    /\ link' = ~link
    /\ UNCHANGED <<nav, mgr, gaps, gnc, histories>>

Sentence ==
    /\ \E fix \in BOOLEAN :
        /\ nav' = [last |-> fix, age |-> IF fix THEN 0 ELSE nav.age]
        /\ mgr' = [mgr EXCEPT !.raw = fix /\ mgr.up]
    /\ UNCHANGED <<link, gaps, gnc, histories>>

NavFix(n) == n.last /\ n.age <= LossTimeout

(* The Manager's arming changes; heartbeats with the old value may be in      *)
(* flight until one with the new value has been read.                         *)
Arming(m, armed) ==
    IF ~m.up \/ armed = m.is THEN m ELSE [m EXCEPT !.was = m.is, !.is = armed]

Overheard(m, heard, armed) ==
    IF heard /\ armed = m.is THEN [m EXCEPT !.was = m.is] ELSE m

(* A Manager that crashes is down until the watchdog restarts it, disarmed    *)
(* and without a sentence.                                                    *)
ManagerCrashes ==
    /\ mgr.up
    /\ mgr' = [ManagerReset EXCEPT !.up = FALSE]
    /\ gaps' = [gaps EXCEPT !["status"] = 0]
    /\ UNCHANGED <<link, nav, gnc, histories>>

ManagerRestarts ==
    /\ ~mgr.up
    /\ mgr' = ManagerReset
    /\ UNCHANGED <<link, nav, gaps, gnc, histories>>

-----------------------------------------------------------------------------
(* The missions.  _start_wp_route and _start_station refuse an unarmed        *)
(* vehicle, and restart the GNSS timer and its latch; they refresh the comm   *)
(* timer only while the link is thought to be alive.                          *)

(* Mutant: a mission is started whether or not the vehicle is armed.          *)
StartUngated(g) ==
    [g EXCEPT !.mission = TRUE, !.lost = None, !.latch = FALSE,
              !.beat = IF g.ws THEN 0 ELSE @]
Start(g) ==
    IF ~g.armed THEN g
    ELSE [g EXCEPT !.mission = TRUE, !.lost = None, !.latch = FALSE,
                   !.beat = IF g.ws THEN 0 ELSE @]

EmergencyStop(g) == [g EXCEPT !.mission = FALSE, !.armed = FALSE]

(* A failsafe clears the mission it replaces before it starts its own.        *)
Takeover(g) == Start([g EXCEPT !.mission = FALSE])

Command ==
    [type : {"ARM", "DISARM", "START", "STOP"}]
        \union [type : {"SET_FAILSAFE_CONFIG"}, ins : InsActions]

Commanded(g, c) ==
    CASE c.type = "ARM"    -> [g EXCEPT !.armed = TRUE]
      [] c.type = "DISARM" -> [g EXCEPT !.armed = FALSE, !.mission = FALSE]
      [] c.type = "START"  -> Start(g)
      [] c.type = "STOP"   -> [g EXCEPT !.mission = FALSE]
      [] c.type = "SET_FAILSAFE_CONFIG" -> [g EXCEPT !.ins = c.ins]

MgrCommanded(m, c) ==
    CASE c.type = "ARM"    -> Arming(m, TRUE)
      [] c.type = "DISARM" -> Arming(m, FALSE)
      [] c.type \notin {"ARM", "DISARM"} -> m

(* Commands reach the GNC and the Manager over the link they ride on.         *)
GncCommand ==
    /\ link
    /\ \E c \in Command :
        /\ gnc' = Commanded(gnc, c)
        /\ mgr' = MgrCommanded(mgr, c)
        /\ alarms' = IF c.type = "START" THEN 0 ELSE alarms
        /\ outage' = IF c.type = "START" THEN 0 ELSE outage
        /\ restarts' = IF c.type = "START" THEN 0 ELSE restarts
    /\ fired' = "none"
    /\ UNCHANGED <<link, nav, gaps, shown, held, silence>>

-----------------------------------------------------------------------------
(* The topics, in the order the loop drains them.                             *)

(* _consume_status: the Manager's arming wins; a mode that differs from the   *)
(* GNC's stops a mission that is not the mode's own (~keeps); the Manager's   *)
(* fix type is the one of the last sentence, however long ago that was.  A    *)
(* heartbeat that disarms leaves the mission active.                          *)
HearStatus(g, heard, armed, keeps) ==
    IF heard THEN [g EXCEPT !.armed = armed, !.mission = @ /\ keeps, !.fix = mgr.raw]
    ELSE g

(* Mutant: any message on comms/link counts as a sign of life.                *)
HearLinkAlways(g, heard) ==
    IF heard THEN [g EXCEPT !.ws = link, !.beat = 0] ELSE g
(* _consume_link: only a live link refreshes the timer.                       *)
HearLink(g, heard) ==
    IF ~heard THEN g
    ELSE [g EXCEPT !.ws = link, !.beat = IF link THEN 0 ELSE @]

HearNav(g, heard) == IF heard THEN [g EXCEPT !.fix = NavFix(nav)] ELSE g

-----------------------------------------------------------------------------
(* _check_failsafes                                                           *)

Checked(g) == g.armed /\ g.mission

(* Mutant: the GNSS failsafe leaves its latch open.                           *)
GnssFiresAgain(g) == ~g.fix /\ g.lost > InsTimeout
GnssFires(g) == ~g.fix /\ ~g.latch /\ g.lost > InsTimeout

(* Mutant: the loss timer restarts in every loop of the outage.               *)
TimedFromLastLoop(g) ==
    CASE g.fix  -> [g EXCEPT !.lost = None, !.latch = FALSE]
      [] ~g.fix -> [g EXCEPT !.lost = 0]
(* Mutant: the loss timer runs on when the fix comes back.                    *)
TimedFromFirstLoss(g) ==
    CASE g.fix  -> [g EXCEPT !.latch = FALSE]
      [] ~g.fix -> [g EXCEPT !.lost = IF @ = None THEN 0 ELSE @]
Timed(g) ==
    CASE g.fix  -> [g EXCEPT !.lost = None, !.latch = FALSE]
      [] ~g.fix -> [g EXCEPT !.lost = IF @ = None THEN 0 ELSE @]

GnssResponse(g) == IF g.ins = "emergency_stop" THEN EmergencyStop(g) ELSE Takeover(g)

(* The latch is set after the action, which may have cleared it.              *)
GnssChecked(g) ==
    IF GnssFires(g) THEN [GnssResponse(g) EXCEPT !.latch = TRUE] ELSE Timed(g)

CommFires(g) == g.beat > CommTimeout

(* Station keeping or the way home.  Firing counts as a sign of life: the next*)
(* one is CommTimeout away.                                                   *)
CommChecked(g) ==
    IF CommFires(g) THEN [Takeover(g) EXCEPT !.beat = 0] ELSE g

Aged(g) == [g EXCEPT !.lost = Older(@, InsTimeout + 1), !.beat = Older(@, CommTimeout + 1)]

(* The state a loop checks: the topics it read.                               *)
Informed(g, heard, armed, keeps) ==
    HearNav(HearLink(HearStatus(g, "status" \in heard, armed, keeps), "link" \in heard),
            "nav" \in heard)

(* The histories of a loop that checked the state g and left h for the comm   *)
(* failsafe.                                                                  *)
Recorded(g, h) ==
    LET comm     == CommFires(h)
        answered == NavFix(nav) \/ g.latch \/ GnssFires(g)
    IN  /\ fired' = IF GnssFires(g) THEN g.ins ELSE "none"
        /\ alarms' = IF g.fix \/ comm THEN 0
                     ELSE IF GnssFires(g) THEN alarms + 1 ELSE alarms
        /\ outage' = IF answered THEN 0 ELSE Capped(outage + 1)
        /\ restarts' = IF answered THEN 0
                       ELSE IF g.fix \/ comm THEN Capped(restarts + 1) ELSE restarts
        /\ silence' = IF link \/ g.beat = None \/ comm THEN 0 ELSE Capped(silence + 1)

(* The topics, the checks, and the ages that advance until the next loop.  No *)
(* topic is silent for longer than its bound, and the heartbeat read carries  *)
(* an arming the Manager has or had.                                          *)
Loop ==
    \E heard \in SUBSET Topics, armed \in BOOLEAN, keeps \in BOOLEAN :
        LET g == Informed(gnc, heard, armed, keeps)
            h == GnssChecked(g)
            m == Overheard(mgr, "status" \in heard, armed)
        IN  /\ IF "status" \in heard THEN mgr.up /\ armed \in {mgr.was, mgr.is}
               ELSE armed /\ keeps
            /\ \A t \in Topics \ heard :
                  gaps[t] < Gap[t] \/ (t = "status" /\ ~mgr.up)
            /\ gaps' = [t \in Topics |->
                         IF t \in heard \/ (t = "status" /\ ~mgr.up) THEN 0 ELSE gaps[t] + 1]
            /\ nav' = [nav EXCEPT !.age = Older(@, LossTimeout + 1)]
            /\ shown' = IF "nav" \in heard /\ NavFix(nav) THEN 0
                        ELSE Older(shown, InsTimeout + 1)
            /\ held' = (g.mission /\ g.lost # None /\ (held \/ ~g.armed))
            /\ mgr' = IF Checked(g) /\ GnssFires(g) /\ g.ins = "emergency_stop"
                      THEN Arming(m, FALSE) ELSE m
            /\ IF Checked(g)
               THEN gnc' = Aged(CommChecked(h)) /\ Recorded(g, h)
               ELSE /\ gnc' = Aged(g) /\ fired' = "none" /\ alarms' = 0
                    /\ outage' = 0 /\ restarts' = 0 /\ silence' = 0
            /\ UNCHANGED link

Next ==
    \/ LinkChanges \/ Sentence \/ GncCommand \/ Loop
    \/ ManagerCrashes \/ ManagerRestarts

Spec == Init /\ [][Next]_vars

-----------------------------------------------------------------------------
(* "seconds without GNSS before action": a GNSS failsafe follows InsTimeout   *)
(* loops in which the GNC did not hear navigation with a fix.                 *)
NoFalseAlarm == fired # "none" => shown > InsTimeout

(* So it is as long as the loss timer did not run while the vehicle was       *)
(* disarmed: a timer that was last checked before a heartbeat disarmed the    *)
(* vehicle is still there when the vehicle is armed again.                    *)
NoFalseAlarmWhileArmed == ~held => NoFalseAlarm

(* A GNSS outage during a mission is answered when its timer expires, and only*)
(* two things put that off, each by one period of the timer: a comm failsafe, *)
(* and a loop that read the Manager's undecayed fix and not navigation.       *)
OutageDelayed == outage + 1 <= (restarts + 1) * (InsTimeout + 2)

(* The answer comes within two periods, whatever the link does meanwhile.     *)
OutageAnswered == outage <= 2 * (InsTimeout + 1)

(* A lost link is answered CommTimeout after the last sign of life, which the *)
(* GNC may learn as late as LinkGap after the loss.                           *)
SilenceAnswered == silence <= CommTimeout + LinkGap + 1

(* An emergency stop is the last word of its loop: a comm failsafe in the same*)
(* loop starts nothing.                                                       *)
EmergencyStopFinal == fired = "emergency_stop" => ~gnc.mission /\ ~gnc.armed

(* One alarm per outage: after a GNSS failsafe the next one needs a new fix, a*)
(* new mission or a comm failsafe (the latch, which _start_station clears).   *)
OneAlarmPerOutage == alarms <= 1
=============================================================================
