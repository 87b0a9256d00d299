-------------------------- MODULE GncFailsafeProofs --------------------------
(* What the failsafes guarantee, for all timeouts.                            *)
EXTENDS GncFailsafe, TLAPS

(* Until the GNC has heard of the loss the messages on comms/link are missing;*)
(* from then on nothing refreshes its timer.                                  *)
SilenceTimed ==
    silence > 0 =>
        /\ gnc.beat # None
        /\ IF gnc.ws THEN silence <= gaps["link"] ELSE silence <= gnc.beat + LinkGap

(* The loss timer is not older than navigation's last fix.                    *)
LossTimed == gnc.mission /\ ~held => gnc.lost <= shown

(* The latch stays closed for as long as the alarm stands.                    *)
AlarmLatched == alarms = 0 \/ (alarms = 1 /\ gnc.latch)

(* An outage is as old as its timer and the periods its restarts cost.        *)
Timer == IF gnc.lost = None THEN 0 ELSE gnc.lost
OutageTimed == outage > 0 => outage <= restarts * (InsTimeout + 2) + Timer

IInv ==
    /\ TypeOK /\ SilenceTimed /\ LossTimed /\ AlarmLatched /\ OutageTimed
    /\ EmergencyStopFinal /\ NoFalseAlarmWhileArmed

-----------------------------------------------------------------------------
(* The parts of a loop, each as a function of the state it starts from.       *)

LEMMA OlderType ==
    ASSUME NEW limit \in Nat, NEW age \in Age(limit)
    PROVE  /\ Older(age, limit) \in Age(limit)
           /\ age = None <=> Older(age, limit) = None
           /\ age # None /\ age < limit => Older(age, limit) = age + 1
           /\ age = limit => Older(age, limit) = limit
BY DEF Older, Age, None

LEMMA AgesType ==
    /\ InsTimeout + 1 \in Nat /\ CommTimeout + 1 \in Nat /\ LossTimeout + 1 \in Nat
    /\ None \in Age(InsTimeout + 1) /\ 0 \in Age(InsTimeout + 1)
    /\ None \in Age(CommTimeout + 1) /\ 0 \in Age(CommTimeout + 1)
    /\ \A n \in Nat : Capped(n) \in 0..HistoryBound /\ Capped(n) <= n
BY ConstantsAssumption DEF Age, None, Capped

LEMMA StartFields ==
    ASSUME NEW g \in GncState
    PROVE  LET k == Start(g)
           IN  /\ k \in GncState /\ k.ws = g.ws /\ k.armed = g.armed
               /\ ~g.armed => k = g
               /\ g.armed => /\ k.mission /\ k.lost = None /\ ~k.latch
                             /\ k.beat = IF g.ws THEN 0 ELSE g.beat
<1>1. CASE ~g.armed
  BY <1>1 DEF Start
<1>2. CASE g.armed
  <2>1. g.beat \in Age(CommTimeout + 1) /\ g.ws \in BOOLEAN
    BY DEF GncState
  <2>2. CASE g.ws
    BY <1>2, <2>2, AgesType DEF Start, GncState
  <2>3. CASE ~g.ws
    BY <1>2, <2>1, <2>3, AgesType DEF Start, GncState
  <2> QED  BY <2>1, <2>2, <2>3
<1>3. g.armed \in BOOLEAN
  BY DEF GncState
<1> QED  BY <1>1, <1>2, <1>3

LEMMA TakeoverFields ==
    ASSUME NEW g \in GncState
    PROVE  LET k == Takeover(g)
           IN  /\ k \in GncState /\ k.ws = g.ws /\ k.armed = g.armed
               /\ ~g.armed => ~k.mission /\ k.latch = g.latch /\ k.beat = g.beat
               /\ g.armed => /\ k.lost = None /\ ~k.latch
                             /\ k.beat = IF g.ws THEN 0 ELSE g.beat
<1> DEFINE n == [g EXCEPT !.mission = FALSE]
<1>1. /\ n \in GncState /\ n.ws = g.ws /\ n.armed = g.armed /\ ~n.mission
      /\ n.latch = g.latch /\ n.beat = g.beat
  BY DEF GncState
<1>2. Takeover(g) = Start(n)
  BY DEF Takeover
<1> HIDE DEF n
<1> QED  BY <1>1, <1>2, StartFields

(* What a command changes.                                                    *)
LEMMA CommandedFields ==
    ASSUME NEW g \in GncState, NEW c \in Command
    PROVE  LET k == Commanded(g, c)
           IN  /\ k \in GncState /\ k.ws = g.ws
               /\ k.beat = g.beat \/ (k.beat = 0 /\ g.ws)
               /\ c.type # "START" => k.latch = g.latch
               /\ \/ k.lost = g.lost /\ (k.mission => g.mission)
                  \/ c.type = "START" /\ k.lost = None
<1>1. CASE c.type = "START"
  <2>1. Commanded(g, c) = Start(g)
    BY <1>1 DEF Commanded
  <2>2. g.armed \in BOOLEAN /\ g.ws \in BOOLEAN
    BY DEF GncState
  <2> QED  BY <1>1, <2>1, <2>2, StartFields
<1>2. CASE c.type = "SET_FAILSAFE_CONFIG"
  BY <1>2 DEF Command, Commanded, GncState
<1>3. CASE c.type \in {"ARM", "DISARM", "STOP"}
  BY <1>3 DEF Commanded, GncState
<1> QED  BY <1>1, <1>2, <1>3 DEF Command

(* What the topics of a loop change.                                          *)
LEMMA InformedFields ==
    ASSUME TypeOK, NEW heard \in SUBSET Topics, NEW armed \in BOOLEAN, NEW keeps \in BOOLEAN
    PROVE  LET k == Informed(gnc, heard, armed, keeps)
           IN  /\ k \in GncState /\ k.lost = gnc.lost /\ k.latch = gnc.latch
               /\ k.mission => gnc.mission
               /\ k.ws = IF "link" \in heard THEN link ELSE gnc.ws
               /\ k.beat = gnc.beat \/ (k.beat = 0 /\ link)
               /\ "nav" \in heard => k.fix = NavFix(nav)
<1> DEFINE g1 == HearStatus(gnc, "status" \in heard, armed, keeps)
           g2 == HearLink(g1, "link" \in heard)
           g3 == HearNav(g2, "nav" \in heard)
<1>1. /\ g1 \in GncState /\ g1.ws = gnc.ws /\ g1.lost = gnc.lost
      /\ g1.latch = gnc.latch /\ g1.beat = gnc.beat /\ (g1.mission => gnc.mission)
  BY DEF HearStatus, TypeOK, GncState, ManagerState
<1>2. /\ g2 \in GncState /\ g2.mission = g1.mission /\ g2.lost = g1.lost
      /\ g2.latch = g1.latch /\ g2.ws = IF "link" \in heard THEN link ELSE g1.ws
      /\ g2.beat = g1.beat \/ (g2.beat = 0 /\ link)
  <2> HIDE DEF g1
  <2>1. link \in BOOLEAN
    BY DEF TypeOK
  <2> QED  BY <1>1, <2>1, AgesType DEF HearLink, GncState
<1>3. /\ g3 \in GncState /\ g3.mission = g2.mission /\ g3.lost = g2.lost
      /\ g3.latch = g2.latch /\ g3.beat = g2.beat /\ g3.ws = g2.ws
      /\ "nav" \in heard => g3.fix = NavFix(nav)
  <2> HIDE DEF g2
  <2>1. NavFix(nav) \in BOOLEAN
    BY DEF NavFix, TypeOK, NavState
  <2> QED  BY <1>2, <2>1 DEF HearNav, GncState
<1>4. Informed(gnc, heard, armed, keeps) = g3
  BY DEF Informed
<1> HIDE DEF g1, g2, g3
<1> QED  BY <1>1, <1>2, <1>3, <1>4

(* What the two failsafes do to a state that is checked.                      *)
LEMMA GnssFields ==
    ASSUME NEW g \in GncState, Checked(g)
    PROVE  LET h == GnssChecked(g)
           IN  /\ h \in GncState /\ h.ws = g.ws
               /\ h.beat = g.beat \/ (h.beat = 0 /\ g.ws)
               /\ GnssFires(g) => /\ h.latch
                                  /\ ~h.armed => ~h.mission
                                  /\ h.armed => h.lost = None
                                  /\ g.ins = "emergency_stop" => ~h.armed
               /\ ~GnssFires(g) => /\ h.armed
                                   /\ g.fix => h.lost = None
                                   /\ ~g.fix => /\ h.latch = g.latch
                                               /\ h.lost = IF g.lost = None THEN 0 ELSE g.lost
<1>1. CASE GnssFires(g)
  <2>1. g.ins \in InsActions /\ g.armed /\ g.ws \in BOOLEAN
    BY DEF GncState, Checked
  <2>2. GnssChecked(g) = [GnssResponse(g) EXCEPT !.latch = TRUE]
    BY <1>1 DEF GnssChecked
  <2>3. CASE g.ins = "emergency_stop"
    BY <1>1, <2>2, <2>3 DEF GnssResponse, EmergencyStop, GncState
  <2>4. CASE g.ins = "station_keeping"
    <3>1. GnssResponse(g) = Takeover(g)
      BY <2>4 DEF GnssResponse
    <3>2. /\ Takeover(g) \in GncState /\ Takeover(g).armed /\ Takeover(g).lost = None
          /\ Takeover(g).ws = g.ws /\ Takeover(g).beat = IF g.ws THEN 0 ELSE g.beat
      BY <2>1, TakeoverFields
    <3>3. GnssChecked(g) = [Takeover(g) EXCEPT !.latch = TRUE]
      BY <2>2, <3>1
    <3> HIDE DEF Takeover
    <3> QED  BY <1>1, <2>1, <2>4, <3>2, <3>3 DEF GncState
  <2> QED  BY <2>1, <2>3, <2>4 DEF InsActions
<1>2. CASE ~GnssFires(g)
  <2>1. GnssChecked(g) = Timed(g)
    BY <1>2 DEF GnssChecked
  <2>2. g.fix \in BOOLEAN
    BY DEF GncState
  <2>3. CASE g.fix
    BY <1>2, <2>1, <2>3, AgesType DEF Timed, GncState, Checked
  <2>4. CASE ~g.fix
    BY <1>2, <2>1, <2>4, AgesType DEF Timed, GncState, Checked
  <2> QED  BY <2>2, <2>3, <2>4
<1> QED  BY <1>1, <1>2

LEMMA CommFields ==
    ASSUME NEW h \in GncState, ~h.armed => ~h.mission
    PROVE  LET k == CommChecked(h)
           IN  /\ k \in GncState /\ k.ws = h.ws
               /\ ~CommFires(h) => k = h
               /\ CommFires(h) => k.beat = 0
               /\ CommFires(h) /\ h.armed => k.lost = None /\ ~k.latch
               /\ ~h.armed => ~k.armed /\ ~k.mission
<1>1. CASE CommFires(h)
  <2>1. Takeover(h) \in GncState /\ h.armed \in BOOLEAN
    BY TakeoverFields DEF GncState
  <2>2. CommChecked(h) = [Takeover(h) EXCEPT !.beat = 0]
    BY <1>1 DEF CommChecked
  <2>3. /\ Takeover(h).ws = h.ws /\ Takeover(h).armed = h.armed
        /\ h.armed => Takeover(h).lost = None /\ ~Takeover(h).latch
        /\ ~h.armed => ~Takeover(h).mission
    BY TakeoverFields
  <2> HIDE DEF Takeover
  <2> QED  BY <1>1, <2>1, <2>2, <2>3, AgesType DEF GncState
<1>2. CASE ~CommFires(h)
  BY <1>2 DEF CommChecked
<1> QED  BY <1>1, <1>2

LEMMA AgedFields ==
    ASSUME NEW g \in GncState
    PROVE  LET k == Aged(g)
           IN  /\ k \in GncState /\ k.armed = g.armed /\ k.mission = g.mission
               /\ k.ws = g.ws /\ k.latch = g.latch
               /\ k.lost = Older(g.lost, InsTimeout + 1)
               /\ k.beat = Older(g.beat, CommTimeout + 1)
<1>1. g.lost \in Age(InsTimeout + 1) /\ g.beat \in Age(CommTimeout + 1)
  BY DEF GncState
<1>2. /\ Older(g.lost, InsTimeout + 1) \in Age(InsTimeout + 1)
      /\ Older(g.beat, CommTimeout + 1) \in Age(CommTimeout + 1)
  BY <1>1, AgesType, OlderType
<1> QED  BY <1>2 DEF Aged, GncState

-----------------------------------------------------------------------------
(* A loop, with what it read and the state it checked named.                  *)
Loops(heard, armed, keeps) ==
    LET g == Informed(gnc, heard, armed, keeps)
        h == GnssChecked(g)
        m == Overheard(mgr, "status" \in heard, armed)
    IN  /\ \A t \in Topics \ heard : gaps[t] < Gap[t] \/ (t = "status" /\ ~mgr.up)
        /\ gaps' = [t \in Topics |->
                     IF t \in heard \/ (t = "status" /\ ~mgr.up) THEN 0 ELSE gaps[t] + 1]
        /\ nav' = [nav EXCEPT !.age = Older(@, LossTimeout + 1)]
        /\ shown' = IF "nav" \in heard /\ NavFix(nav) THEN 0 ELSE Older(shown, InsTimeout + 1)
        /\ held' = (g.mission /\ g.lost # None /\ (held \/ ~g.armed))
        /\ mgr' \in {m, Arming(m, FALSE)}
        /\ link' = link
        /\ Checked(g) => gnc' = Aged(CommChecked(h)) /\ Recorded(g, h)
        /\ ~Checked(g) => /\ gnc' = Aged(g) /\ fired' = "none" /\ alarms' = 0
                          /\ outage' = 0 /\ restarts' = 0 /\ silence' = 0

LEMMA LoopNamed ==
    ASSUME Loop
    PROVE  \E heard \in SUBSET Topics, armed \in BOOLEAN, keeps \in BOOLEAN :
               Loops(heard, armed, keeps)
<1>1. PICK heard \in SUBSET Topics, armed \in BOOLEAN, keeps \in BOOLEAN :
          Loop!(heard, armed, keeps)
  BY DEF Loop
<1>2. Loops(heard, armed, keeps)
  BY <1>1 DEF Loops
<1> QED  BY <1>2

LEMMA LoopType ==
    ASSUME TypeOK, NEW heard \in SUBSET Topics, NEW armed \in BOOLEAN,
           NEW keeps \in BOOLEAN, Loops(heard, armed, keeps)
    PROVE  TypeOK'
<1> DEFINE g == Informed(gnc, heard, armed, keeps)
           h == GnssChecked(g)
           m == Overheard(mgr, "status" \in heard, armed)
<1>1. nav' \in NavState
  <2>1. nav.age \in Age(LossTimeout + 1) /\ nav.age # None
    BY DEF TypeOK, NavState, Age, None
  <2>2. Older(nav.age, LossTimeout + 1) \in 0..(LossTimeout + 1)
    BY <2>1, AgesType, OlderType DEF Age, None
  <2> QED  BY <2>2 DEF Loops, TypeOK, NavState
<1>2. mgr' \in ManagerState
  <2>1. m \in ManagerState
    BY DEF Overheard, TypeOK, ManagerState
  <2>2. Arming(m, FALSE) \in ManagerState
    <3> HIDE DEF m
    <3> QED  BY <2>1 DEF Arming, ManagerState
  <2> QED  BY <2>1, <2>2 DEF Loops
<1>3. gaps' \in [Topics -> Nat] /\ \A t \in Topics : gaps'[t] <= Gap[t]
  <2>1. \A t \in Topics : Gap[t] \in Nat
    BY ConstantsAssumption DEF Topics, Gap
  <2> QED  BY <2>1 DEF Loops, TypeOK
<1>4. shown' \in 0..(InsTimeout + 1) /\ held' \in BOOLEAN
  <2>1. shown \in Age(InsTimeout + 1) /\ shown # None
    BY DEF TypeOK, Age, None
  <2>2. Older(shown, InsTimeout + 1) \in 0..(InsTimeout + 1)
    BY <2>1, AgesType, OlderType DEF Age, None
  <2>3. shown' \in 0..(InsTimeout + 1)
    BY <2>2, AgesType DEF Loops
  <2> QED  BY <2>3 DEF Loops
<1>5. g \in GncState
  BY InformedFields
<1>6. CASE Checked(g)
  <2>1. h \in GncState /\ (~h.armed => ~h.mission)
    <3>1. GnssFires(g) \in BOOLEAN
      BY DEF GnssFires
    <3> QED  BY <1>5, <1>6, <3>1, GnssFields
  <2>2. CommChecked(h) \in GncState
    BY <2>1, CommFields
  <2>3. gnc' = Aged(CommChecked(h)) /\ Recorded(g, h)
    BY <1>6 DEF Loops
  <2>4. gnc' \in GncState
    BY <2>2, <2>3, AgedFields
  <2>5. fired' \in InsActions \union {"none"}
    BY <1>5, <2>3 DEF Recorded, GncState
  <2>6. /\ alarms' \in Nat /\ outage' \in 0..HistoryBound
        /\ restarts' \in 0..HistoryBound /\ silence' \in 0..HistoryBound
    BY <2>3, AgesType, ConstantsAssumption DEF Recorded, TypeOK
  <2> QED  BY <1>1, <1>2, <1>3, <1>4, <2>4, <2>5, <2>6 DEF Loops, TypeOK
<1>7. CASE ~Checked(g)
  BY <1>1, <1>2, <1>3, <1>4, <1>5, <1>7, AgedFields, ConstantsAssumption DEF Loops, TypeOK
<1> QED  BY <1>6, <1>7

LEMMA Periods ==
    ASSUME NEW n \in Nat, NEW p \in Nat
    PROVE  n * p \in Nat /\ (n + 1) * p = n * p + p /\ (p > 0 => n <= n * p)
<1>1. n * p \in Nat /\ (n + 1) * p = n * p + p
  OBVIOUS
<1>2. ASSUME p > 0 PROVE n <= n * p
  <2>1. p - 1 \in Nat /\ n * (p - 1) \in Nat
    BY <1>2
  <2>2. n * p = n * (p - 1) + n
    OBVIOUS
  <2> QED  BY <2>1, <2>2
<1> QED  BY <1>1, <1>2

(* A loop that checks the failsafes preserves what their timers mean.         *)
LEMMA CheckedLoopInv ==
    ASSUME IInv, TypeOK', NEW heard \in SUBSET Topics, NEW armed \in BOOLEAN,
           NEW keeps \in BOOLEAN, Loops(heard, armed, keeps),
           Checked(Informed(gnc, heard, armed, keeps))
    PROVE  IInv'
<1> DEFINE g == Informed(gnc, heard, armed, keeps)
           h == GnssChecked(g)
           k == CommChecked(h)
<1>1. TypeOK /\ SilenceTimed /\ LossTimed /\ AlarmLatched /\ OutageTimed
  BY DEF IInv
<1>2. /\ g \in GncState /\ g.lost = gnc.lost /\ g.latch = gnc.latch
      /\ g.armed /\ g.mission /\ gnc.mission
      /\ g.ws = IF "link" \in heard THEN link ELSE gnc.ws
      /\ g.beat = gnc.beat \/ (g.beat = 0 /\ link)
      /\ "nav" \in heard => g.fix = NavFix(nav)
  BY <1>1, InformedFields DEF Checked
<1>3. /\ h \in GncState /\ h.ws = g.ws
      /\ h.beat = g.beat \/ (h.beat = 0 /\ g.ws)
      /\ GnssFires(g) => /\ h.latch
                         /\ ~h.armed => ~h.mission
                         /\ h.armed => h.lost = None
                         /\ g.ins = "emergency_stop" => ~h.armed
      /\ ~GnssFires(g) => /\ h.armed
                          /\ g.fix => h.lost = None
                          /\ ~g.fix => /\ h.latch = g.latch
                                      /\ h.lost = IF g.lost = None THEN 0 ELSE g.lost
  BY <1>2, GnssFields
<1>4. GnssFires(g) \in BOOLEAN /\ CommFires(h) \in BOOLEAN
  BY DEF GnssFires, CommFires
<1>5. /\ k \in GncState /\ k.ws = h.ws
      /\ ~CommFires(h) => k = h
      /\ CommFires(h) => k.beat = 0
      /\ CommFires(h) /\ h.armed => k.lost = None /\ ~k.latch
      /\ ~h.armed => ~k.armed /\ ~k.mission
  BY <1>3, <1>4, CommFields
<1>6. /\ gnc' \in GncState /\ gnc'.armed = k.armed /\ gnc'.mission = k.mission
      /\ gnc'.ws = k.ws /\ gnc'.latch = k.latch
      /\ gnc'.lost = Older(k.lost, InsTimeout + 1)
      /\ gnc'.beat = Older(k.beat, CommTimeout + 1)
  <2>1. gnc' = Aged(k)
    BY DEF Loops
  <2> QED  BY <1>5, <2>1, AgedFields
<1>7. Recorded(g, h)
  BY DEF Loops
<1>8. /\ shown' = IF "nav" \in heard /\ NavFix(nav) THEN 0 ELSE Older(shown, InsTimeout + 1)
      /\ held' = (g.mission /\ g.lost # None /\ (held \/ ~g.armed))
      /\ \A t \in Topics \ heard : gaps[t] < Gap[t] \/ (t = "status" /\ ~mgr.up)
      /\ gaps' = [t \in Topics |->
                   IF t \in heard \/ (t = "status" /\ ~mgr.up) THEN 0 ELSE gaps[t] + 1]
  BY DEF Loops
<1>9. /\ gnc.lost \in Age(InsTimeout + 1) /\ gnc.beat \in Age(CommTimeout + 1)
      /\ g.lost \in Age(InsTimeout + 1) /\ g.beat \in Age(CommTimeout + 1)
      /\ h.lost \in Age(InsTimeout + 1) /\ h.beat \in Age(CommTimeout + 1)
      /\ k.lost \in Age(InsTimeout + 1) /\ k.beat \in Age(CommTimeout + 1)
      /\ InsTimeout \in Nat /\ CommTimeout \in Nat /\ LinkGap \in Nat
      /\ HistoryBound \in Nat
      /\ g.fix \in BOOLEAN /\ g.latch \in BOOLEAN /\ g.ws \in BOOLEAN /\ gnc.ws \in BOOLEAN
      /\ link \in BOOLEAN
  BY <1>1, <1>2, <1>3, <1>5, ConstantsAssumption DEF TypeOK, GncState
<1>10. /\ shown \in 0..(InsTimeout + 1) /\ shown' \in 0..(InsTimeout + 1)
       /\ outage \in Nat /\ outage' \in Nat /\ restarts \in Nat
       /\ silence \in Nat /\ silence' \in Nat /\ held \in BOOLEAN
  BY <1>1, ConstantsAssumption DEF TypeOK
<1> HIDE DEF g, h, k
<1>11. EmergencyStopFinal'
  BY <1>3, <1>5, <1>6, <1>7 DEF EmergencyStopFinal, Recorded
<1>12. AlarmLatched'
  <2>1. alarms' = IF g.fix \/ CommFires(h) THEN 0
                  ELSE IF GnssFires(g) THEN alarms + 1 ELSE alarms
    BY <1>7 DEF Recorded
  <2>2. CASE g.fix \/ CommFires(h)
    BY <2>1, <2>2 DEF AlarmLatched
  <2>3. CASE ~g.fix /\ ~CommFires(h)
    <3>1. k = h /\ gnc'.latch = h.latch
      BY <1>5, <1>6, <2>3
    <3>2. CASE GnssFires(g)
      <4>1. ~gnc.latch
        BY <1>2, <3>2 DEF GnssFires
      <4> QED  BY <1>1, <1>3, <2>1, <2>3, <3>1, <3>2, <4>1 DEF AlarmLatched
    <3>3. CASE ~GnssFires(g)
      BY <1>1, <1>2, <1>3, <2>1, <2>3, <3>1, <3>3 DEF AlarmLatched
    <3> QED  BY <1>4, <3>2, <3>3
  <2> QED  BY <1>4, <1>9, <2>2, <2>3
<1>13. SilenceTimed'
  <2> SUFFICES ASSUME silence' > 0 PROVE SilenceTimed'
    BY DEF SilenceTimed
  <2>1. /\ ~link /\ g.beat # None /\ ~CommFires(h) /\ silence' <= silence + 1
    <3>1. silence' = IF link \/ g.beat = None \/ CommFires(h) THEN 0 ELSE Capped(silence + 1)
      BY <1>7 DEF Recorded
    <3> QED  BY <1>10, <3>1, AgesType
  <2>2. k = h /\ k.ws = g.ws /\ k.beat \in 0..CommTimeout /\ g.beat = gnc.beat
        /\ (k.beat = gnc.beat \/ (k.beat = 0 /\ g.ws))
    <3>1. k = h /\ ~(h.beat > CommTimeout)
      BY <1>5, <2>1 DEF CommFires
    <3>2. h.beat # None
      BY <1>3, <2>1 DEF None
    <3> QED  BY <1>2, <1>3, <1>9, <2>1, <3>1, <3>2 DEF Age, None
  <2>3. gnc'.beat = k.beat + 1 /\ gnc'.ws = g.ws
    BY <1>6, <1>9, <2>2, AgesType, OlderType DEF None
  <2>4. /\ gaps["link"] <= LinkGap /\ gaps["link"] \in Nat
        /\ "link" \notin heard => gaps'["link"] = gaps["link"] + 1
    BY <1>1, <1>8 DEF TypeOK, Topics, Gap
  <2>5. silence > 0 =>
            /\ gnc.beat # None
            /\ IF gnc.ws THEN silence <= gaps["link"] ELSE silence <= gnc.beat + LinkGap
    BY <1>1 DEF SilenceTimed
  <2>6. CASE g.ws
    <3>1. "link" \notin heard /\ gnc.ws
      BY <1>2, <2>1, <2>6
    <3>2. silence <= gaps["link"]
      BY <1>10, <2>4, <2>5, <3>1
    <3> QED  BY <1>10, <2>1, <2>2, <2>3, <2>4, <2>6, <3>1, <3>2 DEF SilenceTimed, None
  <2>7. CASE ~g.ws /\ gnc.ws
    <3>1. silence <= LinkGap
      BY <1>9, <1>10, <2>4, <2>5, <2>7
    <3> QED  BY <1>9, <1>10, <2>1, <2>2, <2>3, <2>7, <3>1 DEF SilenceTimed, None
  <2>8. CASE ~g.ws /\ ~gnc.ws
    <3>1. k.beat = gnc.beat
      BY <2>2, <2>8
    <3>2. silence <= gnc.beat + LinkGap
      BY <1>9, <1>10, <2>2, <2>5, <2>8, <3>1
    <3> QED  BY <1>9, <1>10, <2>1, <2>2, <2>3, <2>8, <3>1, <3>2 DEF SilenceTimed, None
  <2> QED  BY <1>9, <2>6, <2>7, <2>8
<1>14. ASSUME ~held, g.lost # None PROVE g.lost <= shown
  BY <1>1, <1>2, <1>14 DEF LossTimed
<1>15. ~g.fix => shown' = Older(shown, InsTimeout + 1)
  BY <1>2, <1>8
<1>16. LossTimed'
  <2> SUFFICES ASSUME gnc'.mission, ~held', gnc'.lost # None PROVE gnc'.lost <= shown'
    BY <1>10 DEF LossTimed, None
  <2>1. k.lost # None
    BY <1>6, <1>9, AgesType, OlderType
  <2>2. ~CommFires(h) /\ k = h /\ h.armed
    BY <1>4, <1>5, <1>6, <2>1
  <2>3. ~GnssFires(g) /\ ~g.fix /\ h.lost = IF g.lost = None THEN 0 ELSE g.lost
    BY <1>3, <1>4, <1>9, <2>1, <2>2
  <2>4. shown' = Older(shown, InsTimeout + 1) /\ shown \in Age(InsTimeout + 1) /\ shown # None
    BY <1>10, <1>15, <2>3 DEF Age, None
  <2>5. CASE g.lost = None
    <3>1. k.lost = 0
      BY <2>2, <2>3, <2>5
    <3>2. gnc'.lost = 1
      BY <1>6, <1>9, <3>1 DEF Older, None
    <3> QED  BY <1>9, <1>10, <2>4, <3>2 DEF Older, None
  <2>6. CASE g.lost # None
    <3>1. k.lost = g.lost
      BY <2>2, <2>3, <2>6
    <3>2. ~held
      BY <1>2, <1>8, <2>6
    <3>3. k.lost <= shown
      BY <1>14, <2>6, <3>1, <3>2
    <3> QED  BY <1>6, <1>9, <1>10, <2>1, <2>4, <3>3 DEF Older, Age, None
  <2> QED  BY <2>5, <2>6
<1>17. NoFalseAlarmWhileArmed'
  <2> SUFFICES ASSUME ~held', fired' # "none" PROVE shown' > InsTimeout
    BY DEF NoFalseAlarmWhileArmed, NoFalseAlarm
  <2>1. GnssFires(g)
    BY <1>7 DEF Recorded
  <2>2. ~g.fix /\ g.lost > InsTimeout /\ g.lost # None
    BY <1>9, <2>1 DEF GnssFires, None
  <2>3. ~held
    BY <1>2, <1>8, <2>2
  <2>4. shown = InsTimeout + 1
    <3>1. g.lost <= shown
      BY <1>14, <2>2, <2>3
    <3> QED  BY <1>9, <1>10, <2>2, <3>1 DEF Age
  <2> QED  BY <1>9, <1>15, <2>2, <2>4 DEF Older, None
<1>18. OutageTimed'
  <2> SUFFICES ASSUME outage' > 0 PROVE outage' <= restarts' * (InsTimeout + 2) + Timer'
    BY DEF OutageTimed
  <2>1. /\ ~NavFix(nav) /\ ~g.latch /\ ~GnssFires(g)
        /\ outage' = Capped(outage + 1)
        /\ restarts' = IF g.fix \/ CommFires(h) THEN Capped(restarts + 1) ELSE restarts
    BY <1>7 DEF Recorded
  <2>2. outage' <= outage + 1 /\ outage' <= HistoryBound
    BY <1>9, <1>10, <2>1, AgesType
  <2>3. outage <= restarts * (InsTimeout + 2) + Timer /\ Timer \in 0..(InsTimeout + 1)
    <3>1. Timer \in 0..(InsTimeout + 1)
      BY <1>9 DEF Timer, Age, None
    <3>2. restarts * (InsTimeout + 2) \in Nat
      BY <1>9, <1>10, Periods
    <3> QED  BY <1>1, <1>10, <3>1, <3>2 DEF OutageTimed
  <2>4. Timer' \in Nat
    <3>1. gnc'.lost \in Age(InsTimeout + 1)
      BY <1>6 DEF GncState
    <3> QED  BY <1>9, <3>1 DEF Timer, Age, None
  <2>5. CASE g.fix \/ CommFires(h)
    <3>1. (restarts + 1) * (InsTimeout + 2) = restarts * (InsTimeout + 2) + (InsTimeout + 2)
          /\ HistoryBound <= HistoryBound * (InsTimeout + 2)
          /\ restarts * (InsTimeout + 2) \in Nat
      BY <1>9, <1>10, Periods
    <3>2. restarts' \in {restarts + 1, HistoryBound}
      BY <2>1, <2>5 DEF Capped
    <3>3. CASE restarts' = restarts + 1
      <4>1. restarts' * (InsTimeout + 2) = restarts * (InsTimeout + 2) + (InsTimeout + 2)
        BY <3>1, <3>3
      <4>2. outage' <= restarts * (InsTimeout + 2) + Timer + 1
        BY <1>10, <2>2, <2>3, <3>1
      <4> QED  BY <1>9, <1>10, <2>3, <2>4, <3>1, <4>1, <4>2
    <3>4. CASE restarts' = HistoryBound
      <4>1. HistoryBound * (InsTimeout + 2) \in Nat
        BY <1>9, Periods
      <4>2. restarts' * (InsTimeout + 2) = HistoryBound * (InsTimeout + 2)
        BY <3>4
      <4>3. outage' <= HistoryBound * (InsTimeout + 2)
        BY <1>9, <1>10, <2>2, <3>1, <4>1
      <4> QED  BY <1>10, <2>4, <4>1, <4>2, <4>3
    <3> QED  BY <3>2, <3>3, <3>4
  <2>6. CASE ~g.fix /\ ~CommFires(h)
    <3>1. k = h /\ h.lost = IF g.lost = None THEN 0 ELSE g.lost
      BY <1>3, <1>5, <2>1, <2>6
    <3>2. g.lost <= InsTimeout
      BY <1>9, <2>1, <2>6 DEF GnssFires, Age
    <3>3. k.lost = Timer
      BY <1>2, <3>1 DEF Timer
    <3>4. gnc'.lost = Timer + 1
      BY <1>2, <1>6, <1>9, <2>3, <3>1, <3>2, <3>3 DEF Older, Age, None
    <3>5. Timer' = Timer + 1
      BY <2>3, <3>4 DEF Timer, None
    <3>6. restarts' = restarts /\ restarts * (InsTimeout + 2) \in Nat
      BY <1>9, <1>10, <2>1, <2>6, Periods
    <3> QED  BY <1>9, <1>10, <2>2, <2>3, <3>5, <3>6
  <2> QED  BY <1>4, <1>9, <2>5, <2>6
<1> QED  BY <1>11, <1>12, <1>13, <1>16, <1>17, <1>18 DEF IInv

(* A loop that checks nothing lets the timer of an active mission run: it is  *)
(* then held.                                                                 *)
LEMMA IdleLoopInv ==
    ASSUME IInv, TypeOK', NEW heard \in SUBSET Topics, NEW armed \in BOOLEAN,
           NEW keeps \in BOOLEAN, Loops(heard, armed, keeps),
           ~Checked(Informed(gnc, heard, armed, keeps))
    PROVE  IInv'
<1> DEFINE g == Informed(gnc, heard, armed, keeps)
<1>1. /\ gnc' = Aged(g) /\ fired' = "none" /\ alarms' = 0
      /\ outage' = 0 /\ restarts' = 0 /\ silence' = 0
      /\ held' = (g.mission /\ g.lost # None /\ (held \/ ~g.armed))
  BY DEF Loops
<1>2. g \in GncState
  BY InformedFields DEF IInv
<1>3. /\ gnc'.mission = g.mission /\ gnc'.lost = Older(g.lost, InsTimeout + 1)
  BY <1>1, <1>2, AgedFields
<1>4. ~(g.armed /\ g.mission)
  BY DEF Checked
<1> HIDE DEF g
<1>5. LossTimed'
  <2> SUFFICES ASSUME gnc'.mission, ~held' PROVE gnc'.lost <= shown'
    BY DEF LossTimed
  <2>1. g.lost = None
    BY <1>1, <1>3, <1>4
  <2> QED  BY <1>3, <2>1 DEF Older, None, TypeOK
<1> QED  BY <1>1, <1>5 DEF IInv, SilenceTimed, AlarmLatched, OutageTimed,
                          EmergencyStopFinal, NoFalseAlarmWhileArmed, NoFalseAlarm

LEMMA LoopInv == IInv /\ Loop => IInv'
<1> SUFFICES ASSUME IInv, Loop PROVE IInv'
  OBVIOUS
<1>1. PICK heard \in SUBSET Topics, armed \in BOOLEAN, keeps \in BOOLEAN :
          Loops(heard, armed, keeps)
  BY LoopNamed
<1>2. TypeOK'
  BY <1>1, LoopType DEF IInv
<1> QED  BY <1>1, <1>2, CheckedLoopInv, IdleLoopInv

(* A command restarts the timer together with its histories, or leaves it.    *)
LEMMA CommandInv == IInv /\ GncCommand => IInv'
<1> SUFFICES ASSUME IInv, GncCommand PROVE IInv'
  OBVIOUS
<1>1. PICK c \in Command :
          /\ gnc' = Commanded(gnc, c)
          /\ mgr' = MgrCommanded(mgr, c)
          /\ alarms' = IF c.type = "START" THEN 0 ELSE alarms
          /\ outage' = IF c.type = "START" THEN 0 ELSE outage
          /\ restarts' = IF c.type = "START" THEN 0 ELSE restarts
  BY DEF GncCommand
<1>2. /\ UNCHANGED <<link, nav, gaps, shown, held, silence>> /\ fired' = "none"
  BY DEF GncCommand
<1>3. /\ gnc \in GncState /\ gnc' \in GncState /\ gnc'.ws = gnc.ws
      /\ gnc'.beat = gnc.beat \/ (gnc'.beat = 0 /\ gnc.ws)
      /\ c.type # "START" => gnc'.latch = gnc.latch
      /\ \/ gnc'.lost = gnc.lost /\ (gnc'.mission => gnc.mission)
         \/ c.type = "START" /\ gnc'.lost = None
  BY <1>1, CommandedFields DEF IInv, TypeOK
<1>4. mgr' \in ManagerState
  <2>1. mgr \in ManagerState
    BY DEF IInv, TypeOK
  <2>2. mgr' \in {mgr, Arming(mgr, TRUE), Arming(mgr, FALSE)}
    BY <1>1 DEF MgrCommanded
  <2> QED  BY <2>1, <2>2 DEF Arming, ManagerState
<1>5. TypeOK'
  BY <1>1, <1>2, <1>3, <1>4, ConstantsAssumption DEF IInv, TypeOK
<1>6. SilenceTimed'
  BY <1>2, <1>3 DEF IInv, SilenceTimed, None
<1>7. LossTimed'
  <2>1. shown \in Nat /\ gnc.lost \in Age(InsTimeout + 1)
    BY <1>3 DEF IInv, TypeOK, GncState
  <2> QED  BY <1>2, <1>3, <2>1 DEF IInv, LossTimed, None
<1>8. AlarmLatched'
  BY <1>1, <1>3 DEF IInv, AlarmLatched
<1>9. OutageTimed'
  BY <1>1, <1>3 DEF IInv, OutageTimed, Timer
<1> QED  BY <1>2, <1>5, <1>6, <1>7, <1>8, <1>9
         DEF IInv, EmergencyStopFinal, NoFalseAlarmWhileArmed, NoFalseAlarm

(* The surroundings change neither the GNC nor any history.                   *)
LEMMA SurroundingsInv ==
    IInv /\ (LinkChanges \/ Sentence \/ ManagerCrashes \/ ManagerRestarts) => IInv'
<1> SUFFICES ASSUME IInv, LinkChanges \/ Sentence \/ ManagerCrashes \/ ManagerRestarts
             PROVE  IInv'
  OBVIOUS
<1>1. UNCHANGED <<gnc, histories>>
  BY DEF LinkChanges, Sentence, ManagerCrashes, ManagerRestarts
<1>2. gaps' \in {gaps, [gaps EXCEPT !["status"] = 0]}
  BY DEF LinkChanges, Sentence, ManagerCrashes, ManagerRestarts
<1>3. link' \in BOOLEAN
  BY DEF IInv, TypeOK, LinkChanges, Sentence, ManagerCrashes, ManagerRestarts
<1>4. nav' \in NavState
  <2>1. nav \in NavState /\ 0 \in 0..(LossTimeout + 1)
    BY AgesType DEF IInv, TypeOK
  <2> QED  BY <2>1 DEF NavState, LinkChanges, Sentence, ManagerCrashes, ManagerRestarts
<1>5. mgr' \in ManagerState
  <2>1. mgr \in ManagerState
    BY DEF IInv, TypeOK
  <2>2. CASE Sentence
    <3>1. PICK fix \in BOOLEAN : mgr' = [mgr EXCEPT !.raw = fix /\ mgr.up]
      BY <2>2 DEF Sentence
    <3>2. (fix /\ mgr.up) \in BOOLEAN
      BY <2>1
    <3> QED  BY <2>1, <3>1, <3>2 DEF ManagerState
  <2>3. CASE LinkChanges \/ ManagerCrashes \/ ManagerRestarts
    <3>1. ManagerReset \in ManagerState /\ [ManagerReset EXCEPT !.up = FALSE] \in ManagerState
      BY DEF ManagerReset, ManagerState
    <3> QED  BY <2>1, <2>3, <3>1 DEF LinkChanges, ManagerCrashes, ManagerRestarts
  <2> QED  BY <2>2, <2>3
<1>6. /\ gaps' \in [Topics -> Nat] /\ \A t \in Topics : gaps'[t] <= Gap[t]
      /\ gaps'["link"] = gaps["link"]
  <2>1. \A t \in Topics : Gap[t] \in Nat
    BY ConstantsAssumption DEF Topics, Gap
  <2> QED  BY <1>2, <2>1 DEF IInv, TypeOK, Topics
<1>7. TypeOK'
  BY <1>1, <1>3, <1>4, <1>5, <1>6 DEF IInv, TypeOK, histories
<1> QED  BY <1>1, <1>6, <1>7 DEF IInv, SilenceTimed, LossTimed, AlarmLatched, OutageTimed,
              Timer, EmergencyStopFinal, NoFalseAlarmWhileArmed, NoFalseAlarm, histories

LEMMA InitInv == Init => IInv
<1> SUFFICES ASSUME Init PROVE IInv
  OBVIOUS
<1>1. gnc \in GncState
  BY AgesType DEF Init, GncState, InsActions
<1>2. gaps \in [Topics -> Nat] /\ \A t \in Topics : gaps[t] <= Gap[t]
  BY ConstantsAssumption DEF Init, Topics, Gap
<1>3. TypeOK
  <2>1. nav \in NavState /\ mgr \in ManagerState /\ link \in BOOLEAN
    <3>1. LossTimeout + 1 \in 0..(LossTimeout + 1)
      BY ConstantsAssumption
    <3>2. nav \in NavState
      BY <3>1 DEF Init, NavState
    <3> QED  BY <3>2 DEF Init, ManagerState, ManagerReset
  <2>2. /\ fired = "none" /\ shown \in 0..(InsTimeout + 1) /\ held = FALSE /\ alarms \in Nat
        /\ outage = 0 /\ restarts = 0 /\ silence = 0 /\ 0 \in 0..HistoryBound
    BY ConstantsAssumption DEF Init
  <2> QED  BY <1>1, <1>2, <2>1, <2>2 DEF TypeOK
<1> QED  BY <1>3 DEF Init, IInv, SilenceTimed, LossTimed, AlarmLatched, OutageTimed,
                    EmergencyStopFinal, NoFalseAlarmWhileArmed, NoFalseAlarm

(* The failsafes' invariant.                                                  *)
THEOREM FailsafesTimed == Spec => []IInv
<1>1. IInv /\ [Next]_vars => IInv'
  <2> SUFFICES ASSUME IInv, [Next]_vars PROVE IInv'
    OBVIOUS
  <2>1. CASE UNCHANGED vars
    BY <2>1 DEF vars, histories, IInv, TypeOK, SilenceTimed, LossTimed, AlarmLatched,
                OutageTimed, Timer, EmergencyStopFinal, NoFalseAlarmWhileArmed, NoFalseAlarm
  <2> QED  BY <2>1, LoopInv, CommandInv, SurroundingsInv DEF Next
<1> QED  BY <1>1, InitInv, PTL DEF Spec

(* A lost link is answered within comm_timeout and the time it takes to be    *)
(* heard of, whatever missions, commands, heartbeats and the other failsafe do*)
(* (_check_failsafes, _consume_link).                                         *)
THEOREM SilenceAnsweredHolds == Spec => []SilenceAnswered
<1>1. IInv => SilenceAnswered
  <2> SUFFICES ASSUME IInv PROVE SilenceAnswered
    OBVIOUS
  <2>1. /\ silence \in Nat /\ CommTimeout \in Nat /\ LinkGap \in Nat
        /\ gaps["link"] \in Nat /\ gaps["link"] <= LinkGap
        /\ gnc.beat \in Age(CommTimeout + 1)
    BY ConstantsAssumption DEF IInv, TypeOK, Topics, Gap, GncState
  <2> QED  BY <2>1 DEF IInv, SilenceTimed, SilenceAnswered, Age, None
<1> QED  BY <1>1, FailsafesTimed, PTL

(* For any timeouts and gaps, what puts off the answer to a GNSS outage is a  *)
(* comm failsafe or a loop that read the Manager's undecayed fix instead of   *)
(* navigation, and each puts it off by one period of the timer at most: the   *)
(* timer itself survives heartbeats, sentences and a Manager that restarts    *)
(* (_check_failsafes, _consume_status, _consume_nav).                         *)
THEOREM OutageDelayedHolds == Spec => []OutageDelayed
<1>1. IInv => OutageDelayed
  <2> SUFFICES ASSUME IInv PROVE OutageDelayed
    OBVIOUS
  <2>1. /\ outage \in Nat /\ restarts \in Nat /\ InsTimeout \in Nat
        /\ gnc.lost \in Age(InsTimeout + 1)
    BY ConstantsAssumption DEF IInv, TypeOK, GncState
  <2>2. /\ (restarts + 1) * (InsTimeout + 2) = restarts * (InsTimeout + 2) + (InsTimeout + 2)
        /\ restarts * (InsTimeout + 2) \in Nat
    BY <2>1, Periods
  <2>3. Timer \in 0..(InsTimeout + 1)
    BY <2>1 DEF Timer, Age, None
  <2>4. outage > 0 => outage <= restarts * (InsTimeout + 2) + Timer
    BY DEF IInv, OutageTimed
  <2> QED  BY <2>1, <2>2, <2>3, <2>4 DEF OutageDelayed
<1> QED  BY <1>1, FailsafesTimed, PTL

(* A GNSS failsafe follows ins_timeout in which the GNC heard no fix from     *)
(* navigation, unless the loss timer ran unchecked while a heartbeat had      *)
(* disarmed the vehicle under its mission.                                    *)
THEOREM NoFalseAlarmHolds == Spec => []NoFalseAlarmWhileArmed
<1>1. IInv => NoFalseAlarmWhileArmed
  BY DEF IInv
<1> QED  BY <1>1, FailsafesTimed, PTL

(* One alarm per outage: the latch, whatever resets it (_start_station).      *)
THEOREM OneAlarmPerOutageHolds == Spec => []OneAlarmPerOutage
<1>1. IInv => OneAlarmPerOutage
  BY DEF IInv, AlarmLatched, OneAlarmPerOutage
<1> QED  BY <1>1, FailsafesTimed, PTL

(* After an emergency stop no failsafe of the same loop starts a mission.     *)
THEOREM EmergencyStopFinalHolds == Spec => []EmergencyStopFinal
<1>1. IInv => EmergencyStopFinal
  BY DEF IInv
<1> QED  BY <1>1, FailsafesTimed, PTL

(* The failsafe loop keeps its timers within their limits, for any timeouts.  *)
THEOREM FailsafeTypeHolds == Spec => []TypeOK
<1>1. IInv => TypeOK
  BY DEF IInv
<1> QED  BY <1>1, FailsafesTimed, PTL
=============================================================================
