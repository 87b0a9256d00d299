--------------------------- MODULE HardwareProofs ---------------------------
(* What the drivers, the motor node and the navigation keep, for streams,     *)
(* queues and timers of any length: one invariant for each component, its     *)
(* preservation by each step of it, and at the end the invariant of the whole *)
(* of MCHardware.                                                             *)
EXTENDS MCHardware, WellFoundedInduction, TLAPS

-----------------------------------------------------------------------------
(* The IMU driver: the bursts of WT901Driver.                                 *)

(* The frames collected are of one burst, and so are those published, unless  *)
(* two were lost in a row.                                                    *)
ImuInv == ImuTypeOK /\ lostRun <= sent /\ CollectedTogether /\ Coherent

-----------------------------------------------------------------------------
(* A frame that is not the last of its burst is followed, at once or after a  *)
(* single loss, by a frame of the same burst, unless it begins the next one.  *)
LEMMA SameBurst ==
    ASSUME NEW i \in Nat, NEW j \in Nat, j = i + 1 \/ j = i + 2,
           Kind(i) # 3, Kind(j) # 0
    PROVE  Burst(i) = Burst(j)
BY DEF Kind, Burst

LEMMA FrameType ==
    ASSUME NEW i \in Nat
    PROVE  Kind(i) \in Kinds /\ Burst(i) \in Nat
BY DEF Kind, Kinds, Burst

(* The latest frame heard and the next one are of one burst as long as frames *)
(* are being collected and the next one does not begin a burst.               *)
LEMMA Continued ==
    ASSUME ImuInv, 0 \in burstFrames, ~skipped, Kind(sent) # 0
    PROVE  \A k \in burstFrames : data[k] = Burst(sent)
<1> DEFINE last == sent - 1 - lostRun
<1>1. sent \in Nat /\ lostRun \in 0..1
  BY ImuAssumption DEF ImuInv, ImuTypeOK, CollectedTogether
<1>2. lostRun < sent /\ Kind(last) # 3 /\ \A k \in burstFrames : data[k] = Burst(last)
  BY DEF ImuInv, CollectedTogether
<1>3. last \in Nat /\ (sent = last + 1 \/ sent = last + 2)
  BY <1>1, <1>2
<1> HIDE DEF last
<1>4. Burst(last) = Burst(sent)
  BY <1>1, <1>2, <1>3, SameBurst
<1> QED  BY <1>2, <1>4 DEF last

(* The marks of the history stay Boolean, and start so.                       *)
LEMMA MarksType ==
    ASSUME ImuInit \/ (ImuTypeOK /\ ImuNext)
    PROVE  /\ ImuInit => MarksOK
           /\ ImuTypeOK /\ ImuNext => MarksOK'
<1>1. ImuInit => MarksOK
  BY Zenon DEF ImuInit, MarksOK
<1>2. ASSUME ImuTypeOK, ImuNext PROVE MarksOK'
  <2>1. skipped \in BOOLEAN /\ broken \in BOOLEAN
    BY <1>2, Zenon DEF ImuTypeOK, MarksOK
  <2>2. skipped' = skipped \/ skipped' = FALSE \/ skipped' = TRUE
    BY <1>2, Zenon DEF ImuNext, Receive, Lose, FirstFrame, MiddleFrame, LastFrame
  <2>3. broken' = broken \/ broken' = skipped
    BY <1>2, Zenon DEF ImuNext, Receive, Lose, FirstFrame, MiddleFrame, LastFrame
  <2> QED  BY <2>1, <2>2, <2>3, Zenon DEF MarksOK
<1> QED  BY <1>1, <1>2, Zenon

-----------------------------------------------------------------------------
(* A frame that is heard.                                                     *)
LEMMA ReceiveInv ==
    ASSUME ImuInv, Receive
    PROVE  ImuInv'
<1>1. sent \in Nat /\ sent' = sent + 1 /\ lostRun' = 0 /\ data' = Accumulated
  BY DEF ImuInv, ImuTypeOK, Receive
<1>2. Kind(sent) \in Kinds /\ Burst(sent) \in Nat
  BY <1>1, FrameType
<1>3. /\ data' \in [Kinds -> Nat] /\ data'[Kind(sent)] = Burst(sent)
      /\ \A k \in Kinds \ {Kind(sent)} : data'[k] = data[k]
  BY <1>1, <1>2 DEF Accumulated, ImuInv, ImuTypeOK
<1>4. /\ burstFrames \in SUBSET (0..2) /\ published \in [Kinds -> Nat] /\ 0..2 \subseteq Kinds
      /\ MarksOK
  BY DEF ImuInv, ImuTypeOK, Kinds
<1>5. lostRun' \in 0..MaxLostRun /\ lostRun' <= sent' /\ sent' \in Nat
  BY <1>1, ImuAssumption
<1>6. sent' - 1 - lostRun' = sent
  BY <1>1
<1>7. CASE FirstFrame
  <2>1. /\ Kind(sent) = 0 /\ burstFrames' = {0} /\ skipped' = FALSE
        /\ UNCHANGED <<published, broken>> /\ MarksOK'
    BY <1>7, MarksType DEF FirstFrame, ImuNext, ImuInv
  <2>2. CollectedTogether'
    BY <1>1, <1>3, <1>6, <2>1 DEF CollectedTogether
  <2>3. Coherent' /\ {0} \in SUBSET (0..2)
    BY <2>1 DEF ImuInv, Coherent
  <2> QED  BY <1>3, <1>4, <1>5, <2>1, <2>2, <2>3 DEF ImuInv, ImuTypeOK
<1>8. CASE MiddleFrame
  <2>1. /\ Kind(sent) \in {1, 2} /\ UNCHANGED <<published, skipped, broken>>
        /\ burstFrames' = burstFrames \union {Kind(sent)} /\ MarksOK'
    BY <1>8, MarksType DEF MiddleFrame, ImuNext, ImuInv
  <2>2. 0 \in burstFrames /\ ~skipped => \A k \in burstFrames : data[k] = Burst(sent)
    BY <2>1, Continued
  <2>3. 0 \in burstFrames' /\ ~skipped' => \A k \in burstFrames' : data'[k] = Burst(sent)
    <3>1. (0 \in burstFrames' => 0 \in burstFrames) /\ (skipped' <=> skipped)
      BY <2>1
    <3>2. ASSUME \A k \in burstFrames : data[k] = Burst(sent)
          PROVE  \A k \in burstFrames' : data'[k] = Burst(sent)
      BY <1>3, <1>4, <2>1, <3>2
    <3> QED  BY <2>2, <3>1, <3>2, Zenon
  <2>4. CollectedTogether'
    BY <1>1, <1>6, <2>1, <2>3 DEF CollectedTogether
  <2>5. burstFrames' \in SUBSET (0..2)
    <3>1. {1, 2} \subseteq 0..2
      OBVIOUS
    <3> QED  BY <1>4, <2>1, <3>1
  <2> QED  BY <1>3, <1>4, <1>5, <2>1, <2>4, <2>5 DEF ImuInv, ImuTypeOK, Coherent
<1>9. CASE LastFrame
  <2>1. Kind(sent) = 3 /\ burstFrames' = {} /\ skipped' = skipped
    BY <1>9 DEF LastFrame
  <2>2. /\ published' = IF burstFrames = {0, 1, 2} THEN data' ELSE published
        /\ broken' = IF burstFrames = {0, 1, 2} THEN skipped ELSE broken
    BY <1>1, <1>9 DEF LastFrame
  <2>3. ASSUME burstFrames = {0, 1, 2}, ~skipped
        PROVE  \A k \in Kinds : data'[k] = Burst(sent)
    <3>1. \A k \in burstFrames : data[k] = Burst(sent)
      BY <2>1, <2>3, Continued
    <3>2. Kinds = {0, 1, 2, 3}
      BY DEF Kinds
    <3> QED  BY <1>3, <2>1, <2>3, <3>1, <3>2
  <2>4. Coherent'
    BY <2>2, <2>3 DEF Coherent, ImuInv
  <2>5. published' \in [Kinds -> Nat] /\ MarksOK'
    BY <1>3, <1>4, <2>2, MarksType DEF ImuNext, ImuInv
  <2> QED  BY <1>3, <1>4, <1>5, <2>1, <2>4, <2>5 DEF ImuInv, ImuTypeOK, CollectedTogether
<1> QED  BY <1>7, <1>8, <1>9 DEF Receive

(* A frame that is lost: the latest one heard stays the latest.               *)
LEMMA LoseInv ==
    ASSUME ImuInv, Lose
    PROVE  ImuInv'
<1>1. sent \in Nat /\ lostRun \in Nat /\ lostRun < MaxLostRun /\ MaxLostRun \in Nat
  BY ImuAssumption DEF ImuInv, ImuTypeOK, Lose
<1>2. sent' = sent + 1 /\ lostRun' = lostRun + 1
  BY DEF Lose
<1>3. /\ UNCHANGED <<burstFrames, data, published, broken>>
      /\ skipped' = IF lostRun = 0 THEN skipped ELSE TRUE
  BY DEF Lose
<1>4. sent' - 1 - lostRun' = sent - 1 - lostRun /\ (lostRun' < sent' <=> lostRun < sent)
  BY <1>1, <1>2
<1>5. ImuTypeOK' /\ lostRun' <= sent'
  <2>1. MarksOK'
    BY MarksType DEF ImuNext, ImuInv
  <2> QED  BY <1>1, <1>2, <1>3, <2>1 DEF ImuInv, ImuTypeOK
<1>6. CollectedTogether'
  <2>1. ~skipped' => ~skipped /\ lostRun = 0
    BY <1>3, Zenon
  <2> QED  BY <1>2, <1>3, <1>4, <2>1 DEF ImuInv, CollectedTogether
<1> QED  BY <1>3, <1>5, <1>6 DEF ImuInv, Coherent

LEMMA ImuInitInv == ImuInit => ImuInv
<1> SUFFICES ASSUME ImuInit PROVE ImuInv
  OBVIOUS
<1>1. CollectedTogether
  BY DEF ImuInit, CollectedTogether
<1>2. Coherent /\ None \in [Kinds -> Nat]
  BY DEF ImuInit, Coherent, None
<1>3. MarksOK
  BY MarksType, Zenon
<1> QED  BY <1>1, <1>2, <1>3, ImuAssumption DEF ImuInit, ImuInv, ImuTypeOK

(* The inductive invariant: frames are collected from one burst at a time     *)
(* until two in a row are lost (imu.py, _parse_frame).                        *)
THEOREM CollectedInv == ImuSpec => []ImuInv
<1>1. ImuInv /\ [ImuNext]_imuVars => ImuInv'
  <2> SUFFICES ASSUME ImuInv, [ImuNext]_imuVars PROVE ImuInv'
    OBVIOUS
  <2>1. CASE UNCHANGED imuVars
    BY <2>1 DEF imuVars, ImuInv, ImuTypeOK, MarksOK, CollectedTogether, Coherent
  <2> QED  BY <2>1, ReceiveInv, LoseInv DEF ImuNext
<1> QED  BY <1>1, ImuInitInv, PTL DEF ImuSpec

(* One coherent burst (imu.py, publish_imu_data): whatever the line loses, a  *)
(* snapshot comes from a single burst unless two frames in a row were lost    *)
(* since its first.                                                           *)
THEOREM CoherentHolds == ImuSpec => []Coherent
<1>1. ImuSpec => []ImuInv
  BY CollectedInv
<1>2. ImuInv => Coherent
  BY DEF ImuInv
<1> QED  BY <1>1, <1>2, PTL

-----------------------------------------------------------------------------
(* The power meter: the readings of PowerNode.                                *)

(* A reading in the callback is at most MaxDelay old; a reset that overtook   *)
(* it has emptied the counter.                                                *)
StampTimed ==
    stamp # NoReading =>
        /\ stamp <= clock /\ clock <= stamp + MaxDelay
        /\ lastSample > stamp => accumulated = 0

PowerInv ==
    /\ PowerTypeOK /\ EnergySinceStart /\ StampTimed
    /\ startTime <= clock /\ lastSample <= clock
    /\ startTime <= lastSample + MaxDelay

-----------------------------------------------------------------------------
LEMMA LevelType ==
    ASSUME NEW acc \in Nat, NEW cap \in Nat
    PROVE  Level(acc, cap) \in 0..100
<1>1. CASE cap = 0 \/ acc >= cap
  BY <1>1 DEF Level
<1>2. CASE cap # 0 /\ acc < cap
  <2> DEFINE q == (100 * acc) \div cap
  <2>1. q \in Nat /\ q <= 100
    BY <1>2
  <2>2. Level(acc, cap) = 100 - q
    BY <1>2 DEF Level
  <2> HIDE DEF q
  <2> QED  BY <2>1, <2>2
<1> QED  BY <1>1, <1>2

(* More time at the same power is more energy.                                *)
LEMMA Monotone ==
    ASSUME NEW m \in Nat, NEW x \in Int, NEW y \in Int, x <= y
    PROVE  m * x \in Int /\ m * y \in Int /\ m * x <= m * y
OBVIOUS

LEMMA Distributes ==
    ASSUME NEW m \in Nat, NEW x \in Int, NEW y \in Int
    PROVE  m * (x + y) = m * x + m * y
OBVIOUS

LEMMA PowerOver ==
    ASSUME NEW m \in Nat, NEW p \in 0..m, NEW d \in Nat
    PROVE  p * d \in Nat /\ p * d <= m * d
OBVIOUS

-----------------------------------------------------------------------------
LEMMA IntegrateInv ==
    ASSUME PowerInv, NEW p \in 0..MaxPower, Integrate(p)
    PROVE  PowerInv'
<1> USE PowerAssumption
<1>1. /\ clock \in Nat /\ startTime \in Nat /\ lastSample \in Nat
      /\ accumulated \in Nat /\ capacity \in Nat /\ stamp \in Nat
      /\ stamp <= clock /\ clock <= stamp + MaxDelay
      /\ lastSample > stamp => accumulated = 0
      /\ startTime <= clock
      /\ accumulated <= MaxPower * (lastSample - startTime + MaxDelay)
  BY DEF PowerInv, PowerTypeOK, StampTimed, EnergySinceStart, Integrate, NoReading
<1>2. /\ accumulated' = Energy(p) /\ lastSample' = stamp /\ stamp' = NoReading
      /\ level' = Level(accumulated', capacity)
      /\ UNCHANGED <<clock, startTime, capacity>>
  BY DEF Integrate
<1> DEFINE before == lastSample - startTime + MaxDelay
           after == stamp - startTime + MaxDelay
           dt == stamp - lastSample
<1>3. before \in Int /\ after \in Nat /\ dt \in Int /\ after = before + dt
  BY <1>1
<1>4. Energy(p) = IF dt > 0 /\ dt < MaxGap THEN accumulated + p * dt ELSE accumulated
  BY DEF Energy
<1>5. accumulated <= MaxPower * before
  BY <1>1
<1> HIDE DEF before, after, dt
<1>6. accumulated' \in Nat /\ accumulated' <= MaxPower * after
  <2>1. CASE dt > 0 /\ dt < MaxGap
    <3>1. p * dt \in Nat /\ p * dt <= MaxPower * dt
      BY <1>3, <2>1, PowerOver
    <3>2. MaxPower * after = MaxPower * before + MaxPower * dt
      BY <1>3, Distributes
    <3>3. MaxPower * before \in Int /\ MaxPower * dt \in Int
      BY <1>3
    <3> QED  BY <1>1, <1>2, <1>4, <1>5, <2>1, <3>1, <3>2, <3>3
  <2>2. CASE ~(dt > 0 /\ dt < MaxGap) /\ dt >= 0
    <3>1. MaxPower * before <= MaxPower * after
      BY <1>3, <2>2, Monotone
    <3>2. MaxPower * before \in Int /\ MaxPower * after \in Int
      BY <1>3
    <3> QED  BY <1>1, <1>2, <1>4, <1>5, <2>2, <3>1, <3>2
  <2>3. CASE dt < 0
    <3>1. accumulated = 0
      BY <1>1, <2>3 DEF dt
    <3>2. MaxPower * after \in Nat
      BY <1>3
    <3> QED  BY <1>2, <1>3, <1>4, <2>3, <3>1, <3>2
  <2> QED  BY <1>3, <2>1, <2>2, <2>3
<1>7. EnergySinceStart'
  BY <1>2, <1>6 DEF EnergySinceStart, after
<1>8. level' \in 0..100
  BY <1>1, <1>2, <1>6, LevelType
<1>9. PowerTypeOK'
  BY <1>1, <1>2, <1>6, <1>8 DEF PowerTypeOK
<1> QED  BY <1>1, <1>2, <1>7, <1>9 DEF PowerInv, StampTimed

LEMMA ResetInv ==
    ASSUME PowerInv, ResetEnergy
    PROVE  PowerInv'
<1> USE PowerAssumption
<1>1. clock \in Nat /\ MaxPower * MaxDelay \in Nat
  BY DEF PowerInv, PowerTypeOK
<1>2. clock - clock + MaxDelay = MaxDelay
  BY <1>1
<1>3. EnergySinceStart'
  BY <1>1, <1>2 DEF ResetEnergy, EnergySinceStart
<1> QED  BY <1>1, <1>3 DEF PowerInv, PowerTypeOK, StampTimed, ResetEnergy

(* The other steps leave the counter alone.                                   *)
LEMMA OthersInv ==
    ASSUME PowerInv,
           \/ StampReading
           \/ \E cap \in Capacities : SetCapacity(cap)
           \/ \E s \in Waits : Elapse(s)
           \/ UNCHANGED powerVars
    PROVE  PowerInv'
<1> USE PowerAssumption
<1>1. EnergySinceStart' /\ startTime' = startTime /\ lastSample' = lastSample
  BY DEF PowerInv, EnergySinceStart, StampReading, SetCapacity, Elapse, powerVars
<1>2. CASE StampReading
  BY <1>1, <1>2 DEF PowerInv, PowerTypeOK, StampTimed, StampReading, NoReading
<1>3. ASSUME NEW cap \in Capacities, SetCapacity(cap)
      PROVE  PowerInv'
  BY <1>1, <1>3 DEF PowerInv, PowerTypeOK, StampTimed, SetCapacity
<1>4. ASSUME NEW s \in Waits, Elapse(s)
      PROVE  PowerInv'
  BY <1>1, <1>4 DEF PowerInv, PowerTypeOK, StampTimed, Elapse, NoReading
<1>5. CASE UNCHANGED powerVars
  BY <1>1, <1>5 DEF PowerInv, PowerTypeOK, StampTimed, powerVars
<1> QED  BY <1>2, <1>3, <1>4, <1>5

LEMMA PowerInitInv == PowerInit => PowerInv
<1> USE PowerAssumption
<1> SUFFICES ASSUME PowerInit PROVE PowerInv
  OBVIOUS
<1>1. MaxPower * (0 - 0 + MaxDelay) \in Nat
  OBVIOUS
<1> QED  BY <1>1 DEF PowerInit, PowerInv, PowerTypeOK, EnergySinceStart, StampTimed, NoReading

(* The inductive invariant of the meter: the time of a reading is at most     *)
(* MaxDelay old when it is integrated, and a reset that overtook it has       *)
(* emptied the counter (power_pzem.py, _on_pzem_data and reset_energy).       *)
THEOREM MeterInv == PowerSpec => []PowerInv
<1>1. PowerInv /\ [PowerNext]_powerVars => PowerInv'
  BY IntegrateInv, ResetInv, OthersInv DEF PowerNext
<1> QED  BY <1>1, PowerInitInv, PTL DEF PowerSpec

(* The energy shown is what was used since the reset, but for the delay of    *)
(* one reading (power_pzem.py, reset_energy against the reader's thread).     *)
THEOREM EnergySinceStartHolds == PowerSpec => []EnergySinceStart
<1>1. PowerInv => EnergySinceStart
  BY DEF PowerInv
<1> QED  BY <1>1, MeterInv, PTL

(* The battery level is a percentage for any capacity, also none.             *)
THEOREM PowerTypeHolds == PowerSpec => []PowerTypeOK
<1>1. PowerInv => PowerTypeOK
  BY DEF PowerInv
<1> QED  BY <1>1, MeterInv, PTL

-----------------------------------------------------------------------------
(* The IMU driver again, whatever the line loses.                             *)

(* What was taken from the current burst has been noted.                      *)
BurstNoted ==
    \A k \in Kinds :
        /\ data[k] <= Burst(sent)
        /\ data[k] = Burst(sent) => k \in burstFrames /\ k < Kind(sent)

StreamInv == ImuTypeOK /\ BurstNoted

LatestStep == published' # published => published'[3] = Burst(sent)
WholeStep ==
    (sent' > sent /\ Kind(sent) = 3 /\ \A k \in Kinds : data'[k] = Burst(sent))
        => published' = data'

(* The next frame is of the same burst, or the first of the next one.         *)
LEMMA NextFrame ==
    ASSUME NEW i \in Nat
    PROVE  \/ Kind(i) # 3 /\ Kind(i + 1) = Kind(i) + 1 /\ Burst(i + 1) = Burst(i)
           \/ Kind(i) = 3 /\ Kind(i + 1) = 0 /\ Burst(i + 1) = Burst(i) + 1
BY DEF Kind, Burst

LEMMA StreamStep ==
    ASSUME StreamInv, ImuNext
    PROVE  StreamInv' /\ LatestStep /\ WholeStep
<1>1. /\ sent \in Nat /\ sent' = sent + 1
      /\ lostRun \in 0..MaxLostRun /\ MaxLostRun \in Nat
      /\ data \in [Kinds -> Nat] /\ published \in [Kinds -> Nat]
      /\ burstFrames \in SUBSET (0..2)
  BY ImuAssumption DEF StreamInv, ImuTypeOK, ImuNext, Receive, Lose
<1>2. Kind(sent) \in Kinds /\ Burst(sent) \in Nat /\ Kind(sent') \in Kinds
  BY <1>1, FrameType
<1>3. \/ Kind(sent) # 3 /\ Kind(sent') = Kind(sent) + 1 /\ Burst(sent') = Burst(sent)
      \/ Kind(sent) = 3 /\ Kind(sent') = 0 /\ Burst(sent') = Burst(sent) + 1
  BY <1>1, NextFrame
<1>4. Kinds = {0, 1, 2, 3}
  BY DEF Kinds
<1>5. \A k \in Kinds : /\ data[k] <= Burst(sent)
                       /\ data[k] = Burst(sent) => k \in burstFrames /\ k < Kind(sent)
  BY DEF StreamInv, BurstNoted
<1>6. CASE Lose
  <2>1. UNCHANGED <<burstFrames, data, published>> /\ lostRun' = lostRun + 1
    BY <1>6 DEF Lose
  <2>2. ImuTypeOK'
    BY <1>1, <1>6, <2>1, MarksType DEF StreamInv, ImuNext, ImuTypeOK, Lose
  <2>3. BurstNoted'
    <3> SUFFICES ASSUME NEW k \in Kinds
                 PROVE  /\ data[k] <= Burst(sent')
                        /\ data[k] = Burst(sent') => k \in burstFrames /\ k < Kind(sent')
      BY <2>1 DEF BurstNoted
    <3>1. data[k] \in Nat /\ k \in Nat
      BY <1>1, <1>4
    <3> QED  BY <1>2, <1>3, <1>4, <1>5, <3>1
  <2>4. Kind(sent) = 3 => data'[3] # Burst(sent)
    BY <1>4, <1>5, <2>1
  <2> QED  BY <1>4, <2>1, <2>2, <2>3, <2>4 DEF StreamInv, LatestStep, WholeStep
<1>7. CASE Receive
  <2>1. /\ data' \in [Kinds -> Nat] /\ data'[Kind(sent)] = Burst(sent)
        /\ \A k \in Kinds \ {Kind(sent)} : data'[k] = data[k]
        /\ lostRun' = 0
    BY <1>1, <1>2, <1>7 DEF Accumulated, Receive
  <2>2. ImuTypeOK'
    <3>1. burstFrames' \in SUBSET (0..2)
      <4>1. 0..2 = {0, 1, 2}
        OBVIOUS
      <4>2. \/ burstFrames' = {0} \/ burstFrames' = {}
            \/ \E k \in {1, 2} : burstFrames' = burstFrames \union {k}
        BY <1>7 DEF Receive, FirstFrame, MiddleFrame, LastFrame
      <4> QED  BY <1>1, <4>1, <4>2
    <3>2. published' \in [Kinds -> Nat]
      BY <1>1, <1>7, <2>1 DEF Receive, FirstFrame, MiddleFrame, LastFrame
    <3>3. MarksOK'
      BY MarksType DEF StreamInv
    <3> QED  BY <1>1, <2>1, <3>1, <3>2, <3>3 DEF ImuTypeOK
  <2>3. BurstNoted'
    <3> SUFFICES ASSUME NEW k \in Kinds
                 PROVE  /\ data'[k] <= Burst(sent')
                        /\ data'[k] = Burst(sent') => k \in burstFrames' /\ k < Kind(sent')
      BY DEF BurstNoted
    <3>1. data[k] \in Nat /\ k \in Nat /\ Kind(sent) \in Nat
      BY <1>1, <1>2, <1>4
    <3>2. data'[k] = IF k = Kind(sent) THEN Burst(sent) ELSE data[k]
      BY <2>1
    <3>3. CASE FirstFrame
      BY <1>2, <1>3, <1>4, <1>5, <3>1, <3>2, <3>3 DEF FirstFrame
    <3>4. CASE MiddleFrame
      BY <1>2, <1>3, <1>4, <1>5, <3>1, <3>2, <3>4 DEF MiddleFrame
    <3>5. CASE LastFrame
      BY <1>2, <1>3, <1>4, <1>5, <3>1, <3>2, <3>5 DEF LastFrame
    <3> QED  BY <1>7, <3>3, <3>4, <3>5 DEF Receive
  <2>4. LatestStep
    <3>1. CASE published' = published
      BY <3>1 DEF LatestStep
    <3>2. CASE LastFrame
      BY <1>7, <2>1, <3>2 DEF LastFrame, Receive, LatestStep
    <3> QED  BY <1>7, <3>1, <3>2 DEF Receive, FirstFrame, MiddleFrame
  <2>5. WholeStep
    <3> SUFFICES ASSUME Kind(sent) = 3, \A k \in Kinds : data'[k] = Burst(sent)
                 PROVE  published' = data'
      BY DEF WholeStep
    <3>1. LastFrame
      BY <1>7 DEF Receive, FirstFrame, MiddleFrame
    <3>2. \A k \in {0, 1, 2} : k \in burstFrames
      BY <1>4, <1>5, <2>1
    <3>3. burstFrames = {0, 1, 2}
      <4>1. 0..2 = {0, 1, 2}
        OBVIOUS
      <4> QED  BY <1>1, <3>2, <4>1
    <3> QED  BY <1>7, <3>1, <3>3 DEF LastFrame, Receive
  <2> QED  BY <2>2, <2>3, <2>4, <2>5 DEF StreamInv
<1> QED  BY <1>6, <1>7 DEF ImuNext

LEMMA StreamInit == ImuInit => StreamInv
<1> SUFFICES ASSUME ImuInit PROVE StreamInv
  OBVIOUS
<1>1. Kind(0) = 0 /\ Burst(0) = 1
  BY DEF Kind, Burst
<1>2. None \in [Kinds -> Nat] /\ \A k \in Kinds : None[k] = 0
  BY DEF None
<1>3. MarksOK
  BY MarksType, Zenon
<1> QED  BY <1>1, <1>2, <1>3, ImuAssumption DEF ImuInit, StreamInv, ImuTypeOK, BurstNoted

-----------------------------------------------------------------------------
(* The sensor nodes.                                                          *)

(* The driver of a node that waits is stopped, unless a configuration has     *)
(* come to the GNSS node since.                                               *)
SensorInv ==
    /\ SensorTypeOK
    /\ \A n \in Nodes : phase[n] = "wait" /\ driver[n] # "idle" => n = "gnss" /\ early

(* A step of ReaderLeftBehind.                                                *)
OrphanStep == \A n \in Nodes : orphan'[n] /\ ~orphan[n] => n = "gnss" /\ early

LEMMA SensorStart == SensorInit => SensorInv
<1>1. SensorInit => early \in BOOLEAN /\ \A n \in Nodes : driver[n] = "idle"
  BY Zenon DEF SensorInit
<1> QED  BY <1>1, SensorAssumption DEF SensorInit, SensorInv, SensorTypeOK, Statuses

LEMMA NodeInv ==
    ASSUME SensorInv, NEW n \in Nodes, NodeStep(n)
    PROVE  SensorInv'
<1> USE DEF SensorInv, SensorTypeOK, Statuses
<1>1. CASE StartDriver(n)
  BY <1>1 DEF StartDriver, Started
<1>2. CASE Heartbeat(n)
  BY <1>2 DEF Heartbeat
<1>3. CASE TearDown(n)
  BY <1>3 DEF TearDown
<1>4. CASE Recreate(n)
  BY <1>4 DEF Recreate
<1> QED  BY <1>1, <1>2, <1>3, <1>4 DEF NodeStep

LEMMA LineInv ==
    ASSUME SensorInv, NEW n \in Nodes,
           \/ Data(n) \/ Silence(n) \/ ReaderGivesUp(n)
           \/ LineFails(n, "silent") \/ LineFails(n, "gone") \/ LineReturns(n)
    PROVE  SensorInv'
<1> USE DEF SensorInv, SensorTypeOK, Statuses
<1>1. CASE Data(n)
  BY <1>1 DEF Data
<1>2. CASE Silence(n) \/ ReaderGivesUp(n)
  BY <1>2 DEF Silence, ReaderGivesUp
<1>3. ASSUME NEW how \in {"silent", "gone"}, LineFails(n, how)
      PROVE  SensorInv'
  <2>1. faults' \in 0..MaxFaults
    BY <1>3, SensorAssumption DEF LineFails
  <2> QED  BY <1>3, <2>1 DEF LineFails
<1>4. CASE LineReturns(n)
  BY <1>4 DEF LineReturns, nodeVars
<1> QED  BY <1>1, <1>2, <1>3, <1>4

LEMMA RequestInv ==
    ASSUME SensorInv, NEW b \in BOOLEAN, ApplyConfig(b) \/ SetMuted(b)
    PROVE  SensorInv'
<1> USE DEF SensorInv, SensorTypeOK, Statuses
<1>1. requests' \in 0..MaxRequests
  BY SensorAssumption DEF ApplyConfig, SetMuted
<1>2. CASE ApplyConfig(b)
  BY <1>1, <1>2 DEF ApplyConfig, Started
<1>3. CASE SetMuted(b)
  BY <1>1, <1>3 DEF SetMuted
<1> QED  BY <1>2, <1>3

LEMMA SensorStep == SensorInv /\ [SensorNext]_sensorVars => SensorInv'
<1> SUFFICES ASSUME SensorInv, [SensorNext]_sensorVars PROVE SensorInv'
  OBVIOUS
<1>1. CASE UNCHANGED sensorVars
  BY <1>1 DEF SensorInv, SensorTypeOK, sensorVars, nodeVars
<1> QED  BY <1>1, NodeInv, LineInv, RequestInv DEF SensorNext

(* Only the retry of the GNSS node leaves a reader behind.                    *)
LEMMA OrphanLeft ==
    ASSUME SensorInv, SensorNext
    PROVE  OrphanStep
<1>1. ASSUME NEW n \in Nodes, Recreate(n) PROVE OrphanStep
  <2>1. phase[n] = "wait" /\ orphan' = [orphan EXCEPT ![n] = orphan[n] \/ driver[n] # "idle"]
    BY <1>1 DEF Recreate
  <2>2. ASSUME NEW m \in Nodes, orphan'[m], ~orphan[m] PROVE m = n /\ driver[n] # "idle"
    BY <2>1, <2>2, Zenon DEF SensorInv, SensorTypeOK
  <2> QED  BY <2>1, <2>2 DEF OrphanStep, SensorInv
<1>2. ASSUME NEW n \in Nodes, NEW how, LineFails(n, how) PROVE OrphanStep
  <2>1. orphan' = [orphan EXCEPT ![n] = orphan[n] /\ how # "gone"]
    BY <1>2 DEF LineFails
  <2>2. \A m \in Nodes : orphan'[m] => orphan[m]
    BY <2>1, Zenon DEF SensorInv, SensorTypeOK
  <2> QED  BY <2>2 DEF OrphanStep
<1>3. ASSUME orphan' = orphan PROVE OrphanStep
  BY <1>3 DEF OrphanStep
<1> QED  BY <1>1, <1>2, <1>3
         DEF SensorNext, NodeStep, StartDriver, Heartbeat, TearDown, Data, Silence,
             ReaderGivesUp, LineReturns, nodeVars, ApplyConfig, SetMuted

-----------------------------------------------------------------------------
(* The GNSS driver.                                                           *)

(* The place of a sentence in the epoch.                                      *)
Place == [p \in Parts |-> CASE p = "GGA" -> 1 [] p = "THS" -> 2 [] p = "VTG" -> 3]

(* A part is one epoch old, none once its sentence has been dispatched, and   *)
(* one older for each bad sentence in a row.                                  *)
PartAge ==
    \A p \in Parts :
        parsed[p] + bad[p] + (IF turn > Place[p] THEN 0 ELSE 1) >= epoch

GnssInv ==
    /\ GnssTypeOK /\ PartAge
    /\ turn = 2 => snapshot = parsed
    /\ sock # "none" => sinceRtcm <= Stall

LEMMA GnssStart == GnssInit => GnssInv
<1> SUFFICES ASSUME GnssInit PROVE GnssInv
  OBVIOUS
<1>1. /\ parsed \in [Parts -> 0..MaxEpoch] /\ bad \in [Parts -> 0..MaxBad]
      /\ snapshot = parsed /\ \A p \in Parts : parsed[p] = 0 /\ bad[p] = 0
  BY GnssAssumption DEF GnssInit
<1>2. GnssTypeOK
  <2>1. 1 \in 1..(MaxEpoch + 1) /\ 1 \in 1..3 /\ 0 \in 0..(Stall + 1)
        /\ UplinkEvery \in 0..UplinkEvery /\ 0 \in 0..RetryAfter
    BY GnssAssumption
  <2>2. caster \in BOOLEAN
    BY DEF GnssInit
  <2> QED  BY <1>1, <2>1, <2>2 DEF GnssInit, GnssTypeOK
<1>3. PartAge
  BY <1>1 DEF GnssInit, PartAge, Parts, Place
<1> QED  BY <1>1, <1>2, <1>3 DEF GnssInit, GnssInv

LEMMA SentenceOfTurn ==
    ASSUME NEW t \in 1..3
    PROVE  Sentence[t] \in Parts /\ Place[Sentence[t]] = t
BY DEF Sentence, Parts, Place

LEMMA DispatchInv ==
    ASSUME GnssInv, NEW outcome \in Outcomes, NEW solved \in BOOLEAN,
           Dispatch(outcome, solved)
    PROVE  GnssInv'
<1> USE GnssAssumption
<1> DEFINE p == Sentence[turn]
           good == outcome = "good"
<1>1. /\ turn \in 1..3 /\ epoch \in 1..MaxEpoch
      /\ parsed \in [Parts -> 0..MaxEpoch] /\ bad \in [Parts -> 0..MaxBad]
      /\ good \/ bad[p] < MaxBad
  BY DEF Dispatch, GnssInv, GnssTypeOK
<1>2. p \in Parts /\ Place[p] = turn
  BY <1>1, SentenceOfTurn
<1>3. /\ parsed' = IF good THEN [parsed EXCEPT ![p] = epoch] ELSE parsed
      /\ bad' = [bad EXCEPT ![p] = IF good THEN 0 ELSE @ + 1]
      /\ fixed' \in BOOLEAN
      /\ snapshot' = IF p = "GGA" THEN parsed' ELSE snapshot
  BY DEF Dispatch, Parse, GnssInv, GnssTypeOK
<1>4. /\ turn' = IF turn = 3 THEN 1 ELSE turn + 1
      /\ epoch' = IF turn = 3 THEN epoch + 1 ELSE epoch
      /\ UNCHANGED <<gnssRunning, ntripVars>>
  BY DEF Dispatch, NextTurn
<1> HIDE DEF p, good
<1>5. parsed' \in [Parts -> 0..MaxEpoch] /\ bad' \in [Parts -> 0..MaxBad]
  BY <1>1, <1>2, <1>3
<1>6. snapshot' \in [Parts -> 0..MaxEpoch]
  BY <1>3, <1>5 DEF GnssInv, GnssTypeOK
<1>7. GnssTypeOK'
  BY <1>1, <1>3, <1>4, <1>5, <1>6 DEF GnssInv, GnssTypeOK, ntripVars
<1>8. PartAge'
  <2> SUFFICES ASSUME NEW q \in Parts
               PROVE  parsed'[q] + bad'[q] + (IF turn' > Place[q] THEN 0 ELSE 1) >= epoch'
    BY DEF PartAge
  <2>1. /\ parsed[q] \in Nat /\ bad[q] \in Nat /\ Place[q] \in 1..3 /\ epoch \in Nat
        /\ q # p => Place[q] # turn
    BY <1>1, <1>2 DEF Parts, Place, p, Sentence
  <2>2. parsed[q] + bad[q] + (IF turn > Place[q] THEN 0 ELSE 1) >= epoch
    BY DEF GnssInv, PartAge
  <2>3. CASE q = p
    <3>1. parsed'[q] + bad'[q] >= epoch
      BY <1>1, <1>2, <1>3, <2>1, <2>2, <2>3
    <3>2. parsed'[q] \in Nat /\ bad'[q] \in Nat
      BY <1>5
    <3> QED  BY <1>1, <1>2, <1>4, <2>1, <2>3, <3>1, <3>2
  <2>4. CASE q # p
    <3>1. parsed'[q] = parsed[q] /\ bad'[q] = bad[q]
      BY <1>1, <1>3, <2>4
    <3> QED  BY <1>1, <1>4, <2>1, <2>2, <2>4, <3>1
  <2> QED  BY <2>3, <2>4
<1>9. turn' = 2 => snapshot' = parsed'
  BY <1>1, <1>3, <1>4 DEF p, Sentence
<1> QED  BY <1>4, <1>7, <1>8, <1>9 DEF GnssInv, ntripVars

LEMMA NtripInv ==
    ASSUME GnssInv, NtripStep \/ LinkDies \/ CasterFlips \/ StopDriver
    PROVE  GnssInv'
<1> USE GnssAssumption DEF GnssInv, GnssTypeOK, PartAge, readerVars
<1>1. CASE LoopEnds \/ ConnectNtrip \/ AdoptStream
  BY <1>1 DEF LoopEnds, ConnectNtrip, AdoptStream
<1>2. CASE RetryWaits \/ StreamEnds
  BY <1>2 DEF RetryWaits, StreamEnds
<1>3. ASSUME NEW got \in BOOLEAN, NEW uplinked \in BOOLEAN, Forward(got, uplinked) PROVE GnssInv'
  BY <1>3 DEF Forward, UplinkDue
<1>4. CASE LinkDies \/ CasterFlips \/ StopDriver
  BY <1>4 DEF LinkDies, CasterFlips, StopDriver
<1> QED  BY <1>1, <1>2, <1>3, <1>4 DEF NtripStep

LEMMA GnssStep == GnssInv /\ [GnssNext]_gnssVars => GnssInv'
<1> SUFFICES ASSUME GnssInv, [GnssNext]_gnssVars PROVE GnssInv'
  OBVIOUS
<1>1. CASE UNCHANGED gnssVars
  BY <1>1 DEF GnssInv, GnssTypeOK, PartAge, gnssVars, readerVars, ntripVars
<1> QED  BY <1>1, DispatchInv, NtripInv DEF GnssNext

LEMMA SnapshotAged == GnssInv => SnapshotAge
<1> SUFFICES ASSUME GnssInv, turn = 2
             PROVE  /\ snapshot["GGA"] + bad["GGA"] >= epoch
                    /\ \A p \in {"THS", "VTG"} : snapshot[p] + bad[p] + 1 >= epoch
  BY DEF SnapshotAge
<1>1. /\ "GGA" \in Parts /\ Place["GGA"] = 1
      /\ \A p \in {"THS", "VTG"} : p \in Parts /\ Place[p] \in {2, 3}
      /\ \A p \in Parts : parsed[p] \in Nat /\ bad[p] \in Nat
      /\ snapshot = parsed
  BY DEF GnssInv, GnssTypeOK, Parts, Place
<1> QED  BY <1>1 DEF GnssInv, PartAge

-----------------------------------------------------------------------------
(* The motor node and the firmware.                                           *)

LEMMA EspStart == EspInit => EspTypeOK
<1> SUFFICES ASSUME EspInit PROVE EspTypeOK
  OBVIOUS
<1>1. frame \in Frames /\ board \in Frames
  BY Esp32Assumption DEF EspInit, AfterReset, Frames
<1> QED  BY <1>1, Esp32Assumption DEF EspInit, EspTypeOK

LEMMA EspStep == EspTypeOK /\ [EspNext]_espVars => EspTypeOK'
<1> SUFFICES ASSUME EspTypeOK, [EspNext]_espVars PROVE EspTypeOK'
  OBVIOUS
<1> USE Esp32Assumption DEF EspTypeOK
<1>0. CASE OpenPort
  <2>1. AfterReset \in Frames
    BY DEF AfterReset, Frames
  <2>2. board' \in Frames
    BY <1>0, <2>1 DEF OpenPort
  <2>3. wire' \in BOOLEAN
    BY <1>0, Zenon DEF OpenPort
  <2>4. host' = "ready" /\ reply' = NoReply
        /\ UNCHANGED <<latched, relay, source, pct, frame>>
    BY <1>0 DEF OpenPort
  <2> QED  BY <2>2, <2>3, <2>4
<1>1. CASE ReadReply \/ AckTimeout \/ RelaySet
  BY <1>1 DEF ReadReply, AckTimeout, RelaySet
<1>2. CASE SendFrame
  <2>1. frame' \in Frames
    BY <1>2 DEF SendFrame, Frames
  <2>2. latched' = relay /\ (host' = "sent" => frame'.relay = relay)
    BY <1>2 DEF SendFrame
  <2> QED  BY <1>2, <2>1, <2>2 DEF SendFrame
<1>3. CASE BoardReceives
  <2>1. BoardChecksum(frame) \in Nat
    <3>1. frame.motor \in Percents /\ frame.relay \in {0, 1}
      BY DEF Frames
    <3>2. frame.motor \in Nat
      BY <3>1
    <3> QED  BY <3>1, <3>2 DEF BoardChecksum
  <2> QED  BY <1>3, <2>1 DEF BoardReceives
<1>4. CASE LineLosesFrame \/ BoardTimeout
  BY <1>4 DEF LineLosesFrame, BoardTimeout, Frames
<1>5. ASSUME NEW s \in {"none", "real", "sim"}, NEW p \in Percents, Commanded(s, p)
      PROVE  EspTypeOK'
  BY <1>5 DEF Commanded
<1>6. CASE UNCHANGED espVars
  BY <1>6 DEF espVars
<1> QED  BY <1>0, <1>1, <1>2, <1>3, <1>4, <1>5, <1>6 DEF EspNext

-----------------------------------------------------------------------------
(* The navigation: its filter after a queue of samples of any length, by      *)
(* induction over the queue.                                                  *)

(* Induction, from the well-foundedness of the order of the naturals.         *)
LEMMA NatSetInduction ==
    ASSUME NEW T \in SUBSET Nat, 0 \in T, \A n \in T : n + 1 \in T
    PROVE  T = Nat
<1> DEFINE R == OpToRel(<, Nat)
           U == Nat \ T
<1>1. IsWellFoundedOn(R, Nat)
  BY NatLessThanWellFounded
<1>2. \A x, y \in Nat : <<y, x>> \in R <=> y < x
  BY DEF OpToRel
<1> HIDE DEF R
<1>3. CASE U # {}
  <2>1. U \subseteq Nat
    OBVIOUS
  <2> HIDE DEF U
  <2>2. PICK x \in U : \A y \in U : ~ (<<y, x>> \in R)
    BY <1>1, <1>3, <2>1, WFMin
  <2>3. \A y \in U : ~(y < x)
    BY <1>2, <2>1, <2>2
  <2> USE DEF U
  <2>4. x # 0 /\ x - 1 \in Nat /\ x - 1 < x /\ (x - 1) + 1 = x
    OBVIOUS
  <2>5. x - 1 \in T
    BY <2>3, <2>4
  <2> QED  BY <2>4, <2>5
<1> QED  BY <1>3

(* A set the samples of the queue do not leave is not left by the queue.      *)
LEMMA IntegratedStays ==
    ASSUME NEW queue \in Seq(Sources), NEW S, NEW s0 \in S,
           \A s \in S, src \in Sources : Sample(s, src) \in S
    PROVE  Integrated(s0, queue) \in S
<1> DEFINE Item(f, n) == IF n = 0 THEN s0 ELSE Sample(f[n - 1], queue[n])
           run == CHOOSE f : f = [n \in 0..Len(queue) |-> Item(f, n)]
           T == {n \in Nat : n <= Len(queue) =>
                    \E f \in [0..n -> S] : \A i \in 0..n : f[i] = Item(f, i)}
<1>1. Len(queue) \in Nat /\ \A s \in S, i \in 1..Len(queue) : Sample(s, queue[i]) \in S
  OBVIOUS
<1>2. 0 \in T
  <2> DEFINE f == [i \in 0..0 |-> s0]
  <2>1. f \in [0..0 -> S] /\ \A i \in 0..0 : f[i] = Item(f, i)
    OBVIOUS
  <2> QED  BY <2>1
<1>3. ASSUME NEW n \in T PROVE n + 1 \in T
  <2> HIDE DEF Item
  <2> SUFFICES ASSUME n + 1 <= Len(queue)
               PROVE  \E f \in [0..(n + 1) -> S] : \A i \in 0..(n + 1) : f[i] = Item(f, i)
    OBVIOUS
  <2> USE DEF Item
  <2>1. PICK f \in [0..n -> S] : \A i \in 0..n : f[i] = Item(f, i)
    BY <1>1
  <2> DEFINE g == [i \in 0..(n + 1) |->
                      IF i = n + 1 THEN Sample(f[n], queue[n + 1]) ELSE f[i]]
  <2>2. g \in [0..(n + 1) -> S]
    BY <1>1
  <2>3. ASSUME NEW i \in 0..(n + 1) PROVE g[i] = Item(g, i)
    <3>1. CASE i = n + 1
      BY <3>1
    <3>2. CASE i # n + 1
      <4>1. i \in 0..n /\ g[i] = f[i] /\ (i # 0 => g[i - 1] = f[i - 1])
        BY <3>2
      <4> QED  BY <2>1, <4>1
    <3> QED  BY <3>1, <3>2
  <2> QED  BY <2>2, <2>3
<1>4. T = Nat
  <2> HIDE DEF T
  <2>1. T \in SUBSET Nat
    BY DEF T
  <2> QED  BY <1>2, <1>3, <2>1, NatSetInduction
<1>5. PICK f \in [0..Len(queue) -> S] : \A i \in 0..Len(queue) : f[i] = Item(f, i)
  BY <1>1, <1>4
<1>6. f = [n \in 0..Len(queue) |-> Item(f, n)]
  BY <1>5
<1>7. run = [n \in 0..Len(queue) |-> Item(run, n)]
  BY <1>6
<1>8. Integrated(s0, queue) = run[Len(queue)]
  BY DEF Integrated
<1> HIDE DEF run
<1> DEFINE U == {n \in Nat : n <= Len(queue) => run[n] \in S}
<1>9. 0 \in U
  BY <1>7
<1>10. ASSUME NEW n \in U PROVE n + 1 \in U
  <2> SUFFICES ASSUME n + 1 <= Len(queue) PROVE run[n + 1] \in S
    OBVIOUS
  <2>1. n \in 0..Len(queue) /\ n + 1 \in 1..Len(queue) /\ run[n] \in S
    BY <1>1
  <2>2. run[n + 1] = Sample(run[n], queue[n + 1])
    BY <1>7, <2>1
  <2> QED  BY <1>1, <2>1, <2>2
<1>11. U = Nat
  <2> HIDE DEF U
  <2>1. U \in SUBSET Nat
    BY DEF U
  <2> QED  BY <1>9, <1>10, <2>1, NatSetInduction
<1> QED  BY <1>1, <1>8, <1>11

Filter == [on : BOOLEAN, at : Sources, src : Sources \union {"none"}]

(* A filter that is off has integrated nothing, one that runs is of one       *)
(* source, and runs only while the INS is enabled and there is a position.    *)
FilterSound(f, sources) ==
    /\ f \in Filter /\ sources \subseteq Sources
    /\ f.on => enabled /\ sources \subseteq {f.src} /\ fix.place \in Sources
    /\ ~f.on => sources = {}

NavInv ==
    /\ NavTypeOK /\ FilterSound(ins, fed)
    /\ fix.place = "none" => ~fix.valid

(* One sample keeps the filter sound, from any sound state of it.             *)
LEMMA SampleSound ==
    ASSUME NavInv,
           NEW f \in Filter, NEW sources \in SUBSET Sources, NEW r \in BOOLEAN,
           FilterSound(f, sources), NEW src \in Sources
    PROVE  LET s == Sample([ins |-> f, fed |-> sources, renewed |-> r], src)
           IN  /\ s = [ins |-> s.ins, fed |-> s.fed, renewed |-> s.renewed]
               /\ s.ins \in Filter /\ s.fed \in SUBSET Sources /\ s.renewed \in BOOLEAN
               /\ FilterSound(s.ins, s.fed)
<1> DEFINE reset == f.on /\ f.src # src
           kept == IF reset THEN Off ELSE f
           after == IF Ready(kept) THEN Initialized(src) ELSE kept
           given == IF kept.on /\ enabled THEN Predicted(sources, src)
                    ELSE IF reset THEN {} ELSE sources
<1>1. Off \in Filter /\ ~Off.on
  BY DEF Off, Filter, Sources
<1>2. kept \in Filter /\ (kept.on => kept = f /\ f.src = src)
  BY <1>1
<1>3. Ready(kept) => /\ Initialized(src) \in Filter /\ Initialized(src).on
                     /\ Initialized(src).src = src /\ enabled /\ ~kept.on
                     /\ fix.place \in Sources
  BY DEF Ready, Initialized, NavInv, NavTypeOK, Filter
<1>4. after \in Filter /\ given \subseteq Sources
  BY <1>2, <1>3 DEF Predicted
<1>5. ~kept.on => given = {}
  BY <1>1 DEF FilterSound
<1>6. kept.on => given \subseteq {src} /\ enabled /\ fix.place \in Sources
  BY <1>2 DEF FilterSound, Predicted
<1>7. FilterSound(after, given)
  BY <1>2, <1>3, <1>4, <1>5, <1>6 DEF FilterSound
<1>8. Sample([ins |-> f, fed |-> sources, renewed |-> r], src)
        = [ins |-> after, fed |-> given, renewed |-> r \/ reset]
  BY DEF Sample
<1>9. (r \/ reset) \in BOOLEAN
  OBVIOUS
<1> HIDE DEF after, given, reset
<1> DEFINE s == Sample([ins |-> f, fed |-> sources, renewed |-> r], src)
<1> HIDE DEF s
<1>10. s.ins = after /\ s.fed = given /\ s.renewed = (r \/ reset)
  BY <1>8 DEF s
<1>11. s = [ins |-> s.ins, fed |-> s.fed, renewed |-> s.renewed]
  BY <1>8, <1>10 DEF s
<1> QED  BY <1>4, <1>7, <1>9, <1>10, <1>11 DEF s

LEMMA ReadImuInv == NavInv /\ ReadImu => NavInv'
<1> SUFFICES ASSUME NavInv, ReadImu PROVE NavInv'
  OBVIOUS
<1> DEFINE S == {s \in [ins : Filter, fed : SUBSET Sources, renewed : BOOLEAN] :
                    FilterSound(s.ins, s.fed)}
           s0 == [ins |-> ins, fed |-> fed, renewed |-> FALSE]
           done == Integrated(s0, imuQ)
           last == IF imuQ = <<>> THEN imuSrc ELSE imuQ[Len(imuQ)]
           started == IF Ready(done.ins) /\ last # "none" THEN Initialized(last)
                      ELSE done.ins
           filter == IF aid /\ ~done.renewed /\ started.on /\ enabled THEN Aided(started)
                     ELSE started
<1>1. s0 \in S
  BY DEF NavInv, FilterSound
<1>2. \A s \in S, src \in Sources : Sample(s, src) \in S
  <2> TAKE s \in S, src \in Sources
  <2>1. s = [ins |-> s.ins, fed |-> s.fed, renewed |-> s.renewed]
    OBVIOUS
  <2> DEFINE t == Sample(s, src)
  <2>2. /\ t = [ins |-> t.ins, fed |-> t.fed, renewed |-> t.renewed]
        /\ t.ins \in Filter /\ t.fed \in SUBSET Sources /\ t.renewed \in BOOLEAN
        /\ FilterSound(t.ins, t.fed)
    <3> DEFINE f == s.ins
               g == s.fed
               r == s.renewed
    <3>1. f \in Filter /\ g \in SUBSET Sources /\ r \in BOOLEAN /\ FilterSound(f, g)
      OBVIOUS
    <3>2. t = Sample([ins |-> f, fed |-> g, renewed |-> r], src)
      BY <2>1
    <3> HIDE DEF f, g, r, t
    <3> QED  BY <3>1, <3>2, SampleSound
  <2> HIDE DEF t
  <2>3. t \in S
    BY <2>2
  <2> QED  BY <2>3 DEF t
<1>3. imuQ \in Seq(Sources)
  BY DEF NavInv, NavTypeOK
<1> HIDE DEF s0
<1>4. done \in S
  <2> HIDE DEF S
  <2> QED  BY <1>1, <1>2, <1>3, IntegratedStays
<1> HIDE DEF done
<1>5. last \in Sources \union {"none"}
  BY <1>3 DEF NavInv, NavTypeOK
<1> HIDE DEF last
<1>6. FilterSound(started, done.fed)
  <2>1. CASE Ready(done.ins) /\ last # "none"
    <3>1. /\ ~done.ins.on /\ enabled /\ fix.place \in Sources
      BY <2>1 DEF Ready, NavInv, NavTypeOK
    <3>2. done.fed = {}
      BY <1>4, <3>1 DEF FilterSound
    <3>3. started = [on |-> TRUE, at |-> fix.place, src |-> last]
      BY <2>1 DEF Initialized
    <3> HIDE DEF started
    <3> QED  BY <1>5, <3>1, <3>2, <3>3 DEF FilterSound, Filter
  <2>2. CASE ~(Ready(done.ins) /\ last # "none")
    BY <1>4, <2>2
  <2> QED  BY <2>1, <2>2
<1> HIDE DEF started
<1>7. FilterSound(filter, done.fed)
  BY <1>6 DEF FilterSound, Aided, Corrected, Filter
<1>8. /\ imuQ' = <<>> /\ imuSrc' = last /\ ins' = filter /\ fed' = done.fed
      /\ aid' = FALSE /\ reading' = "gnss"
      /\ UNCHANGED <<world, gnssQ, enabled, fix, hdgFresh, sims, changes>>
  BY DEF ReadImu, done, s0, last, started
<1> HIDE DEF filter
<1>9. NavTypeOK'
  <2>1. /\ imuQ' \in Seq(Sources) /\ Len(imuQ') <= MaxQueue
        /\ reading' \in {"gnss", "imu"} /\ {hdgFresh', aid'} \subseteq BOOLEAN
        /\ imuSrc' \in Sources \union {"none"}
    <3>1. Len(<<>>) = 0 /\ <<>> \in Seq(Sources) /\ MaxQueue \in Nat
      BY NavAssumption
    <3>2. hdgFresh \in BOOLEAN
      BY DEF NavInv, NavTypeOK
    <3>3. hdgFresh' \in BOOLEAN /\ aid' \in BOOLEAN
      BY <1>8, <3>2
    <3>4. imuQ' \in Seq(Sources) /\ Len(imuQ') <= MaxQueue
      BY <1>8, <3>1
    <3>5. imuSrc' \in Sources \union {"none"} /\ reading' \in {"gnss", "imu"}
      BY <1>5, <1>8
    <3> QED  BY <3>3, <3>4, <3>5
  <2>2. ins' \in Filter /\ fed' \subseteq Sources
    BY <1>7, <1>8 DEF FilterSound
  <2>3. UNCHANGED <<simOn, halMuted, gps, gnssQ, enabled, fix>>
    BY <1>8 DEF world
  <2> QED  BY <2>1, <2>2, <2>3 DEF NavInv, NavTypeOK, Filter
<1>10. FilterSound(ins, fed)'
  BY <1>7, <1>8 DEF FilterSound
<1> QED  BY <1>8, <1>9, <1>10 DEF NavInv

LEMMA ReadGnssInv == NavInv /\ ReadGnss => NavInv'
<1> SUFFICES ASSUME NavInv, ReadGnss PROVE NavInv'
  OBVIOUS
<1>1. CASE gnssQ = <<>>
  BY <1>1 DEF ReadGnss, NavInv, NavTypeOK, FilterSound, world
<1>2. CASE gnssQ # <<>>
  <2> DEFINE last == gnssQ[Len(gnssQ)]
             anyFix == \E i \in DOMAIN gnssQ : gnssQ[i].type # "none"
             anyHeading == \E i \in DOMAIN gnssQ : gnssQ[i].heading
  <2>1. last.src \in Sources /\ last.type \in Fixes
    <3>1. gnssQ \in Seq(Messages)
      BY DEF NavInv, NavTypeOK
    <3>2. last \in Messages
      BY <1>2, <3>1
    <3> QED  BY <3>2 DEF Messages
  <2>2. /\ fix' = [place |-> last.src, type |-> last.type, valid |-> fix.valid \/ anyFix]
        /\ hdgFresh' = (hdgFresh \/ anyHeading)
    BY <1>2 DEF ReadGnss
  <2>3. /\ fix.valid \in BOOLEAN /\ hdgFresh \in BOOLEAN
        /\ anyFix \in BOOLEAN /\ anyHeading \in BOOLEAN
    BY DEF NavInv, NavTypeOK
  <2> HIDE DEF last, anyFix, anyHeading
  <2>4. /\ fix' \in [place : Sources, type : Fixes, valid : BOOLEAN]
        /\ fix'.place \in Sources /\ hdgFresh' \in BOOLEAN
    BY <2>1, <2>2, <2>3
  <2>5. "none" \notin Sources
    BY DEF Sources
  <2>6. /\ reading' = "imu" /\ gnssQ' = <<>> /\ aid' \in BOOLEAN
        /\ UNCHANGED <<simOn, halMuted, gps, imuQ, enabled, imuSrc, ins, fed>>
    BY DEF ReadGnss, world, NavInv, NavTypeOK, FilterSound, Filter
  <2>7. gnssQ' \in Seq(Messages) /\ Len(gnssQ') <= MaxQueue
    BY <2>6, NavAssumption
  <2>8. NavTypeOK'
    BY <2>4, <2>6, <2>7 DEF NavInv, NavTypeOK
  <2> QED  BY <2>4, <2>5, <2>6, <2>8 DEF NavInv, FilterSound
<1> QED  BY <1>1, <1>2

LEMMA ArrivalInv ==
    ASSUME NavInv, RealGnss \/ RealImu \/ SimStep
    PROVE  NavInv'
<1>1. UNCHANGED <<world, reading, enabled, nav, ins, fed, aid, pub>>
  BY DEF RealGnss, RealImu, SimStep
<1>2. /\ \A src \in Sources, t \in Fixes, h \in BOOLEAN :
                [src |-> src, type |-> t, heading |-> h] \in Messages
      /\ SimFix \in Fixes /\ {"real", "sim"} \subseteq Sources
      /\ gps # "dead" => gps \in Fixes
  BY NavAssumption DEF Messages, Sources, NavInv, NavTypeOK
<1>3. gnssQ' \in Seq(Messages) /\ Len(gnssQ') <= MaxQueue
  <2>1. gnssQ \in Seq(Messages) /\ Len(gnssQ) <= MaxQueue /\ MaxQueue \in Nat
    BY NavAssumption DEF NavInv, NavTypeOK
  <2>2. \/ gnssQ' = gnssQ
        \/ Len(gnssQ) < MaxQueue /\ \E m \in Messages : gnssQ' = Append(gnssQ, m)
    BY <1>2 DEF RealGnss, RealImu, SimStep
  <2> QED  BY <2>1, <2>2
<1>4. imuQ' \in Seq(Sources) /\ Len(imuQ') <= MaxQueue
  <2>1. imuQ \in Seq(Sources) /\ Len(imuQ) <= MaxQueue /\ MaxQueue \in Nat
    BY NavAssumption DEF NavInv, NavTypeOK
  <2>2. \/ imuQ' = imuQ
        \/ Len(imuQ) < MaxQueue /\ \E m \in Sources : imuQ' = Append(imuQ, m)
    BY <1>2 DEF RealGnss, RealImu, SimStep
  <2> QED  BY <2>1, <2>2
<1> QED  BY <1>1, <1>3, <1>4 DEF NavInv, NavTypeOK, FilterSound, world, nav

LEMMA NavOthersInv ==
    ASSUME NavInv,
           \/ StartSim \/ StopSim \/ HearMute \/ Reception
           \/ AgeFix \/ AgeHeading \/ Reconfigure \/ UNCHANGED navVars
    PROVE  NavInv'
<1> USE DEF NavInv, NavTypeOK, FilterSound
<1>1. CASE StartSim \/ StopSim \/ HearMute \/ Reception
  BY <1>1 DEF StartSim, StopSim, HearMute, Reception, nav
<1>2. CASE AgeFix \/ AgeHeading
  BY <1>2 DEF AgeFix, AgeHeading, world
<1>3. CASE Reconfigure
  BY <1>3 DEF Reconfigure, Off, Filter, Sources, world, nav
<1>4. CASE UNCHANGED navVars
  BY <1>4 DEF navVars, world, nav
<1> QED  BY <1>1, <1>2, <1>3, <1>4

LEMMA NavStep == NavInv /\ [NavNext]_navVars => NavInv'
BY ArrivalInv, NavOthersInv, ReadGnssInv, ReadImuInv DEF NavNext, NavLoop

LEMMA NavStart == NavInit => NavInv
<1> SUFFICES ASSUME NavInit PROVE NavInv
  OBVIOUS
<1>1. Off \in Filter /\ ~Off.on
  BY DEF Off, Filter, Sources
<1>2. gnssQ \in Seq(Messages) /\ imuQ \in Seq(Sources)
      /\ Len(gnssQ) <= MaxQueue /\ Len(imuQ) <= MaxQueue
  BY NavAssumption DEF NavInit
<1>3. fix \in [place : Sources \union {"none"}, type : Fixes, valid : BOOLEAN]
  BY DEF NavInit, Fixes
<1>4. NavTypeOK
  BY <1>1, <1>2, <1>3 DEF NavInit, NavTypeOK, Filter, Fixes
<1> QED  BY <1>1, <1>4 DEF NavInit, NavInv, FilterSound

-----------------------------------------------------------------------------
(* The six components together.                                               *)

HardwareInv ==
    SensorInv /\ GnssInv /\ StreamInv /\ PowerInv /\ EspTypeOK /\ NavInv

(* A step is a step of one component, and leaves the others alone.            *)
LEMMA ComponentSteps ==
    [Next]_vars => /\ [SensorNext]_sensorVars /\ [GnssNext]_gnssVars
                   /\ [ImuNext]_imuVars /\ [PowerNext]_powerVars
                   /\ [EspNext]_espVars /\ [NavNext]_navVars
BY DEF Next, OfSensors, OfGnss, OfImu, OfPower, OfEsp, OfNav, vars

LEMMA ImuStep ==
    StreamInv /\ [ImuNext]_imuVars => StreamInv' /\ [LatestStep /\ WholeStep]_imuVars
<1>1. StreamInv /\ UNCHANGED imuVars => StreamInv'
  BY DEF imuVars, StreamInv, ImuTypeOK, MarksOK, BurstNoted
<1> QED  BY <1>1, StreamStep

THEOREM HardwareInvHolds == Spec => []HardwareInv
<1>1. Init => HardwareInv
  BY SensorStart, GnssStart, StreamInit, PowerInitInv, EspStart, NavStart
     DEF Init, HardwareInv
<1>2. HardwareInv /\ [Next]_vars => HardwareInv'
  <2> SUFFICES ASSUME HardwareInv, [Next]_vars PROVE HardwareInv'
    OBVIOUS
  <2>1. PowerInv'
    BY ComponentSteps, IntegrateInv, ResetInv, OthersInv DEF PowerNext, HardwareInv
  <2> QED  BY <2>1, ComponentSteps, SensorStep, GnssStep, ImuStep, EspStep, NavStep
           DEF HardwareInv
<1> QED  BY <1>1, <1>2, PTL DEF Spec

(* Everything the sensor nodes, the drivers, the serial link and the          *)
(* navigation hold is well typed, for nodes, streams, queues and timers of any*)
(* size.                                                                      *)
THEOREM HardwareTypeHolds == Spec => []TypesHold
<1>1. HardwareInv => TypesHold
  BY DEF HardwareInv, TypesHold, SensorInv, GnssInv, StreamInv, PowerInv, NavInv
<1> QED  BY <1>1, HardwareInvHolds, PTL

(* One filter integrates one source, and none runs on while the INS is        *)
(* disabled, whatever the interleaving of real and simulated samples and      *)
(* however many are read at once (navigation.py, loop, _reset_ins).           *)
THEOREM OneSourcePerFilterHolds == Spec => []OneSourcePerFilter
<1>1. HardwareInv => OneSourcePerFilter
  BY DEF HardwareInv, NavInv, FilterSound, OneSourcePerFilter
<1> QED  BY <1>1, HardwareInvHolds, PTL

(* What a driver hands on is as old as its bad sentences make it and no more, *)
(* a burst that arrives whole is published, and a node leaves a reader behind *)
(* only when a configuration came during its wait (gnss_um982.py, imu.py,     *)
(* drivers/process.py).                                                       *)
THEOREM DriversAreFaithfulHolds == Spec => DriversAreFaithful
<1>1. HardwareInv => SnapshotAge
  BY SnapshotAged DEF HardwareInv
<1>2. HardwareInv /\ [Next]_vars => [LatestStep]_imuVars /\ [WholeStep]_imuVars
  BY ComponentSteps, ImuStep DEF HardwareInv
<1>3. HardwareInv /\ [Next]_vars => [OrphanStep]_sensorVars
  BY ComponentSteps, OrphanLeft DEF HardwareInv
<1>4. /\ PublishesLatest <=> [][LatestStep]_imuVars
      /\ WholeBurstPublished <=> [][WholeStep]_imuVars
      /\ ReaderLeftBehind <=> [][OrphanStep]_sensorVars
  BY DEF PublishesLatest, WholeBurstPublished, ReaderLeftBehind,
         LatestStep, WholeStep, OrphanStep
<1>5. Spec => []SnapshotAge
  BY <1>1, HardwareInvHolds, PTL
<1>6. Spec => [][LatestStep]_imuVars /\ [][WholeStep]_imuVars /\ [][OrphanStep]_sensorVars
  BY <1>2, <1>3, HardwareInvHolds, PTL DEF Spec
<1> QED  BY <1>4, <1>5, <1>6 DEF DriversAreFaithful
=============================================================================
