--------------------------- MODULE GuidanceProofs ---------------------------
(* The parts of the GNC below the command path, for any plans, radii, speeds  *)
(* and legs: what keeps a vehicle on its plan and its motion steady.          *)
EXTENDS MCGuidance, SequenceTheorems, WellFoundedInduction, TLAPS

-----------------------------------------------------------------------------
(* The cruise speed has one value wherever it is kept.                        *)
TuneInv == TuningTypeOK /\ OneCruise

(* A configuration handed on has the type of one, and its cruise speed.       *)
LEMMA RetunedType ==
    ASSUME NEW old \in [cruise : Cruises, threshold : Thresholds],
           NEW c \in [cruise : Cruises, threshold : Thresholds]
    PROVE  /\ Retuned(old, c) \in [cruise : Cruises, threshold : Thresholds]
           /\ Retuned(old, c).cruise = c.cruise
BY DEF Retuned

LEMMA DefaultsType == Defaults \in [cruise : Cruises, threshold : Thresholds]
BY TuningAssumption DEF Defaults

(* _apply_gnc_config leaves the copies agreeing.                              *)
LEMMA ApplyInv ==
    ASSUME TuneInv, NEW c \in [cruise : Cruises, threshold : Thresholds],
           Apply(c), UNCHANGED keeping
    PROVE  TuneInv'
<1>1. config' = c /\ main' = Retuned(main, c) /\ keeping \in BOOLEAN
  BY DEF Apply, TuneInv, TuningTypeOK
<1>2. stationCtl' = IF keeping THEN Retuned(stationCtl, c) ELSE stationCtl
  BY DEF Apply
<1>3. {main, stationCtl} \subseteq [cruise : Cruises, threshold : Thresholds]
  BY DEF TuneInv, TuningTypeOK
<1> QED  BY <1>1, <1>2, <1>3, RetunedType DEF TuneInv, TuningTypeOK, OneCruise

LEMMA MergeInv ==
    ASSUME TuneInv, NEW c \in [cruise : Cruises, threshold : Thresholds], Merge(c)
    PROVE  TuneInv'
<1>1. CASE Valid(c)
  BY <1>1, ApplyInv DEF Merge
<1>2. CASE ~Valid(c)
  BY <1>2 DEF Merge, TuneInv, TuningTypeOK, OneCruise
<1> QED  BY <1>1, <1>2

LEMMA HeartbeatInv ==
    ASSUME TuneInv, NEW c \in [cruise : Cruises, threshold : Thresholds], HeartbeatConfig(c)
    PROVE  TuneInv'
<1>1. CASE Valid(c)
  BY <1>1, ApplyInv DEF HeartbeatConfig
<1>2. CASE ~Valid(c)
  BY <1>2 DEF HeartbeatConfig, TuneInv, TuningTypeOK, OneCruise
<1> QED  BY <1>1, <1>2

(* A route or a station with a cruise speed of its own.                       *)
LEMMA TuneStartInv ==
    ASSUME TuneInv, NEW c \in Cruises, StartRouteAt(c) \/ StartStationAt(c)
    PROVE  TuneInv'
<1> DEFINE new == [config EXCEPT !.cruise = c]
<1>1. {config, main, stationCtl} \subseteq [cruise : Cruises, threshold : Thresholds]
  BY DEF TuneInv, TuningTypeOK
<1>2. new \in [cruise : Cruises, threshold : Thresholds] /\ new.cruise = c
  BY <1>1
<1>3. CASE StartRouteAt(c)
  <2>1. config' = new /\ main' = new /\ keeping' = keeping
    BY <1>3 DEF StartRouteAt
  <2>2. stationCtl' = IF keeping THEN Retuned(stationCtl, new) ELSE stationCtl
    BY <1>3 DEF StartRouteAt
  <2> HIDE DEF new
  <2> QED  BY <1>1, <1>2, <2>1, <2>2, RetunedType DEF TuneInv, TuningTypeOK, OneCruise
<1>4. CASE StartStationAt(c)
  <2>1. config' = new /\ main' = Retuned(main, new) /\ keeping' = TRUE
    BY <1>4 DEF StartStationAt
  <2>2. stationCtl' = [cruise |-> c, threshold |-> DefaultThreshold]
    BY <1>4 DEF StartStationAt, Defaults
  <2>3. DefaultThreshold \in Thresholds
    BY TuningAssumption
  <2> HIDE DEF new
  <2> QED  BY <1>1, <1>2, <2>1, <2>2, <2>3, RetunedType DEF TuningTypeOK, OneCruise, TuneInv
<1> QED  BY <1>3, <1>4

LEMMA EndInv ==
    ASSUME TuneInv, EndStation \/ UNCHANGED tuningVars
    PROVE  TuneInv'
<1>1. CASE EndStation
  <2>1. keeping' = FALSE /\ stationCtl' = Defaults /\ config' = config /\ main' = main
    BY <1>1 DEF EndStation
  <2>2. TuningTypeOK'
    BY <2>1, DefaultsType DEF TuneInv, TuningTypeOK
  <2> QED  BY <2>1, <2>2 DEF TuneInv, OneCruise
<1>2. CASE UNCHANGED tuningVars
  BY <1>2 DEF TuneInv, TuningTypeOK, OneCruise, tuningVars
<1> QED  BY <1>1, <1>2

LEMMA SetInv ==
    ASSUME TuneInv, SetGncConfig
    PROVE  TuneInv'
<1>1. config \in [cruise : Cruises, threshold : Thresholds]
  BY DEF TuneInv, TuningTypeOK
<1>2. ASSUME NEW c \in Cruises
      PROVE  [config EXCEPT !.cruise = c] \in [cruise : Cruises, threshold : Thresholds]
  BY <1>1
<1>3. ASSUME NEW t \in Thresholds
      PROVE  [config EXCEPT !.threshold = t] \in [cruise : Cruises, threshold : Thresholds]
  BY <1>1
<1> QED  BY <1>2, <1>3, MergeInv DEF SetGncConfig

-----------------------------------------------------------------------------
(* The least and the greatest of two numbers.                                 *)
LEMMA MinOfTwo ==
    ASSUME NEW a \in Int, NEW b \in Int
    PROVE  Min({a, b}) = IF a <= b THEN a ELSE b
BY DEF Min

LEMMA MaxOfTwo ==
    ASSUME NEW a \in Int, NEW b \in Int
    PROVE  Max({a, b}) = IF a >= b THEN a ELSE b
BY DEF Max

-----------------------------------------------------------------------------
(* The station: an idle boat was inside the reaching radius when its keeper   *)
(* turned idle.                                                               *)
RestedInside ==
    /\ ~keeper.on => keeper.state = APPROACHING
    /\ keeper.state = IDLE => Away(turnedAt, keeper.at) < keeper.radii.reaching

StationInv == StationTypeOK /\ RestedInside

AllRadii == Radii \union {NoKeeper.radii}
Keeper == [on : BOOLEAN, state : {APPROACHING, IDLE}, at : Waters, radii : AllRadii, from : Waters]

LEMMA RadiiAreNumbers ==
    ASSUME NEW r \in AllRadii
    PROVE  r.reaching \in Nat /\ r.station \in Nat
BY StationAssumption DEF AllRadii, NoKeeper

LEMMA AwayIsNatural ==
    ASSUME NEW a \in Int, NEW b \in Int
    PROVE  Away(a, b) \in Nat
BY DEF Away

LEMMA StationNumbers ==
    ASSUME StationInv
    PROVE  /\ place \in Waters /\ turnedAt \in Waters /\ Waters \subseteq Int /\ 0 \in Waters
           /\ keeper \in Keeper /\ Distance \in Nat
           /\ keeper.radii.reaching \in Nat /\ keeper.radii.station \in Nat
           /\ Thrust \in Nat /\ SlowDown \in Nat \ {0} /\ Thrust * SlowDown \in Nat
<1>1. place \in Waters /\ turnedAt \in Waters /\ keeper \in Keeper
  BY DEF StationInv, StationTypeOK, Keeper, AllRadii
<1>2. Reach \in Nat /\ Thrust \in Nat /\ SlowDown \in Nat \ {0}
  BY StationAssumption
<1>3. Waters \subseteq Int /\ 0 \in Waters
  BY <1>2 DEF Waters
<1>4. keeper.at \in Waters /\ keeper.radii \in AllRadii
  BY <1>1 DEF Keeper
<1>5. keeper.radii.reaching \in Nat /\ keeper.radii.station \in Nat
  BY <1>4, RadiiAreNumbers
<1>6. Distance \in Nat
  BY <1>1, <1>3, <1>4, AwayIsNatural DEF Distance
<1>7. Thrust * SlowDown \in Nat
  BY <1>2
<1> QED  BY <1>1, <1>2, <1>3, <1>5, <1>6, <1>7

LEMMA ApproachStays ==
    ASSUME StationInv, Approach(keeper, Distance)
    PROVE  thrust' \in 0..(Thrust * SlowDown) /\ place' \in Waters
<1>1. /\ place \in Waters /\ Distance \in Nat
      /\ Thrust \in Nat /\ SlowDown \in Nat \ {0} /\ Thrust * SlowDown \in Nat
  BY StationNumbers
<1>2. Distance * Thrust \in Nat
  BY <1>1
<1>3. RampForce(Distance) = IF Thrust * SlowDown <= Distance * Thrust
                            THEN Thrust * SlowDown ELSE Distance * Thrust
  BY <1>1, <1>2, MinOfTwo DEF RampForce
<1>4. RampForce(Distance) \in 0..(Thrust * SlowDown)
  BY <1>1, <1>2, <1>3
<1> QED  BY <1>1, <1>4 DEF Approach

LEMMA StationTickInv ==
    ASSUME StationInv, StationTick
    PROVE  StationInv'
<1>1. /\ place \in Waters /\ turnedAt \in Waters /\ keeper \in Keeper /\ keeper.on
      /\ Thrust * SlowDown \in Nat /\ pushes' = pushes /\ starts' = starts
  BY StationNumbers DEF StationTick
<1>2. StationTypeOK /\ RestedInside
  BY DEF StationInv
<1>3. CASE ReachStation
  <2>1. /\ keeper' = [keeper EXCEPT !.state = IDLE] /\ turnedAt' = place
        /\ thrust' = 0 /\ place' = place /\ Distance < keeper.radii.reaching
    BY <1>3 DEF ReachStation, Rest
  <2>2. /\ keeper' \in Keeper /\ keeper'.on = keeper.on
        /\ keeper'.at = keeper.at /\ keeper'.radii = keeper.radii
    BY <1>1, <2>1 DEF Keeper
  <2>3. StationTypeOK'
    BY <1>1, <1>2, <2>1, <2>2 DEF StationTypeOK, Keeper, AllRadii
  <2>4. RestedInside'
    BY <1>1, <2>1, <2>2 DEF RestedInside, Distance
  <2> QED  BY <2>3, <2>4 DEF StationInv
<1>4. CASE KeepApproaching
  <2>1. keeper' = keeper /\ turnedAt' = turnedAt /\ Approach(keeper, Distance)
    BY <1>4 DEF KeepApproaching
  <2> QED  BY <1>1, <1>2, <2>1, ApproachStays DEF StationInv, StationTypeOK, RestedInside
<1>5. CASE ReEngage
  <2>1. /\ keeper' = [keeper EXCEPT !.state = APPROACHING, !.from = place]
        /\ turnedAt' = place /\ Approach(keeper, Distance)
    BY <1>5 DEF ReEngage
  <2>2. keeper' \in Keeper /\ keeper'.state = APPROACHING /\ APPROACHING # IDLE
    BY <1>1, <2>1 DEF Keeper, APPROACHING, IDLE
  <2>3. StationTypeOK'
    BY <1>1, <1>2, <2>1, <2>2, ApproachStays DEF StationTypeOK, Keeper, AllRadii
  <2> QED  BY <2>2, <2>3 DEF StationInv, RestedInside
<1>6. CASE KeepIdle
  <2>1. keeper' = keeper /\ turnedAt' = turnedAt /\ thrust' = 0 /\ place' = place
    BY <1>6 DEF KeepIdle, Rest
  <2> QED  BY <1>1, <1>2, <2>1 DEF StationInv, StationTypeOK, RestedInside
<1> QED  BY <1>3, <1>4, <1>5, <1>6 DEF StationTick

LEMMA StationNextInv == StationInv /\ [StationNext]_stationVars => StationInv'
<1> SUFFICES ASSUME StationInv, [StationNext]_stationVars PROVE StationInv'
  OBVIOUS
<1>0. /\ place \in Waters /\ turnedAt \in Waters /\ keeper \in Keeper /\ 0 \in Waters
      /\ Thrust * SlowDown \in Nat /\ MaxPushes \in Nat /\ MaxStarts \in Nat
      /\ Stations \subseteq Waters
      /\ StationTypeOK /\ RestedInside /\ APPROACHING # IDLE
  BY StationNumbers, StationAssumption DEF StationInv, APPROACHING, IDLE
<1>1. ASSUME NEW at \in Stations, NEW radii \in Radii, StartStation(at, radii)
      PROVE  StationInv'
  <2>1. /\ starts < MaxStarts /\ starts' = starts + 1
        /\ keeper' = [on |-> TRUE, state |-> APPROACHING, at |-> at, radii |-> radii,
                      from |-> place]
        /\ turnedAt' = place /\ UNCHANGED <<place, thrust, pushes>>
    BY <1>1 DEF StartStation
  <2>2. keeper' \in Keeper /\ keeper'.state = APPROACHING
    BY <1>0, <2>1 DEF Keeper, AllRadii
  <2>3. starts' \in 0..MaxStarts
    BY <1>0, <2>1 DEF StationTypeOK
  <2>4. StationTypeOK'
    BY <1>0, <2>1, <2>2, <2>3 DEF StationTypeOK, Keeper, AllRadii
  <2> QED  BY <1>0, <2>2, <2>4 DEF StationInv, RestedInside
<1>2. CASE StopStation
  <2>1. /\ keeper' = NoKeeper /\ thrust' = 0 /\ turnedAt' = 0
        /\ UNCHANGED <<place, pushes, starts>>
    BY <1>2 DEF StopStation
  <2>2. NoKeeper \in Keeper /\ NoKeeper.state = APPROACHING
    BY <1>0 DEF NoKeeper, Keeper, AllRadii
  <2>3. StationTypeOK'
    BY <1>0, <2>1, <2>2 DEF StationTypeOK, Keeper, AllRadii
  <2> QED  BY <1>0, <2>1, <2>2, <2>3 DEF StationInv, RestedInside
<1>3. CASE StationTick
  BY <1>3, StationTickInv
<1>4. CASE Push
  <2>1. /\ pushes < MaxPushes /\ pushes' = pushes + 1 /\ place' \in Waters
        /\ UNCHANGED <<keeper, thrust, turnedAt, starts>>
    BY <1>4 DEF Push
  <2>2. pushes' \in 0..MaxPushes
    BY <1>0, <2>1 DEF StationTypeOK
  <2> QED  BY <1>0, <2>1, <2>2 DEF StationInv, StationTypeOK, RestedInside
<1>5. CASE UNCHANGED stationVars
  BY <1>5 DEF stationVars, StationInv, StationTypeOK, RestedInside
<1> QED  BY <1>1, <1>2, <1>3, <1>4, <1>5 DEF StationNext

LEMMA StationInitInv == StationInit => StationInv
<1> SUFFICES ASSUME StationInit PROVE StationInv
  OBVIOUS
<1>1. /\ place \in Waters /\ keeper = NoKeeper /\ thrust = 0 /\ turnedAt = 0
      /\ pushes = 0 /\ starts = 0
  BY DEF StationInit
<1>2. /\ Reach \in Nat /\ Thrust \in Nat /\ SlowDown \in Nat /\ MaxPushes \in Nat
      /\ MaxStarts \in Nat
  BY StationAssumption
<1>3. 0 \in Waters
  BY <1>2 DEF Waters
<1>4. NoKeeper \in Keeper /\ NoKeeper.state = APPROACHING /\ APPROACHING # IDLE
  BY <1>3 DEF NoKeeper, Keeper, AllRadii, APPROACHING, IDLE
<1>5. Thrust * SlowDown \in Nat
  BY <1>2
<1>6. thrust \in 0..(Thrust * SlowDown) /\ pushes \in 0..MaxPushes /\ starts \in 0..MaxStarts
  BY <1>1, <1>2, <1>5
<1>7. StationTypeOK
  BY <1>1, <1>3, <1>4, <1>6 DEF StationTypeOK, Keeper, AllRadii
<1> QED  BY <1>1, <1>4, <1>7 DEF StationInv, RestedInside

(* From idle the boat is called back only beyond the station radius, and      *)
(* inside the reaching radius it is driven in no other case.                  *)
LEMMA StationSteps ==
    ASSUME StationInv, [StationNext]_stationVars
    PROVE  /\ keeper.on /\ keeper'.on /\ starts' = starts
              /\ keeper.state = IDLE /\ keeper'.state = APPROACHING
              => Distance - Away(turnedAt, keeper.at)
                      > keeper.radii.station - keeper.radii.reaching
           /\ StationTick /\ Distance < keeper.radii.reaching
              => thrust' = 0 \/ BackFromInside
<1>1. /\ place \in Waters /\ turnedAt \in Waters /\ Waters \subseteq Int
      /\ keeper \in Keeper /\ Distance \in Nat
      /\ keeper.radii.reaching \in Nat /\ keeper.radii.station \in Nat
  BY StationNumbers
<1>2. keeper.at \in Waters /\ keeper.radii \in AllRadii /\ keeper.state \in {APPROACHING, IDLE}
  BY <1>1 DEF Keeper
<1>3. Away(turnedAt, keeper.at) \in Nat
  BY <1>1, <1>2, AwayIsNatural
<1>4. RestedInside /\ starts \in Nat /\ APPROACHING # IDLE
  BY DEF StationInv, StationTypeOK, APPROACHING, IDLE
<1>5. ASSUME keeper.on, keeper'.on, starts' = starts,
             keeper.state = IDLE, keeper'.state = APPROACHING
      PROVE  Distance - Away(turnedAt, keeper.at)
                > keeper.radii.station - keeper.radii.reaching
  <2>1. keeper' # keeper
    BY <1>4, <1>5
  <2>2. ReEngage
    <3>1. ~(\E at \in Stations, radii \in Radii : StartStation(at, radii))
      BY <1>4, <1>5 DEF StartStation
    <3>2. ~StopStation
      BY <1>5 DEF StopStation, NoKeeper
    <3>3. ~Push /\ ~(UNCHANGED stationVars)
      BY <2>1 DEF Push, stationVars
    <3>4. StationTick
      BY <3>1, <3>2, <3>3 DEF StationNext
    <3> QED  BY <1>4, <1>5, <2>1, <3>4 DEF StationTick, ReachStation, KeepApproaching, KeepIdle
  <2>3. Distance > keeper.radii.station
    BY <2>2 DEF ReEngage
  <2>4. Away(turnedAt, keeper.at) < keeper.radii.reaching
    BY <1>4, <1>5 DEF RestedInside
  <2> QED  BY <1>1, <1>3, <2>3, <2>4
<1>6. ASSUME StationTick, Distance < keeper.radii.reaching
      PROVE  thrust' = 0 \/ BackFromInside
  <2>1. ~KeepApproaching
    BY <1>1, <1>6 DEF KeepApproaching
  <2>2. CASE ReachStation \/ KeepIdle
    BY <2>2 DEF ReachStation, KeepIdle, Rest
  <2>3. CASE ReEngage
    <3>1. /\ keeper.state = IDLE /\ Distance > keeper.radii.station
          /\ keeper' = [keeper EXCEPT !.state = APPROACHING, !.from = place]
      BY <2>3 DEF ReEngage
    <3>2. keeper'.state = APPROACHING
      BY <1>1, <3>1 DEF Keeper
    <3>3. keeper.radii.station < Distance
      BY <1>1, <3>1
    <3> QED  BY <1>6, <3>1, <3>2, <3>3 DEF BackFromInside
  <2> QED  BY <1>6, <2>1, <2>2, <2>3 DEF StationTick
<1> QED  BY <1>5, <1>6

-----------------------------------------------------------------------------
(* The heading: the limits of the reference model and of the integrator.      *)
LEMMA ClampStays ==
    ASSUME NEW x \in Int, NEW b \in Nat
    PROVE  Clamp(x, b) \in -b .. b
BY DEF Clamp, Most, Least

LEMMA HeadingInitInv == HeadingInit => HeadingTypeOK
<1> SUFFICES ASSUME HeadingInit PROVE HeadingTypeOK
  OBVIOUS
<1>1. RateLimit \in Nat /\ IntLimit \in Nat /\ MaxTurns \in Nat
  BY HeadingAssumption
<1>2. 0 \in -RateLimit .. RateLimit /\ 0 \in -IntLimit .. IntLimit /\ 0 \in 0 .. MaxTurns
  BY <1>1
<1> QED  BY <1>2 DEF HeadingInit, HeadingTypeOK

LEMMA HeadingNextInv == HeadingTypeOK /\ [HeadingNext]_headingVars => HeadingTypeOK'
<1> SUFFICES ASSUME HeadingTypeOK, [HeadingNext]_headingVars PROVE HeadingTypeOK'
  OBVIOUS
<1>1. /\ RateLimit \in Nat /\ IntLimit \in Nat /\ MaxTurns \in Nat /\ Threshold \in Nat
      /\ Turn \in Nat \ {0} /\ Targets \subseteq Int /\ Errors \subseteq Int
  BY HeadingAssumption
<1>2. /\ target \in Int /\ origin \in Int /\ turns \in 0 .. MaxTurns
      /\ ref \in [x : Int, v : -RateLimit .. RateLimit, a : Int]
      /\ integral \in -IntLimit .. IntLimit
  BY DEF HeadingTypeOK
<1>3. ref.x \in Int /\ ref.v \in -RateLimit .. RateLimit /\ ref.v \in Int /\ ref.a \in Int
  BY <1>1, <1>2
<1>4. CASE AskHeading
  <2>1. /\ turns < MaxTurns /\ turns' = turns + 1 /\ target' \in Targets /\ origin' = ref.x
        /\ UNCHANGED <<ref, integral>>
    BY <1>4 DEF AskHeading
  <2>2. turns' \in 0 .. MaxTurns
    BY <1>1, <1>2, <2>1
  <2> QED  BY <1>1, <1>2, <1>3, <2>1, <2>2 DEF HeadingTypeOK
<1>5. ASSUME NEW e \in Errors, Compute(e)
      PROVE  HeadingTypeOK'
  <2>1. integral' = Integrated(e) /\ ref' = RefModel /\ UNCHANGED <<target, origin, turns>>
    BY <1>5 DEF Compute
  <2>2. Jerk \in Int
    <3>1. SmallestAngle(target - ref.x) \in Int
      BY <1>1, <1>2, <1>3 DEF SmallestAngle
    <3>2. SmallestAngle(target - ref.x) - 6 * ref.v - 12 * ref.a \in Int
      BY <1>3, <3>1
    <3> QED  BY <3>2 DEF Jerk, Toward0
  <2>3. RefModel \in [x : Int, v : -RateLimit .. RateLimit, a : Int]
    <3>1. Clamp(ref.v + ref.a, RateLimit) \in -RateLimit .. RateLimit
      BY <1>1, <1>3, ClampStays
    <3> QED  BY <1>3, <2>2, <3>1 DEF RefModel
  <2>4. Integrated(e) \in -IntLimit .. IntLimit
    <3>1. integral \in Int /\ e \in Int
      BY <1>1, <1>2
    <3>2. Clamp(integral + e, IntLimit) \in -IntLimit .. IntLimit
      BY <1>1, <3>1, ClampStays
    <3>3. Toward0(integral * 19, 20) \in -IntLimit .. IntLimit
      BY <1>1, <1>2 DEF Toward0
    <3> QED  BY <3>2, <3>3 DEF Integrated
  <2> QED  BY <1>2, <2>1, <2>3, <2>4 DEF HeadingTypeOK
<1>6. CASE UNCHANGED headingVars
  BY <1>6 DEF headingVars, HeadingTypeOK
<1> QED  BY <1>4, <1>5, <1>6 DEF HeadingNext

-----------------------------------------------------------------------------
(* The line of sight: the progress is never behind a place the vehicle was at *)
(* on this leg, and the aim is the progress on the segment.                   *)
SightInv == SightTypeOK /\ furthest <= progress /\ aim = OnSegment(progress)

LEMMA SegmentPoint ==
    ASSUME NEW p \in Int
    PROVE  /\ OnSegment(p) = IF p <= 0 THEN 0 ELSE IF p <= Length THEN p ELSE Length
           /\ OnSegment(p) \in 0 .. Length
<1>1. Length \in Nat
  BY LineOfSightAssumption
<1>2. Min({p, Length}) = IF p <= Length THEN p ELSE Length
  BY <1>1, MinOfTwo
<1>3. Max({0, Min({p, Length})}) = IF 0 >= Min({p, Length}) THEN 0 ELSE Min({p, Length})
  BY <1>1, <1>2, MaxOfTwo
<1> QED  BY <1>1, <1>2, <1>3 DEF OnSegment

LEMMA SightInitInv == SightInit => SightInv
<1> SUFFICES ASSUME SightInit PROVE SightInv
  OBVIOUS
<1>1. leg = 1 /\ along = 0 /\ progress = 0 /\ aim = 0 /\ furthest = 0
  BY DEF SightInit
<1>2. Legs \in Nat /\ Legs > 0 /\ Length \in Nat
  BY LineOfSightAssumption
<1>3. OnSegment(0) = 0
  BY SegmentPoint
<1> QED  BY <1>1, <1>2, <1>3 DEF SightInv, SightTypeOK

(* One step keeps the invariant, and on a leg the aim does not move back.     *)
LEMMA SightSteps ==
    ASSUME SightInv, [SightNext]_sightVars
    PROVE  SightInv' /\ (leg' = leg => aim' >= aim)
<1>1. /\ leg \in 1 .. Legs /\ along \in Int /\ furthest \in Int /\ progress \in Nat
      /\ aim = OnSegment(progress) /\ furthest <= progress /\ aim \in 0 .. Length
  BY DEF SightInv, SightTypeOK
<1>2. Legs \in Nat /\ Length \in Nat /\ Circle \in Nat /\ LookAhead \subseteq Nat \ {0}
  BY LineOfSightAssumption
<1>3. ASSUME NEW s \in Spots, NEW d \in LookAhead, Follow(s, d)
      PROVE  SightInv' /\ aim' >= aim
  <2>1. s \in Int /\ d \in Nat /\ d > 0
    BY <1>2 DEF Spots
  <2>2. /\ along' = s /\ progress' = Progress(s, d) /\ aim' = OnSegment(Progress(s, d))
        /\ furthest' = Max({furthest, s}) /\ leg' = leg
    BY <1>3 DEF Follow
  <2>3. Progress(s, d) = IF s + d >= progress THEN s + d ELSE progress
    BY <1>1, <2>1, MaxOfTwo DEF Progress
  <2>4. furthest' = IF furthest >= s THEN furthest ELSE s
    BY <1>1, <2>1, <2>2, MaxOfTwo
  <2>5. progress' \in Nat /\ progress' >= progress /\ furthest' \in Int /\ furthest' <= progress'
    BY <1>1, <2>1, <2>2, <2>3, <2>4
  <2>6. aim' = OnSegment(progress') /\ aim' = OnSegment(progress)'
    BY <2>2 DEF OnSegment
  <2>7. aim' \in 0 .. Length /\ aim' >= aim
    BY <1>1, <1>2, <2>5, <2>6, SegmentPoint
  <2> QED  BY <1>1, <2>1, <2>2, <2>5, <2>6, <2>7 DEF SightInv, SightTypeOK
<1>4. ASSUME NEW s \in Spots, NEW d \in LookAhead, SwitchLeg(s, d)
      PROVE  SightInv' /\ leg' # leg
  <2>1. s \in Int /\ d \in Nat /\ d > 0
    BY <1>2 DEF Spots
  <2>2. /\ leg' = leg + 1 /\ along' = s - Length /\ furthest' = s - Length /\ leg < Legs
        /\ progress' = Max({s - Length + d, 0}) /\ aim' = OnSegment(progress')
    BY <1>4 DEF SwitchLeg, AtEnd
  <2>3. progress' = IF s - Length + d >= 0 THEN s - Length + d ELSE 0
    BY <1>2, <2>1, <2>2, MaxOfTwo
  <2>4. progress' \in Nat /\ furthest' \in Int /\ furthest' <= progress' /\ along' \in Int
    BY <1>2, <2>1, <2>2, <2>3
  <2>5. aim' \in 0 .. Length
    BY <2>2, <2>4, SegmentPoint
  <2>6. leg' \in 1 .. Legs /\ leg' # leg
    BY <1>1, <1>2, <2>2
  <2>7. aim' = OnSegment(progress)'
    BY <2>2 DEF OnSegment
  <2> QED  BY <2>4, <2>5, <2>6, <2>7 DEF SightInv, SightTypeOK
<1>5. CASE UNCHANGED sightVars
  <2>1. UNCHANGED <<leg, along, progress, aim, furthest>>
    BY <1>5 DEF sightVars
  <2> QED  BY <1>1, <2>1 DEF SightInv, SightTypeOK, OnSegment
<1> QED  BY <1>3, <1>4, <1>5 DEF SightNext

LEMMA SightIsAhead == SightInv => AimIsAhead
<1> SUFFICES ASSUME SightInv PROVE AimIsAhead
  OBVIOUS
<1>1. furthest \in Int /\ progress \in Nat /\ furthest <= progress /\ aim = OnSegment(progress)
  BY DEF SightInv, SightTypeOK
<1>2. Length \in Nat
  BY LineOfSightAssumption
<1>3. Min({furthest, Length}) = IF furthest <= Length THEN furthest ELSE Length
  BY <1>1, <1>2, MinOfTwo
<1> QED  BY <1>1, <1>2, <1>3, SegmentPoint DEF AimIsAhead

-----------------------------------------------------------------------------
(* The plans: what the one controller follows is the plan it was loaded with. *)
Points == [at : Int, force : 0..Cruise]
Follower == [path : Seq(Points), idx : Nat \ {0}, done : BOOLEAN]
OnPath(c) == c \in Follower /\ (c.idx = 1 \/ c.idx < Len(c.path))
Near(c, pos) == {i \in 2..Len(c.path) : Within(c, i, pos)}

LEMMA MissionNumbers ==
    /\ Shore \in Nat /\ Cruise \in Nat /\ Radius \in Nat /\ Ramp \in Nat \ {0}
    /\ MaxDrifts \in Nat /\ MaxOrders \in Nat
    /\ Plans \subseteq Seq(Waypoints) /\ <<>> \notin Plans /\ Completions \subseteq CompletionModes
    /\ 0..Shore \subseteq Int /\ 0 \in 0..Shore
<1>1. Shore \in Nat
  BY MissionAssumption
<1> QED  BY <1>1, MissionAssumption

LEMMA DistIsNatural ==
    ASSUME NEW a \in Int, NEW b \in Int
    PROVE  Dist(a, b) \in Nat
BY DEF Dist

(* A set of numbers that is not empty has a least one.                        *)
LEMMA SmallestExists ==
    ASSUME NEW S \in SUBSET Nat, S # {}
    PROVE  Min(S) \in S /\ \A y \in S : Min(S) <= y
<1> DEFINE R == OpToRel(<, Nat)
<1>1. IsWellFoundedOn(R, Nat)
  BY NatLessThanWellFounded
<1>2. \A x, y \in Nat : <<y, x>> \in R <=> y < x
  BY DEF OpToRel
<1> HIDE DEF R
<1>3. S \subseteq Nat
  OBVIOUS
<1>4. PICK x \in S : \A y \in S : ~ (<<y, x>> \in R)
  BY <1>1, <1>3, WFMin
<1>5. \A y \in S : x <= y
  <2> SUFFICES ASSUME NEW y \in S PROVE x <= y
    OBVIOUS
  <2>1. x \in Nat /\ y \in Nat /\ ~(y < x)
    BY <1>2, <1>3, <1>4
  <2> QED  BY <2>1
<1> QED  BY <1>5 DEF Min

(* Induction, from the well-foundedness of the order of the naturals.         *)
LEMMA SetInduction ==
    ASSUME NEW T \in SUBSET Nat, 0 \in T, \A n \in T : n + 1 \in T
    PROVE  T = Nat
<1> DEFINE U == Nat \ T
<1>1. CASE U # {}
  <2>1. U \in SUBSET Nat
    OBVIOUS
  <2> DEFINE x == Min(U)
  <2>2. x \in U /\ \A y \in U : x <= y
    <3> HIDE DEF U
    <3> QED  BY <1>1, <2>1, SmallestExists
  <2> HIDE DEF x
  <2>3. x # 0 /\ x - 1 \in Nat /\ x - 1 < x /\ (x - 1) + 1 = x
    BY <2>2
  <2>4. x - 1 \in T
    BY <2>2, <2>3
  <2> QED  BY <2>2, <2>3, <2>4
<1> QED  BY <1>1

(* PathFollower.update stays on the path and passes a waypoint only when the  *)
(* boat is in its circle.                                                     *)
LEMMA UpdatedFollows ==
    ASSUME NEW c, OnPath(c), NEW pos \in Int
    PROVE  /\ OnPath(Updated(c, pos))
           /\ Updated(c, pos).path = c.path
           /\ 2..Updated(c, pos).idx \subseteq 2..c.idx \union Near(c, pos)
           /\ Updated(c, pos).done
              => c.done \/ 2..Len(c.path) \subseteq 2..c.idx \union Near(c, pos)
           /\ c.done => Updated(c, pos) = c
<1> DEFINE n == Len(c.path)
           last == n - 1
           S == {i \in c.idx..last : i = last \/ ~Within(c, i + 1, pos)}
           next == Min(S)
<1>1. c \in Follower /\ c.idx \in Nat \ {0} /\ n \in Nat /\ (c.idx = 1 \/ c.idx < n)
  BY DEF OnPath, Follower
<1>2. CASE c.done \/ n < 2
  <2>1. Updated(c, pos) = c
    BY <1>2 DEF Updated
  <2>2. c.done \/ 2..n = {}
    BY <1>1, <1>2
  <2> QED  BY <2>1, <2>2
<1>3. CASE ~(c.done \/ n < 2)
  <2>1. last \in S /\ S \in SUBSET Nat
    BY <1>1, <1>3
  <2>2. Updated(c, pos) = [c EXCEPT !.idx = next, !.done = next = last /\ Within(c, last + 1, pos)]
    BY <1>3 DEF Updated
  <2> HIDE DEF S
  <2>3. next \in S /\ \A y \in S : next <= y
    BY <2>1, SmallestExists
  <2> HIDE DEF next
  <2> USE DEF S
  <2>4. next \in c.idx..last /\ next \in Nat \ {0} /\ next < n
    BY <1>1, <1>3, <2>3
  <2>5. ASSUME NEW i \in (c.idx + 1)..next PROVE i \in Near(c, pos)
    <3>1. i - 1 \in c.idx..last /\ i - 1 # last /\ i - 1 < next /\ (i - 1) + 1 = i /\ i \in 2..n
      BY <1>1, <2>4, <2>5
    <3>2. ~(i - 1 \in S)
      BY <2>3, <2>4, <3>1
    <3>3. Within(c, (i - 1) + 1, pos)
      BY <3>1, <3>2
    <3> QED  BY <3>1, <3>3 DEF Near
  <2>6. 2..next \subseteq 2..c.idx \union Near(c, pos)
    <3> SUFFICES ASSUME NEW i \in 2..next, i > c.idx PROVE i \in Near(c, pos)
      BY <1>1, <2>4
    <3> QED  BY <1>1, <2>4, <2>5
  <2>7. ASSUME next = last, Within(c, last + 1, pos)
        PROVE  2..n \subseteq 2..c.idx \union Near(c, pos)
    <3>1. last + 1 = n /\ n \in 2..n
      BY <1>1, <1>3
    <3>2. n \in Near(c, pos)
      BY <2>7, <3>1 DEF Near
    <3>3. \A i \in 2..n : i = n \/ i \in 2..next
      BY <1>1, <2>7
    <3> QED  BY <2>6, <3>2, <3>3
  <2> DEFINE complete == next = last /\ Within(c, last + 1, pos)
             e == Updated(c, pos)
  <2>8. complete \in BOOLEAN
    OBVIOUS
  <2>9. e = [c EXCEPT !.idx = next, !.done = complete]
    BY <2>2
  <2> HIDE DEF complete, e
  <2>10. e \in Follower /\ e.path = c.path /\ e.idx = next /\ e.done = complete
    BY <1>1, <2>4, <2>8, <2>9 DEF Follower
  <2>11. OnPath(e)
    BY <2>4, <2>10 DEF OnPath
  <2>12. e.done => 2..n \subseteq 2..c.idx \union Near(c, pos)
    BY <2>7, <2>10 DEF complete
  <2>13. ~c.done
    BY <1>3
  <2> HIDE DEF n
  <2> QED  BY <2>6, <2>10, <2>11, <2>12, <2>13 DEF e, n
<1> QED  BY <1>2, <1>3

(* A ramp stays between the forces it joins.                                  *)
LEMMA TimesMonotonic ==
    ASSUME NEW a \in Nat, NEW b \in Nat, NEW d \in Nat, b <= d
    PROVE  a * b \in Nat /\ a * b <= a * d
<1>1. d - b \in Nat /\ a * (d - b) \in Nat /\ a * b \in Nat
  OBVIOUS
<1>2. a * d = a * b + a * (d - b)
  OBVIOUS
<1> QED  BY <1>1, <1>2

LEMMA CeilingBounds ==
    ASSUME NEW wp \in Points, NEW dist \in Nat
    PROVE  Ceiling(wp, dist) \in 0..(Cruise * Ramp)
<1>1. Cruise \in Nat /\ Ramp \in Nat /\ wp.force \in Nat /\ wp.force <= Cruise
  BY MissionNumbers DEF Points
<1>2. Cruise * Ramp \in Nat
  BY <1>1
<1>3. CASE wp.force < Cruise /\ dist <= Ramp
  <2> DEFINE f == wp.force
             r == Ramp - dist
  <2>1. f \in Nat /\ r \in Nat /\ f <= Cruise /\ r + dist = Ramp
    BY <1>1, <1>3
  <2>2. Ceiling(wp, dist) = dist * Cruise + r * f
    BY <1>3 DEF Ceiling, Blend
  <2> HIDE DEF f, r
  <2>3. r * f \in Nat /\ r * f <= r * Cruise
    BY <1>1, <2>1, TimesMonotonic
  <2>4. dist * Cruise \in Nat /\ dist * Cruise + r * Cruise = Cruise * (r + dist) /\ r * Cruise \in Nat
    BY <1>1, <2>1
  <2>5. dist * Cruise + r * Cruise = Cruise * Ramp
    BY <2>1, <2>4
  <2> QED  BY <1>2, <2>2, <2>3, <2>4, <2>5
<1>4. CASE ~(wp.force < Cruise /\ dist <= Ramp)
  BY <1>2, <1>4 DEF Ceiling
<1> QED  BY <1>3, <1>4

LEMMA ForceBounds ==
    ASSUME NEW c, OnPath(c), NEW pos \in Int
    PROVE  SurgeForce(c, pos) \in 0..(Cruise * Ramp)
<1>1. Cruise \in Nat /\ Ramp \in Nat /\ Radius \in Nat /\ Cruise * Ramp \in Nat
  BY MissionNumbers
<1>2. CASE Len(c.path) < 2
  BY <1>1, <1>2 DEF SurgeForce
<1>3. CASE ~(Len(c.path) < 2)
  <2> DEFINE from == c.path[c.idx]
             to == c.path[c.idx + 1]
             ahead == Ceiling(to, Dist(pos, to.at))
             behind == Ceiling(from, Max({0, Dist(pos, from.at) - Radius}))
  <2>1. SurgeForce(c, pos) = Min({ahead, behind})
    BY <1>3 DEF SurgeForce
  <2>2. c.path \in Seq(Points) /\ c.idx \in 1..Len(c.path) /\ c.idx + 1 \in 1..Len(c.path)
    BY <1>3 DEF OnPath, Follower
  <2>3. from \in Points /\ to \in Points
    BY <2>2
  <2> HIDE DEF from, to
  <2>4. from.at \in Int /\ to.at \in Int
    BY <2>3 DEF Points
  <2>5. Dist(pos, to.at) \in Nat /\ Dist(pos, from.at) \in Nat
    BY <2>4, DistIsNatural
  <2>6. Max({0, Dist(pos, from.at) - Radius}) \in Nat
    BY <1>1, <2>5, MaxOfTwo
  <2>7. ahead \in 0..(Cruise * Ramp) /\ behind \in 0..(Cruise * Ramp)
    BY <2>3, <2>5, <2>6, CeilingBounds
  <2> HIDE DEF ahead, behind
  <2>8. Min({ahead, behind}) = IF ahead <= behind THEN ahead ELSE behind
    BY <1>1, <2>7, MinOfTwo
  <2> QED  BY <2>1, <2>7, <2>8
<1> QED  BY <1>2, <1>3

(* latlon_to_ned moves every waypoint by the origin.                          *)
LEMMA FrameOfPlan ==
    ASSUME NEW wps \in Seq(Waypoints), NEW zero \in Int
    PROVE  /\ InFrame(wps, zero) \in Seq(Points) /\ Len(InFrame(wps, zero)) = Len(wps)
           /\ \A k \in 1..Len(wps) : InFrame(wps, zero)[k].at = wps[k].at - zero
<1>1. Len(wps) \in Nat /\ DOMAIN wps = 1..Len(wps) /\ \A k \in 1..Len(wps) : wps[k] \in Waypoints
  OBVIOUS
<1>2. Shore \in Nat
  BY MissionNumbers
<1>3. ASSUME NEW wp \in Waypoints
      PROVE  /\ [wp EXCEPT !.at = @ - zero] \in Points
             /\ [wp EXCEPT !.at = @ - zero].at = wp.at - zero
  <2>1. wp.at \in Int /\ wp.at - zero \in Int
    BY <1>2, <1>3 DEF Waypoints
  <2> QED  BY <1>3, <2>1 DEF Waypoints, Points
<1>4. InFrame(wps, zero) = [k \in 1..Len(wps) |-> [wps[k] EXCEPT !.at = @ - zero]]
  BY <1>1 DEF InFrame
<1>5. InFrame(wps, zero) \in [1..Len(wps) -> Points]
  BY <1>1, <1>3, <1>4
<1>6. InFrame(wps, zero) \in Seq(Points) /\ Len(InFrame(wps, zero)) = Len(wps)
  BY <1>1, <1>5
<1> QED  BY <1>1, <1>3, <1>4, <1>6

LEMMA ReversePlan ==
    ASSUME NEW wps \in Seq(Waypoints), wps # <<>>
    PROVE  /\ Reverse(wps) \in Seq(Waypoints) /\ Reverse(wps) # <<>>
           /\ Len(Reverse(wps)) = Len(wps)
           /\ Reverse(wps)[1] = wps[Len(wps)] /\ Reverse(wps)[Len(wps)] = wps[1]
<1>1. Len(wps) \in Nat \ {0}
  OBVIOUS
<1>2. Reverse(wps) = [k \in 1..Len(wps) |-> wps[(Len(wps) - k) + 1]]
  BY DEF Reverse
<1>3. \A k \in 1..Len(wps) : wps[(Len(wps) - k) + 1] \in Waypoints
  BY <1>1
<1>4. Reverse(wps) \in [1..Len(wps) -> Waypoints]
  BY <1>2, <1>3
<1>5. Reverse(wps) \in Seq(Waypoints) /\ Len(Reverse(wps)) = Len(wps)
  BY <1>1, <1>4
<1>6. Reverse(wps)[1] = wps[Len(wps)] /\ Reverse(wps)[Len(wps)] = wps[1]
  BY <1>1, <1>2
<1>7. Reverse(wps) # <<>>
  BY <1>1, <1>5
<1> QED  BY <1>5, <1>6, <1>7

-----------------------------------------------------------------------------
(* What the plans keep: their types and a route's frame, the follower and     *)
(* what it passed, and the path of the plan whose waypoints it holds.         *)
CourseOK ==
    /\ boat \in 0..Shore /\ armed \in BOOLEAN /\ mode \in Modes
    /\ owner \in {"none", "route", "mission"} /\ command \in 0..(Cruise * Ramp)
    /\ orders \in Nat

PlansOK ==
    /\ route \in [active : BOOLEAN, wps : Seq(Waypoints), origin : Int,
                  completion : CompletionModes, forward : BOOLEAN]
    /\ mission \in [loaded : BOOLEAN, wps : Seq(Waypoints), origin : Int]
    /\ route.active => route.wps # <<>>
    /\ route.wps # <<>>
       => route.origin \in {route.wps[1].at, route.wps[Len(route.wps)].at}

Follows ==
    /\ OnPath(ctl)
    /\ 2..ctl.idx \subseteq passed /\ passed \subseteq 2..Len(ctl.path)
    /\ ctl.done => passed = 2..Len(ctl.path)

HoldsRoute ==
    /\ route.wps # <<>> => cumDist = CumDist(route.wps)
    /\ owner = "route" =>
        /\ route.wps # <<>>
        /\ Len(ctl.path) = Len(route.wps) + 1
        /\ \A k \in 1..Len(route.wps) : ctl.path[k + 1].at = route.wps[k].at - route.origin

HoldsMission ==
    owner = "mission" /\ mission.loaded =>
        /\ Len(ctl.path) = Len(mission.wps)
        /\ \A k \in 1..Len(mission.wps) : ctl.path[k].at = mission.wps[k].at - mission.origin

MissionInv == CourseOK /\ PlansOK /\ Follows /\ HoldsRoute /\ HoldsMission

LEMMA MissionInitInv == MissionInit => MissionInv
<1> SUFFICES ASSUME MissionInit PROVE MissionInv
  OBVIOUS
<1>1. /\ boat \in 0..Shore /\ armed = FALSE /\ mode = "MANUAL"
      /\ route = NoRoute /\ mission = NoMission
      /\ ctl = [path |-> <<>>, idx |-> 1, done |-> FALSE] /\ owner = "none"
      /\ command = 0 /\ passed = {} /\ orders = 0
  BY DEF MissionInit
<1>2. Cruise * Ramp \in Nat
  BY MissionNumbers
<1>3. CourseOK
  <2>1. armed \in BOOLEAN /\ mode \in Modes /\ owner \in {"none", "route", "mission"}
    BY <1>1 DEF Modes
  <2>2. command \in 0..(Cruise * Ramp)
    BY <1>1, <1>2
  <2> QED  BY <1>1, <2>1, <2>2 DEF CourseOK
<1>4. PlansOK
  <2>1. <<>> \in Seq(Waypoints) /\ "stop" \in CompletionModes
    BY DEF CompletionModes
  <2> QED  BY <1>1, <2>1 DEF PlansOK, NoRoute, NoMission
<1>5. Follows
  <2>1. <<>> \in Seq(Points) /\ Len(<<>>) = 0
    OBVIOUS
  <2>2. OnPath(ctl)
    BY <1>1, <2>1 DEF OnPath, Follower
  <2>3. 2..1 = {} /\ ctl.idx = 1 /\ ~ctl.done
    BY <1>1
  <2> QED  BY <1>1, <2>2, <2>3 DEF Follows
<1> QED  BY <1>1, <1>3, <1>4, <1>5 DEF MissionInv, HoldsRoute, HoldsMission, NoRoute

LEMMA CourseIsOnPath == MissionInv => MissionTypeOK
<1> SUFFICES ASSUME MissionInv PROVE MissionTypeOK
  OBVIOUS
<1>1. CourseOK /\ PlansOK /\ ctl \in Follower /\ (ctl.idx = 1 \/ ctl.idx < Len(ctl.path))
  BY DEF MissionInv, Follows, OnPath
<1>2. ctl.idx \in Nat \ {0} /\ Len(ctl.path) \in Nat
  BY <1>1 DEF Follower
<1>3. Max({1, Len(ctl.path) - 1}) = IF 1 >= Len(ctl.path) - 1 THEN 1 ELSE Len(ctl.path) - 1
  BY <1>2, MaxOfTwo
<1>4. ctl.idx \in 1..Max({1, Len(ctl.path) - 1})
  BY <1>1, <1>2, <1>3
<1>5. route.active \in BOOLEAN /\ route.completion \in CompletionModes
  BY <1>1 DEF PlansOK
<1> QED  BY <1>1, <1>4, <1>5 DEF MissionTypeOK, CourseOK

(* A plan just loaded, and a plan rewound, are at their beginning.            *)
LEMMA Restarted ==
    ASSUME NEW path \in Seq(Points), ctl' = Loaded(path), passed' = {}
    PROVE  Follows' /\ ctl'.path = path
<1>1. ctl' = [path |-> path, idx |-> 1, done |-> FALSE]
  BY DEF Loaded
<1>2. OnPath(ctl') /\ ctl'.idx = 1 /\ ~ctl'.done /\ ctl'.path = path
  BY <1>1 DEF OnPath, Follower
<1>3. 2..1 = {}
  OBVIOUS
<1> QED  BY <1>2, <1>3 DEF Follows, OnPath

LEMMA RewoundFollows ==
    ASSUME Follows, ctl' = Rewound(ctl), passed' = {}
    PROVE  Follows' /\ ctl'.path = ctl.path
<1>1. ctl \in Follower
  BY DEF Follows, OnPath
<1>2. ctl' = Loaded(ctl.path) /\ ctl.path \in Seq(Points)
  BY <1>1 DEF Rewound, Loaded, Follower
<1> QED  BY <1>2, Restarted

LEMMA RouteLoads ==
    ASSUME boat \in 0..Shore, NEW wps \in Seq(Waypoints), wps # <<>>, NEW zero \in Int,
           LoadRoute(wps, zero)
    PROVE  /\ Follows' /\ owner' = "route"
           /\ Len(ctl'.path) = Len(wps) + 1
           /\ \A k \in 1..Len(wps) : ctl'.path[k + 1].at = wps[k].at - zero
<1> DEFINE first == [at |-> boat, force |-> wps[1].force]
           all == <<first>> \o wps
<1>1. ctl' = Loaded(InFrame(all, zero)) /\ owner' = "route" /\ passed' = {}
  BY DEF LoadRoute
<1>2. wps[1] \in Waypoints /\ Len(wps) \in Nat
  BY EmptySeq
<1>3. first \in Waypoints
  BY <1>2 DEF Waypoints
<1> HIDE DEF first
<1>4. <<first>> \in Seq(Waypoints) /\ Len(<<first>>) = 1
  BY <1>3
<1>5. /\ all \in Seq(Waypoints) /\ Len(all) = 1 + Len(wps)
      /\ \A k \in 1..(1 + Len(wps)) : all[k] = IF k <= 1 THEN <<first>>[k] ELSE wps[k - 1]
  BY <1>4, ConcatProperties
<1>6. \A k \in 1..Len(wps) : k + 1 \in 1..Len(all) /\ all[k + 1] = wps[k]
  BY <1>2, <1>5
<1> HIDE DEF all
<1>7. /\ InFrame(all, zero) \in Seq(Points) /\ Len(InFrame(all, zero)) = Len(all)
      /\ \A k \in 1..Len(all) : InFrame(all, zero)[k].at = all[k].at - zero
  BY <1>5, FrameOfPlan
<1>8. Follows' /\ ctl'.path = InFrame(all, zero)
  BY <1>1, <1>7, Restarted
<1>9. ASSUME NEW k \in 1..Len(wps) PROVE ctl'.path[k + 1].at = wps[k].at - zero
  <2>1. k + 1 \in 1..Len(all) /\ all[k + 1] = wps[k]
    BY <1>6, <1>9
  <2> QED  BY <1>7, <1>8, <2>1
<1>10. Len(ctl'.path) = Len(wps) + 1
  BY <1>2, <1>5, <1>7, <1>8
<1> QED  BY <1>1, <1>8, <1>9, <1>10

(* Nothing but a plan changes the parts that hold it.                         *)
LEMMA RouteHeld ==
    ASSUME HoldsRoute, owner' = owner, cumDist' = cumDist, ctl'.path = ctl.path,
           route'.wps = route.wps, route'.origin = route.origin
    PROVE  HoldsRoute'
BY DEF HoldsRoute, CumDist

LEMMA MissionHeld ==
    ASSUME HoldsMission, owner' = owner, ctl'.path = ctl.path, mission' = mission
    PROVE  HoldsMission'
BY DEF HoldsMission

(* _stop_wp_route.                                                            *)
LEMMA StopRouteKeeps ==
    ASSUME CourseOK, PlansOK, StopRoute
    PROVE  /\ command' \in 0..(Cruise * Ramp)
           /\ route'.wps = route.wps /\ route'.origin = route.origin /\ ~route'.active
           /\ route' \in [active : BOOLEAN, wps : Seq(Waypoints), origin : Int,
                          completion : CompletionModes, forward : BOOLEAN]
<1>1. Cruise * Ramp \in Nat
  BY MissionNumbers
<1>2. command' = 0 \/ command' = command
  BY DEF StopRoute
<1>3. route' = [route EXCEPT !.active = FALSE]
  BY DEF StopRoute
<1>4. command' \in 0..(Cruise * Ramp)
  <2> HIDE DEF StopRoute
  <2>1. command \in 0..(Cruise * Ramp)
    BY DEF CourseOK
  <2>2. 0 \in 0..(Cruise * Ramp)
    BY <1>1
  <2> QED  BY <1>2, <2>1, <2>2
<1>5. route \in [active : BOOLEAN, wps : Seq(Waypoints), origin : Int,
                completion : CompletionModes, forward : BOOLEAN]
  BY DEF PlansOK
<1> QED  BY <1>3, <1>4, <1>5

LEMMA PlansStay ==
    ASSUME PlansOK, mission' = mission, route'.wps = route.wps, route'.origin = route.origin,
           ~route'.active \/ route' = route,
           route' \in [active : BOOLEAN, wps : Seq(Waypoints), origin : Int,
                       completion : CompletionModes, forward : BOOLEAN]
    PROVE  PlansOK'
BY DEF PlansOK

(* A turn of the loop: update moves the follower along what the boat passed.  *)
LEMMA TurnFollows ==
    ASSUME Follows, NEW pos \in Int, ctl' = Updated(ctl, pos),
           \/ passed' = passed \union Near(Updated(ctl, pos), pos)
           \/ ctl.done /\ passed' = passed
    PROVE  Follows' /\ ctl'.path = ctl.path
<1> DEFINE c == Updated(ctl, pos)
<1>1. OnPath(ctl) /\ 2..ctl.idx \subseteq passed /\ passed \subseteq 2..Len(ctl.path)
  BY DEF Follows
<1>2. /\ OnPath(c) /\ c.path = ctl.path
      /\ 2..c.idx \subseteq 2..ctl.idx \union Near(ctl, pos)
      /\ c.done => ctl.done \/ 2..Len(ctl.path) \subseteq 2..ctl.idx \union Near(ctl, pos)
      /\ ctl.done => c = ctl
  BY <1>1, UpdatedFollows
<1> HIDE DEF c
<1>3. Near(c, pos) = Near(ctl, pos) /\ Near(ctl, pos) \subseteq 2..Len(ctl.path)
  BY <1>2 DEF Near, Within
<1>4. ctl' = c
  BY DEF c
<1>5. passed' = passed \union Near(ctl, pos) \/ (ctl.done /\ passed' = passed)
  BY <1>3 DEF c
<1>6. ctl.done => passed = 2..Len(ctl.path)
  BY DEF Follows
<1>7. CASE ctl.done
  <2>1. ctl' = ctl /\ passed' = passed
    BY <1>2, <1>3, <1>4, <1>5, <1>6, <1>7
  <2> QED  BY <2>1 DEF Follows, OnPath
<1>8. CASE ~ctl.done
  <2>1. passed' = passed \union Near(ctl, pos)
    BY <1>5, <1>8
  <2>2. OnPath(ctl') /\ ctl'.path = ctl.path
    BY <1>2, <1>4
  <2>3. 2..ctl'.idx \subseteq passed' /\ passed' \subseteq 2..Len(ctl.path)
    BY <1>1, <1>2, <1>3, <1>4, <2>1
  <2>4. ctl'.done => passed' = 2..Len(ctl.path)
    BY <1>1, <1>2, <1>4, <1>8, <2>1, <2>3
  <2> QED  BY <2>2, <2>3, <2>4 DEF Follows, OnPath
<1> QED  BY <1>7, <1>8

LEMMA StepFollows ==
    ASSUME CourseOK, Follows, NEW zero \in Int, Step(zero), ctl' = Updated(ctl, boat - zero)
    PROVE  /\ Follows' /\ ctl'.path = ctl.path
           /\ boat' \in 0..Shore /\ command' \in 0..(Cruise * Ramp)
<1> DEFINE pos == boat - zero
           c == Updated(ctl, pos)
<1>1. boat \in 0..Shore /\ 0..Shore \subseteq Int
  BY MissionNumbers DEF CourseOK
<1>2. pos \in Int
  BY <1>1
<1>3. /\ command' = SurgeForce(c, pos)
      /\ boat' \in IF SurgeForce(c, pos) = 0 THEN {boat}
                   ELSE {boat + w : w \in Ways(c, pos)} \cap 0..Shore
      /\ passed' = IF ctl.done THEN passed ELSE passed \union Near(c, pos)
      /\ ctl' = c
  BY DEF Step, Near
<1>4. OnPath(ctl)
  BY DEF Follows
<1> HIDE DEF pos
<1>5. OnPath(c)
  BY <1>2, <1>4, UpdatedFollows
<1>6. Follows' /\ ctl'.path = ctl.path
  BY <1>2, <1>3, TurnFollows
<1> HIDE DEF c
<1>7. command' \in 0..(Cruise * Ramp)
  BY <1>2, <1>3, <1>5, ForceBounds
<1> QED  BY <1>1, <1>3, <1>6, <1>7

LEMMA RouteTickInv ==
    ASSUME MissionInv, RouteTick
    PROVE  MissionInv'
<1> DEFINE pos == boat - route.origin
           c == Updated(ctl, pos)
<1>1. /\ CourseOK /\ PlansOK /\ Follows /\ HoldsRoute /\ HoldsMission
      /\ armed' = armed /\ mode' = mode /\ mission' = mission /\ route.active
      /\ orders' = orders
  BY DEF MissionInv, RouteTick
<1>2. boat \in 0..Shore /\ armed \in BOOLEAN /\ mode \in Modes /\ 0..Shore \subseteq Int
  BY <1>1, MissionNumbers DEF CourseOK
<1>3. /\ route.wps \in Seq(Waypoints) /\ route.wps # <<>> /\ route.origin \in Int
      /\ mission \in [loaded : BOOLEAN, wps : Seq(Waypoints), origin : Int]
  BY <1>1 DEF PlansOK
<1>4. pos \in Int
  BY <1>2, <1>3
<1>5. CASE ~c.done /\ Step(route.origin) /\ ctl' = c /\ UNCHANGED <<route, owner, cumDist>>
  <2>1. /\ Follows' /\ ctl'.path = ctl.path
        /\ boat' \in 0..Shore /\ command' \in 0..(Cruise * Ramp)
    BY <1>1, <1>3, <1>5, StepFollows
  <2>2. HoldsRoute' /\ HoldsMission'
    BY <1>1, <1>5, <2>1, RouteHeld, MissionHeld
  <2>3. PlansOK'
    BY <1>1, <1>5 DEF PlansOK
  <2>4. CourseOK'
    BY <1>1, <1>2, <1>5, <2>1 DEF CourseOK
  <2> QED  BY <2>1, <2>2, <2>3, <2>4 DEF MissionInv
<1>6. CASE /\ c.done /\ route.completion = "stop" /\ StopRoute /\ ctl' = c
           /\ passed' = passed \union {i \in 2..Len(c.path) : Within(c, i, pos)}
           /\ UNCHANGED <<owner, cumDist, boat>>
  <2>1. passed' = passed \union Near(c, pos)
    BY <1>6 DEF Near
  <2>2. Follows' /\ ctl'.path = ctl.path
    <3> HIDE DEF pos
    <3> QED  BY <1>1, <1>4, <1>6, <2>1, TurnFollows
  <2>3. /\ command' \in 0..(Cruise * Ramp)
        /\ route'.wps = route.wps /\ route'.origin = route.origin /\ ~route'.active
        /\ route' \in [active : BOOLEAN, wps : Seq(Waypoints), origin : Int,
                       completion : CompletionModes, forward : BOOLEAN]
    BY <1>1, <1>6, StopRouteKeeps
  <2>4. PlansOK'
    BY <1>1, <2>3, PlansStay
  <2>5. HoldsRoute' /\ HoldsMission'
    BY <1>1, <1>6, <2>2, <2>3, RouteHeld, MissionHeld
  <2>6. CourseOK'
    BY <1>1, <1>6, <2>3 DEF CourseOK
  <2> QED  BY <2>2, <2>4, <2>5, <2>6 DEF MissionInv
<1>7. CASE /\ c.done /\ route.completion # "stop" /\ command' = SurgeForce(c, pos)
           /\ IF route.completion = "loop" THEN Repeat ELSE TurnRound
           /\ UNCHANGED boat
  <2>1. OnPath(c)
    <3> HIDE DEF pos
    <3>1. OnPath(ctl)
      BY <1>1 DEF Follows
    <3> QED  BY <1>4, <3>1, UpdatedFollows
  <2>2. command' \in 0..(Cruise * Ramp)
    <3> HIDE DEF pos, c
    <3> QED  BY <1>4, <1>7, <2>1, ForceBounds
  <2> DEFINE way == route'.wps
  <2>3. /\ way \in Seq(Waypoints) /\ way # <<>> /\ route'.origin = route.origin
        /\ LoadRoute(way, route.origin) /\ cumDist' = CumDist(way)
        /\ PlansOK'
    <3>1. CASE Repeat
      <4>1. route' = route /\ cumDist' = cumDist /\ LoadRoute(route.wps, route.origin)
        BY <3>1 DEF Repeat
      <4>2. way = route.wps
        BY <4>1
      <4>3. PlansOK'
        BY <1>1, <4>1 DEF PlansOK
      <4>4. cumDist = CumDist(route.wps)
        BY <1>1, <1>3 DEF HoldsRoute
      <4> QED  BY <1>3, <4>1, <4>2, <4>3, <4>4
    <3>2. CASE TurnRound
      <4> DEFINE back == Reverse(route.wps)
      <4>1. /\ route' = [route EXCEPT !.wps = back, !.forward = ~@]
            /\ LoadRoute(back, route.origin) /\ cumDist' = CumDist(back)
        BY <3>2 DEF TurnRound
      <4>2. /\ back \in Seq(Waypoints) /\ back # <<>> /\ Len(back) = Len(route.wps)
            /\ back[1] = route.wps[Len(route.wps)] /\ back[Len(route.wps)] = route.wps[1]
        BY <1>3, ReversePlan
      <4> HIDE DEF back
      <4>3. route \in [active : BOOLEAN, wps : Seq(Waypoints), origin : Int,
                       completion : CompletionModes, forward : BOOLEAN]
        BY <1>1 DEF PlansOK
      <4>4. /\ route'.wps = back /\ route'.origin = route.origin
            /\ route' \in [active : BOOLEAN, wps : Seq(Waypoints), origin : Int,
                           completion : CompletionModes, forward : BOOLEAN]
        BY <4>1, <4>2, <4>3
      <4>5. route.origin \in {route.wps[1].at, route.wps[Len(route.wps)].at}
        BY <1>1, <1>3 DEF PlansOK
      <4>6. route'.origin \in {route'.wps[1].at, route'.wps[Len(route'.wps)].at}
        BY <4>2, <4>4, <4>5
      <4>7. PlansOK'
        BY <1>1, <1>3, <4>2, <4>4, <4>6 DEF PlansOK
      <4>8. way = back
        BY <4>4
      <4> HIDE DEF way
      <4> QED  BY <4>1, <4>2, <4>4, <4>7, <4>8
    <3> QED  BY <1>7, <3>1, <3>2
  <2>4. LoadRoute(way, route.origin)
    BY <2>3
  <2> HIDE DEF way
  <2>5. /\ Follows' /\ owner' = "route" /\ Len(ctl'.path) = Len(way) + 1
        /\ \A k \in 1..Len(way) : ctl'.path[k + 1].at = way[k].at - route.origin
    BY <1>2, <1>3, <2>3, <2>4, RouteLoads
  <2> USE DEF way
  <2>6. cumDist' = CumDist(route'.wps)
    BY <2>3
  <2>7. CumDist(route'.wps) = CumDist(route.wps)'
    BY DEF CumDist
  <2>8. HoldsRoute' /\ HoldsMission'
    BY <2>3, <2>5, <2>6, <2>7 DEF HoldsRoute, HoldsMission
  <2>9. CourseOK'
    BY <1>1, <1>2, <1>7, <2>2, <2>5 DEF CourseOK
  <2> QED  BY <2>3, <2>5, <2>8, <2>9 DEF MissionInv
<1> QED  BY <1>5, <1>6, <1>7 DEF RouteTick

(* The commands: a plan is loaded whole, and the others leave it.             *)
LEMMA StartRouteInv ==
    ASSUME MissionInv, NEW wps \in Plans, NEW completion \in Completions,
           NEW forward \in BOOLEAN, StartRoute(wps, completion, forward)
    PROVE  MissionInv'
<1> DEFINE way == IF forward THEN wps ELSE Reverse(wps)
<1>1. /\ CourseOK /\ PlansOK /\ Follows /\ HoldsRoute /\ HoldsMission
      /\ UNCHANGED <<boat, armed, mode, mission, command, drifts>>
      /\ route' = [active |-> TRUE, wps |-> way, origin |-> way[1].at,
                   completion |-> completion, forward |-> forward]
      /\ LoadRoute(way, way[1].at) /\ cumDist' = CumDist(way)
      /\ orders' = orders + 1
  BY DEF MissionInv, StartRoute, Order
<1>2. wps \in Seq(Waypoints) /\ wps # <<>> /\ completion \in CompletionModes
  BY MissionNumbers
<1>3. way \in Seq(Waypoints) /\ way # <<>>
  BY <1>2, ReversePlan
<1> HIDE DEF way
<1>4. way[1] \in Waypoints /\ 0..Shore \subseteq Int
  BY <1>3, EmptySeq, MissionNumbers
<1>5. way[1].at \in Int
  BY <1>4 DEF Waypoints
<1>6. boat \in 0..Shore
  BY <1>1 DEF CourseOK
<1>7. /\ Follows' /\ owner' = "route" /\ Len(ctl'.path) = Len(way) + 1
      /\ \A k \in 1..Len(way) : ctl'.path[k + 1].at = way[k].at - way[1].at
  BY <1>1, <1>3, <1>5, <1>6, RouteLoads
<1>8. route'.wps = way /\ route'.origin = way[1].at
  BY <1>1
<1>9. CumDist(way) = CumDist(route.wps)'
  <2>1. CumDist(way) = CumDist(route'.wps)
    BY <1>8
  <2> QED  BY <2>1 DEF CumDist
<1>10. HoldsRoute'
  BY <1>1, <1>3, <1>7, <1>8, <1>9 DEF HoldsRoute
<1>11. HoldsMission'
  BY <1>7 DEF HoldsMission
<1>12. PlansOK'
  <2>1. route' \in [active : BOOLEAN, wps : Seq(Waypoints), origin : Int,
                    completion : CompletionModes, forward : BOOLEAN]
    BY <1>1, <1>2, <1>3, <1>5
  <2> QED  BY <1>1, <1>3, <1>8, <2>1 DEF PlansOK
<1>13. CourseOK'
  BY <1>1, <1>7 DEF CourseOK
<1> QED  BY <1>7, <1>10, <1>11, <1>12, <1>13 DEF MissionInv

LEMMA UploadInv ==
    ASSUME MissionInv, NEW wps \in Plans, UploadMission(wps)
    PROVE  MissionInv'
<1>1. /\ CourseOK /\ PlansOK /\ Follows /\ HoldsRoute /\ HoldsMission
      /\ UNCHANGED <<boat, armed, mode, route, cumDist, command, drifts>>
      /\ mission' = [loaded |-> TRUE, wps |-> wps, origin |-> wps[1].at]
      /\ ctl' = Loaded(InFrame(wps, wps[1].at)) /\ owner' = "mission" /\ passed' = {}
      /\ orders' = orders + 1
  BY DEF MissionInv, UploadMission, Order
<1>2. wps \in Seq(Waypoints) /\ wps # <<>>
  BY MissionNumbers
<1>3. wps[1] \in Waypoints /\ 0..Shore \subseteq Int
  BY <1>2, EmptySeq, MissionNumbers
<1>4. wps[1].at \in Int
  BY <1>3 DEF Waypoints
<1> DEFINE path == InFrame(wps, wps[1].at)
<1>5. /\ path \in Seq(Points) /\ Len(path) = Len(wps)
      /\ \A k \in 1..Len(wps) : path[k].at = wps[k].at - wps[1].at
  BY <1>2, <1>4, FrameOfPlan
<1> HIDE DEF path
<1>6. Follows' /\ ctl'.path = path
  <2>1. ctl' = Loaded(path)
    BY <1>1 DEF path
  <2> QED  BY <1>1, <1>5, <2>1, Restarted
<1>7. mission' \in [loaded : BOOLEAN, wps : Seq(Waypoints), origin : Int]
  BY <1>1, <1>2, <1>4
<1>8. mission'.wps = wps /\ mission'.origin = wps[1].at
  BY <1>1
<1>9. HoldsMission'
  BY <1>5, <1>6, <1>8 DEF HoldsMission
<1>10. HoldsRoute'
  BY <1>1 DEF HoldsRoute, CumDist
<1>11. PlansOK'
  BY <1>1, <1>7 DEF PlansOK
<1>12. CourseOK'
  BY <1>1 DEF CourseOK
<1> QED  BY <1>6, <1>9, <1>10, <1>11, <1>12 DEF MissionInv

(* Disarming, a new mode and the end of a route.                              *)
LEMMA CommandInv ==
    ASSUME MissionInv, mission' = mission, boat' = boat, armed' \in BOOLEAN, mode' \in Modes,
           owner' = owner, cumDist' = cumDist, orders' = orders,
           StopRoute \/ UNCHANGED <<route, command>>,
           \/ ctl' = Rewound(ctl) /\ passed' = {}
           \/ UNCHANGED <<ctl, passed>>
    PROVE  MissionInv'
<1>1. CourseOK /\ PlansOK /\ Follows /\ HoldsRoute /\ HoldsMission
  BY DEF MissionInv
<1>2. Follows' /\ ctl'.path = ctl.path
  <2>1. CASE ctl' = Rewound(ctl) /\ passed' = {}
    BY <1>1, <2>1, RewoundFollows
  <2>2. CASE UNCHANGED <<ctl, passed>>
    BY <1>1, <2>2 DEF Follows, OnPath
  <2> QED  BY <2>1, <2>2
<1>3. /\ command' \in 0..(Cruise * Ramp) /\ PlansOK'
      /\ route'.wps = route.wps /\ route'.origin = route.origin
  <2>1. CASE StopRoute
    <3>1. /\ command' \in 0..(Cruise * Ramp)
          /\ route'.wps = route.wps /\ route'.origin = route.origin /\ ~route'.active
          /\ route' \in [active : BOOLEAN, wps : Seq(Waypoints), origin : Int,
                         completion : CompletionModes, forward : BOOLEAN]
      BY <1>1, <2>1, StopRouteKeeps
    <3>2. PlansOK'
      BY <1>1, <3>1, PlansStay
    <3> QED  BY <3>1, <3>2
  <2>2. CASE UNCHANGED <<route, command>>
    BY <1>1, <2>2 DEF PlansOK, CourseOK
  <2> QED  BY <2>1, <2>2
<1>4. HoldsRoute' /\ HoldsMission'
  BY <1>1, <1>2, <1>3, RouteHeld, MissionHeld
<1>5. CourseOK'
  BY <1>1, <1>3 DEF CourseOK
<1> QED  BY <1>2, <1>3, <1>4, <1>5 DEF MissionInv

LEMMA MissionTickInv ==
    ASSUME MissionInv, MissionTick
    PROVE  MissionInv'
<1>1. /\ CourseOK /\ PlansOK /\ Follows /\ HoldsRoute /\ HoldsMission
      /\ UNCHANGED <<armed, mode, route, mission, owner, cumDist, drifts, orders>>
      /\ ctl' = Updated(ctl, boat - mission.origin) /\ Step(mission.origin)
  BY DEF MissionInv, MissionTick
<1>2. mission.origin \in Int
  BY <1>1 DEF PlansOK
<1>3. /\ Follows' /\ ctl'.path = ctl.path
      /\ boat' \in 0..Shore /\ command' \in 0..(Cruise * Ramp)
  BY <1>1, <1>2, StepFollows
<1>4. HoldsRoute' /\ HoldsMission'
  BY <1>1, <1>3, RouteHeld, MissionHeld
<1>5. PlansOK'
  BY <1>1 DEF PlansOK
<1>6. CourseOK'
  BY <1>1, <1>3 DEF CourseOK
<1> QED  BY <1>3, <1>4, <1>5, <1>6 DEF MissionInv

LEMMA MissionNextInv == MissionInv /\ [MissionNext]_missionVars => MissionInv'
<1> SUFFICES ASSUME MissionInv, [MissionNext]_missionVars PROVE MissionInv'
  OBVIOUS
<1>0. /\ CourseOK /\ PlansOK /\ Follows /\ HoldsRoute /\ HoldsMission
      /\ armed \in BOOLEAN /\ mode \in Modes
  BY DEF MissionInv, CourseOK
<1>1. ASSUME NEW wps \in Plans, NEW completion \in Completions, NEW forward \in BOOLEAN,
             StartRoute(wps, completion, forward)
      PROVE  MissionInv'
  BY <1>1, StartRouteInv
<1>2. CASE StopWpRoute
  <2>1. /\ StopRoute
        /\ UNCHANGED <<boat, armed, mode, mission, ctl, owner, cumDist, passed, drifts, orders>>
    BY <1>2 DEF StopWpRoute
  <2> QED  BY <1>0, <2>1, CommandInv
<1>3. ASSUME NEW wps \in Plans, UploadMission(wps)
      PROVE  MissionInv'
  BY <1>3, UploadInv
<1>4. CASE ClearMission
  <2>1. /\ mission' = [mission EXCEPT !.loaded = FALSE, !.wps = <<>>]
        /\ UNCHANGED <<boat, armed, mode, route, ctl, owner, cumDist, command,
                       passed, drifts, orders>>
    BY <1>4 DEF ClearMission
  <2>2. mission \in [loaded : BOOLEAN, wps : Seq(Waypoints), origin : Int]
    BY <1>0 DEF PlansOK
  <2>3. <<>> \in Seq(Waypoints)
    OBVIOUS
  <2>4. mission' \in [loaded : BOOLEAN, wps : Seq(Waypoints), origin : Int] /\ ~mission'.loaded
    BY <2>1, <2>2, <2>3
  <2>5. PlansOK'
    BY <1>0, <2>1, <2>4 DEF PlansOK
  <2>6. HoldsRoute'
    BY <1>0, <2>1, RouteHeld
  <2>7. HoldsMission'
    BY <2>4 DEF HoldsMission
  <2>8. CourseOK' /\ Follows'
    BY <1>0, <2>1 DEF CourseOK, Follows, OnPath
  <2> QED  BY <2>5, <2>6, <2>7, <2>8 DEF MissionInv
<1>5. CASE Arm
  <2>1. armed' = TRUE /\ UNCHANGED <<boat, mode, plans, command, passed, drifts, orders>>
    BY <1>5 DEF Arm
  <2>2. armed' \in BOOLEAN /\ mode' \in Modes
    BY <1>0, <2>1
  <2> QED  BY <1>0, <2>1, <2>2, CommandInv DEF plans
<1>6. CASE Disarm
  <2>1. /\ armed' = FALSE /\ ctl' = Rewound(ctl) /\ passed' = {} /\ StopRoute
        /\ UNCHANGED <<boat, mode, mission, owner, cumDist, drifts, orders>>
    BY <1>6 DEF Disarm
  <2>2. armed' \in BOOLEAN /\ mode' \in Modes
    BY <1>0, <2>1
  <2> QED  BY <1>0, <2>1, <2>2, CommandInv
<1>7. ASSUME NEW m \in Modes, SetMode(m)
      PROVE  MissionInv'
  <2>1. /\ mode' = m /\ LeaveRouteFor(m)
        /\ (ctl' = Rewound(ctl) /\ passed' = {}) \/ (UNCHANGED <<ctl, passed>>)
        /\ UNCHANGED <<boat, armed, mission, owner, cumDist, drifts, orders>>
    BY <1>7 DEF SetMode
  <2>2. StopRoute \/ UNCHANGED <<route, command>>
    BY <2>1 DEF LeaveRouteFor
  <2> QED  BY <1>0, <2>1, <2>2, CommandInv
<1>8. ASSUME NEW m \in Modes, HeartbeatMode(m)
      PROVE  MissionInv'
  <2>1. /\ mode' = m /\ LeaveRouteFor(m)
        /\ UNCHANGED <<boat, armed, mission, ctl, owner, cumDist, passed, drifts, orders>>
    BY <1>8 DEF HeartbeatMode
  <2>2. StopRoute \/ UNCHANGED <<route, command>>
    BY <2>1 DEF LeaveRouteFor
  <2> QED  BY <1>0, <2>1, <2>2, CommandInv
<1>9. CASE RouteTick
  BY <1>9, RouteTickInv
<1>10. CASE MissionTick
  BY <1>10, MissionTickInv
<1>11. CASE Drift
  <2>1. /\ boat' \in 0..Shore
        /\ UNCHANGED <<armed, mode, plans, command, passed, orders>>
    BY <1>11 DEF Drift
  <2>2. UNCHANGED <<armed, mode, route, mission, ctl, owner, cumDist, command, passed, orders>>
    BY <2>1 DEF plans
  <2>3. CourseOK' /\ PlansOK' /\ Follows'
    BY <1>0, <2>1, <2>2 DEF CourseOK, PlansOK, Follows, OnPath
  <2>4. HoldsRoute' /\ HoldsMission'
    BY <1>0, <2>2, RouteHeld, MissionHeld
  <2> QED  BY <2>3, <2>4 DEF MissionInv
<1>12. CASE UNCHANGED missionVars
  <2>1. UNCHANGED <<boat, armed, mode, route, mission, ctl, owner, cumDist, command, passed,
                   orders>>
    BY <1>12 DEF missionVars, plans
  <2> QED  BY <1>0, <2>1, CommandInv
<1> QED  BY <1>1, <1>2, <1>3, <1>4, <1>5, <1>6, <1>7, <1>8, <1>9, <1>10, <1>11, <1>12
         DEF MissionNext

(* The boat is steered to the places of the plan held, by the frame of the    *)
(* plan executed.                                                             *)
LEMMA PlanIsSteered == MissionInv => SteersToItsPlan
<1> SUFFICES ASSUME MissionInv PROVE SteersToItsPlan
  OBVIOUS
<1>1. PlansOK /\ Follows /\ HoldsRoute /\ HoldsMission
  BY DEF MissionInv
<1>2. /\ ctl.idx \in Nat \ {0} /\ Len(ctl.path) \in Nat
      /\ (ctl.idx = 1 \/ ctl.idx < Len(ctl.path))
  BY <1>1 DEF Follows, OnPath, Follower
<1>0. route.origin \in Int /\ mission.origin \in Int /\ Executed.origin \in Int
  BY <1>1 DEF PlansOK, Executed, Executes
<1> DEFINE steered == Aim(Executed.origin) - (Executed.origin - Held.origin)
<1>3. ASSUME owner = "route"
      PROVE  /\ steered \in Places(route.wps)
             /\ Executes = "route" => Aim(Executed.origin) \in Places(route.wps)
  <2>1. /\ Len(ctl.path) = Len(route.wps) + 1 /\ route.wps # <<>>
        /\ \A k \in 1..Len(route.wps) : ctl.path[k + 1].at = route.wps[k].at - route.origin
    BY <1>1, <1>3 DEF HoldsRoute
  <2>2. route.wps \in Seq(Waypoints) /\ route.origin \in Int
    BY <1>1 DEF PlansOK
  <2>3. ctl.idx \in 1..Len(route.wps)
    BY <1>2, <2>1, <2>2, EmptySeq
  <2>4. ctl.path[ctl.idx + 1].at = route.wps[ctl.idx].at - route.origin
    BY <2>1, <2>3
  <2>5. route.wps[ctl.idx].at \in Int
    <3>1. route.wps[ctl.idx] \in Waypoints
      BY <2>2, <2>3
    <3> QED  BY <3>1, MissionNumbers DEF Waypoints
  <2>6. steered = route.wps[ctl.idx].at
    BY <1>0, <1>3, <2>4, <2>5 DEF Aim, Held
  <2>7. Executes = "route" => Aim(Executed.origin) = route.wps[ctl.idx].at
    BY <1>0, <2>4, <2>5 DEF Aim, Executed
  <2> QED  BY <2>2, <2>3, <2>6, <2>7 DEF Places
<1>4. ASSUME mission.loaded, owner = "mission", Len(ctl.path) > 1
      PROVE  /\ steered \in Places(mission.wps)
             /\ Executes = "mission" => Aim(Executed.origin) \in Places(mission.wps)
  <2>1. /\ Len(ctl.path) = Len(mission.wps)
        /\ \A k \in 1..Len(mission.wps) : ctl.path[k].at = mission.wps[k].at - mission.origin
    BY <1>1, <1>4 DEF HoldsMission
  <2>2. mission.wps \in Seq(Waypoints) /\ mission.origin \in Int
    BY <1>1 DEF PlansOK
  <2>3. ctl.idx + 1 \in 1..Len(mission.wps)
    BY <1>2, <1>4, <2>1
  <2>4. ctl.path[ctl.idx + 1].at = mission.wps[ctl.idx + 1].at - mission.origin
    BY <2>1, <2>3
  <2>5. mission.wps[ctl.idx + 1].at \in Int
    <3>1. mission.wps[ctl.idx + 1] \in Waypoints
      BY <2>2, <2>3
    <3> QED  BY <3>1, MissionNumbers DEF Waypoints
  <2>6. steered = mission.wps[ctl.idx + 1].at
    BY <1>0, <1>4, <2>4, <2>5 DEF Aim, Held
  <2>7. Executes = "mission" => Aim(Executed.origin) = mission.wps[ctl.idx + 1].at
    BY <1>0, <2>4, <2>5 DEF Aim, Executed
  <2> QED  BY <2>2, <2>3, <2>6, <2>7 DEF Places
<1>5. owner \in {"none", "route", "mission"}
  BY DEF MissionInv, CourseOK
<1> QED  BY <1>3, <1>4, <1>5 DEF SteersToItsPlan, Held, Executed

LEMMA NothingIsSkipped == MissionInv => NoWaypointSkipped
BY DEF MissionInv, Follows, NoWaypointSkipped

(* A route turns round as a whole.                                            *)
LEMMA WholeTurns ==
    ASSUME MissionInv, [MissionNext]_missionVars,
           route.active, route'.active, route.forward # route'.forward, orders' = orders
    PROVE  /\ route'.wps = Reverse(route.wps)
           /\ route'.origin \in {route.wps[1].at, route.wps[Len(route.wps)].at}
<1>1. PlansOK /\ orders \in Nat
  BY DEF MissionInv, CourseOK
<1>2. route \in [active : BOOLEAN, wps : Seq(Waypoints), origin : Int,
                 completion : CompletionModes, forward : BOOLEAN]
  BY <1>1 DEF PlansOK
<1>3. TurnRound
  <2>1. route' # route
    OBVIOUS
  <2>2. ~StopRoute
    BY <1>2 DEF StopRoute
  <2>3. ~(\E wps \in Plans, completion \in Completions, forward \in BOOLEAN :
            StartRoute(wps, completion, forward))
    BY <1>1 DEF StartRoute, Order
  <2>4. ~StopWpRoute /\ ~(\E wps \in Plans : UploadMission(wps)) /\ ~ClearMission
    BY <2>1, <2>2 DEF StopWpRoute, UploadMission, ClearMission
  <2>5. ~Arm /\ ~Disarm /\ ~Drift /\ ~MissionTick /\ ~(UNCHANGED missionVars)
    BY <2>1, <2>2 DEF Arm, Disarm, Drift, MissionTick, missionVars, plans
  <2>6. ~(\E m \in Modes : SetMode(m) \/ HeartbeatMode(m))
    BY <2>1, <2>2 DEF SetMode, HeartbeatMode, LeaveRouteFor
  <2>7. RouteTick
    BY <2>1, <2>3, <2>4, <2>5, <2>6 DEF MissionNext
  <2> QED  BY <2>1, <2>2, <2>7 DEF RouteTick, Repeat
<1>4. route' = [route EXCEPT !.wps = Reverse(route.wps), !.forward = ~@]
  BY <1>3 DEF TurnRound
<1>5. route'.wps = Reverse(route.wps) /\ route'.origin = route.origin
  BY <1>2, <1>4
<1> QED  BY <1>1, <1>5 DEF PlansOK

(* A table of sums exists, whatever the lengths it adds up.                   *)
LEMMA SumsExist ==
    ASSUME NEW n \in Nat, NEW legs \in [1..n -> Int]
    PROVE  \E f \in [1..n -> Int] : f = [i \in 1..n |-> IF i = 1 THEN 0 ELSE f[i - 1] + legs[i]]
<1> DEFINE Sums(f, m) == \A i \in 1..m : f[i] = IF i = 1 THEN 0 ELSE f[i - 1] + legs[i]
           T == {m \in Nat : m <= n => \E f \in [1..m -> Int] : Sums(f, m)}
<1>1. 0 \in T
  <2> DEFINE f == [i \in 1..0 |-> 0]
  <2>1. f \in [1..0 -> Int] /\ Sums(f, 0)
    OBVIOUS
  <2> QED  BY <2>1
<1>2. ASSUME NEW m \in T PROVE m + 1 \in T
  <2> SUFFICES ASSUME m + 1 <= n PROVE \E f \in [1..(m + 1) -> Int] : Sums(f, m + 1)
    OBVIOUS
  <2>1. PICK f \in [1..m -> Int] : Sums(f, m)
    OBVIOUS
  <2> DEFINE last == IF m = 0 THEN 0 ELSE f[m] + legs[m + 1]
             g == [i \in 1..(m + 1) |-> IF i = m + 1 THEN last ELSE f[i]]
  <2>2. last \in Int
    <3>1. m + 1 \in 1..n
      OBVIOUS
    <3> QED  BY <3>1
  <2>3. g \in [1..(m + 1) -> Int]
    BY <2>2
  <2>4. ASSUME NEW i \in 1..(m + 1)
        PROVE  g[i] = IF i = 1 THEN 0 ELSE g[i - 1] + legs[i]
    <3>1. CASE i = m + 1
      BY <3>1
    <3>2. CASE i # m + 1
      <4>1. i \in 1..m /\ g[i] = f[i] /\ (i # 1 => g[i - 1] = f[i - 1])
        BY <3>2
      <4> QED  BY <2>1, <4>1
    <3> QED  BY <3>1, <3>2
  <2> QED  BY <2>3, <2>4
<1>3. T = Nat
  <2> HIDE DEF T
  <2>1. T \in SUBSET Nat
    BY DEF T
  <2> QED  BY <1>1, <1>2, <2>1, SetInduction
<1>4. PICK f \in [1..n -> Int] : Sums(f, n)
  <2>1. n \in T
    BY <1>3
  <2> QED  BY <2>1
<1>5. f = [i \in 1..n |-> IF i = 1 THEN 0 ELSE f[i - 1] + legs[i]]
  BY <1>4
<1> QED  BY <1>5

(* _compute_cum_dist adds up the lengths between the waypoints.               *)
LEMMA CumDistSums ==
    ASSUME NEW wps \in Seq(Waypoints)
    PROVE  /\ CumDist(wps) \in Seq(Int) /\ Len(CumDist(wps)) = Len(wps)
           /\ \A i \in 2..Len(wps) :
                CumDist(wps)[i] = CumDist(wps)[i - 1] + Dist(wps[i - 1].at, wps[i].at)
<1> DEFINE n == Len(wps)
           legs == [i \in 1..n |-> IF i = 1 THEN 0 ELSE Dist(wps[i - 1].at, wps[i].at)]
           Entry(f, i) == IF i = 1 THEN 0 ELSE f[i - 1] + Dist(wps[i - 1].at, wps[i].at)
           cum == CHOOSE f : f = [i \in 1..n |-> Entry(f, i)]
<1>1. n \in Nat /\ DOMAIN wps = 1..n /\ \A i \in 1..n : wps[i] \in Waypoints
  OBVIOUS
<1>2. \A i \in 1..n : wps[i].at \in Int
  BY <1>1, MissionNumbers DEF Waypoints
<1>3. \A i \in 2..n : Dist(wps[i - 1].at, wps[i].at) \in Nat
  <2> SUFFICES ASSUME NEW i \in 2..n PROVE Dist(wps[i - 1].at, wps[i].at) \in Nat
    OBVIOUS
  <2>1. i \in 1..n /\ i - 1 \in 1..n
    BY <1>1
  <2> QED  BY <1>2, <2>1, DistIsNatural
<1>4. legs \in [1..n -> Int]
  BY <1>1, <1>3
<1>5. \A i \in 1..n : i # 1 => legs[i] = Dist(wps[i - 1].at, wps[i].at)
  OBVIOUS
<1> HIDE DEF legs
<1>6. PICK f \in [1..n -> Int] : f = [i \in 1..n |-> IF i = 1 THEN 0 ELSE f[i - 1] + legs[i]]
  BY <1>1, <1>4, SumsExist
<1>7. f = [i \in 1..n |-> Entry(f, i)]
  <2>1. \A i \in 1..n : f[i] = IF i = 1 THEN 0 ELSE f[i - 1] + legs[i]
    BY <1>6
  <2>2. \A i \in 1..n : f[i] = Entry(f, i)
    BY <1>5, <2>1
  <2> QED  BY <1>6, <2>2
<1>8. cum = [i \in 1..n |-> Entry(cum, i)]
  BY <1>7
<1>9. CumDist(wps) = cum
  BY <1>1 DEF CumDist
<1> HIDE DEF cum
<1> DEFINE T == {m \in Nat : m + 1 <= n => cum[m + 1] \in Int}
<1>10. 0 \in T
  BY <1>1, <1>8
<1>11. ASSUME NEW m \in T PROVE m + 1 \in T
  <2> SUFFICES ASSUME (m + 1) + 1 <= n PROVE cum[(m + 1) + 1] \in Int
    OBVIOUS
  <2>1. m + 1 \in 1..n /\ (m + 1) + 1 \in 2..n /\ cum[m + 1] \in Int
    BY <1>1
  <2>2. cum[(m + 1) + 1] = cum[m + 1] + Dist(wps[m + 1].at, wps[(m + 1) + 1].at)
    BY <1>1, <1>8, <2>1
  <2>3. Dist(wps[m + 1].at, wps[(m + 1) + 1].at) \in Nat
    <3>1. m + 1 \in 1..n /\ (m + 1) + 1 \in 1..n
      BY <2>1
    <3> QED  BY <1>2, <3>1, DistIsNatural
  <2> QED  BY <2>1, <2>2, <2>3
<1>12. T = Nat
  <2> HIDE DEF T
  <2>1. T \in SUBSET Nat
    BY DEF T
  <2> QED  BY <1>10, <1>11, <2>1, SetInduction
<1>13. \A i \in 1..n : cum[i] \in Int
  <2> SUFFICES ASSUME NEW i \in 1..n PROVE cum[i] \in Int
    OBVIOUS
  <2>1. i - 1 \in Nat /\ (i - 1) + 1 = i /\ i <= n
    BY <1>1
  <2>2. i - 1 \in T
    <3> HIDE DEF T
    <3> QED  BY <1>12, <2>1
  <2> QED  BY <2>1, <2>2
<1>14. cum \in [1..n -> Int]
  BY <1>8, <1>13
<1>15. cum \in Seq(Int) /\ Len(cum) = n
  BY <1>1, <1>14
<1>16. \A i \in 2..n : cum[i] = cum[i - 1] + Dist(wps[i - 1].at, wps[i].at)
  BY <1>1, <1>8
<1> QED  BY <1>9, <1>15, <1>16

LEMMA DistShifts ==
    ASSUME NEW a \in Int, NEW b \in Int, NEW z \in Int
    PROVE  Dist(a - z, b - z) = Dist(a, b)
BY DEF Dist

(* What lies beyond the next waypoint is the difference of two table entries. *)
LEMMA RestIsTabled ==
    ASSUME NEW wps \in Seq(Waypoints), wps # <<>>, NEW zero \in Int, NEW pos \in Int,
           NEW c, OnPath(c), Len(c.path) = Len(wps) + 1,
           \A k \in 1..Len(wps) : c.path[k + 1].at = wps[k].at - zero
    PROVE  /\ c.idx \in 1..Len(wps)
           /\ CumDist(wps)[Len(wps)] - CumDist(wps)[c.idx] \in Nat
           /\ RestOfPath(c, pos)
              = NextLeg(c, pos) + (CumDist(wps)[Len(wps)] - CumDist(wps)[c.idx])
<1> DEFINE n == Len(wps)
           cum == CumDist(wps)
           Entry(f, i) == IF i = Len(c.path) THEN 0
                          ELSE Dist(c.path[i].at, c.path[i + 1].at) + f[i + 1]
           rest == CHOOSE f : f = [i \in DOMAIN c.path |-> Entry(f, i)]
<1>1. n \in Nat \ {0} /\ \A i \in 1..n : wps[i] \in Waypoints
  BY EmptySeq
<1>2. /\ c.path \in Seq(Points) /\ c.idx \in Nat \ {0} /\ DOMAIN c.path = 1..(n + 1)
      /\ (c.idx = 1 \/ c.idx < n + 1)
  BY DEF OnPath, Follower
<1>3. c.idx \in 1..n
  BY <1>1, <1>2
<1>4. \A i \in 1..n : wps[i].at \in Int
  BY <1>1, MissionNumbers DEF Waypoints
<1>5. \A k \in 2..n : Dist(c.path[k].at, c.path[k + 1].at) = Dist(wps[k - 1].at, wps[k].at)
  <2> SUFFICES ASSUME NEW k \in 2..n
               PROVE  Dist(c.path[k].at, c.path[k + 1].at) = Dist(wps[k - 1].at, wps[k].at)
    OBVIOUS
  <2>1. k \in 1..n /\ k - 1 \in 1..n /\ (k - 1) + 1 = k
    BY <1>1
  <2>2. c.path[(k - 1) + 1].at = wps[k - 1].at - zero /\ c.path[k + 1].at = wps[k].at - zero
    BY <2>1
  <2>3. wps[k - 1].at \in Int /\ wps[k].at \in Int
    BY <1>4, <2>1
  <2>4. c.path[k].at = wps[k - 1].at - zero
    BY <2>1, <2>2
  <2> QED  BY <2>2, <2>3, <2>4, DistShifts
<1>6. \A k \in 2..n : Dist(wps[k - 1].at, wps[k].at) \in Nat
  <2> SUFFICES ASSUME NEW k \in 2..n PROVE Dist(wps[k - 1].at, wps[k].at) \in Nat
    OBVIOUS
  <2>1. k \in 1..n /\ k - 1 \in 1..n
    BY <1>1
  <2> QED  BY <1>4, <2>1, DistIsNatural
<1>7. /\ cum \in Seq(Int) /\ Len(cum) = n
      /\ \A k \in 2..n : cum[k] = cum[k - 1] + Dist(wps[k - 1].at, wps[k].at)
  BY CumDistSums
<1> HIDE DEF cum
<1>8. \A k \in 1..n : cum[k] \in Int
  BY <1>7
<1>9. \A k \in 2..n : cum[k] = cum[k - 1] + Dist(c.path[k].at, c.path[k + 1].at)
  BY <1>5, <1>7
<1>10. rest = [i \in 1..(n + 1) |-> Entry(rest, i)]
  <2> DEFINE first == Dist(c.path[1].at, c.path[2].at)
             g == [i \in 1..(n + 1) |-> IF i = 1 THEN first + (cum[n] - cum[1])
                                        ELSE cum[n] - cum[i - 1]]
  <2>1. ASSUME NEW i \in 1..(n + 1) PROVE g[i] = Entry(g, i)
    <3>1. CASE i = n + 1
      <4>1. i # 1 /\ i - 1 = n /\ cum[n] \in Int
        BY <1>1, <1>8, <3>1
      <4> QED  BY <3>1, <4>1
    <3>2. CASE i = 1
      <4>1. i # n + 1 /\ 2 \in 1..(n + 1) /\ 2 - 1 = 1
        BY <1>1, <3>2
      <4>2. g[2] = cum[n] - cum[1] /\ g[1] = first + (cum[n] - cum[1])
        BY <4>1
      <4> QED  BY <1>1, <3>2, <4>1, <4>2
    <3>3. CASE i \in 2..n
      <4>1. i # n + 1 /\ i # 1 /\ i + 1 \in 1..(n + 1) /\ i + 1 # 1 /\ (i + 1) - 1 = i
        BY <1>1, <3>3
      <4>2. g[i] = cum[n] - cum[i - 1] /\ g[i + 1] = cum[n] - cum[i]
        BY <4>1
      <4>3. /\ cum[i] = cum[i - 1] + Dist(c.path[i].at, c.path[i + 1].at)
            /\ Dist(c.path[i].at, c.path[i + 1].at) \in Int
        <5>1. Dist(c.path[i].at, c.path[i + 1].at) = Dist(wps[i - 1].at, wps[i].at)
          BY <1>5, <3>3
        <5>2. Dist(wps[i - 1].at, wps[i].at) \in Nat
          BY <1>6, <3>3
        <5>3. cum[i] = cum[i - 1] + Dist(c.path[i].at, c.path[i + 1].at)
          BY <1>9, <3>3
        <5> QED  BY <5>1, <5>2, <5>3
      <4>4. cum[i] \in Int /\ cum[i - 1] \in Int /\ cum[n] \in Int
        <5>1. i \in 1..n /\ i - 1 \in 1..n /\ n \in 1..n
          BY <1>1, <3>3
        <5> QED  BY <1>8, <5>1
      <4>5. Entry(g, i) = Dist(c.path[i].at, c.path[i + 1].at) + g[i + 1]
        BY <4>1
      <4> HIDE DEF g, Entry
      <4> QED  BY <4>2, <4>3, <4>4, <4>5
    <3>4. i = n + 1 \/ i = 1 \/ i \in 2..n
      BY <1>1
    <3> QED  BY <3>1, <3>2, <3>3, <3>4
  <2>2. g = [i \in DOMAIN c.path |-> Entry(g, i)]
    BY <1>2, <2>1, ZenonT(40)
  <2> HIDE DEF g
  <2> QED  BY <1>2, <2>2
<1>11. RestOfPath(c, pos) = Dist(pos, c.path[c.idx + 1].at) + rest[c.idx + 1]
  BY DEF RestOfPath
<1> HIDE DEF rest
<1> DEFINE T == {m \in Nat : m < n => /\ rest[(n - m) + 1] = cum[n] - cum[n - m]
                                     /\ cum[n] - cum[n - m] \in Nat}
<1>12. 0 \in T
  <2>1. (n - 0) + 1 \in 1..(n + 1) /\ (n - 0) + 1 = n + 1 /\ cum[n] \in Int /\ n - 0 = n
    BY <1>1, <1>8
  <2>2. rest[n + 1] = 0
    BY <1>10, <2>1
  <2> QED  BY <2>1, <2>2
<1>13. ASSUME NEW m \in T PROVE m + 1 \in T
  <2> SUFFICES ASSUME m + 1 < n
               PROVE  /\ rest[(n - (m + 1)) + 1] = cum[n] - cum[n - (m + 1)]
                      /\ cum[n] - cum[n - (m + 1)] \in Nat
    OBVIOUS
  <2> DEFINE k == n - m
  <2>1. m \in Nat /\ k \in 2..n /\ (n - (m + 1)) + 1 = k /\ n - (m + 1) = k - 1
    BY <1>1
  <2>2. rest[k + 1] = cum[n] - cum[k] /\ cum[n] - cum[k] \in Nat
    BY <2>1
  <2> HIDE DEF k, T
  <2>3. k \in 1..(n + 1) /\ k # n + 1 /\ k - 1 \in 1..n /\ k \in 1..n /\ n \in 1..n
    BY <1>1, <2>1
  <2>4. rest[k] = Dist(c.path[k].at, c.path[k + 1].at) + rest[k + 1]
    BY <1>10, <2>3
  <2>5. Dist(c.path[k].at, c.path[k + 1].at) \in Nat
    BY <1>5, <1>6, <2>1
  <2>6. cum[k] \in Int /\ cum[k - 1] \in Int /\ cum[n] \in Int
    BY <1>8, <2>3
  <2>7. cum[k] = cum[k - 1] + Dist(c.path[k].at, c.path[k + 1].at)
    BY <1>9, <2>1
  <2>8. rest[k] = cum[n] - cum[k - 1] /\ cum[n] - cum[k - 1] \in Nat
    BY <2>2, <2>4, <2>5, <2>6, <2>7
  <2> QED  BY <2>1, <2>8
<1>14. T = Nat
  <2> HIDE DEF T
  <2>1. T \in SUBSET Nat
    BY DEF T
  <2> QED  BY <1>12, <1>13, <2>1, SetInduction
<1>15. rest[c.idx + 1] = cum[n] - cum[c.idx] /\ cum[n] - cum[c.idx] \in Nat
  <2>1. n - c.idx \in Nat /\ n - c.idx < n /\ n - (n - c.idx) = c.idx
    BY <1>1, <1>3
  <2>2. n - c.idx \in T
    <3> HIDE DEF T
    <3> QED  BY <1>14, <2>1
  <2> QED  BY <2>1, <2>2
<1>16. NextLeg(c, pos) = Dist(pos, c.path[c.idx + 1].at)
  <2>1. ~(Len(c.path) < 2)
    BY <1>1
  <2> QED  BY <2>1 DEF NextLeg
<1> QED  BY <1>3, <1>11, <1>15, <1>16 DEF cum

(* The remaining distance is the length of the path not yet sailed.           *)
LEMMA WhatRemains == MissionInv => RemainingIsTrue
<1> SUFFICES ASSUME MissionInv, route.active, owner = "route"
             PROVE  RemainingOf(Updated(ctl, boat - route.origin), boat - route.origin)
                    \in {-1, RestOfPath(Updated(ctl, boat - route.origin), boat - route.origin)}
  BY DEF RemainingIsTrue
<1> DEFINE pos == boat - route.origin
           c == Updated(ctl, pos)
           n == Len(route.wps)
<1>1. CourseOK /\ PlansOK /\ Follows /\ HoldsRoute
  BY DEF MissionInv
<1>2. /\ route.wps \in Seq(Waypoints) /\ route.wps # <<>> /\ route.origin \in Int
      /\ cumDist = CumDist(route.wps) /\ Len(ctl.path) = Len(route.wps) + 1
      /\ \A k \in 1..Len(route.wps) : ctl.path[k + 1].at = route.wps[k].at - route.origin
  BY <1>1 DEF PlansOK, HoldsRoute
<1>3. pos \in Int
  <2>1. boat \in 0..Shore /\ 0..Shore \subseteq Int
    BY <1>1, MissionNumbers DEF CourseOK
  <2> QED  BY <1>2, <2>1
<1> HIDE DEF pos
<1>4. OnPath(c) /\ c.path = ctl.path
  <2>1. OnPath(ctl)
    BY <1>1 DEF Follows
  <2> QED  BY <1>3, <2>1, UpdatedFollows
<1> HIDE DEF c
<1> DEFINE cum == CumDist(route.wps)
           left == cum[n] - cum[c.idx]
<1>5. c.idx \in 1..n /\ left \in Nat /\ RestOfPath(c, pos) = NextLeg(c, pos) + left
  <2>1. Len(c.path) = Len(route.wps) + 1
    BY <1>2, <1>4
  <2>2. \A k \in 1..Len(route.wps) : c.path[k + 1].at = route.wps[k].at - route.origin
    BY <1>2, <1>4
  <2> QED  BY <1>2, <1>3, <1>4, <2>1, <2>2, RestIsTabled, ZenonT(40)
<1>6. Len(cumDist) = n
  BY <1>2, CumDistSums
<1>7. Max({0, left}) = left
  <2> HIDE DEF left
  <2> QED  BY <1>5, MaxOfTwo
<1>8. RemainingOf(c, pos) = IF cum[n] > 0 /\ c.idx <= n THEN NextLeg(c, pos) + left ELSE -1
  BY <1>2, <1>6, <1>7 DEF RemainingOf
<1> QED  BY <1>5, <1>8 DEF c, pos

-----------------------------------------------------------------------------
(* The run's specification: one component moves, the others rest.             *)
GuidanceInv == MissionInv /\ StationInv /\ TuneInv /\ HeadingTypeOK /\ SightInv

LEMMA TuneInitInv == TuningInit => TuneInv
<1> SUFFICES ASSUME TuningInit PROVE TuneInv
  OBVIOUS
<1>1. TuningTypeOK
  BY DefaultsType DEF TuningInit, TuningTypeOK
<1> QED  BY <1>1 DEF TuningInit, TuneInv, OneCruise

LEMMA TuneNextInv == TuneInv /\ [TuningNext]_tuningVars => TuneInv'
<1> SUFFICES ASSUME TuneInv, [TuningNext]_tuningVars PROVE TuneInv'
  OBVIOUS
<1>1. ASSUME NEW c \in Cruises, NEW t \in Thresholds,
             HeartbeatConfig([cruise |-> c, threshold |-> t])
      PROVE  TuneInv'
  BY <1>1, HeartbeatInv
<1> QED  BY <1>1, SetInv, TuneStartInv, EndInv DEF TuningNext

(* A step of the whole is a step of each component or leaves it alone.        *)
LEMMA GuidanceSteps ==
    ASSUME [Next]_vars
    PROVE  /\ [MissionNext]_missionVars /\ [StationNext]_stationVars
           /\ [TuningNext]_tuningVars /\ [HeadingNext]_headingVars /\ [SightNext]_sightVars
<1>1. CASE OfMission
  BY <1>1 DEF OfMission
<1>2. CASE OfStation
  BY <1>2 DEF OfStation
<1>3. CASE OfTuning
  BY <1>3 DEF OfTuning
<1>4. CASE OfHeading
  BY <1>4 DEF OfHeading
<1>5. CASE OfSight
  BY <1>5 DEF OfSight
<1>6. CASE UNCHANGED vars
  BY <1>6 DEF vars
<1> QED  BY <1>1, <1>2, <1>3, <1>4, <1>5, <1>6 DEF Next

(* The inductive invariant of guidance, component by component.               *)
THEOREM GuidanceInvHolds == Spec => []GuidanceInv
<1>1. Init => GuidanceInv
  BY MissionInitInv, StationInitInv, TuneInitInv, HeadingInitInv, SightInitInv
     DEF Init, GuidanceInv
<1>2. GuidanceInv /\ [Next]_vars => GuidanceInv'
  <2> SUFFICES ASSUME GuidanceInv, [Next]_vars PROVE GuidanceInv'
    OBVIOUS
  <2>1. MissionInv' /\ StationInv' /\ TuneInv' /\ HeadingTypeOK'
    BY GuidanceSteps, MissionNextInv, StationNextInv, TuneNextInv, HeadingNextInv
       DEF GuidanceInv
  <2>2. SightInv'
    BY GuidanceSteps, SightSteps DEF GuidanceInv
  <2> QED  BY <2>1, <2>2 DEF GuidanceInv
<1> QED  BY <1>1, <1>2, PTL DEF Spec

(* The follower stays on its path, the force within the cruise force, the     *)
(* keeper, the tuning, the heading reference and the aim within their ranges, *)
(* for plans of any length and any radii (gnc/autopilot.py, gnc/process.py).  *)
THEOREM GuidanceTypeHolds == Spec => []TypesHold
<1>1. GuidanceInv => TypesHold
  BY CourseIsOnPath DEF GuidanceInv, TypesHold, StationInv, TuneInv, SightInv
<1> QED  BY <1>1, GuidanceInvHolds, PTL

(* Whoever set the cruise speed last, gnc_config and the controllers that run *)
(* agree on it (gnc/process.py, _apply_gnc_config).                           *)
THEOREM OneCruiseHolds == Spec => []OneCruise
<1>1. GuidanceInv => OneCruise
  BY DEF GuidanceInv, TuneInv
<1> QED  BY <1>1, GuidanceInvHolds, PTL

(* The steps a route may take when it turns round.                            *)
TurnStep ==
    route.active /\ route'.active /\ route.forward # route'.forward /\ orders' = orders
    => route'.wps = Reverse(route.wps)
       /\ route'.origin \in {route.wps[1].at, route.wps[Len(route.wps)].at}

(* A plan is executed as it was sent, for any plans, in any order of commands:*)
(* every waypoint of it, measured to its true end, turned round as a whole,   *)
(* towards the places of the plan last loaded, moved by the distance of its   *)
(* frame from that of the plan executed when the two are not one              *)
(* (GNCController, _handle_wp_route_completion).                              *)
THEOREM PlanIsKeptHolds == Spec => PlanIsKept
<1>1. GuidanceInv => SteersToItsPlan /\ NoWaypointSkipped /\ RemainingIsTrue
  BY PlanIsSteered, NothingIsSkipped, WhatRemains DEF GuidanceInv
<1>2. GuidanceInv /\ [Next]_vars => [TurnStep]_missionVars
  BY GuidanceSteps, WholeTurns DEF GuidanceInv, TurnStep
<1>3. TurnsRound <=> [][TurnStep]_missionVars
  BY DEF TurnsRound, TurnStep
<1>4. Spec => []SteersToItsPlan /\ []NoWaypointSkipped /\ []RemainingIsTrue
  BY <1>1, GuidanceInvHolds, PTL
<1>5. Spec => [][TurnStep]_missionVars
  BY <1>2, GuidanceInvHolds, PTL DEF Spec
<1> QED  BY <1>3, <1>4, <1>5 DEF PlanIsKept

(* The steps of a station with a hysteresis, and of an aim on its leg.        *)
RingStep ==
    keeper.on /\ keeper'.on /\ starts' = starts
        /\ keeper.state = IDLE /\ keeper'.state = APPROACHING
    => Distance - Away(turnedAt, keeper.at) > keeper.radii.station - keeper.radii.reaching

RestStep ==
    StationTick /\ Distance < keeper.radii.reaching => thrust' = 0 \/ BackFromInside

AimStep == leg' = leg => aim' >= aim

(* For any radii an idle boat is called back only when it has drifted across  *)
(* the whole ring; inside the reaching radius it is driven only by the turn   *)
(* that calls it back across a smaller station radius; and the aim of a leg is*)
(* ahead and never moves back (StationKeeper.step, ALOSpathFollowing).        *)
THEOREM MotionIsSteadyHolds == Spec => MotionIsSteady
<1>1. GuidanceInv => AimIsAhead
  BY SightIsAhead DEF GuidanceInv
<1>2. GuidanceInv /\ [Next]_vars => [RingStep]_stationVars /\ [RestStep]_stationVars
  BY GuidanceSteps, StationSteps DEF GuidanceInv, RingStep, RestStep
<1>3. GuidanceInv /\ [Next]_vars => [AimStep]_sightVars
  BY GuidanceSteps, SightSteps DEF GuidanceInv, AimStep
<1>4. /\ CrossesTheRing <=> [][RingStep]_stationVars
      /\ InsideRests <=> [][RestStep]_stationVars
      /\ AimNeverReturns <=> [][AimStep]_sightVars
  BY DEF CrossesTheRing, InsideRests, AimNeverReturns, RingStep, RestStep, AimStep
<1>5. Spec => []AimIsAhead
  BY <1>1, GuidanceInvHolds, PTL
<1>6. Spec => [][RingStep]_stationVars /\ [][RestStep]_stationVars /\ [][AimStep]_sightVars
  BY <1>2, <1>3, GuidanceInvHolds, PTL DEF Spec
<1> QED  BY <1>4, <1>5, <1>6 DEF MotionIsSteady
=============================================================================
