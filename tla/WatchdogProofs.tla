---------------------------- MODULE WatchdogProofs ----------------------------
(* What the supervisor guarantees for any catalogue, any limits and any       *)
(* jitter of its ticks up to MaxStep.                                         *)
EXTENDS Watchdog, FiniteSetTheorems, TLAPS

(* Every dead service is at a known stage of its way back: found at the next  *)
(* check, or waiting for the rest of its delay, or given up.                  *)
Stage(s) ==
    /\ s \in gaveUp => ~alive[s] /\ s \notin pending
    /\ s \in pending =>
        ~alive[s] /\ due[s] >= 1 /\ down[s] + due[s] <= MaxBackoff + MaxStep
    /\ ~alive[s] /\ s \notin gaveUp \union pending =>
        down[s] <= (IF half = "restart" THEN 0 ELSE MaxStep)

IInv == WatchdogTypeOK /\ \A s \in Services : Stage(s)

-----------------------------------------------------------------------------
(* Ageing a set of ages keeps it within its limit.                            *)
LEMMA AgedType ==
    ASSUME NEW limit \in Nat, NEW ages \in SUBSET Nat, NEW d \in Nat
    PROVE  AgedBy(ages, d, limit) \in SUBSET (0..(limit - 1))
BY DEF AgedBy

(* A delay is positive and never exceeds the longest one, nor does the next.  *)
LEMMA DelayType ==
    ASSUME WatchdogTypeOK, NEW s \in Services
    PROVE  Delay(s) \in 1..MaxBackoff /\ Doubled(Delay(s)) \in 0..MaxBackoff
<1>1. backoff[s] \in 0..MaxBackoff /\ MaxBackoff \in Nat \ {0}
  BY WatchdogAssumption DEF WatchdogTypeOK
<1>2. Delay(s) \in 1..MaxBackoff
  BY <1>1 DEF Delay
<1> QED  BY <1>1, <1>2 DEF Doubled

-----------------------------------------------------------------------------
(* A death starts the way back of a service that was alive.                   *)
LEMMA DiesInv ==
    ASSUME IInv, NEW z \in Services, Dies(z)
    PROVE  IInv'
<1> USE WatchdogAssumption
<1>1. WatchdogTypeOK'
  <2>1. 0 \in Ages
    BY DEF Ages
  <2> QED  BY <2>1 DEF IInv, WatchdogTypeOK, Dies
<1>2. ASSUME NEW s \in Services  PROVE Stage(s)'
  BY DEF IInv, WatchdogTypeOK, Dies, Stage
<1> QED  BY <1>1, <1>2 DEF IInv

(* The first half of a tick shortens every delay by what it adds to the time  *)
(* the service has been dead.                                                 *)
LEMMA RestartsInv ==
    ASSUME IInv, Restarts
    PROVE  IInv'
<1> USE WatchdogAssumption
<1>1. PICK d \in ClockSteps :
        /\ alive' = [s \in Services |-> alive[s] \/ s \in Due(d)]
        /\ pending' = pending \ Due(d)
        /\ due' = [s \in Services |-> IF due[s] <= d THEN 0 ELSE due[s] - d]
        /\ crashTimes' = [s \in Services |-> AgedBy(crashTimes[s], d, Window)]
        /\ deaths' = [s \in Services |-> AgedBy(deaths[s], d, Window + MaxStep + 1)]
        /\ spawns' = [s \in Services |-> AgedBy(spawns[s], d, Window)
                                          \union {0 : x \in Due(d) \intersect {s}}]
        /\ down' = [s \in Services |-> IF alive[s] \/ s \in Due(d) \union gaveUp
                                       THEN 0 ELSE down[s] + d]
  BY DEF Restarts
<1>2. d \in 1..MaxStep
  OBVIOUS
<1>3. WatchdogTypeOK'
  <2>1. ASSUME NEW s \in Services
        PROVE  /\ crashTimes[s] \in SUBSET Nat /\ deaths[s] \in SUBSET Nat
               /\ spawns[s] \in SUBSET Nat /\ due[s] \in 0..MaxBackoff /\ down[s] \in Nat
    BY DEF IInv, WatchdogTypeOK, Ages
  <2>2. alive' \in [Services -> BOOLEAN] /\ pending' \subseteq Services
    BY <1>1 DEF IInv, WatchdogTypeOK
  <2>3. due' \in [Services -> 0..MaxBackoff] /\ down' \in [Services -> Nat]
    BY <1>1, <1>2, <2>1
  <2>4. crashTimes' \in [Services -> SUBSET (0..(Window - 1))]
    BY <1>1, <1>2, <2>1, AgedType
  <2>5. deaths' \in [Services -> SUBSET Ages]
    <3>1. ASSUME NEW s \in Services
          PROVE  AgedBy(deaths[s], d, Window + MaxStep + 1) \in SUBSET Ages
      <4>1. AgedBy(deaths[s], d, Window + MaxStep + 1)
              \in SUBSET (0..((Window + MaxStep + 1) - 1))
        BY <1>2, <2>1, AgedType
      <4>2. (Window + MaxStep + 1) - 1 = Window + MaxStep
        OBVIOUS
      <4> QED  BY <4>1, <4>2 DEF Ages
    <3> QED  BY <1>1, <3>1
  <2>6. spawns' \in [Services -> SUBSET (0..(Window - 1))]
    <3>1. ASSUME NEW s \in Services
          PROVE  AgedBy(spawns[s], d, Window) \union {0 : x \in Due(d) \intersect {s}}
                   \in SUBSET (0..(Window - 1))
      <4>1. AgedBy(spawns[s], d, Window) \in SUBSET (0..(Window - 1))
        BY <1>2, <2>1, AgedType
      <4>2. 0 \in 0..(Window - 1)
        OBVIOUS
      <4> QED  BY <4>1, <4>2
    <3> QED  BY <1>1, <3>1
  <2>7. half' = "check" /\ backoff' = backoff /\ gaveUp' = gaveUp
    BY DEF Restarts
  <2> QED  BY <2>2, <2>3, <2>4, <2>5, <2>6, <2>7 DEF IInv, WatchdogTypeOK
<1>4. ASSUME NEW s \in Services  PROVE Stage(s)'
  <2>1. Stage(s) /\ due[s] \in 0..MaxBackoff /\ down[s] \in Nat /\ half = "restart"
    BY DEF IInv, WatchdogTypeOK, Restarts
  <2>2. half' = "check" /\ gaveUp' = gaveUp
    BY DEF Restarts
  <2>3. s \in Due(d) <=> s \in pending /\ due[s] <= d
    BY DEF Due, IInv, WatchdogTypeOK
  <2>4. /\ alive'[s] = (alive[s] \/ s \in Due(d))
        /\ s \in pending' <=> s \in pending /\ s \notin Due(d)
        /\ due'[s] = IF due[s] <= d THEN 0 ELSE due[s] - d
        /\ down'[s] = IF alive[s] \/ s \in Due(d) \union gaveUp THEN 0 ELSE down[s] + d
    BY <1>1
  <2>5. ASSUME s \in gaveUp'
        PROVE  ~alive'[s] /\ s \notin pending'
    BY <2>1, <2>2, <2>3, <2>4, <2>5 DEF Stage
  <2>6. ASSUME s \in pending'
        PROVE  ~alive'[s] /\ due'[s] >= 1 /\ down'[s] + due'[s] <= MaxBackoff + MaxStep
    <3>1. s \in pending /\ s \notin Due(d) /\ s \notin gaveUp /\ ~alive[s] /\ ~alive'[s]
      BY <2>1, <2>3, <2>4, <2>6 DEF Stage
    <3>2. ~(due[s] <= d) /\ due[s] >= 1 /\ down[s] + due[s] <= MaxBackoff + MaxStep
      BY <2>1, <2>3, <3>1 DEF Stage
    <3>3. due'[s] = due[s] - d /\ down'[s] = down[s] + d
      BY <2>4, <3>1, <3>2
    <3> QED  BY <1>2, <2>1, <3>1, <3>2, <3>3
  <2>7. ASSUME ~alive'[s], s \notin gaveUp' \union pending'
        PROVE  down'[s] <= MaxStep
    <3>1. ~alive[s] /\ s \notin Due(d) /\ s \notin gaveUp \union pending
      BY <2>2, <2>3, <2>4, <2>7
    <3>2. down[s] <= 0 /\ down'[s] = down[s] + d
      BY <2>1, <2>4, <3>1 DEF Stage
    <3> QED  BY <1>2, <2>1, <3>2
  <2> QED  BY <2>2, <2>5, <2>6, <2>7 DEF Stage
<1> QED  BY <1>3, <1>4 DEF IInv

(* The second half of a tick leaves no dead service unattended.               *)
LEMMA CheckInv ==
    ASSUME IInv, Check
    PROVE  IInv'
<1> USE WatchdogAssumption
<1>1. WatchdogTypeOK
  BY DEF IInv
<1>2. WatchdogTypeOK'
  <2>1. FoundDead \subseteq Services /\ Scheduled \subseteq FoundDead
    BY DEF FoundDead, Scheduled
  <2>2. /\ due' \in [Services -> 0..MaxBackoff]
        /\ backoff' \in [Services -> 0..MaxBackoff]
    BY <1>1, DelayType, SMTT(30) DEF Check, WatchdogTypeOK
  <2>3. crashTimes' \in [Services -> SUBSET (0..(Window - 1))]
    <3>1. 0 \in 0..(Window - 1)
      OBVIOUS
    <3> QED  BY <1>1, <3>1 DEF Check, WatchdogTypeOK, Counted
  <2>4. half' = "restart" /\ gaveUp' \subseteq Services /\ pending' \subseteq Services
    BY <1>1, <2>1 DEF Check, WatchdogTypeOK
  <2> QED  BY <1>1, <2>2, <2>3, <2>4, SMTT(30) DEF Check, WatchdogTypeOK
<1>3. ASSUME NEW s \in Services  PROVE Stage(s)'
  <2>1. Stage(s) /\ due[s] \in 0..MaxBackoff /\ down[s] \in Nat /\ half = "check"
    BY <1>1 DEF IInv, WatchdogTypeOK, Check
  <2>2. half' = "restart" /\ alive'[s] = alive[s] /\ down'[s] = down[s]
    BY DEF Check
  <2>3. s \in FoundDead <=> s \notin gaveUp \union pending /\ ~alive[s]
    BY DEF FoundDead
  <2>4. s \in Scheduled <=> s \in FoundDead /\ ~InCrashLoop(s)
    BY DEF Scheduled
  <2>5. /\ s \in gaveUp' <=> s \in gaveUp \/ (s \in FoundDead /\ InCrashLoop(s))
        /\ s \in pending' <=> s \in pending \/ s \in Scheduled
        /\ due'[s] = IF s \in Scheduled THEN Delay(s) ELSE due[s]
    BY DEF Check
  <2>6. Delay(s) \in 1..MaxBackoff
    BY <1>1, DelayType
  <2> QED  BY <2>1, <2>2, <2>3, <2>4, <2>5, <2>6 DEF Stage
<1> QED  BY <1>2, <1>3 DEF IInv

-----------------------------------------------------------------------------
(* The inductive invariant holds initially and in every step.                 *)
LEMMA InitInv == WatchdogInit => IInv
<1> USE WatchdogAssumption
<1> SUFFICES ASSUME WatchdogInit PROVE IInv
  OBVIOUS
<1>1. WatchdogTypeOK
  BY DEF WatchdogInit, WatchdogTypeOK
<1>2. ASSUME NEW s \in Services PROVE Stage(s)
  BY DEF WatchdogInit, Stage
<1> QED  BY <1>1, <1>2 DEF IInv

LEMMA NextInv == IInv /\ [WatchdogNext]_watchdogVars => IInv'
<1> SUFFICES ASSUME IInv, [WatchdogNext]_watchdogVars PROVE IInv'
  OBVIOUS
<1>1. CASE \E s \in Services : Dies(s)
  BY <1>1, DiesInv
<1>2. CASE Restarts
  BY <1>2, RestartsInv
<1>3. CASE Check
  BY <1>3, CheckInv
<1>4. CASE UNCHANGED watchdogVars
  BY <1>4 DEF IInv, WatchdogTypeOK, Stage, watchdogVars
<1> QED  BY <1>1, <1>2, <1>3, <1>4 DEF WatchdogNext

(* The supervisor's invariant, for every catalogue and every limit.           *)
THEOREM Supervised == WatchdogSpec => []IInv
BY InitInv, NextInv, PTL DEF WatchdogSpec

(* A dead service is back before the longest delay and a tick are over, or    *)
(* given up (main.py, _watchdog_tick).                                        *)
THEOREM PromptRestartHolds == WatchdogSpec => []PromptRestart
<1>1. IInv => PromptRestart
  <2> SUFFICES ASSUME IInv, NEW s \in Services \ gaveUp, ~alive[s]
               PROVE  down[s] < MaxBackoff + MaxStep
    BY DEF PromptRestart
  <2>1. Stage(s) /\ due[s] \in 0..MaxBackoff /\ down[s] \in Nat
    BY DEF IInv, WatchdogTypeOK
  <2> QED  BY <2>1, WatchdogAssumption DEF Stage
<1> QED  BY <1>1, Supervised, PTL

(* A service that was given up is never started again (main.py, _watchdog_tick: gave_up).           *)
THEOREM GivenUpStaysDownHolds == WatchdogSpec => GivenUpStaysDown
<1>1. IInv /\ [WatchdogNext]_watchdogVars => [\A s \in gaveUp : ~alive'[s]]_watchdogVars
  <2> SUFFICES ASSUME IInv, WatchdogNext, NEW z \in gaveUp PROVE ~alive'[z]
    OBVIOUS
  <2>1. z \in Services /\ ~alive[z] /\ z \notin pending
    BY DEF IInv, WatchdogTypeOK, Stage
  <2>2. CASE \E s \in Services : Dies(s)
    BY <2>1, <2>2 DEF Dies, IInv, WatchdogTypeOK
  <2>3. CASE Restarts
    BY <2>1, <2>3 DEF Restarts, Due
  <2>4. CASE Check
    BY <2>1, <2>4 DEF Check
  <2> QED  BY <2>2, <2>3, <2>4 DEF WatchdogNext
<1> QED  BY <1>1, Supervised, PTL DEF WatchdogSpec, GivenUpStaysDown

(* The delays and the crash lists of the supervisor are well typed, for any   *)
(* limits (main.py, _watchdog_tick).                                          *)
THEOREM WatchdogTypeHolds == WatchdogSpec => []WatchdogTypeOK
<1>1. IInv => WatchdogTypeOK
  BY DEF IInv
<1> QED  BY <1>1, Supervised, PTL

-----------------------------------------------------------------------------
(* Restarts within the window.  Between two restarts of a service lies the    *)
(* crash that was counted for the second one, so all restarts in the window   *)
(* but the latest have a counted crash of their own there, and so has the     *)
(* latest while the next one waits.                                           *)

(* Each restart has a crash of its own that is not older, or "none yet", for  *)
(* which Window stands: no counted crash is that old.                         *)
Paired(restarts, crashes) ==
    \E g \in [restarts -> crashes] :
        /\ \A a, b \in restarts : g[a] = g[b] => a = b
        /\ \A a \in restarts : g[a] = Window \/ g[a] <= a

Within(s) ==
    /\ Paired(spawns[s], crashTimes[s] \union {Window})
    /\ s \in pending => /\ Paired(spawns[s], crashTimes[s])
                        /\ Cardinality(crashTimes[s]) < MaxRestarts
    /\ half = "check" => 0 \notin crashTimes[s]
    /\ Cardinality(spawns[s]) <= MaxRestarts

AllWithin == \A s \in Services : Within(s)
WInv == WatchdogTypeOK /\ AllWithin

Young == SUBSET (0..(Window - 1))

LEMMA YoungFinite ==
    ASSUME NEW ages \in Young
    PROVE  IsFiniteSet(ages) /\ Cardinality(ages) \in Nat
<1>1. IsFiniteSet(0..(Window - 1))
  BY WatchdogAssumption, FS_Interval
<1>2. IsFiniteSet(ages)
  BY <1>1, FS_Subset DEF Young
<1> QED  BY <1>2, FS_CardinalityType

(* Ageing keeps pairs: a crash that is not older leaves the window later.     *)
LEMMA PairedAged ==
    ASSUME NEW restarts \in Young, NEW crashes \in SUBSET (0..Window), NEW d \in Nat,
           Paired(restarts, crashes), NEW later,
           \A t \in crashes : /\ t = Window => t \in later
                              /\ t + d < Window => t + d \in later
    PROVE  Paired(AgedBy(restarts, d, Window), later)
<1> USE WatchdogAssumption
<1>1. PICK g \in [restarts -> crashes] :
        /\ \A a, b \in restarts : g[a] = g[b] => a = b
        /\ \A a \in restarts : g[a] = Window \/ g[a] <= a
  BY DEF Paired
<1> DEFINE aged == AgedBy(restarts, d, Window)
           f == [x \in aged |-> IF g[x - d] = Window THEN Window ELSE g[x - d] + d]
<1>2. ASSUME NEW x \in aged
      PROVE  /\ x - d \in restarts /\ x \in Nat /\ x < Window
             /\ g[x - d] \in crashes /\ g[x - d] \in 0..Window
  <2>1. PICK b \in restarts : b + d < Window /\ x = b + d
    BY DEF AgedBy
  <2>2. b \in Nat
    BY DEF Young
  <2>3. x - d = b /\ x \in Nat
    BY <2>1, <2>2
  <2> QED  BY <2>1, <2>3
<1>3. ASSUME NEW x \in aged
      PROVE  /\ f[x] = IF g[x - d] = Window THEN Window ELSE g[x - d] + d
             /\ f[x] \in later /\ (f[x] = Window \/ f[x] <= x)
  BY <1>1, <1>2
<1>4. f \in [aged -> later]
  BY <1>3
<1>5. ASSUME NEW x \in aged, NEW y \in aged, f[x] = f[y]
      PROVE  x = y
  <2>1. CASE g[x - d] = Window /\ g[y - d] = Window
    BY <1>1, <1>2, <2>1
  <2>2. CASE g[x - d] # Window /\ g[y - d] # Window
    <3>1. g[x - d] + d = g[y - d] + d
      BY <1>3, <1>5, <2>2
    <3>2. g[x - d] = g[y - d]
      BY <1>2, <3>1
    <3> QED  BY <1>1, <1>2, <3>2
  <2>3. ASSUME NEW v \in aged, g[v - d] # Window
        PROVE  f[v] # Window
    BY <1>1, <1>2, <1>3, <2>3
  <2> QED  BY <1>3, <1>5, <2>1, <2>2, <2>3
<1> HIDE DEF f, aged
<1>6. Paired(aged, later)
  BY <1>3, <1>4, <1>5 DEF Paired
<1> QED  BY <1>6 DEF aged

(* A restart takes "none yet" when all earlier ones have a crash.             *)
LEMMA PairedSpawn ==
    ASSUME NEW restarts \in Young, NEW crashes \in Young, 0 \notin restarts,
           Paired(restarts, crashes)
    PROVE  Paired(restarts \union {0}, crashes \union {Window})
<1> USE WatchdogAssumption
<1>1. PICK g \in [restarts -> crashes] :
        /\ \A a, b \in restarts : g[a] = g[b] => a = b
        /\ \A a \in restarts : g[a] = Window \/ g[a] <= a
  BY DEF Paired
<1> DEFINE f == [a \in restarts \union {0} |-> IF a = 0 THEN Window ELSE g[a]]
<1>2. f \in [restarts \union {0} -> crashes \union {Window}]
  OBVIOUS
<1>3. f[0] = Window /\ \A a \in restarts : f[a] = g[a] /\ f[a] # Window
  BY DEF Young
<1> HIDE DEF f
<1> QED  BY <1>1, <1>2, <1>3 DEF Paired

(* A crash that is counted now belongs to the restart that has none yet.      *)
LEMMA PairedCrash ==
    ASSUME NEW restarts \in Young, NEW crashes \in Young, 0 \notin crashes,
           Paired(restarts, crashes \union {Window})
    PROVE  Paired(restarts, crashes \union {0})
<1> USE WatchdogAssumption
<1>1. PICK g \in [restarts -> crashes \union {Window}] :
        /\ \A a, b \in restarts : g[a] = g[b] => a = b
        /\ \A a \in restarts : g[a] = Window \/ g[a] <= a
  BY DEF Paired
<1> DEFINE f == [a \in restarts |-> IF g[a] = Window THEN 0 ELSE g[a]]
<1>2. f \in [restarts -> crashes \union {0}]
  OBVIOUS
<1>3. \A a \in restarts : f[a] = (IF g[a] = Window THEN 0 ELSE g[a])
  OBVIOUS
<1>4. \A a \in restarts : a \in Nat /\ (g[a] # Window => g[a] \in crashes /\ g[a] # 0)
  BY DEF Young
<1> HIDE DEF f
<1>5. \A a, b \in restarts : f[a] = f[b] => a = b
  BY <1>1, <1>3, <1>4
<1>6. \A a \in restarts : f[a] <= a
  BY <1>1, <1>3, <1>4
<1> QED  BY <1>2, <1>5, <1>6 DEF Paired

LEMMA PairedWeaker ==
    ASSUME NEW restarts, NEW crashes, NEW more, crashes \subseteq more,
           Paired(restarts, crashes)
    PROVE  Paired(restarts, more)
<1>1. PICK g \in [restarts -> crashes] :
        /\ \A a, b \in restarts : g[a] = g[b] => a = b
        /\ \A a \in restarts : g[a] = Window \/ g[a] <= a
  BY DEF Paired
<1>2. g \in [restarts -> more]
  OBVIOUS
<1> QED  BY <1>1, <1>2 DEF Paired

LEMMA PairedCount ==
    ASSUME NEW restarts \in Young, NEW crashes \in Young, Paired(restarts, crashes)
    PROVE  Cardinality(restarts) <= Cardinality(crashes)
<1>1. PICK g \in [restarts -> crashes] : \A a, b \in restarts : g[a] = g[b] => a = b
  BY DEF Paired
<1>2. g \in Injection(restarts, crashes)
  BY <1>1 DEF Injection, IsInjective
<1> QED  BY <1>2, YoungFinite, FS_Injection

LEMMA AgedCount ==
    ASSUME NEW ages \in Young, NEW d \in Nat
    PROVE  /\ AgedBy(ages, d, Window) \in Young
           /\ Cardinality(AgedBy(ages, d, Window)) <= Cardinality(ages)
<1> USE WatchdogAssumption
<1> DEFINE aged == AgedBy(ages, d, Window)
           f == [x \in aged |-> x - d]
<1>1. aged \in Young
  BY AgedType DEF Young
<1>2. \A x \in aged : x - d \in ages /\ x \in Nat
  BY DEF AgedBy, Young
<1>3. f \in Injection(aged, ages)
  BY <1>2 DEF Injection, IsInjective
<1> QED  BY <1>1, <1>3, YoungFinite, FS_Injection

LEMMA RestartsWithin ==
    ASSUME WInv, WatchdogTypeOK', Restarts, NEW s \in Services
    PROVE  Within(s)'
<1> USE WatchdogAssumption
<1>1. PICK d \in ClockSteps :
        /\ pending' = pending \ Due(d)
        /\ crashTimes' = [z \in Services |-> AgedBy(crashTimes[z], d, Window)]
        /\ spawns' = [z \in Services |-> AgedBy(spawns[z], d, Window)
                                          \union {0 : x \in Due(d) \intersect {z}}]
  BY DEF Restarts
<1>2. d \in Nat /\ d >= 1 /\ Window \in Nat
  OBVIOUS
<1> DEFINE S == spawns[s]
           C == crashTimes[s]
           S1 == AgedBy(S, d, Window)
           C1 == AgedBy(C, d, Window)
<1>3. S \in Young /\ C \in Young /\ Within(s)
  BY DEF WInv, AllWithin, WatchdogTypeOK, Young
<1>4. S1 \in Young /\ C1 \in Young /\ 0 \notin S1 /\ 0 \notin C1
  <2>1. S1 \in Young /\ C1 \in Young
    BY <1>2, <1>3, AgedCount
  <2>2. \A b \in S \union C : b \in Nat /\ b + d # 0
    BY <1>2, <1>3 DEF Young
  <2> QED  BY <2>1, <2>2 DEF AgedBy
<1>5. /\ Cardinality(S1) <= Cardinality(S) /\ Cardinality(C1) <= Cardinality(C)
      /\ Cardinality(S) \in Nat /\ Cardinality(C) \in Nat
      /\ Cardinality(S1) \in Nat /\ Cardinality(C1) \in Nat
  BY <1>2, <1>3, <1>4, AgedCount, YoungFinite
<1>6. crashTimes'[s] = C1 /\ spawns'[s] = S1 \union {0 : x \in Due(d) \intersect {s}}
  BY <1>1
<1>7. \A t \in C : t \in Nat /\ t # Window /\ (t + d < Window => t + d \in C1)
  BY <1>2, <1>3 DEF Young, AgedBy
<1>8. ASSUME Paired(S, C)  PROVE Paired(S1, C1)
  <2>1. C \in SUBSET (0..Window)
    BY <1>3 DEF Young
  <2> QED  BY <1>2, <1>3, <1>7, <1>8, <2>1, PairedAged
<1>9. Paired(S1, C1 \union {Window})
  <2>1. C \union {Window} \in SUBSET (0..Window)
    BY <1>3 DEF Young
  <2>2. Paired(S, C \union {Window})
    BY <1>3 DEF Within
  <2>3. \A t \in C \union {Window} : /\ t = Window => t \in C1 \union {Window}
                                    /\ t + d < Window => t + d \in C1 \union {Window}
    BY <1>2, <1>7
  <2> QED  BY <1>2, <1>3, <2>1, <2>2, <2>3, PairedAged
<1>10. half' = "check" /\ (s \in Due(d) => s \in pending)
  BY DEF Restarts, Due
<1> HIDE DEF S, C, S1, C1
<1>11. CASE s \in Due(d)
  <2>1. spawns'[s] = S1 \union {0} /\ s \notin pending'
    BY <1>1, <1>6, <1>11
  <2>2. Paired(S, C) /\ Cardinality(C) < MaxRestarts
    BY <1>3, <1>10, <1>11 DEF Within, S, C
  <2>3. Paired(S1 \union {0}, C1 \union {Window})
    BY <1>4, <1>8, <2>2, PairedSpawn
  <2>4. Cardinality(S) <= Cardinality(C)
    BY <1>3, <2>2, PairedCount
  <2>5. Cardinality(S1 \union {0}) = Cardinality(S1) + 1
    BY <1>4, YoungFinite, FS_AddElement
  <2>6. Cardinality(S1 \union {0}) <= MaxRestarts
    BY <1>5, <2>2, <2>4, <2>5
  <2> QED  BY <1>4, <1>6, <2>1, <2>3, <2>6 DEF Within
<1>12. CASE s \notin Due(d)
  <2>1. spawns'[s] = S1 /\ (s \in pending' <=> s \in pending)
    BY <1>1, <1>6, <1>12
  <2>2. Cardinality(S1) <= MaxRestarts
    BY <1>3, <1>5 DEF Within, S
  <2>3. ASSUME s \in pending
        PROVE  Paired(S1, C1) /\ Cardinality(C1) < MaxRestarts
    BY <1>3, <1>5, <1>8, <2>3 DEF Within, S, C
  <2> QED  BY <1>4, <1>6, <1>9, <2>1, <2>2, <2>3 DEF Within
<1> QED  BY <1>11, <1>12

LEMMA CheckWithin ==
    ASSUME WInv, Check, NEW s \in Services
    PROVE  Within(s)'
<1> USE WatchdogAssumption
<1>1. spawns[s] \in Young /\ crashTimes[s] \in Young /\ Within(s)
  BY DEF WInv, AllWithin, WatchdogTypeOK, Young
<1>2. half = "check" /\ half' = "restart" /\ spawns' = spawns
  BY DEF Check
<1>3. crashTimes'[s] = IF s \in FoundDead THEN Counted(s) ELSE crashTimes[s]
  BY DEF Check
<1>4. s \in pending' <=> s \in pending \/ s \in Scheduled
  BY DEF Check
<1>5. CASE s \in FoundDead
  <2>1. crashTimes'[s] = crashTimes[s] \union {0}
    BY <1>3, <1>5 DEF Counted
  <2>2. Paired(spawns[s], crashTimes[s] \union {0})
    BY <1>1, <1>2, PairedCrash DEF Within
  <2>3. Paired(spawns[s], crashTimes[s] \union {0} \union {Window})
    BY <2>2, PairedWeaker
  <2>4. s \in pending' => s \in Scheduled
    BY <1>4, <1>5 DEF FoundDead
  <2>5. ASSUME s \in Scheduled
        PROVE  Cardinality(crashTimes[s] \union {0}) < MaxRestarts
    <3>1. crashTimes[s] \union {0} \in Young
      BY <1>1 DEF Young
    <3>2. Cardinality(crashTimes[s] \union {0}) \in Nat
      BY <3>1, YoungFinite
    <3>3. ~(Cardinality(crashTimes[s] \union {0}) >= MaxRestarts)
      BY <2>5 DEF Scheduled, InCrashLoop, Counted
    <3> QED  BY <3>2, <3>3
  <2> QED  BY <1>1, <1>2, <2>1, <2>2, <2>3, <2>4, <2>5 DEF Within
<1>6. CASE s \notin FoundDead
  <2>1. s \notin Scheduled
    BY <1>6 DEF Scheduled
  <2> QED  BY <1>1, <1>2, <1>3, <1>4, <1>6, <2>1 DEF Within
<1> QED  BY <1>5, <1>6

(* Restarts and counted crashes pair up, in every state of the supervisor     *)
(* (main.py, _watchdog_tick).                                                 *)
THEOREM CrashesPaired == WatchdogSpec => []AllWithin
<1>1. WatchdogInit => AllWithin
  <2> SUFFICES ASSUME WatchdogInit, NEW s \in Services PROVE Within(s)
    BY DEF AllWithin
  <2>1. spawns[s] = {} /\ crashTimes[s] = {} /\ pending = {} /\ half = "restart"
    BY DEF WatchdogInit
  <2>2. Paired({}, {Window})
    <3> DEFINE g == [a \in {} |-> a]
    <3>1. g \in [{} -> {Window}]
      OBVIOUS
    <3> QED  BY <3>1 DEF Paired
  <2>3. Cardinality({}) = 0 /\ MaxRestarts \in Nat
    BY FS_EmptySet, WatchdogAssumption
  <2> QED  BY <2>1, <2>2, <2>3 DEF Within
<1>2. WInv /\ WatchdogTypeOK' /\ [WatchdogNext]_watchdogVars => AllWithin'
  <2> SUFFICES ASSUME WInv, WatchdogTypeOK', [WatchdogNext]_watchdogVars, NEW s \in Services
               PROVE  Within(s)'
    BY DEF AllWithin
  <2>1. CASE Restarts
    BY <2>1, RestartsWithin
  <2>2. CASE Check
    BY <2>2, CheckWithin
  <2>3. CASE (\E z \in Services : Dies(z)) \/ UNCHANGED watchdogVars
    <3>1. UNCHANGED <<spawns, crashTimes, pending, half>>
      BY <2>3 DEF Dies, watchdogVars
    <3>2. Within(s)
      BY DEF WInv, AllWithin
    <3> QED  BY <3>1, <3>2 DEF Within
  <2> QED  BY <2>1, <2>2, <2>3 DEF WatchdogNext
<1>3. WInv <=> WatchdogTypeOK /\ AllWithin
  BY DEF WInv
<1> QED  BY <1>1, <1>2, <1>3, WatchdogTypeHolds, PTL DEF WatchdogSpec

(* No window holds more restarts of a service than the limit, whatever the    *)
(* delays and however late the ticks (main.py, _watchdog_tick).               *)
THEOREM RestartsBoundedHolds == WatchdogSpec => []RestartsBounded
<1>1. AllWithin => RestartsBounded
  BY DEF AllWithin, Within, RestartsBounded
<1> QED  BY <1>1, CrashesPaired, PTL

-----------------------------------------------------------------------------
(* Giving up.  Every counted crash is a death of its own: it is counted at    *)
(* most one tick after it, and only once, since the service is then pending   *)
(* or given up until it is started again.                                     *)

(* A death that no check has seen yet is this young.                          *)
Fresh == IF half = "restart" THEN 0 ELSE MaxStep

Attributed(s, k) ==
    /\ \A b, c \in crashTimes[s] : k[b] = k[c] => b = c
    /\ \A c \in crashTimes[s] : c <= k[c] /\ k[c] <= c + MaxStep
    /\ alive[s] => \A c \in crashTimes[s] : k[c] # 0
    /\ ~alive[s] /\ s \notin gaveUp \union pending =>
        \E e \in deaths[s] : e <= Fresh /\ \A c \in crashTimes[s] : k[c] # e

EachItsOwn == \A s \in Services : \E k \in [crashTimes[s] -> deaths[s]] : Attributed(s, k)

GInv == WatchdogTypeOK /\ AllWithin /\ EachItsOwn

LEMMA DiesOwn ==
    ASSUME GInv, NEW z \in Services, Dies(z), NEW s \in Services
    PROVE  \E k \in [crashTimes'[s] -> deaths'[s]] : Attributed(s, k)'
<1> USE WatchdogAssumption
<1>1. PICK k \in [crashTimes[s] -> deaths[s]] : Attributed(s, k)
  BY DEF GInv, EachItsOwn
<1>2. UNCHANGED <<crashTimes, pending, gaveUp, half>> /\ alive[z]
  BY DEF Dies
<1>3. CASE s = z
  <2>1. deaths'[s] = deaths[s] \union {0} /\ ~alive'[s]
    BY <1>3 DEF Dies, GInv, WatchdogTypeOK
  <2>2. k \in [crashTimes'[s] -> deaths'[s]]
    BY <1>2, <2>1
  <2>3. \A c \in crashTimes[s] : k[c] # 0
    BY <1>1, <1>2, <1>3 DEF Attributed
  <2>4. 0 <= Fresh'
    BY DEF Fresh
  <2>5. Attributed(s, k)'
    BY <1>1, <1>2, <2>1, <2>3, <2>4 DEF Attributed
  <2> QED  BY <2>2, <2>5
<1>4. CASE s # z
  <2>1. deaths'[s] = deaths[s] /\ alive'[s] = alive[s]
    BY <1>4 DEF Dies, GInv, WatchdogTypeOK
  <2>2. Attributed(s, k)'
    BY <1>1, <1>2, <2>1 DEF Attributed, Fresh
  <2> QED  BY <1>2, <2>1, <2>2
<1> QED  BY <1>3, <1>4

LEMMA RestartsOwn ==
    ASSUME GInv, Restarts, NEW s \in Services
    PROVE  \E k \in [crashTimes'[s] -> deaths'[s]] : Attributed(s, k)'
<1> USE WatchdogAssumption
<1>1. PICK d \in ClockSteps :
        /\ alive' = [z \in Services |-> alive[z] \/ z \in Due(d)]
        /\ pending' = pending \ Due(d)
        /\ crashTimes' = [z \in Services |-> AgedBy(crashTimes[z], d, Window)]
        /\ deaths' = [z \in Services |-> AgedBy(deaths[z], d, Window + MaxStep + 1)]
  BY DEF Restarts
<1>2. d \in 1..MaxStep /\ Window \in Nat /\ half = "restart" /\ half' = "check"
  BY DEF Restarts
<1> DEFINE C == crashTimes[s]
           D == deaths[s]
           C1 == AgedBy(C, d, Window)
           D1 == AgedBy(D, d, Window + MaxStep + 1)
<1>3. PICK k \in [C -> D] : Attributed(s, k)
  BY DEF GInv, EachItsOwn
<1>4. C \in SUBSET Nat /\ D \in SUBSET Nat
  BY DEF GInv, WatchdogTypeOK, Ages
<1>5. crashTimes'[s] = C1 /\ deaths'[s] = D1
  BY <1>1
<1>6. ASSUME NEW a \in D, a + d < Window + MaxStep + 1  PROVE a + d \in D1
  BY <1>6 DEF AgedBy
<1>7. ASSUME NEW x \in C1  PROVE x - d \in C /\ x \in Nat /\ x < Window
  <2>1. PICK b \in C : b + d < Window /\ x = b + d
    BY DEF AgedBy
  <2>2. b \in Nat
    BY <1>4
  <2>3. x - d = b /\ x \in Nat
    BY <1>2, <2>1, <2>2
  <2> QED  BY <2>1, <2>3
<1>8. /\ \A b, c \in C : k[b] = k[c] => b = c
      /\ \A c \in C : c <= k[c] /\ k[c] <= c + MaxStep /\ k[c] \in Nat /\ k[c] \in D
  BY <1>3, <1>4 DEF Attributed
<1>9. ASSUME ~alive[s], s \notin gaveUp \union pending
      PROVE  0 \in D /\ \A c \in C : k[c] # 0
  <2>1. PICK e \in D : e <= 0 /\ \A c \in C : k[c] # e
    BY <1>2, <1>3, <1>9 DEF Attributed, Fresh
  <2>2. e = 0
    BY <1>4, <2>1
  <2> QED  BY <2>1, <2>2
<1> HIDE DEF C, D, C1, D1
<1> DEFINE f == [x \in C1 |-> k[x - d] + d]
<1>10. ASSUME NEW x \in C1
       PROVE  /\ f[x] = k[x - d] + d /\ f[x] \in D1 /\ f[x] # 0
              /\ x <= f[x] /\ f[x] <= x + MaxStep
  <2>1. f[x] = k[x - d] + d
    OBVIOUS
  <2>2. /\ x - d <= k[x - d] /\ k[x - d] <= x - d + MaxStep
        /\ k[x - d] \in Nat /\ k[x - d] \in D
    BY <1>7, <1>8
  <2>3. k[x - d] + d < Window + MaxStep + 1 /\ k[x - d] + d # 0
        /\ x <= k[x - d] + d /\ k[x - d] + d <= x + MaxStep
    BY <1>2, <1>7, <2>2
  <2>4. k[x - d] + d \in D1
    BY <1>6, <2>2, <2>3
  <2> QED  BY <2>1, <2>3, <2>4
<1>11. f \in [C1 -> D1]
  BY <1>10
<1>12. ASSUME NEW x \in C1, NEW y \in C1, f[x] = f[y]  PROVE x = y
  <2>1. k[x - d] = k[y - d]
    BY <1>2, <1>7, <1>8, <1>10, <1>12
  <2> QED  BY <1>2, <1>7, <1>8, <2>1
<1>13. ASSUME ~alive'[s], s \notin gaveUp' \union pending'
       PROVE  d \in D1 /\ d <= MaxStep /\ \A x \in C1 : f[x] # d
  <2>1. ~alive[s] /\ s \notin gaveUp \union pending
    BY <1>1, <1>13 DEF Restarts
  <2>2. 0 \in D /\ \A c \in C : k[c] # 0
    BY <1>9, <2>1
  <2>3. 0 + d < Window + MaxStep + 1 /\ 0 + d = d
    BY <1>2
  <2>4. d \in D1
    BY <1>6, <2>2, <2>3
  <2>5. ASSUME NEW x \in C1  PROVE f[x] # d
    <3>1. k[x - d] # 0 /\ k[x - d] \in Nat /\ f[x] = k[x - d] + d
      BY <1>7, <1>8, <1>10, <2>2
    <3> QED  BY <1>2, <3>1
  <2> QED  BY <1>2, <2>4, <2>5
<1> HIDE DEF f
<1>14. Fresh' = MaxStep
  BY <1>2 DEF Fresh
<1>15. ASSUME NEW g \in [C1 -> D1], g = f  PROVE Attributed(s, g)'
  BY <1>5, <1>10, <1>12, <1>13, <1>14, <1>15 DEF Attributed
<1> QED  BY <1>5, <1>11, <1>15

(* A service found dead: the crash counted now is the death not seen before.  *)
LEMMA FoundOwn ==
    ASSUME GInv, half = "check", NEW s \in FoundDead
    PROVE  \E k \in [Counted(s) -> deaths[s]] :
                /\ \A b, c \in Counted(s) : k[b] = k[c] => b = c
                /\ \A c \in Counted(s) : c <= k[c] /\ k[c] <= c + MaxStep
<1> USE WatchdogAssumption
<1>1. s \in Services /\ ~alive[s] /\ s \notin gaveUp \union pending
  BY DEF FoundDead
<1>2. PICK k \in [crashTimes[s] -> deaths[s]] : Attributed(s, k)
  BY <1>1 DEF GInv, EachItsOwn
<1>3. PICK e \in deaths[s] : e <= MaxStep /\ \A c \in crashTimes[s] : k[c] # e
  BY <1>1, <1>2 DEF Attributed, Fresh
<1>4. 0 \notin crashTimes[s] /\ e \in Nat
  <2>1. 0 \notin crashTimes[s]
    BY <1>1 DEF GInv, AllWithin, Within
  <2>2. e \in Ages
    BY <1>1, <1>3 DEF GInv, WatchdogTypeOK
  <2> QED  BY <2>1, <2>2 DEF Ages
<1> DEFINE f == [c \in Counted(s) |-> IF c = 0 THEN e ELSE k[c]]
<1>5. f[0] = e /\ \A c \in crashTimes[s] : f[c] = k[c]
  BY <1>4 DEF Counted
<1>6. f \in [Counted(s) -> deaths[s]]
  BY DEF Counted
<1>7. /\ \A b, c \in crashTimes[s] : k[b] = k[c] => b = c
      /\ \A c \in crashTimes[s] : c <= k[c] /\ k[c] <= c + MaxStep
  BY <1>2 DEF Attributed
<1> HIDE DEF f
<1>8. \A b, c \in Counted(s) : f[b] = f[c] => b = c
  BY <1>3, <1>5, <1>7 DEF Counted
<1>9. \A c \in Counted(s) : c <= f[c] /\ f[c] <= c + MaxStep
  BY <1>3, <1>4, <1>5, <1>7 DEF Counted
<1> QED  BY <1>6, <1>8, <1>9

LEMMA CheckOwn ==
    ASSUME GInv, Check, NEW s \in Services
    PROVE  \E k \in [crashTimes'[s] -> deaths'[s]] : Attributed(s, k)'
<1>1. /\ half = "check" /\ UNCHANGED <<alive, deaths>>
      /\ crashTimes'[s] = IF s \in FoundDead THEN Counted(s) ELSE crashTimes[s]
  BY DEF Check
<1>2. s \in FoundDead <=> s \notin gaveUp \union pending /\ ~alive[s]
  BY DEF FoundDead
<1>3. ~alive'[s] => s \in gaveUp' \union pending'
  BY <1>1, <1>2 DEF Check, Scheduled
<1>4. CASE s \in FoundDead
  <2>1. PICK k \in [Counted(s) -> deaths[s]] :
            /\ \A b, c \in Counted(s) : k[b] = k[c] => b = c
            /\ \A c \in Counted(s) : c <= k[c] /\ k[c] <= c + MaxStep
    BY <1>1, <1>4, FoundOwn
  <2>2. crashTimes'[s] = Counted(s) /\ deaths'[s] = deaths[s] /\ ~alive'[s]
    BY <1>1, <1>2, <1>4
  <2>3. Attributed(s, k)'
    BY <1>3, <2>1, <2>2 DEF Attributed
  <2> QED  BY <2>1, <2>2, <2>3
<1>5. CASE s \notin FoundDead
  <2>1. PICK k \in [crashTimes[s] -> deaths[s]] : Attributed(s, k)
    BY DEF GInv, EachItsOwn
  <2>2. crashTimes'[s] = crashTimes[s]
    BY <1>1, <1>5
  <2>3. Attributed(s, k)'
    BY <1>1, <1>3, <2>1, <2>2 DEF Attributed
  <2> QED  BY <1>1, <2>2, <2>3
<1> QED  BY <1>4, <1>5

LEMMA OwnInv == GInv /\ [WatchdogNext]_watchdogVars => EachItsOwn'
<1> SUFFICES ASSUME GInv, [WatchdogNext]_watchdogVars, NEW s \in Services
             PROVE  \E k \in [crashTimes'[s] -> deaths'[s]] : Attributed(s, k)'
  BY DEF EachItsOwn
<1>1. CASE UNCHANGED watchdogVars
  <2>1. PICK k \in [crashTimes[s] -> deaths[s]] : Attributed(s, k)
    BY DEF GInv, EachItsOwn
  <2>2. UNCHANGED <<crashTimes, deaths, alive, gaveUp, pending, half>>
    BY <1>1 DEF watchdogVars
  <2>3. Attributed(s, k)'
    BY <2>1, <2>2 DEF Attributed, Fresh
  <2> QED  BY <2>2, <2>3
<1> QED  BY <1>1, DiesOwn, RestartsOwn, CheckOwn DEF WatchdogNext

(* The watchdog gives a service up only when it has died as often as the      *)
(* limit within the window: no death is counted twice (main.py,               *)
(* _watchdog_tick).                                                           *)
THEOREM GivesUpOnlyInCrashLoopHolds == WatchdogSpec => GivesUpOnlyInCrashLoop
<1>1. WatchdogInit => EachItsOwn
  <2> SUFFICES ASSUME WatchdogInit, NEW s \in Services
               PROVE  \E k \in [crashTimes[s] -> deaths[s]] : Attributed(s, k)
    BY DEF EachItsOwn
  <2>1. crashTimes[s] = {} /\ deaths[s] = {} /\ alive[s] = TRUE
    BY DEF WatchdogInit
  <2> DEFINE k == [c \in {} |-> c]
  <2>2. k \in [{} -> {}]
    OBVIOUS
  <2> HIDE DEF k
  <2>3. Attributed(s, k)
    BY <2>1 DEF Attributed
  <2> QED  BY <2>1, <2>2, <2>3
<1>2. GInv /\ [WatchdogNext]_watchdogVars
        => [\A s \in gaveUp' \ gaveUp : Cardinality(deaths[s]) >= MaxRestarts]_watchdogVars
  <2> SUFFICES ASSUME GInv, WatchdogNext, NEW s \in gaveUp' \ gaveUp
               PROVE  Cardinality(deaths[s]) >= MaxRestarts
    OBVIOUS
  <2>1. Check
    BY DEF WatchdogNext, Dies, Restarts
  <2>2. s \in FoundDead /\ InCrashLoop(s) /\ half = "check" /\ s \in Services
    BY <2>1 DEF Check, FoundDead
  <2>3. PICK k \in [Counted(s) -> deaths[s]] : \A b, c \in Counted(s) : k[b] = k[c] => b = c
    BY <2>2, FoundOwn
  <2>4. k \in Injection(Counted(s), deaths[s])
    BY <2>3 DEF Injection, IsInjective
  <2>5. IsFiniteSet(deaths[s])
    <3>1. deaths[s] \in SUBSET (0..(Window + MaxStep))
      BY <2>2 DEF GInv, WatchdogTypeOK, Ages
    <3>2. IsFiniteSet(0..(Window + MaxStep))
      BY WatchdogAssumption, FS_Interval
    <3> QED  BY <3>1, <3>2, FS_Subset
  <2>6. Cardinality(Counted(s)) <= Cardinality(deaths[s]) /\ IsFiniteSet(Counted(s))
    BY <2>4, <2>5, FS_Injection
  <2>7. Cardinality(Counted(s)) \in Nat /\ Cardinality(deaths[s]) \in Nat
    BY <2>5, <2>6, FS_CardinalityType
  <2> QED  BY <2>2, <2>6, <2>7, WatchdogAssumption DEF InCrashLoop
<1>3. GInv <=> WatchdogTypeOK /\ AllWithin /\ EachItsOwn
  BY DEF GInv
<1>4. WatchdogSpec => []AllWithin
  BY CrashesPaired
<1> QED  BY <1>1, <1>2, <1>3, <1>4, OwnInv, WatchdogTypeHolds, PTL
         DEF WatchdogSpec, GivesUpOnlyInCrashLoop
=============================================================================
