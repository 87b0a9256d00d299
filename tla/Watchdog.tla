------------------------------- MODULE Watchdog -------------------------------
(* The supervisor in main.py: _watchdog_tick runs once per second, restarts   *)
(* the services whose delay has elapsed, then looks for dead ones.  A service *)
(* may die at any instant, also between the two halves of a tick.             *)
(*                                                                            *)
(* An instant the code stores is kept as its age, or as the time left to it;  *)
(* time.time() advances by one of ClockSteps from one tick to the next.       *)
EXTENDS Integers, FiniteSets

CONSTANTS
    Services,     \* the catalogue: the processes under supervision
    MaxRestarts,  \* _MAX_RESTARTS
    Window,       \* _CRASH_WINDOW, in seconds
    MaxBackoff,   \* _MAX_BACKOFF, in seconds
    MaxStep,      \* bound: a tick is never later than this
    ClockSteps    \* seconds between two ticks: the sleep and what the tick took

ASSUME WatchdogAssumption ==
    /\ MaxRestarts \in Nat \ {0}
    /\ Window \in Nat \ {0}
    /\ MaxBackoff \in Nat \ {0}
    /\ MaxStep \in Nat \ {0}
    /\ ClockSteps \subseteq 1..MaxStep

VARIABLES
    alive,        \* the service's process runs
    crashTimes,   \* crash_times: ages of the crashes the watchdog counted
    backoff,      \* backoff_secs
    due,          \* restart_at: time left until the restart
    pending,      \* names scheduled for restart
    gaveUp,       \* names that hit the crash limit
    half,         \* the half of the tick that runs next
    deaths,       \* history: ages of the deaths of the service, within reach
    spawns,       \* history: ages of its restarts in the last Window
    down          \* history: how long a service not given up has been dead

watchdogVars == <<alive, crashTimes, backoff, due, pending, gaveUp, half, deaths, spawns, down>>

Ages == 0..(Window + MaxStep)

(* The type invariant: delays stay within the longest one, counted crashes    *)
(* within the window (main.py, _watchdog_tick).                              *)
WatchdogTypeOK ==
    /\ alive \in [Services -> BOOLEAN]
    /\ crashTimes \in [Services -> SUBSET (0..(Window - 1))]
    /\ backoff \in [Services -> 0..MaxBackoff]
    /\ due \in [Services -> 0..MaxBackoff]
    /\ pending \subseteq Services
    /\ gaveUp \subseteq Services
    /\ half \in {"restart", "check"}
    /\ deaths \in [Services -> SUBSET Ages]
    /\ spawns \in [Services -> SUBSET (0..(Window - 1))]
    /\ down \in [Services -> Nat]

WatchdogInit ==
    /\ alive = [s \in Services |-> TRUE]
    /\ crashTimes = [s \in Services |-> {}]
    /\ backoff = [s \in Services |-> 0]
    /\ due = [s \in Services |-> 0]
    /\ pending = {}
    /\ gaveUp = {}
    /\ half = "restart"
    /\ deaths = [s \in Services |-> {}]
    /\ spawns = [s \in Services |-> {}]
    /\ down = [s \in Services |-> 0]

-----------------------------------------------------------------------------
(* The ages that are below the limit once d seconds have passed.              *)
AgedBy(ages, d, limit) == {a + d : a \in {b \in ages : b + d < limit}}

Dies(s) ==
    /\ alive[s]
    /\ alive' = [alive EXCEPT ![s] = FALSE]
    /\ deaths' = [deaths EXCEPT ![s] = @ \union {0}]
    /\ down' = [down EXCEPT ![s] = 0]
    /\ UNCHANGED <<crashTimes, backoff, due, pending, gaveUp, half, spawns>>

(* First half: the pending restarts whose delay has elapsed.                  *)

(* Mutant: now > restart_at, for now >= restart_at.                           *)
DueStrictly(d) == {s \in pending : due[s] < d}
Due(d) == {s \in pending : due[s] <= d}

Restarts ==
    /\ half = "restart"
    /\ half' = "check"
    /\ \E d \in ClockSteps :
        LET now == Due(d)
        IN  /\ alive' = [s \in Services |-> alive[s] \/ s \in now]
            /\ pending' = pending \ now
            /\ due' = [s \in Services |-> IF due[s] <= d THEN 0 ELSE due[s] - d]
            /\ crashTimes' = [s \in Services |-> AgedBy(crashTimes[s], d, Window)]
            /\ deaths' = [s \in Services |-> AgedBy(deaths[s], d, Window + MaxStep + 1)]
            /\ spawns' = [s \in Services |-> AgedBy(spawns[s], d, Window)
                                              \union {0 : x \in now \intersect {s}}]
            /\ down' = [s \in Services |-> IF alive[s] \/ s \in now \union gaveUp THEN 0
                                               ELSE down[s] + d]
    /\ UNCHANGED <<backoff, gaveUp>>

(* Second half: the dead services that nobody has dealt with yet.             *)

(* Mutant: a service that waits for its restart is found dead again.          *)
FoundDeadAgain == {s \in Services \ gaveUp : ~alive[s]}
FoundDead == {s \in Services \ (gaveUp \union pending) : ~alive[s]}

(* Mutant: the crash list is pruned to the longest delay, not to the window.  *)
CountedRecent(s) == {a \in crashTimes[s] : a < MaxBackoff} \union {0}
(* _CRASH_WINDOW pruned the older ones already: AgedBy keeps no other.          *)
Counted(s) == crashTimes[s] \union {0}

InCrashLoop(s) == Cardinality(Counted(s)) >= MaxRestarts

(* Mutant: a service given up is scheduled all the same.                      *)
ScheduledAlways == FoundDead
Scheduled == {s \in FoundDead : ~InCrashLoop(s)}

Delay(s) == IF backoff[s] < 1 THEN 1 ELSE backoff[s]

Doubled(delay) == IF 2 * delay < MaxBackoff THEN 2 * delay ELSE MaxBackoff

Check ==
    /\ half = "check"
    /\ half' = "restart"
    /\ crashTimes' = [s \in Services |-> IF s \in FoundDead THEN Counted(s) ELSE crashTimes[s]]
    /\ gaveUp' = gaveUp \union {s \in FoundDead : InCrashLoop(s)}
    /\ pending' = pending \union Scheduled
    /\ due' = [s \in Services |-> IF s \in Scheduled THEN Delay(s) ELSE due[s]]
    /\ backoff' = [s \in Services |-> IF s \in Scheduled THEN Doubled(Delay(s)) ELSE backoff[s]]
    /\ UNCHANGED <<alive, deaths, spawns, down>>

WatchdogNext == (\E s \in Services : Dies(s)) \/ Restarts \/ Check

WatchdogSpec == WatchdogInit /\ [][WatchdogNext]_watchdogVars

-----------------------------------------------------------------------------
(* A dead service is back before the longest delay and a tick are over, unless*)
(* it is given up.                                                            *)
PromptRestart ==
    \A s \in Services \ gaveUp : ~alive[s] => down[s] < MaxBackoff + MaxStep

(* "max restarts within _CRASH_WINDOW": whatever the delays and however late  *)
(* the ticks, no window holds more restarts of a service than MaxRestarts.    *)
RestartsBounded == \A s \in Services : Cardinality(spawns[s]) <= MaxRestarts

(* The watchdog gives up on a service only when it has died MaxRestarts times *)
(* in the window: a death is never counted twice.                             *)
GivesUpOnlyInCrashLoop ==
    [][\A s \in gaveUp' \ gaveUp : Cardinality(deaths[s]) >= MaxRestarts]_watchdogVars

(* A service given up is left alone: only an operator brings it back.         *)
GivenUpStaysDown == [][\A s \in gaveUp : ~alive'[s]]_watchdogVars
=============================================================================
