----------------------------- MODULE PowerMeter -----------------------------
(* drivers/power_pzem.py: what PowerNode makes of the readings of the PZEM    *)
(* (energy integration, battery level) and of the commands RESET_ENERGY and   *)
(* SET_BATTERY_CAPACITY.  Time and energy are integers: seconds, and watts    *)
(* times seconds; the battery capacity is in the same unit.                   *)
EXTENDS Integers

CONSTANTS
    MaxPower,       \* readings are 0..MaxPower watts
    Capacities,     \* capacities the operator may set
    DefaultCapacity,
    MaxGap,         \* readings this far apart or more are not integrated (10 s)
    Waits,          \* seconds that may pass at once
    MaxDelay,       \* longest time from the stamp of a reading to its integration
    MaxClock        \* bounds TLC

ASSUME PowerAssumption ==
    /\ MaxPower \in Nat /\ Capacities \subseteq Nat /\ DefaultCapacity \in Nat
    /\ MaxGap \in Nat /\ Waits \subseteq Nat \ {0}
    /\ MaxDelay \in Nat /\ MaxClock \in Nat

VARIABLES
    clock, startTime, lastSample, accumulated, capacity, level,
    stamp           \* ts of the reading in the callback, or NoReading

powerVars == <<clock, startTime, lastSample, accumulated, capacity, level, stamp>>

NoReading == -1

(* Mutant: not clamped.                                                       *)
LevelUnclamped(acc, cap) ==
    IF cap = 0 THEN 0 ELSE 100 - (100 * acc) \div cap

(* level_pct, clamped to 0..100; 100 until the first reading.                 *)
Level(acc, cap) ==
    IF cap = 0 THEN 0 ELSE IF acc >= cap THEN 0 ELSE 100 - (100 * acc) \div cap

PowerInit ==
    /\ clock = 0 /\ startTime = 0 /\ lastSample = 0
    /\ accumulated = 0 /\ capacity = DefaultCapacity /\ level = 100
    /\ stamp = NoReading

(* _on_pzem_data, in the reader's thread: the time of the reading is taken    *)
(* before the lock, the energy is integrated under it.                        *)
StampReading ==
    /\ stamp = NoReading
    /\ stamp' = clock
    /\ UNCHANGED <<clock, startTime, lastSample, accumulated, capacity, level>>

(* What one reading adds: the guard against huge gaps.                        *)
Energy(power) ==
    LET dt == stamp - lastSample
    IN  IF dt > 0 /\ dt < MaxGap THEN accumulated + power * dt ELSE accumulated

Integrate(power) ==
    /\ stamp # NoReading
    /\ accumulated' = Energy(power)
    /\ lastSample' = stamp
    /\ level' = Level(accumulated', capacity)
    /\ stamp' = NoReading
    /\ UNCHANGED <<clock, startTime, capacity>>

(* Mutant: the time of the last sample is not reset.                          *)
ResetEnergyOnly ==
    /\ accumulated' = 0 /\ startTime' = clock
    /\ UNCHANGED <<clock, lastSample, capacity, level, stamp>>

(* The node's thread: reset_energy, under the same lock, and the capacity.    *)
ResetEnergy ==
    /\ accumulated' = 0 /\ startTime' = clock /\ lastSample' = clock
    /\ UNCHANGED <<clock, capacity, level, stamp>>

SetCapacity(cap) ==
    /\ capacity' = cap
    /\ UNCHANGED <<clock, startTime, lastSample, accumulated, level, stamp>>

Elapse(s) ==
    /\ clock + s <= MaxClock
    /\ stamp # NoReading => clock + s <= stamp + MaxDelay
    /\ clock' = clock + s
    /\ UNCHANGED <<startTime, lastSample, accumulated, capacity, level, stamp>>

PowerNext ==
    \/ StampReading
    \/ \E p \in 0..MaxPower : Integrate(p)
    \/ ResetEnergy
    \/ \E cap \in Capacities : SetCapacity(cap)
    \/ \E s \in Waits : Elapse(s)

PowerSpec == PowerInit /\ [][PowerNext]_powerVars

-----------------------------------------------------------------------------
(* Every value is in its range; the level is a percentage.                    *)
PowerTypeOK ==
    /\ clock \in Nat /\ startTime \in Nat /\ lastSample \in Nat
    /\ accumulated \in Nat /\ capacity \in Nat /\ level \in 0..100
    /\ stamp \in Nat \union {NoReading}

(* The energy shown since measurement_start was used since then, but for the  *)
(* delay of a reading that a reset overtakes: it counts nothing twice, and    *)
(* of the time before the reset no more than that delay.                      *)
EnergySinceStart == accumulated <= MaxPower * (lastSample - startTime + MaxDelay)
=============================================================================
