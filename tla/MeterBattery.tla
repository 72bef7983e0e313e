---------------------------- MODULE MeterBattery ----------------------------
(***************************************************************************)
(* The meter (internal/meter/meter.go) and the battery of one charger, as  *)
(* its update tick and the calls that set limits drive them.               *)
(*                                                                         *)
(* Currents are amperes.  Energy, SOC and capacity are counted in ampere-  *)
(* seconds at the meter: voltage, power factor, phases and efficiency are  *)
(* positive constants of a charger and scale all of them alike.  The code  *)
(* halves a gap in floating point and so closes it in the end; here a step *)
(* is rounded up to a whole ampere.                                        *)
(***************************************************************************)
EXTENDS Integers

CONSTANTS
    Configs,     \* configurations as read from the file
    Limits,      \* limits the operator or the CSMS asks for
    Charges,     \* states of charge the operator asks for
    Full,        \* capacity of the battery: SOC 100%
    Late,        \* a tick comes at most so many seconds after the last
    Long,        \* longer intervals are not told apart
    RampPeriod,  \* seconds between steps of ramp_up (30 in the code)
    MaxEnergy    \* register reading beyond which the environment is quiet

Threshold == 6  \* the least current, in amperes

RawConfigs == [max : Int, initial : Int, goal : Int, scale : Int]

ASSUME ConfigAssumption == Configs \subseteq RawConfigs
ASSUME RequestAssumption == Limits \subseteq Int /\ Charges \subseteq Int
ASSUME BatteryAssumption == Full \in Nat /\ Full >= 10 /\ Full % 10 = 0
ASSUME ClockAssumption == Late \in Nat \ {0} /\ Long \in Nat /\ Long > Late
ASSUME BoundAssumption == RampPeriod \in Nat \ {0} /\ MaxEnergy \in Nat

VARIABLES
    config,   \* the configuration in force
    status,   \* Charging, SuspendedEVSE, or Other
    running,  \* a run loop ticks
    ticking,  \* its meterTicking
    gap,      \* seconds since its last tick
    since,    \* seconds since the meter's lastUpdate, up to Long
    target,   \* targetCurrentA of the charger
    allowed,  \* targetCurrentA of the meter, 0 while it is paused
    actual,   \* actualCurrentA
    energy,   \* energyKWh, the register
    base,     \* socEnergyBase
    soc,
    ramp      \* seconds since profileStart under ramp_up, or NoRamp

NoRamp == -1

linkVars == <<running, ticking, gap>>
batteryVars == <<energy, base, soc>>
meterVars == <<config, status, linkVars, since, target, allowed, actual, batteryVars, ramp>>

Least(a, b) == IF a < b THEN a ELSE b
Most(a, b) == IF a > b THEN a ELSE b

TypeOK ==
    /\ config \in [max : Nat \ {0}, goal : 1..Full, scale : Nat \ {0}]
    /\ status \in {"Charging", "SuspendedEVSE", "Other"}
    /\ running \in BOOLEAN /\ ticking \in BOOLEAN
    /\ gap \in 0..Late /\ since \in 0..Long
    /\ target \in Int /\ target <= config.max
    /\ allowed \in 0..config.max
    /\ actual \in 0..config.max
    /\ energy \in Nat /\ base \in Nat
    /\ soc \in 0..Full
    /\ ramp \in Nat \union {NoRamp}

-----------------------------------------------------------------------------
(* Configuration: what Validate accepts, and NewCharger's defaults. *)

Validate(raw) == raw.max > 0

Default(x, upper, default) == IF x <= 0 \/ x > upper THEN default ELSE x

\* SetTimeScale; a scale of one is no scale.
TimeScale(scale) == IF scale <= 0 THEN 1 ELSE scale

NewCharger(raw) ==
    [max |-> raw.max,
     goal |-> Default(raw.goal, Full, 9 * (Full \div 10)),
     scale |-> TimeScale(raw.scale)]

\* Seeded fault: a limit below the threshold leaves the meter as it is.
MeterTargetUnpaused(limit) ==
    LET l == Least(limit, config.max) IN IF l < Threshold THEN allowed ELSE l

\* Model.SetTargetCurrent: what the meter converges to.
MeterTarget(limit) ==
    LET l == Least(limit, config.max) IN IF l < Threshold THEN 0 ELSE l

Init ==
    /\ \E raw \in Configs :
          /\ Validate(raw)
          /\ config = NewCharger(raw)
          /\ soc = Default(raw.initial, Full, 2 * (Full \div 10))
          /\ target = raw.max
          /\ allowed = IF raw.max < Threshold THEN 0 ELSE raw.max
    /\ status = "Other"
    /\ running = FALSE /\ ticking = FALSE
    /\ gap = 0 /\ since = 0
    /\ actual = 0
    /\ energy = 0 /\ base = 0
    /\ ramp = NoRamp

-----------------------------------------------------------------------------
(* Time.  A tick that is due comes before Late seconds have passed. *)

Second ==
    /\ running => gap < Late
    /\ gap' = IF running THEN gap + 1 ELSE 0
    /\ since' = Least(since + 1, Long)
    /\ ramp' = IF ramp = NoRamp THEN NoRamp
               ELSE Least(ramp + 1, RampPeriod * Most((config.max - 4) \div 2, 0))
    /\ UNCHANGED <<config, status, running, ticking, target, allowed, actual, batteryVars>>

\* Seeded fault: the change of current is not limited to the gap.
ConvergeUnclamped(delta) ==
    LET gapA == allowed - actual IN
    IF gapA >= 0 THEN actual + (gapA * delta + 1) \div 2
                 ELSE actual - (1 - gapA * delta) \div 2

\* Half of the gap per second, and never more than the gap.
Converge(delta) ==
    LET distance == IF allowed >= actual THEN allowed - actual ELSE actual - allowed
        change == Least((distance * delta + 1) \div 2, distance)
    IN IF allowed >= actual THEN actual + change ELSE actual - change

\* Seeded fault: no least current near the end of the charge.
TaperUnbounded(charge) ==
    IF 10 * charge < 8 * Full THEN config.max
    ELSE (config.max * (46 * Full - 45 * charge)) \div (10 * Full)

\* taperCurrentCap: from 80% on linear down to a tenth of the maximum at
\* 100%, and never below the threshold.
Taper(charge) ==
    IF 10 * charge < 8 * Full THEN config.max
    ELSE Most((config.max * (46 * Full - 45 * charge)) \div (10 * Full), Threshold)

RampCurrent == Least(5 + 2 * (ramp \div RampPeriod), config.max)

\* Seeded fault: what was credited is credited again.
SettleAgain(total) ==
    /\ base' = Least(total, base)
    /\ soc' = Least(soc + Most(total - base, 0), Full)

\* The battery takes what the register has gained on the base; a register
\* below the base was reset, and the base follows it.
Settle(total) ==
    /\ base' = total
    /\ soc' = Least(soc + Most(total - base, 0), Full)

\* The bound: nothing but the register would go on changing.
Exhausted == energy > MaxEnergy /\ soc = Full /\ actual = allowed

\* Seeded fault: the meter's clock is not reset on the first charging tick.
SecondsUntouched == since

\* Update: the register after so many scaled seconds.
Metered(delta) == energy + Converge(delta) * delta

\* The first charging tick of a loop resets the meter's clock (Touch).
Seconds == IF ticking THEN since ELSE 0

\* The charging branch of the update tick.
Charge ==
    LET delta == Seconds * config.scale
    IN  /\ actual' = Converge(delta)
        /\ energy' = Metered(delta)
        /\ since' = 0
        /\ Settle(Metered(delta))
        /\ target' = IF ramp = NoRamp THEN target ELSE RampCurrent
        /\ allowed' = MeterTarget(Least(target', Taper(soc')))

Tick ==
    /\ running /\ gap > 0
    /\ ~Exhausted
    /\ gap' = 0
    /\ ticking' = (status = "Charging")
    /\ \/ status = "Charging" /\ Charge
       \/ status # "Charging" /\ UNCHANGED <<since, target, allowed, actual, batteryVars>>
    /\ UNCHANGED <<config, status, running, ramp>>

LoopStarts ==
    /\ ~running
    /\ running' = TRUE
    /\ UNCHANGED <<config, status, ticking, gap, since, target, allowed, actual, batteryVars, ramp>>

LoopEnds ==
    /\ running
    /\ running' = FALSE /\ ticking' = FALSE /\ gap' = 0
    /\ UNCHANGED <<config, status, since, target, allowed, actual, batteryVars, ramp>>

-----------------------------------------------------------------------------
(* Calls.  Those that can make the register grow stop at MaxEnergy. *)

\* The charger's own target under a limit that suspends: the operator's call
\* keeps it, the CSMS's makes it 0.
ApplyLimit(limit, suspendedTarget) ==
    /\ energy <= MaxEnergy
    /\ allowed' = MeterTarget(limit)
    /\ \/ /\ limit < Threshold
          /\ target' = suspendedTarget
          /\ status' = "SuspendedEVSE"
          /\ actual' = 0
       \/ /\ limit >= Threshold
          /\ target' = limit
          /\ status' = IF status = "SuspendedEVSE" THEN "Charging" ELSE status
          /\ UNCHANGED actual
    /\ UNCHANGED <<config, linkVars, since, batteryVars, ramp>>

SetTargetCurrent ==
    \E l \in Limits : LET limit == Least(l, config.max) IN ApplyLimit(limit, limit)

SetChargingProfile ==
    /\ running
    /\ \E l \in Limits : ApplyLimit(Least(l, config.max), 0)

ClearChargingProfile ==
    /\ running
    /\ energy <= MaxEnergy
    /\ target' = config.max
    /\ allowed' = MeterTarget(config.max)
    /\ status' = IF status = "SuspendedEVSE" THEN "Charging" ELSE status
    /\ UNCHANGED <<config, linkVars, since, actual, batteryVars, ramp>>

SetProfile ==
    /\ energy <= MaxEnergy
    /\ ramp' \in {0, NoRamp}
    /\ UNCHANGED <<config, status, linkVars, since, target, allowed, actual, batteryVars>>

\* Seeded fault: the charge asked for is not brought into range.
SetSOCUnclamped ==
    /\ energy <= MaxEnergy
    /\ soc' \in Charges
    /\ base' = energy
    /\ UNCHANGED <<config, status, linkVars, since, target, allowed, actual, energy, ramp>>

SetSOC ==
    /\ energy <= MaxEnergy
    /\ \E x \in Charges : soc' = Least(Most(x, 0), Full)
    /\ base' = energy
    /\ UNCHANGED <<config, status, linkVars, since, target, allowed, actual, energy, ramp>>

\* sendStartTransaction resets the register, at a resume in mid-charge.
StartTransaction ==
    /\ running
    /\ energy' = 0
    /\ UNCHANGED <<config, status, linkVars, since, target, allowed, actual, base, soc, ramp>>

\* StartTransaction was accepted, whatever the limit is.
StartAccepted ==
    /\ running
    /\ energy <= MaxEnergy
    /\ status' = "Charging"
    /\ UNCHANGED <<config, linkVars, since, target, allowed, actual, batteryVars, ramp>>

\* Stop zeroes the current; a fault or ChangeAvailability does not.
Stop ==
    /\ running
    /\ status # "Other"
    /\ status' = "Other"
    /\ actual' = 0
    /\ UNCHANGED <<config, linkVars, since, target, allowed, batteryVars, ramp>>

SetFault ==
    /\ status' = "Other"
    /\ UNCHANGED <<config, linkVars, since, target, allowed, actual, batteryVars, ramp>>

-----------------------------------------------------------------------------

Next ==
    \/ Second \/ Tick \/ LoopStarts \/ LoopEnds
    \/ SetTargetCurrent \/ SetChargingProfile \/ ClearChargingProfile
    \/ SetProfile \/ SetSOC
    \/ StartTransaction \/ StartAccepted \/ Stop \/ SetFault

Spec == Init /\ [][Next]_meterVars

\* Time passes and tickers tick.
FairSpec == Spec /\ WF_meterVars(Second) /\ WF_meterVars(Tick)

-----------------------------------------------------------------------------

\* A tick counts the time since the last one at most: no energy is metered for
\* the time the charger was idle, suspended or disconnected (Touch, line 525).
NoIdleEnergy ==
    [][Tick => energy' - energy <= config.max * config.scale * Late]_meterVars

\* The current moves towards what the meter allows and never past it, however
\* large the scaled interval is (meter.go, line 129).
NoOvershoot ==
    [][Tick => \/ actual <= actual' /\ actual' <= allowed
               \/ allowed <= actual' /\ actual' <= actual
               \/ actual' = actual]_meterVars

\* In a tick the battery gains no more than the register, and just that unless
\* the register was reset since the last one or the battery is full: no energy
\* is credited twice, nor lost (lines 533-547).
CreditFollowsMeter ==
    [][Tick => /\ soc' - soc <= energy' - energy
               /\ base = energy /\ soc' < Full => soc' - soc = energy' - energy]_meterVars

\* A charger that goes on charging under one target ends at or below it, and
\* without current when it is below the threshold.
LimitHonoured ==
    \A l \in Limits \union {c.max : c \in Configs} :
        <>[](running /\ status = "Charging" /\ target = l)
            => <>[](actual <= (IF l < Threshold THEN 0 ELSE l))

\* A charger that goes on charging with a target at or above the threshold
\* reaches its goal, unless its battery or its register is reset again and
\* again: the taper never starves it.
ChargeCompletes ==
    /\ <>[](running /\ status = "Charging" /\ target >= Threshold)
    /\ <>[][~SetSOC /\ ~StartTransaction]_meterVars
    => <>[](soc >= config.goal)
=============================================================================
