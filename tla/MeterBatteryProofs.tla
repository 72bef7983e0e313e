------------------------- MODULE MeterBatteryProofs -------------------------
(***************************************************************************)
(* The types of the meter and the battery, and what a tick may do, proved  *)
(* for every configuration, limit and bound.  Two facts between ticks      *)
(* carry the proofs: the meter's clock agrees with the ticker's while a    *)
(* loop charges, and the register is never above the battery's base.       *)
(***************************************************************************)
EXTENDS MeterBattery, TLAPS

-----------------------------------------------------------------------------
(* Arithmetic *)

LEMMA ProductNat == ASSUME NEW a \in Nat, NEW b \in Nat PROVE a * b \in Nat
  BY SMT

LEMMA ProductOrder ==
  ASSUME NEW a \in Nat, NEW b \in Nat, NEW c \in Nat, NEW d \in Nat, a <= b, c <= d
  PROVE  a * c <= b * d
<1>1. a * c <= b * c
  BY SMT
<1>2. b * c <= b * d
  BY SMT
<1>3. QED
  BY <1>1, <1>2, ProductNat

LEMMA ProductSwap ==
  ASSUME NEW a \in Nat, NEW b \in Nat, NEW c \in Nat PROVE a * (b * c) = (a * c) * b
  BY SMT

LEMMA HalfNat == ASSUME NEW n \in Nat PROVE n \div 2 \in Nat
  BY SMT

\* What the helpers return.
LEMMA LeastType == ASSUME NEW a \in Int, NEW b \in Int
                   PROVE  Least(a, b) \in {a, b} /\ Least(a, b) <= a /\ Least(a, b) <= b
  BY DEF Least

LEMMA MostType == ASSUME NEW a \in Int, NEW b \in Int
                  PROVE  Most(a, b) \in {a, b} /\ Most(a, b) >= a /\ Most(a, b) >= b
  BY DEF Most

\* The charging current stays between the present one and the one allowed.
LEMMA ConvergeBetween ==
  ASSUME TypeOK, NEW d \in Nat
  PROVE  /\ Converge(d) \in 0..config.max
         /\ \/ actual <= Converge(d) /\ Converge(d) <= allowed
            \/ allowed <= Converge(d) /\ Converge(d) <= actual
<1> DEFINE distance == IF allowed >= actual THEN allowed - actual ELSE actual - allowed
           half == (distance * d + 1) \div 2
           change == Least(half, distance)
<1>1. allowed \in Nat /\ actual \in Nat /\ allowed <= config.max /\ actual <= config.max
      /\ config.max \in Nat
  BY DEF TypeOK
<1>2. distance \in Nat
  BY <1>1
<1>3. distance * d + 1 \in Nat
  BY <1>2, ProductNat
<1>4. half \in Nat
  BY <1>3, HalfNat
<1>5. change \in 0..distance
  <2> HIDE DEF half, distance
  <2>1. QED
    BY <1>2, <1>4, LeastType
<1>6. Converge(d) = IF allowed >= actual THEN actual + change ELSE actual - change
  BY DEF Converge
<1>7. QED
  <2> HIDE DEF change
  <2>1. QED
    BY <1>1, <1>5, <1>6

LEMMA SecondsType == ASSUME TypeOK PROVE Seconds \in Nat
  BY DEF TypeOK, Seconds

LEMMA DeltaType == ASSUME TypeOK PROVE Seconds * config.scale \in Nat
<1>1. config.scale \in Nat
  BY DEF TypeOK
<1>2. QED
  BY <1>1, SecondsType, ProductNat

\* The parts of a charging tick.
LEMMA ChargeMeters ==
  ASSUME Charge
  PROVE  /\ actual' = Converge(Seconds * config.scale)
         /\ energy' = energy + Converge(Seconds * config.scale) * (Seconds * config.scale)
         /\ since' = 0
         /\ Settle(energy + Converge(Seconds * config.scale) * (Seconds * config.scale))
         /\ target' = IF ramp = NoRamp THEN target ELSE RampCurrent
         /\ allowed' = MeterTarget(Least(target', Taper(soc')))
  BY DEF Charge, Metered

LEMMA SettleEffect ==
  ASSUME NEW total, Settle(total)
  PROVE  base' = total /\ soc' = Least(soc + Most(total - base, 0), Full)
  BY DEF Settle

\* What a charging tick does to the current, the register and the battery.
LEMMA ChargeEffect ==
  ASSUME TypeOK, Charge
  PROVE  /\ actual' = Converge(Seconds * config.scale)
         /\ energy' = energy + Converge(Seconds * config.scale) * (Seconds * config.scale)
         /\ energy' \in Nat /\ energy' >= energy
         /\ since' = 0
         /\ base' = energy'
         /\ soc' = Least(soc + Most(energy' - base, 0), Full)
<1> DEFINE metered == Converge(Seconds * config.scale) * (Seconds * config.scale)
<1>1. energy' = energy + metered
  BY ChargeMeters
<1>2. Settle(energy')
  BY ChargeMeters
<1>3. metered \in Nat
  <2>1. Converge(Seconds * config.scale) \in Nat
    BY DeltaType, ConvergeBetween DEF TypeOK
  <2>2. QED
    BY <2>1, DeltaType, ProductNat
<1>4. base' = energy' /\ soc' = Least(soc + Most(energy' - base, 0), Full)
  BY <1>2, SettleEffect
<1>5. energy' \in Nat /\ energy' >= energy
  <2> HIDE DEF metered
  <2>1. QED
    BY <1>1, <1>3 DEF TypeOK
<1>6. QED
  BY <1>4, <1>5, ChargeMeters

\* What is allowed, the taper's cap included.
LEMMA MeterTargetType ==
  ASSUME TypeOK, NEW limit \in Int PROVE MeterTarget(limit) \in 0..config.max
  BY DEF TypeOK, MeterTarget, Least, Threshold

LEMMA TaperType == ASSUME TypeOK, NEW charge \in 0..Full PROVE Taper(charge) \in Int
<1>1. config.max \in Nat /\ Full \in Nat /\ Full >= 10
  BY BatteryAssumption DEF TypeOK
<1>2. 46 * Full - 45 * charge \in Nat
  BY <1>1
<1>3. config.max * (46 * Full - 45 * charge) \in Nat
  BY <1>1, <1>2, ProductNat
<1>4. 10 * Full \in Nat \ {0}
  BY <1>1
<1>5. (config.max * (46 * Full - 45 * charge)) \div (10 * Full) \in Int
  <2> DEFINE n == config.max * (46 * Full - 45 * charge)
             d == 10 * Full
  <2>1. n \in Nat /\ d \in Nat \ {0}
    BY <1>3, <1>4
  <2> HIDE DEF n, d
  <2>2. n \div d \in Int
    BY <2>1
  <2>3. QED
    BY <2>2 DEF n, d
<1>6. QED
  <2> DEFINE cap == (config.max * (46 * Full - 45 * charge)) \div (10 * Full)
  <2>1. cap \in Int
    BY <1>5
  <2>2. Taper(charge) = IF 10 * charge < 8 * Full THEN config.max ELSE Most(cap, Threshold)
    BY DEF Taper
  <2> HIDE DEF cap
  <2>3. QED
    BY <1>1, <2>1, <2>2, MostType DEF Threshold

LEMMA RampType ==
  ASSUME TypeOK, ramp # NoRamp PROVE RampCurrent \in Int /\ RampCurrent <= config.max
<1>1. ramp \in Nat /\ RampPeriod \in Nat \ {0} /\ config.max \in Nat
  BY BoundAssumption DEF TypeOK
<1>2. ramp \div RampPeriod \in Int
  BY <1>1
<1>3. QED
  BY <1>1, <1>2, LeastType DEF RampCurrent

-----------------------------------------------------------------------------
(* Types *)

\* A loop that charged at its last tick has reset the meter's clock with its own.
ClocksAgree == ticking => running /\ since = gap

\* The register is never above the base: it is reset without the base, and the
\* base follows it at the next tick.
BaseAhead == energy <= base

IInv == TypeOK /\ ClocksAgree /\ BaseAhead

LEMMA InitInv == Init => IInv
<1> SUFFICES ASSUME Init PROVE IInv
  OBVIOUS
<1>1. PICK raw \in Configs :
        /\ Validate(raw)
        /\ config = NewCharger(raw)
        /\ soc = Default(raw.initial, Full, 2 * (Full \div 10))
        /\ target = raw.max
        /\ allowed = IF raw.max < Threshold THEN 0 ELSE raw.max
  BY DEF Init
<1>2. raw \in RawConfigs
  BY ConfigAssumption
<1>3. /\ raw.max \in Nat \ {0} /\ raw.initial \in Int /\ raw.goal \in Int
      /\ raw.scale \in Int
  BY <1>1, <1>2 DEF RawConfigs, Validate
<1>4. Full \div 10 \in Nat /\ Full \div 10 >= 1 /\ 10 * (Full \div 10) = Full
  BY BatteryAssumption
<1>5. Default(raw.goal, Full, 9 * (Full \div 10)) \in 1..Full
  BY <1>3, <1>4, BatteryAssumption DEF Default
<1>6. Default(raw.initial, Full, 2 * (Full \div 10)) \in 0..Full
  BY <1>3, <1>4, BatteryAssumption DEF Default
<1>7. TimeScale(raw.scale) \in Nat \ {0}
  BY <1>3 DEF TimeScale
<1>8. /\ config \in [max : Nat \ {0}, goal : 1..Full, scale : Nat \ {0}]
      /\ config.max = raw.max
  BY <1>1, <1>3, <1>5, <1>7 DEF NewCharger
<1>9. TypeOK
  <2>1. allowed \in 0..config.max /\ target \in Int /\ target <= config.max /\ soc \in 0..Full
    BY <1>1, <1>3, <1>6, <1>8 DEF Threshold
  <2>2. gap \in 0..Late /\ since \in 0..Long /\ actual \in 0..config.max
    BY <1>3, <1>8, ClockAssumption DEF Init
  <2>3. QED
    BY <1>8, <2>1, <2>2 DEF Init, TypeOK
<1>10. QED
  BY <1>9 DEF Init, IInv, ClocksAgree, BaseAhead

LEMMA SecondType == ASSUME TypeOK, Second PROVE TypeOK'
<1>1. config.max \in Nat /\ RampPeriod \in Nat
  BY BoundAssumption DEF TypeOK
<1>2. Most((config.max - 4) \div 2, 0) \in Nat
  BY <1>1, MostType
<1>3. RampPeriod * Most((config.max - 4) \div 2, 0) \in Nat
  BY <1>1, <1>2, ProductNat
<1>4. ramp' \in Nat \union {NoRamp}
  <2> DEFINE last == RampPeriod * Most((config.max - 4) \div 2, 0)
  <2>1. last \in Nat
    BY <1>3
  <2>2. ramp' = IF ramp = NoRamp THEN NoRamp ELSE Least(ramp + 1, last)
    BY DEF Second
  <2> HIDE DEF last
  <2>3. QED
    BY <2>1, <2>2 DEF TypeOK, Least, NoRamp
<1>5. gap' \in 0..Late /\ since' \in 0..Long
  BY ClockAssumption DEF Second, TypeOK, Least
<1>6. QED
  BY <1>4, <1>5 DEF Second, TypeOK, batteryVars

LEMMA ChargeType ==
  ASSUME TypeOK, Charge, UNCHANGED config
  PROVE  /\ target' \in Int /\ target' <= config'.max
         /\ allowed' \in 0..config'.max /\ actual' \in 0..config'.max
         /\ energy' \in Nat /\ base' \in Nat /\ soc' \in 0..Full
         /\ since' \in 0..Long
<1>1. /\ actual' = Converge(Seconds * config.scale)
      /\ energy' \in Nat /\ base' = energy' /\ since' = 0
      /\ soc' = Least(soc + Most(energy' - base, 0), Full)
  BY ChargeEffect
<1>2. actual' \in 0..config'.max
  BY <1>1, DeltaType, ConvergeBetween
<1>3. soc' \in 0..Full
  <2>1. Most(energy' - base, 0) \in Nat
    BY <1>1, MostType DEF TypeOK
  <2>2. QED
    BY <1>1, <2>1, BatteryAssumption DEF TypeOK, Least
<1>4. target' \in Int /\ target' <= config'.max
  <2>1. target' = IF ramp = NoRamp THEN target ELSE RampCurrent
    BY ChargeMeters
  <2>2. QED
    BY <2>1, RampType DEF TypeOK
<1>5. allowed' \in 0..config'.max
  <2>1. allowed' = MeterTarget(Least(target', Taper(soc')))
    BY ChargeMeters
  <2>2. Taper(soc') \in Int
    BY <1>3, TaperType
  <2>3. Least(target', Taper(soc')) \in Int
    BY <1>4, <2>2, LeastType
  <2>4. QED
    BY <2>1, <2>3, MeterTargetType
<1>6. QED
  BY <1>1, <1>2, <1>3, <1>4, <1>5, ClockAssumption

LEMMA TickType == ASSUME TypeOK, Tick PROVE TypeOK'
<1>1. CASE status = "Charging"
  <2>1. Charge /\ UNCHANGED <<config, status, running, ramp>> /\ gap' = 0 /\ ticking' \in BOOLEAN
    BY <1>1 DEF Tick
  <2>2. QED
    BY <2>1, ChargeType, ClockAssumption DEF TypeOK
<1>2. CASE status # "Charging"
  BY <1>2, ClockAssumption DEF Tick, TypeOK, batteryVars
<1>3. QED
  BY <1>1, <1>2

LEMMA CallType ==
  ASSUME TypeOK, NEW limit \in Int, NEW suspended \in Int, limit <= config.max,
         suspended <= config.max, ApplyLimit(limit, suspended)
  PROVE  TypeOK'
<1>1. MeterTarget(limit) \in 0..config.max
  BY MeterTargetType
<1>2. config' = config /\ target' \in Int /\ target' <= config.max /\ actual' \in 0..config.max
  BY DEF ApplyLimit, TypeOK
<1>3. QED
  BY <1>1, <1>2 DEF ApplyLimit, TypeOK, batteryVars, linkVars

LEMMA TypeStep == TypeOK /\ [Next]_meterVars => TypeOK'
<1> SUFFICES ASSUME TypeOK, [Next]_meterVars PROVE TypeOK'
  OBVIOUS
<1> USE DEF linkVars, batteryVars
<1>1. CASE Second
  BY <1>1, SecondType
<1>2. CASE Tick
  BY <1>2, TickType
<1>3. CASE LoopStarts \/ LoopEnds
  <2>1. /\ running' \in BOOLEAN /\ ticking' \in BOOLEAN
        /\ UNCHANGED <<config, status, since, target, allowed, actual, batteryVars, ramp>>
    BY <1>3 DEF LoopStarts, LoopEnds, TypeOK
  <2>2. gap' \in 0..Late
    BY <1>3, ClockAssumption DEF LoopStarts, LoopEnds, TypeOK
  <2>3. QED
    BY <2>1, <2>2 DEF TypeOK
<1>4. CASE SetTargetCurrent
  <2>1. PICK l \in Limits : ApplyLimit(Least(l, config.max), Least(l, config.max))
    BY <1>4 DEF SetTargetCurrent
  <2>2. Least(l, config.max) \in Int /\ Least(l, config.max) <= config.max
    BY RequestAssumption, LeastType DEF TypeOK
  <2>3. QED
    BY <2>1, <2>2, CallType
<1>5. CASE SetChargingProfile
  <2>1. PICK l \in Limits : ApplyLimit(Least(l, config.max), 0)
    BY <1>5 DEF SetChargingProfile
  <2>2. Least(l, config.max) \in Int /\ Least(l, config.max) <= config.max /\ 0 <= config.max
    BY RequestAssumption, LeastType DEF TypeOK
  <2>3. QED
    BY <2>1, <2>2, CallType
<1>6. CASE ClearChargingProfile
  <2>1. config.max \in Int /\ MeterTarget(config.max) \in 0..config.max
    BY MeterTargetType DEF TypeOK
  <2>2. QED
    BY <1>6, <2>1 DEF ClearChargingProfile, TypeOK
<1>7. CASE SetProfile
  BY <1>7 DEF SetProfile, TypeOK, NoRamp
<1>8. CASE SetSOC
  <2>1. PICK x \in Charges : soc' = Least(Most(x, 0), Full)
    BY <1>8 DEF SetSOC
  <2>2. soc' \in 0..Full
    BY <2>1, RequestAssumption, BatteryAssumption DEF Least, Most
  <2>3. QED
    BY <1>8, <2>2 DEF SetSOC, TypeOK
<1>9. CASE StartTransaction \/ StartAccepted \/ Stop \/ SetFault
  BY <1>9 DEF StartTransaction, StartAccepted, Stop, SetFault, TypeOK
<1>10. CASE UNCHANGED meterVars
  BY <1>10 DEF meterVars, TypeOK
<1>11. QED
  BY <1>1, <1>2, <1>3, <1>4, <1>5, <1>6, <1>7, <1>8, <1>9, <1>10 DEF Next

-----------------------------------------------------------------------------
(* The two facts between ticks *)

LEMMA ClocksStep == TypeOK /\ ClocksAgree /\ [Next]_meterVars => ClocksAgree'
<1> SUFFICES ASSUME TypeOK, ClocksAgree, [Next]_meterVars PROVE ClocksAgree'
  OBVIOUS
<1> USE DEF ClocksAgree, linkVars
<1>1. CASE Second
  BY <1>1, ClockAssumption DEF Second, TypeOK, Least
<1>2. CASE Tick
  <2>1. CASE status = "Charging"
    BY <1>2, <2>1, ChargeMeters DEF Tick
  <2>2. CASE status # "Charging"
    BY <1>2, <2>2 DEF Tick
  <2>3. QED
    BY <2>1, <2>2
<1>3. CASE LoopStarts
  BY <1>3 DEF LoopStarts
<1>4. CASE LoopEnds
  BY <1>4 DEF LoopEnds
<1>5. CASE SetTargetCurrent \/ SetChargingProfile
  BY <1>5 DEF SetTargetCurrent, SetChargingProfile, ApplyLimit
<1>6. CASE ClearChargingProfile \/ SetProfile \/ SetSOC
  BY <1>6 DEF ClearChargingProfile, SetProfile, SetSOC
<1>7. CASE StartTransaction \/ StartAccepted \/ Stop \/ SetFault
  BY <1>7 DEF StartTransaction, StartAccepted, Stop, SetFault
<1>8. CASE UNCHANGED meterVars
  BY <1>8 DEF meterVars
<1>9. QED
  BY <1>1, <1>2, <1>3, <1>4, <1>5, <1>6, <1>7, <1>8 DEF Next

LEMMA BaseStep == TypeOK /\ BaseAhead /\ [Next]_meterVars => BaseAhead'
<1> SUFFICES ASSUME TypeOK, BaseAhead, [Next]_meterVars PROVE BaseAhead'
  OBVIOUS
<1> USE DEF BaseAhead, batteryVars
<1>1. CASE Tick
  <2>1. CASE status = "Charging"
    <3>1. Charge
      BY <1>1, <2>1 DEF Tick
    <3>2. QED
      BY <3>1, ChargeEffect
  <2>2. CASE status # "Charging"
    BY <1>1, <2>2 DEF Tick
  <2>3. QED
    BY <2>1, <2>2
<1>2. CASE Second \/ LoopStarts \/ LoopEnds
  BY <1>2 DEF Second, LoopStarts, LoopEnds
<1>3. CASE SetTargetCurrent \/ SetChargingProfile
  BY <1>3 DEF SetTargetCurrent, SetChargingProfile, ApplyLimit
<1>4. CASE ClearChargingProfile \/ SetProfile
  BY <1>4 DEF ClearChargingProfile, SetProfile
<1>5. CASE SetSOC
  BY <1>5 DEF SetSOC, TypeOK
<1>6. CASE StartTransaction
  BY <1>6 DEF StartTransaction, TypeOK
<1>7. CASE StartAccepted \/ Stop \/ SetFault
  BY <1>7 DEF StartAccepted, Stop, SetFault
<1>8. CASE UNCHANGED meterVars
  BY <1>8 DEF meterVars
<1>9. QED
  BY <1>1, <1>2, <1>3, <1>4, <1>5, <1>6, <1>7, <1>8 DEF Next

LEMMA Invariant == Spec => []IInv
<1>1. IInv /\ [Next]_meterVars => IInv'
  BY TypeStep, ClocksStep, BaseStep DEF IInv
<1>2. QED
  BY <1>1, InitInv, PTL DEF Spec

\* Types and ranges, the configuration NewCharger completes included: SOC stays
\* in range whatever is asked for, and no current exceeds the maximum.
THEOREM TypeCorrect == Spec => []TypeOK
<1>1. IInv => TypeOK
  BY DEF IInv
<1>2. QED
  BY <1>1, Invariant, PTL

-----------------------------------------------------------------------------
(* What a tick may do *)

\* Whatever the current, a tick meters the seconds since the last one at most.
LEMMA TickMeters ==
  IInv /\ [Next]_meterVars =>
      (Tick => energy' - energy <= config.max * config.scale * Late)
<1> SUFFICES ASSUME IInv, Tick
             PROVE  energy' - energy <= config.max * config.scale * Late
  OBVIOUS
<1>1. TypeOK /\ ClocksAgree
  BY DEF IInv
<1>2. config.max \in Nat /\ config.scale \in Nat /\ Late \in Nat /\ energy \in Nat
  BY <1>1, ClockAssumption DEF TypeOK
<1>3. config.max * config.scale * Late \in Nat
  BY <1>2, ProductNat
<1>4. CASE status = "Charging"
  <2>1. Charge
    BY <1>4 DEF Tick
  <2>2. Seconds \in Nat /\ Seconds <= Late
    BY <1>1, ClockAssumption DEF Seconds, ClocksAgree, TypeOK
  <2>3. Seconds * config.scale \in Nat /\ Late * config.scale \in Nat
    BY <1>2, <2>2, ProductNat
  <2>4. Seconds * config.scale <= Late * config.scale
    BY <1>2, <2>2, ProductOrder
  <2>5. Converge(Seconds * config.scale) \in Nat /\ Converge(Seconds * config.scale) <= config.max
    BY <1>1, <1>2, <2>3, ConvergeBetween
  <2>6. Converge(Seconds * config.scale) * (Seconds * config.scale) <= config.max * (Late * config.scale)
    BY <1>2, <2>3, <2>4, <2>5, ProductOrder
  <2>7. config.max * (Late * config.scale) = config.max * config.scale * Late
    BY <1>2, ProductSwap
  <2>8. energy' = energy + Converge(Seconds * config.scale) * (Seconds * config.scale)
    BY <1>1, <2>1, ChargeEffect
  <2>9. Converge(Seconds * config.scale) * (Seconds * config.scale) \in Nat
    BY <2>3, <2>5, ProductNat
  <2>10. QED
    <3> DEFINE metered == Converge(Seconds * config.scale) * (Seconds * config.scale)
               most == config.max * config.scale * Late
    <3>1. metered \in Nat /\ most \in Nat /\ metered <= most /\ energy' = energy + metered
      BY <1>3, <2>6, <2>7, <2>8, <2>9
    <3> HIDE DEF metered, most
    <3>2. energy' - energy <= most
      BY <1>2, <3>1
    <3>3. QED
      BY <3>2 DEF most
<1>5. CASE status # "Charging"
  <2>1. energy' = energy
    BY <1>5 DEF Tick, batteryVars
  <2>2. QED
    <3> DEFINE most == config.max * config.scale * Late
    <3>1. most \in Nat
      BY <1>3
    <3> HIDE DEF most
    <3>2. energy' - energy <= most
      BY <1>2, <2>1, <3>1
    <3>3. QED
      BY <3>2 DEF most
<1>6. QED
  BY <1>4, <1>5

LEMMA TickConverges ==
  IInv /\ [Next]_meterVars =>
      (Tick => \/ actual <= actual' /\ actual' <= allowed
               \/ allowed <= actual' /\ actual' <= actual
               \/ actual' = actual)
<1> SUFFICES ASSUME IInv, Tick
             PROVE  \/ actual <= actual' /\ actual' <= allowed
                    \/ allowed <= actual' /\ actual' <= actual
                    \/ actual' = actual
  OBVIOUS
<1>1. CASE status = "Charging"
  <2>1. TypeOK /\ Charge
    BY <1>1 DEF IInv, Tick
  <2>2. actual' = Converge(Seconds * config.scale) /\ Seconds * config.scale \in Nat
    BY <2>1, ChargeMeters, DeltaType
  <2>3. QED
    BY <2>1, <2>2, ConvergeBetween
<1>2. CASE status # "Charging"
  BY <1>2 DEF Tick
<1>3. QED
  BY <1>1, <1>2

\* The battery's gain when the register goes from e to f and the base is b.
LEMMA CreditArithmetic ==
  ASSUME NEW e \in Nat, NEW f \in Nat, NEW b \in Nat, NEW s \in Nat, e <= f, e <= b
  PROVE  /\ Least(s + Most(f - b, 0), Full) - s <= f - e
         /\ b = e /\ Least(s + Most(f - b, 0), Full) < Full
            => Least(s + Most(f - b, 0), Full) - s = f - e
<1> DEFINE gain == Most(f - b, 0)
<1>1. gain \in Nat /\ gain <= f - e /\ (b = e => gain = f - e)
  BY DEF Most
<1>2. Full \in Nat
  BY BatteryAssumption
<1>3. Least(s + gain, Full) - s <= gain
  <2> HIDE DEF gain
  <2>1. QED
    BY <1>1, <1>2 DEF Least
<1>4. Least(s + gain, Full) < Full => Least(s + gain, Full) - s = gain
  <2> HIDE DEF gain
  <2>1. QED
    BY <1>1, <1>2 DEF Least
<1>5. Least(s + gain, Full) \in Int
  <2> HIDE DEF gain
  <2>1. QED
    BY <1>1, <1>2 DEF Least
<1>6. QED
  <2> HIDE DEF gain
  <2>1. Least(s + gain, Full) - s <= f - e
    BY <1>1, <1>3, <1>5
  <2>2. b = e /\ Least(s + gain, Full) < Full => Least(s + gain, Full) - s = f - e
    BY <1>1, <1>4
  <2>3. QED
    BY <2>1, <2>2 DEF gain

LEMMA TickCredits ==
  IInv /\ [Next]_meterVars =>
      (Tick => /\ soc' - soc <= energy' - energy
               /\ base = energy /\ soc' < Full => soc' - soc = energy' - energy)
<1> SUFFICES ASSUME IInv, Tick
             PROVE  /\ soc' - soc <= energy' - energy
                    /\ base = energy /\ soc' < Full => soc' - soc = energy' - energy
  OBVIOUS
<1>1. /\ TypeOK /\ energy \in Nat /\ base \in Nat /\ energy <= base
      /\ soc \in Nat /\ soc <= Full /\ Full \in Nat
  BY BatteryAssumption DEF IInv, TypeOK, BaseAhead
<1>2. CASE status = "Charging"
  <2>1. Charge
    BY <1>2 DEF Tick
  <2>2. /\ energy' \in Nat /\ energy' >= energy
        /\ soc' = Least(soc + Most(energy' - base, 0), Full)
    BY <1>1, <2>1, ChargeEffect
  <2>3. QED
    BY <1>1, <2>2, CreditArithmetic, ZenonT(60)
<1>3. CASE status # "Charging"
  BY <1>1, <1>3 DEF Tick, batteryVars
<1>4. QED
  BY <1>2, <1>3

\* No energy is metered for a time in which no current was asked for, however
\* long the loop was idle, suspended or away (Touch, line 525).
THEOREM NoIdleEnergyHolds == Spec => NoIdleEnergy
BY Invariant, TickMeters, PTL DEF Spec, NoIdleEnergy

\* The current never passes what the meter allows, at any time scale and after
\* any interval (the clamp at meter.go, line 129).
THEOREM NoOvershootHolds == Spec => NoOvershoot
BY Invariant, TickConverges, PTL DEF Spec, NoOvershoot

\* The battery is credited with what the register gains, once, across resets of
\* the register (lines 533-547).
THEOREM CreditFollowsMeterHolds == Spec => CreditFollowsMeter
BY Invariant, TickCredits, PTL DEF Spec, CreditFollowsMeter
=============================================================================
