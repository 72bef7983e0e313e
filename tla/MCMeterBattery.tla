--------------------------- MODULE MCMeterBattery ---------------------------
(* A small instance of MeterBattery for TLC. *)
EXTENDS MeterBattery

\* A common charger that is to be charged fully; one accelerated, with the
\* default goal; one whose maximum is below the threshold; one that Validate
\* refuses.
SmallConfigs == {
    [max |-> 8, initial |-> 0, goal |-> 10, scale |-> 0],
    [max |-> 7, initial |-> 6, goal |-> 0, scale |-> 3],
    [max |-> 5, initial |-> 5, goal |-> 9, scale |-> 1],
    [max |-> 0, initial |-> 5, goal |-> 9, scale |-> 1]}

SmallLimits == {5, 6}
SmallCharges == {-1, 11}
=============================================================================
