--------------------------- MODULE FuelStationMC ---------------------------
(* Small stations for TLC: one tank, r1 and r2 on one nozzle, r3 on another. *)
EXTENDS FuelStation

CONSTANTS r1, r2, r3, n1, n2, t1, l1

MCTankOf == [n \in Nozzles |-> t1]
MCNozzleOf == [r \in Refs |-> IF r = r3 THEN n2 ELSE n1]
MCVolume == [r \in Refs |-> IF r = r1 THEN 2 ELSE 1]
MCBatches == {<<r1>>, <<r2, r1>>, <<r3, r2>>}

=============================================================================
