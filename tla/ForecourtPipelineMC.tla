------------------------ MODULE ForecourtPipelineMC ------------------------
(* A small station for TLC: one nozzle, one tank. *)
EXTENDS ForecourtPipeline

CONSTANTS r1, r2, r3, n1, t1

MCTankOf == [n \in Nozzles |-> t1]
MCNozzleOf == [r \in Refs |-> n1]
MCVolume == [r \in Refs |-> IF r = r1 THEN 2 ELSE 1]

=============================================================================
