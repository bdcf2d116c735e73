--------------------------- MODULE PosSyncMC ---------------------------
(* Two orders with lines, one without, two calls that may overlap, for TLC. *)
EXTENDS PosSync, TLC

CONSTANTS c1, c2

=============================================================================
