-------------------------- MODULE ProvisioningMC --------------------------
(* Two workers behind two HTTP slots, for TLC. *)
EXTENDS Provisioning, TLC

CONSTANTS d1, d2, w1, w2, p1, p2

(* The workers and the HTTP slots are interchangeable. *)
Interchangeable == Permutations(Workers) \union Permutations(Polls)

=============================================================================
