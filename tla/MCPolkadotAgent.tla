--------------------------- MODULE MCPolkadotAgent ---------------------------
(* Instances of PolkadotAgent for TLC.                                     *)
EXTENDS PolkadotAgent

CONSTANTS v1, v2

=============================================================================
