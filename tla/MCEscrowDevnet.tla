--------------------------- MODULE MCEscrowDevnet ---------------------------
(***************************************************************************)
(* Instances of EscrowDevnet: model values for the keys.                   *)
(***************************************************************************)
EXTENDS EscrowDevnet, TLC

CONSTANTS issuer, outsider, r1, r2

=============================================================================
