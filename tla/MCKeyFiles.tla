----------------------------- MODULE MCKeyFiles -----------------------------
(***************************************************************************)
(* Instances of KeyFiles: three runs of a generator on one path.           *)
(***************************************************************************)
EXTENDS KeyFiles

CONSTANTS r1, r2, r3, own, absent

=============================================================================
