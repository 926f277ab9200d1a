--------------------------- MODULE ReleaseOnProof ---------------------------
(***************************************************************************)
(* What the escrow path promises (cmd/escrowdevnet/main.go:3-11), without  *)
(* transactions, runs, allowlists or time.  An escrow is opened once and   *)
(* its funds leave it once: to the recipient while a proof of its issuer   *)
(* is outstanding, or back to the payer.  A proof is issued for one        *)
(* escrow; it lapses when the transaction that carries it is gone.         *)
(***************************************************************************)
CONSTANT Escrows

VARIABLES
    state,  \* of each escrow
    proven  \* the escrows for which a proof is outstanding

vars == <<state, proven>>

Init == state = [e \in Escrows |-> "none"] /\ proven = {}

Open(e) ==
    /\ state[e] = "none"
    /\ state' = [state EXCEPT ![e] = "held"]
    /\ UNCHANGED proven

Prove(e) == proven' = proven \cup {e} /\ UNCHANGED state

Lapse(e) == proven' = proven \ {e} /\ UNCHANGED state

Release(e) ==
    /\ state[e] = "held" /\ e \in proven
    /\ state' = [state EXCEPT ![e] = "released"]
    /\ proven' \in {proven, proven \ {e}}

Refund(e) ==
    /\ state[e] = "held"
    /\ state' = [state EXCEPT ![e] = "refunded"]
    /\ UNCHANGED proven

Next == \E e \in Escrows : Open(e) \/ Prove(e) \/ Lapse(e) \/ Release(e) \/ Refund(e)

Spec == Init /\ [][Next]_vars

=============================================================================
