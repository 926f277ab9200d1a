-------------------------- MODULE EvidencedPayment --------------------------
(***************************************************************************)
(* What the payer loop promises of each authorization, a token in the      *)
(* hands of one client: it goes from fresh to spent to evidenced to        *)
(* released, one stage at a time, and never back.  It may stop at any      *)
(* stage: an authorization spent but not evidenced is destroyed, one       *)
(* evidenced need not be paid.                                             *)
(***************************************************************************)

CONSTANT Authorizations

VARIABLE stage

Stages == {"fresh", "spent", "evidenced", "released"}

Init == stage = [a \in Authorizations |-> "fresh"]

Advance(a, from, to) ==
    /\ stage[a] = from
    /\ stage' = [stage EXCEPT ![a] = to]

Spend(a) == Advance(a, "fresh", "spent")

Evidence(a) == Advance(a, "spent", "evidenced")

Release(a) == Advance(a, "evidenced", "released")

Next == \E a \in Authorizations : Spend(a) \/ Evidence(a) \/ Release(a)

Spec == Init /\ [][Next]_stage

=============================================================================
