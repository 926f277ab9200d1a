----------------------------- MODULE EscrowLink -----------------------------
(***************************************************************************)
(* FromGate (escrow/link.go): the gate's decision, for a payment to a      *)
(* token account, becomes the parameters of an escrow, which pays a        *)
(* wallet.  The token account is a hash of the wallet and the mint, found  *)
(* by the search of ProgramAddress, so the claim that the wallet owns it   *)
(* is checked by searching again.                                          *)
(*                                                                         *)
(* Keys of the demand are texts: an address, or Garbage when they do not   *)
(* decode.  So is the amount: the integer written, whatever its size.      *)
(***************************************************************************)
EXTENDS ProgramAddress

CONSTANTS
    MaxAmount,  \* 2^64 - 1 in the code
    Garbage,
    Amounts     \* bound on the integers written

Demand == [asset: {"mint", Garbage}, payTo: Address \cup {Garbage}, amount: Amounts \cup {Garbage}]

ASSUME LinkAssumption == MaxAmount \in Nat /\ Amounts \subseteq Int /\ Garbage \notin Address \cup Int \cup {"mint"}

VARIABLES
    demand,  \* what the gate allowed, never assigned
    outcome  \* "called", "deriving", "params" or the error returned

linkVars == <<vars, demand, outcome>>

LinkInit ==
    /\ Init
    /\ demand \in Demand
    /\ outcome = "called"

\* The errors found before any address is derived.
DemandErrors ==
    IF Garbage \in {demand.asset, demand.payTo} THEN {"BadPubkey"}
    ELSE IF demand.amount = Garbage THEN {"ErrBadAmount"}
    ELSE {e \in {"ErrAmountZero"} : demand.amount <= 0}
         \cup {e \in {"ErrAmountNotU64"} : demand.amount > MaxAmount}

Check ==
    /\ outcome = "called"
    /\ outcome' \in IF DemandErrors = {} THEN {"deriving"} ELSE DemandErrors
    /\ UNCHANGED <<vars, demand>>

\* AssociatedTokenAddress, a bump a step.
Derive ==
    /\ outcome = "deriving"
    /\ Next
    /\ UNCHANGED <<demand, outcome>>

\* Mutant of Compare: the derived account is not compared with the demand's.
CompareNothing ==
    /\ outcome = "deriving"
    /\ \/ result = "none" /\ outcome' = "ErrNoPDABump"
       \/ result = "found" /\ outcome' = "params"
    /\ UNCHANGED <<vars, demand>>

Compare ==
    /\ outcome = "deriving"
    /\ \/ result = "none" /\ outcome' = "ErrNoPDABump"
       \/ result = "found" /\ hash[bump] # demand.payTo /\ outcome' = "ErrRecipientMismatch"
       \/ result = "found" /\ hash[bump] = demand.payTo /\ outcome' = "params"
    /\ UNCHANGED <<vars, demand>>

LinkNext == Check \/ Derive \/ Compare

LinkSpec == LinkInit /\ [][LinkNext]_linkVars

-----------------------------------------------------------------------------

\* The wallet's token account as any other implementation derives it: the
\* candidate with the highest bump that is not a point of the curve.
TokenAccount ==
    {hash[b] : b \in {c \in 0..MaxBump :
        ~IsAPoint(hash[c]) /\ \A h \in (c + 1)..MaxBump : IsAPoint(hash[h])}}

\* FromGate (escrow/link.go:79) accepts a demand exactly if its amount is a
\* positive number an SPL token amount can hold and its payTo is the token
\* account of the recipient's wallet: an escrow whose release could never
\* satisfy the recipient constraint is not opened, and any other is.
FromGateIsExact ==
    outcome \notin {"called", "deriving"} =>
        (outcome = "params" <=>
            /\ demand.asset = "mint"
            /\ TokenAccount = {demand.payTo}
            /\ demand.amount # Garbage
            /\ demand.amount \in 1..MaxAmount)

=============================================================================
