---------------------------- MODULE MCSettleScan ----------------------------
(***************************************************************************)
(* SettleScan over every transaction of at most MaxInstructions            *)
(* instructions of the twelve shapes below: the transfer a builder makes,  *)
(* another amount or one field off, an instruction of another program,     *)
(* another instruction of the token program, its plain Transfer, one       *)
(* without data, and a TransferChecked with too little data or too few     *)
(* accounts.                                                               *)
(***************************************************************************)
EXTENDS SettleScan, TLC

CONSTANTS
    token, memo, mint, coin, payer, payee, other, from,  \* keys
    MaxInstructions                                      \* bound on a transaction

MCKeys == {token, memo, mint, coin, payer, payee, other, from}

MCTokenPrograms == {token}

Good == BuildTransferChecked(token, from, mint, payee, payer, 2)

Shapes ==
    {Good,
     [Good EXCEPT !.amount = 1],
     [Good EXCEPT !.amount = 0],
     [Good EXCEPT !.accounts = <<from, mint, other, payer>>],
     [Good EXCEPT !.accounts = <<from, coin, payee, payer>>],
     [Good EXCEPT !.accounts = <<from, mint, payee, other>>],
     [Good EXCEPT !.accounts = <<from, mint, payee>>],
     [Good EXCEPT !.size = 9],
     [Good EXCEPT !.size = 0],
     [Good EXCEPT !.tag = 7],
     [Good EXCEPT !.tag = 3, !.size = 9, !.amount = 1, !.accounts = <<from, other, payer>>],
     [Good EXCEPT !.program = memo]}

MCTransactions ==
    UNION {[1..n -> Shapes] : n \in 0..MaxInstructions}

MCBounds ==
    {[payTo |-> payee, asset |-> mint, payer |-> payer, present |-> p, amount |-> a] :
        p \in BOOLEAN, a \in {-1, 0, 2, MaxU64 + 1}}

-----------------------------------------------------------------------------

\* External: the token program's other instruction that moves an amount,
\* Transfer, is tag 3 and eight bytes, and names source, destination and
\* authority.
IsTransfer(ix) ==
    ix.program \in TokenPrograms /\ ix.tag = 3 /\ ix.size >= 9 /\ Len(ix.accounts) >= 3

\* What the token program moves for an instruction, by whom and to whom.
Moves(ix) ==
    CASE Decodes(ix)    -> {[by |-> ix.accounts[4], to |-> ix.accounts[3], amount |-> ix.amount]}
      [] IsTransfer(ix) -> {[by |-> ix.accounts[3], to |-> ix.accounts[2], amount |-> ix.amount]}
      [] OTHER          -> {}

\* "Prove the constructed transaction actually pays the bound
\* recipient/asset/amount under the authorized payer -- no more, no less"
\* (settle/transferchecked.go:3-4): whatever instruction of the token program
\* moves the payer's funds in a transaction the guard accepts is the bound
\* payment.  isTransferChecked (settle/transferchecked.go:107) passes over
\* every other tag.
SignedMovesExactlyTheBound ==
    \A b \in Bounds : answer = "returned" /\ AssertTransactionPays(ixs, b) =>
        \A i \in DOMAIN ixs : \A m \in Moves(ixs[i]) :
            m.by = b.payer => m.to = b.payTo /\ m.amount = b.amount

=============================================================================
