----------------------------- MODULE SettleScan -----------------------------
(***************************************************************************)
(* Decoder.FindTransfer as the loop it is: one step per instruction, an    *)
(* early return on the first TransferChecked that does not decode, and the *)
(* three-way switch on the count at the end.  The transaction is whatever  *)
(* a builder or the wire handed over.                                      *)
(***************************************************************************)
EXTENDS SettleGuard

CONSTANTS
    Transactions,  \* the instruction sequences considered
    Bounds         \* the payments that may be demanded

ASSUME TransactionsAssumption ==
    Transactions \subseteq Seq(Instruction) /\ Bounds \subseteq BoundPayment

VARIABLES
    ixs,     \* the argument, never assigned
    next,    \* index of the instruction the next iteration looks at
    found,   \* the local `found`: a set, empty for the zero value
    count,   \* the local `count`
    answer   \* "scanning", "returned" (a transfer) or "refused" (an error)

scanVars == <<ixs, next, found, count, answer>>

ScanInit ==
    /\ ixs \in Transactions
    /\ next = 1
    /\ found = {}
    /\ count = 0
    /\ answer = "scanning"

Scanning == answer = "scanning" /\ next \in DOMAIN ixs

\* Mutant of Skip: the index is advanced twice.
SkipTwo ==
    /\ Scanning
    /\ ~IsTransferChecked(ixs[next])
    /\ next' = next + 2
    /\ UNCHANGED <<ixs, found, count, answer>>

Skip ==
    /\ Scanning
    /\ ~IsTransferChecked(ixs[next])
    /\ next' = next + 1
    /\ UNCHANGED <<ixs, found, count, answer>>

Take ==
    /\ Scanning
    /\ IsTransferChecked(ixs[next])
    /\ Decodes(ixs[next])
    /\ found' = {Decoded(ixs[next])}
    /\ count' = count + 1
    /\ next' = next + 1
    /\ UNCHANGED <<ixs, answer>>

RefuseMalformed ==
    /\ Scanning
    /\ IsTransferChecked(ixs[next])
    /\ ~Decodes(ixs[next])
    /\ found' = {}
    /\ answer' = "refused"
    /\ UNCHANGED <<ixs, next, count>>

\* Mutant of Finish: of several transfers, the last one is returned.
FinishWithLast ==
    /\ answer = "scanning"
    /\ next \notin DOMAIN ixs
    /\ \/ count >= 1 /\ answer' = "returned" /\ UNCHANGED found
       \/ count = 0 /\ answer' = "refused" /\ found' = {}
    /\ UNCHANGED <<ixs, next, count>>

\* The switch after the loop.
Finish ==
    /\ answer = "scanning"
    /\ next \notin DOMAIN ixs
    /\ \/ count = 1 /\ answer' = "returned" /\ UNCHANGED found
       \/ count # 1 /\ answer' = "refused" /\ found' = {}
    /\ UNCHANGED <<ixs, next, count>>

ScanNext == Skip \/ Take \/ RefuseMalformed \/ Finish

ScanSpec == ScanInit /\ [][ScanNext]_scanVars

-----------------------------------------------------------------------------

ScanTypeOK ==
    /\ ixs \in Seq(Instruction)
    /\ next \in 1..(Len(ixs) + 1)
    /\ found \in SUBSET DecodedTransfer
    /\ count \in Nat
    /\ answer \in {"scanning", "returned", "refused"}

\* When FindTransfer (settle/transferchecked.go:102) returns, it has found
\* exactly what the declarative definition says: the one TransferChecked of
\* the whole transaction if there is one and it decodes, and an error in
\* every other case, whatever the order of the instructions.
ScanFindsTheTransfer ==
    answer # "scanning" => /\ found = FindTransfer(ixs)
                           /\ answer = "returned" <=> found # {}

\* A transaction AssertTransactionPays (settle/guard.go:67) accepts has one
\* TransferChecked, and it moves the bound amount of the bound asset from the
\* bound payer to the bound recipient: no decoy, no second instalment, no
\* truncated amount.  Of instructions that are not TransferChecked the guard
\* says nothing, whatever they move (MCSettleScan).
AcceptedTransferIsTheBound ==
    \A b \in Bounds : AssertTransactionPays(ixs, b) =>
        /\ answer # "refused"
        /\ \E i \in DOMAIN ixs :
              /\ Transfers(ixs) = {i}
              /\ ixs[i].accounts[2] = b.asset
              /\ ixs[i].accounts[3] = b.payTo
              /\ ixs[i].accounts[4] = b.payer
              /\ ixs[i].amount = b.amount

\* The guard refuses no transaction it should sign: a payment as the builder
\* makes it (settle/spl.go:42), with any instructions around it that are not
\* TransferChecked of a token program, is accepted for the bound it was
\* built from.
BuiltTransferIsAccepted ==
    \A b \in Bounds :
        /\ b.present
        /\ b.amount \in 0..MaxU64
        /\ \E i \in DOMAIN ixs, p \in TokenPrograms, s \in Keys :
              /\ ixs[i] = BuildTransferChecked(p, s, b.asset, b.payTo, b.payer, b.amount)
              /\ \A j \in DOMAIN ixs \ {i} :
                    ixs[j].program \notin TokenPrograms \/ ixs[j].tag # 12 \/ ixs[j].size = 0
        => answer # "refused" /\ AssertTransactionPays(ixs, b)

=============================================================================
