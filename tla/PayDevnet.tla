----------------------------- MODULE PayDevnet ------------------------------
(***************************************************************************)
(* cmd/paydevnet: a program that makes one payment on the chain, behind    *)
(* the settlement guard, run by hand and any number of times, next to a    *)
(* gateway that pays from the same wallet: both take their key from        *)
(* ~/.config/solana/id.json.  With -tamper it builds a transfer to         *)
(* another account than the one it checks against.                         *)
(*                                                                         *)
(* Each run is known by its place in orders.  Its transactions are kept    *)
(* apart from the gateway's only to tell who sent them; the balance is one.*)
(***************************************************************************)
EXTENDS McpGateway

CONSTANTS
    Orders,      \* the command lines that occur
    Stranger,    \* the account of 32 bytes 0xAA
    MaxOrders    \* bound on the runs

ASSUME PayDevnetAssumption ==
    /\ Orders \subseteq [to: Keys, amount: 0..MaxU64, tamper: BOOLEAN]
    /\ Stranger \in Keys \ {Ata[k] : k \in Keys}
    /\ MaxOrders \in Nat

VARIABLES
    orders,   \* the command line of each run so far
    step,     \* where the last run is
    sent,     \* its transactions and earlier ones, not yet landed
    landed    \* those that landed, ok or failed

ownVars == <<orders, step, sent, landed>>

walletVars == <<vars, ownVars>>

WalletInit ==
    /\ Init
    /\ orders = <<>>
    /\ step = "exit"
    /\ sent = {} /\ landed = {}

order == orders[Len(orders)]

Here(n) == {l \in landed : l.n = n}

To(label) ==
    /\ step' = label
    /\ UNCHANGED <<vars, orders, sent, landed>>

Start(o) ==
    /\ step \in {"exit", "settled"}
    /\ Len(orders) < MaxOrders
    /\ orders' = Append(orders, o)
    /\ step' = "started"
    /\ UNCHANGED <<vars, sent, landed>>

\* log.Fatalf, or the program is interrupted.
Exit == step \in {"started", "solvent", "confirming"} /\ To("exit")

CheckWallet ==
    /\ step = "started"
    /\ funds >= order.amount
    /\ To("solvent")

OrderTransaction ==
    (IF order.to = Payer THEN <<>> ELSE <<CreateAta(order.to)>>)
    \o <<BuildTransferChecked(TokenProgram, Ata[Payer], Asset,
            IF order.tamper THEN Stranger ELSE Ata[order.to], Payer, order.amount)>>

OrderBound ==
    [payTo |-> Ata[order.to], asset |-> Asset, payer |-> Payer, present |-> TRUE,
     amount |-> order.amount]

\* Mutant of SendOrder: the guard checks what the transaction was built from.
SendOrderUnguarded ==
    /\ step = "solvent"
    /\ \E t \in FindTransfer(OrderTransaction) : sent' = sent \cup {[n |-> Len(orders), transfer |-> t]}
    /\ step' = "confirming"
    /\ UNCHANGED <<vars, orders, landed>>

\* The guard accepts; the blockhash, the signature and the sending follow.
SendOrder ==
    /\ step = "solvent"
    /\ AssertTransactionPays(OrderTransaction, OrderBound)
    /\ \E t \in FindTransfer(OrderTransaction) : sent' = sent \cup {[n |-> Len(orders), transfer |-> t]}
    /\ step' = "confirming"
    /\ UNCHANGED <<vars, orders, landed>>

ConfirmOrder ==
    /\ step = "confirming"
    /\ \E l \in Here(Len(orders)) : l.ok
    /\ To("settled")

LandOrder(tx) ==
    /\ sent' = sent \ {tx}
    /\ LET ok == funds >= tx.transfer.amount IN
          /\ landed' = landed \cup {[n |-> tx.n, transfer |-> tx.transfer, ok |-> ok]}
          /\ funds' = IF ok /\ tx.transfer.destination # Ata[Payer]
                      THEN funds - tx.transfer.amount ELSE funds
    /\ UNCHANGED <<devnet, unread, read, pc, payment, log, replies, mempool, ledger, orders, step>>

DropOrder(tx) ==
    /\ sent' = sent \ {tx}
    /\ UNCHANGED <<vars, orders, step, landed>>

PayDevnetNext ==
    \/ \E o \in Orders : Start(o)
    \/ CheckWallet
    \/ SendOrder
    \/ ConfirmOrder
    \/ Exit
    \/ \E tx \in sent : LandOrder(tx) \/ DropOrder(tx)

WalletNext == (OwnNext /\ UNCHANGED ownVars) \/ PayDevnetNext

WalletSpec == WalletInit /\ [][WalletNext]_walletVars

FairWalletSpec == WalletSpec /\ WF_vars(Gateway)

-----------------------------------------------------------------------------

\* What a run of paydevnet sent is one transfer, of the mint, amount and
\* recipient of its command line, and nothing if that said -tamper; and it
\* prints "settled" (cmd/paydevnet/main.go:190) only for a payment that is on
\* the chain and did not fail there, whatever the gateway spent in between.
RunsPayTheirOrder ==
    /\ \A tx \in sent \cup landed :
          /\ tx.n \in DOMAIN orders /\ ~orders[tx.n].tamper
          /\ tx.transfer = [source |-> Ata[Payer], mint |-> Asset,
                            destination |-> Ata[orders[tx.n].to], authority |-> Payer,
                            amount |-> orders[tx.n].amount]
    /\ \A tx \in sent : Here(tx.n) = {}
    /\ step = "settled" => \E l \in Here(Len(orders)) : l.ok

=============================================================================
