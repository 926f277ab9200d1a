---------------------------- MODULE SettleGuard ----------------------------
(***************************************************************************)
(* The payer-side settlement guard (package settle): which instructions of *)
(* a transaction count as a transfer, how one is decoded, and when the     *)
(* transaction may be signed.                                              *)
(*                                                                         *)
(* An instruction is abstracted to what the decoder looks at: the program, *)
(* the length of the data, its tag byte, its amount field and the ordered  *)
(* account keys.  An error is abstracted to a refusal: every caller only   *)
(* tests err # nil.  FindTransfer is stated here by what it returns; the   *)
(* loop that computes it is module SettleScan.                             *)
(***************************************************************************)
EXTENDS Integers, Sequences

CONSTANTS
    Keys,           \* the 32-byte public keys that occur
    TokenPrograms,  \* Decoder.TokenPrograms, the accepted SPL token programs
    MaxU64          \* 2^64 - 1 in the code: the largest amount a transfer holds

ASSUME GuardAssumption == TokenPrograms \subseteq Keys /\ MaxU64 \in Nat

TransferCheckedDiscriminator == 12

TransferCheckedSize == 10

Instruction ==
    [program: Keys, size: Nat, tag: 0..255, amount: 0..MaxU64, accounts: Seq(Keys)]

DecodedTransfer ==
    [source: Keys, mint: Keys, destination: Keys, authority: Keys, amount: 0..MaxU64]

\* present = FALSE is a nil *big.Int; an amount may be negative or exceed u64.
BoundPayment ==
    [payTo: Keys, asset: Keys, payer: Keys, present: BOOLEAN, amount: Int]

IsTransferChecked(ix) ==
    /\ ix.program \in TokenPrograms
    /\ ix.size >= 1
    /\ ix.tag = TransferCheckedDiscriminator

\* Mutant of Decodes: the length check is off by one.
DecodesLonger(ix) ==
    /\ ix.program \in TokenPrograms
    /\ ix.size > TransferCheckedSize
    /\ ix.tag = TransferCheckedDiscriminator
    /\ Len(ix.accounts) >= 4

\* Decode returns no error.
Decodes(ix) ==
    /\ ix.program \in TokenPrograms
    /\ ix.size >= TransferCheckedSize
    /\ ix.tag = TransferCheckedDiscriminator
    /\ Len(ix.accounts) >= 4

\* What Decode returns when it returns no error.
Decoded(ix) ==
    [source |-> ix.accounts[1], mint |-> ix.accounts[2],
     destination |-> ix.accounts[3], authority |-> ix.accounts[4],
     amount |-> ix.amount]

Transfers(ixs) == {i \in DOMAIN ixs : IsTransferChecked(ixs[i])}

\* The transfers FindTransfer may return: one if it succeeds, none if it
\* returns an error (no transfer, several, or one that does not decode).
FindTransfer(ixs) ==
    {Decoded(ixs[i]) : i \in {j \in DOMAIN ixs : Transfers(ixs) = {j} /\ Decodes(ixs[j])}}

\* Mutant of AssertMatches: the authority is not compared.
AssertMatchesAnyPayer(t, b) ==
    /\ t.destination = b.payTo
    /\ t.mint = b.asset
    /\ b.present
    /\ b.amount \in 0..MaxU64
    /\ t.amount = b.amount

AssertMatches(t, b) ==
    /\ t.destination = b.payTo
    /\ t.mint = b.asset
    /\ t.authority = b.payer
    /\ b.present
    /\ b.amount \in 0..MaxU64
    /\ t.amount = b.amount

AssertTransactionPays(ixs, b) == \E t \in FindTransfer(ixs) : AssertMatches(t, b)

BuildTransferChecked(program, source, mint, destination, authority, amount) ==
    [program |-> program, size |-> TransferCheckedSize,
     tag |-> TransferCheckedDiscriminator, amount |-> amount,
     accounts |-> <<source, mint, destination, authority>>]

=============================================================================
