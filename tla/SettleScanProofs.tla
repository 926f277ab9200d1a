-------------------------- MODULE SettleScanProofs --------------------------
(***************************************************************************)
(* What the settlement guard guarantees of every transaction, of any       *)
(* length: the scan computes FindTransfer, and a transaction the guard     *)
(* accepts has one TransferChecked, which is the bound payment.            *)
(***************************************************************************)
EXTENDS SettleScan, TLAPS

\* The transfers among the instructions already looked at.
Seen == {i \in 1..(next - 1) : IsTransferChecked(ixs[i])}

\* What the loop maintains: count and found describe Seen.
LoopInv ==
    answer = "scanning" =>
        /\ count = 0 => Seen = {} /\ found = {}
        /\ count = 1 => \E j \in Seen : /\ Seen = {j}
                                        /\ Decodes(ixs[j])
                                        /\ found = {Decoded(ixs[j])}
        /\ count > 1 => \E i, j \in Seen : i # j

ScanInv == ScanTypeOK /\ LoopInv /\ ScanFindsTheTransfer

\* Decode (settle/transferchecked.go:75) returns a transfer for an instruction
\* with enough accounts.
LEMMA DecodedType ==
    ASSUME NEW ix \in Instruction, Decodes(ix)
    PROVE  Decoded(ix) \in DecodedTransfer
  BY DEF Instruction, Decodes, Decoded, DecodedTransfer

\* No transfer, or several, or one that does not decode: FindTransfer returns
\* an error.
LEMMA NothingFound ==
    ASSUME NEW t, \A j \in DOMAIN t : ~(Transfers(t) = {j} /\ Decodes(t[j]))
    PROVE  FindTransfer(t) = {}
  BY DEF FindTransfer

\* A transaction with one transfer, which decodes, yields that transfer.
LEMMA OneFound ==
    ASSUME NEW t, NEW j \in DOMAIN t, Transfers(t) = {j}, Decodes(t[j])
    PROVE  FindTransfer(t) = {Decoded(t[j])}
  BY DEF FindTransfer

\* Before the loop nothing is found.
LEMMA ScanStarts == ScanInit => ScanInv
  <1> SUFFICES ASSUME ScanInit PROVE ScanInv
    OBVIOUS
  <1>1. ScanTypeOK
    BY TransactionsAssumption DEF ScanInit, ScanTypeOK
  <1>2. LoopInv
    BY DEF ScanInit, LoopInv, Seen
  <1>3. ScanFindsTheTransfer
    BY DEF ScanInit, ScanFindsTheTransfer
  <1>4. QED
    BY <1>1, <1>2, <1>3 DEF ScanInv

\* One step per instruction looked at, and the switch behind the loop.
LEMMA ScanStep == ScanInv /\ [ScanNext]_scanVars => ScanInv'
  <1> SUFFICES ASSUME ScanInv, [ScanNext]_scanVars PROVE ScanInv'
    OBVIOUS
  <1> USE DEF ScanInv
  <1>type. /\ ixs \in Seq(Instruction)
           /\ next \in 1..(Len(ixs) + 1) /\ next \in Nat
           /\ count \in Nat
           /\ DOMAIN ixs = 1..Len(ixs) /\ Len(ixs) \in Nat
    BY DEF ScanTypeOK
  <1>1. CASE Skip
    <2>1. Seen' = Seen
      BY <1>1, <1>type DEF Skip, Seen, Scanning
    <2>2. ScanTypeOK'
      BY <1>1, <1>type DEF Skip, ScanTypeOK, Scanning
    <2>3. LoopInv'
      BY <1>1, <2>1 DEF Skip, LoopInv, Scanning
    <2>4. ScanFindsTheTransfer'
      BY <1>1 DEF Skip, Scanning, ScanFindsTheTransfer
    <2>5. QED
      BY <2>2, <2>3, <2>4
  <1>2. CASE Take
    <2>1. Seen' = Seen \cup {next} /\ next \notin Seen
      BY <1>2, <1>type DEF Take, Seen, Scanning
    <2>2. ScanTypeOK'
      <3>1. ixs[next] \in Instruction
        BY <1>2, <1>type DEF Take, Scanning
      <3>2. found' \in SUBSET DecodedTransfer
        BY <1>2, <3>1, DecodedType DEF Take
      <3>3. QED
        BY <1>2, <1>type, <3>2 DEF Take, ScanTypeOK, Scanning
    <2>3. LoopInv'
      <3>1. CASE count = 0
        <4>1. Seen' = {next}
          BY <1>2, <2>1, <3>1 DEF Take, LoopInv, Scanning
        <4>2. QED
          BY <1>2, <3>1, <4>1 DEF Take, LoopInv
      <3>2. CASE count > 0
        <4>1. \E i \in Seen : TRUE
          BY <1>2, <1>type, <3>2 DEF Take, LoopInv, Scanning
        <4>2. \E i, j \in Seen' : i # j
          BY <2>1, <4>1
        <4>3. count' > 1
          BY <1>2, <1>type, <3>2 DEF Take
        <4>4. QED
          BY <4>2, <4>3 DEF LoopInv
      <3>3. QED
        BY <1>type, <3>1, <3>2
    <2>4. ScanFindsTheTransfer'
      BY <1>2 DEF Take, Scanning, ScanFindsTheTransfer
    <2>5. QED
      BY <2>2, <2>3, <2>4
  <1>3. CASE RefuseMalformed
    <2>1. FindTransfer(ixs) = {}
      <3>1. next \in Transfers(ixs) /\ ~Decodes(ixs[next])
        BY <1>3 DEF RefuseMalformed, Scanning, Transfers
      <3>2. QED
        BY <3>1, NothingFound
    <2>2. ScanTypeOK'
      BY <1>3, <1>type DEF RefuseMalformed, ScanTypeOK
    <2>3. LoopInv'
      BY <1>3 DEF RefuseMalformed, LoopInv
    <2>4. ScanFindsTheTransfer'
      BY <1>3, <2>1 DEF RefuseMalformed, ScanFindsTheTransfer
    <2>5. QED
      BY <2>2, <2>3, <2>4
  <1>4. CASE Finish
    <2>1. Seen = Transfers(ixs)
      BY <1>4, <1>type DEF Finish, Seen, Transfers
    <2>2. ScanTypeOK'
      BY <1>4, <1>type DEF Finish, ScanTypeOK
    <2>3. LoopInv'
      BY <1>4 DEF Finish, LoopInv
    <2>4. ScanFindsTheTransfer'
      <3>1. CASE count = 1
        <4>1. PICK j \in Seen : /\ Seen = {j}
                                /\ Decodes(ixs[j])
                                /\ found = {Decoded(ixs[j])}
          BY <1>4, <3>1 DEF Finish, LoopInv
        <4>2. FindTransfer(ixs) = found
          BY <2>1, <4>1, OneFound DEF Transfers
        <4>3. found # {}
          BY <4>1
        <4>4. QED
          BY <1>4, <3>1, <4>2, <4>3 DEF Finish, ScanFindsTheTransfer
      <3>2. CASE count # 1
        <4>1. Seen = {} \/ \E i, j \in Seen : i # j
          BY <1>4, <1>type, <3>2 DEF Finish, LoopInv
        <4>2. FindTransfer(ixs) = {}
          BY <2>1, <4>1, NothingFound
        <4>3. QED
          BY <1>4, <3>2, <4>2 DEF Finish, ScanFindsTheTransfer
      <3>3. QED
        BY <3>1, <3>2
    <2>5. QED
      BY <2>2, <2>3, <2>4
  <1>5. CASE UNCHANGED scanVars
    BY <1>5 DEF scanVars, ScanTypeOK, LoopInv, Seen, ScanFindsTheTransfer
  <1>6. QED
    BY <1>1, <1>2, <1>3, <1>4, <1>5 DEF ScanNext

\* The scan's state is well typed for transactions of every length.
THEOREM ScanTypeCorrect == ScanSpec => []ScanTypeOK
  <1>1. ScanSpec => []ScanInv
    BY ScanStarts, ScanStep, PTL DEF ScanSpec
  <1>2. ScanInv => ScanTypeOK
    BY DEF ScanInv
  <1>3. QED
    BY <1>1, <1>2, PTL

\* The loop of FindTransfer (settle/transferchecked.go:102) returns what its
\* comment says for transactions of every length: the one TransferChecked if
\* there is one and it decodes, an error in every other case.
THEOREM ScanFindsTheTransferAlways == ScanSpec => []ScanFindsTheTransfer
  <1>1. ScanSpec => []ScanInv
    BY ScanStarts, ScanStep, PTL DEF ScanSpec
  <1>2. ScanInv => ScanFindsTheTransfer
    BY DEF ScanInv
  <1>3. QED
    BY <1>1, <1>2, PTL

\* A transaction AssertTransactionPays (settle/guard.go:67) accepts has one
\* TransferChecked, and it moves the bound amount of the bound asset from the
\* bound payer to the bound recipient; so it is accepted for no other bound.
THEOREM AcceptedMovesTheBound ==
    ASSUME NEW t \in Seq(Instruction), NEW b \in BoundPayment,
           AssertTransactionPays(t, b)
    PROVE  /\ \E i \in DOMAIN t :
                /\ Transfers(t) = {i}
                /\ Decoded(t[i]) = [source |-> t[i].accounts[1], mint |-> b.asset,
                                    destination |-> b.payTo, authority |-> b.payer,
                                    amount |-> b.amount]
           /\ \A c \in BoundPayment : AssertTransactionPays(t, c) => c = b
  <1>1. PICK i \in DOMAIN t : /\ Transfers(t) = {i}
                              /\ FindTransfer(t) = {Decoded(t[i])}
                              /\ AssertMatches(Decoded(t[i]), b)
    <2>1. PICK f \in FindTransfer(t) : AssertMatches(f, b)
      BY DEF AssertTransactionPays
    <2>2. PICK i \in DOMAIN t : Transfers(t) = {i} /\ Decodes(t[i]) /\ f = Decoded(t[i])
      BY <2>1 DEF FindTransfer
    <2>3. QED
      BY <2>1, <2>2, OneFound
  <1>2. Decoded(t[i]) = [source |-> t[i].accounts[1], mint |-> b.asset,
                         destination |-> b.payTo, authority |-> b.payer,
                         amount |-> b.amount]
    BY <1>1 DEF AssertMatches, Decoded
  <1>3. ASSUME NEW c \in BoundPayment, AssertTransactionPays(t, c) PROVE c = b
    <2>1. AssertMatches(Decoded(t[i]), c)
      BY <1>1, <1>3 DEF AssertTransactionPays
    <2>2. /\ c.payTo = b.payTo /\ c.asset = b.asset /\ c.payer = b.payer
          /\ c.present /\ b.present /\ c.amount = b.amount
      BY <1>1, <2>1 DEF AssertMatches
    <2>3. c.present = b.present
      BY <2>2, <1>3 DEF BoundPayment
    <2>4. QED
      BY <2>2, <2>3 DEF BoundPayment
  <1>4. QED
    BY <1>1, <1>2, <1>3

\* The guard refuses no payment it should sign: a transfer as the builder
\* makes it (settle/spl.go:42), among any instructions that are not
\* TransferChecked of a token program, is accepted for the bound it was
\* built from.
THEOREM BuiltTransferPays ==
    ASSUME NEW t \in Seq(Instruction), NEW b \in BoundPayment, NEW i \in DOMAIN t,
           NEW program \in TokenPrograms, NEW source \in Keys,
           b.present, b.amount \in 0..MaxU64,
           t[i] = BuildTransferChecked(program, source, b.asset, b.payTo, b.payer, b.amount),
           \A j \in DOMAIN t \ {i} : ~IsTransferChecked(t[j])
    PROVE  AssertTransactionPays(t, b)
  <1> DEFINE transfer == [source |-> source, mint |-> b.asset, destination |-> b.payTo,
                          authority |-> b.payer, amount |-> b.amount]
  <1>1. IsTransferChecked(t[i]) /\ Decodes(t[i]) /\ Decoded(t[i]) = transfer
    BY DEF BuildTransferChecked, IsTransferChecked, Decodes, Decoded,
           TransferCheckedSize, TransferCheckedDiscriminator
  <1>2. Transfers(t) = {i}
    BY <1>1 DEF Transfers
  <1>3. transfer \in FindTransfer(t)
    BY <1>1, <1>2 DEF FindTransfer
  <1>4. AssertMatches(transfer, b)
    BY DEF AssertMatches
  <1>5. QED
    BY <1>3, <1>4 DEF AssertTransactionPays

\* For transactions of every length and every bound: what the guard accepts
\* (settle/guard.go:67) has one TransferChecked, the bound payment, and the
\* scan does not refuse it.
THEOREM AcceptedTransferIsTheBoundAlways == ScanSpec => []AcceptedTransferIsTheBound
  <1>1. ScanInv => AcceptedTransferIsTheBound
    <2> SUFFICES ASSUME ScanInv, NEW b \in Bounds, AssertTransactionPays(ixs, b)
                 PROVE  /\ answer # "refused"
                        /\ \E i \in DOMAIN ixs :
                              /\ Transfers(ixs) = {i}
                              /\ ixs[i].accounts[2] = b.asset
                              /\ ixs[i].accounts[3] = b.payTo
                              /\ ixs[i].accounts[4] = b.payer
                              /\ ixs[i].amount = b.amount
      BY DEF AcceptedTransferIsTheBound
    <2>1. ixs \in Seq(Instruction) /\ b \in BoundPayment
      BY TransactionsAssumption DEF ScanInv, ScanTypeOK
    <2>2. PICK i \in DOMAIN ixs : /\ Transfers(ixs) = {i}
                                 /\ Decodes(ixs[i])
                                 /\ AssertMatches(Decoded(ixs[i]), b)
      BY DEF AssertTransactionPays, FindTransfer
    <2>3. /\ ixs[i].accounts[2] = b.asset
          /\ ixs[i].accounts[3] = b.payTo
          /\ ixs[i].accounts[4] = b.payer
          /\ ixs[i].amount = b.amount
      BY <2>2 DEF AssertMatches, Decoded
    <2>4. answer # "refused"
      <3>1. FindTransfer(ixs) # {}
        BY DEF AssertTransactionPays
      <3>2. QED
        BY <3>1 DEF ScanInv, ScanFindsTheTransfer
    <2>5. QED
      BY <2>2, <2>3, <2>4
  <1>2. ScanSpec => []ScanInv
    BY ScanStarts, ScanStep, PTL DEF ScanSpec
  <1>3. QED
    BY <1>1, <1>2, PTL

\* For transactions of every length: the scan does not end in an error on a
\* payment as the builder makes it (settle/spl.go:42), and the guard accepts it.
THEOREM BuiltTransferIsAcceptedAlways == ScanSpec => []BuiltTransferIsAccepted
  <1>1. ScanInv => BuiltTransferIsAccepted
    <2> SUFFICES ASSUME ScanInv, NEW b \in Bounds, b.present, b.amount \in 0..MaxU64,
                        NEW i \in DOMAIN ixs, NEW p \in TokenPrograms, NEW s \in Keys,
                        ixs[i] = BuildTransferChecked(p, s, b.asset, b.payTo, b.payer, b.amount),
                        \A j \in DOMAIN ixs \ {i} :
                          ixs[j].program \notin TokenPrograms \/ ixs[j].tag # 12 \/ ixs[j].size = 0
                 PROVE  answer # "refused" /\ AssertTransactionPays(ixs, b)
      BY DEF BuiltTransferIsAccepted
    <2>1. ixs \in Seq(Instruction) /\ b \in BoundPayment
      BY TransactionsAssumption DEF ScanInv, ScanTypeOK
    <2>2. \A j \in DOMAIN ixs \ {i} : ~IsTransferChecked(ixs[j])
      BY <2>1 DEF IsTransferChecked, TransferCheckedDiscriminator
    <2>3. AssertTransactionPays(ixs, b)
      BY <2>1, <2>2, BuiltTransferPays
    <2>4. FindTransfer(ixs) # {}
      BY <2>3 DEF AssertTransactionPays
    <2>5. answer # "refused"
      BY <2>4 DEF ScanInv, ScanFindsTheTransfer
    <2>6. QED
      BY <2>3, <2>5
  <1>2. ScanSpec => []ScanInv
    BY ScanStarts, ScanStep, PTL DEF ScanSpec
  <1>3. QED
    BY <1>1, <1>2, PTL

=============================================================================
