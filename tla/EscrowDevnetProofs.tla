------------------------- MODULE EscrowDevnetProofs -------------------------
(***************************************************************************)
(* The driver and the chain implement release on proof, for any number of  *)
(* deposits and keys, any clock and any modes, with runs killed anywhere   *)
(* and transactions that land late; a run that ends well did what its mode *)
(* says; without interruption every open escrow stays within reach.        *)
(***************************************************************************)
EXTENDS EscrowDevnet, TLAPS

OpName == Kinds \cup {"read_config"}

InFlight == {t \in orphans \cup {tx} : t # NoTx}

OnEscrow == Releases \cup {"refund_expired", "init_escrow"}

\* What Unsent makes of each kind: only "release" could release.
Honest(t) ==
    /\ t.kind \in OnEscrow => t.id \in Deposits
    /\ t.kind \in {"init_escrow", "release"} => t.signer = Issuer
    /\ t.kind = "release" => t.bound
    /\ t.kind = "deny-binding" => ~t.bound
    /\ t.kind \in {"deny-issuer", "deny-unpinned"} => t.signer # Issuer

AllHonest == \A t \in InFlight : Honest(t)

Pinned == \A d \in Deposits : pin[d] = Issuer

\* A deposit not yet landed has its nonce, and so its escrow, to itself.
Opens(t) == t.kind = "init_escrow"

Fresh ==
    /\ \A d \in Deposits : d > deposits => escrow[d] = "none"
    /\ \A t \in InFlight : Opens(t) => t.id <= deposits
    /\ \A t \in orphans : Opens(t) => escrow[t.id] = "none"
    /\ \A t, u \in orphans : Opens(t) /\ Opens(u) /\ t.id = u.id => t = u
    /\ tx # NoTx /\ Opens(tx) =>
          /\ \A t \in orphans : Opens(t) => t.id # tx.id
          /\ result = "pending" => escrow[tx.id] = "none"
          /\ result = "ok" => escrow[tx.id] # "none"

\* The transaction of a run is that of its current operation.
InStep ==
    /\ pc \in {"idle", "ready", "built"} => result = "pending"
    /\ tx # NoTx => tx.kind = Head(todo)
    /\ pc = "confirmed" /\ Head(todo) = "init_escrow" => result = "ok"

IInv ==
    /\ TypeOK /\ AllHonest /\ Pinned /\ Fresh /\ InStep
    /\ TicketNamesAnEscrow

\* The empty sequence has every type.
LEMMA EmptyIsSeq ==
    ASSUME NEW S
    PROVE  <<>> \in Seq(S)
OBVIOUS

\* The bounds, and the keys apart from one another.
LEMMA Ranges ==
    /\ 0 \in 0..MaxClock /\ 0 \in 0..MaxDeposits
    /\ MaxClock \in Nat /\ MaxDeposits \in Nat
    /\ Issuer \in Signers /\ Outsider \in Signers /\ Rogues \subseteq Signers
    /\ Issuer \notin Rogues \cup {Outsider}
<1>1. MaxClock \in Nat /\ MaxDeposits \in Nat
  BY DevnetAssumption
<1>2. Issuer \notin Rogues \cup {Outsider}
  BY DevnetAssumption
<1>. QED
  BY <1>1, <1>2 DEF Signers

\* At the start there is no escrow and nothing in flight.
LEMMA IInvInit == Init => IInv
<1>. SUFFICES ASSUME Init PROVE IInv
  OBVIOUS
<1>. USE DEF Init
<1>1. TypeOK
  <2>1. /\ 0 \in 0..MaxClock /\ 0 \in 0..MaxDeposits
        /\ Issuer \in Signers /\ {} \subseteq Signers
    BY Ranges
  <2>2. /\ escrow \in [Deposits -> {"none", "held", "released", "refunded"}]
        /\ pin \in [Deposits -> Signers] /\ opened \in [Deposits -> 0..MaxClock]
    BY <2>1
  <2>3. finalized \in [configured: BOOLEAN, allowlist: SUBSET Signers]
    BY <2>1
  <2>4. todo \in Seq(Kinds \cup {"read_config"})
    BY EmptyIsSeq
  <2>. QED
    BY <2>1, <2>2, <2>3, <2>4 DEF TypeOK
<1>2. AllHonest /\ Pinned /\ Fresh /\ InStep /\ TicketNamesAnEscrow
  BY DEF AllHonest, Pinned, Fresh, InStep, TicketNamesAnEscrow, InFlight
<1>. QED
  BY <1>1, <1>2 DEF IInv

-----------------------------------------------------------------------------
(* What a transaction does to the chain.                                   *)

SameEscrows == UNCHANGED <<escrow, pin, opened>>

\* The three ways an escrow changes.
Opened(t) ==
    /\ t.kind = "init_escrow" /\ t.id \in Deposits
    /\ escrow' = [escrow EXCEPT ![t.id] = "held"]
    /\ pin' = [pin EXCEPT ![t.id] = Issuer]
    /\ opened' = [opened EXCEPT ![t.id] = clock]

Refunded(d) ==
    /\ d \in Deposits /\ escrow[d] = "held"
    /\ escrow' = [escrow EXCEPT ![d] = "refunded"]
    /\ UNCHANGED <<pin, opened>>

Released(t) ==
    /\ t.kind = "release" /\ t.id \in Deposits /\ escrow[t.id] = "held"
    /\ t.bound /\ t.signer = Issuer /\ Issuer \in allowlist
    /\ escrow' = [escrow EXCEPT ![t.id] = "released"]
    /\ UNCHANGED <<pin, opened>>

\* An error is neither success nor the lack of a result.
LEMMA ErrorsAreErrors ==
    ASSUME NEW t \in Tx
    PROVE  "ok" \notin Errors(t) /\ "pending" \notin Errors(t)
<1>1. t.kind \in Kinds
  BY DEF Tx
<1>2. CASE t.kind = "init_config"
  BY <1>2 DEF Errors, Releases
<1>3. CASE t.kind \in {"add_issuer", "add_rogue"}
  BY <1>3 DEF Errors, AddErrors, Releases
<1>4. CASE t.kind = "remove_rogue"
  BY <1>4 DEF Errors, Releases
<1>5. CASE t.kind = "init_escrow"
  BY <1>5 DEF Errors, Releases
<1>6. CASE t.kind = "refund_expired"
  BY <1>6 DEF Errors, Releases
<1>7. CASE t.kind \in Releases
  <2>1. "ok" \notin ReleaseErrors(t) /\ "pending" \notin ReleaseErrors(t)
    BY DEF ReleaseErrors
  <2>2. Errors(t) = IF escrow[t.id] # "held" THEN {"closed"} ELSE ReleaseErrors(t)
    BY <1>7 DEF Errors, Releases
  <2>. QED
    BY <2>1, <2>2
<1>. QED
  BY <1>1, <1>2, <1>3, <1>4, <1>5, <1>6, <1>7 DEF Kinds

\* A transaction executed opens, refunds or releases its own escrow, or touches none.
LEMMA ExecuteEffect ==
    ASSUME TypeOK, Pinned, NEW t \in Tx, Honest(t), NEW fate, Execute(t, fate)
    PROVE  /\ configured' \in BOOLEAN /\ allowlist' \subseteq Signers
           /\ fate # "pending"
           /\ \/ SameEscrows /\ (t.kind = "init_escrow" => fate # "ok")
              \/ Opened(t) /\ fate = "ok"
              \/ t.kind = "refund_expired" /\ Refunded(t.id)
              \/ Released(t)
<1>. USE DEF Execute
<1>1. fate # "pending"
  BY ErrorsAreErrors
<1>2. CASE fate # "ok"
  <2>1. UNCHANGED chain
    BY <1>2
  <2>. QED
    BY <1>1, <1>2, <2>1 DEF chain, SameEscrows, TypeOK
<1>3. CASE fate = "ok"
  <2>1. Apply(t) /\ Errors(t) = {}
    BY <1>3, ErrorsAreErrors
  <2>2. configured' \in BOOLEAN /\ allowlist' \subseteq Signers
    BY <2>1 DEF Apply, TypeOK, Tx
  <2>3. CASE t.kind = "init_escrow"
    <3>1. Opened(t)
      BY <2>1, <2>3 DEF Apply, Opened, Honest, OnEscrow, Releases
    <3>. QED
      BY <1>1, <1>3, <2>2, <3>1
  <2>4. CASE t.kind = "refund_expired"
    <3>1. Refunded(t.id)
      BY <2>1, <2>4 DEF Apply, Errors, Refunded, Honest, OnEscrow, Releases
    <3>. QED
      BY <1>1, <2>2, <2>4, <3>1
  <2>5. CASE t.kind \in Releases
    <3>1. Errors(t) = IF escrow[t.id] # "held" THEN {"closed"} ELSE ReleaseErrors(t)
      BY <2>5 DEF Errors, Releases
    <3>2. t.id \in Deposits /\ escrow[t.id] = "held" /\ ReleaseErrors(t) = {}
      BY <2>1, <2>5, <3>1 DEF Honest, OnEscrow
    <3>3. t.bound /\ t.signer \in allowlist /\ t.signer = Issuer
      BY <3>2 DEF ReleaseErrors, Pinned
    <3>4. t.kind = "release"
      BY <2>5, <3>3 DEF Honest, Releases
    <3>5. Released(t)
      BY <2>1, <3>2, <3>3, <3>4 DEF Apply, Released, Releases
    <3>. QED
      BY <1>1, <2>2, <3>5
  <2>6. CASE t.kind \in {"init_config", "add_issuer", "add_rogue", "remove_rogue"}
    <3>1. SameEscrows
      BY <2>1, <2>6 DEF Apply, SameEscrows, Releases
    <3>. QED
      BY <1>1, <2>2, <2>6, <3>1
  <2>. QED
    BY <2>3, <2>4, <2>5, <2>6 DEF Tx, Kinds
<1>. QED
  BY <1>2, <1>3

-----------------------------------------------------------------------------
(* What a step of the driver does to its own state.                        *)

\* An operation is over, whatever way: the run keeps no transaction, and what
\* it was still waiting for stays in flight.
Clear ==
    /\ tx' = NoTx /\ result' = "pending"
    /\ pc' \in {"idle", "ready"}
    /\ todo' \in Seq(OpName) /\ (pc' = "idle" <=> todo' = <<>>)
    /\ \/ orphans' = orphans
       \/ pc = "waiting" /\ result = "pending" /\ orphans' = orphans \cup {tx}
    /\ UNCHANGED <<mode, chain, finalized, clock, rogue, deposits, rogues>>

\* The end of a run leaves its transaction to the orphans.
LEMMA EndClears ==
    ASSUME NEW why, End(why), UNCHANGED <<chain, finalized, clock, rogue, deposits, rogues>>
    PROVE  Clear
BY EmptyIsSeq DEF End, Clear

\* Going on to the next operation leaves no transaction behind.
LEMMA ProceedClears ==
    ASSUME NEW rest \in Seq(OpName), Proceed(rest),
           UNCHANGED <<chain, finalized, clock, rogue, deposits, rogues>>
    PROVE  Clear
<1>1. CASE rest = <<>>
  BY <1>1, EndClears DEF Proceed
<1>2. CASE rest # <<>>
  BY <1>2 DEF Proceed, Clear
<1>. QED
  BY <1>1, <1>2

\* The invariant survives a run that lets go of its transaction.
LEMMA ClearKeeps ==
    ASSUME IInv, Clear, ticket' \in Deposits \cup {NoTicket},
           ticket' # NoTicket => escrow[ticket'] # "none"
    PROVE  IInv'
<1>. USE DEF IInv, Clear
<1>1. TypeOK'
  BY DEF TypeOK, chain, OpName
<1>2. \A t \in InFlight' : t \in InFlight
  BY DEF InFlight
<1>3. AllHonest' /\ Pinned'
  BY <1>2 DEF AllHonest, Honest, Pinned, chain
<1>4. Fresh'
  <2>1. CASE orphans' = orphans
    BY <1>2, <2>1 DEF Fresh, chain, Opens
  <2>2. CASE pc = "waiting" /\ result = "pending" /\ orphans' = orphans \cup {tx}
    <3>1. tx # NoTx
      BY <2>2 DEF TypeOK
    <3>. QED
      BY <1>2, <2>2, <3>1 DEF Fresh, chain, Opens
  <2>. QED
    BY <2>1, <2>2
<1>5. InStep' /\ TicketNamesAnEscrow'
  BY DEF InStep, TicketNamesAnEscrow, chain
<1>. QED
  BY <1>1, <1>3, <1>4, <1>5

\* A transaction is assembled for the current operation.
Assemble ==
    /\ pc = "ready" /\ pc' = "built"
    /\ tx' \in Tx /\ Honest(tx') /\ tx'.kind = Head(todo)
    /\ Opens(tx') => /\ tx'.id = deposits + 1 /\ tx'.id \in Deposits
                     /\ deposits' = deposits + 1
    /\ ~Opens(tx') => deposits' = deposits
    /\ rogue' \in Rogues \cup {Outsider} /\ rogues' \subseteq Rogues
    /\ UNCHANGED <<chain, finalized, orphans, clock, mode, todo, result, ticket>>

\* It survives a transaction assembled,
LEMMA AssembleKeeps ==
    ASSUME IInv, Assemble
    PROVE  IInv'
<1>. USE DEF IInv, Assemble
<1>1. deposits \in Nat /\ deposits' \in deposits..(deposits + 1) /\ deposits' \in 0..MaxDeposits
  BY DevnetAssumption DEF TypeOK, Deposits
<1>2. TypeOK'
  BY <1>1, NoTxAssumption DEF TypeOK, chain
<1>3. tx' # NoTx /\ InFlight' = {t \in orphans \cup {tx'} : t # NoTx} /\ result = "pending"
  BY NoTxAssumption DEF InFlight, InStep
<1>4. AllHonest' /\ Pinned'
  BY <1>3 DEF AllHonest, InFlight, Pinned, chain, Honest
<1>5. Fresh'
  <2>1. \A d \in Deposits : d > deposits' => escrow'[d] = "none"
    BY <1>1 DEF Fresh, chain, Deposits
  <2>2. \A t \in orphans : t # NoTx
    BY NoTxAssumption DEF TypeOK
  <2>3. \A t \in orphans : Opens(t) => t.id <= deposits /\ t.id \in Int
    BY <2>2, DevnetAssumption DEF Fresh, InFlight, AllHonest, Honest, Opens, OnEscrow, Deposits
  <2>4. \A t \in InFlight' : Opens(t) => t.id <= deposits'
    BY <1>1, <1>3, <2>3 DEF InFlight, Opens
  <2>5. Opens(tx') => /\ \A t \in orphans : Opens(t) => t.id # tx'.id
                      /\ escrow[tx'.id] = "none"
    BY <1>1, <2>3 DEF Fresh
  <2>6. \A t, u \in orphans : Opens(t) /\ Opens(u) /\ t.id = u.id => t = u
    BY DEF Fresh
  <2>7. \A t \in orphans : Opens(t) => escrow[t.id] = "none"
    BY DEF Fresh
  <2>. QED
    BY <1>3, <2>1, <2>4, <2>5, <2>6, <2>7 DEF Fresh, chain, Opens
<1>6. InStep' /\ TicketNamesAnEscrow'
  BY <1>3 DEF InStep, TicketNamesAnEscrow, chain
<1>. QED
  BY <1>2, <1>4, <1>5, <1>6

-----------------------------------------------------------------------------
(* What a landing does to the escrows.                                     *)

Effect(t) ==
    \/ SameEscrows
    \/ Opened(t) /\ escrow[t.id] = "none"
    \/ t.kind = "refund_expired" /\ Refunded(t.id)
    \/ Released(t)

\* A transaction that takes effect keeps the pins and opens no escrow but its own.
LEMMA EffectOnEscrows ==
    ASSUME TypeOK, Pinned, NEW t, Effect(t)
    PROVE  /\ escrow' \in [Deposits -> {"none", "held", "released", "refunded"}]
           /\ pin' \in [Deposits -> Signers] /\ Pinned'
           /\ opened' \in [Deposits -> 0..MaxClock]
           /\ \A d \in Deposits : escrow[d] # "none" => escrow'[d] # "none"
           /\ \A d \in Deposits :
                 escrow[d] = "none" => escrow'[d] = "none" \/ (Opened(t) /\ d = t.id)
           /\ Opened(t) => escrow'[t.id] = "held"
<1>1. CASE SameEscrows
  BY <1>1 DEF SameEscrows, Opened, TypeOK, Pinned
<1>2. CASE Opened(t)
  BY <1>2, Ranges DEF Opened, TypeOK, Pinned
<1>3. CASE t.kind = "refund_expired" /\ Refunded(t.id)
  BY <1>3 DEF Refunded, Opened, TypeOK, Pinned
<1>4. CASE Released(t)
  BY <1>4 DEF Released, Opened, TypeOK, Pinned
<1>. QED
  BY <1>1, <1>2, <1>3, <1>4 DEF Effect

\* The transaction a run waits for.
LEMMA WaitingTx ==
    ASSUME IInv, pc = "waiting"
    PROVE  tx \in Tx /\ tx \in InFlight /\ Honest(tx)
BY DEF IInv, TypeOK, InFlight, AllHonest

\* What lands was in flight and takes its effect.
LEMMA LandEffect ==
    ASSUME IInv, Land
    PROVE  /\ configured' \in BOOLEAN /\ allowlist' \subseteq Signers
           /\ Effect(tx) /\ tx \in InFlight
           /\ result' # "pending"
           /\ result' = "ok" /\ Opens(tx) => Opened(tx)
<1>1. tx \in Tx /\ tx \in InFlight /\ Honest(tx) /\ tx # NoTx
  BY WaitingTx DEF Land, InFlight
<1>2. PICK t, fate : t = tx /\ fate = result'
  BY <1>1
<1>3. Execute(t, fate)
  BY <1>2 DEF Land
<1>4. /\ configured' \in BOOLEAN /\ allowlist' \subseteq Signers
      /\ fate # "pending"
      /\ \/ SameEscrows /\ (t.kind = "init_escrow" => fate # "ok")
         \/ Opened(t) /\ fate = "ok"
         \/ t.kind = "refund_expired" /\ Refunded(t.id)
         \/ Released(t)
  BY <1>1, <1>2, <1>3, ExecuteEffect DEF IInv
<1>5. Opens(tx) => escrow[tx.id] = "none"
  BY <1>1 DEF IInv, Fresh, Land
<1>6. Effect(t)
  BY <1>2, <1>4, <1>5 DEF Effect, Opened, Opens, Refunded
<1>. QED
  BY <1>1, <1>2, <1>4, <1>6 DEF Opens, Released

\* So does what lands after its run.
LEMMA LandLateEffect ==
    ASSUME IInv, NEW t \in orphans, LandLate(t)
    PROVE  /\ configured' \in BOOLEAN /\ allowlist' \subseteq Signers
           /\ Effect(t) /\ t \in InFlight
<1>1. t \in Tx /\ t \in InFlight /\ Honest(t)
  BY NoTxAssumption DEF IInv, TypeOK, InFlight, AllHonest
<1>2. PICK fate : Execute(t, fate)
  BY DEF LandLate
<1>3. /\ configured' \in BOOLEAN /\ allowlist' \subseteq Signers
      /\ \/ SameEscrows
         \/ Opened(t)
         \/ t.kind = "refund_expired" /\ Refunded(t.id)
         \/ Released(t)
  BY <1>1, <1>2, ExecuteEffect DEF IInv
<1>4. Opens(t) => escrow[t.id] = "none"
  BY DEF IInv, Fresh
<1>. QED
  BY <1>1, <1>3, <1>4 DEF Effect, Opened, Opens, Refunded

\* The invariant survives a transaction that lands in time,
LEMMA LandKeeps ==
    ASSUME IInv, Land
    PROVE  IInv'
<1>. USE DEF IInv
<1>1. /\ pc = "waiting" /\ result = "pending"
      /\ UNCHANGED <<finalized, orphans, clock, mode, todo, pc, tx, rogue, ticket, deposits, rogues, ended>>
  BY DEF Land
<1>2. /\ configured' \in BOOLEAN /\ allowlist' \subseteq Signers
      /\ Effect(tx) /\ tx \in InFlight /\ result' # "pending"
      /\ result' = "ok" /\ Opens(tx) => Opened(tx)
  BY LandEffect
<1>. DEFINE t == tx
<1>3. /\ escrow' \in [Deposits -> {"none", "held", "released", "refunded"}]
      /\ pin' \in [Deposits -> Signers] /\ Pinned'
      /\ opened' \in [Deposits -> 0..MaxClock]
      /\ \A d \in Deposits : escrow[d] # "none" => escrow'[d] # "none"
      /\ \A d \in Deposits :
            escrow[d] = "none" => escrow'[d] = "none" \/ (Opened(tx) /\ d = tx.id)
      /\ Opened(tx) => escrow'[tx.id] = "held"
  <2>1. PICK u : u = tx
    OBVIOUS
  <2>. QED
    BY <1>2, <2>1, EffectOnEscrows
<1>4. TypeOK'
  BY <1>1, <1>2, <1>3 DEF TypeOK
<1>5. InFlight' = InFlight
  BY <1>1 DEF InFlight
<1>6. AllHonest'
  BY <1>5 DEF AllHonest, Honest
<1>7. Fresh'
  <2>0. deposits \in Nat /\ (Opened(tx) => tx.id <= deposits)
    BY <1>2, Ranges DEF Fresh, Opened, Opens, TypeOK
  <2>1. ASSUME NEW d \in Deposits, d > deposits PROVE escrow'[d] = "none"
    <3>1. d \in Int /\ escrow[d] = "none"
      BY <2>1 DEF Deposits, Fresh
    <3>2. ~(Opened(tx) /\ d = tx.id)
      BY <2>0, <2>1, <3>1
    <3>. QED
      BY <1>3, <3>1, <3>2
  <2>2. \A v \in orphans : Opens(v) => v.id \in Deposits
    BY NoTxAssumption DEF TypeOK, AllHonest, Honest, InFlight, Opens, OnEscrow
  <2>3. \A v \in orphans : Opens(v) => escrow'[v.id] = "none"
    BY <1>2, <1>3, <2>2 DEF Fresh, Opened, Opens, InFlight
  <2>4. result' = "ok" /\ Opens(tx) => escrow'[tx.id] # "none"
    BY <1>2, <1>3
  <2>. QED
    BY <1>1, <1>2, <1>5, <2>1, <2>3, <2>4 DEF Fresh, Opens
<1>8. InStep'
  BY <1>1 DEF InStep
<1>9. TicketNamesAnEscrow'
  BY <1>1, <1>3 DEF TicketNamesAnEscrow, TypeOK
<1>. QED
  BY <1>3, <1>4, <1>6, <1>7, <1>8, <1>9

\* late,
LEMMA LandLateKeeps ==
    ASSUME IInv, NEW t \in orphans, LandLate(t)
    PROVE  IInv'
<1>. USE DEF IInv
<1>1. /\ orphans' = orphans \ {t}
      /\ UNCHANGED <<finalized, clock, mode, todo, pc, tx, result, rogue, ticket, deposits, rogues, ended>>
  BY DEF LandLate, run
<1>2. /\ configured' \in BOOLEAN /\ allowlist' \subseteq Signers
      /\ Effect(t) /\ t \in InFlight
  BY LandLateEffect
<1>3. /\ escrow' \in [Deposits -> {"none", "held", "released", "refunded"}]
      /\ pin' \in [Deposits -> Signers] /\ Pinned'
      /\ opened' \in [Deposits -> 0..MaxClock]
      /\ \A d \in Deposits : escrow[d] # "none" => escrow'[d] # "none"
      /\ \A d \in Deposits :
            escrow[d] = "none" => escrow'[d] = "none" \/ (Opened(t) /\ d = t.id)
  BY <1>2, EffectOnEscrows
<1>4. TypeOK'
  BY <1>1, <1>2, <1>3 DEF TypeOK
<1>5. InFlight' \subseteq InFlight
  BY <1>1 DEF InFlight
<1>6. AllHonest'
  BY <1>5 DEF AllHonest, Honest
<1>7. Fresh'
  <2>0. deposits \in Nat /\ (Opened(t) => t.id <= deposits)
    BY <1>2, Ranges DEF Fresh, Opened, Opens, TypeOK
  <2>1. ASSUME NEW d \in Deposits, d > deposits PROVE escrow'[d] = "none"
    <3>1. d \in Int /\ escrow[d] = "none"
      BY <2>1 DEF Deposits, Fresh
    <3>2. ~(Opened(t) /\ d = t.id)
      BY <2>0, <2>1, <3>1
    <3>. QED
      BY <1>3, <3>1, <3>2
  <2>2. \A v \in InFlight : Opens(v) => v.id \in Deposits
    BY DEF AllHonest, Honest, Opens, OnEscrow
  <2>3. ASSUME NEW v \in orphans', Opens(v) PROVE escrow'[v.id] = "none"
    <3>1. v \in orphans /\ v # t /\ v \in InFlight
      BY <1>1, NoTxAssumption DEF InFlight, TypeOK
    <3>2. v.id \in Deposits /\ escrow[v.id] = "none"
      BY <2>2, <2>3, <3>1 DEF Fresh
    <3>3. ~(Opened(t) /\ v.id = t.id)
      BY <2>3, <3>1 DEF Fresh, Opened, Opens
    <3>. QED
      BY <1>3, <3>2, <3>3
  <2>4. tx # NoTx /\ Opens(tx) =>
           /\ tx \in InFlight /\ (Opens(t) => t.id # tx.id)
           /\ result = "pending" => escrow'[tx.id] = "none"
           /\ result = "ok" => escrow'[tx.id] # "none"
    BY <1>3, <2>2 DEF Fresh, Opened, Opens, InFlight
  <2>. QED
    BY <1>1, <1>5, <2>1, <2>3, <2>4 DEF Fresh, Opens
<1>8. InStep'
  BY <1>1 DEF InStep
<1>9. TicketNamesAnEscrow'
  BY <1>1, <1>3 DEF TicketNamesAnEscrow, TypeOK
<1>. QED
  BY <1>3, <1>4, <1>6, <1>7, <1>8, <1>9

\* a refund by anyone,
LEMMA RefundKeeps ==
    ASSUME IInv, NEW d \in Deposits, RefundByAnyone(d)
    PROVE  IInv' /\ Refunded(d) /\ InFlight' = InFlight
<1>. USE DEF IInv
<1>1. /\ Refunded(d)
      /\ UNCHANGED <<configured, allowlist, finalized, orphans, clock, mode, todo, pc, tx, result,
                     rogue, ticket, deposits, rogues>>
  BY DEF RefundByAnyone, Refunded, run
<1>2. /\ escrow' \in [Deposits -> {"none", "held", "released", "refunded"}]
      /\ \A e \in Deposits : escrow'[e] = "none" <=> escrow[e] = "none"
  BY <1>1 DEF Refunded, TypeOK
<1>3. TypeOK'
  BY <1>1, <1>2 DEF Refunded, TypeOK
<1>4. InFlight' = InFlight
  BY <1>1 DEF InFlight
<1>5. AllHonest' /\ Pinned' /\ InStep'
  BY <1>1, <1>4 DEF AllHonest, Honest, Pinned, InStep, Refunded
<1>6. TicketNamesAnEscrow'
  BY <1>1, <1>2 DEF TicketNamesAnEscrow, TypeOK
<1>7. Fresh'
  <2>1. \A v \in InFlight : Opens(v) => v.id \in Deposits
    BY DEF AllHonest, Honest, Opens, OnEscrow
  <2>2. \A v \in orphans : v \in InFlight
    BY NoTxAssumption DEF InFlight, TypeOK
  <2>3. tx # NoTx => tx \in InFlight
    BY DEF InFlight
  <2>4. \A e \in Deposits : e > deposits => escrow'[e] = "none"
    BY <1>2 DEF Fresh
  <2>5. \A v \in orphans : Opens(v) => escrow'[v.id] = "none"
    BY <1>2, <2>1, <2>2 DEF Fresh
  <2>6. tx # NoTx /\ Opens(tx) => /\ result = "pending" => escrow'[tx.id] = "none"
                                  /\ result = "ok" => escrow'[tx.id] # "none"
    BY <1>2, <2>1, <2>3 DEF Fresh
  <2>. QED
    BY <1>1, <1>4, <2>4, <2>5, <2>6 DEF Fresh, Opens
<1>. QED
  BY <1>1, <1>3, <1>4, <1>5, <1>6, <1>7

\* The chain, the ticket and what is in flight stay as they are.
Quiet ==
    /\ UNCHANGED <<chain, tx, result, orphans, ticket, deposits>>
    /\ TypeOK' /\ InStep'

\* a step that touches neither escrows nor flight,
LEMMA QuietKeeps ==
    ASSUME IInv, Quiet
    PROVE  IInv' /\ InFlight' = InFlight /\ escrow' = escrow
<1>. USE DEF IInv, Quiet, chain
<1>1. InFlight' = InFlight
  BY DEF InFlight
<1>2. AllHonest' /\ Pinned' /\ TicketNamesAnEscrow'
  BY <1>1 DEF AllHonest, Honest, Pinned, TicketNamesAnEscrow
<1>3. Fresh'
  BY <1>1 DEF Fresh, Opens
<1>. QED
  BY <1>1, <1>2, <1>3

\* and a transaction that never lands.
LEMMA DropKeeps ==
    ASSUME IInv, NEW t \in orphans, Drop(t)
    PROVE  IInv'
<1>. USE DEF IInv, Drop, chain, run
<1>1. InFlight' \subseteq InFlight /\ orphans' \subseteq orphans
  BY DEF InFlight
<1>2. TypeOK'
  BY DEF TypeOK
<1>3. AllHonest' /\ Pinned' /\ TicketNamesAnEscrow' /\ InStep'
  BY <1>1 DEF AllHonest, Honest, Pinned, TicketNamesAnEscrow, InStep
<1>4. Fresh'
  BY <1>1 DEF Fresh, Opens
<1>. QED
  BY <1>2, <1>3, <1>4

-----------------------------------------------------------------------------
(* The steps of the driver, each one of three sorts.                       *)

\* Every mode has a plan.
LEMMA PlansAreOps ==
    ASSUME NEW m \in AllModes
    PROVE  Plan(m) \in Seq(OpName) /\ Plan(m) # <<>>
<1>. USE DEF OpName, Kinds, Releases
<1>1. CASE m = "setup"
  <2>1. Plan(m) = <<"read_config">>
    BY <1>1 DEF Plan
  <2>. QED
    BY <2>1
<1>2. CASE m = "deposit"
  <2>1. Plan(m) = <<"init_escrow">>
    BY <1>2 DEF Plan
  <2>. QED
    BY <2>1
<1>3. CASE m = "deny-unpinned"
  <2>1. Plan(m) = <<"add_rogue", "deny-unpinned", "remove_rogue">>
    BY <1>3 DEF Plan
  <2>. QED
    BY <2>1
<1>4. CASE m = "refund"
  <2>1. Plan(m) = <<"refund_expired">>
    BY <1>4 DEF Plan
  <2>. QED
    BY <2>1
<1>5. CASE m = "all"
  <2>1. Plan(m) = <<"read_config", "init_escrow", "deny-binding", "deny-issuer",
                    "add_rogue", "deny-unpinned", "remove_rogue", "release">>
    BY <1>5 DEF Plan
  <2>. QED
    BY <2>1
<1>6. CASE m \in {"deny-binding", "deny-issuer", "release"}
  <2>1. Plan(m) = <<m>>
    BY <1>6 DEF Plan
  <2>2. m \in OpName
    BY <1>6
  <2>. QED
    BY <2>1, <2>2
<1>. QED
  BY <1>1, <1>2, <1>3, <1>4, <1>5, <1>6 DEF AllModes

\* Starting a run touches neither escrows nor flight.
LEMMA StartIsQuiet ==
    ASSUME IInv, NEW m \in Modes, Start(m)
    PROVE  Quiet
<1>1. m \in AllModes
  BY DevnetAssumption
<1>2. todo' \in Seq(OpName) /\ todo' # <<>>
  BY <1>1, PlansAreOps DEF Start
<1>3. TypeOK'
  BY <1>2 DEF IInv, TypeOK, Start, chain, OpName
<1>4. InStep'
  BY DEF IInv, InStep, TypeOK, Start
<1>. QED
  BY <1>3, <1>4 DEF Quiet, Start

\* Neither do finality and time.
LEMMA ChainClockIsQuiet ==
    ASSUME IInv, Finalize \/ Tick
    PROVE  Quiet
<1>1. CASE Finalize
  BY <1>1 DEF Finalize, Quiet, IInv, TypeOK, InStep, run, chain
<1>2. CASE Tick
  <2>1. clock' \in 0..MaxClock
    BY <1>2, Ranges DEF Tick, IInv, TypeOK
  <2>. QED
    BY <1>2, <2>1 DEF Tick, Quiet, IInv, TypeOK, InStep, run, chain
<1>. QED
  BY <1>1, <1>2

\* What is left of a plan is operations.
LEMMA TailIsOps ==
    ASSUME TypeOK, pc # "idle"
    PROVE  Tail(todo) \in Seq(OpName) /\ Op \in OpName
BY DEF TypeOK, OpName, Op

\* Reading the configuration leaves the ticket alone.
LEMMA ReadConfigClears ==
    ASSUME IInv, ReadConfig
    PROVE  Clear /\ ticket' = ticket
<1>1. /\ Tail(todo) \in Seq(OpName)
      /\ <<"init_config", "add_issuer">> \in Seq(OpName)
      /\ <<"add_issuer">> \in Seq(OpName)
      /\ <<>> \in Seq(OpName)
  BY TailIsOps DEF IInv, ReadConfig, OpName, Kinds
<1>2. PICK ok \in BOOLEAN :
          Proceed(SetupSteps(ok /\ finalized.configured) \o Tail(todo))
  BY DEF ReadConfig
<1>. DEFINE todo1 == SetupSteps(ok /\ finalized.configured)
<1>3. todo1 \in Seq(OpName)
  BY <1>1 DEF SetupSteps
<1>. HIDE DEF todo1
<1>4. todo1 \o Tail(todo) \in Seq(OpName)
  BY <1>1, <1>3
<1>5. Proceed(todo1 \o Tail(todo))
  BY <1>2 DEF todo1
<1>. QED
  BY <1>4, <1>5, ProceedClears DEF ReadConfig

\* An operation on a ticket assembles an honest transaction.
LEMMA AssembledAssembles ==
    ASSUME IInv, pc = "ready", Op \in Kinds \ {"init_escrow", "add_rogue"},
           NEW id \in Deposits \cup {NoTicket}, NEW signer \in Signers,
           Op \in OnEscrow => id \in Deposits,
           Op = "release" => signer = Issuer,
           Op \in {"deny-issuer", "deny-unpinned"} => signer # Issuer,
           Assembled(id, signer)
    PROVE  Assemble
<1>. USE DEF IInv, Assembled
<1>1. /\ tx' \in Tx /\ tx'.kind = Op /\ tx'.id = id /\ tx'.signer = signer
      /\ tx'.bound = (Op # "deny-binding")
  BY Ranges DEF Unsent, Tx, TypeOK
<1>2. Honest(tx')
  BY <1>1 DEF Honest
<1>. QED
  BY <1>1, <1>2 DEF Assemble, Opens, Op, TypeOK

\* So does every operation that is built.
LEMMA BuildAssembles ==
    ASSUME IInv, Build
    PROVE  Assemble
<1>. USE DEF IInv
<1>0. /\ deposits \in Nat /\ MaxDeposits \in Nat /\ clock \in 0..MaxClock /\ 0 \in 0..MaxClock
      /\ Issuer \in Signers /\ Outsider \in Signers /\ Rogues \subseteq Signers
      /\ Issuer # Outsider /\ rogue \in Rogues \cup {Outsider}
      /\ Issuer \notin Rogues
  BY Ranges DEF TypeOK
<1>1. CASE BuildDeposit
  <2>1. /\ pc = "ready" /\ Op = "init_escrow" /\ deposits + 1 \in Deposits
        /\ tx' = Unsent("init_escrow", deposits + 1, Issuer)
        /\ pc' = "built" /\ deposits' = deposits + 1
        /\ UNCHANGED <<chain, finalized, orphans, clock, mode, todo, result, rogue, ticket, rogues>>
    BY <1>0, <1>1 DEF BuildDeposit, Deposits, TypeOK
  <2>2. /\ tx' \in Tx /\ tx'.kind = "init_escrow" /\ tx'.id = deposits + 1
        /\ tx'.signer = Issuer
    BY <1>0, <2>1 DEF Unsent, Tx, Kinds, Releases
  <2>3. Honest(tx')
    BY <2>1, <2>2 DEF Honest
  <2>. QED
    BY <1>0, <2>1, <2>2, <2>3 DEF Assemble, Opens, Op, TypeOK
<1>2. CASE BuildRogue
  <2>1. PICK r \in Rogues \ rogues :
          rogue' = r /\ rogues' = rogues \cup {r} /\ tx' = Unsent(Op, NoTicket, r)
    BY <1>2 DEF BuildRogue
  <2>2. /\ pc = "ready" /\ Op = "add_rogue" /\ pc' = "built"
        /\ UNCHANGED <<chain, finalized, orphans, clock, mode, todo, result, ticket, deposits>>
    BY <1>2 DEF BuildRogue
  <2>3. tx' \in Tx /\ tx'.kind = "add_rogue"
    BY <1>0, <2>1, <2>2 DEF Unsent, Tx, Kinds, Releases
  <2>4. Honest(tx')
    BY <2>3 DEF Honest, OnEscrow, Releases
  <2>. QED
    BY <1>0, <2>1, <2>2, <2>3, <2>4 DEF Assemble, Opens, Op, TypeOK
<1>3. CASE BuildSetup \/ BuildRemoval
  <2>1. PICK signer \in Signers : Assembled(NoTicket, signer)
    BY <1>0, <1>3 DEF BuildSetup, BuildRemoval
  <2>2. pc = "ready" /\ Op \in {"init_config", "add_issuer", "remove_rogue"}
    BY <1>3 DEF BuildSetup, BuildRemoval
  <2>. QED
    BY <2>1, <2>2, AssembledAssembles DEF OnEscrow, Kinds, Releases
<1>4. CASE BuildRelease
  <2>1. pc = "ready" /\ Op \in Releases /\ ticket \in Deposits
    BY <1>4 DEF BuildRelease, TypeOK
  <2>2. CASE Op = "deny-issuer"
    BY <1>0, <1>4, <2>1, <2>2, AssembledAssembles DEF BuildRelease, Kinds, Releases
  <2>3. CASE Op = "deny-unpinned"
    BY <1>0, <1>4, <2>1, <2>3, AssembledAssembles DEF BuildRelease, Kinds, Releases
  <2>4. CASE Op \in {"release", "deny-binding"}
    BY <1>0, <1>4, <2>1, <2>4, AssembledAssembles DEF BuildRelease, Kinds, Releases
  <2>. QED
    BY <2>1, <2>2, <2>3, <2>4 DEF Releases
<1>5. CASE BuildRefund
  <2>1. pc = "ready" /\ Op = "refund_expired" /\ ticket \in Deposits /\ Assembled(ticket, Issuer)
    BY <1>5 DEF BuildRefund, TypeOK
  <2>. QED
    BY <1>0, <2>1, AssembledAssembles DEF Kinds
<1>. QED
  BY <1>1, <1>2, <1>3, <1>4, <1>5 DEF Build

TicketStays == ticket' \in Deposits \cup {NoTicket} /\ (ticket' # NoTicket => escrow[ticket'] # "none")

\* The ticket in the file still names an escrow,
LEMMA OldTicketStays ==
    ASSUME IInv, ticket' = ticket
    PROVE  TicketStays
BY DEF IInv, TypeOK, TicketNamesAnEscrow, TicketStays

\* and a new one names the escrow that was just opened.
LEMMA NewTicketStays ==
    ASSUME IInv, pc = "confirmed", Op = "init_escrow"
    PROVE  tx.id \in Deposits /\ escrow[tx.id] # "none"
<1>1. tx # NoTx /\ tx.kind = "init_escrow" /\ result = "ok"
  BY DEF IInv, TypeOK, InStep, Op
<1>2. Honest(tx)
  BY <1>1 DEF IInv, AllHonest, InFlight
<1>. QED
  BY <1>1, <1>2 DEF IInv, Honest, OnEscrow, Fresh, Opens

\* Sending and confirming either end the run or touch nothing.
LEMMA SendClearsOrIsQuiet ==
    ASSUME IInv, Send \/ Confirm
    PROVE  (Clear /\ TicketStays) \/ Quiet
<1>1. /\ UNCHANGED <<chain, finalized, clock, rogue, ticket, deposits, rogues>>
      /\ pc \in {"built", "waiting"}
  BY DEF Send, Confirm
<1>2. CASE End(Op)
  BY <1>1, <1>2, EndClears, OldTicketStays
<1>3. CASE Send /\ ~End(Op)
  <2>1. pc = "built" /\ pc' = "waiting" /\ UNCHANGED <<mode, todo, tx, result, orphans, ended>>
    BY <1>3 DEF Send
  <2>2. TypeOK'
    BY <1>1, <2>1 DEF IInv, TypeOK, chain
  <2>3. InStep'
    BY <2>1 DEF IInv, InStep
  <2>. QED
    BY <1>1, <2>1, <2>2, <2>3 DEF Quiet
<1>4. CASE Confirm /\ ~End(Op)
  <2>1. /\ pc = "waiting" /\ pc' = "confirmed" /\ UNCHANGED <<mode, todo, tx, result, orphans, ended>>
        /\ (result = "ok") # ExpectsFailure(Op)
    BY <1>4 DEF Confirm
  <2>2. TypeOK'
    BY <1>1, <2>1 DEF IInv, TypeOK, chain
  <2>3. InStep'
    BY <2>1 DEF IInv, InStep, ExpectsFailure, Op
  <2>. QED
    BY <1>1, <2>1, <2>2, <2>3 DEF Quiet
<1>. QED
  BY <1>2, <1>3, <1>4

\* What follows a confirmation lets go of its transaction.
LEMMA FollowClears ==
    ASSUME IInv, Follow
    PROVE  Clear /\ TicketStays
<1>1. /\ pc = "confirmed" /\ UNCHANGED <<chain, finalized, clock, rogue, deposits, rogues>>
      /\ End(Op) \/ Proceed(Tail(todo))
      /\ ticket' = IF Op = "init_escrow" THEN tx.id ELSE ticket
  BY DEF Follow, SaveTicket
<1>2. Clear
  BY <1>1, EndClears, ProceedClears, TailIsOps DEF IInv
<1>3. TicketStays
  <2>1. CASE Op = "init_escrow"
    BY <1>1, <2>1, NewTicketStays DEF TicketStays
  <2>2. CASE Op # "init_escrow"
    BY <1>1, <2>2, OldTicketStays
  <2>. QED
    BY <2>1, <2>2
<1>. QED
  BY <1>2, <1>3

\* So does an interruption.
LEMMA InterruptClears ==
    ASSUME IInv, Interrupt
    PROVE  Clear /\ TicketStays
<1>1. Clear
  BY EndClears DEF Interrupt
<1>2. CASE ticket' = ticket
  BY <1>1, <1>2, OldTicketStays
<1>3. CASE pc = "confirmed" /\ Op = "init_escrow" /\ ticket' \in {tx.id, NoTicket}
  BY <1>1, <1>3, NewTicketStays DEF TicketStays
<1>. QED
  BY <1>2, <1>3 DEF Interrupt

\* The three sorts of steps a driver takes.
LEMMA DriverSteps ==
    ASSUME IInv, Driver \/ Interrupt
    PROVE  (Clear /\ TicketStays) \/ Assemble \/ Quiet
<1>1. CASE ReadConfig
  BY <1>1, ReadConfigClears, OldTicketStays
<1>2. CASE Build
  BY <1>2, BuildAssembles
<1>3. CASE NoTicketFound
  BY <1>3, EndClears, OldTicketStays DEF NoTicketFound
<1>4. CASE Send \/ Confirm
  BY <1>4, SendClearsOrIsQuiet
<1>5. CASE Follow
  BY <1>5, FollowClears
<1>6. CASE Interrupt
  BY <1>6, InterruptClears
<1>. QED
  BY <1>1, <1>2, <1>3, <1>4, <1>5, <1>6 DEF Driver

-----------------------------------------------------------------------------
(* The theorems.                                                           *)

\* Every step keeps the invariant.
LEMMA IInvStep == IInv /\ [Next]_vars => IInv'
<1>. SUFFICES ASSUME IInv, [Next]_vars PROVE IInv'
  OBVIOUS
<1>1. CASE \E m \in Modes : Start(m)
  BY <1>1, StartIsQuiet, QuietKeeps
<1>2. CASE Driver \/ Interrupt
  <2>1. CASE Clear /\ TicketStays
    BY <2>1, ClearKeeps DEF TicketStays
  <2>. QED
    BY <1>2, <2>1, DriverSteps, AssembleKeeps, QuietKeeps
<1>3. CASE Land
  BY <1>3, LandKeeps
<1>4. CASE \E t \in orphans : LandLate(t) \/ Drop(t)
  BY <1>4, LandLateKeeps, DropKeeps
<1>5. CASE \E d \in Deposits : RefundByAnyone(d)
  BY <1>5, RefundKeeps
<1>6. CASE Finalize \/ Tick
  BY <1>6, ChainClockIsQuiet, QuietKeeps
<1>7. CASE UNCHANGED vars
  BY <1>7 DEF vars, IInv, TypeOK, AllHonest, Honest, InFlight, Pinned, Fresh, Opens, InStep,
              TicketNamesAnEscrow
<1>. QED
  BY <1>1, <1>2, <1>3, <1>4, <1>5, <1>6, <1>7 DEF Next

\* The invariant holds in every reachable state.
LEMMA IInvAlways == Spec => []IInv
BY IInvInit, IInvStep, PTL DEF Spec

\* The state of the driver and of the chain stays well formed: a run's
\* transaction exists exactly while it is built, waiting or confirmed
\* (cmd/escrowdevnet/main.go:903-965).
THEOREM DriverTypeCorrect == Spec => []TypeOK
BY IInvAlways, PTL DEF IInv

\* The ticket never names an escrow that was not opened, whatever is killed
\* and whatever lands late (cmd/escrowdevnet/main.go:575-583, 1118).
THEOREM TicketsNameEscrows == Spec => []TicketNamesAnEscrow
BY IInvAlways, PTL DEF IInv

\* Every step is one of four sorts: it touches neither escrows nor what is in
\* flight; a transaction in flight has its effect, or is lost; a transaction
\* is assembled; an escrow is refunded.
LEMMA StepSorts ==
    ASSUME IInv, [Next]_vars
    PROVE  \/ escrow' = escrow /\ InFlight' = InFlight
           \/ \E t \in InFlight : Effect(t) /\ (InFlight' = InFlight \/ InFlight' = InFlight \ {t})
           \/ \E t : escrow' = escrow /\ Honest(t) /\ InFlight' = InFlight \cup {t}
           \/ \E d \in Deposits : Refunded(d) /\ InFlight' = InFlight
<1>1. CASE \E m \in Modes : Start(m)
  BY <1>1, StartIsQuiet, QuietKeeps
<1>2. CASE Driver \/ Interrupt
  <2>1. CASE Clear
    <3>1. SameEscrows /\ escrow' = escrow
      BY <2>1 DEF Clear, SameEscrows, chain
    <3>2. CASE tx = NoTx
      <4>1. orphans' = orphans /\ tx' = tx
        BY <2>1, <3>2 DEF Clear, IInv, TypeOK
      <4>. QED
        BY <3>1, <4>1 DEF InFlight
    <3>3. CASE tx # NoTx
      <4>1. tx \in InFlight /\ tx' = NoTx /\ (orphans' = orphans \/ orphans' = orphans \cup {tx})
        BY <2>1, <3>3 DEF Clear, InFlight
      <4>2. InFlight' = InFlight \/ InFlight' = InFlight \ {tx}
        BY <3>3, <4>1 DEF InFlight
      <4>. QED
        BY <3>1, <4>1, <4>2 DEF Effect
    <3>. QED
      BY <3>2, <3>3
  <2>2. CASE Assemble
    <3>1. tx = NoTx /\ tx' # NoTx /\ Honest(tx') /\ orphans' = orphans /\ escrow' = escrow
      BY <2>2, NoTxAssumption DEF Assemble, IInv, TypeOK, chain
    <3>2. InFlight' = InFlight \cup {tx'}
      BY <3>1 DEF InFlight
    <3>. QED
      BY <3>1, <3>2
  <2>3. CASE Quiet
    BY <2>3, QuietKeeps
  <2>. QED
    BY <1>2, <2>1, <2>2, <2>3, DriverSteps
<1>3. CASE Land
  <2>1. InFlight' = InFlight
    BY <1>3 DEF Land, InFlight
  <2>. QED
    BY <1>3, <2>1, LandEffect
<1>4. ASSUME NEW t \in orphans, LandLate(t) \/ Drop(t)
      PROVE  t \in InFlight /\ Effect(t) /\ (InFlight' = InFlight \/ InFlight' = InFlight \ {t})
  <2>1. t \in InFlight /\ orphans' = orphans \ {t} /\ tx' = tx
    BY <1>4, NoTxAssumption DEF LandLate, Drop, run, IInv, TypeOK, InFlight
  <2>2. InFlight' = InFlight \/ InFlight' = InFlight \ {t}
    BY <2>1 DEF InFlight
  <2>3. Effect(t)
    BY <1>4, LandLateEffect DEF Drop, chain, Effect, SameEscrows
  <2>. QED
    BY <2>1, <2>2, <2>3
<1>5. CASE \E d \in Deposits : RefundByAnyone(d)
  BY <1>5, RefundKeeps
<1>6. CASE Finalize \/ Tick
  BY <1>6, ChainClockIsQuiet, QuietKeeps
<1>7. CASE UNCHANGED vars
  BY <1>7 DEF vars, InFlight
<1>. QED
  BY <1>1, <1>2, <1>3, <1>4, <1>5, <1>6, <1>7 DEF Next

\* The denials that are sent for real release nothing: an escrow pays out on
\* a release transaction alone, over its own binding, while its pinned issuer
\* is allowlisted (cmd/escrowdevnet/main.go:29).
THEOREM DenialsNeverRelease == Spec => DenialsReleaseNothing
<1>1. ASSUME IInv, [Next]_vars
      PROVE  [\A d \in Deposits :
                escrow[d] = "held" /\ escrow'[d] = "released" =>
                    /\ pin[d] = Issuer /\ Issuer \in allowlist
                    /\ \E t \in orphans \cup {tx} :
                          t # NoTx /\ t.kind = "release" /\ t.id = d /\ t.bound]_vars
  <2>. SUFFICES ASSUME NEW d \in Deposits, escrow[d] = "held", escrow'[d] = "released"
                PROVE  /\ pin[d] = Issuer /\ Issuer \in allowlist
                       /\ \E t \in orphans \cup {tx} :
                             t # NoTx /\ t.kind = "release" /\ t.id = d /\ t.bound
    OBVIOUS
  <2>1. escrow \in [Deposits -> {"none", "held", "released", "refunded"}]
    BY <1>1 DEF IInv, TypeOK
  <2>2. ~\E e \in Deposits : Refunded(e)
    BY <2>1 DEF Refunded
  <2>3. PICK t \in InFlight : Effect(t)
    BY <1>1, <2>2, StepSorts
  <2>4. Released(t) /\ t.id = d
    BY <2>1, <2>3 DEF Effect, SameEscrows, Opened, Refunded, Released
  <2>. QED
    BY <1>1, <2>4 DEF Released, IInv, Pinned, InFlight
<1>. QED
  BY <1>1, IInvAlways, PTL DEF Spec, DenialsReleaseNothing

\* Under AllHonest a proof is a release transaction in flight.
Proof(t) == t.kind = "release"

\* The abstract proofs are the honest releases in flight.
LEMMA ProvenIsInFlight ==
    /\ AllHonest => Proven = {d \in Deposits : \E t \in InFlight : Proof(t) /\ t.id = d}
    /\ AllHonest' => Proven' = {d \in Deposits : \E t \in InFlight' : Proof(t) /\ t.id = d}
BY DEF AllHonest, Honest, Proven, InFlight, Proof

\* Losing a transaction loses the proof it carried, unless another carries it.
LEMMA ProofLapses ==
    ASSUME AllHonest, AllHonest', NEW t,
           InFlight' = InFlight \/ InFlight' = InFlight \ {t}
    PROVE  /\ Proven' = Proven \/ Proven' = Proven \ {t.id}
           /\ ~Proof(t) => Proven' = Proven
<1>1. Proven = {d \in Deposits : \E u \in InFlight : Proof(u) /\ u.id = d}
  BY ProvenIsInFlight
<1>2. Proven' = {d \in Deposits : \E u \in InFlight' : Proof(u) /\ u.id = d}
  BY ProvenIsInFlight
<1>3. CASE InFlight' = InFlight
  BY <1>1, <1>2, <1>3
<1>4. CASE InFlight' = InFlight \ {t}
  BY <1>1, <1>2, <1>4 DEF Proof
<1>. QED
  BY <1>3, <1>4

\* One more transaction in flight is one more proof, or none.
LEMMA ProofOrNothing ==
    ASSUME AllHonest, AllHonest', NEW t, Honest(t), InFlight' = InFlight \cup {t}
    PROVE  \/ Proven' = Proven
           \/ t.id \in Deposits /\ Proven' = Proven \cup {t.id}
<1>1. Proven = {d \in Deposits : \E u \in InFlight : Proof(u) /\ u.id = d}
  BY ProvenIsInFlight
<1>2. Proven' = {d \in Deposits : \E u \in InFlight' : Proof(u) /\ u.id = d}
  BY ProvenIsInFlight
<1>3. Proof(t) => t.id \in Deposits
  BY DEF Honest, Proof, OnEscrow, Releases
<1>4. CASE Proof(t)
  BY <1>1, <1>2, <1>3, <1>4
<1>5. CASE ~Proof(t)
  BY <1>1, <1>2, <1>5
<1>. QED
  BY <1>4, <1>5

\* Every step is a step of the abstract escrow, or a stutter.
LEMMA StepsMap ==
    ASSUME IInv, IInv', [Next]_vars
    PROVE  [Escrows!Next]_Escrows!vars
<1>. USE DEF IInv
<1>. SUFFICES \/ escrow' = escrow /\ Proven' = Proven
              \/ \E d \in Deposits : \/ Escrows!Open(d) \/ Escrows!Prove(d) \/ Escrows!Lapse(d)
                                    \/ Escrows!Release(d) \/ Escrows!Refund(d)
  BY DEF Escrows!Next, Escrows!vars
<1>1. ASSUME NEW t \in InFlight, Effect(t), InFlight' = InFlight \/ InFlight' = InFlight \ {t}
      PROVE  \/ escrow' = escrow /\ Proven' = Proven
             \/ \E d \in Deposits : \/ Escrows!Open(d) \/ Escrows!Lapse(d)
                                   \/ Escrows!Release(d) \/ Escrows!Refund(d)
  <2>1. /\ Proven' = Proven \/ Proven' = Proven \ {t.id}
        /\ ~Proof(t) => Proven' = Proven
    BY <1>1, ProofLapses
  <2>2. CASE SameEscrows
    <3>1. CASE t.id \in Deposits
      BY <2>1, <2>2, <3>1 DEF SameEscrows, Escrows!Lapse
    <3>2. CASE t.id \notin Deposits
      BY <2>1, <2>2, <3>2 DEF SameEscrows, Proven
    <3>. QED
      BY <3>1, <3>2
  <2>3. CASE Opened(t) /\ escrow[t.id] = "none"
    BY <2>1, <2>3 DEF Opened, Proof, Escrows!Open
  <2>4. CASE t.kind = "refund_expired" /\ Refunded(t.id)
    BY <2>1, <2>4 DEF Refunded, Proof, Escrows!Refund
  <2>5. CASE Released(t)
    <3>1. t.id \in Proven
      BY <2>5, ProvenIsInFlight DEF Released, Proof
    <3>. QED
      BY <2>1, <2>5, <3>1 DEF Released, Escrows!Release
  <2>. QED
    BY <1>1, <2>2, <2>3, <2>4, <2>5 DEF Effect
<1>2. ASSUME NEW d \in Deposits, Refunded(d), InFlight' = InFlight
      PROVE  Escrows!Refund(d)
  <2>1. Proven' = Proven
    BY <1>2, ProvenIsInFlight
  <2>. QED
    BY <1>2, <2>1 DEF Refunded, Escrows!Refund
<1>3. ASSUME NEW t, escrow' = escrow, Honest(t), InFlight' = InFlight \cup {t}
      PROVE  \/ escrow' = escrow /\ Proven' = Proven
             \/ \E d \in Deposits : Escrows!Prove(d)
  BY <1>3, ProofOrNothing DEF Escrows!Prove
<1>4. CASE escrow' = escrow /\ InFlight' = InFlight
  BY <1>4, ProvenIsInFlight
<1>. QED
  BY <1>1, <1>2, <1>3, <1>4, StepSorts

\* The driver, its late transactions and the chain implement release on proof
\* (cmd/escrowdevnet/main.go:3-11): an escrow pays the recipient once, only
\* while a proof for it by its own issuer is outstanding, or goes back.
THEOREM DriverImplementsReleaseOnProof == Spec => ImplementsReleaseOnProof
<1>1. Init => Escrows!Init
  BY DEF Init, Escrows!Init, Proven
<1>. QED
  BY <1>1, StepsMap, IInvAlways, PTL DEF Spec, ImplementsReleaseOnProof, Escrows!Spec

-----------------------------------------------------------------------------
(* A run that ends well did what its mode says.  The proof follows a run    *)
(* through its operations: which may come next, what those before achieved, *)
(* and that nothing sent by earlier runs undoes it.                         *)

SetupOps == {"read_config", "init_config", "add_issuer"}

RogueOps == {"add_rogue", "deny-unpinned", "remove_rogue", "release"}

RogueModes == {"deny-unpinned", "all"}

\* Which operation may come right after which, and which may come last.
InTurn ==
    {<<"init_config", "add_issuer">>, <<"add_issuer", "init_escrow">>,
     <<"read_config", "init_escrow">>, <<"init_escrow", "deny-binding">>,
     <<"deny-binding", "deny-issuer">>, <<"deny-issuer", "add_rogue">>,
     <<"add_rogue", "deny-unpinned">>, <<"deny-unpinned", "remove_rogue">>,
     <<"remove_rogue", "release">>}

Last(m) ==
    CASE m = "setup"         -> {"read_config", "add_issuer"}
      [] m = "deposit"       -> {"init_escrow"}
      [] m = "deny-unpinned" -> {"remove_rogue"}
      [] m = "refund"        -> {"refund_expired"}
      [] m = "all"           -> {"release"}
      [] OTHER               -> {m}

ScriptOf(s, m) ==
    /\ \A i \in 1..(Len(s) - 1) : <<s[i], s[i + 1]>> \in InTurn
    /\ s[Len(s)] \in Last(m)

Scripted == pc # "idle" => ScriptOf(todo, mode)

\* What the transactions of setup and of the compromised administrator name.
Minted ==
    \A t \in InFlight :
        /\ t.kind = "add_issuer" => t.signer = Issuer
        /\ t.kind = "add_rogue" => t.signer \in rogues
        /\ t.kind = "remove_rogue" => t.signer # Issuer

\* The finalized commitment lags; what setup did is never undone.
Lagging ==
    /\ finalized.configured => configured
    /\ Issuer \in finalized.allowlist => Issuer \in allowlist

SetupDone == configured /\ Issuer \in allowlist

\* No late transaction allowlists the throwaway key of the present run.
RogueIsNew == \A t \in orphans : t.kind = "add_rogue" => t.signer # rogue

RogueIsGone == rogue \notin allowlist /\ rogue # Issuer /\ RogueIsNew

TxFits ==
    tx # NoTx =>
        /\ tx.kind \in {"release", "refund_expired"} => tx.id = ticket
        /\ tx.kind \in {"add_rogue", "remove_rogue"} => tx.signer = rogue

ResultHolds ==
    tx # NoTx /\ result = "ok" =>
        /\ tx.kind = "add_issuer" => SetupDone
        /\ tx.kind = "remove_rogue" /\ mode \in RogueModes => RogueIsGone
        /\ tx.kind = "release" => escrow[ticket] = "released"
        /\ tx.kind = "refund_expired" => escrow[ticket] = "refunded"

ConfirmedWorked == pc = "confirmed" /\ ~ExpectsFailure(Head(todo)) => result = "ok"

Progress ==
    pc # "idle" =>
        /\ mode \in {"setup", "all"} /\ Head(todo) \notin SetupOps => SetupDone
        /\ mode = "all" /\ Head(todo) = "release" => RogueIsGone
        /\ /\ mode \in RogueModes /\ Head(todo) \in RogueOps
           /\ Head(todo) = "add_rogue" => pc # "ready"
           => RogueIsNew

Finished ==
    pc = "idle" /\ ended = "done" =>
        /\ mode \in {"release", "all"} => ticket \in Deposits /\ escrow[ticket] = "released"
        /\ mode = "refund" => ticket \in Deposits /\ escrow[ticket] = "refunded"
        /\ mode = "deposit" => ticket \in Deposits
        /\ mode \in {"setup", "all"} => SetupDone
        /\ mode \in RogueModes => RogueIsGone

DInv ==
    /\ IInv
    /\ Scripted /\ Minted /\ Lagging /\ TxFits /\ ResultHolds /\ ConfirmedWorked
    /\ Progress /\ Finished

\* A run whose operations are all done did what its mode says.
LEMMA DoneFollows == DInv => DoneMeansDone
<1>. SUFFICES ASSUME DInv, pc = "idle", ended = "done"
              PROVE  /\ mode \in {"release", "all"} => escrow[ticket] = "released"
                     /\ mode = "refund" => escrow[ticket] = "refunded"
                     /\ mode = "deposit" => escrow[ticket] # "none"
                     /\ mode \in {"setup", "all"} => configured /\ Issuer \in allowlist
                     /\ mode \in {"deny-unpinned", "all"} => rogue \notin allowlist
  BY DEF DoneMeansDone
<1>. USE DEF DInv, Finished
<1>1. mode = "deposit" => escrow[ticket] # "none"
  <2>1. mode = "deposit" => ticket # NoTicket
    BY DevnetAssumption DEF Deposits
  <2>. QED
    BY <2>1 DEF IInv, TicketNamesAnEscrow
<1>2. mode \in {"setup", "all"} => configured /\ Issuer \in allowlist
  BY DEF SetupDone
<1>3. mode \in {"deny-unpinned", "all"} => rogue \notin allowlist
  BY DEF RogueModes, RogueIsGone
<1>. QED
  BY <1>1, <1>2, <1>3

\* At the start no run is under way.
LEMMA DInvInit == Init => DInv
<1>. SUFFICES ASSUME Init PROVE DInv
  OBVIOUS
<1>. QED
  BY IInvInit
  DEF Init, DInv, Scripted, Minted, Lagging, TxFits, ResultHolds, ConfirmedWorked, Progress,
      Finished, InFlight

\* The plan of a mode is a script, and begins as the mode needs it.
LEMMA PlanIsScript ==
    ASSUME NEW m \in AllModes
    PROVE  /\ ScriptOf(Plan(m), m)
           /\ m \in {"setup", "all"} => Head(Plan(m)) = "read_config"
           /\ m = "deny-unpinned" => Head(Plan(m)) = "add_rogue"
<1>. USE DEF ScriptOf, InTurn, Last
<1>1. CASE m = "setup"
  <2>1. Plan(m) = <<"read_config">>
    BY <1>1 DEF Plan
  <2>. QED
    BY <1>1, <2>1
<1>2. CASE m = "deposit"
  <2>1. Plan(m) = <<"init_escrow">>
    BY <1>2 DEF Plan
  <2>. QED
    BY <1>2, <2>1
<1>3. CASE m = "deny-unpinned"
  <2>1. Plan(m) = <<"add_rogue", "deny-unpinned", "remove_rogue">>
    BY <1>3 DEF Plan
  <2>2. /\ Len(Plan(m)) = 3 /\ Plan(m)[1] = "add_rogue" /\ Plan(m)[2] = "deny-unpinned"
        /\ Plan(m)[3] = "remove_rogue" /\ Head(Plan(m)) = "add_rogue"
    BY <2>1
  <2>3. \A i \in 1..2 : i = 1 \/ i = 2
    OBVIOUS
  <2>. QED
    BY <1>3, <2>2, <2>3
<1>4. CASE m = "refund"
  <2>1. Plan(m) = <<"refund_expired">>
    BY <1>4 DEF Plan
  <2>. QED
    BY <1>4, <2>1
<1>5. CASE m = "all"
  <2>1. Plan(m) = <<"read_config", "init_escrow", "deny-binding", "deny-issuer",
                    "add_rogue", "deny-unpinned", "remove_rogue", "release">>
    BY <1>5 DEF Plan
  <2>2. /\ Len(Plan(m)) = 8 /\ Plan(m)[1] = "read_config" /\ Plan(m)[2] = "init_escrow"
        /\ Plan(m)[3] = "deny-binding" /\ Plan(m)[4] = "deny-issuer"
        /\ Plan(m)[5] = "add_rogue" /\ Plan(m)[6] = "deny-unpinned"
        /\ Plan(m)[7] = "remove_rogue" /\ Plan(m)[8] = "release"
        /\ Head(Plan(m)) = "read_config"
    BY <2>1
  <2>3. \A i \in 1..7 : i \in {1, 2, 3, 4, 5, 6, 7}
    OBVIOUS
  <2>4. \A i \in 1..7 : <<Plan(m)[i], Plan(m)[i + 1]>> \in InTurn
    BY <2>2, <2>3
  <2>5. Plan(m)[Len(Plan(m))] \in Last(m)
    BY <1>5, <2>2
  <2>6. \A i \in 1..(Len(Plan(m)) - 1) : <<Plan(m)[i], Plan(m)[i + 1]>> \in InTurn
    <3>. HIDE DEF InTurn
    <3>. QED
      BY <2>2, <2>4
  <2>. QED
    BY <1>5, <2>2, <2>5, <2>6
<1>6. CASE m \in {"deny-binding", "deny-issuer", "release"}
  <2>1. Plan(m) = <<m>>
    BY <1>6 DEF Plan
  <2>. QED
    BY <1>6, <2>1
<1>. QED
  BY <1>1, <1>2, <1>3, <1>4, <1>5, <1>6 DEF AllModes

\* The rest of a script is a script, and begins with the operation in turn.
LEMMA TailIsScript ==
    ASSUME NEW s \in Seq(OpName), s # <<>>, NEW m, ScriptOf(s, m), Tail(s) # <<>>
    PROVE  ScriptOf(Tail(s), m) /\ <<Head(s), Head(Tail(s))>> \in InTurn
<1>1. /\ Len(Tail(s)) = Len(s) - 1 /\ Len(s) \in Nat /\ Len(s) >= 2
      /\ \A i \in 1..Len(Tail(s)) : Tail(s)[i] = s[i + 1]
  OBVIOUS
<1>2. Tail(s)[Len(Tail(s))] = s[Len(s)]
  BY <1>1
<1>3. ASSUME NEW i \in 1..(Len(Tail(s)) - 1)
      PROVE  <<Tail(s)[i], Tail(s)[i + 1]>> \in InTurn
  <2>1. i + 1 \in 1..(Len(s) - 1) /\ i \in 1..Len(Tail(s)) /\ i + 1 \in 1..Len(Tail(s))
    BY <1>1
  <2>2. <<s[i + 1], s[i + 1 + 1]>> \in InTurn
    BY <2>1 DEF ScriptOf
  <2>. QED
    BY <1>1, <2>1, <2>2
<1>4. <<Head(s), Head(Tail(s))>> \in InTurn
  <2>1. 1 \in 1..(Len(s) - 1) /\ Head(s) = s[1] /\ Head(Tail(s)) = s[1 + 1]
    BY <1>1
  <2>. QED
    BY <2>1 DEF ScriptOf
<1>. QED
  BY <1>2, <1>3, <1>4 DEF ScriptOf

-----------------------------------------------------------------------------
(* What a landing does to the allowlist, and what nothing undoes.          *)

Allows(t) == t.kind \in {"add_issuer", "add_rogue"}

\* What a transaction does to the configuration, and what "ok" says of it.
LEMMA ExecuteOnConfig ==
    ASSUME TypeOK, NEW t \in Tx, Honest(t), NEW fate, Execute(t, fate)
    PROVE  /\ configured => configured'
           /\ \A k \in allowlist : k \in allowlist' \/ (t.kind = "remove_rogue" /\ k = t.signer)
           /\ \A k \in allowlist' : k \in allowlist \/ (Allows(t) /\ k = t.signer)
           /\ fate = "ok" =>
                 /\ t.kind = "add_issuer" => configured' /\ t.signer \in allowlist'
                 /\ t.kind = "remove_rogue" => t.signer \notin allowlist'
                 /\ t.kind = "release" => escrow'[t.id] = "released"
                 /\ t.kind = "refund_expired" => escrow'[t.id] = "refunded"
<1>1. CASE fate # "ok"
  <2>1. configured' = configured /\ allowlist' = allowlist
    BY <1>1 DEF Execute, chain
  <2>. QED
    BY <1>1, <2>1
<1>2. CASE fate = "ok"
  <2>1. Apply(t) /\ Errors(t) = {}
    BY <1>2, ErrorsAreErrors DEF Execute
  <2>2. /\ configured => configured'
        /\ \A k \in allowlist : k \in allowlist' \/ (t.kind = "remove_rogue" /\ k = t.signer)
        /\ \A k \in allowlist' : k \in allowlist \/ (Allows(t) /\ k = t.signer)
    BY <2>1 DEF Apply, Allows
  <2>3. t.kind = "add_issuer" => configured' /\ t.signer \in allowlist'
    BY <2>1 DEF Apply, Errors, Releases
  <2>4. t.kind = "remove_rogue" => t.signer \notin allowlist'
    BY <2>1 DEF Apply
  <2>5. t.kind = "release" => escrow'[t.id] = "released"
    BY <2>1 DEF Apply, Releases, Honest, OnEscrow, TypeOK
  <2>6. t.kind = "refund_expired" => escrow'[t.id] = "refunded"
    BY <2>1 DEF Apply, Releases, Honest, OnEscrow, TypeOK
  <2>. QED
    BY <2>2, <2>3, <2>4, <2>5, <2>6
<1>. QED
  BY <1>1, <1>2

Lasts ==
    /\ configured => configured'
    /\ Issuer \in allowlist => Issuer \in allowlist'
    /\ \A d \in Deposits : escrow[d] \in {"released", "refunded"} => escrow'[d] = escrow[d]

\* A closed escrow stays closed.
LEMMA EffectLasts ==
    ASSUME TypeOK, NEW t, Effect(t)
    PROVE  \A d \in Deposits : escrow[d] \in {"released", "refunded"} => escrow'[d] = escrow[d]
BY DEF Effect, SameEscrows, Opened, Refunded, Released, TypeOK

\* The chain moves and the run stands still.
LEMMA RunStandsStill ==
    ASSUME DInv, IInv', Lasts, orphans' \subseteq orphans,
           UNCHANGED <<mode, todo, pc, tx, rogue, ticket, rogues, ended>>,
           RogueIsGone => rogue \notin allowlist',
           Lagging', ResultHolds', ConfirmedWorked'
    PROVE  DInv'
<1>. USE DEF DInv
<1>1. Scripted'
  BY DEF Scripted, ScriptOf
<1>2. InFlight' \subseteq InFlight
  BY DEF InFlight
<1>3. Minted'
  BY <1>2 DEF Minted
<1>4. TxFits'
  BY DEF TxFits
<1>5. SetupDone => SetupDone'
  BY DEF SetupDone, Lasts
<1>6. RogueIsNew => RogueIsNew'
  BY DEF RogueIsNew
<1>7. RogueIsGone => RogueIsGone'
  BY <1>6 DEF RogueIsGone
<1>8. Progress'
  BY <1>5, <1>6, <1>7 DEF Progress
<1>9. Finished'
  BY <1>5, <1>7 DEF Finished, Lasts
<1>. QED
  BY <1>1, <1>3, <1>4, <1>8, <1>9

\* What the present run achieved lasts when its transaction lands,
LEMMA LandIsDone ==
    ASSUME DInv, Land
    PROVE  DInv'
<1>. USE DEF DInv
<1>1. tx \in Tx /\ tx \in InFlight /\ Honest(tx) /\ pc = "waiting" /\ result = "pending"
  BY WaitingTx DEF Land
<1>2. UNCHANGED <<finalized, orphans, clock, mode, todo, pc, tx, rogue, ticket, deposits, rogues, ended>>
  BY DEF Land
<1>3. IInv' /\ IInv /\ TypeOK
  BY LandKeeps DEF IInv
<1>4. PICK t, fate : t = tx /\ fate = result'
  OBVIOUS
<1>5. Execute(t, fate)
  BY <1>4 DEF Land
<1>6. /\ configured => configured'
      /\ \A k \in allowlist : k \in allowlist' \/ (t.kind = "remove_rogue" /\ k = t.signer)
      /\ \A k \in allowlist' : k \in allowlist \/ (Allows(t) /\ k = t.signer)
      /\ fate = "ok" =>
            /\ t.kind = "add_issuer" => configured' /\ t.signer \in allowlist'
            /\ t.kind = "remove_rogue" => t.signer \notin allowlist'
            /\ t.kind = "release" => escrow'[t.id] = "released"
            /\ t.kind = "refund_expired" => escrow'[t.id] = "refunded"
  BY <1>1, <1>3, <1>4, <1>5, ExecuteOnConfig
<1>7. /\ t.kind = "add_issuer" => t.signer = Issuer
      /\ t.kind = "remove_rogue" => t.signer # Issuer
      /\ t.kind \in {"release", "refund_expired"} => t.id = ticket
      /\ t.kind \in {"add_rogue", "remove_rogue"} => t.signer = rogue
      /\ t # NoTx /\ t.kind = Head(todo) /\ rogue # Issuer
  BY <1>1, <1>3, <1>4, Ranges DEF Minted, TxFits, InFlight, IInv, InStep, TypeOK
<1>8. Effect(t)
  BY <1>3, <1>4, LandEffect
<1>9. Lasts
  BY <1>3, <1>6, <1>7, <1>8, EffectLasts DEF Lasts
<1>10. Lagging'
  BY <1>2, <1>9 DEF Lagging, Lasts
<1>11. ResultHolds'
  <2>1. fate = "ok" /\ t.kind = "remove_rogue" /\ mode \in RogueModes => RogueIsGone'
    <3>1. t.kind = "remove_rogue" /\ mode \in RogueModes => RogueIsNew
      BY <1>1, <1>7 DEF Progress, RogueOps
    <3>2. RogueIsNew => RogueIsNew'
      BY <1>2 DEF RogueIsNew
    <3>. QED
      BY <1>2, <1>6, <1>7, <3>1, <3>2 DEF RogueIsGone
  <2>2. fate = "ok" /\ t.kind = "add_issuer" => SetupDone'
    BY <1>6, <1>7 DEF SetupDone
  <2>. QED
    BY <1>2, <1>4, <1>6, <1>7, <2>1, <2>2 DEF ResultHolds
<1>12. ConfirmedWorked'
  BY <1>1, <1>2 DEF ConfirmedWorked
<1>13. CASE ~(t.kind = "add_rogue" /\ RogueIsGone)
  <2>1. RogueIsGone => rogue \notin allowlist'
    BY <1>6, <1>7, <1>13 DEF RogueIsGone, Allows
  <2>. QED
    BY <1>2, <1>3, <1>9, <1>10, <1>11, <1>12, <2>1, RunStandsStill
<1>14. CASE t.kind = "add_rogue"
  <2>1. Scripted'
    BY <1>2 DEF Scripted, ScriptOf
  <2>2. Minted'
    BY <1>2 DEF Minted, InFlight
  <2>3. TxFits'
    BY <1>2 DEF TxFits
  <2>4. SetupDone => SetupDone'
    BY <1>9 DEF SetupDone, Lasts
  <2>5. RogueIsNew => RogueIsNew'
    BY <1>2 DEF RogueIsNew
  <2>6. Progress'
    BY <1>2, <1>7, <1>14, <2>4, <2>5 DEF Progress
  <2>7. Finished'
    BY <1>1, <1>2 DEF Finished
  <2>. QED
    BY <1>3, <1>10, <1>11, <1>12, <2>1, <2>2, <2>3, <2>6, <2>7
<1>. QED
  BY <1>13, <1>14

\* when one of an earlier run does,
LEMMA LandLateIsDone ==
    ASSUME DInv, NEW t \in orphans, LandLate(t)
    PROVE  DInv'
<1>. USE DEF DInv
<1>1. t \in Tx /\ t \in InFlight /\ Honest(t)
  BY NoTxAssumption DEF IInv, TypeOK, InFlight, AllHonest
<1>2. /\ orphans' \subseteq orphans
      /\ UNCHANGED <<finalized, clock, mode, todo, pc, tx, result, rogue, ticket, deposits, rogues, ended>>
  BY DEF LandLate, run
<1>3. IInv' /\ IInv /\ TypeOK
  BY LandLateKeeps DEF IInv
<1>4. PICK fate : Execute(t, fate)
  BY DEF LandLate
<1>5. /\ configured => configured'
      /\ \A k \in allowlist : k \in allowlist' \/ (t.kind = "remove_rogue" /\ k = t.signer)
      /\ \A k \in allowlist' : k \in allowlist \/ (Allows(t) /\ k = t.signer)
  BY <1>1, <1>3, <1>4, ExecuteOnConfig
<1>6. /\ t.kind = "add_issuer" => t.signer = Issuer
      /\ t.kind = "remove_rogue" => t.signer # Issuer
  BY <1>1 DEF Minted
<1>7. Effect(t)
  BY <1>3, LandLateEffect
<1>8. Lasts
  BY <1>3, <1>5, <1>6, <1>7, EffectLasts DEF Lasts
<1>9. Lagging'
  BY <1>2, <1>8 DEF Lagging, Lasts
<1>10. RogueIsGone => rogue \notin allowlist'
  BY <1>5, <1>6 DEF RogueIsGone, RogueIsNew, Allows
<1>11. RogueIsGone => RogueIsGone'
  BY <1>2, <1>10 DEF RogueIsGone, RogueIsNew
<1>12. ResultHolds'
  <2>1. SetupDone => SetupDone'
    BY <1>8 DEF SetupDone, Lasts
  <2>2. tx # NoTx /\ tx.kind \in {"release", "refund_expired"} => ticket \in Deposits
    BY <1>3 DEF TxFits, IInv, AllHonest, Honest, InFlight, OnEscrow, Releases
  <2>. QED
    BY <1>2, <1>8, <1>11, <2>1, <2>2 DEF ResultHolds, Lasts
<1>13. ConfirmedWorked'
  BY <1>2 DEF ConfirmedWorked
<1>. QED
  BY <1>2, <1>3, <1>8, <1>9, <1>10, <1>12, <1>13, RunStandsStill

\* Nothing happens to the allowlist, and the run stands still.
LEMMA OthersAreDone ==
    ASSUME DInv, IInv', orphans' \subseteq orphans, Lagging',
           UNCHANGED <<configured, allowlist, mode, todo, pc, tx, result, rogue, ticket, rogues, ended>>,
           \A d \in Deposits : escrow[d] \in {"released", "refunded"} => escrow'[d] = escrow[d]
    PROVE  DInv'
<1>. USE DEF DInv
<1>1. Lasts
  BY DEF Lasts
<1>2. RogueIsGone => RogueIsGone'
  BY DEF RogueIsGone, RogueIsNew
<1>3. ResultHolds'
  <2>1. tx # NoTx /\ tx.kind \in {"release", "refund_expired"} => ticket \in Deposits
    BY DEF TxFits, IInv, AllHonest, Honest, InFlight, OnEscrow, Releases
  <2>. QED
    BY <1>2, <2>1 DEF ResultHolds, SetupDone
<1>4. ConfirmedWorked'
  BY DEF ConfirmedWorked
<1>5. RogueIsGone => rogue \notin allowlist'
  BY DEF RogueIsGone
<1>. QED
  BY <1>1, <1>3, <1>4, <1>5, RunStandsStill

\* when the chain goes on,
LEMMA ChainIsDone ==
    ASSUME DInv,
           \/ \E t \in orphans : Drop(t)
           \/ \E d \in Deposits : RefundByAnyone(d)
           \/ Finalize
           \/ Tick
           \/ UNCHANGED vars
    PROVE  DInv'
<1>. USE DEF DInv
<1>1. IInv'
  BY IInvStep DEF Next
<1>2. CASE \E t \in orphans : Drop(t)
  BY <1>1, <1>2, OthersAreDone DEF Drop, chain, run, Lagging
<1>3. ASSUME NEW d \in Deposits, RefundByAnyone(d) PROVE DInv'
  <2>1. \A e \in Deposits : escrow[e] \in {"released", "refunded"} => escrow'[e] = escrow[e]
    BY <1>3 DEF RefundByAnyone, IInv, TypeOK
  <2>. QED
    BY <1>1, <1>3, <2>1, OthersAreDone DEF RefundByAnyone, run, Lagging
<1>4. CASE Finalize
  <2>1. Lagging'
    BY <1>4 DEF Finalize, Lagging, chain
  <2>. QED
    BY <1>1, <1>4, <2>1, OthersAreDone DEF Finalize, chain, run
<1>5. CASE Tick
  BY <1>1, <1>5, OthersAreDone DEF Tick, chain, run, Lagging
<1>6. CASE UNCHANGED vars
  BY <1>1, <1>6, OthersAreDone DEF vars, Lagging
<1>. QED
  BY <1>2, <1>3, <1>4, <1>5, <1>6

-----------------------------------------------------------------------------
(* The steps of the run.                                                   *)

\* when a run starts,
LEMMA StartIsDone ==
    ASSUME DInv, NEW m \in Modes, Start(m)
    PROVE  DInv'
<1>. USE DEF DInv
<1>1. IInv' /\ IInv
  BY IInvStep DEF Next
<1>2. m \in AllModes
  BY DevnetAssumption
<1>3. /\ ScriptOf(Plan(m), m)
      /\ m \in {"setup", "all"} => Head(Plan(m)) = "read_config"
      /\ m = "deny-unpinned" => Head(Plan(m)) = "add_rogue"
  BY <1>2, PlanIsScript
<1>4. /\ mode' = m /\ todo' = Plan(m) /\ pc' = "ready" /\ ended' = "" /\ tx = NoTx
      /\ UNCHANGED <<chain, finalized, orphans, tx, result, rogue, ticket, rogues>>
  BY <1>1 DEF Start, IInv, TypeOK
<1>5. Scripted'
  BY <1>3, <1>4 DEF Scripted, ScriptOf
<1>6. Minted' /\ Lagging' /\ TxFits' /\ ResultHolds' /\ ConfirmedWorked' /\ Finished'
  BY <1>4 DEF Minted, InFlight, Lagging, chain, TxFits, ResultHolds, ConfirmedWorked, Finished
<1>7. Progress'
  BY <1>3, <1>4 DEF Progress, SetupOps, RogueOps, RogueModes
<1>. QED
  BY <1>1, <1>5, <1>6, <1>7

\* A run that a log.Fatalf ends, or that is killed.
LEMMA FailureIsDone ==
    ASSUME DInv, IInv', NEW why, why # "done", End(why),
           UNCHANGED <<chain, finalized, rogue, rogues>>
    PROVE  DInv'
<1>. USE DEF DInv, End
<1>1. InFlight' \subseteq InFlight
  BY DEF InFlight
<1>2. Minted'
  BY <1>1 DEF Minted
<1>3. Lagging'
  BY DEF Lagging, chain
<1>4. Scripted' /\ TxFits' /\ ResultHolds' /\ ConfirmedWorked' /\ Progress' /\ Finished'
  BY DEF Scripted, TxFits, ResultHolds, ConfirmedWorked, Progress, Finished
<1>. QED
  BY <1>2, <1>3, <1>4

\* The operation in turn is not done yet.
LEMMA OpIsNotDone ==
    ASSUME TypeOK, pc # "idle"
    PROVE  Op # "done" /\ Op \in OpName
<1>1. Op \in OpName
  BY TailIsOps
<1>. QED
  BY <1>1 DEF OpName, Kinds, Releases

\* The operation's transaction is assembled; what it names is settled.
LEMMA AssembledIsDone ==
    ASSUME DInv, IInv', NEW t \in Tx, tx' = t, t.kind = Head(todo),
           pc = "ready", pc' = "built",
           t.kind = "add_issuer" => t.signer = Issuer,
           t.kind \in {"release", "refund_expired"} => t.id = ticket,
           t.kind \in {"add_rogue", "remove_rogue"} => t.signer = rogue',
           t.kind = "add_rogue" => rogue' \in rogues' \ rogues,
           t.kind # "add_rogue" => rogue' = rogue,
           rogues \subseteq rogues',
           UNCHANGED <<chain, finalized, orphans, mode, todo, result, ticket, ended>>
    PROVE  DInv'
<1>. USE DEF DInv
<1>1. /\ rogue' # Issuer /\ tx = NoTx /\ t # NoTx
      /\ InFlight' \subseteq InFlight \cup {t} /\ orphans \subseteq InFlight /\ result = "pending"
  <2>1. rogue' # Issuer
    BY Ranges DEF IInv, TypeOK
  <2>2. tx = NoTx /\ NoTx \notin orphans /\ result = "pending"
    BY NoTxAssumption DEF IInv, TypeOK, InStep
  <2>. QED
    BY <2>1, <2>2, NoTxAssumption DEF InFlight
<1>2. Minted'
  BY <1>1 DEF Minted
<1>3. Scripted' /\ Lagging' /\ ResultHolds' /\ ConfirmedWorked' /\ Finished'
  BY <1>1 DEF Scripted, ScriptOf, Lagging, chain, ResultHolds, ConfirmedWorked, Finished
<1>4. TxFits'
  BY DEF TxFits
<1>5. CASE t.kind = "add_rogue"
  <2>1. RogueIsNew'
    BY <1>1, <1>5 DEF RogueIsNew, Minted
  <2>2. Progress'
    BY <1>5, <2>1 DEF Progress, SetupDone, chain
  <2>. QED
    BY <1>2, <1>3, <1>4, <2>2
<1>6. CASE t.kind # "add_rogue"
  <2>1. (RogueIsNew => RogueIsNew') /\ (RogueIsGone => RogueIsGone')
    BY <1>6 DEF RogueIsNew, RogueIsGone, chain
  <2>2. Progress'
    BY <1>6, <2>1 DEF Progress, SetupDone, chain
  <2>. QED
    BY <1>2, <1>3, <1>4, <2>2
<1>. QED
  BY <1>5, <1>6

\* What was achieved lasts when a transaction is built,
LEMMA BuildIsDone ==
    ASSUME DInv, Build
    PROVE  DInv'
<1>1. IInv' /\ IInv
  BY IInvStep DEF Next, Driver, DInv
<1>2. Assemble
  BY <1>1, BuildAssembles
<1>3. PICK t : t = tx'
  OBVIOUS
<1>4. /\ t \in Tx /\ t.kind = Head(todo) /\ pc = "ready" /\ pc' = "built"
      /\ UNCHANGED <<chain, finalized, orphans, mode, todo, result, ticket>>
  BY <1>2, <1>3 DEF Assemble
<1>5. /\ t.kind = "add_issuer" => t.signer = Issuer
      /\ t.kind \in {"release", "refund_expired"} => t.id = ticket
      /\ t.kind \in {"add_rogue", "remove_rogue"} => t.signer = rogue'
      /\ t.kind = "add_rogue" => rogue' \in rogues' \ rogues
      /\ t.kind # "add_rogue" => rogue' = rogue
      /\ rogues \subseteq rogues'
      /\ ended' = ended
  <2>1. CASE BuildSetup
    BY <1>3, <2>1 DEF BuildSetup, Assembled, Unsent
  <2>2. CASE BuildRemoval
    BY <1>3, <2>2 DEF BuildRemoval, Assembled, Unsent
  <2>3. CASE BuildRelease
    <3>1. PICK signer : Assembled(ticket, signer)
      BY <2>3 DEF BuildRelease
    <3>2. Op \in Releases
      BY <2>3 DEF BuildRelease
    <3>. QED
      BY <1>3, <3>1, <3>2 DEF Assembled, Unsent, Releases
  <2>4. CASE BuildRefund
    BY <1>3, <2>4 DEF BuildRefund, Assembled, Unsent
  <2>5. CASE BuildDeposit
    BY <1>3, <2>5 DEF BuildDeposit, Unsent
  <2>6. CASE BuildRogue
    BY <1>3, <2>6 DEF BuildRogue, Unsent
  <2>. QED
    BY <2>1, <2>2, <2>3, <2>4, <2>5, <2>6 DEF Build
<1>. QED
  BY <1>1, <1>3, <1>4, <1>5, AssembledIsDone

\* send submits, and its poll finds what it wanted.
LEMMA SendIsDone ==
    ASSUME DInv, Send \/ Confirm
    PROVE  DInv'
<1>. USE DEF DInv
<1>1. IInv' /\ IInv
  BY IInvStep DEF Next, Driver
<1>2. /\ UNCHANGED <<chain, finalized, clock, rogue, ticket, deposits, rogues>>
      /\ pc \in {"built", "waiting"}
  BY DEF Send, Confirm
<1>3. CASE End(Op)
  BY <1>1, <1>2, <1>3, OpIsNotDone, FailureIsDone DEF IInv
<1>4. CASE ~End(Op)
  <2>1. UNCHANGED <<mode, todo, tx, result, orphans, ended>> /\ pc' \in {"waiting", "confirmed"}
    BY <1>4 DEF Send, Confirm
  <2>2. Scripted' /\ Minted' /\ Lagging' /\ TxFits'
    BY <1>2, <2>1 DEF Scripted, ScriptOf, Minted, InFlight, Lagging, chain, TxFits
  <2>3. ConfirmedWorked'
    BY <1>4, <2>1 DEF Send, Confirm, ConfirmedWorked, ExpectsFailure, Op
  <2>4. (RogueIsNew <=> RogueIsNew') /\ (RogueIsGone <=> RogueIsGone') /\ (SetupDone <=> SetupDone')
    BY <1>2, <2>1 DEF RogueIsNew, RogueIsGone, SetupDone, chain
  <2>5. ResultHolds'
    BY <1>2, <2>1, <2>4 DEF ResultHolds, chain
  <2>6. Progress'
    BY <1>2, <2>1, <2>4 DEF Progress
  <2>7. Finished'
    BY <2>1 DEF Finished
  <2>. QED
    BY <1>1, <2>2, <2>3, <2>5, <2>6, <2>7
<1>. QED
  BY <1>3, <1>4

\* On to the next operation, or the end of the run.
LEMMA ProceedIsDone ==
    ASSUME DInv, IInv', NEW rest \in Seq(OpName), Proceed(rest), pc # "waiting",
           UNCHANGED <<chain, finalized, rogue, rogues>>,
           rest # <<>> => ScriptOf(rest, mode),
           rest # <<>> /\ mode \in {"setup", "all"} /\ Head(rest) \notin SetupOps => SetupDone,
           rest # <<>> /\ mode = "all" /\ Head(rest) = "release" => RogueIsGone,
           rest # <<>> /\ mode \in RogueModes /\ Head(rest) \in RogueOps \ {"add_rogue"} => RogueIsNew,
           rest = <<>> =>
              /\ mode \in {"release", "all"} => ticket' \in Deposits /\ escrow[ticket'] = "released"
              /\ mode = "refund" => ticket' \in Deposits /\ escrow[ticket'] = "refunded"
              /\ mode = "deposit" => ticket' \in Deposits
              /\ mode \in {"setup", "all"} => SetupDone
              /\ mode \in RogueModes => RogueIsGone
    PROVE  DInv'
<1>. USE DEF DInv
<1>1. tx' = NoTx /\ result' = "pending" /\ mode' = mode /\ orphans' = orphans
  BY DEF Proceed, End
<1>2. InFlight' \subseteq InFlight
  BY <1>1 DEF InFlight
<1>3. Minted' /\ Lagging' /\ TxFits' /\ ResultHolds'
  BY <1>1, <1>2 DEF Minted, Lagging, chain, TxFits, ResultHolds
<1>4. (RogueIsNew <=> RogueIsNew') /\ (RogueIsGone <=> RogueIsGone') /\ (SetupDone <=> SetupDone')
  BY <1>1 DEF RogueIsNew, RogueIsGone, SetupDone, chain
<1>5. CASE rest = <<>>
  <2>1. pc' = "idle"
    BY <1>5 DEF Proceed, End
  <2>2. Scripted' /\ ConfirmedWorked' /\ Progress'
    BY <2>1 DEF Scripted, ConfirmedWorked, Progress
  <2>3. Finished'
    BY <1>1, <1>4, <1>5 DEF Finished, chain
  <2>. QED
    BY <1>3, <2>2, <2>3
<1>6. CASE rest # <<>>
  <2>1. pc' = "ready" /\ todo' = rest
    BY <1>6 DEF Proceed
  <2>2. Scripted' /\ ConfirmedWorked' /\ Finished'
    BY <1>1, <1>6, <2>1 DEF Scripted, ScriptOf, ConfirmedWorked, Finished
  <2>3. Progress'
    BY <1>1, <1>4, <1>6, <2>1 DEF Progress
  <2>. QED
    BY <1>3, <2>2, <2>3
<1>. QED
  BY <1>5, <1>6

\* A script of one operation is its last.
LEMMA LastOfScript ==
    ASSUME NEW s \in Seq(OpName), s # <<>>, NEW m, ScriptOf(s, m), Tail(s) = <<>>
    PROVE  Head(s) \in Last(m)
<1>1. Len(Tail(s)) = Len(s) - 1 /\ Len(s) \in Nat
  OBVIOUS
<1>0. Len(Tail(s)) = 0
  <2>1. Len(<<>>) = 0
    OBVIOUS
  <2>2. Len(Tail(s)) = Len(<<>>)
    BY Zenon
  <2>. QED
    BY <2>1, <2>2
<1>2. Len(s) = 1 /\ Head(s) = s[1]
  BY <1>0, <1>1
<1>. QED
  BY <1>2 DEF ScriptOf

\* The two scripts setup chooses from.
LEMMA SetupIsOps ==
    /\ <<"init_config", "add_issuer">> \in Seq(OpName)
    /\ <<"add_issuer">> \in Seq(OpName)
<1>1. "init_config" \in OpName /\ "add_issuer" \in OpName
  BY DEF OpName, Kinds
<1>. QED
  BY <1>1

\* What setup still has to do, put in front of the rest, is a script again.
LEMMA PrefixIsScript ==
    ASSUME NEW s \in Seq(OpName), s # <<>>, NEW m \in AllModes \cup {"none"}, ScriptOf(s, m),
           Head(s) = "read_config",
           NEW p \in {<<"init_config", "add_issuer">>, <<"add_issuer">>}
    PROVE  /\ ScriptOf(p \o Tail(s), m)
           /\ p \o Tail(s) # <<>> /\ Head(p \o Tail(s)) \in SetupOps
<1>. DEFINE n == Len(p)
            q == p \o Tail(s)
<1>1. /\ n \in 1..2 /\ p[n] = "add_issuer" /\ p[1] \in {"init_config", "add_issuer"}
      /\ n = 2 => p[1] = "init_config"
  <2>1. CASE p = <<"init_config", "add_issuer">>
    BY <2>1
  <2>2. CASE p = <<"add_issuer">>
    BY <2>2
  <2>. QED
    BY <2>1, <2>2
<1>2. /\ Tail(s) \in Seq(OpName) /\ Len(Tail(s)) = Len(s) - 1 /\ Len(s) \in Nat \ {0}
      /\ s[1] = "read_config" /\ \A i \in 1..(Len(s) - 1) : Tail(s)[i] = s[i + 1]
  OBVIOUS
<1>3. p \in Seq(OpName)
  BY SetupIsOps
<1>4. /\ q \in Seq(OpName) /\ Len(q) = n + Len(s) - 1
      /\ \A i \in 1..n : q[i] = p[i]
      /\ \A i \in (n + 1)..Len(q) : q[i] = s[i - n + 1]
  <2>1. q \in Seq(OpName) /\ Len(q) = n + Len(Tail(s))
    BY <1>2, <1>3
  <2>2. \A i \in 1..n : q[i] = p[i]
    BY <1>2, <1>3
  <2>3. ASSUME NEW i \in (n + 1)..Len(q) PROVE q[i] = s[i - n + 1]
    <3>1. q[i] = Tail(s)[i - n]
      BY <1>1, <1>2, <1>3, <2>1, <2>3
    <3>2. i - n \in 1..(Len(s) - 1)
      BY <1>1, <1>2, <2>1, <2>3
    <3>. QED
      BY <3>1, <3>2, <1>2
  <2>. QED
    BY <1>2, <2>1, <2>2, <2>3
<1>. HIDE DEF q, n
<1>5. ASSUME NEW i \in 1..(Len(q) - 1)
      PROVE  <<q[i], q[i + 1]>> \in InTurn
  <2>1. CASE i < n
    BY <1>1, <1>4, <2>1 DEF InTurn
  <2>2. CASE i = n
    <3>1. q[i] = "add_issuer" /\ q[i + 1] = s[1 + 1] /\ 1 \in 1..(Len(s) - 1)
      BY <1>1, <1>2, <1>4, <2>2
    <3>2. <<s[1], s[1 + 1]>> \in InTurn
      BY <3>1 DEF ScriptOf
    <3>3. s[1 + 1] = "init_escrow"
      BY <1>2, <3>2 DEF InTurn
    <3>. QED
      BY <3>1, <3>3 DEF InTurn
  <2>3. CASE i > n
    <3>1. /\ q[i] = s[i - n + 1] /\ q[i + 1] = s[(i - n + 1) + 1]
          /\ i - n + 1 \in 1..(Len(s) - 1)
      BY <1>1, <1>2, <1>4, <2>3
    <3>. QED
      BY <3>1 DEF ScriptOf
  <2>. QED
    BY <1>1, <1>4, <1>5, <2>1, <2>2, <2>3
<1>6. q[Len(q)] \in Last(m)
  <2>1. CASE Len(s) = 1
    <3>1. "read_config" \in Last(m)
      BY <1>2, <2>1 DEF ScriptOf
    <3>2. m = "setup"
      BY <3>1 DEF Last, AllModes
    <3>3. q[Len(q)] = "add_issuer"
      BY <1>1, <1>4, <2>1
    <3>. QED
      BY <3>2, <3>3 DEF Last
  <2>2. CASE Len(s) # 1
    <3>1. Len(q) \in (n + 1)..Len(q) /\ Len(q) - n + 1 = Len(s)
      BY <1>1, <1>2, <1>4, <2>2
    <3>2. q[Len(q)] = s[Len(s)]
      BY <1>4, <3>1
    <3>. QED
      BY <3>2 DEF ScriptOf
  <2>. QED
    BY <2>1, <2>2
<1>7. q # <<>> /\ Head(q) \in SetupOps
  <2>1. Len(q) >= 1 /\ q[1] = p[1]
    BY <1>1, <1>2, <1>4
  <2>. QED
    BY <1>1, <1>4, <2>1 DEF SetupOps
<1>. QED
  BY <1>5, <1>6, <1>7 DEF ScriptOf, q

\* What was achieved lasts when setup chooses its script,
LEMMA ReadConfigIsDone ==
    ASSUME DInv, ReadConfig
    PROVE  DInv'
<1>. USE DEF DInv
<1>1. IInv' /\ IInv
  BY IInvStep DEF Next, Driver
<1>2. /\ pc = "ready" /\ Head(todo) = "read_config" /\ ticket' = ticket
      /\ UNCHANGED <<chain, finalized, rogue, rogues>>
  BY DEF ReadConfig, SetupSteps, Op
<1>3. /\ todo \in Seq(OpName) /\ todo # <<>> /\ ScriptOf(todo, mode)
      /\ Tail(todo) \in Seq(OpName) /\ mode \in AllModes \cup {"none"}
  BY <1>1, <1>2, DevnetAssumption DEF IInv, TypeOK, OpName, Scripted
<1>4. \/ Proceed(<<"init_config", "add_issuer">> \o Tail(todo))
      \/ Proceed(<<"add_issuer">> \o Tail(todo))
      \/ /\ finalized.configured /\ Issuer \in finalized.allowlist
         /\ Proceed(<<>> \o Tail(todo))
  BY DEF ReadConfig, SetupSteps
<1>5. ASSUME NEW p \in {<<"init_config", "add_issuer">>, <<"add_issuer">>},
             Proceed(p \o Tail(todo))
      PROVE  DInv'
  <2>. DEFINE q == p \o Tail(todo)
  <2>1. ScriptOf(q, mode) /\ q # <<>> /\ Head(q) \in SetupOps
    BY <1>2, <1>3, PrefixIsScript
  <2>2. q \in Seq(OpName)
    <3>1. p \in Seq(OpName)
      BY SetupIsOps
    <3>. QED
      BY <1>3, <3>1
  <2>3. Proceed(q)
    BY <1>5
  <2>. HIDE DEF q
  <2>4. Head(q) # "release" /\ Head(q) \notin RogueOps
    BY <2>1 DEF SetupOps, RogueOps
  <2>. QED
    BY <1>1, <1>2, <2>1, <2>2, <2>3, <2>4, ProceedIsDone
<1>6. CASE finalized.configured /\ Issuer \in finalized.allowlist /\ Proceed(<<>> \o Tail(todo))
  <2>1. Proceed(Tail(todo)) /\ SetupDone
    BY <1>3, <1>6 DEF Lagging, SetupDone
  <2>2. CASE Tail(todo) = <<>>
    <3>1. "read_config" \in Last(mode)
      BY <1>2, <1>3, <2>2, LastOfScript
    <3>2. mode = "setup"
      BY <1>3, <3>1 DEF Last, AllModes
    <3>. QED
      BY <1>1, <1>2, <1>3, <2>1, <2>2, <3>2, ProceedIsDone DEF RogueModes
  <2>3. CASE Tail(todo) # <<>>
    <3>1. ScriptOf(Tail(todo), mode) /\ <<"read_config", Head(Tail(todo))>> \in InTurn
      BY <1>2, <1>3, <2>3, TailIsScript
    <3>2. Head(Tail(todo)) = "init_escrow"
      BY <3>1 DEF InTurn
    <3>. QED
      BY <1>1, <1>2, <1>3, <2>1, <2>3, <3>1, <3>2, ProceedIsDone DEF RogueOps
  <2>. QED
    BY <2>2, <2>3
<1>. QED
  BY <1>4, <1>5, <1>6

\* and when an operation is followed by the next.
LEMMA FollowIsDone ==
    ASSUME DInv, Follow
    PROVE  DInv'
<1>. USE DEF DInv
<1>1. IInv' /\ IInv
  BY IInvStep DEF Next, Driver
<1>2. /\ pc = "confirmed" /\ UNCHANGED <<chain, finalized, clock, rogue, deposits, rogues>>
      /\ ticket' = IF Op = "init_escrow" THEN tx.id ELSE ticket
  BY DEF Follow, SaveTicket
<1>3. CASE End(Op)
  BY <1>1, <1>2, <1>3, OpIsNotDone, FailureIsDone DEF IInv
<1>4. CASE ~End(Op)
  <2>1. /\ todo \in Seq(OpName) /\ todo # <<>> /\ ScriptOf(todo, mode)
        /\ Tail(todo) \in Seq(OpName) /\ mode \in AllModes \cup {"none"}
    BY <1>1, <1>2, DevnetAssumption DEF IInv, TypeOK, OpName, Scripted
  <2>2. Proceed(Tail(todo))
    BY <1>4 DEF Follow, SaveTicket
  <2>. DEFINE h == Head(todo)
              n == Head(Tail(todo))
  <2>3. tx # NoTx /\ tx.kind = h /\ h \in Kinds /\ (~ExpectsFailure(h) => result = "ok")
    BY <1>1, <1>2 DEF IInv, TypeOK, InStep, Tx, ConfirmedWorked
  <2>4. h = "add_issuer" => SetupDone
    BY <2>3 DEF ResultHolds, ExpectsFailure
  <2>5. h = "remove_rogue" /\ mode \in RogueModes => RogueIsGone
    BY <2>3 DEF ResultHolds, ExpectsFailure
  <2>6. h \in {"release", "refund_expired"} =>
           /\ ticket \in Deposits /\ ticket' = ticket
           /\ escrow[ticket] = IF h = "release" THEN "released" ELSE "refunded"
    <3>1. h \in {"release", "refund_expired"} => tx.id = ticket /\ tx.id \in Deposits
      BY <1>1, <2>3 DEF TxFits, IInv, AllHonest, Honest, InFlight, OnEscrow, Releases
    <3>. QED
      BY <1>2, <2>3, <3>1 DEF ResultHolds, ExpectsFailure, Op
  <2>7. h = "init_escrow" => ticket' \in Deposits
    BY <1>1, <1>2, NewTicketStays DEF Op
  <2>8. /\ mode \in {"setup", "all"} /\ h \notin SetupOps => SetupDone
        /\ mode = "all" /\ h = "release" => RogueIsGone
        /\ mode \in RogueModes /\ h \in RogueOps => RogueIsNew
    BY <1>2 DEF Progress
  <2>. HIDE DEF h, n
  <2>9. CASE Tail(todo) = <<>>
    <3>1. h \in Last(mode)
      BY <2>1, <2>9, LastOfScript DEF h
    <3>2. /\ mode \in {"release", "all"} => h = "release"
          /\ mode = "refund" => h = "refund_expired"
          /\ mode = "deposit" => h = "init_escrow"
          /\ mode = "setup" => h \in {"read_config", "add_issuer"}
          /\ mode = "deny-unpinned" => h = "remove_rogue"
      BY <3>1 DEF Last
    <3>3. /\ mode \in {"release", "all"} => ticket' \in Deposits /\ escrow[ticket'] = "released"
          /\ mode = "refund" => ticket' \in Deposits /\ escrow[ticket'] = "refunded"
          /\ mode = "deposit" => ticket' \in Deposits
      BY <2>6, <2>7, <3>2
    <3>4. mode \in {"setup", "all"} => SetupDone
      BY <2>3, <2>4, <2>8, <3>2 DEF SetupOps, Kinds, Releases
    <3>5. mode \in RogueModes => RogueIsGone
      BY <2>5, <2>8, <3>2 DEF RogueModes
    <3>. QED
      BY <1>1, <1>2, <2>1, <2>2, <2>9, <3>3, <3>4, <3>5, ProceedIsDone
  <2>10. CASE Tail(todo) # <<>>
    <3>1. ScriptOf(Tail(todo), mode) /\ <<h, n>> \in InTurn
      BY <2>1, <2>10, TailIsScript DEF h, n
    <3>2. /\ n = "release" => h = "remove_rogue"
          /\ n = "remove_rogue" => h = "deny-unpinned"
          /\ n = "deny-unpinned" => h = "add_rogue"
          /\ n \notin SetupOps => h \notin {"init_config"}
      BY <3>1 DEF InTurn, SetupOps
    <3>3. mode \in {"setup", "all"} /\ n \notin SetupOps => SetupDone
      BY <2>3, <2>4, <2>8, <3>2 DEF SetupOps, Kinds, Releases
    <3>4. mode = "all" /\ n = "release" => RogueIsGone
      BY <2>5, <3>2 DEF RogueModes
    <3>5. mode \in RogueModes /\ n \in RogueOps \ {"add_rogue"} => RogueIsNew
      BY <2>8, <3>2 DEF RogueOps
    <3>. QED
      BY <1>1, <1>2, <2>1, <2>2, <2>10, <3>1, <3>3, <3>4, <3>5, ProceedIsDone DEF n
  <2>. QED
    BY <2>9, <2>10
<1>. QED
  BY <1>3, <1>4

\* Every step keeps what the runs achieved.
LEMMA DInvStep == DInv /\ [Next]_vars => DInv'
<1>. SUFFICES ASSUME DInv, [Next]_vars PROVE DInv'
  OBVIOUS
<1>1. IInv' /\ IInv /\ TypeOK
  BY IInvStep DEF DInv, IInv
<1>2. CASE NoTicketFound
  BY <1>1, <1>2, OpIsNotDone, FailureIsDone DEF NoTicketFound
<1>3. CASE Interrupt
  BY <1>1, <1>3, OpIsNotDone, FailureIsDone DEF Interrupt
<1>4. CASE Driver /\ ~NoTicketFound
  BY <1>4, ReadConfigIsDone, BuildIsDone, SendIsDone, FollowIsDone DEF Driver
<1>. QED
  BY <1>2, <1>3, <1>4, StartIsDone, LandIsDone, LandLateIsDone, ChainIsDone DEF Next

\* A run of escrowdevnet that ends well did what its mode says, whatever
\* earlier runs left in flight (cmd/escrowdevnet/main.go:575, 741, 796, 846).
THEOREM DoneRunsDidIt == Spec => []DoneMeansDone
BY DInvInit, DInvStep, DoneFollows, PTL DEF Spec

-----------------------------------------------------------------------------
(* Without interruption nothing is lost track of: no transaction outlives   *)
(* its run, and the run that opened an escrow writes its ticket.            *)

Current == tx # NoTx /\ Opens(tx) => tx.id = deposits

Tracked ==
    \A d \in Deposits :
        escrow[d] = "held" =>
            \/ ticket \in Deposits /\ ticket >= d
            \/ tx # NoTx /\ Opens(tx) /\ tx.id = d /\ result = "ok"

Uninterrupted == orphans = {} /\ Current /\ Tracked

OInv == IInv /\ (~Interrupted => Uninterrupted)

\* At the start no escrow is open.
LEMMA OInvInit == Init => OInv
BY IInvInit DEF Init, OInv, Uninterrupted, Current, Tracked

\* An operation is over: what it had opened is on the ticket.
LEMMA ClearTracks ==
    ASSUME IInv, Uninterrupted, Clear, ~(pc = "waiting" /\ result = "pending"),
           \/ ticket' = ticket /\ (tx # NoTx /\ Opens(tx) => result # "ok")
           \/ tx # NoTx /\ Opens(tx) /\ ticket' = tx.id
    PROVE  Uninterrupted'
<1>. USE DEF Uninterrupted, Clear
<1>1. orphans' = {} /\ Current'
  BY DEF Current
<1>2. CASE ticket' = ticket /\ (tx # NoTx /\ Opens(tx) => result # "ok")
  BY <1>1, <1>2 DEF Tracked, chain
<1>3. CASE tx # NoTx /\ Opens(tx) /\ ticket' = tx.id
  <2>1. ticket' = deposits /\ ticket' \in Deposits
    BY <1>3 DEF Current, IInv, AllHonest, Honest, InFlight, Opens, OnEscrow
  <2>2. \A d \in Deposits : escrow'[d] = "held" => d <= deposits
    BY Ranges DEF IInv, Fresh, Deposits, TypeOK, chain
  <2>3. Tracked'
    BY <2>1, <2>2 DEF Tracked
  <2>. QED
    BY <1>1, <2>3
<1>. QED
  BY <1>2, <1>3

\* An uninterrupted driver keeps its escrow on the ticket.
LEMMA DriverTracks ==
    ASSUME IInv, Uninterrupted, Driver
    PROVE  Uninterrupted'
<1>1. CASE ReadConfig \/ NoTicketFound
  <2>1. Clear /\ ticket' = ticket /\ tx = NoTx /\ pc = "ready"
    BY <1>1, ReadConfigClears, EndClears DEF ReadConfig, SetupSteps, NoTicketFound, IInv, TypeOK
  <2>. QED
    BY <2>1, ClearTracks
<1>2. CASE Build
  <2>1. Assemble
    BY <1>2, BuildAssembles
  <2>2. Current'
    BY <2>1 DEF Assemble, Current
  <2>3. tx = NoTx /\ escrow' = escrow /\ ticket' = ticket /\ orphans' = orphans
    BY <2>1 DEF Assemble, IInv, TypeOK, chain
  <2>. QED
    BY <2>2, <2>3 DEF Uninterrupted, Tracked
<1>3. CASE (Send \/ Confirm) /\ End(Op)
  <2>1. /\ UNCHANGED <<chain, finalized, clock, rogue, ticket, deposits, rogues>>
        /\ ~(pc = "waiting" /\ result = "pending")
    BY <1>3 DEF Send, Confirm
  <2>2. Clear
    BY <1>3, <2>1, EndClears
  <2>3. CASE Send
    <3>1. result # "ok"
      BY <2>3 DEF Send, IInv, InStep
    <3>. QED
      BY <2>1, <2>2, <3>1, ClearTracks
  <2>4. CASE Confirm
    <3>1. pc' = "idle"
      BY <1>3 DEF End
    <3>2. (result = "ok") = ExpectsFailure(Op)
      BY <2>4, <3>1 DEF Confirm
    <3>3. tx # NoTx /\ Opens(tx) => result # "ok"
      BY <3>2 DEF IInv, InStep, Opens, ExpectsFailure, Op
    <3>. QED
      BY <2>1, <2>2, <3>3, ClearTracks
  <2>. QED
    BY <1>3, <2>3, <2>4
<1>4. CASE (Send \/ Confirm) /\ ~End(Op)
  <2>1. UNCHANGED <<chain, tx, result, orphans, ticket, deposits>>
    BY <1>4 DEF Send, Confirm
  <2>. QED
    BY <2>1 DEF Uninterrupted, Current, Tracked, Opens, chain
<1>5. CASE Follow
  <2>1. Clear /\ pc = "confirmed" /\ tx # NoTx
    BY <1>5, FollowClears DEF Follow, SaveTicket, IInv, TypeOK
  <2>2. ticket' = IF Op = "init_escrow" THEN tx.id ELSE ticket
    BY <1>5 DEF Follow, SaveTicket
  <2>3. Opens(tx) <=> Op = "init_escrow"
    BY <2>1 DEF IInv, InStep, Opens, Op
  <2>. QED
    BY <2>1, <2>2, <2>3, ClearTracks
<1>. QED
  BY <1>1, <1>2, <1>3, <1>4, <1>5 DEF Driver

\* The transaction that opens one is followed by its ticket.
LEMMA LandTracks ==
    ASSUME IInv, Uninterrupted, Land
    PROVE  Uninterrupted'
<1>1. /\ tx \in Tx /\ tx \in InFlight /\ Honest(tx) /\ pc = "waiting" /\ result = "pending"
      /\ UNCHANGED <<orphans, tx, ticket, deposits>>
  BY WaitingTx DEF Land
<1>2. PICK t, fate : t = tx /\ fate = result'
  OBVIOUS
<1>3. Execute(t, fate)
  BY <1>2 DEF Land
<1>4. \/ SameEscrows
      \/ Opened(t) /\ fate = "ok"
      \/ t.kind = "refund_expired" /\ Refunded(t.id)
      \/ Released(t)
  BY <1>1, <1>2, <1>3, ExecuteEffect DEF IInv
<1>5. ASSUME NEW d \in Deposits, escrow'[d] = "held"
      PROVE  escrow[d] = "held" \/ (Opens(t) /\ t.id = d /\ fate = "ok")
  BY <1>4, <1>5 DEF SameEscrows, Opened, Refunded, Released, Opens, IInv, TypeOK
<1>6. Tracked'
  BY <1>1, <1>2, <1>5 DEF Tracked, Uninterrupted, InFlight
<1>. QED
  BY <1>1, <1>6 DEF Uninterrupted, Current

\* Every step keeps open escrows tracked.
LEMMA OInvStep == OInv /\ [Next]_vars => OInv'
<1>. SUFFICES ASSUME OInv, [Next]_vars, ~Interrupted PROVE Uninterrupted'
  BY IInvStep DEF OInv
<1>1. IInv /\ Uninterrupted /\ TypeOK
  BY DEF OInv, IInv
<1>2. CASE Driver
  BY <1>1, <1>2, DriverTracks
<1>3. CASE Land
  BY <1>1, <1>3, LandTracks
<1>4. ASSUME NEW d \in Deposits, RefundByAnyone(d) PROVE Uninterrupted'
  <2>1. \A e \in Deposits : escrow'[e] = "held" => escrow[e] = "held"
    BY <1>1, <1>4 DEF RefundByAnyone, TypeOK
  <2>. QED
    BY <1>1, <1>4, <2>1 DEF RefundByAnyone, run, Uninterrupted, Current, Tracked
<1>5. CASE (\E m \in Modes : Start(m)) \/ Finalize \/ Tick \/ UNCHANGED vars
  <2>1. UNCHANGED <<escrow, tx, result, orphans, ticket, deposits>>
    BY <1>5 DEF Start, Finalize, Tick, vars, chain, run
  <2>. QED
    BY <1>1, <2>1 DEF Uninterrupted, Current, Tracked
<1>. QED
  BY <1>1, <1>2, <1>3, <1>4, <1>5 DEF Next, Interrupt, Uninterrupted

\* As long as no run is interrupted, the ticket reaches every open escrow but
\* those a later deposit took its place from (cmd/escrowdevnet/main.go:1145).
THEOREM OpenEscrowsAreTracked == Spec => []OpenEscrowIsTracked
<1>1. OInv => OpenEscrowIsTracked
  <2>. SUFFICES ASSUME OInv, ~Interrupted, pc = "idle", NEW d \in Deposits, escrow[d] = "held"
                PROVE  ticket # NoTicket /\ ticket >= d
    BY DEF OpenEscrowIsTracked
  <2>1. tx = NoTx
    BY DEF OInv, IInv, TypeOK
  <2>2. ticket \in Deposits /\ ticket >= d
    BY <2>1 DEF OInv, Uninterrupted, Tracked
  <2>. QED
    BY <2>2, DevnetAssumption DEF Deposits
<1>. QED
  BY <1>1, OInvInit, OInvStep, PTL DEF Spec

=============================================================================
