---------------------------- MODULE EscrowDevnet ----------------------------
(***************************************************************************)
(* cmd/escrowdevnet, the operator's driver of the release-on-proof path,   *)
(* against the deployed escrow program.  One run of the command executes   *)
(* the operations of its mode one after the other; each sends a            *)
(* transaction and polls for its confirmation, and every log.Fatalf ends   *)
(* the run where it stands.  What outlives a run is the chain, the         *)
(* transactions still in flight, and the ticket file.                      *)
(*                                                                         *)
(* External, modelled from the driver's use and comments: the on-chain     *)
(* program spt_x402_escrow and the RPC node.  A transaction in flight may  *)
(* land at any time or never (its blockhash expires); the node reports it  *)
(* or not; an account is read at the finalized commitment, which lags the  *)
(* confirmed one that send waits for.                                      *)
(*                                                                         *)
(* An escrow is named by its deposit: init_escrow commits to a fresh       *)
(* nonce, so its binding, escrow, vault and spent addresses belong to it   *)
(* alone.  Time is coarse; MaxTokenAge and MaxEscrow are in its units.     *)
(***************************************************************************)
EXTENDS Integers, Sequences, FiniteSets

CONSTANTS
    Issuer,       \* the key in the issuer file, and the default pin
    Rogues,       \* throwaway keys of denyCompromisedAdmin, one per run
    Outsider,     \* the throwaway key of deny-issuer, never allowlisted
    Modes,        \* the modes the operator uses
    NoTicket, NoTx,
    MaxIssuers,   \* MAX_ISSUERS, 16 on chain
    MaxTokenAge,  \* MaxTokenAgeSecs
    MaxEscrow,    \* MaxEscrowSecs
    Interrupted,  \* whether runs are killed and RPC calls fail
    MaxDeposits,  \* bound on the deposits made
    MaxClock      \* bound on time

Deposits == 1..MaxDeposits

Signers == {Issuer, Outsider} \cup Rogues

AllModes ==
    {"setup", "deposit", "deny-binding", "deny-issuer", "deny-unpinned",
     "release", "refund", "all"}

ASSUME DevnetAssumption ==
    /\ Modes \subseteq AllModes
    /\ Issuer \notin Rogues /\ Outsider \notin Rogues /\ Issuer # Outsider
    /\ MaxIssuers \in Nat \ {0}
    /\ MaxTokenAge \in Nat /\ MaxEscrow \in Nat
    /\ Interrupted \in BOOLEAN
    /\ MaxDeposits \in Nat /\ MaxClock \in Nat
    /\ NoTicket \notin Nat

Releases == {"release", "deny-binding", "deny-issuer", "deny-unpinned"}

Kinds ==
    Releases \cup {"init_config", "add_issuer", "add_rogue", "remove_rogue",
                   "init_escrow", "refund_expired"}

\* The operations of a mode; "read_config" decides what setup still has to do.
Plan(m) ==
    CASE m = "setup"         -> <<"read_config">>
      [] m = "deposit"       -> <<"init_escrow">>
      [] m = "deny-unpinned" -> <<"add_rogue", "deny-unpinned", "remove_rogue">>
      [] m = "refund"        -> <<"refund_expired">>
      [] m = "all"           -> <<"read_config", "init_escrow", "deny-binding", "deny-issuer",
                                  "add_rogue", "deny-unpinned", "remove_rogue", "release">>
      [] OTHER               -> <<m>>

\* signer: the key that signed the attestation, or the issuer added, removed
\* or pinned.  bound: the attestation is for this escrow's binding.
Tx == [kind: Kinds, id: Deposits \cup {NoTicket}, signer: Signers, bound: BOOLEAN,
       iat: 0..MaxClock]

ASSUME NoTxAssumption == NoTx \notin Tx

VARIABLES
    (* the chain, at the confirmed commitment *)
    configured,   \* the Config account exists
    allowlist,    \* Config.issuers
    escrow,       \* the state of each deposit's escrow
    pin,          \* the issuer each escrow is pinned to
    opened,       \* when each escrow was opened
    finalized,    \* the Config account as the finalized commitment shows it
    orphans,      \* sent by a run that ended before they landed; may still land
    clock,
    (* the run in progress *)
    mode,         \* its -mode
    todo,         \* its operations still to do, the current one first
    pc,           \* "idle", "ready", "built", "waiting" or "confirmed"
    tx,           \* the current operation's transaction
    result,       \* what the chain made of it: "pending", "ok" or an error
    rogue,        \* the key minted by denyCompromisedAdmin
    (* the operator's machine *)
    ticket,       \* the deposit escrow-ticket.json names; NoTicket if it does not parse
    deposits,     \* how many nonces were drawn
    rogues,       \* throwaway keys already minted
    ended         \* how the last run ended: "done", or the operation that failed;
                  \* "" while a run is in progress

chain == <<configured, allowlist, escrow, pin, opened>>
run == <<mode, todo, pc, tx, result, rogue>>
vars == <<configured, allowlist, escrow, pin, opened, finalized, orphans, clock,
          mode, todo, pc, tx, result, rogue, ticket, deposits, rogues, ended>>

Init ==
    /\ configured = FALSE
    /\ allowlist = {}
    /\ escrow = [d \in Deposits |-> "none"]
    /\ pin = [d \in Deposits |-> Issuer]
    /\ opened = [d \in Deposits |-> 0]
    /\ finalized = [configured |-> FALSE, allowlist |-> {}]
    /\ orphans = {}
    /\ clock = 0
    /\ mode = "none" /\ todo = <<>> /\ pc = "idle" /\ tx = NoTx
    /\ result = "pending" /\ rogue = Outsider
    /\ ticket = NoTicket /\ deposits = 0 /\ rogues = {}
    /\ ended = ""

-----------------------------------------------------------------------------
(* The escrow program.                                                     *)

\* Why the program would refuse a release of an open escrow.  The allowlist
\* is checked before the pin: deny-issuer's key fails both and gets 6102.
ReleaseErrors(t) ==
    (IF t.signer \notin allowlist THEN {"6102"}
     ELSE IF t.signer # pin[t.id] THEN {"6108"} ELSE {})
    \cup (IF t.bound THEN {} ELSE {"6105"})
    \cup (IF clock - t.iat > MaxTokenAge THEN {"stale"} ELSE {})

AddErrors(t) ==
    (IF t.signer \in allowlist THEN {"IssuerAlreadyPresent"} ELSE {})
    \cup (IF Cardinality(allowlist) >= MaxIssuers THEN {"TooManyIssuers"} ELSE {})

\* The errors one of which the program returns for t now; {} if it succeeds.
Errors(t) ==
    CASE t.kind = "init_config" -> IF configured THEN {"exists"} ELSE {}
      [] t.kind \in {"add_issuer", "add_rogue"} ->
            IF configured THEN AddErrors(t) ELSE {"NotInitialized"}
      [] t.kind = "remove_rogue" ->
            IF t.signer \in allowlist THEN {} ELSE {"NotPresent"}
      [] t.kind = "init_escrow" ->
            IF t.signer \in allowlist THEN {} ELSE {"PinNotAllowlisted"}
      [] t.kind = "refund_expired" ->
            IF escrow[t.id] # "held" THEN {"closed"}
            ELSE IF clock - opened[t.id] > MaxEscrow THEN {} ELSE {"early"}
      [] t.kind \in Releases ->
            IF escrow[t.id] # "held" THEN {"closed"} ELSE ReleaseErrors(t)

\* The effect of a transaction that succeeds.
Apply(t) ==
    /\ configured' = (configured \/ t.kind = "init_config")
    /\ allowlist' = CASE t.kind \in {"add_issuer", "add_rogue"} -> allowlist \cup {t.signer}
                      [] t.kind = "remove_rogue" -> allowlist \ {t.signer}
                      [] OTHER -> allowlist
    /\ escrow' = CASE t.kind = "init_escrow"    -> [escrow EXCEPT ![t.id] = "held"]
                   [] t.kind = "refund_expired" -> [escrow EXCEPT ![t.id] = "refunded"]
                   [] t.kind \in Releases       -> [escrow EXCEPT ![t.id] = "released"]
                   [] OTHER -> escrow
    /\ IF t.kind = "init_escrow"
         THEN pin' = [pin EXCEPT ![t.id] = t.signer] /\ opened' = [opened EXCEPT ![t.id] = clock]
         ELSE UNCHANGED <<pin, opened>>

\* A transaction takes effect, or fails with one of its errors.
Execute(t, fate) ==
    /\ fate \in IF Errors(t) = {} THEN {"ok"} ELSE Errors(t)
    /\ IF fate = "ok" THEN Apply(t) ELSE UNCHANGED chain

\* The transaction the run is waiting for lands.
Land ==
    /\ pc = "waiting" /\ result = "pending"
    /\ Execute(tx, result')
    /\ UNCHANGED <<finalized, orphans, clock, mode, todo, pc, tx, rogue, ticket, deposits, rogues, ended>>

\* One that an earlier run sent lands late.
LandLate(t) ==
    /\ orphans' = orphans \ {t}
    /\ \E fate \in {"ok"} \cup Errors(t) : Execute(t, fate)
    /\ UNCHANGED <<finalized, clock, run, ticket, deposits, rogues, ended>>

\* Its blockhash expires first.
Drop(t) ==
    /\ orphans' = orphans \ {t}
    /\ UNCHANGED <<chain, finalized, clock, run, ticket, deposits, rogues, ended>>

\* Anyone may refund an expired escrow.
RefundByAnyone(d) ==
    /\ escrow[d] = "held"
    /\ clock - opened[d] > MaxEscrow
    /\ escrow' = [escrow EXCEPT ![d] = "refunded"]
    /\ UNCHANGED <<configured, allowlist, pin, opened, finalized, orphans, clock, run,
                   ticket, deposits, rogues, ended>>

Finalize ==
    /\ finalized' = [configured |-> configured, allowlist |-> allowlist]
    /\ UNCHANGED <<chain, orphans, clock, run, ticket, deposits, rogues, ended>>

Tick ==
    /\ clock < MaxClock
    /\ clock' = clock + 1
    /\ UNCHANGED <<chain, finalized, orphans, run, ticket, deposits, rogues, ended>>

-----------------------------------------------------------------------------
(* The driver.                                                             *)

\* The run ends; why is "done" or the operation whose log.Fatalf ended it.  A
\* transaction it was still waiting for stays in flight.
End(why) ==
    /\ pc' = "idle"
    /\ todo' = <<>>
    /\ tx' = NoTx
    /\ result' = "pending"
    /\ orphans' = IF pc = "waiting" /\ result = "pending" THEN orphans \cup {tx} ELSE orphans
    /\ ended' = why
    /\ UNCHANGED mode

\* Mutant of Proceed: the previous operation's transaction is not reset.
ProceedStale(rest) ==
    IF rest = <<>> THEN End("done")
    ELSE /\ todo' = rest
         /\ pc' = "ready"
         /\ UNCHANGED <<tx, result, mode, orphans, ended>>

Proceed(rest) ==
    IF rest = <<>> THEN End("done")
    ELSE /\ todo' = rest
         /\ pc' = "ready"
         /\ tx' = NoTx
         /\ result' = "pending"
         /\ UNCHANGED <<mode, orphans, ended>>

Op == Head(todo)

\* main: the operator starts a run.
Start(m) ==
    /\ pc = "idle"
    /\ m \in {"deposit", "all"} => deposits < MaxDeposits
    /\ m \in {"deny-unpinned", "all"} => rogues # Rogues
    /\ mode' = m
    /\ ended' = ""
    /\ todo' = Plan(m)
    /\ pc' = "ready"
    /\ UNCHANGED <<chain, finalized, orphans, clock, tx, result, rogue, ticket, deposits, rogues>>

\* What setup does next, given that a config was read (exists) or not.  A
\* config of another admin than -admin holds ends the run (Interrupt).
SetupSteps(exists) ==
    CASE ~exists -> <<"init_config", "add_issuer">>
      [] exists /\ Issuer \in finalized.allowlist -> <<>>
      [] OTHER -> <<"add_issuer">>

\* setup: read the config at the finalized commitment; an RPC error reads as
\* "does not exist", an account that is no Config ends the run (Interrupt).
ReadConfig ==
    /\ pc = "ready" /\ Op = "read_config"
    /\ \E ok \in IF Interrupted THEN BOOLEAN ELSE {TRUE} :
          Proceed(SetupSteps(ok /\ finalized.configured) \o Tail(todo))
    /\ UNCHANGED <<chain, finalized, clock, rogue, ticket, deposits, rogues>>

\* Mutant of Unsent: deny-binding does not flip the bit.
UnsentUnflipped(kind, id, signer) ==
    [kind |-> kind, id |-> id, signer |-> signer, bound |-> TRUE,
     iat |-> IF kind \in Releases THEN clock ELSE 0]

\* Assemble the operation's transaction.  Releases and refunds act on the
\* escrow of the ticket; a release signs its attestation now.
Unsent(kind, id, signer) ==
    [kind |-> kind, id |-> id, signer |-> signer, bound |-> kind # "deny-binding",
     iat |-> IF kind \in Releases THEN clock ELSE 0]

Assembled(id, signer) ==
    /\ tx' = Unsent(Op, id, signer)
    /\ pc' = "built"
    /\ UNCHANGED <<chain, finalized, orphans, clock, mode, todo, result, rogue, ticket, deposits, rogues, ended>>

BuildSetup ==
    /\ pc = "ready" /\ Op \in {"init_config", "add_issuer"}
    /\ Assembled(NoTicket, Issuer)

BuildRemoval ==
    /\ pc = "ready" /\ Op = "remove_rogue"
    /\ Assembled(NoTicket, rogue)

\* Mutant of BuildRelease: deny-unpinned signs with the issuer file's key.
BuildReleaseWrongSigner ==
    /\ pc = "ready" /\ Op \in Releases
    /\ ticket # NoTicket
    /\ Assembled(ticket, IF Op = "deny-issuer" THEN Outsider ELSE Issuer)

\* release signs its attestation with the key its caller hands it.
BuildRelease ==
    /\ pc = "ready" /\ Op \in Releases
    /\ ticket # NoTicket
    /\ Assembled(ticket, CASE Op = "deny-issuer" -> Outsider
                           [] Op = "deny-unpinned" -> rogue
                           [] OTHER -> Issuer)

BuildRefund ==
    /\ pc = "ready" /\ Op = "refund_expired"
    /\ ticket # NoTicket
    /\ Assembled(ticket, Issuer)

NoTicketFound ==
    /\ pc = "ready" /\ Op \in Releases \cup {"refund_expired"} /\ ticket = NoTicket
    /\ End(Op)
    /\ UNCHANGED <<chain, finalized, clock, rogue, ticket, deposits, rogues>>

\* Mutant of BuildDeposit: the ticket is written before the deposit is sent.
BuildDepositTicketFirst ==
    /\ pc = "ready" /\ Op = "init_escrow"
    /\ deposits < MaxDeposits
    /\ deposits' = deposits + 1
    /\ tx' = Unsent(Op, deposits + 1, Issuer)
    /\ ticket' = deposits + 1
    /\ pc' = "built"
    /\ UNCHANGED <<chain, finalized, orphans, clock, mode, todo, result, rogue, rogues, ended>>

\* deposit up to its send: a fresh nonce, the gate, FromGate, the pin.  The
\* gate's refusals and FromGate's errors end the run here (Interrupt).
BuildDeposit ==
    /\ pc = "ready" /\ Op = "init_escrow"
    /\ deposits < MaxDeposits
    /\ deposits' = deposits + 1
    /\ tx' = Unsent(Op, deposits + 1, Issuer)
    /\ pc' = "built"
    /\ UNCHANGED <<chain, finalized, orphans, clock, mode, todo, result, rogue, ticket, rogues, ended>>

\* denyCompromisedAdmin mints its throwaway issuer.
BuildRogue ==
    /\ pc = "ready" /\ Op = "add_rogue"
    /\ \E r \in Rogues \ rogues :
          /\ rogue' = r
          /\ rogues' = rogues \cup {r}
          /\ tx' = Unsent(Op, NoTicket, r)
    /\ pc' = "built"
    /\ UNCHANGED <<chain, finalized, orphans, clock, mode, todo, result, ticket, deposits, ended>>

ExpectsFailure(kind) == kind \in {"deny-binding", "deny-issuer", "deny-unpinned"}

\* send: preflight, unless a failure is wanted on chain, then submit.
Send ==
    /\ pc = "built"
    /\ IF ~ExpectsFailure(Op) /\ Errors(tx) # {}
         THEN End(Op)
         ELSE pc' = "waiting" /\ UNCHANGED <<mode, todo, tx, result, orphans, ended>>
    /\ UNCHANGED <<chain, finalized, clock, rogue, ticket, deposits, rogues>>

\* Mutant of Confirm: a transaction that landed but failed is reported as sent.
ConfirmAnyway ==
    /\ pc = "waiting" /\ result # "pending"
    /\ IF ExpectsFailure(Op) /\ result = "ok"
         THEN End(Op)
         ELSE pc' = "confirmed" /\ UNCHANGED <<mode, todo, tx, result, orphans, ended>>
    /\ UNCHANGED <<chain, finalized, clock, rogue, ticket, deposits, rogues>>

\* send's poll sees the transaction confirmed.
Confirm ==
    /\ pc = "waiting" /\ result # "pending"
    /\ IF (result = "ok") = ExpectsFailure(Op)
         THEN End(Op)
         ELSE pc' = "confirmed" /\ UNCHANGED <<mode, todo, tx, result, orphans, ended>>
    /\ UNCHANGED <<chain, finalized, clock, rogue, ticket, deposits, rogues>>

Expected(kind) ==
    CASE kind = "deny-binding" -> "6105"
      [] kind = "deny-issuer" -> "6102"
      [] kind = "deny-unpinned" -> "6108"

\* Mutant of Follow: the ticket is not written.
FollowNoTicket ==
    /\ pc = "confirmed"
    /\ IF ExpectsFailure(Op) /\ result # Expected(Op) THEN End(Op) ELSE Proceed(Tail(todo))
    /\ UNCHANGED <<chain, finalized, clock, rogue, ticket, deposits, rogues>>

\* saveTicket: deposit writes the ticket once its transaction is confirmed.
SaveTicket == ticket' = IF Op = "init_escrow" THEN tx.id ELSE ticket

\* What follows the send: a denial must have failed with its own code.
Follow ==
    /\ pc = "confirmed"
    /\ IF ExpectsFailure(Op) /\ result # Expected(Op) THEN End(Op) ELSE Proceed(Tail(todo))
    /\ SaveTicket
    /\ UNCHANGED <<chain, finalized, clock, rogue, deposits, rogues>>

\* The run is killed, an RPC call fails, or the 90 second poll runs out,
\* whatever became of the transaction.  saveTicket truncates the file before
\* it writes: killed in between, it leaves no ticket that parses, not even
\* the previous one.
Interrupt ==
    /\ Interrupted
    /\ pc # "idle"
    /\ End(Op)
    /\ ticket' \in {ticket} \cup (IF pc = "confirmed" /\ Op = "init_escrow"
                                 THEN {tx.id, NoTicket} ELSE {})
    /\ UNCHANGED <<chain, finalized, clock, rogue, deposits, rogues>>

Build == BuildSetup \/ BuildDeposit \/ BuildRogue \/ BuildRemoval \/ BuildRelease \/ BuildRefund

Driver == ReadConfig \/ NoTicketFound \/ Build \/ Send \/ Confirm \/ Follow

Next ==
    \/ \E m \in Modes : Start(m)
    \/ Driver
    \/ Interrupt
    \/ Land
    \/ \E t \in orphans : LandLate(t) \/ Drop(t)
    \/ \E d \in Deposits : RefundByAnyone(d)
    \/ Finalize
    \/ Tick

Spec == Init /\ [][Next]_vars

\* A run goes on while it can, what was sent lands, time passes, and the
\* operator who made a deposit keeps running -mode refund.
FairSpec ==
    /\ Spec
    /\ WF_vars(Driver)
    /\ WF_vars(Land)
    /\ WF_vars(Tick)
    /\ SF_vars(Start("refund"))

-----------------------------------------------------------------------------
(* Properties.                                                             *)

TypeOK ==
    /\ configured \in BOOLEAN
    /\ allowlist \subseteq Signers
    /\ escrow \in [Deposits -> {"none", "held", "released", "refunded"}]
    /\ pin \in [Deposits -> Signers]
    /\ opened \in [Deposits -> 0..MaxClock]
    /\ finalized \in [configured: BOOLEAN, allowlist: SUBSET Signers]
    /\ orphans \subseteq Tx
    /\ clock \in 0..MaxClock
    /\ mode \in Modes \cup {"none"}
    /\ todo \in Seq(Kinds \cup {"read_config"})
    /\ pc \in {"idle", "ready", "built", "waiting", "confirmed"}
    /\ pc = "idle" <=> todo = <<>>
    /\ tx \in Tx \cup {NoTx}
    /\ pc \in {"built", "waiting", "confirmed"} <=> tx # NoTx
    /\ rogue \in Rogues \cup {Outsider}
    /\ ticket \in Deposits \cup {NoTicket}
    /\ deposits \in 0..MaxDeposits
    /\ rogues \subseteq Rogues

\* The denial demos are sent for real, with preflight off
\* (cmd/escrowdevnet/main.go:29), and must never move the money: an escrow is
\* released by the transaction of -mode release alone, on an attestation for
\* this escrow by its pinned and still allowlisted issuer, even though the
\* rogue key of a denial is allowlisted for real and an earlier run's
\* transaction may land during a later one.
DenialsReleaseNothing ==
    [][\A d \in Deposits :
          escrow[d] = "held" /\ escrow'[d] = "released" =>
              /\ pin[d] = Issuer /\ Issuer \in allowlist
              /\ \E t \in orphans \cup {tx} :
                    t # NoTx /\ t.kind = "release" /\ t.id = d /\ t.bound]_vars

\* A run that ends without log.Fatalf did what its mode says: the escrow of
\* the ticket was opened, released or refunded (main.go:575, 741, 846), setup
\* left the issuer allowlisted, and the rogue issuer of deny-unpinned is off
\* the allowlist again (main.go:796).
DoneMeansDone ==
    pc = "idle" /\ ended = "done" =>
        /\ mode \in {"release", "all"} => escrow[ticket] = "released"
        /\ mode = "refund" => escrow[ticket] = "refunded"
        /\ mode = "deposit" => escrow[ticket] # "none"
        /\ mode \in {"setup", "all"} => configured /\ Issuer \in allowlist
        /\ mode \in {"deny-unpinned", "all"} => rogue \notin allowlist

\* The ticket (main.go:1118) never names an escrow that does not exist: a
\* deposit that was refused or lost leaves the previous ticket in place.
TicketNamesAnEscrow == ticket # NoTicket => escrow[ticket] # "none"

\* As long as no run is interrupted, the only open escrows the driver can no
\* longer reach are those whose ticket a later deposit overwrote
\* (main.go:1145).
OpenEscrowIsTracked ==
    ~Interrupted /\ pc = "idle" =>
        \A d \in Deposits : escrow[d] = "held" => ticket # NoTicket /\ ticket >= d

\* The funds are not stranded (main.go:817): an escrow of an uninterrupted
\* deposit is paid out, to the recipient or back to the payer, as long as the
\* operator keeps asking for the refund, if it expires before MaxClock and no
\* later deposit takes its place in the ticket.
HeldIsPaidOut ==
    \A d \in Deposits :
        escrow[d] = "held" /\ opened[d] + MaxEscrow < MaxClock
            ~> escrow[d] # "held" \/ ticket \in (d + 1)..MaxDeposits

\* The escrows for which an attestation over their own binding, signed by the
\* issuer they are pinned to, is in the hands of the run or in flight.
Proven ==
    {d \in Deposits :
        \E t \in orphans \cup {tx} :
            t # NoTx /\ t.kind = "release" /\ t.id = d /\ t.bound /\ t.signer = Issuer}

Escrows == INSTANCE ReleaseOnProof WITH Escrows <- Deposits, state <- escrow, proven <- Proven

\* The driver, its late transactions and the chain together implement release
\* on proof (main.go:3-11): an escrow pays the recipient once, only while a
\* proof for it is outstanding, or goes back to the payer.
ImplementsReleaseOnProof == Escrows!Spec

\* main.go:766: the rogue issuer is removed afterwards so the allowlist is
\* left as it was found.  Any log.Fatalf between add_issuer(rogue) and
\* remove_issuer(rogue) leaves it there, and deny-unpinned against an escrow
\* that is already released or refunded always ends in one (main.go:810).
AllowlistIsRestored == pc = "idle" => allowlist \cap Rogues = {}

\* main.go:303: running setup twice is harmless.  readConfig looks at the
\* finalized commitment (main.go:414) while send waits for confirmed only
\* (main.go:944), so the second run may repeat what the first one did and die
\* on it.
SetupIsRepeatable ==
    ~(mode = "setup" /\ ended \in {"init_config", "add_issuer"})

=============================================================================
