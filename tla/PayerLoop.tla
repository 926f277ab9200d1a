----------------------------- MODULE PayerLoop -----------------------------
(***************************************************************************)
(* The x402 payment loop of package demo: clients (Client in process,      *)
(* HTTPClient over the network) that ask a resource server what it wants,  *)
(* have the gate decide, record the decision as evidence, build and check  *)
(* the transfer, and submit it; the resource servers; the receipt file a   *)
(* process writes when it ends; and cmd/anchordevnet, which anchors it.    *)
(*                                                                         *)
(* A client is one Client or HTTPClient value, alive as long as its        *)
(* process: NewClient and NewHTTPClient give it a spend-log and a receipt  *)
(* log of its own, both in memory, so a restarted program is another       *)
(* member of Clients.  A client runs one Pay at a time; clients interleave *)
(* with each other, with the servers and with the network.                 *)
(*                                                                         *)
(* External, modelled from their use: gate.Evaluate (decides, and spends   *)
(* the nonce exactly when it allows), translog.Append (appends or fails),  *)
(* net/http (a connection may break at any point of an exchange, and its   *)
(* transport may resend a GET whose connection broke), and the endpoint,   *)
(* which answers when it likes, or never.                                  *)
(***************************************************************************)
EXTENDS SettleGuard

CONSTANTS
    Clients,        \* client values, over all processes
    HTTPClients,    \* those that pay over HTTP; the others call the server
    Tokens,         \* tokens, each with its nonce
    Servers,        \* endpoints
    Demand,         \* what each endpoint's 402 demands
    Merchant, Attacker, Asset, Source, Payer, TokenProgram,  \* Accounts
    Calls,          \* the calls each client's program may make
    Before,         \* the processes that end before a client's process starts
    Ceiling, Payees,  \* Scope; its asset is Accounts.Asset in every caller
    NoCall,         \* a client that has not started a Pay
    MaxReceipts,    \* bound on a client's receipt log
    MaxCopies       \* bound on how often the transport sends one X-PAYMENT

Classes == {"ALLOW", "DENY_VIOLATION", "DENY_UNAVAILABLE"}

\* spelled is how maxAmountRequired is written: "canonical" decimal digits,
\* "signed" (a form big.Int reads and ParseUint refuses), or "garbage".
Requirement ==
    [listed: BOOLEAN, payTo: Keys, asset: Keys, amount: Int,
     spelled: {"canonical", "signed", "garbage"}]

ASSUME PayerAssumption ==
    /\ HTTPClients \subseteq Clients
    /\ Demand \in [Servers -> Requirement]
    /\ {Merchant, Attacker, Asset, Source, Payer, TokenProgram} \subseteq Keys
    /\ TokenProgram \in TokenPrograms
    /\ Payees \subseteq Keys
    /\ Before \in [Clients -> SUBSET Clients]
    /\ Ceiling \in 0..MaxU64
    /\ MaxReceipts \in Nat /\ MaxCopies \in Nat \ {0}

Call == [server: Servers, token: Tokens, tamper: BOOLEAN, expired: BOOLEAN]

ASSUME CallAssumption ==
    /\ NoCall \notin Call
    /\ Calls \in [Clients -> SUBSET Call]

Receipt == [decision: Classes, token: Tokens, server: Servers]

\* decision "" is the zero Outcome HTTPClient.Pay returns with an error.
Outcome == [decision: Classes \cup {""}, paid: BOOLEAN, aborted: BOOLEAN]

VARIABLES
    pc,        \* where each client is in Pay; "idle" between calls
    call,      \* the arguments of its current, or last, Pay
    verdict,   \* the class of d, the gate's decision
    spent,     \* its MemSpendLog
    receipts,  \* its translog
    outcome,   \* what its last Pay returned
    copies,    \* submissions in its current Pay; over HTTP, X-PAYMENT requests
    wire,      \* X-PAYMENT requests sent and not yet handled
    replies,   \* responses sent and not yet read
    settled,   \* history: payments a server accepted and released content for
    file,      \* receipts.json
    anchored   \* the logs whose root was anchored on chain

clientVars == <<pc, call, verdict, spent, receipts, outcome, copies>>
vars == <<pc, call, verdict, spent, receipts, outcome, copies, wire, replies,
          settled, file, anchored>>

Phases == {"idle", "asking", "required", "evaluated", "allowed", "signed", "awaiting",
           "exited", "crashed"}

Live == {"idle", "asking", "required", "evaluated", "allowed", "signed", "awaiting"}

\* A payment on its way to a server.  client, token, copy and entry (the
\* receipt it was evidenced by) are history: the wire format carries none.
\* form is what the header holds: "garbled" does not decode (base64, JSON,
\* instructions), "unsigned" decodes with signed false.
Message ==
    [client: Clients, token: Tokens, server: Servers, entry: Nat,
     copy: 1..MaxCopies, ixs: Seq(Instruction), form: {"signed", "unsigned", "garbled"}]

Reply == [client: Clients, status: {200, 400, 402}]

Release ==
    [client: Clients, token: Tokens, server: Servers, entry: Nat,
     copy: 1..MaxCopies, transfer: DecodedTransfer]

NoOutcome == [decision |-> "", paid |-> FALSE, aborted |-> FALSE]

Init ==
    /\ pc = [c \in Clients |-> "idle"]
    /\ call = [c \in Clients |-> NoCall]
    /\ verdict = [c \in Clients |-> "DENY_VIOLATION"]
    /\ spent = [c \in Clients |-> {}]
    /\ receipts = [c \in Clients |-> <<>>]
    /\ outcome = [c \in Clients |-> NoOutcome]
    /\ copies = [c \in Clients |-> 0]
    /\ wire = {} /\ replies = {} /\ settled = {}
    /\ file = <<>> /\ anchored = {}

-----------------------------------------------------------------------------
(* Decisions: the gate, the scope policy, the transfer, the facilitator.   *)

Magnitude(n) == IF n < 0 THEN -n ELSE n

\* Mutant of Verify: the ceiling is not enforced.
VerifyNoCeiling(req) ==
    /\ req.spelled # "garbage"
    /\ Magnitude(req.amount) <= MaxU64
    /\ req.asset = Asset
    /\ req.payTo \in Payees

\* ScopePolicy.Verify, which reads the magnitude of the amount.
Verify(req) ==
    /\ req.spelled # "garbage"
    /\ Magnitude(req.amount) <= MaxU64
    /\ Magnitude(req.amount) <= Ceiling
    /\ req.asset = Asset
    /\ req.payTo \in Payees

\* The gate can compute an intent binding: scheme and network are on the
\* allowlist and the amount is a non-negative integer.
Bindable(req) == req.listed /\ req.spelled # "garbage" /\ req.amount >= 0

Allowed(req, expired, seen) == Bindable(req) /\ ~expired /\ Verify(req) /\ ~seen

ParsesUint(req) == req.spelled = "canonical" /\ req.amount \in 0..MaxU64

\* The transfer Pay builds for a demand: always to the client's own merchant
\* unless tampered with, always of its own asset, the price from the demand.
Built(req, tamper) ==
    <<BuildTransferChecked(TokenProgram, Source, Asset,
                           IF tamper THEN Attacker ELSE Merchant,
                           Payer, req.amount)>>

BoundTo(req) ==
    [payTo |-> Merchant, asset |-> Asset, payer |-> Payer,
     present |-> TRUE, amount |-> req.amount]

\* ResourceServer.Settle: the transfers of payment m it accepts, at most one.
Settles(m) ==
    {t \in FindTransfer(m.ixs) : /\ t.destination = Demand[m.server].payTo
                                 /\ t.mint = Demand[m.server].asset
                                 /\ t.amount = Demand[m.server].amount
                                 /\ m.form = "signed"}

-----------------------------------------------------------------------------
(* Pay.                                                                    *)

Return(c, decision, paid, aborted) ==
    /\ pc' = [pc EXCEPT ![c] = "idle"]
    /\ outcome' = [outcome EXCEPT
                     ![c] = [decision |-> decision, paid |-> paid, aborted |-> aborted]]

\* In process a *ResourceServer is passed, whose demand is always listed and
\* canonical, and is asked for it; over HTTP the url may name any endpoint, and
\* a first GET asks for its demand.
Start(c, k) ==
    /\ pc[c] = "idle"
    /\ \A p \in Before[c] : pc[p] \in {"exited", "crashed"}
    /\ Len(receipts[c]) < MaxReceipts
    /\ c \notin HTTPClients => Demand[k.server].listed /\ ParsesUint(Demand[k.server])
    /\ pc' = [pc EXCEPT ![c] = IF c \in HTTPClients THEN "asking" ELSE "required"]
    /\ call' = [call EXCEPT ![c] = k]
    /\ copies' = [copies EXCEPT ![c] = 0]
    /\ UNCHANGED <<verdict, spent, receipts, outcome, wire, replies, settled, file, anchored>>

\* The endpoint answers the first GET with a 402 and its demand.
Required(c) ==
    /\ pc[c] = "asking"
    /\ pc' = [pc EXCEPT ![c] = "required"]
    /\ UNCHANGED <<call, verdict, spent, receipts, outcome, copies, wire, replies, settled, file,
                   anchored>>

\* The first GET fails, or what came back is not a 402 with a demand.
RequireFails(c) ==
    /\ pc[c] = "asking"
    /\ Return(c, "", FALSE, FALSE)
    /\ UNCHANGED <<call, verdict, spent, receipts, copies, wire, replies, settled, file, anchored>>

\* Mutant of Evaluate: the nonce is checked but not spent.
EvaluateUnspent(c) ==
    /\ pc[c] = "required"
    /\ pc' = [pc EXCEPT ![c] = "evaluated"]
    /\ verdict' = [verdict EXCEPT ![c] =
                     IF Allowed(Demand[call[c].server], call[c].expired, call[c].token \in spent[c])
                       THEN "ALLOW" ELSE "DENY_VIOLATION"]
    /\ UNCHANGED <<call, spent, receipts, outcome, copies, wire, replies, settled, file, anchored>>

\* gate.Evaluate: the nonce is spent when, and only when, it allows.
Evaluate(c) ==
    /\ pc[c] = "required"
    /\ pc' = [pc EXCEPT ![c] = "evaluated"]
    /\ IF Allowed(Demand[call[c].server], call[c].expired, call[c].token \in spent[c])
         THEN /\ verdict' = [verdict EXCEPT ![c] = "ALLOW"]
              /\ spent' = [spent EXCEPT ![c] = @ \cup {call[c].token}]
         ELSE /\ verdict' = [verdict EXCEPT ![c] = "DENY_VIOLATION"]
              /\ UNCHANGED spent
    /\ UNCHANGED <<call, receipts, outcome, copies, wire, replies, settled, file, anchored>>

\* Mutant of Entry: the receipt takes the decision of the previous outcome.
EntryOfOutcome(c) ==
    [decision |-> outcome[c].decision, token |-> call[c].token, server |-> call[c].server]

Entry(c) == [decision |-> verdict[c], token |-> call[c].token, server |-> call[c].server]

\* receipts.Append succeeds; an ALLOW goes on if the price parses.
Record(c) ==
    /\ pc[c] = "evaluated"
    /\ receipts' = [receipts EXCEPT ![c] = Append(@, Entry(c))]
    /\ IF verdict[c] = "ALLOW" /\ ParsesUint(Demand[call[c].server])
         THEN pc' = [pc EXCEPT ![c] = "allowed"] /\ UNCHANGED outcome
         ELSE Return(c, "DENY_VIOLATION", FALSE, FALSE)
    /\ UNCHANGED <<call, verdict, spent, copies, wire, replies, settled, file, anchored>>

\* Mutant of RecordFails: evidence is a byproduct, an ALLOW goes on without it.
RecordFailsOpen(c) ==
    /\ pc[c] = "evaluated"
    /\ IF verdict[c] = "ALLOW"
         THEN pc' = [pc EXCEPT ![c] = "allowed"] /\ UNCHANGED outcome
         ELSE Return(c, verdict[c], FALSE, FALSE)
    /\ UNCHANGED <<call, verdict, spent, receipts, copies, wire, replies, settled, file, anchored>>

\* Mutant of RecordFails: the nonce is given back so that the call can be retried.
RecordFailsUnspends(c) ==
    /\ pc[c] = "evaluated"
    /\ Return(c, IF verdict[c] = "ALLOW" THEN "DENY_UNAVAILABLE" ELSE verdict[c], FALSE, FALSE)
    /\ spent' = [spent EXCEPT ![c] = @ \ {call[c].token}]
    /\ UNCHANGED <<call, verdict, receipts, copies, wire, replies, settled, file, anchored>>

\* receipts.Append fails: an ALLOW becomes DENY_UNAVAILABLE, a denial stays.
RecordFails(c) ==
    /\ pc[c] = "evaluated"
    /\ Return(c, IF verdict[c] = "ALLOW" THEN "DENY_UNAVAILABLE" ELSE verdict[c], FALSE, FALSE)
    /\ UNCHANGED <<call, verdict, spent, receipts, copies, wire, replies, settled, file, anchored>>

\* Build the transfer and sign it only if the settlement guard accepts it.
Build(c) ==
    LET req == Demand[call[c].server]
    IN /\ pc[c] = "allowed"
       /\ IF AssertTransactionPays(Built(req, call[c].tamper), BoundTo(req))
            THEN pc' = [pc EXCEPT ![c] = "signed"] /\ UNCHANGED outcome
            ELSE Return(c, "ALLOW", FALSE, TRUE)
       /\ UNCHANGED <<call, verdict, spent, receipts, copies, wire, replies, settled, file, anchored>>

Payment(c, n) ==
    [client |-> c, token |-> call[c].token, server |-> call[c].server,
     entry |-> Len(receipts[c]), copy |-> n,
     ixs |-> Built(Demand[call[c].server], call[c].tamper), form |-> "signed"]

\* What a server releases against payment m: nothing if it does not settle.
Released(m) ==
    {[client |-> m.client, token |-> m.token, server |-> m.server, entry |-> m.entry,
      copy |-> m.copy, transfer |-> t] : t \in Settles(m)}

\* Client.Pay calls server.Settle.
SettleInProcess(c) ==
    /\ c \notin HTTPClients
    /\ pc[c] = "signed"
    /\ settled' = settled \cup Released(Payment(c, 1))
    /\ copies' = [copies EXCEPT ![c] = 1]
    /\ Return(c, "ALLOW", Released(Payment(c, 1)) # {}, FALSE)
    /\ UNCHANGED <<call, verdict, spent, receipts, wire, replies, file, anchored>>

\* A response can be read only on the connection its request came on.
Unanswered(c) == {r \in replies : r.client # c}

\* HTTPClient.Pay puts X-PAYMENT on a second GET.  After the first time this
\* is the transport resending that GET because its connection broke.
Send(c) ==
    /\ c \in HTTPClients
    /\ \/ pc[c] = "signed" /\ copies[c] = 0
       \/ pc[c] = "awaiting" /\ copies[c] < MaxCopies
    /\ pc' = [pc EXCEPT ![c] = "awaiting"]
    /\ copies' = [copies EXCEPT ![c] = @ + 1]
    /\ wire' = wire \cup {Payment(c, copies[c] + 1)}
    /\ replies' = Unanswered(c)
    /\ UNCHANGED <<call, verdict, spent, receipts, outcome, settled, file, anchored>>

\* Mutant of Receive: any response counts as paid.
ReceiveAnyStatus(c, r) ==
    /\ pc[c] = "awaiting"
    /\ r.client = c
    /\ Return(c, "ALLOW", TRUE, FALSE)
    /\ replies' = Unanswered(c)
    /\ UNCHANGED <<call, verdict, spent, receipts, copies, wire, settled, file, anchored>>

\* Mutant of Receive: a payment the server rejects is reported as a denial.
ReceiveAsDenial(c, r) ==
    /\ pc[c] = "awaiting"
    /\ r.client = c
    /\ Return(c, IF r.status = 200 THEN "ALLOW" ELSE "DENY_VIOLATION", r.status = 200, FALSE)
    /\ replies' = Unanswered(c)
    /\ UNCHANGED <<call, verdict, spent, receipts, copies, wire, settled, file, anchored>>

\* The response to the request on the client's current connection.
Receive(c, r) ==
    /\ pc[c] = "awaiting"
    /\ r.client = c
    /\ Return(c, "ALLOW", r.status = 200, FALSE)
    /\ replies' = Unanswered(c)
    /\ UNCHANGED <<call, verdict, spent, receipts, copies, wire, settled, file, anchored>>

\* client.Do returns an error; the request may or may not reach the server.
ConnectionFails(c) ==
    /\ pc[c] = "awaiting"
    /\ Return(c, "", FALSE, FALSE)
    /\ replies' = Unanswered(c)
    /\ UNCHANGED <<call, verdict, spent, receipts, copies, wire, settled, file, anchored>>

-----------------------------------------------------------------------------
(* The server's handler, the network, the end of a process, anchoring.     *)

\* The client still holds the connection this request came on.
Expected(m) ==
    /\ pc[m.client] = "awaiting"
    /\ Len(receipts[m.client]) = m.entry
    /\ copies[m.client] = m.copy

\* NewHTTPHandler's answer to payment m.
Status(m) == IF m.form = "garbled" THEN 400 ELSE IF Released(m) # {} THEN 200 ELSE 402

\* NewHTTPHandler's handler on a GET with X-PAYMENT.
HandlePayment(m) ==
    /\ wire' = wire \ {m}
    /\ settled' = settled \cup Released(m)
    /\ replies' = IF Expected(m)
                    THEN replies \cup {[client |-> m.client, status |-> Status(m)]}
                    ELSE replies
    /\ UNCHANGED <<clientVars, file, anchored>>

\* A request on a broken connection may never arrive.
LoseRequest(m) ==
    /\ ~Expected(m)
    /\ wire' = wire \ {m}
    /\ UNCHANGED <<clientVars, replies, settled, file, anchored>>

\* The program ends: it writes its receipts over receipts.json, or it does
\* not (-receipts "" or a failed write).
Exit(c) ==
    /\ pc[c] = "idle"
    /\ pc' = [pc EXCEPT ![c] = "exited"]
    /\ file' \in {file, receipts[c]}
    /\ UNCHANGED <<call, verdict, spent, receipts, outcome, copies, wire, replies, settled, anchored>>

Crash(c) ==
    /\ pc[c] \in Live
    /\ pc' = [pc EXCEPT ![c] = "crashed"]
    /\ replies' = Unanswered(c)
    /\ UNCHANGED <<call, verdict, spent, receipts, outcome, copies, wire, settled, file, anchored>>

\* cmd/anchordevnet: load the log, refuse an empty one, anchor its root.  A
\* -proof out of range ends it before anything is anchored.
Anchor ==
    /\ file # <<>>
    /\ anchored' = anchored \cup {file}
    /\ UNCHANGED <<clientVars, wire, replies, settled, file>>

Step(c) ==
    \/ Required(c)
    \/ RequireFails(c)
    \/ Evaluate(c)
    \/ Record(c)
    \/ RecordFails(c)
    \/ Build(c)
    \/ SettleInProcess(c)
    \/ Send(c)
    \/ \E r \in replies : Receive(c, r)
    \/ ConnectionFails(c)

Next ==
    \/ \E c \in Clients : \E k \in Calls[c] : Start(c, k)
    \/ \E c \in Clients : Step(c)
    \/ \E m \in wire : HandlePayment(m) \/ LoseRequest(m)
    \/ \E c \in Clients : Exit(c) \/ Crash(c)
    \/ Anchor

\* Pay runs from one GET to the next without waiting for anything, and reads
\* a response that is there, so these steps are fair.  Nobody is obliged to
\* answer: the url names any endpoint, and http.Client{} has no timeout
\* (demo/x402http.go:207).  Nobody is obliged to start a Pay, to end a process
\* or to anchor, and connections need not fail.
Fairness ==
    \A c \in Clients :
        WF_vars(Evaluate(c) \/ Record(c) \/ Build(c) \/ SettleInProcess(c)
                  \/ (pc[c] = "signed" /\ Send(c))
                  \/ \E r \in replies : Receive(c, r))

Spec == Init /\ [][Next]_vars

FairSpec == Spec /\ Fairness

-----------------------------------------------------------------------------
(* Properties.                                                             *)

TypeOK ==
    /\ pc \in [Clients -> Phases]
    /\ call \in [Clients -> Call \cup {NoCall}]
    /\ \A c \in Clients : pc[c] \in Live \ {"idle"} => call[c] \in Call
    /\ verdict \in [Clients -> Classes]
    /\ spent \in [Clients -> SUBSET Tokens]
    /\ receipts \in [Clients -> Seq(Receipt)]
    /\ outcome \in [Clients -> Outcome]
    /\ copies \in [Clients -> 0..MaxCopies]
    /\ wire \subseteq Message
    /\ replies \subseteq Reply
    /\ settled \subseteq Release
    /\ file \in Seq(Receipt)
    /\ anchored \subseteq Seq(Receipt)

\* The log holds an ALLOW for this token.
Evidenced(log, t) == \E i \in DOMAIN log : log[i].decision = "ALLOW" /\ log[i].token = t

\* The log says at entry n that this token was allowed for this endpoint.
Accounts(log, n, t, s) ==
    n \in DOMAIN log /\ log[n] = [decision |-> "ALLOW", token |-> t, server |-> s]

\* Evidence is a precondition, not a byproduct (demo/demo.go:224): content is
\* released only against a payment whose ALLOW, for that token and that
\* endpoint, the paying client had recorded and still has, whatever failed,
\* crashed or was resent in between.
EvidenceBeforeRelease ==
    \A r \in settled : Accounts(receipts[r.client], r.entry, r.token, r.server)

\* Single use (docs/SPEC-X402.md:140) for the life of a client: its log holds
\* at most one ALLOW per token, however its calls succeed or fail.
OneAllowPerToken ==
    \A c \in Clients : \A i, j \in DOMAIN receipts[c] :
        /\ receipts[c][i].decision = "ALLOW"
        /\ receipts[c][j].decision = "ALLOW"
        /\ receipts[c][i].token = receipts[c][j].token
        => i = j

\* One authorization, one Pay: whatever a client is paid content for with one
\* token comes of a single Pay and a single transfer; only the HTTP transport
\* resending that very request (copy) makes the server settle it again, which
\* it does, since it keeps no record of what it settled.
OneReleasePerAuthorization ==
    \A r1, r2 \in settled :
        r1.client = r2.client /\ r1.token = r2.token =>
            r2 = [r1 EXCEPT !.copy = r2.copy]

\* What is released against was within the payer's scope (demo/demo.go:83):
\* the gate checked the demand, the guard checked the transfer against the
\* client's own accounts, and the server checked it against its demand; only
\* the three together bound the transfer itself.  Of a transfer that is signed
\* and sent but that no server accepts it says nothing.
ReleaseWithinScope ==
    \A r \in settled :
        /\ r.transfer.amount <= Ceiling
        /\ r.transfer.mint = Asset
        /\ r.transfer.destination \in Payees
        /\ r.transfer.authority = Payer

\* Pay reports Paid (demo/demo.go:279, demo/x402http.go:300) only if the
\* endpoint it was called with released content for this very Pay, not for an
\* earlier one whose response arrived late.
PaidMeansReleased ==
    \A c \in Clients :
        pc[c] = "idle" /\ outcome[c].paid =>
            \E r \in settled : /\ r.client = c
                              /\ r.token = call[c].token
                              /\ r.server = call[c].server
                              /\ r.entry = Len(receipts[c])

\* What Pay returned is a denial, of the gate or its own, or an abort.
Refused(c) ==
    outcome[c].aborted \/ outcome[c].decision \in {"DENY_VIOLATION", "DENY_UNAVAILABLE"}

\* "A DENY never triggers a payment" (docs/SPEC-X402.md:158): a Pay that is
\* refused, by the gate, for want of evidence, for a price ParseUint does not
\* read (demo/demo.go:251) or by the guard, has submitted nothing.  If the
\* gate had allowed it, nothing was submitted with its token in any other Pay
\* either, and nothing with it is in flight; if not, an earlier Pay may have
\* been paid with that token, as a replay is.
RefusedMeansNothingSent ==
    \A c \in Clients :
        pc[c] = "idle" /\ Refused(c) =>
            /\ copies[c] = 0
            /\ verdict[c] = "ALLOW" =>
                  /\ \A r \in settled : ~(r.client = c /\ r.token = call[c].token)
                  /\ \A m \in wire : ~(m.client = c /\ m.token = call[c].token)

\* A log anchored by cmd/anchordevnet (cmd/anchordevnet/main.go:65) is the
\* whole log of a client whose program ended, and it accounts for every
\* release that client ever obtains, those handled after its exit included.
AnchorAccountsForReleases ==
    \A log \in anchored : \E c \in Clients :
        /\ pc[c] = "exited"
        /\ log = receipts[c]
        /\ \A r \in settled : r.client = c => Accounts(log, r.entry, r.token, r.server)

\* A spent nonce stays spent and a receipt stays where it was appended
\* (demo/demo.go:228, translog is append-only) as long as the client lives.
LogsOnlyGrow ==
    [][\A c \in Clients :
          /\ spent[c] \subseteq spent'[c]
          /\ SubSeq(receipts'[c], 1, Len(receipts[c])) = receipts[c]]_vars

-----------------------------------------------------------------------------
(* Refinement: each client's tokens are authorizations.                    *)

Stage(a) ==
    IF \E r \in settled : r.client = a[1] /\ r.token = a[2] THEN "released"
    ELSE IF Evidenced(receipts[a[1]], a[2]) THEN "evidenced"
    ELSE IF a[2] \in spent[a[1]] THEN "spent" ELSE "fresh"

StageOf == [a \in Clients \X Tokens |-> Stage(a)]

EvidencedPayments ==
    INSTANCE EvidencedPayment WITH Authorizations <- Clients \X Tokens, stage <- StageOf

\* The loop implements the lifecycle of an authorization: nonce, evidence,
\* release, in this order and never back (demo/demo.go:223-279).
ImplementsEvidencedPayment == EvidencedPayments!Spec

=============================================================================
