# A verification of spt-txn-x402-solana

TLA+ modules, TLC configurations and TLAPS proofs for the Go repository in `src/`: an x402 payment
path on Solana in which a gate decides a payment before anything is signed, a guard checks the
transaction that is about to be signed, evidence of every decision is kept, and an on-chain escrow
releases funds only on an issuer's attestation.

`PROJECT.json` lists the components, the runs, which source lines each definition models (`map`),
the hazards, the findings, the theorems, and for every property a mutant: an operator that changes
one definition the way a plausible bug would and makes TLC find the property violated. Mutants stand
in the modules right before the operator they change, under the comment `Mutant of ...`.

## 1. The system

### Components

| Component | State | Operations | What makes it correct | Status |
|---|---|---|---|---|
| Settlement guard, `settle/` | none; a loop over the instructions of one transaction | `FindTransfer`, `AssertMatches`, `AssertTransactionPays`, `BuildTransferCheckedInstruction` | what it accepts has one `TransferChecked`, the bound payment (of other instructions it says nothing, section 7); it refuses nothing a builder makes | modelled |
| Payer loop, `demo/`, `cmd/x402demo`, `cmd/demo` | per client: spend-log, receipt log (both in memory); per server: what it wants; on disk: `receipts.json` | `Client.Pay`, `HTTPClient.Pay`, `ResourceServer.Require/Settle`, the HTTP handler, `SaveReceipts` | nonce spent, then evidence, then release; one ALLOW per token and client, and what is released for it is one transfer, once per resend; a refusal sends nothing; `Paid` is true only if paid; over HTTP, Pay returns only if it is answered (section 7) | modelled |
| Anchoring, `cmd/anchordevnet` | none | load `receipts.json`, anchor its root | an anchored log accounts for every release of the client that wrote it | partly |
| Escrow driver, `cmd/escrowdevnet` | the ticket file, key files; on chain: config with its issuer allowlist, escrows and vaults | modes `setup`, `deposit`, `deny-*`, `release`, `refund`, `all`; key generation | a denial never releases; a run that ends well did what its mode says; no escrow becomes unreachable; funds come out | modelled |
| Escrow encodings, `escrow/` | none | `FromGate`, attestation and freshness, Ed25519 instruction, base58 keys, binding, instruction data | what is encoded is what is read back; the freshness test is exact; only an escrow that can pay its recipient is opened | partly |
| Program-derived addresses, `escrow/pda.go` | none; a loop over bumps | `FindProgramAddress`, `IsOnCurve` | the highest bump that is off the curve; the curve test is exact | partly |
| MCP gateway, `cmd/mcp-gateway` | receipt log, spend-log (in memory); on chain: the payer's balance and transactions | `handle`, `toolsCall`, `microUSDC`, `settlePayment` | one ALLOW behind each transaction; answers agree with the chain, in order, one each; amounts read exactly | modelled |
| One payment, `cmd/paydevnet` | none; the gateway's wallet | one transfer behind the guard, with and without `-tamper` | it sends its order or nothing, and says "settled" only of what landed | modelled |
| Key files, `cmd/issuerkey`, `-gen-issuer`, `-gen-admin` | one file per key | generate, load as issuer, load as admin | nobody loads half a key; a written key is kept; both sides get one identity | modelled |
| Scripts, `cmd/mcp-demo`, `cmd/gateway` | none | fixed inputs for the gateway and for the external gate | | not modelled |
| External: `gate`, `translog`, `mcpgate` (another Go module), the on-chain program (another repository), Solana, net/http | spend-log, receipt log, chain | used through the calls above | assumed, section 3 | external |

### How they interact

A client asks a server for its demand (a 402), calls the gate, appends the decision to its receipt
log, builds the transfer, has the guard check it, and submits it with a second request. In process
the submission is a call; over HTTP it is a GET whose connection may break and which the transport
may then resend. A program writes its receipt log to a file when it ends, and the anchoring command
is another process that reads the file. The escrow driver is run by an operator, one mode at a time;
runs communicate through the chain and the ticket file only, and a transaction sent by a run that
gave up may land during a later one. The MCP gateway serves one line after the other while the
agent's host writes more lines, the chain goes on by itself, and `paydevnet` may pay from the same
wallet meanwhile. The key tools and the driver share key files and nothing that guards them.

### What is hard

 - *A step of several fails.* Between the spent nonce and the release lie the receipt, the price,
   the guard and the submission. Which steps were done when Pay returned with a refusal?
 - *Something arrives late.* A request handled after its client gave up, paid again or exited; a
   response to an earlier request; a transaction that lands after its sender stopped waiting.
 - *Something is sent again*, by the HTTP transport or by an agent that repeats a call.
 - *Two writers, one file.* The last program to end owns `receipts.json`; two generators of a key
   that both saw no file.
 - *A run dies between two steps*: between adding and removing a throwaway issuer, between a
   confirmed deposit and the ticket that names it, between truncating a file and writing it.
 - *A stale read*: config read at `finalized`, what was sent at `confirmed`; a balance read
   before earlier transactions, or another program's, landed.
 - *Limits of numbers*: an amount read twice in two ways, the overflow test of a decimal amount, an
   age that wraps, leading zeros of a key, the square root modulo the field prime, a loop that
   counts a byte down through zero.

## 2. The modules

| Module | Models | Extends or instantiates |
|---|---|---|
| `SettleGuard` | decoder, comparison and builder of `settle/`, as operators | |
| `SettleScan` | `FindTransfer` as its loop, an instruction a step; what the guard accepts, of any transaction | `SettleGuard` |
| `PayerLoop` | both clients' Pay, servers, HTTP handler, network, receipt file, anchoring | `SettleGuard`, instance of `EvidencedPayment` |
| `EvidencedPayment` | abstract: an authorization goes fresh, spent, evidenced, released | |
| `EscrowDevnet` | runs of the driver, the program, the chain | instance of `ReleaseOnProof` |
| `ReleaseOnProof` | abstract: an escrow is opened once and paid once, to the recipient on an outstanding proof or back | |
| `KeyFiles` | generators and readers of one key file | |
| `Numeral` | positional notation: the value of digits, powers | |
| `MicroUSDC` | `microUSDC`, as operators | `Numeral` |
| `McpGateway` | the JSON-RPC loop, the tool call, its settlement, the chain | `SettleGuard`, instance of `MicroUSDC` |
| `PayDevnet` | runs of `cmd/paydevnet` next to the gateway, one balance | `McpGateway` |
| `ProgramAddress` | `IsOnCurve` as operators, `FindProgramAddress` as its loop | |
| `EscrowLink` | `FromGate`, with the token account derived a bump a step | `ProgramAddress` |
| `Attestation` | the attestation, its freshness test, the Ed25519 instruction | |
| `Base58` | `DecodePubkey`, as operators | `Numeral` |
| `TypedText` | a text typed a character at a time, read as an amount and as a key | `MicroUSDC`, `Base58` |
| `MC...` | instances for TLC; `MCEncodings` composes `SettleScan` (through `MCSettleScan`), `EscrowLink`, `Attestation` and `TypedText`, which share nothing, so that each runs on its own | their modules |
| `...Proofs` | theorems | their modules, `ArithmeticFacts` |
| `ArithmeticFacts` | lemmas about integers: induction, products, quotients, remainders | TLAPS |

**SettleGuard, SettleScan.** An instruction is a record of what the decoder looks at: program, data
length, tag byte, amount, account keys. `FindTransfer` in `SettleGuard` says what the Go function
returns; `SettleScan` computes it with the Go function's variables (`found`, `count`) and early
return, and the two are shown to agree. Everything else uses the operator. `MCSettleScan` adds, as
an external definition, the token program's plain `Transfer`, which the guard does not look at.

**PayerLoop.** A client value lives as long as its process, so "the program run again" is another
member of `Clients`, and `Before` names the processes that have ended when its process starts. The
phases of Pay are `asking` (the first GET is out; HTTP only), `required` (the demand is known),
`evaluated`, `allowed` (recorded, price parsed), `signed` (guard passed), `awaiting` (the second GET
is out). One action per step of the code that another process or a failure can get between:
`Start`, `Required` or `RequireFails`, `Evaluate`, `Record` or `RecordFails`, `Build`,
`SettleInProcess` or `Send`, then `Receive` or `ConnectionFails`. `Demand` says what each
endpoint asks for, including how its amount is spelled, because `big.Int` and `ParseUint` read it
in turn: a negative number, a plus sign, a number beyond 64 bits and garbage take different
branches. `HandlePayment` is the handler's answer to a request with `X-PAYMENT`: 400 if the header
does not decode, 402 if the payment is unsigned or does not settle, 200 if it does. The clients of
the repository send only headers that decode, with `signed` set, so the runs reach 200 and 402. The
answer to a request without `X-PAYMENT`, which changes nothing, is `Required`. `client`, `token`,
`entry` and `copy` of a message are history the wire does not carry; properties use them, actions
of the server do not decide on them. `Expected` and `copies` stand for the connection a response
needs. Clients share `receipts.json` and nothing else.

**EscrowDevnet.** `Plan` gives each mode its list of operations, `todo` what is left of it, and each
operation goes `ready`, `built`, `waiting`, `confirmed`; `End` is every `log.Fatalf` and the normal
end. `orphans` are the transactions of ended runs. `Interrupt` is a kill, an RPC failure or the end
of the 90 second poll, at any step; killed inside `saveTicket`, it leaves a ticket that does not
parse. `SaveTicket` is deposit's last step, part of `Follow`. Time counts in units of the token age. The program's checks are external definitions
(`Errors`, `Apply`), written from the error codes and orders the driver relies on, for instance that
the allowlist is checked before the pin, since `deny-issuer` expects 6102. `Proven` maps the state
to `ReleaseOnProof`: the escrows for which a transaction in flight carries a valid attestation.

**KeyFiles.** A generator looks for the file, generates, opens (which truncates) and writes; each is
a step, and it may fail or be killed between any two. A key is known by the run that made it, its
text by its length, so that a shorter text over a longer one leaves a tail, which the reader refuses.

**McpGateway, PayDevnet.** `Reading` takes a line, and the actions that begin with it are the cases
of `handle` and `toolsCall`. `Authorize` leads, in the devnet build, through `authorized` (balance
check), `funded` (transaction built and guarded) and `confirming`; each error path of
`settlePayment` answers "unsettled" and leaves the authorization in the log. The number of a line
stands for the nonce its call draws. `PayDevnet` adds runs of the other program that pays from
`~/.config/solana/id.json`: its transactions and the gateway's draw on one balance.

**EscrowLink, ProgramAddress, Attestation, Base58, MicroUSDC, TypedText.** Algorithms over numbers,
parameterised by field prime, bumps, widths, ages, radices and places. Each is compared with an
independent definition: the curve equation, the highest candidate off the curve, integer
differences, what the runtime verified, the encoder, the rational number written. Bytes of an
Ed25519 instruction are known by where they are (`Slice`), since the hazard is a header that points
the runtime and the parser to different places. `TypedText` has no counterpart in the code: its
steps enumerate the inputs of the two readers. What a reader's loop accumulates is the recursive
function in `Numeral`'s `ValueOf`, not the `RECURSIVE` operator it could be, so that it can be
proved about.

## 3. What is assumed of code outside the repository

 - `gate.Evaluate` spends the nonce exactly when it allows; it allows only what it can bind, what
   has not expired, what the policy verifies and what is not spent. `translog.Append` appends or
   fails. `mcpgate.Enforcer.Authorize` allows only the approved payment and only when it recorded
   the decision.
 - net/http: a connection may break at any point of an exchange; a GET on a broken connection may
   be resent; a response is read only on the connection of its request; a request may be lost only
   if its connection broke.
 - The escrow program behaves as `Errors` and `Apply` say; an open escrow may be released at any
   age until it is refunded; anyone may refund one that expired.
 - Solana: what was sent lands once, late, or never; the finalized commitment lags the confirmed.
   The runtime verifies the signatures an Ed25519 instruction's header names.
 - The escrow is pinned to the issuer file's key (the default of `-issuer-pub`), and the
   `-proof` index of the anchoring command is in range.
 - The field of the curve (`CurveAssumption`): its size is 5 modulo 8, every element but zero has
   power one to the size less one (Fermat's theorem, which holds because it is a prime), 121666 is
   not zero in it, and `SqrtMinusOne` is a square root of minus one. These are properties of the
   constants of `escrow/pda.go:116-134`; TLC evaluates them for the field of 13.
 - Files: opening for writing truncates; a write of a few hundred bytes is not seen in part by
   another process, though the writer may be killed before it.

## 4. The runs

| Run | Instance | States | Shows |
|---|---|---|---|
| `payer` | an HTTP client, 2 tokens, 8 endpoints, 2 receipts, 2 copies; after it ended, an in-process run that pays the shop | 1,103,548 | order, uniqueness and scope of nonce, evidence, release and report; anchored logs account for releases; the refinement of `EvidencedPayment` |
| `escrow_runs` | modes all, release, refund, interrupted anywhere, 2 deposits, 1 throwaway key, 2 instants, ages 0 | 664,834 | denials release nothing, done means done, the ticket names an escrow; the refinement of `ReleaseOnProof` |
| `escrow_tracked` | all 8 modes, uninterrupted, 2 deposits, 2 throwaway keys, 3 instants, ages 1 | 180,218 | open escrows stay within the ticket's reach and are paid out |
| `encodings` | transactions of up to 3 instructions of 12 shapes; field of 13 elements and 3 bumps; 4-bit times; headers of up to 6 bytes; texts of up to 4 symbols before and 3 after the dot | 343,842 | the scan agrees with its definition, the guard accepts exactly what has the bound transfer and no other `TransferChecked`, and everything a builder makes; each encoding is exact over all of its inputs |
| `mcp` | sequences of 2 of 13 lines, both builds, a balance for one payment, one run of `paydevnet` out of 5 | 247,712 | answers, receipts and payments agree; every call is answered |
| `keys` | 3 generators, 2 lengths, both roles, a file or none at the start | 15,536 | loaded keys are whole; a key is one and stays unless two generators met |

Six runs end in a counterexample, each against a sentence of the repository (section 7).

*Why the bounds are enough.*

 - Three instructions admit none, one and several transfers with a malformed or foreign one before,
   between and after them.
 - Two receipts let a token be tried twice and two tokens be interleaved; two copies let a resend
   overtake its original. The eight endpoints are one that is paid, one that is paid to another
   account than it demands and refuses, and six that the gate or the price parser refuses, for a
   reason each. The second client starts when the first has exited or was killed: it overwrites the
   first one's file while that one's requests are still being handled. Clients of one time share
   nothing but that file, which each writes in one step at its end.
 - Interrupted escrow runs: with two deposits an orphaned `init_escrow` and an orphaned release of
   the first escrow land during a run on the second; ages of 0 make one tick of the clock enough to
   pass both the attestation's and the escrow's age. Uninterrupted ones: two deposits are what
   overwriting a ticket needs, and a clock of two passes both ages in different steps.
 - Two lines, a balance for one payment and a run of the other program let a transaction that was
   given up, or somebody else's, land between the balance check and the landing of the next one,
   which then fails.
 - 13 is 5 modulo 8, as 2^255 - 19 is, so both candidate roots occur, and 13 to 15 are the encodings
   beyond the field. Every time of 4 bits includes the pairs whose difference wraps. Headers of up to
   6 bytes around a message of 2 have each field in front of, across and behind the end.
   In base 3 with 2 places and 5 bits every branch of the amount parser, the overflow test included,
   is reached on both sides of its boundary; texts of up to 4 symbols in radix 3 hold keys of 2 bytes
   in radix 4 with any number of leading zeros, and texts too long or too large for one.
 - Three generators on one path let one overwrite, one overtake and one refuse.

No cfg uses symmetry: the keys play distinct roles. `CHECK_DEADLOCK FALSE` is said in every cfg,
because programs end and bounds are reached; each cfg says which.

## 5. Fairness

 - `PayerLoop!FairSpec`: Pay's own steps, and reading a response that is there, are weakly fair per
   client. Nobody must answer: the endpoint is any URL, and `http.Client{}` has no timeout
   (`demo/x402http.go:207`). Nor need connections fail, programs end, or anyone start a Pay. Used by
   `payer_waits` only, whose counterexample is an endpoint that never answers.
 - `EscrowDevnet!FairSpec`: the run in progress is weakly fair, what is waited for lands, time
   passes, and, strongly fair because other modes are run in between, the operator asks for a
   refund again and again. Used with uninterrupted runs only: with interruptions nothing obliges
   the funds to come out, which is why the program lets anyone refund.
 - `PayDevnet!FairWalletSpec`: the gateway is weakly fair; giving up is one of its steps, as the
   confirmation wait has a timeout. Neither the chain nor the other program is assumed to do
   anything.

## 6. What is proved

All theorems hold for every value of the constants that satisfies the modules' named assumptions,
so for any number of clients, tokens, endpoints, deposits, keys, lines and runs, and for the real
widths. In each module one inductive invariant carries the theorems, proved with one step per
action.

`SettleScanProofs`. `LoopInv` says that `found` and `count` describe the transfers among the
instructions before `next`, and that all of those decode; with it the three outcomes of the final
switch are the three cases of the definition: `ScanTypeCorrect`, `ScanFindsTheTransferAlways`. What
acceptance means for a transaction of any length: `AcceptedMovesTheBound` (one transfer, to the
bound account, of the bound mint and amount), and its converse `BuiltTransferPays`. From these two
`AcceptedTransferIsTheBoundAlways`, and `BuiltTransferIsAcceptedAlways`.

`PayerLoopProofs`. `EvidenceBeforeRelease` is not inductive: a release comes of a message sent
earlier by a client that may have exited since. `EvidenceInv` adds that a client past `allowed` has
the ALLOW for its call as its last receipt, that every message on the wire has one where its
`entry` says, that an ALLOW's token is spent (so a second is impossible), and that the file and
every anchored log are some exited client's log. The delicate step is `Record`, where logs grow and
everything recorded before must be shown to stay in place. On top of it:

 - `VettedInv`: every message carries the one transaction that its endpoint's demand determines.
   The gate's policy fixes payee, asset and ceiling, `ParseUint` the amount, and the guard the
   recipient, whatever was tampered with. Hence `ReleaseWithinScopeAlways` and, two releases of one
   ALLOW having the same entry, endpoint and transfer, `OneReleasePerAuthorizationAlways`.
 - `AnswersInv`: a 200 that reaches a client was sent for its present Pay, and a refusal after the
   gate's ALLOW leaves nothing with that token on the wire or settled. Until its submission a Pay
   has submitted nothing, and a refusal is returned before it (`Returns`). Hence
   `PaidMeansReleasedAlways` and `RefusedMeansNothingSentAlways`.
 - The refinement `LoopImplementsEvidencedPayment`: every step moves one authorization to its next
   stage or none (`OnlyMoves`).

`EscrowDevnetProofs`. `IInv` describes what is in flight: every transaction is one the driver builds
for its kind (`Honest`: only a real release could release), deposits have their escrows to
themselves (`Fresh`), a run's transaction is that of its operation (`InStep`). Every step touches
neither escrows nor flight, lets one transaction take its effect or lapse, assembles one, or
refunds (`StepSorts`). Hence `DriverTypeCorrect`, `TicketsNameEscrows`, `DenialsNeverRelease` and
the refinement `DriverImplementsReleaseOnProof`. Two more invariants follow the runs:

 - `DInv`: what is left of a mode is a script (`InTurn`, `Last`), so the operation in turn tells
   which ones are done; what those achieved lasts (`Lasts`): the issuer is never removed, a closed
   escrow never reopens, and no late `add_issuer` names the throwaway key of the present run
   (`RogueIsNew`). Hence `DoneRunsDidIt`, with late transactions of any number of earlier runs.
 - `OInv`: without interruption nothing outlives its run and the transaction that opened an escrow
   is followed by its ticket. Hence `OpenEscrowsAreTracked`.

`McpGatewayProofs`. `Inv` says that the line being handled has no transaction before `Send`, that
what is being settled is what the log allows, that replies belong to lines read, and that a
transaction is in one place. Hence `GatewayTypeCorrect`, `PaymentsAreAllowed`, `SettledIsPaid`,
`RefusedIsUnpaid` and `AnswersInOrder`. `WalletImplementsGateway` carries them over to the gateway
next to `paydevnet`, whose payments are a balance that changes by itself; `RunInv` gives
`RunsPayTheirOrderAlways`.

`KeyFilesProofs`. `KeyInv`: the file's text begins with at most one key, of a run that wrote it;
unless two runs met, at most one is under way, it found no file, and the file is as it left it.
Hence `KeyTypeCorrect`, `OneIdentityAlways`, `KeptUnlessMetAlways`.

`ArithmeticFacts`. The induction theorems of the library take an operator as a parameter, which the
provers cannot instantiate. Here induction comes from the well-foundedness of the order of the
natural numbers, a fact about one set: a nonempty set of numbers has a least element
(`LeastNumber`), so a set that contains 0 and with every number the next contains them all
(`SetInduction`), so a function given by its first value and its steps exists
(`IntegerRecursion`). A recursive function of the modules then satisfies its equations, and the
sets to which `SetInduction` is applied collect the numbers for which a fact holds. The rest is
what the other proofs need of products, quotients and remainders, nonlinear facts in small steps.

`EncodingsProofs`.

 - Amounts. `CombineIsExact`: the test with a quotient refuses exactly the sums that would not fit.
   `ParsesExactlyAlways`, for every base, scale and width, and texts of any length: the digits
   before the dot, scaled, and those after it, padded to the scale, are together the number written,
   because the value of a concatenation is the value of its first part shifted by the length of the
   second (`ValueOfConcat`); and a common factor can be dropped (`CommonFactor`).
 - Keys. The digits of a number are its quotients modulo the radix, and the zeros it begins with
   are the quotients that vanish (`DigitsOfValue`, `ValueOfDigits`), in which terms `ByteLength` and
   `Leading` are known (`ByteLengthFits`, `LeadingOfDigits`). Hence `DecodesExactlyAlways`. It would
   be empty of texts if some key had none: `EveryKeyHasAText` constructs one, and it decodes.
 - Attestations. `FreshnessIsExactAlways`: for every width, age and skew, and every issue time,
   although the difference wraps (the case split is on which way it wraps).
   `ParserReadsWhatWasVerifiedAlways`: for every header.

`ProgramAddressProofs`.

 - The search. Every bump above the current one was on the curve; hence `SearchTypeCorrect` and
   `FindsTheHighestOffCurveAlways`, whatever the curve test is.
 - The curve test, `IsOnCurveIsExact`: from Fermat's theorem every element but zero has a
   reciprocal, so products vanish only with a factor, so one has two square roots; for a square,
   its power to (P + 3)/8 squares to the square or its opposite, and the second candidate corrects
   the sign (`HasRootIsExact`). Where the denominator of the equation vanishes neither side has
   a point, since its numerator is then not zero (`XSquaredIsExact`, `DIsNotMinusOne`). Hence
   `CurveTestIsExactAlways`.
 - `FromGate`, `FromGateIsExactAlways`: `OutcomeInv` relates the outcome so far to the demand's
   errors and the search's result, and the search theorem says which address that result is.

*Only model-checked.* Liveness (`HeldIsPaidOut`, `CallsAreAnswered`):
fairness and ENABLED are out of the prover's reach. Every other property of the passing runs is
stated by one of the theorems.

## 7. Where the code and its documents differ

| Run | Property | What happens |
|---|---|---|
| `restart` | `TokenReleasesOnce` | the spend-log is in memory, so the program run again pays with the same token; the specification wants it written durably before ALLOW |
| `payer_waits` | `PayReturns` | an endpoint that does not answer keeps `HTTPClient.Pay` waiting, at either GET: no timeout, and so no DENY for one |
| `guard_exact` | `SignedMovesExactlyTheBound` | the guard passes over what is no `TransferChecked`, so a plain `Transfer` of the payer's funds beside the bound one is accepted; the documents say "no more, no less". The builders here add no such instruction |
| `escrow_allowlist` | `AllowlistIsRestored` | an error during `deny-unpinned` leaves the throwaway issuer on the allowlist |
| `escrow_setup` | `SetupIsRepeatable` | a second `setup` soon after the first reads a finalized state that lags and dies on a repeated step |
| `keys_race` | `RefusesToOverwrite` | two generators that both saw no file: the second replaces the key the first has written and announced |

Further observations, no property of their own:

 - A guard abort is reported with the gate's class, ALLOW, in `Outcome.Decision`; only `Aborted`
   tells it from a payment.
 - The transfer and the bound payment take their recipient from the client's configuration and not
   from the demand, so with two payees in scope a transfer is signed that the server then refuses.
 - The server keeps no record of what it settled: a request the transport resends is settled again.
 - The driver killed between a confirmed deposit and its ticket leaves an escrow no file names, and a
   second deposit overwrites the ticket of one still open; both are left to the refund by anyone.
 - The MCP gateway answers, and pays for, a line without an id whose method it knows, although without
   an id JSON-RPC makes it a notification; an unknown method without an id is ignored.
 - `DecodePubkey` accepts texts that stand for fewer than 32 bytes and pads them on the left.
 - The freshness test would wrap only within two minutes of the ends of int64.
 - A run killed inside `saveTicket` leaves no ticket, not even the previous one; the escrow is then
   left to the refund by anyone.
 - A generator killed between opening and writing leaves an empty key file, which every loader and
   every later generator refuses until it is deleted.
 - `paydevnet` run again after a timeout pays again if the first transaction still lands: nothing
   remembers what was sent.

## 8. Not modelled

 - `cmd/mcp-demo` and `cmd/gateway`: fixed scripts of inputs, the first one input sequence of the
   gateway's model, the second for the external gate; they keep no state.
 - `gate`, `translog`, `mcpgate` and the escrow program: their source is not in the repository.
   They appear as external definitions, from how the code here uses them.
 - The byte layouts of `escrow/binding.go` and `escrow/anchor.go`, and the seeds of the derived
   addresses: constant concatenations without a case distinction, hashed. SHA-256, Ed25519 and the
   Merkle tree are primitives of libraries.
 - Of `cmd/anchordevnet`, the Merkle root, the printed inclusion proofs and the memo transaction:
   what matters to the rest of the system is which log is anchored.
 - Log and CLI output, tool descriptions, the documents, assets and build files.

The components' statuses in `PROJECT.json` follow this list. What could be added is limited by it:
the remaining lines of the repository are output, constants and external calls.
