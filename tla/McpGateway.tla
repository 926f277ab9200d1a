----------------------------- MODULE McpGateway -----------------------------
(***************************************************************************)
(* cmd/mcp-gateway: a JSON-RPC server on stdin and stdout with one tool,   *)
(* authorize_payment.  It reads one line at a time, has the enforcement    *)
(* point decide a tool call, settles an authorized payment on the chain    *)
(* (the devnet build; the default build settles nothing), and answers.     *)
(* The host of the agent writes further lines at any time, a transaction   *)
(* the gateway stopped waiting for may still land, and other programs      *)
(* spend from the same wallet.                                             *)
(*                                                                         *)
(* A request is known by its place in the input.  That number stands for   *)
(* the nonce each tool call draws at random, so no two calls share one and *)
(* the in-memory spend-log, which refuses a repeated nonce, is left out.   *)
(*                                                                         *)
(* External, modelled from their use: mcpgate.Enforcer.Authorize (allows   *)
(* only the approved payment, and only when it recorded the decision), the *)
(* RPC node and the chain.                                                 *)
(***************************************************************************)
EXTENDS SettleGuard

CONSTANTS
    Requests,     \* the lines that occur on stdin
    NoPayment,    \* no payment authorized yet
    Merchant, Attacker, Payer, Asset, TokenProgram, AtaProgram,
    Ata,          \* the associated token account of each wallet
    Resource, Limit,  \* the approved payment, with Merchant and Asset
    Funds,        \* the payer's token balance at the start
    Base, Decimals,   \* of a written amount
    MaxRequests   \* bound on the lines written

INSTANCE MicroUSDC WITH MaxUint <- MaxU64

\* amount holds the written amount, or nothing when the argument is absent.
Call(c) ==
    /\ c.tool \in {"authorize_payment", "other", "malformed"}
    /\ c.to \in {"merchant", "attacker"} \cup Keys
    /\ \A w \in c.amount : w \in Written

ASSUME McpAssumption ==
    /\ {Merchant, Attacker, Payer, Asset, TokenProgram, AtaProgram} \subseteq Keys
    /\ Ata \in [Keys -> Keys]
    /\ TokenProgram \in TokenPrograms /\ AtaProgram \notin TokenPrograms
    /\ Limit \in 0..MaxU64 /\ Funds \in Nat /\ MaxRequests \in Nat
    /\ Scale \in 1..MaxU64
    /\ \A r \in Requests : r.id \in BOOLEAN /\ Call(r.call)

Payment == [n: 1..MaxRequests, to: Keys, amount: 0..MaxU64]

ASSUME NoPaymentAssumption == NoPayment \notin Payment

VARIABLES
    devnet,   \* which build runs, never assigned
    unread,   \* lines written to stdin and not yet read
    read,     \* lines read: the last is the one being handled
    pc,       \* "reading" stdin, a step of settlePayment, or "stopped"
    payment,  \* what the last authorization was for
    log,      \* the enforcement point's receipt log
    replies,  \* lines written to stdout
    mempool,  \* transactions sent and not yet landed
    ledger,   \* transactions landed, ok or failed
    funds     \* the payer's token balance

vars == <<devnet, unread, read, pc, payment, log, replies, mempool, ledger, funds>>

chain == <<mempool, ledger, funds>>

Init ==
    /\ devnet \in BOOLEAN
    /\ unread = <<>> /\ read = <<>>
    /\ pc = "reading"
    /\ payment = NoPayment
    /\ log = <<>> /\ replies = <<>>
    /\ mempool = {} /\ ledger = {}
    /\ funds = Funds

-----------------------------------------------------------------------------
(* The host, and reading a line.                                           *)

Write(r) ==
    /\ pc # "stopped"
    /\ Len(read) + Len(unread) < MaxRequests
    /\ unread' = Append(unread, r)
    /\ UNCHANGED <<devnet, read, pc, payment, log, replies, chain>>

Reading(r) ==
    /\ pc = "reading"
    /\ unread # <<>>
    /\ r = Head(unread)
    /\ unread' = Tail(unread)
    /\ read' = Append(read, r)
    /\ UNCHANGED <<devnet, chain>>

Say(n, text) == replies' = Append(replies, [n |-> n, text |-> text])

\* initialize, ping and the lists: answered whether or not the line has an id.
Answer(r) ==
    /\ Reading(r)
    /\ r.method = "ping"
    /\ Say(Len(read'), "result")
    /\ UNCHANGED <<pc, payment, log>>

Ignore(r) ==
    /\ Reading(r)
    /\ r.method = "notification"
    /\ UNCHANGED <<pc, payment, log, replies>>

RefuseMethod(r) ==
    /\ Reading(r)
    /\ r.method = "unknown"
    /\ \/ r.id /\ Say(Len(read'), "error")
       \/ ~r.id /\ UNCHANGED replies
    /\ UNCHANGED <<pc, payment, log>>

-----------------------------------------------------------------------------
(* A tool call.                                                            *)

Atoms(call) ==
    IF call.tool = "authorize_payment" THEN UNION {Micro(w) : w \in call.amount} ELSE {}

\* Also the answer when no nonce could be drawn.
RefuseArguments(r) ==
    /\ Reading(r)
    /\ r.method = "tools/call"
    /\ Say(Len(read'), "denied")
    /\ UNCHANGED <<pc, payment, log>>

ResolveTo(to) ==
    CASE to = "merchant" -> Merchant
      [] to = "attacker" -> Attacker
      [] OTHER -> to

\* The policy of the enforcement point.
Approves(to, amount, resource) == to = Merchant /\ amount <= Limit /\ resource = Resource

Proposed(r) == {[n |-> Len(read'), to |-> ResolveTo(r.call.to), amount |-> a] : a \in Atoms(r.call)}

Entry(decision, p) == [decision |-> decision, payment |-> p]

\* Refused by the policy, or because the decision could not be recorded.
Refuse(r) ==
    /\ Reading(r)
    /\ r.method = "tools/call"
    /\ \E p \in Proposed(r) : log' \in {log, Append(log, Entry("DENY", p))}
    /\ Say(Len(read'), "refused")
    /\ UNCHANGED <<pc, payment>>

\* Mutant of Authorize: a refusal of the policy is answered and not returned.
AuthorizeFallsThrough(r) ==
    /\ Reading(r)
    /\ r.method = "tools/call"
    /\ \E p \in Proposed(r) :
          /\ payment' = p
          /\ \/ /\ Approves(p.to, p.amount, r.call.resource)
                /\ log' = Append(log, Entry("ALLOW", p))
                /\ UNCHANGED replies
             \/ /\ ~Approves(p.to, p.amount, r.call.resource)
                /\ log' = Append(log, Entry("DENY", p))
                /\ Say(Len(read'), "refused")
    /\ pc' = "authorized"

\* Mutant of Authorize: the settlement is handed what was authorized first.
AuthorizeStale(r) ==
    /\ Reading(r)
    /\ r.method = "tools/call"
    /\ \E p \in Proposed(r) :
          /\ Approves(p.to, p.amount, r.call.resource)
          /\ log' = Append(log, Entry("ALLOW", p))
          /\ payment' = IF payment = NoPayment THEN p ELSE payment
    /\ \/ devnet /\ pc' = "authorized" /\ UNCHANGED replies
       \/ ~devnet /\ Say(Len(read'), "authorized") /\ UNCHANGED pc

Authorize(r) ==
    /\ Reading(r)
    /\ r.method = "tools/call"
    /\ \E p \in Proposed(r) :
          /\ Approves(p.to, p.amount, r.call.resource)
          /\ log' = Append(log, Entry("ALLOW", p))
          /\ payment' = p
    /\ \/ devnet /\ pc' = "authorized" /\ UNCHANGED replies
       \/ ~devnet /\ Say(Len(read'), "authorized") /\ UNCHANGED pc

-----------------------------------------------------------------------------
(* settlePayment of the devnet build.                                      *)

\* The call returns: toolsCall answers and the next line is read.
Return(text) ==
    /\ Say(Len(read), text)
    /\ pc' = "reading"
    /\ UNCHANGED <<devnet, unread, read, payment, log, chain>>

\* Key file, addresses, RPC and websocket, before anything is sent.
SettleFails == pc \in {"authorized", "funded"} /\ Return("unsettled")

CheckBalance ==
    /\ pc = "authorized"
    /\ \/ funds < payment.amount /\ Return("unsettled")
       \/ /\ funds >= payment.amount
          /\ pc' = "funded"
          /\ UNCHANGED <<devnet, unread, read, payment, log, replies, chain>>

CreateAta(wallet) ==
    [program |-> AtaProgram, size |-> 1, tag |-> 1, amount |-> 0,
     accounts |-> <<Payer, Ata[wallet], wallet, Asset, AtaProgram, TokenProgram>>]

Transaction(p) ==
    (IF p.to = Payer THEN <<>> ELSE <<CreateAta(p.to)>>)
    \o <<BuildTransferChecked(TokenProgram, Ata[Payer], Asset, Ata[p.to], Payer, p.amount)>>

Bound(p) ==
    [payTo |-> Ata[p.to], asset |-> Asset, payer |-> Payer, present |-> TRUE, amount |-> p.amount]

Send ==
    /\ pc = "funded"
    /\ AssertTransactionPays(Transaction(payment), Bound(payment))
    /\ \E t \in FindTransfer(Transaction(payment)) :
          mempool' = mempool \cup {[n |-> payment.n, transfer |-> t]}
    /\ pc' = "confirming"
    /\ UNCHANGED <<devnet, unread, read, payment, log, replies, ledger, funds>>

Landed(n) == {l \in ledger : l.n = n}

\* Mutant of Confirm: a transaction that landed and failed counts as settled.
ConfirmAnyResult ==
    /\ pc = "confirming"
    /\ Landed(payment.n) # {}
    /\ Return("settled")

Confirm ==
    /\ pc = "confirming"
    /\ \E l \in Landed(payment.n) :
          \/ l.ok /\ Return("settled")
          \/ ~l.ok /\ Return("unsettled")

\* Mutant of GiveUp: the transaction is built and sent again.
GiveUpAndResend ==
    /\ pc = "confirming"
    /\ pc' = "authorized"
    /\ UNCHANGED <<devnet, unread, read, payment, log, replies, chain>>

\* Mutant of GiveUp: the call returns without an answer.
GiveUpSilently ==
    /\ pc = "confirming"
    /\ pc' = "reading"
    /\ UNCHANGED <<devnet, unread, read, payment, log, replies, chain>>

\* Mutant of GiveUp: there is no timeout.
GiveUpNever == FALSE

\* The wait for the confirmation times out, or its connection breaks.
GiveUp == pc = "confirming" /\ Return("unsettled")

-----------------------------------------------------------------------------
(* The rest of the world.                                                  *)

\* End of input, a line beyond the scanner's buffer, or a kill.
Stop ==
    /\ pc # "stopped"
    /\ pc' = "stopped"
    /\ UNCHANGED <<devnet, unread, read, payment, log, replies, chain>>

Land(tx) ==
    /\ mempool' = mempool \ {tx}
    /\ LET ok == funds >= tx.transfer.amount IN
          /\ ledger' = ledger \cup {[n |-> tx.n, transfer |-> tx.transfer, ok |-> ok]}
          /\ funds' = IF ok /\ tx.transfer.destination # Ata[Payer]
                      THEN funds - tx.transfer.amount ELSE funds
    /\ UNCHANGED <<devnet, unread, read, pc, payment, log, replies>>

Drop(tx) ==
    /\ mempool' = mempool \ {tx}
    /\ UNCHANGED <<devnet, unread, read, pc, payment, log, replies, ledger, funds>>

Gateway ==
    \/ \E r \in Requests :
          \/ Answer(r)
          \/ Ignore(r)
          \/ RefuseMethod(r)
          \/ RefuseArguments(r)
          \/ Refuse(r)
          \/ Authorize(r)
    \/ SettleFails
    \/ CheckBalance
    \/ Send
    \/ Confirm
    \/ GiveUp

\* Another program that holds the payer's key pays somebody; PayDevnet is one.
Spend ==
    /\ funds' \in 0..funds
    /\ UNCHANGED <<devnet, unread, read, pc, payment, log, replies, mempool, ledger>>

OwnNext ==
    \/ Gateway
    \/ \E r \in Requests : Write(r)
    \/ Stop
    \/ \E tx \in mempool : Land(tx) \/ Drop(tx)

Next == OwnNext \/ Spend

Spec == Init /\ [][Next]_vars

-----------------------------------------------------------------------------

TypeOK ==
    /\ unread \in Seq(Requests) /\ read \in Seq(Requests)
    /\ Len(read) + Len(unread) <= MaxRequests
    /\ pc \in {"reading", "authorized", "funded", "confirming", "stopped"}
    /\ payment \in Payment \cup {NoPayment}
    /\ pc \in {"authorized", "funded", "confirming"} => payment.n = Len(read)
    /\ log \in Seq([decision: {"ALLOW", "DENY"}, payment: Payment])
    /\ replies \in Seq([n: 1..MaxRequests,
                        text: {"result", "error", "denied", "refused",
                               "authorized", "settled", "unsettled"}])
    /\ mempool \subseteq [n: 1..MaxRequests, transfer: DecodedTransfer]
    /\ ledger \subseteq [n: 1..MaxRequests, transfer: DecodedTransfer, ok: BOOLEAN]
    /\ funds \in 0..Funds

\* Every transaction the gateway ever sent is explained by one recorded ALLOW
\* (toolsCall, cmd/mcp-gateway/main.go:251-265): it moves the approved asset,
\* in the amount that entry names and the policy admits, from the payer's
\* account to the merchant's; and no ALLOW is behind two transactions, a
\* payment the gateway gave up on and one that lands late included.
EveryPaymentIsItsAllow ==
    /\ \A tx \in mempool : Landed(tx.n) = {}
    /\ \A l, k \in ledger : l.n = k.n => l = k
    /\ \A tx \in mempool \cup ledger :
          \E i \in DOMAIN log :
             /\ log[i].decision = "ALLOW"
             /\ log[i].payment = [n |-> tx.n, to |-> Merchant, amount |-> tx.transfer.amount]
             /\ tx.transfer.amount \in 1..Limit
             /\ tx.transfer = [source |-> Ata[Payer], mint |-> Asset,
                               destination |-> Ata[Merchant], authority |-> Payer,
                               amount |-> tx.transfer.amount]

\* The answer that names a transaction (cmd/mcp-gateway/main.go:270) is given
\* only for a payment that is on the chain and did not fail there.
SettledMeansPaid ==
    \A i \in DOMAIN replies :
        replies[i].text = "settled" => \E l \in Landed(replies[i].n) : l.ok

\* A call answered with a refusal, or by the build that settles nothing, has
\* no transaction, whatever lands afterwards.
RefusedMovesNothing ==
    \A i \in DOMAIN replies : \A tx \in mempool \cup ledger :
        tx.n = replies[i].n => replies[i].text \in {"settled", "unsettled"}

\* Answers come in the order of the requests, one to a request, and a request
\* with an id is answered before the next line is read (main's loop,
\* cmd/mcp-gateway/main.go:132), however its settlement went.
AnswersFollowRequests ==
    /\ \A i, j \in DOMAIN replies : i < j => replies[i].n < replies[j].n
    /\ \A n \in DOMAIN read :
          /\ n < Len(read) \/ pc = "reading"
          /\ read[n].id /\ read[n].method # "notification"
          => \E i \in DOMAIN replies : replies[i].n = n

\* Every tool call written to a gateway that is not stopped is answered, also
\* when its transaction never lands and behind calls like that.
CallsAreAnswered ==
    \A n \in 1..MaxRequests :
        /\ n \in DOMAIN (read \o unread)
        /\ (read \o unread)[n].method = "tools/call"
        ~> pc = "stopped" \/ \E i \in DOMAIN replies : replies[i].n = n

=============================================================================
