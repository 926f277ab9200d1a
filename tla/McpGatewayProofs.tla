-------------------------- MODULE McpGatewayProofs --------------------------
(***************************************************************************)
(* The gateway, for every input, policy and balance, and whatever other    *)
(* programs do with the wallet; and the same next to runs of paydevnet.    *)
(***************************************************************************)
EXTENDS PayDevnet, TLAPS

\* What appending does.
LEMMA Appending ==
    ASSUME NEW S, NEW s \in Seq(S), NEW e \in S
    PROVE  /\ Append(s, e) \in Seq(S)
           /\ Len(s) \in Nat /\ DOMAIN s = 1..Len(s)
           /\ DOMAIN Append(s, e) = 1..(Len(s) + 1)
           /\ Append(s, e)[Len(s) + 1] = e
           /\ \A i \in DOMAIN s : i \in DOMAIN Append(s, e) /\ Append(s, e)[i] = s[i]
OBVIOUS

-----------------------------------------------------------------------------
(* Amounts and transactions.                                               *)

\* What microUSDC returns is positive and fits the width.
LEMMA MicroBounds ==
    ASSUME NEW w, NEW a \in Micro(w)
    PROVE  a \in 1..MaxU64
<1>1. MaxU64 \in Nat /\ Scale \in Nat
  BY McpAssumption, GuardAssumption
<1>2. PICK n \in 0..MaxU64, f \in 0..MaxU64 : a \in Combine(n, f)
  BY DEF Micro, ParseUint
<1>3. a \in {Wrapped(n * Scale + f)} \ {0}
  BY <1>2 DEF Combine
<1>4. n * Scale + f \in Nat
  BY <1>1
<1>5. Wrapped(n * Scale + f) \in 0..MaxU64
  BY <1>1, <1>4 DEF Wrapped
<1>. QED
  BY <1>1, <1>3, <1>5

\* The transfer to a wallet that the gateway and paydevnet build.
BoundTransfer(to, amount) ==
    [source |-> Ata[Payer], mint |-> Asset, destination |-> Ata[to], authority |-> Payer,
     amount |-> amount]

\* The only transfer in what settlePayment builds is the one it built.
LEMMA BuiltTransfer ==
    ASSUME NEW ixs, NEW wallet, NEW dest, NEW amount,
           ixs = (IF wallet = Payer THEN <<>> ELSE <<CreateAta(wallet)>>)
                 \o <<BuildTransferChecked(TokenProgram, Ata[Payer], Asset, dest, Payer, amount)>>,
           NEW t \in FindTransfer(ixs)
    PROVE  t = [source |-> Ata[Payer], mint |-> Asset, destination |-> dest,
                authority |-> Payer, amount |-> amount]
<1>. DEFINE built == BuildTransferChecked(TokenProgram, Ata[Payer], Asset, dest, Payer, amount)
<1>1. PICK j \in DOMAIN ixs : IsTransferChecked(ixs[j]) /\ t = Decoded(ixs[j])
  BY DEF FindTransfer, Transfers
<1>2. ixs[j] \in {CreateAta(wallet), built}
  <2>1. CASE wallet = Payer
    BY <2>1, <1>1
  <2>2. CASE wallet # Payer
    BY <2>2, <1>1
  <2>. QED
    BY <2>1, <2>2
<1>3. ~IsTransferChecked(CreateAta(wallet))
  BY McpAssumption DEF IsTransferChecked, CreateAta
<1>4. t = Decoded(built)
  BY <1>1, <1>2, <1>3
<1>. QED
  BY <1>4 DEF Decoded, BuildTransferChecked

-----------------------------------------------------------------------------
(* The inductive invariant.                                                *)

Settling == {"authorized", "funded", "confirming"}

\* Every transaction belongs to a line that was read, and the line being
\* handled has none before Send.
SentBefore ==
    \A tx \in mempool \cup ledger :
        /\ tx.n \in 1..Len(read)
        /\ pc \in {"authorized", "funded"} => tx.n # Len(read)

OnePlace == \A tx, ty \in mempool : tx.n = ty.n => tx = ty

\* Between the authorization and the sending, payment is what the log allows.
Pending ==
    /\ pc \in Settling => payment \in Payment
    /\ pc \in {"authorized", "funded"} =>
          /\ payment.to = Merchant /\ payment.amount \in 1..Limit
          /\ \E i \in DOMAIN log : log[i] = Entry("ALLOW", payment)

RepliesBefore ==
    \A i \in DOMAIN replies :
        /\ replies[i].n \in 1..Len(read)
        /\ pc \in Settling => replies[i].n # Len(read)

History ==
    /\ EveryPaymentIsItsAllow
    /\ SettledMeansPaid
    /\ RefusedMovesNothing
    /\ AnswersFollowRequests

Inv == TypeOK /\ SentBefore /\ OnePlace /\ Pending /\ RepliesBefore /\ History

\* The gateway starts with empty logs and nothing sent.
LEMMA InvInit == Init => Inv
BY McpAssumption
   DEF Init, Inv, TypeOK, SentBefore, OnePlace, Pending, Settling, RepliesBefore, History,
       EveryPaymentIsItsAllow, SettledMeansPaid, RefusedMovesNothing, AnswersFollowRequests

-----------------------------------------------------------------------------
(* A line is read.                                                         *)

LogEntry == [decision: {"ALLOW", "DENY"}, payment: Payment]

Reply ==
    [n: 1..MaxRequests,
     text: {"result", "error", "denied", "refused", "authorized", "settled", "unsettled"}]

\* What the six ways of handling a line have in common.
Advance(r) ==
    /\ Reading(r)
    /\ \/ /\ pc' = "reading"
          /\ \/ ~r.id \/ r.method = "notification"
             \/ replies' # replies
       \/ /\ pc' = "authorized"
          /\ replies' = replies
          /\ payment' \in Payment
          /\ payment'.n = Len(read')
          /\ payment'.to = Merchant /\ payment'.amount \in 1..Limit
          /\ log' = Append(log, Entry("ALLOW", payment'))
    /\ \/ replies' = replies
       \/ \E text \in {"result", "error", "denied", "refused", "authorized"} :
             Say(Len(read'), text)
    /\ log' = log \/ \E e \in LogEntry : log' = Append(log, e)
    /\ payment' \in Payment \cup {NoPayment}

\* The payment a line asks for is well formed.
LEMMA ProposedPayment ==
    ASSUME TypeOK, NEW r \in Requests, Reading(r), NEW p \in Proposed(r)
    PROVE  p \in Payment /\ p.n = Len(read') /\ p.amount >= 1
<1>1. Len(read') \in 1..MaxRequests
  BY McpAssumption DEF TypeOK, Reading
<1>2. PICK a \in Atoms(r.call) : p = [n |-> Len(read'), to |-> ResolveTo(r.call.to), amount |-> a]
  BY DEF Proposed
<1>3. PICK w \in r.call.amount : a \in Micro(w)
  BY <1>2 DEF Atoms
<1>4. a \in 1..MaxU64
  BY <1>3, MicroBounds
<1>5. ResolveTo(r.call.to) \in Keys
  BY McpAssumption DEF ResolveTo, Call
<1>. QED
  BY <1>1, <1>2, <1>4, <1>5, GuardAssumption DEF Payment

\* Handling a line touches no transaction, and answers or authorizes that line.
LEMMA HandlingAdvances ==
    ASSUME Inv, NEW r \in Requests,
           Answer(r) \/ Ignore(r) \/ RefuseMethod(r) \/ RefuseArguments(r) \/ Refuse(r)
              \/ Authorize(r)
    PROVE  Advance(r)
<1>. USE DEF Inv
<1>1. CASE Answer(r) \/ Ignore(r) \/ RefuseMethod(r) \/ RefuseArguments(r)
  BY <1>1 DEF Answer, Ignore, RefuseMethod, RefuseArguments, Reading, Advance, Say, TypeOK
<1>2. CASE Refuse(r)
  <2>1. PICK p \in Proposed(r) : log' \in {log, Append(log, Entry("DENY", p))}
    BY <1>2 DEF Refuse
  <2>2. Entry("DENY", p) \in LogEntry
    BY <1>2, <2>1, ProposedPayment DEF Refuse, Entry, LogEntry
  <2>. QED
    BY <1>2, <2>1, <2>2 DEF Refuse, Reading, Advance, Say, TypeOK
<1>3. CASE Authorize(r)
  <2>1. PICK p \in Proposed(r) :
           /\ Approves(p.to, p.amount, r.call.resource)
           /\ log' = Append(log, Entry("ALLOW", p))
           /\ payment' = p
    BY <1>3 DEF Authorize
  <2>2. p \in Payment /\ p.n = Len(read') /\ p.amount >= 1
    BY <1>3, <2>1, ProposedPayment DEF Authorize
  <2>3. p.to = Merchant /\ p.amount \in 1..Limit
    BY <2>1, <2>2, McpAssumption DEF Approves, Payment
  <2>4. Entry("ALLOW", p) \in LogEntry
    BY <2>2 DEF Entry, LogEntry
  <2>. QED
    BY <1>3, <2>1, <2>2, <2>3, <2>4 DEF Authorize, Reading, Advance, Say, TypeOK
<1>. QED
  BY <1>1, <1>2, <1>3

\* Moving on to the next line or to settlement keeps the invariant.
LEMMA AdvanceKeeps ==
    ASSUME Inv, NEW r \in Requests, Advance(r)
    PROVE  Inv'
<1>. USE DEF Inv
<1>1. /\ pc = "reading" /\ pc' \in {"reading", "authorized"}
      /\ read \in Seq(Requests) /\ read' = Append(read, r)
      /\ Len(read) \in Nat /\ Len(read') = Len(read) + 1
      /\ Len(read') <= MaxRequests
      /\ UNCHANGED <<devnet, mempool, ledger, funds>>
  BY McpAssumption DEF TypeOK, Advance, Reading, chain
<1>2. \/ replies' = replies
      \/ \E e \in Reply :
            /\ replies' = Append(replies, e)
            /\ e.n = Len(read) + 1 /\ e.text \notin {"settled", "unsettled"}
  <2>1. ASSUME NEW text \in {"result", "error", "denied", "refused", "authorized"},
               Say(Len(read'), text)
        PROVE  \E e \in Reply :
                  /\ replies' = Append(replies, e)
                  /\ e.n = Len(read) + 1 /\ e.text \notin {"settled", "unsettled"}
    <3>1. [n |-> Len(read'), text |-> text] \in Reply
      BY <1>1, McpAssumption DEF Reply
    <3>. QED
      BY <1>1, <2>1, <3>1 DEF Say
  <2>. QED
    BY <2>1 DEF Advance
<1>0. replies \in Seq(Reply) /\ log \in Seq(LogEntry)
  BY DEF TypeOK, Reply, LogEntry
<1>3. TypeOK'
  <2>1. unread' \in Seq(Requests) /\ read' \in Seq(Requests) /\ Len(read') + Len(unread') <= MaxRequests
    BY <1>1, McpAssumption DEF TypeOK, Advance, Reading
  <2>2. log' \in Seq(LogEntry)
    BY <1>0, Appending DEF Advance
  <2>3. replies' \in Seq(Reply)
    BY <1>0, <1>2, Appending
  <2>. QED
    BY <1>1, <2>1, <2>2, <2>3 DEF TypeOK, Advance, LogEntry, Reply
<1>4. SentBefore' /\ OnePlace'
  BY <1>1 DEF SentBefore, OnePlace
<1>5. Pending'
  <2>1. CASE pc' = "reading"
    BY <2>1 DEF Pending, Settling
  <2>2. CASE pc' = "authorized"
    <3>1. /\ payment' \in Payment
          /\ payment'.to = Merchant /\ payment'.amount \in 1..Limit
          /\ log' = Append(log, Entry("ALLOW", payment'))
      BY <2>2 DEF Advance
    <3>2. /\ log' [Len(log) + 1] = Entry("ALLOW", payment')
          /\ Len(log) + 1 \in DOMAIN log'
      BY <3>1 DEF TypeOK
    <3>. QED
      BY <3>1, <3>2 DEF Pending, Settling
  <2>. QED
    BY <1>1, <2>1, <2>2
<1>6. \A i \in DOMAIN replies' :
         \/ i \in DOMAIN replies /\ replies'[i] = replies[i]
         \/ /\ i = Len(replies) + 1 /\ replies'[i].n = Len(read) + 1
            /\ replies'[i].text \notin {"settled", "unsettled"}
  <2>1. ASSUME NEW e \in Reply, replies' = Append(replies, e), NEW i \in DOMAIN replies'
        PROVE  \/ i \in DOMAIN replies /\ replies'[i] = replies[i]
               \/ i = Len(replies) + 1 /\ replies'[i] = e
    BY <1>0, <2>1, Appending
  <2>. QED
    BY <1>2, <2>1
<1>7. DOMAIN replies = 1..Len(replies) /\ Len(replies) \in Nat
  BY DEF TypeOK
<1>8. RepliesBefore'
  <2>1. ASSUME NEW i \in DOMAIN replies'
        PROVE  replies'[i].n \in 1..Len(read') /\ (pc' \in Settling => replies'[i].n # Len(read'))
    <3>1. CASE pc' = "authorized"
      <4>1. replies' = replies
        BY <3>1 DEF Advance
      <4>. QED
        BY <1>1, <4>1 DEF RepliesBefore
    <3>2. CASE pc' = "reading"
      BY <1>1, <1>6, <3>2 DEF RepliesBefore, Settling
    <3>. QED
      BY <1>1, <3>1, <3>2
  <2>. QED
    BY <2>1 DEF RepliesBefore
<1>9. EveryPaymentIsItsAllow'
  <2>1. \A i \in DOMAIN log : i \in DOMAIN log' /\ log'[i] = log[i]
    BY <1>0, Appending DEF Advance
  <2>. QED
    BY <1>1, <2>1 DEF History, EveryPaymentIsItsAllow, Landed
<1>10. SettledMeansPaid'
  BY <1>1, <1>6 DEF History, SettledMeansPaid, Landed
<1>11. RefusedMovesNothing'
  BY <1>1, <1>6 DEF History, RefusedMovesNothing, SentBefore
<1>12. AnswersFollowRequests'
  <2>1. ASSUME NEW i \in DOMAIN replies', NEW j \in DOMAIN replies', i < j
        PROVE  replies'[i].n < replies'[j].n
    <3>1. CASE j \in DOMAIN replies
      <4>1. i \in DOMAIN replies
        BY <1>2, <1>7, <2>1, <3>1
      <4>. QED
        BY <1>6, <1>7, <2>1, <3>1, <4>1 DEF History, AnswersFollowRequests
    <3>2. CASE j \notin DOMAIN replies
      <4>1. j = Len(replies) + 1 /\ replies'[j].n = Len(read) + 1
        BY <1>6, <3>2
      <4>2. i \in DOMAIN replies /\ replies'[i] = replies[i]
        BY <1>6, <2>1, <4>1
      <4>3. replies[i].n \in 1..Len(read)
        BY <4>2 DEF RepliesBefore
      <4>. QED
        BY <1>1, <4>1, <4>2, <4>3
    <3>. QED
      BY <3>1, <3>2
  <2>2. \A i \in DOMAIN replies : i \in DOMAIN replies' /\ replies'[i] = replies[i]
    BY <1>0, <1>2, Appending
  <2>3. ASSUME NEW n \in DOMAIN read', n < Len(read') \/ pc' = "reading",
               read'[n].id, read'[n].method # "notification"
        PROVE  \E i \in DOMAIN replies' : replies'[i].n = n
    <3>1. CASE n <= Len(read)
      <4>1. n \in DOMAIN read /\ read'[n] = read[n]
        BY <1>1, <3>1
      <4>2. PICK i \in DOMAIN replies : replies[i].n = n
        BY <1>1, <2>3, <4>1 DEF History, AnswersFollowRequests
      <4>. QED
        BY <2>2, <4>2
    <3>2. CASE n > Len(read)
      <4>1. n = Len(read) + 1 /\ read'[n] = r
        BY <1>1, <3>2
      <4>2. replies' # replies
        BY <1>1, <2>3, <4>1 DEF Advance
      <4>3. Len(replies) + 1 \in DOMAIN replies' /\ replies'[Len(replies) + 1].n = Len(read) + 1
        BY <1>2, <4>2 DEF TypeOK
      <4>. QED
        BY <4>1, <4>3
    <3>. QED
      BY <1>1, <3>1, <3>2
  <2>. QED
    BY <2>1, <2>3 DEF AnswersFollowRequests
<1>. QED
  BY <1>3, <1>4, <1>5, <1>8, <1>9, <1>10, <1>11, <1>12 DEF History

-----------------------------------------------------------------------------
(* A settlement ends, or goes on.                                          *)

\* So does an answer from the settlement, if "settled" is said of what landed.
LEMMA ReturnKeeps ==
    ASSUME Inv, pc \in Settling, NEW text \in {"settled", "unsettled"}, Return(text),
           text = "settled" => \E l \in Landed(Len(read)) : l.ok
    PROVE  Inv'
<1>. USE DEF Inv
<1>. DEFINE reply == [n |-> Len(read), text |-> text]
<1>1. /\ replies' = Append(replies, reply)
      /\ pc' = "reading"
      /\ UNCHANGED <<devnet, unread, read, payment, log, chain>>
  BY DEF Return, Say
<1>2. /\ replies \in Seq(Reply) /\ reply \in Reply
      /\ Len(read) \in 1..MaxRequests
  <2>1. Len(read) \in 1..MaxRequests
    BY DEF TypeOK, Pending, Payment, Settling
  <2>. QED
    BY <2>1 DEF TypeOK, Reply
<1>3. /\ DOMAIN replies = 1..Len(replies) /\ Len(replies) \in Nat
      /\ DOMAIN replies' = 1..(Len(replies) + 1)
      /\ replies'[Len(replies) + 1] = reply
      /\ \A i \in DOMAIN replies : i \in DOMAIN replies' /\ replies'[i] = replies[i]
  BY <1>1, <1>2, Appending
<1>4. TypeOK'
  <2>1. replies' \in Seq(Reply)
    BY <1>1, <1>2, Appending
  <2>. QED
    BY <1>1, <2>1 DEF TypeOK, Reply, chain
<1>5. SentBefore' /\ OnePlace' /\ Pending'
  BY <1>1 DEF SentBefore, OnePlace, Pending, Settling, chain
<1>6. RepliesBefore'
  BY <1>1, <1>2, <1>3 DEF RepliesBefore, Settling
<1>7. EveryPaymentIsItsAllow'
  BY <1>1 DEF History, EveryPaymentIsItsAllow, Landed, chain
<1>8. SettledMeansPaid'
  BY <1>1, <1>3 DEF History, SettledMeansPaid, Landed, chain
<1>9. RefusedMovesNothing'
  BY <1>1, <1>3 DEF History, RefusedMovesNothing, chain
<1>10. AnswersFollowRequests'
  <2>1. ASSUME NEW i \in DOMAIN replies', NEW j \in DOMAIN replies', i < j
        PROVE  replies'[i].n < replies'[j].n
    <3>1. i \in DOMAIN replies /\ replies'[i] = replies[i]
      BY <1>3, <2>1
    <3>2. CASE j \in DOMAIN replies
      BY <1>3, <2>1, <3>1, <3>2 DEF History, AnswersFollowRequests
    <3>3. CASE j = Len(replies) + 1
      BY <1>2, <1>3, <3>1, <3>3 DEF RepliesBefore
    <3>. QED
      BY <1>3, <3>2, <3>3
  <2>2. ASSUME NEW n \in DOMAIN read, read[n].id, read[n].method # "notification"
        PROVE  \E i \in DOMAIN replies' : replies'[i].n = n
    <3>1. CASE n = Len(read)
      BY <1>3, <3>1
    <3>2. CASE n # Len(read)
      <4>1. n < Len(read)
        BY <3>2 DEF TypeOK
      <4>. QED
        BY <1>3, <2>2, <4>1 DEF History, AnswersFollowRequests
    <3>. QED
      BY <3>1, <3>2
  <2>. QED
    BY <1>1, <2>1, <2>2 DEF AnswersFollowRequests
<1>. QED
  BY <1>4, <1>5, <1>6, <1>7, <1>8, <1>9, <1>10 DEF History

\* A step that only moves pc, to the next step of the settlement or to a stop.
LEMMA MoveKeeps ==
    ASSUME Inv, UNCHANGED <<devnet, unread, read, payment, log, replies, chain>>,
           \/ pc = "authorized" /\ pc' = "funded"
           \/ pc' = "stopped"
           \/ UNCHANGED pc
    PROVE  Inv'
<1>. USE DEF Inv, chain
<1>1. TypeOK'
  BY DEF TypeOK
<1>2. SentBefore' /\ OnePlace' /\ Pending' /\ RepliesBefore'
  BY DEF SentBefore, OnePlace, Pending, RepliesBefore, Settling
<1>3. EveryPaymentIsItsAllow' /\ SettledMeansPaid' /\ RefusedMovesNothing'
  BY DEF History, EveryPaymentIsItsAllow, SettledMeansPaid, RefusedMovesNothing, Landed
<1>4. AnswersFollowRequests'
  BY DEF History, AnswersFollowRequests
<1>. QED
  BY <1>1, <1>2, <1>3, <1>4 DEF History

-----------------------------------------------------------------------------
(* The transaction, and the chain.                                         *)

\* So does the one transaction sent for the line.
LEMMA SendKeeps ==
    ASSUME Inv, Send
    PROVE  Inv'
<1>. USE DEF Inv
<1>1. /\ pc = "funded" /\ pc' = "confirming"
      /\ payment \in Payment /\ payment.n = Len(read)
      /\ payment.to = Merchant /\ payment.amount \in 1..Limit
      /\ Len(read) \in 1..MaxRequests
      /\ UNCHANGED <<devnet, unread, read, payment, log, replies, ledger, funds>>
  BY DEF Send, TypeOK, Pending, Settling, Payment
<1>. DEFINE new == [n |-> Len(read), transfer |-> BoundTransfer(Merchant, payment.amount)]
<1>2. mempool' = mempool \cup {new}
  <2>1. PICK t \in FindTransfer(Transaction(payment)) :
           mempool' = mempool \cup {[n |-> payment.n, transfer |-> t]}
    BY DEF Send
  <2>2. t = BoundTransfer(Merchant, payment.amount)
    BY <1>1, BuiltTransfer DEF Transaction, BoundTransfer
  <2>. QED
    BY <1>1, <2>1, <2>2
<1>3. new \in [n: 1..MaxRequests, transfer: DecodedTransfer]
  BY <1>1, McpAssumption DEF BoundTransfer, DecodedTransfer, Payment
<1>4. TypeOK'
  BY <1>1, <1>2, <1>3 DEF TypeOK
<1>5. \A tx \in mempool \cup ledger : tx.n # new.n
  BY <1>1 DEF SentBefore
<1>6. SentBefore' /\ OnePlace'
  BY <1>1, <1>2, <1>5 DEF SentBefore, OnePlace
<1>7. Pending' /\ RepliesBefore'
  BY <1>1 DEF Pending, RepliesBefore, Settling
<1>8. EveryPaymentIsItsAllow'
  <2>1. \A tx \in mempool' : Landed(tx.n)' = {}
    BY <1>1, <1>2, <1>5 DEF History, EveryPaymentIsItsAllow, Landed
  <2>2. ASSUME NEW tx \in {new}
        PROVE  \E i \in DOMAIN log :
                  /\ log[i].decision = "ALLOW"
                  /\ log[i].payment = [n |-> tx.n, to |-> Merchant, amount |-> tx.transfer.amount]
                  /\ tx.transfer.amount \in 1..Limit
                  /\ tx.transfer = [source |-> Ata[Payer], mint |-> Asset,
                                    destination |-> Ata[Merchant], authority |-> Payer,
                                    amount |-> tx.transfer.amount]
    <3>1. PICK i \in DOMAIN log : log[i] = Entry("ALLOW", payment)
      BY <1>1 DEF Pending
    <3>2. payment = [n |-> Len(read), to |-> Merchant, amount |-> payment.amount]
      BY <1>1 DEF Payment
    <3>3. log[i].decision = "ALLOW" /\ log[i].payment = payment
      BY <3>1 DEF Entry
    <3>. QED
      BY <1>1, <3>2, <3>3 DEF BoundTransfer
  <2>. QED
    BY <1>1, <1>2, <2>1, <2>2 DEF History, EveryPaymentIsItsAllow
<1>9. SettledMeansPaid'
  BY <1>1 DEF History, SettledMeansPaid, Landed
<1>10. RefusedMovesNothing'
  BY <1>1, <1>2 DEF History, RefusedMovesNothing, RepliesBefore, Settling
<1>11. AnswersFollowRequests'
  BY <1>1 DEF History, AnswersFollowRequests
<1>. QED
  BY <1>4, <1>6, <1>7, <1>8, <1>9, <1>10, <1>11 DEF History

\* So does the chain.
LEMMA LandKeeps ==
    ASSUME Inv, NEW tx \in mempool, Land(tx)
    PROVE  Inv'
<1>. USE DEF Inv
<1>. DEFINE ok == funds >= tx.transfer.amount
            l == [n |-> tx.n, transfer |-> tx.transfer, ok |-> ok]
<1>1. /\ mempool' = mempool \ {tx}
      /\ ledger' = ledger \cup {l}
      /\ UNCHANGED <<devnet, unread, read, pc, payment, log, replies>>
  BY DEF Land
<1>2. /\ tx.n \in 1..MaxRequests /\ tx.transfer \in DecodedTransfer
      /\ tx.transfer.amount \in Nat /\ funds \in 0..Funds
  BY DEF TypeOK, DecodedTransfer
<1>3. funds' \in 0..Funds
  BY <1>2, McpAssumption DEF Land
<1>4. TypeOK'
  <2>1. l \in [n: 1..MaxRequests, transfer: DecodedTransfer, ok: BOOLEAN]
    BY <1>2
  <2>. QED
    BY <1>1, <1>3, <2>1 DEF TypeOK
<1>5. \A ty \in mempool' : ty.n # l.n
  BY <1>1 DEF OnePlace
<1>6. \A k \in ledger : k.n # l.n
  BY DEF History, EveryPaymentIsItsAllow, Landed
<1>7. SentBefore' /\ OnePlace'
  BY <1>1 DEF SentBefore, OnePlace
<1>8. Pending' /\ RepliesBefore'
  BY <1>1 DEF Pending, RepliesBefore
<1>9. EveryPaymentIsItsAllow'
  <2>1. \A ty \in mempool' : Landed(ty.n)' = {}
    BY <1>1, <1>5 DEF History, EveryPaymentIsItsAllow, Landed
  <2>2. \A j, k \in ledger' : j.n = k.n => j = k
    BY <1>1, <1>6 DEF History, EveryPaymentIsItsAllow
  <2>3. l.n = tx.n /\ l.transfer = tx.transfer
    OBVIOUS
  <2>4. ASSUME NEW ty \in mempool' \cup ledger'
        PROVE  \E tz \in mempool \cup ledger : ty.n = tz.n /\ ty.transfer = tz.transfer
    BY <1>1, <2>3
  <2>. QED
    BY <1>1, <2>1, <2>2, <2>4 DEF History, EveryPaymentIsItsAllow
<1>10. SettledMeansPaid'
  BY <1>1 DEF History, SettledMeansPaid, Landed
<1>11. RefusedMovesNothing'
  BY <1>1 DEF History, RefusedMovesNothing
<1>12. AnswersFollowRequests'
  BY <1>1 DEF History, AnswersFollowRequests
<1>. QED
  BY <1>4, <1>7, <1>8, <1>9, <1>10, <1>11, <1>12 DEF History

\* Dropping a transaction, spending elsewhere, or another line on stdin.
LEMMA OutsideKeeps ==
    ASSUME Inv, (\E tx \in mempool : Drop(tx)) \/ Spend \/ (\E r \in Requests : Write(r))
    PROVE  Inv'
<1>. USE DEF Inv
<1>1. /\ mempool' \subseteq mempool
      /\ UNCHANGED <<devnet, read, pc, payment, log, replies, ledger>>
  BY DEF Drop, Spend, Write, chain
<1>2. TypeOK'
  <2>1. CASE \E r \in Requests : Write(r)
    BY <1>1, <2>1, McpAssumption DEF TypeOK, Write, chain
  <2>2. CASE Spend \/ \E tx \in mempool : Drop(tx)
    BY <1>1, <2>2, McpAssumption DEF TypeOK, Spend, Drop
  <2>. QED
    BY <2>1, <2>2
<1>3. SentBefore' /\ OnePlace' /\ Pending' /\ RepliesBefore'
  BY <1>1 DEF SentBefore, OnePlace, Pending, RepliesBefore
<1>4. EveryPaymentIsItsAllow' /\ SettledMeansPaid' /\ RefusedMovesNothing'
  BY <1>1 DEF History, EveryPaymentIsItsAllow, SettledMeansPaid, RefusedMovesNothing, Landed
<1>5. AnswersFollowRequests'
  BY <1>1 DEF History, AnswersFollowRequests
<1>. QED
  BY <1>2, <1>3, <1>4, <1>5 DEF History

-----------------------------------------------------------------------------

\* Every step of the gateway and of the chain keeps the invariant.
LEMMA InvStep == Inv /\ [Next]_vars => Inv'
<1>. SUFFICES ASSUME Inv, [Next]_vars PROVE Inv'
  OBVIOUS
<1>1. CASE UNCHANGED vars
  BY <1>1, MoveKeeps DEF vars, chain
<1>2. ASSUME NEW r \in Requests,
             Answer(r) \/ Ignore(r) \/ RefuseMethod(r) \/ RefuseArguments(r) \/ Refuse(r)
                \/ Authorize(r)
      PROVE  Inv'
  BY <1>2, HandlingAdvances, AdvanceKeeps
<1>3. CASE SettleFails
  BY <1>3, ReturnKeeps DEF SettleFails, Settling
<1>4. CASE CheckBalance
  BY <1>4, ReturnKeeps, MoveKeeps DEF CheckBalance, Settling
<1>5. CASE Send
  BY <1>5, SendKeeps
<1>6. CASE Confirm
  <2>1. payment.n = Len(read)
    BY <1>6 DEF Confirm, Inv, TypeOK
  <2>. QED
    BY <1>6, <2>1, ReturnKeeps DEF Confirm, Settling
<1>7. CASE GiveUp
  BY <1>7, ReturnKeeps DEF GiveUp, Settling
<1>8. CASE Stop
  BY <1>8, MoveKeeps DEF Stop
<1>9. ASSUME NEW tx \in mempool, Land(tx) PROVE Inv'
  BY <1>9, LandKeeps
<1>10. CASE (\E tx \in mempool : Drop(tx)) \/ Spend \/ (\E r \in Requests : Write(r))
  BY <1>10, OutsideKeeps
<1>. QED
  BY <1>1, <1>2, <1>3, <1>4, <1>5, <1>6, <1>7, <1>8, <1>9, <1>10 DEF Next, OwnNext, Gateway

\* The invariant holds in every reachable state.
LEMMA InvAlways == Spec => []Inv
BY InvInit, InvStep, PTL DEF Spec

\* Type correctness, and that an authorized payment is the line's own.
THEOREM GatewayTypeCorrect == Spec => []TypeOK
BY InvAlways, PTL DEF Inv

\* For every input and policy: each transaction toolsCall
\* (cmd/mcp-gateway/main.go:203) ever sent is the one payment of one recorded
\* ALLOW, however often it gave up waiting.
THEOREM PaymentsAreAllowed == Spec => []EveryPaymentIsItsAllow
BY InvAlways, PTL DEF Inv, History

\* A call answered as settled is paid.
THEOREM SettledIsPaid == Spec => []SettledMeansPaid
BY InvAlways, PTL DEF Inv, History

\* A refused call never gets a transaction.
THEOREM RefusedIsUnpaid == Spec => []RefusedMovesNothing
BY InvAlways, PTL DEF Inv, History

\* Answers keep the order of the lines (main, cmd/mcp-gateway/main.go:132), and
\* none is left out.
THEOREM AnswersInOrder == Spec => []AnswersFollowRequests
BY InvAlways, PTL DEF Inv, History

-----------------------------------------------------------------------------
(* Next to runs of paydevnet.                                              *)

\* What a run sent is the transfer it was ordered to make.
Ordered(tx) ==
    /\ tx.n \in DOMAIN orders /\ ~orders[tx.n].tamper
    /\ tx.transfer = BoundTransfer(orders[tx.n].to, orders[tx.n].amount)

RunInv ==
    /\ orders \in Seq(Orders)
    /\ step \in {"started", "solvent", "confirming"} => Len(orders) \in DOMAIN orders
    /\ step \in {"started", "solvent"} => \A tx \in sent \cup landed : tx.n # Len(orders)
    /\ \A tx \in sent \cup landed : Ordered(tx)
    /\ \A tx \in sent : Here(tx.n) = {}
    /\ \A tx, ty \in sent : tx.n = ty.n => tx = ty
    /\ step = "settled" => \E l \in Here(Len(orders)) : l.ok

\* What paydevnet sent moves a natural amount.
LEMMA OrderAmount ==
    ASSUME RunInv, NEW tx \in sent \cup landed
    PROVE  tx.transfer.amount \in Nat
<1>1. orders[tx.n] \in [to: Keys, amount: 0..MaxU64, tamper: BOOLEAN]
  BY PayDevnetAssumption DEF RunInv, Ordered
<1>2. tx.transfer = BoundTransfer(orders[tx.n].to, orders[tx.n].amount)
  BY DEF RunInv, Ordered
<1>3. tx.transfer.amount = orders[tx.n].amount
  BY <1>2 DEF BoundTransfer
<1>. QED
  BY <1>1, <1>3, GuardAssumption

\* What paydevnet does is spending elsewhere to the gateway, or nothing.
LEMMA OwnStepSpends ==
    ASSUME Inv, RunInv, PayDevnetNext
    PROVE  [Spend]_vars
<1>1. CASE UNCHANGED vars
  BY <1>1
<1>2. ASSUME NEW tx \in sent, LandOrder(tx) PROVE [Spend]_vars
  <2>1. funds \in Nat
    BY McpAssumption DEF Inv, TypeOK
  <2>2. funds' \in 0..funds
    BY <1>2, <2>1, OrderAmount DEF LandOrder
  <2>. QED
    BY <1>2, <2>2 DEF LandOrder, Spend
<1>. QED
  BY <1>1, <1>2 DEF PayDevnetNext, Start, CheckWallet, SendOrder, ConfirmOrder, Exit, To, DropOrder

\* To the gateway a step of paydevnet is a change of its balance, or nothing.
LEMMA StepIsGateways ==
    ASSUME Inv, RunInv, [WalletNext]_walletVars
    PROVE  [Next]_vars
BY OwnStepSpends DEF WalletNext, walletVars, Next

\* Every step keeps what is known of the runs of paydevnet.
LEMMA RunInvStep ==
    ASSUME RunInv, [WalletNext]_walletVars
    PROVE  RunInv'
<1>1. CASE UNCHANGED ownVars
  BY <1>1 DEF RunInv, ownVars, Ordered, Here
<1>2. ASSUME NEW o \in Orders, Start(o) PROVE RunInv'
  <2>1. /\ orders' \in Seq(Orders) /\ Len(orders) \in Nat
        /\ DOMAIN orders = 1..Len(orders) /\ DOMAIN orders' = 1..(Len(orders) + 1)
        /\ Len(orders') = Len(orders) + 1
        /\ \A i \in DOMAIN orders : orders'[i] = orders[i]
    BY <1>2, Appending DEF RunInv, Start
  <2>2. step' = "started" /\ UNCHANGED <<sent, landed>>
    BY <1>2 DEF Start
  <2>3. \A tx \in sent \cup landed : Ordered(tx) => Ordered(tx)' /\ tx.n # Len(orders')
    BY <2>1 DEF Ordered
  <2>. QED
    BY <2>1, <2>2, <2>3 DEF RunInv, Here
<1>3. CASE CheckWallet \/ Exit \/ ConfirmOrder
  BY <1>3 DEF CheckWallet, Exit, ConfirmOrder, To, RunInv, Ordered, Here
<1>4. CASE SendOrder
  <2>1. PICK t \in FindTransfer(OrderTransaction) :
           sent' = sent \cup {[n |-> Len(orders), transfer |-> t]}
    BY <1>4 DEF SendOrder
  <2>2. order \in [to: Keys, amount: 0..MaxU64, tamper: BOOLEAN]
    BY <1>4, PayDevnetAssumption DEF SendOrder, RunInv, order
  <2>. DEFINE dest == IF order.tamper THEN Stranger ELSE Ata[order.to]
              Built == [source |-> Ata[Payer], mint |-> Asset, destination |-> dest,
                        authority |-> Payer, amount |-> order.amount]
  <2>3. ASSUME NEW u \in FindTransfer(OrderTransaction)
        PROVE  u = Built
    <3>1. OrderTransaction =
             (IF order.to = Payer THEN <<>> ELSE <<CreateAta(order.to)>>)
             \o <<BuildTransferChecked(TokenProgram, Ata[Payer], Asset, dest, Payer, order.amount)>>
      BY DEF OrderTransaction
    <3>. HIDE DEF dest
    <3>2. u = [source |-> Ata[Payer], mint |-> Asset, destination |-> dest, authority |-> Payer,
               amount |-> order.amount]
      BY <3>1, BuiltTransfer
    <3>. QED
      BY <3>2
  <2>4. dest = Ata[order.to]
    BY <1>4, <2>3 DEF SendOrder, AssertTransactionPays, AssertMatches, OrderBound
  <2>5. ~order.tamper
    BY <2>2, <2>4, PayDevnetAssumption
  <2>6. t = BoundTransfer(order.to, order.amount)
    BY <2>3, <2>4 DEF BoundTransfer
  <2>7. /\ step = "solvent" /\ step' = "confirming"
        /\ UNCHANGED <<orders, landed>>
    BY <1>4 DEF SendOrder
  <2>8. \A tx \in sent' : tx \in sent \/ (tx.n = Len(orders) /\ tx.transfer = t)
    BY <2>1
  <2>9. \A tx \in sent' \cup landed' : Ordered(tx)'
    BY <2>5, <2>6, <2>7, <2>8 DEF RunInv, Ordered, order
  <2>10. \A tx, ty \in sent' : tx.n = ty.n => tx = ty
    BY <2>1, <2>7 DEF RunInv
  <2>11. \A tx \in sent' : Here(tx.n)' = {}
    BY <2>7, <2>8 DEF RunInv, Here
  <2>. QED
    BY <2>7, <2>9, <2>10, <2>11 DEF RunInv
<1>5. ASSUME NEW tx \in sent, LandOrder(tx) PROVE RunInv'
  <2>. DEFINE l == [n |-> tx.n, transfer |-> tx.transfer, ok |-> funds >= tx.transfer.amount]
  <2>1. /\ sent' = sent \ {tx} /\ landed' = landed \cup {l}
        /\ UNCHANGED <<orders, step>>
    BY <1>5 DEF LandOrder
  <2>2. l.n = tx.n /\ l.transfer = tx.transfer
    OBVIOUS
  <2>3. \A ty \in sent' \cup landed' : Ordered(ty)'
    BY <2>1, <2>2 DEF RunInv, Ordered
  <2>4. \A ty \in sent' : Here(ty.n)' = {}
    BY <2>1, <2>2 DEF RunInv, Here
  <2>5. step \in {"started", "solvent"} => \A ty \in sent' \cup landed' : ty.n # Len(orders)
    BY <2>1, <2>2 DEF RunInv
  <2>. QED
    BY <2>1, <2>3, <2>4, <2>5 DEF RunInv, Here
<1>6. ASSUME NEW tx \in sent, DropOrder(tx) PROVE RunInv'
  BY <1>6 DEF DropOrder, RunInv, Ordered, Here
<1>. QED
  BY <1>1, <1>2, <1>3, <1>4, <1>5, <1>6 DEF WalletNext, PayDevnetNext, walletVars, ownVars

\* Both invariants hold of the two programs together.
LEMMA WalletInvAlways == WalletSpec => [](Inv /\ RunInv)
<1>1. WalletInit => Inv /\ RunInv
  BY InvInit DEF WalletInit, RunInv
<1>2. Inv /\ RunInv /\ [WalletNext]_walletVars => (Inv /\ RunInv)'
  BY StepIsGateways, InvStep, RunInvStep
<1>. QED
  BY <1>1, <1>2, PTL DEF WalletSpec

\* A gateway that shares its wallet with paydevnet still implements its
\* specification, so all of the above holds of it.
THEOREM WalletImplementsGateway == WalletSpec => Spec
<1>1. WalletInit => Init
  BY DEF WalletInit
<1>2. Inv /\ RunInv /\ [WalletNext]_walletVars => [Next]_vars
  BY StepIsGateways
<1>. QED
  BY <1>1, <1>2, WalletInvAlways, PTL DEF WalletSpec, Spec

\* For every command line and whatever the gateway spends: paydevnet
\* (cmd/paydevnet/main.go:153) sends what it was ordered to and never what it
\* tampered with, and reports only what landed.
THEOREM RunsPayTheirOrderAlways == WalletSpec => []RunsPayTheirOrder
<1>1. RunInv => RunsPayTheirOrder
  BY DEF RunInv, RunsPayTheirOrder, Ordered, BoundTransfer
<1>. QED
  BY <1>1, WalletInvAlways, PTL

=============================================================================
