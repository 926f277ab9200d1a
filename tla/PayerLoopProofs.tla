-------------------------- MODULE PayerLoopProofs ---------------------------
(***************************************************************************)
(* The payer loop for any number of clients, tokens and endpoints, any     *)
(* demands, and receipt logs and resends without the bounds TLC needs: its *)
(* type invariant; that evidence precedes release; that a release is what  *)
(* the scope, the guard and one authorization admit; that what Pay reports *)
(* is true; and that the loop implements EvidencedPayment.                 *)
(***************************************************************************)
EXTENDS PayerLoop, TLAPS

Submitting == {"allowed", "signed", "awaiting"}

\* A price that ParseUint read: what keeps the amount of a built transfer
\* within u64.
Priced == \A c \in Clients : pc[c] \in Submitting => ParsesUint(Demand[call[c].server])

TypeInv == TypeOK /\ Priced

-----------------------------------------------------------------------------
(* Types of what the actions compute.                                      *)

\* What a client builds is a sequence of instructions.
LEMMA BuiltType ==
    ASSUME NEW req \in Requirement, NEW tamper \in BOOLEAN, ParsesUint(req)
    PROVE  Built(req, tamper) \in Seq(Instruction)
  <1>1. BuildTransferChecked(TokenProgram, Source, Asset,
            IF tamper THEN Attacker ELSE Merchant, Payer, req.amount) \in Instruction
    <2>1. <<Source, Asset, IF tamper THEN Attacker ELSE Merchant, Payer>> \in Seq(Keys)
      BY PayerAssumption
    <2>2. req.amount \in 0..MaxU64
      BY DEF ParsesUint
    <2>3. QED
      BY <2>1, <2>2, PayerAssumption
      DEF BuildTransferChecked, Instruction, TransferCheckedSize, TransferCheckedDiscriminator
  <1>2. QED
    BY <1>1 DEF Built

\* What a server settles is a decoded transfer.
LEMMA SettlesType ==
    ASSUME NEW m \in Message
    PROVE  Settles(m) \subseteq DecodedTransfer
  <1>1. m.ixs \in Seq(Instruction)
    BY DEF Message
  <1>2. ASSUME NEW j \in DOMAIN m.ixs, Decodes(m.ixs[j])
        PROVE  Decoded(m.ixs[j]) \in DecodedTransfer
    <2>1. m.ixs[j] \in Instruction
      BY <1>1, <1>2
    <2>2. QED
      BY <1>2, <2>1 DEF Instruction, Decodes, Decoded, DecodedTransfer
  <1>3. QED
    BY <1>2 DEF Settles, FindTransfer

\* What a message releases is a release.
LEMMA ReleasedType ==
    ASSUME NEW m \in Message
    PROVE  Released(m) \subseteq Release
  <1>1. /\ m.client \in Clients /\ m.token \in Tokens /\ m.server \in Servers
        /\ m.entry \in Nat /\ m.copy \in 1..MaxCopies
    BY DEF Message
  <1>2. QED
    BY <1>1, SettlesType DEF Released, Release

\* At the start everything is empty and idle.
LEMMA TypeInit == Init => TypeInv
  <1> SUFFICES ASSUME Init PROVE TypeInv
    OBVIOUS
  <1>1. TypeOK
    <2>1. outcome \in [Clients -> Outcome]
      BY DEF Init, Outcome, NoOutcome
    <2>2. copies \in [Clients -> 0..MaxCopies]
      BY PayerAssumption DEF Init
    <2>3. receipts \in [Clients -> Seq(Receipt)] /\ file \in Seq(Receipt)
      BY DEF Init
    <2>4. QED
      BY <2>1, <2>2, <2>3 DEF Init, TypeOK, Phases, Live, Classes
  <1>2. Priced
    BY DEF Init, Priced, Submitting
  <1>3. QED
    BY <1>1, <1>2 DEF TypeInv

\* What a client's steps between Start and Return may assume of its call.
LEMMA CallFacts ==
    ASSUME TypeInv, NEW c \in Clients, pc[c] \in Live \ {"idle"}
    PROVE  /\ call[c].server \in Servers
           /\ call[c].token \in Tokens
           /\ Demand[call[c].server] \in Requirement
           /\ pc[c] \in Submitting => \A n \in 1..MaxCopies : Payment(c, n) \in Message
  <1>1. call[c] \in Call
    BY DEF TypeInv, TypeOK
  <1>2. /\ call[c].server \in Servers /\ call[c].token \in Tokens /\ call[c].tamper \in BOOLEAN
        /\ Demand[call[c].server] \in Requirement
    BY <1>1, PayerAssumption DEF Call
  <1>3. Len(receipts[c]) \in Nat
    BY DEF TypeInv, TypeOK
  <1>4. ASSUME pc[c] \in Submitting, NEW n \in 1..MaxCopies PROVE Payment(c, n) \in Message
    <2>1. Built(Demand[call[c].server], call[c].tamper) \in Seq(Instruction)
      BY <1>2, <1>4, BuiltType DEF TypeInv, Priced
    <2>2. QED
      BY <1>2, <1>3, <1>4, <2>1 DEF Payment, Message
  <1>5. QED
    BY <1>2, <1>4

\* The gate allows a token it has not seen, and spends it; or it spends nothing.
LEMMA GateSpends ==
    ASSUME NEW c \in Clients, Evaluate(c)
    PROVE  \/ /\ call[c].token \notin spent[c]
              /\ verdict' = [verdict EXCEPT ![c] = "ALLOW"]
              /\ spent' = [spent EXCEPT ![c] = @ \cup {call[c].token}]
           \/ /\ verdict' = [verdict EXCEPT ![c] = "DENY_VIOLATION"]
              /\ spent' = spent
  BY Zenon DEF Evaluate, Allowed

\* One step per action.
LEMMA TypeStep == TypeInv /\ [Next]_vars => TypeInv'
  <1> SUFFICES ASSUME TypeInv, [Next]_vars PROVE TypeInv'
    OBVIOUS
  <1> USE DEF TypeInv
  <1>1. ASSUME NEW c \in Clients, NEW k \in Calls[c], Start(c, k)
        PROVE  TypeInv'
    <2>1. k \in Call
      BY <1>1, CallAssumption
    <2>2. copies' \in [Clients -> 0..MaxCopies]
      BY <1>1, PayerAssumption DEF Start, TypeOK
    <2>3. pc'[c] \in {"asking", "required"} /\ pc' = [pc EXCEPT ![c] = pc'[c]]
      BY <1>1 DEF Start, TypeOK
    <2>4. QED
      BY <1>1, <2>1, <2>2, <2>3 DEF Start, TypeOK, Priced, Submitting, Phases, Live
  <1>2. ASSUME NEW c \in Clients, Required(c) \/ RequireFails(c) PROVE TypeInv'
    <2>1. CASE Required(c)
      BY <2>1 DEF Required, TypeOK, Priced, Submitting, Phases, Live
    <2>2. CASE RequireFails(c)
      BY <2>2
      DEF RequireFails, Return, TypeOK, Priced, Submitting, Phases, Live, Outcome, Classes
    <2>3. QED
      BY <1>2, <2>1, <2>2
  <1>3. ASSUME NEW c \in Clients, Evaluate(c) PROVE TypeInv'
    <2>1. call[c].token \in Tokens
      BY <1>3, CallFacts DEF Evaluate, Live
    <2>2. spent' \in [Clients -> SUBSET Tokens] /\ verdict' \in [Clients -> Classes]
      <3>1. spent \in [Clients -> SUBSET Tokens] /\ verdict \in [Clients -> Classes]
        BY DEF TypeOK
      <3>2. spent[c] \cup {call[c].token} \in SUBSET Tokens
        BY <2>1, <3>1
      <3>3. QED
        BY <1>3, <3>1, <3>2, GateSpends DEF Classes
    <2>3. QED
      BY <1>3, <2>2 DEF Evaluate, TypeOK, Priced, Submitting, Phases, Live
  <1>4. ASSUME NEW c \in Clients, Record(c) PROVE TypeInv'
    <2>1. Entry(c) \in Receipt
      BY <1>4, CallFacts DEF Record, Live, Entry, Receipt, TypeOK
    <2>2. receipts' \in [Clients -> Seq(Receipt)]
      BY <1>4, <2>1 DEF Record, TypeOK
    <2>3. CASE verdict[c] = "ALLOW" /\ ParsesUint(Demand[call[c].server])
      BY <1>4, <2>2, <2>3 DEF Record, TypeOK, Priced, Submitting, Phases, Live
    <2>4. CASE ~(verdict[c] = "ALLOW" /\ ParsesUint(Demand[call[c].server]))
      <3>1. Return(c, "DENY_VIOLATION", FALSE, FALSE)
        BY <1>4, <2>4 DEF Record
      <3>2. QED
        BY <1>4, <2>2, <3>1
        DEF Record, Return, TypeOK, Priced, Submitting, Phases, Live, Outcome, Classes
    <2>5. QED
      BY <2>3, <2>4
  <1>5. ASSUME NEW c \in Clients, RecordFails(c) PROVE TypeInv'
    BY <1>5 DEF RecordFails, Return, TypeOK, Priced, Submitting, Phases, Live, Outcome, Classes
  <1>6. ASSUME NEW c \in Clients, Build(c) PROVE TypeInv'
    <2>1. \/ pc' = [pc EXCEPT ![c] = "signed"] /\ UNCHANGED outcome
          \/ Return(c, "ALLOW", FALSE, TRUE)
      BY <1>6 DEF Build
    <2>2. CASE pc' = [pc EXCEPT ![c] = "signed"] /\ UNCHANGED outcome
      BY <1>6, <2>2 DEF Build, TypeOK, Priced, Submitting, Phases, Live
    <2>3. CASE Return(c, "ALLOW", FALSE, TRUE)
      BY <1>6, <2>3
      DEF Build, Return, TypeOK, Priced, Submitting, Phases, Live, Outcome, Classes
    <2>4. QED
      BY <2>1, <2>2, <2>3
  <1>7. ASSUME NEW c \in Clients, SettleInProcess(c) PROVE TypeInv'
    <2>1. Released(Payment(c, 1)) \subseteq Release
      BY <1>7, CallFacts, ReleasedType, PayerAssumption DEF SettleInProcess, Submitting, Live
    <2>2. settled' \subseteq Release /\ copies' \in [Clients -> 0..MaxCopies]
      BY <1>7, <2>1, PayerAssumption DEF SettleInProcess, TypeOK
    <2>3. QED
      BY <1>7, <2>2
      DEF SettleInProcess, Return, TypeOK, Priced, Submitting, Phases, Live, Outcome, Classes
  <1>8. ASSUME NEW c \in Clients, Send(c) PROVE TypeInv'
    <2>1. /\ copies' \in [Clients -> 0..MaxCopies]
          /\ copies[c] + 1 \in 1..MaxCopies
      BY <1>8, PayerAssumption DEF Send, TypeOK
    <2>2. wire' \subseteq Message
      BY <1>8, <2>1, CallFacts DEF Send, TypeOK, Submitting, Live
    <2>3. QED
      BY <1>8, <2>1, <2>2
      DEF Send, Unanswered, TypeOK, Priced, Submitting, Phases, Live
  <1>9. ASSUME NEW c \in Clients, NEW r \in replies, Receive(c, r) PROVE TypeInv'
    BY <1>9
    DEF Receive, Unanswered, Return, TypeOK, Priced, Submitting, Phases, Live, Outcome, Classes
  <1>10. ASSUME NEW c \in Clients, ConnectionFails(c) PROVE TypeInv'
    BY <1>10
    DEF ConnectionFails, Unanswered, Return, TypeOK, Priced, Submitting, Phases, Live, Outcome, Classes
  <1>11. ASSUME NEW m \in wire, HandlePayment(m) PROVE TypeInv'
    <2>1. m \in Message /\ m.client \in Clients
      BY DEF TypeOK, Message
    <2>2. settled' \subseteq Release
      BY <1>11, <2>1, ReleasedType DEF HandlePayment, TypeOK
    <2>3. replies' \subseteq Reply
      BY <1>11, <2>1 DEF HandlePayment, Status, TypeOK, Reply
    <2>4. QED
      BY <1>11, <2>2, <2>3 DEF HandlePayment, clientVars, TypeOK, Priced
  <1>12. ASSUME NEW m \in wire, LoseRequest(m) PROVE TypeInv'
    BY <1>12 DEF LoseRequest, clientVars, TypeOK, Priced
  <1>13. ASSUME NEW c \in Clients, Exit(c) PROVE TypeInv'
    BY <1>13 DEF Exit, TypeOK, Priced, Submitting, Phases, Live
  <1>14. ASSUME NEW c \in Clients, Crash(c) PROVE TypeInv'
    BY <1>14 DEF Crash, Unanswered, TypeOK, Priced, Submitting, Phases, Live
  <1>15. ASSUME Anchor PROVE TypeInv'
    BY <1>15 DEF Anchor, clientVars, TypeOK, Priced
  <1>16. CASE UNCHANGED vars
    BY <1>16 DEF vars, TypeOK, Priced
  <1>17. QED
    BY <1>1, <1>2, <1>3, <1>4, <1>5, <1>6, <1>7, <1>8, <1>9, <1>10, <1>11, <1>12,
       <1>13, <1>14, <1>15, <1>16
    DEF Next, Step

\* Type correctness of the payer loop (demo/demo.go, demo/x402http.go): in
\* particular every transfer put on the wire or settled has an amount that
\* fits u64, whatever amount the endpoint demanded.
THEOREM PayerTypeCorrect == Spec => []TypeOK
  <1>1. Spec => []TypeInv
    BY TypeInit, TypeStep, PTL DEF Spec
  <1>2. TypeInv => TypeOK
    BY DEF TypeInv
  <1>3. QED
    BY <1>1, <1>2, PTL

-----------------------------------------------------------------------------
(* What one step can do to one client, to the network and to the files.    *)

\* Nothing that concerns evidence, except that Pay may go on or end.
Quiet(c) ==
    /\ spent'[c] = spent[c] /\ receipts'[c] = receipts[c]
    /\ call'[c] = call[c] /\ verdict'[c] = verdict[c]
    /\ \/ pc'[c] = pc[c]
       \/ pc[c] \in Live /\ pc'[c] \in {"idle", "exited", "crashed"}
       \/ pc[c] = "asking" /\ pc'[c] = "required"
       \/ pc[c] \in Submitting /\ pc'[c] \in Submitting

Starts(c) ==
    /\ pc[c] = "idle" /\ pc'[c] \in {"asking", "required"}
    /\ spent'[c] = spent[c] /\ receipts'[c] = receipts[c]

Decides(c) ==
    /\ pc[c] = "required" /\ pc'[c] = "evaluated"
    /\ receipts'[c] = receipts[c] /\ call'[c] = call[c]
    /\ \/ /\ call[c].token \notin spent[c]
          /\ spent'[c] = spent[c] \cup {call[c].token}
       \/ verdict'[c] # "ALLOW" /\ spent'[c] = spent[c]

Records(c) ==
    /\ pc[c] = "evaluated"
    /\ Entry(c) \in Receipt
    /\ receipts'[c] = Append(receipts[c], Entry(c))
    /\ spent'[c] = spent[c] /\ call'[c] = call[c]
    /\ \/ pc'[c] = "idle"
       \/ pc'[c] = "allowed" /\ verdict[c] = "ALLOW"

\* A step leaves a client alone, starts its Pay, or brings its decision or receipt.
LEMMA ClientStep ==
    ASSUME TypeInv, [Next]_vars, NEW c \in Clients
    PROVE  Quiet(c) \/ Starts(c) \/ Decides(c) \/ Records(c)
  <1> USE DEF TypeInv, TypeOK
  <1>1. ASSUME NEW d \in Clients, NEW k \in Calls[d], Start(d, k)
        PROVE  Quiet(c) \/ Starts(c)
    BY <1>1 DEF Start, Quiet, Starts
  <1>2. ASSUME NEW d \in Clients, Required(d) \/ RequireFails(d) PROVE Quiet(c)
    BY <1>2 DEF Required, RequireFails, Return, Quiet, Live
  <1>3. ASSUME NEW d \in Clients, Evaluate(d) PROVE Quiet(c) \/ Decides(c)
    <2>1. /\ pc[d] = "required" /\ pc' = [pc EXCEPT ![d] = "evaluated"]
          /\ UNCHANGED <<call, receipts>>
      BY <1>3 DEF Evaluate
    <2>2. QED
      BY <1>3, <2>1, GateSpends DEF Quiet, Decides
  <1>4. ASSUME NEW d \in Clients, Record(d) PROVE Quiet(c) \/ Records(c)
    <2>1. Entry(d) \in Receipt
      BY <1>4, CallFacts DEF Record, Live, Entry, Receipt
    <2>2. \/ pc' = [pc EXCEPT ![d] = "idle"]
          \/ pc' = [pc EXCEPT ![d] = "allowed"] /\ verdict[d] = "ALLOW"
      BY <1>4 DEF Record, Return
    <2>3. QED
      BY <1>4, <2>1, <2>2 DEF Record, Quiet, Records
  <1>5. ASSUME NEW d \in Clients, RecordFails(d) PROVE Quiet(c)
    BY <1>5 DEF RecordFails, Return, Quiet, Live
  <1>6. ASSUME NEW d \in Clients, Build(d) PROVE Quiet(c)
    <2>1. \/ pc' = [pc EXCEPT ![d] = "signed"]
          \/ pc' = [pc EXCEPT ![d] = "idle"]
      BY <1>6 DEF Build, Return
    <2>2. QED
      BY <1>6, <2>1 DEF Build, Quiet, Submitting, Live
  <1>7. ASSUME NEW d \in Clients, SettleInProcess(d) PROVE Quiet(c)
    BY <1>7 DEF SettleInProcess, Return, Quiet, Live
  <1>8. ASSUME NEW d \in Clients, Send(d) PROVE Quiet(c)
    BY <1>8 DEF Send, Quiet, Submitting
  <1>9. ASSUME NEW d \in Clients, NEW r \in replies, Receive(d, r) PROVE Quiet(c)
    BY <1>9 DEF Receive, Return, Quiet, Live
  <1>10. ASSUME NEW d \in Clients, ConnectionFails(d) PROVE Quiet(c)
    BY <1>10 DEF ConnectionFails, Return, Quiet, Live
  <1>11. ASSUME NEW m \in wire, HandlePayment(m) \/ LoseRequest(m) PROVE Quiet(c)
    BY <1>11 DEF HandlePayment, LoseRequest, clientVars, Quiet
  <1>12. ASSUME NEW d \in Clients, Exit(d) \/ Crash(d) PROVE Quiet(c)
    BY <1>12 DEF Exit, Crash, Quiet, Live
  <1>13. ASSUME Anchor PROVE Quiet(c)
    BY <1>13 DEF Anchor, clientVars, Quiet
  <1>14. CASE UNCHANGED vars
    BY <1>14 DEF vars, Quiet
  <1>15. QED
    BY <1>1, <1>2, <1>3, <1>4, <1>5, <1>6, <1>7, <1>8, <1>9, <1>10, <1>11, <1>12, <1>13, <1>14
    DEF Next, Step

\* m is, or is what was released against, the payment of a Pay in progress.
Current(m) ==
    /\ m.client \in Clients /\ pc[m.client] \in Submitting
    /\ call[m.client].token = m.token /\ call[m.client].server = m.server
    /\ m.entry = Len(receipts[m.client])

\* r was released against m.
Against(r, m) ==
    r.client = m.client /\ r.token = m.token /\ r.server = m.server /\ r.entry = m.entry

\* A release names the message it was made for.
LEMMA ReleasedAgainst ==
    ASSUME NEW m, NEW r \in Released(m)
    PROVE  Against(r, m)
  BY DEF Released, Against

\* A client submits over HTTP and waits, or in process and is paid or not.
LEMMA NetworkStep ==
    ASSUME TypeInv, [Next]_vars
    PROVE  /\ settled \subseteq settled'
           /\ \A m \in wire' : m \in wire \/ (Current(m) /\ pc'[m.client] = "awaiting")
           /\ \A r \in settled' :
                 \/ r \in settled
                 \/ /\ Current(r) /\ pc'[r.client] = "idle"
                    /\ outcome'[r.client].decision = "ALLOW" /\ ~outcome'[r.client].aborted
                 \/ \E m \in wire : Against(r, m)
  <1>. USE DEF TypeInv, TypeOK
  <1>1. ASSUME NEW c \in Clients, SettleInProcess(c)
        PROVE  /\ wire' = wire /\ settled \subseteq settled'
               /\ \A r \in settled' :
                     \/ r \in settled
                     \/ /\ Current(r) /\ pc'[r.client] = "idle"
                        /\ outcome'[r.client].decision = "ALLOW" /\ ~outcome'[r.client].aborted
    <2>1. wire' = wire /\ settled' = settled \cup Released(Payment(c, 1)) /\ pc[c] \in Submitting
      BY <1>1 DEF SettleInProcess, Submitting
    <2>2. pc'[c] = "idle" /\ outcome'[c].decision = "ALLOW" /\ ~outcome'[c].aborted
      BY <1>1 DEF SettleInProcess, Return
    <2>3. ASSUME NEW r \in Released(Payment(c, 1)) PROVE r.client = c /\ Current(r)
      BY <2>1, <2>3, ReleasedAgainst DEF Against, Payment, Current
    <2>4. QED
      BY <2>1, <2>2, <2>3
  <1>2. ASSUME NEW c \in Clients, Send(c)
        PROVE  /\ settled' = settled
               /\ \A m \in wire' : m \in wire \/ (Current(m) /\ pc'[m.client] = "awaiting")
    BY <1>2 DEF Send, Payment, Current, Submitting
  <1>3. ASSUME NEW m \in wire, HandlePayment(m)
        PROVE  /\ wire' \subseteq wire /\ settled \subseteq settled'
               /\ \A r \in settled' : r \in settled \/ Against(r, m)
    <2>1. wire' = wire \ {m} /\ settled' = settled \cup Released(m)
      BY <1>3 DEF HandlePayment
    <2>2. QED
      BY <2>1, ReleasedAgainst
  <1>4. ASSUME NEW m \in wire, LoseRequest(m) PROVE wire' \subseteq wire /\ settled' = settled
    BY <1>4 DEF LoseRequest
  <1>5. ASSUME NEW c \in Clients,
               \/ (\E k \in Calls[c] : Start(c, k))
               \/ Required(c) \/ RequireFails(c) \/ Evaluate(c) \/ Record(c) \/ RecordFails(c) \/ Build(c)
               \/ (\E r \in replies : Receive(c, r)) \/ ConnectionFails(c)
               \/ Exit(c) \/ Crash(c)
        PROVE  wire' = wire /\ settled' = settled
    BY <1>5 DEF Start, Required, RequireFails, Evaluate, Record, RecordFails, Build, Receive,
                ConnectionFails, Exit, Crash
  <1>6. CASE Anchor \/ UNCHANGED vars
    BY <1>6 DEF Anchor, vars
  <1>7. QED
    BY <1>1, <1>2, <1>3, <1>4, <1>5, <1>6 DEF Next, Step

\* The receipt file and the anchored logs change only by an exit or an anchoring.
LEMMA FileStep ==
    ASSUME TypeInv, [Next]_vars
    PROVE  \A log \in anchored' \cup ({file'} \ {<<>>}) :
              \/ log \in anchored \cup ({file} \ {<<>>})
              \/ \E c \in Clients : pc[c] = "idle" /\ pc'[c] = "exited" /\ log = receipts[c]
  <1>1. ASSUME NEW c \in Clients, Exit(c)
        PROVE  /\ anchored' = anchored
               /\ file' = file \/ (pc[c] = "idle" /\ pc'[c] = "exited" /\ file' = receipts[c])
    BY <1>1 DEF Exit, TypeInv, TypeOK
  <1>2. ASSUME NEW c \in Clients,
               \/ (\E k \in Calls[c] : Start(c, k))
               \/ Step(c) \/ Crash(c)
        PROVE  file' = file /\ anchored' = anchored
    BY <1>2 DEF Start, Step, Required, RequireFails, Evaluate, Record, RecordFails, Build,
                SettleInProcess, Send, Receive, ConnectionFails, Crash
  <1>3. ASSUME NEW m \in wire, HandlePayment(m) \/ LoseRequest(m)
        PROVE  file' = file /\ anchored' = anchored
    BY <1>3 DEF HandlePayment, LoseRequest
  <1>4. CASE Anchor \/ UNCHANGED vars
    BY <1>4 DEF Anchor, vars
  <1>5. QED
    BY <1>1, <1>2, <1>3, <1>4 DEF Next

-----------------------------------------------------------------------------
(* Evidence.  EvidenceBeforeRelease is not inductive: it needs to know what *)
(* a client holds before it submits, what a request in flight was sent      *)
(* with, and that the gate allows no token that is already in the log.      *)

\* What the log of receipts says of client c and its Pay.
ClientEvidence(c) ==
    /\ \A i \in DOMAIN receipts[c] :
          receipts[c][i].decision = "ALLOW" => receipts[c][i].token \in spent[c]
    /\ pc[c] = "evaluated" /\ verdict[c] = "ALLOW" =>
          call[c].token \in spent[c] /\ ~Evidenced(receipts[c], call[c].token)
    /\ pc[c] \in Submitting =>
          Accounts(receipts[c], Len(receipts[c]), call[c].token, call[c].server)

RequestsEvidenced ==
    \A m \in wire : Accounts(receipts[m.client], m.entry, m.token, m.server)

\* Receipts are filed by a program as it ends.
FiledByExited ==
    \A log \in anchored \cup ({file} \ {<<>>}) :
        \E c \in Clients : pc[c] = "exited" /\ log = receipts[c]

EvidenceInv ==
    /\ TypeInv
    /\ \A c \in Clients : ClientEvidence(c)
    /\ RequestsEvidenced
    /\ FiledByExited
    /\ EvidenceBeforeRelease
    /\ OneAllowPerToken

\* Appending an entry leaves the others where they are.
LEMMA AppendFacts ==
    ASSUME NEW log \in Seq(Receipt), NEW e \in Receipt
    PROVE  /\ Len(Append(log, e)) = Len(log) + 1
           /\ DOMAIN Append(log, e) = DOMAIN log \cup {Len(log) + 1}
           /\ \A i \in DOMAIN log : Append(log, e)[i] = log[i]
           /\ Append(log, e)[Len(log) + 1] = e
  OBVIOUS

\* Evidence stays.
LEMMA EvidenceKept ==
    ASSUME TypeInv, [Next]_vars, NEW c \in Clients, NEW n, NEW t, NEW s,
           Accounts(receipts[c], n, t, s)
    PROVE  Accounts(receipts'[c], n, t, s)
  <1>1. receipts[c] \in Seq(Receipt)
    BY DEF TypeInv, TypeOK
  <1>2. CASE receipts'[c] = receipts[c]
    BY <1>2
  <1>3. CASE Records(c)
    BY <1>1, <1>3, AppendFacts DEF Records, Accounts
  <1>4. QED
    BY <1>2, <1>3, ClientStep DEF Quiet, Starts, Decides

\* At the start nothing is evidenced and nothing sent.
LEMMA EvidenceInit == Init => EvidenceInv
  <1> SUFFICES ASSUME Init PROVE EvidenceInv
    OBVIOUS
  <1>1. TypeInv
    BY TypeInit
  <1>2. ASSUME NEW c \in Clients PROVE ClientEvidence(c)
    BY DEF Init, ClientEvidence, Submitting
  <1>3. RequestsEvidenced /\ FiledByExited /\ EvidenceBeforeRelease /\ OneAllowPerToken
    BY DEF Init, RequestsEvidenced, FiledByExited, EvidenceBeforeRelease, OneAllowPerToken
  <1>4. QED
    BY <1>1, <1>2, <1>3 DEF EvidenceInv

\* What is known of one client's evidence survives every step.
LEMMA ClientEvidenceStep ==
    ASSUME EvidenceInv, [Next]_vars, NEW c \in Clients
    PROVE  ClientEvidence(c)'
  <1>1. /\ TypeInv /\ ClientEvidence(c)
        /\ receipts[c] \in Seq(Receipt)
    BY DEF EvidenceInv, TypeInv, TypeOK
  <1>2. CASE Quiet(c)
    BY <1>1, <1>2 DEF Quiet, ClientEvidence, Submitting, Live
  <1>3. CASE Starts(c)
    BY <1>1, <1>3 DEF Starts, ClientEvidence, Submitting
  <1>4. CASE Decides(c)
    <2>1. call[c].token \notin spent[c] => ~Evidenced(receipts[c], call[c].token)
      BY <1>1 DEF ClientEvidence, Evidenced
    <2>2. QED
      BY <1>1, <1>4, <2>1 DEF Decides, ClientEvidence, Submitting
  <1>5. CASE Records(c)
    <2>1. /\ Len(receipts'[c]) = Len(receipts[c]) + 1
          /\ DOMAIN receipts'[c] = DOMAIN receipts[c] \cup {Len(receipts[c]) + 1}
          /\ \A i \in DOMAIN receipts[c] : receipts'[c][i] = receipts[c][i]
          /\ receipts'[c][Len(receipts[c]) + 1] = Entry(c)
      BY <1>1, <1>5, AppendFacts DEF Records
    <2>2. Entry(c).decision = "ALLOW" => Entry(c).token \in spent[c]
      BY <1>1, <1>5 DEF Entry, Records, ClientEvidence
    <2>3. pc'[c] \in Submitting =>
             Accounts(receipts'[c], Len(receipts'[c]), call'[c].token, call'[c].server)
      BY <1>5, <2>1 DEF Records, Entry, Submitting, Accounts
    <2>4. QED
      BY <1>1, <1>5, <2>1, <2>2, <2>3 DEF Records, ClientEvidence
  <1>6. QED
    BY <1>1, <1>2, <1>3, <1>4, <1>5, ClientStep

\* The second ALLOW for a token would have to be recorded by a Pay the gate
\* allowed, and the gate allowed none for a token in the log.
LEMMA OneAllowStep ==
    ASSUME EvidenceInv, [Next]_vars
    PROVE  OneAllowPerToken'
  <1> SUFFICES ASSUME NEW c \in Clients
               PROVE  \A i, j \in DOMAIN receipts'[c] :
                         /\ receipts'[c][i].decision = "ALLOW"
                         /\ receipts'[c][j].decision = "ALLOW"
                         /\ receipts'[c][i].token = receipts'[c][j].token
                         => i = j
    BY DEF OneAllowPerToken
  <1>1. /\ TypeInv /\ ClientEvidence(c) /\ OneAllowPerToken
        /\ receipts[c] \in Seq(Receipt)
    BY DEF EvidenceInv, TypeInv, TypeOK
  <1>2. CASE receipts'[c] = receipts[c]
    BY <1>1, <1>2 DEF OneAllowPerToken
  <1>3. CASE Records(c)
    <2>1. /\ DOMAIN receipts'[c] = DOMAIN receipts[c] \cup {Len(receipts[c]) + 1}
          /\ \A i \in DOMAIN receipts[c] : receipts'[c][i] = receipts[c][i]
          /\ receipts'[c][Len(receipts[c]) + 1] = Entry(c)
      BY <1>1, <1>3, AppendFacts DEF Records
    <2>2. \A i \in DOMAIN receipts[c] :
             /\ receipts[c][i].decision = "ALLOW"
             /\ Entry(c).decision = "ALLOW"
             => receipts[c][i].token # Entry(c).token
      BY <1>1, <1>3 DEF Records, ClientEvidence, Evidenced, Entry
    <2>3. QED
      BY <1>1, <2>1, <2>2 DEF OneAllowPerToken
  <1>4. QED
    BY <1>1, <1>2, <1>3, ClientStep DEF Quiet, Starts, Decides

\* Every step keeps the evidence invariant.
LEMMA EvidenceStep == EvidenceInv /\ [Next]_vars => EvidenceInv'
  <1> SUFFICES ASSUME EvidenceInv, [Next]_vars PROVE EvidenceInv'
    OBVIOUS
  <1>1. TypeInv /\ TypeInv'
    BY TypeStep DEF EvidenceInv
  <1>2. \A c \in Clients : ClientEvidence(c)'
    BY ClientEvidenceStep
  <1>3. ASSUME NEW m, Current(m) PROVE Accounts(receipts'[m.client], m.entry, m.token, m.server)
    <2>1. Accounts(receipts[m.client], m.entry, m.token, m.server)
      BY <1>3 DEF Current, EvidenceInv, ClientEvidence
    <2>2. QED
      BY <1>1, <1>3, <2>1, EvidenceKept DEF Current
  <1>4. ASSUME NEW m \in wire PROVE Accounts(receipts'[m.client], m.entry, m.token, m.server)
    <2>1. m.client \in Clients
      BY <1>1 DEF TypeInv, TypeOK, Message
    <2>2. Accounts(receipts[m.client], m.entry, m.token, m.server)
      BY DEF EvidenceInv, RequestsEvidenced
    <2>3. QED
      BY <1>1, <2>1, <2>2, EvidenceKept
  <1>5. ASSUME NEW r \in settled PROVE Accounts(receipts'[r.client], r.entry, r.token, r.server)
    <2>1. r.client \in Clients
      BY <1>1 DEF TypeInv, TypeOK, Release
    <2>2. Accounts(receipts[r.client], r.entry, r.token, r.server)
      BY DEF EvidenceInv, EvidenceBeforeRelease
    <2>3. QED
      BY <1>1, <2>1, <2>2, EvidenceKept
  <1>6. RequestsEvidenced'
    BY <1>1, <1>3, <1>4, NetworkStep DEF RequestsEvidenced
  <1>7. EvidenceBeforeRelease'
    BY <1>1, <1>3, <1>4, <1>5, NetworkStep DEF EvidenceBeforeRelease, Against
  <1>8. FiledByExited'
    <2>1. ASSUME NEW c \in Clients, pc[c] = "exited"
          PROVE  pc'[c] = "exited" /\ receipts'[c] = receipts[c]
      BY <1>1, <2>1, ClientStep DEF Quiet, Starts, Decides, Records, Live, Submitting
    <2>2. ASSUME NEW c \in Clients, pc[c] = "idle", pc'[c] = "exited"
          PROVE  receipts'[c] = receipts[c]
      BY <1>1, <2>2, ClientStep DEF Quiet, Starts, Decides, Records
    <2>3. \A log \in anchored \cup ({file} \ {<<>>}) :
             \E c \in Clients : pc'[c] = "exited" /\ log = receipts'[c]
      BY <2>1 DEF EvidenceInv, FiledByExited
    <2>4. ASSUME NEW log \in anchored' \cup ({file'} \ {<<>>})
          PROVE  \E c \in Clients : pc'[c] = "exited" /\ log = receipts'[c]
      BY <1>1, <2>2, <2>3, <2>4, FileStep
    <2>5. QED
      BY <2>4 DEF FiledByExited
  <1>9. QED
    BY <1>1, <1>2, <1>6, <1>7, <1>8, OneAllowStep DEF EvidenceInv

\* Evidence is a precondition, not a byproduct (demo/demo.go:224): no step, no
\* loss, resend or crash releases content without the paying client's ALLOW
\* in its log, for any number of clients, tokens and endpoints.
THEOREM EvidenceBeforeReleaseAlways == Spec => []EvidenceBeforeRelease
  <1>1. Spec => []EvidenceInv
    BY EvidenceInit, EvidenceStep, PTL DEF Spec
  <1>2. EvidenceInv => EvidenceBeforeRelease
    BY DEF EvidenceInv
  <1>3. QED
    BY <1>1, <1>2, PTL

\* Single use for the life of a client (docs/SPEC-X402.md:140).
THEOREM OneAllowPerTokenAlways == Spec => []OneAllowPerToken
  <1>1. Spec => []EvidenceInv
    BY EvidenceInit, EvidenceStep, PTL DEF Spec
  <1>2. EvidenceInv => OneAllowPerToken
    BY DEF EvidenceInv
  <1>3. QED
    BY <1>1, <1>2, PTL

\* What cmd/anchordevnet anchors (cmd/anchordevnet/main.go:65) is the whole
\* log of a program that ended, and accounts for all it ever obtains.
THEOREM AnchorAccountsAlways == Spec => []AnchorAccountsForReleases
  <1>1. Spec => []EvidenceInv
    BY EvidenceInit, EvidenceStep, PTL DEF Spec
  <1>2. EvidenceInv => AnchorAccountsForReleases
    BY DEF EvidenceInv, FiledByExited, EvidenceBeforeRelease, AnchorAccountsForReleases
  <1>3. QED
    BY <1>1, <1>2, PTL

\* A spent nonce stays spent and a receipt stays where it was appended.
THEOREM LogsOnlyGrowAlways == Spec => LogsOnlyGrow
  <1> DEFINE Grows(c) == /\ spent[c] \subseteq spent'[c]
                         /\ SubSeq(receipts'[c], 1, Len(receipts[c])) = receipts[c]
  <1>1. TypeInv /\ [Next]_vars => [\A c \in Clients : Grows(c)]_vars
    <2> SUFFICES ASSUME TypeInv, [Next]_vars, NEW c \in Clients PROVE Grows(c)
      OBVIOUS
    <2>1. receipts[c] \in Seq(Receipt)
      BY DEF TypeInv, TypeOK
    <2>2. spent[c] \subseteq spent'[c]
      BY ClientStep DEF Quiet, Starts, Decides, Records
    <2>3. \/ receipts'[c] = receipts[c]
          \/ \E e \in Receipt : receipts'[c] = Append(receipts[c], e)
      BY ClientStep DEF Quiet, Starts, Decides, Records
    <2>4. QED
      BY <2>1, <2>2, <2>3
  <1>2. Spec => []TypeInv
    BY TypeInit, TypeStep, PTL DEF Spec
  <1>3. QED
    BY <1>1, <1>2, PTL DEF Spec, LogsOnlyGrow

-----------------------------------------------------------------------------
(* Transfers.  What a message carries is a transfer the gate's policy, the  *)
(* price and the guard have all passed: it is determined by the endpoint.   *)

TransferBuilt(req) ==
    BuildTransferChecked(TokenProgram, Source, Asset, Merchant, Payer, req.amount)

\* The transaction an endpoint is sent, and what is paid when it settles.
Order(s) == <<TransferBuilt(Demand[s])>>

PaidTo(s) == Decoded(TransferBuilt(Demand[s]))

\* The gate allowed nothing beyond the scope; the guard let no recipient but
\* the merchant pass.
ClientVetted(c) ==
    /\ pc[c] \in {"evaluated"} \cup Submitting /\ verdict[c] = "ALLOW" =>
          Verify(Demand[call[c].server])
    /\ pc[c] \in Submitting => verdict[c] = "ALLOW"
    /\ pc[c] \in {"signed", "awaiting"} =>
          Built(Demand[call[c].server], call[c].tamper) = Order(call[c].server)

Vetted(s) == Verify(Demand[s]) /\ ParsesUint(Demand[s])

MessagesVetted == \A m \in wire : Vetted(m.server) /\ m.ixs = Order(m.server)

ReleasesVetted ==
    \A r \in settled :
        /\ Vetted(r.server)
        /\ r.transfer = PaidTo(r.server)
        /\ r.transfer.destination = Demand[r.server].payTo
        /\ r.transfer.mint = Demand[r.server].asset

VettedInv ==
    /\ EvidenceInv
    /\ \A c \in Clients : ClientVetted(c)
    /\ MessagesVetted
    /\ ReleasesVetted

\* In a transaction of one transfer the guard finds that one.
LEMMA OnlyTransferFound ==
    ASSUME NEW to, NEW amount, NEW t,
           t \in FindTransfer(<<BuildTransferChecked(TokenProgram, Source, Asset, to, Payer, amount)>>)
    PROVE  t = [source |-> Source, mint |-> Asset, destination |-> to,
                authority |-> Payer, amount |-> amount]
  BY DEF FindTransfer, Decoded, BuildTransferChecked

\* The guard compares the recipient, so a tampered transfer passes only if it
\* is the untampered one.
LEMMA GuardFixesTheOrder ==
    ASSUME NEW s \in Servers, NEW tamper \in BOOLEAN,
           AssertTransactionPays(Built(Demand[s], tamper), BoundTo(Demand[s]))
    PROVE  Built(Demand[s], tamper) = Order(s)
  <1>1. PICK t \in FindTransfer(Built(Demand[s], tamper)) : t.destination = Merchant
    BY DEF AssertTransactionPays, AssertMatches, BoundTo
  <1>2. (IF tamper THEN Attacker ELSE Merchant) = Merchant
    BY <1>1, OnlyTransferFound DEF Built
  <1>3. QED
    BY <1>2 DEF Built, Order, TransferBuilt

\* A vetted message releases only the transfer of its demand.
LEMMA OrderReleases ==
    ASSUME NEW m, m.ixs = Order(m.server), Vetted(m.server), NEW r \in Released(m)
    PROVE  /\ Vetted(r.server)
           /\ r.transfer = PaidTo(r.server)
           /\ r.transfer.destination = Demand[r.server].payTo
           /\ r.transfer.mint = Demand[r.server].asset
  <1>1. PICK t \in Settles(m) : r.transfer = t /\ r.server = m.server
    BY DEF Released
  <1>2. /\ t \in FindTransfer(Order(m.server))
        /\ t.destination = Demand[m.server].payTo /\ t.mint = Demand[m.server].asset
    BY <1>1 DEF Settles
  <1>3. t = PaidTo(m.server)
    BY <1>2, OnlyTransferFound DEF Order, TransferBuilt, PaidTo, Decoded, BuildTransferChecked
  <1>4. QED
    BY <1>1, <1>2, <1>3

\* What is known of one client's verdict and transaction survives every step.
LEMMA ClientVettedStep ==
    ASSUME VettedInv, [Next]_vars, NEW c \in Clients
    PROVE  ClientVetted(c)'
  <1>. USE DEF VettedInv, EvidenceInv, TypeInv, TypeOK
  <1>1. CASE \E k \in Calls[c] : Start(c, k)
    BY <1>1 DEF Start, ClientVetted, Submitting
  <1>2. CASE Evaluate(c)
    <2>1. pc'[c] = "evaluated" /\ call' = call
      BY <1>2 DEF Evaluate
    <2>2. verdict'[c] = "ALLOW" => Verify(Demand[call[c].server])
      BY <1>2, Zenon DEF Evaluate, Allowed, Classes
    <2>3. QED
      BY <2>1, <2>2 DEF ClientVetted, Submitting
  <1>3. CASE Record(c)
    <2>1. pc[c] = "evaluated" /\ call' = call /\ verdict' = verdict
      BY <1>3 DEF Record
    <2>2. pc'[c] = "idle" \/ (pc'[c] = "allowed" /\ verdict[c] = "ALLOW")
      BY <1>3 DEF Record, Return
    <2>3. QED
      BY <2>1, <2>2 DEF ClientVetted, Submitting
  <1>4. CASE Build(c)
    <2>1. pc[c] = "allowed" /\ call' = call /\ verdict' = verdict
      BY <1>4 DEF Build
    <2>2. call[c].server \in Servers /\ call[c].tamper \in BOOLEAN
      BY <2>1 DEF Live, Call
    <2>3. CASE AssertTransactionPays(Built(Demand[call[c].server], call[c].tamper),
                                     BoundTo(Demand[call[c].server]))
      <3>1. pc'[c] = "signed"
        BY <1>4, <2>3 DEF Build
      <3>2. QED
        BY <2>1, <2>2, <2>3, <3>1, GuardFixesTheOrder DEF ClientVetted, Submitting
    <2>4. CASE ~AssertTransactionPays(Built(Demand[call[c].server], call[c].tamper),
                                      BoundTo(Demand[call[c].server]))
      <3>1. pc'[c] = "idle"
        BY <1>4, <2>4 DEF Build, Return
      <3>2. QED
        BY <3>1 DEF ClientVetted, Submitting
    <2>5. QED
      BY <2>3, <2>4
  <1>5. CASE Send(c)
    BY <1>5 DEF Send, ClientVetted, Submitting
  <1>6. CASE /\ call'[c] = call[c] /\ verdict'[c] = verdict[c]
             /\ pc'[c] = pc[c] \/ pc'[c] \in {"idle", "required", "exited", "crashed"}
    BY <1>6 DEF ClientVetted, Submitting
  <1>7. ASSUME NEW d \in Clients, Step(d) \/ Exit(d) \/ Crash(d),
               ~Evaluate(c), ~Record(c), ~Build(c), ~Send(c)
        PROVE  ClientVetted(c)'
    <2>1. CASE d = c
      BY <1>6, <1>7, <2>1
      DEF Step, Required, RequireFails, RecordFails, SettleInProcess, Receive, ConnectionFails, Exit, Crash,
          Return
    <2>2. CASE d # c
      <3>1. CASE Record(d)
        BY <1>6, <2>2, <3>1 DEF Record, Return
      <3>2. CASE Build(d)
        BY <1>6, <2>2, <3>2 DEF Build, Return
      <3>3. CASE Evaluate(d)
        BY <1>6, <2>2, <3>3, GateSpends DEF Evaluate
      <3>4. QED
        BY <1>6, <1>7, <2>2, <3>1, <3>2, <3>3
        DEF Step, Required, RequireFails, RecordFails, SettleInProcess, Send, Receive, ConnectionFails,
            Exit, Crash, Return
    <2>3. QED
      BY <2>1, <2>2
  <1>8. ASSUME NEW d \in Clients, NEW k \in Calls[d], Start(d, k)
        PROVE  ClientVetted(c)'
    BY <1>1, <1>6, <1>8 DEF Start
  <1>9. CASE \/ \E m \in wire : HandlePayment(m) \/ LoseRequest(m)
             \/ Anchor
             \/ UNCHANGED vars
    BY <1>6, <1>9 DEF HandlePayment, LoseRequest, Anchor, clientVars, vars
  <1>10. QED
    BY <1>2, <1>3, <1>4, <1>5, <1>7, <1>8, <1>9 DEF Next

\* Every step keeps what is on the wire and what is released vetted.
LEMMA VettedStep == VettedInv /\ [Next]_vars => VettedInv'
  <1> SUFFICES ASSUME VettedInv, [Next]_vars PROVE VettedInv'
    OBVIOUS
  <1>1. EvidenceInv' /\ TypeInv
    BY EvidenceStep DEF VettedInv, EvidenceInv
  <1>2. \A c \in Clients : ClientVetted(c)'
    BY ClientVettedStep
  <1>3. ASSUME NEW c \in Clients, pc[c] \in {"signed", "awaiting"}, NEW n
        PROVE  Vetted(Payment(c, n).server) /\ Payment(c, n).ixs = Order(Payment(c, n).server)
    BY <1>1, <1>3
    DEF VettedInv, ClientVetted, TypeInv, Priced, Submitting, Vetted, Payment
  <1>4. ASSUME NEW c \in Clients, SettleInProcess(c) PROVE MessagesVetted' /\ ReleasesVetted'
    <2>1. /\ wire' = wire /\ settled' = settled \cup Released(Payment(c, 1))
          /\ pc[c] = "signed"
      BY <1>4 DEF SettleInProcess
    <2>2. QED
      BY <1>3, <2>1, OrderReleases DEF VettedInv, MessagesVetted, ReleasesVetted
  <1>5. ASSUME NEW c \in Clients, Send(c) PROVE MessagesVetted' /\ ReleasesVetted'
    <2>1. /\ wire' = wire \cup {Payment(c, copies[c] + 1)} /\ settled' = settled
          /\ pc[c] \in {"signed", "awaiting"}
      BY <1>5 DEF Send
    <2>2. QED
      BY <1>3, <2>1 DEF VettedInv, MessagesVetted, ReleasesVetted
  <1>6. ASSUME NEW m \in wire, HandlePayment(m) PROVE MessagesVetted' /\ ReleasesVetted'
    <2>1. wire' = wire \ {m} /\ settled' = settled \cup Released(m)
      BY <1>6 DEF HandlePayment
    <2>2. QED
      BY <2>1, OrderReleases DEF VettedInv, MessagesVetted, ReleasesVetted
  <1>7. ASSUME wire' \subseteq wire, settled' = settled PROVE MessagesVetted' /\ ReleasesVetted'
    BY <1>7 DEF VettedInv, MessagesVetted, ReleasesVetted
  <1>8. MessagesVetted' /\ ReleasesVetted'
    BY <1>4, <1>5, <1>6, <1>7
    DEF Next, Step, Start, Required, RequireFails, Evaluate, Record, RecordFails, Build, Receive,
        ConnectionFails, LoseRequest, Exit, Crash, Anchor, vars
  <1>9. QED
    BY <1>1, <1>2, <1>8 DEF VettedInv

\* The vetting invariant holds in every reachable state.
LEMMA VettedAlways == Spec => []VettedInv
  <1>1. Init => VettedInv
    BY EvidenceInit
    DEF Init, VettedInv, ClientVetted, Submitting, MessagesVetted, ReleasesVetted
  <1>2. QED
    BY <1>1, VettedStep, PTL DEF Spec

\* Whatever a server releases content for moved at most the ceiling, of the
\* scope's asset, to a payee of the scope, by the payer (demo/demo.go:83).
THEOREM ReleaseWithinScopeAlways == Spec => []ReleaseWithinScope
  <1>1. VettedInv => ReleaseWithinScope
    <2> SUFFICES ASSUME VettedInv, NEW r \in settled
                 PROVE  /\ r.transfer.amount <= Ceiling
                        /\ r.transfer.mint = Asset
                        /\ r.transfer.destination \in Payees
                        /\ r.transfer.authority = Payer
      BY DEF ReleaseWithinScope
    <2>1. /\ Vetted(r.server) /\ r.transfer = PaidTo(r.server)
          /\ r.transfer.destination = Demand[r.server].payTo
      BY DEF VettedInv, ReleasesVetted
    <2>2. /\ r.transfer.amount = Demand[r.server].amount
          /\ r.transfer.mint = Asset /\ r.transfer.authority = Payer
      BY <2>1 DEF PaidTo, TransferBuilt, Decoded, BuildTransferChecked
    <2>3. Demand[r.server].amount <= Ceiling /\ Demand[r.server].payTo \in Payees
      BY <2>1, PayerAssumption, GuardAssumption DEF Vetted, Verify, ParsesUint, Magnitude
    <2>4. QED
      BY <2>1, <2>2, <2>3
  <1>2. QED
    BY <1>1, VettedAlways, PTL

\* One authorization, one Pay, one transfer, however often the transport
\* resends the request: two releases for a token have the same evidence, so
\* the same endpoint, which determines the transfer (demo/demo.go:219).
THEOREM OneReleasePerAuthorizationAlways == Spec => []OneReleasePerAuthorization
  <1>1. VettedInv => OneReleasePerAuthorization
    <2> SUFFICES ASSUME VettedInv, NEW r1 \in settled, NEW r2 \in settled,
                        r1.client = r2.client, r1.token = r2.token
                 PROVE  r2 = [r1 EXCEPT !.copy = r2.copy]
      BY DEF OneReleasePerAuthorization
    <2>1. r1 \in Release /\ r2 \in Release
      BY DEF VettedInv, EvidenceInv, TypeInv, TypeOK
    <2>2. /\ Accounts(receipts[r1.client], r1.entry, r1.token, r1.server)
          /\ Accounts(receipts[r1.client], r2.entry, r1.token, r2.server)
      BY DEF VettedInv, EvidenceInv, EvidenceBeforeRelease
    <2>3. r1.entry = r2.entry
      BY <2>1, <2>2 DEF VettedInv, EvidenceInv, OneAllowPerToken, Accounts, Release
    <2>4. r1.server = r2.server
      BY <2>2, <2>3 DEF Accounts
    <2>5. r1.transfer = r2.transfer
      BY <2>4 DEF VettedInv, ReleasesVetted
    <2>6. QED
      BY <2>1, <2>3, <2>4, <2>5 DEF Release
  <1>2. QED
    BY <1>1, VettedAlways, PTL

-----------------------------------------------------------------------------
(* Answers.  What Pay reports is true of the servers: a 200 it reads was    *)
(* sent for this Pay, a Pay that is refused has submitted nothing, and one  *)
(* that is refused after the gate allowed it holds the only ALLOW for its   *)
(* token, so nothing was ever sent with it.                                 *)

\* A server released content for the current, or last, Pay of c.
PaidFor(c) ==
    \E r \in settled : /\ r.client = c
                       /\ r.token = call[c].token
                       /\ r.server = call[c].server
                       /\ r.entry = Len(receipts[c])

\* Nothing was ever released or is in flight with the token of that Pay.
NothingSent(c) ==
    /\ \A r \in settled : ~(r.client = c /\ r.token = call[c].token)
    /\ \A m \in wire : ~(m.client = c /\ m.token = call[c].token)

\* Pay has not come to its submission.
Early == {"asking", "required", "evaluated", "allowed", "signed"}

ClientAnswers(c) ==
    /\ verdict[c] \in {"ALLOW", "DENY_VIOLATION"}
    /\ pc[c] \in Early => copies[c] = 0
    /\ pc[c] \in {"allowed", "signed"} => NothingSent(c)
    /\ \A r \in replies : r.client = c =>
          pc[c] = "awaiting" /\ (r.status = 200 => PaidFor(c))
    /\ pc[c] = "idle" /\ outcome[c].paid => PaidFor(c)
    /\ pc[c] = "idle" /\ Refused(c) =>
          copies[c] = 0 /\ (verdict[c] = "ALLOW" => NothingSent(c))

AnswersInv ==
    /\ EvidenceInv
    /\ \A c \in Clients : ClientAnswers(c)

\* What Pay returns, by the step that returns it.
Returns(c) ==
    /\ call'[c] = call[c] /\ verdict'[c] = verdict[c]
    /\ \/ outcome'[c].decision = "" /\ ~outcome'[c].paid /\ ~outcome'[c].aborted
       \/ /\ pc[c] \in {"evaluated", "allowed"} /\ copies'[c] = copies[c]
          /\ ~outcome'[c].paid /\ Refused(c)'
       \/ /\ pc[c] = "signed" /\ receipts'[c] = receipts[c]
          /\ outcome'[c].decision = "ALLOW" /\ ~outcome'[c].aborted
          /\ outcome'[c].paid => Released(Payment(c, 1)) # {}
          /\ Released(Payment(c, 1)) \subseteq settled'
       \/ /\ pc[c] = "awaiting" /\ receipts'[c] = receipts[c]
          /\ outcome'[c].decision = "ALLOW" /\ ~outcome'[c].aborted
          /\ outcome'[c].paid => \E r \in replies : r.client = c /\ r.status = 200

\* The client is between two calls.
Rests(c) ==
    /\ pc[c] = "idle" /\ outcome'[c] = outcome[c]
    /\ call'[c] = call[c] /\ receipts'[c] = receipts[c]
    /\ verdict'[c] = verdict[c] /\ copies'[c] = copies[c]

\* A client that is idle after a step rests, or returns by that step.
LEMMA ReturnStep ==
    ASSUME AnswersInv, [Next]_vars, NEW c \in Clients, pc'[c] = "idle"
    PROVE  Rests(c) \/ Returns(c)
  <1>. USE DEF AnswersInv, EvidenceInv, TypeInv, TypeOK
  <1>1. CASE RequireFails(c)
    BY <1>1 DEF RequireFails, Return, Returns
  <1>2. CASE Record(c)
    <2>1. pc[c] = "evaluated" /\ Return(c, "DENY_VIOLATION", FALSE, FALSE) /\ UNCHANGED <<call, verdict, copies>>
      BY <1>2 DEF Record
    <2>2. QED
      BY <2>1 DEF Return, Returns, Refused
  <1>3. CASE RecordFails(c)
    BY <1>3 DEF RecordFails, Return, Returns, Refused, ClientAnswers
  <1>4. CASE Build(c)
    <2>1. pc[c] = "allowed" /\ UNCHANGED <<call, verdict, copies>> /\ Return(c, "ALLOW", FALSE, TRUE)
      BY <1>4 DEF Build
    <2>2. QED
      BY <2>1 DEF Return, Returns, Refused
  <1>5. CASE SettleInProcess(c)
    BY <1>5 DEF SettleInProcess, Return, Returns
  <1>6. ASSUME NEW r \in replies, Receive(c, r) PROVE Returns(c)
    BY <1>6 DEF Receive, Return, Returns
  <1>7. CASE ConnectionFails(c)
    BY <1>7 DEF ConnectionFails, Return, Returns
  <1>8. CASE Required(c) \/ Evaluate(c) \/ Send(c) \/ Exit(c) \/ Crash(c)
    BY <1>8 DEF Required, Evaluate, Send, Exit, Crash
  <1>9. ASSUME NEW d \in Clients, Step(d), d # c PROVE Rests(c)
    <2>1. CASE Record(d)
      BY <1>9, <2>1 DEF Record, Return, Rests
    <2>2. CASE Build(d)
      BY <1>9, <2>2 DEF Build, Return, Rests
    <2>3. QED
      BY <1>9, <2>1, <2>2
      DEF Step, Required, RequireFails, Evaluate, RecordFails, SettleInProcess, Send, Receive,
          ConnectionFails, Return, Rests
  <1>10. ASSUME NEW d \in Clients, Exit(d) \/ Crash(d), d # c PROVE Rests(c)
    BY <1>10 DEF Exit, Crash, Rests
  <1>11. ASSUME NEW d \in Clients, NEW k \in Calls[d], Start(d, k)
         PROVE  Rests(c)
    BY <1>11 DEF Start, Rests
  <1>12. CASE \/ \E m \in wire : HandlePayment(m) \/ LoseRequest(m)
              \/ Anchor
              \/ UNCHANGED vars
    BY <1>12 DEF HandlePayment, LoseRequest, Anchor, clientVars, vars, Rests
  <1>13. QED
    BY <1>1, <1>2, <1>3, <1>4, <1>5, <1>6, <1>7, <1>8, <1>9, <1>10, <1>11, <1>12
    DEF Next, Step

\* Between the gate's ALLOW and the submission nothing was sent: what was sent
\* is evidenced, and the gate allows no token with an ALLOW in the log.
LEMMA UnsentBeforeSubmission ==
    ASSUME AnswersInv, NEW c \in Clients,
           pc[c] \in {"allowed", "signed"} \/ (pc[c] = "evaluated" /\ verdict[c] = "ALLOW")
    PROVE  NothingSent(c)
  <1>1. CASE pc[c] \in {"allowed", "signed"}
    BY <1>1 DEF AnswersInv, ClientAnswers
  <1>2. CASE pc[c] = "evaluated" /\ verdict[c] = "ALLOW"
    <2>1. ~Evidenced(receipts[c], call[c].token)
      BY <1>2 DEF AnswersInv, EvidenceInv, ClientEvidence
    <2>2. ASSUME NEW n, NEW s PROVE ~Accounts(receipts[c], n, call[c].token, s)
      BY <2>1 DEF Accounts, Evidenced
    <2>3. ASSUME NEW r \in settled, r.client = c, r.token = call[c].token PROVE FALSE
      BY <2>2, <2>3 DEF AnswersInv, EvidenceInv, EvidenceBeforeRelease
    <2>4. ASSUME NEW m \in wire, m.client = c, m.token = call[c].token PROVE FALSE
      BY <2>2, <2>4 DEF AnswersInv, EvidenceInv, RequestsEvidenced
    <2>5. QED
      BY <2>3, <2>4 DEF NothingSent
  <1>3. QED
    BY <1>1, <1>2

\* Only a submission sends.
LEMMA NothingSentKept ==
    ASSUME TypeInv, [Next]_vars, NEW c \in Clients, NothingSent(c), call'[c] = call[c],
           pc'[c] # "awaiting",
           pc'[c] = "idle" => outcome'[c].aborted \/ outcome'[c].decision # "ALLOW"
    PROVE  NothingSent(c)'
  <1>1. ASSUME NEW m \in wire', m.client = c, m.token = call[c].token PROVE FALSE
    <2>1. m \in wire
      BY <1>1, NetworkStep
    <2>2. QED
      BY <1>1, <2>1 DEF NothingSent
  <1>2. ASSUME NEW r \in settled', r.client = c, r.token = call[c].token PROVE FALSE
    <2>1. r \in settled \/ \E m \in wire : Against(r, m)
      BY <1>2, NetworkStep
    <2>2. QED
      BY <1>2, <2>1 DEF NothingSent, Against
  <1>3. QED
    BY <1>1, <1>2 DEF NothingSent

\* The price parsed or the guard passed: Pay goes on.
LEMMA ReadyStep ==
    ASSUME TypeInv, [Next]_vars, NEW c \in Clients, pc'[c] \in {"allowed", "signed"}
    PROVE  /\ call'[c] = call[c]
           /\ \/ pc[c] \in {"allowed", "signed"}
              \/ pc[c] = "evaluated" /\ verdict[c] = "ALLOW"
  <1>1. pc[c] # "awaiting"
    <2>. SUFFICES ASSUME pc[c] = "awaiting" PROVE FALSE
      OBVIOUS
    <2>. USE DEF TypeInv, TypeOK
    <2>1. ASSUME NEW d \in Clients, Step(d) PROVE FALSE
      <3>1. CASE Record(d)
        BY <3>1 DEF Record, Return
      <3>2. CASE Build(d)
        BY <3>2 DEF Build, Return
      <3>3. QED
        BY <2>1, <3>1, <3>2
        DEF Step, Required, RequireFails, Evaluate, RecordFails, SettleInProcess, Send, Receive,
            ConnectionFails, Return
    <2>2. ASSUME NEW d \in Clients, NEW k \in Calls[d], Start(d, k)
          PROVE  FALSE
      BY <2>2 DEF Start
    <2>3. ASSUME NEW d \in Clients, Exit(d) \/ Crash(d) PROVE FALSE
      BY <2>3 DEF Exit, Crash
    <2>4. ASSUME pc' = pc PROVE FALSE
      BY <2>4
    <2>5. QED
      BY <2>1, <2>2, <2>3, <2>4
      DEF Next, HandlePayment, LoseRequest, Anchor, clientVars, vars
  <1>2. QED
    BY <1>1, ClientStep DEF Quiet, Starts, Decides, Records, Submitting

\* A Pay begins with no submission, and only its submission counts one.
LEMMA EarlyStep ==
    ASSUME TypeInv, [Next]_vars, NEW c \in Clients,
           pc[c] \in Early => copies[c] = 0, pc'[c] \in Early
    PROVE  copies'[c] = 0
  <1>. USE DEF TypeInv, TypeOK, Early
  <1>1. ASSUME NEW d \in Clients, NEW k \in Calls[d], Start(d, k) PROVE copies'[c] = 0
    BY <1>1 DEF Start
  <1>2. ASSUME NEW d \in Clients, Step(d) PROVE copies'[c] = 0
    <2>1. CASE Record(d)
      BY <2>1 DEF Record, Return
    <2>2. CASE Build(d)
      BY <2>2 DEF Build, Return
    <2>3. CASE Required(d) \/ Evaluate(d)
      BY <2>3 DEF Required, Evaluate
    <2>4. CASE Send(d)
      BY <2>4 DEF Send
    <2>5. CASE \/ RequireFails(d) \/ RecordFails(d) \/ SettleInProcess(d)
               \/ ConnectionFails(d) \/ \E r \in replies : Receive(d, r)
      <3>1. /\ pc' = [pc EXCEPT ![d] = "idle"]
            /\ copies' = copies \/ copies' = [copies EXCEPT ![d] = 1]
        BY <2>5, Zenon
        DEF RequireFails, RecordFails, SettleInProcess, Receive, ConnectionFails, Return
      <3>2. pc'[c] = pc[c] /\ copies'[c] = copies[c]
        BY <3>1
      <3>3. QED
        BY <3>2
    <2>6. QED
      BY <1>2, <2>1, <2>2, <2>3, <2>4, <2>5 DEF Step
  <1>3. ASSUME NEW d \in Clients, Exit(d) \/ Crash(d) PROVE copies'[c] = 0
    BY <1>3 DEF Exit, Crash
  <1>4. ASSUME pc' = pc, copies' = copies PROVE copies'[c] = 0
    BY <1>4
  <1>5. QED
    BY <1>1, <1>2, <1>3, <1>4
    DEF Next, HandlePayment, LoseRequest, Anchor, clientVars, vars

\* A client has one of the two verdicts of the gate.
LEMMA VerdictStep ==
    ASSUME TypeInv, [Next]_vars, NEW c \in Clients, verdict[c] \in {"ALLOW", "DENY_VIOLATION"}
    PROVE  verdict'[c] \in {"ALLOW", "DENY_VIOLATION"}
  <1>. USE DEF TypeInv, TypeOK
  <1>1. ASSUME NEW d \in Clients, Evaluate(d) PROVE verdict'[c] \in {"ALLOW", "DENY_VIOLATION"}
    BY <1>1, GateSpends
  <1>2. QED
    BY <1>1
    DEF Next, Step, Start, Required, RequireFails, Record, RecordFails, Build, SettleInProcess, Send,
        Receive, ConnectionFails, HandlePayment, LoseRequest, Exit, Crash, Anchor, clientVars, vars

\* A response exists only while its client waits for it, and a 200 is sent by
\* the step that released content for this Pay.
LEMMA ReplyStep ==
    ASSUME AnswersInv, [Next]_vars, NEW c \in Clients, NEW r \in replies', r.client = c
    PROVE  /\ pc'[c] = "awaiting"
           /\ r.status = 200 => PaidFor(c)'
  <1>. USE DEF AnswersInv, EvidenceInv, TypeInv, TypeOK
  <1>1. settled \subseteq settled'
    BY NetworkStep
  <1>2. ASSUME pc'[c] = pc[c], call'[c] = call[c], receipts'[c] = receipts[c], r \in replies
        PROVE  pc'[c] = "awaiting" /\ (r.status = 200 => PaidFor(c)')
    BY <1>1, <1>2 DEF ClientAnswers, PaidFor
  <1>3. ASSUME NEW m \in wire, HandlePayment(m), r \notin replies
        PROVE  pc'[c] = "awaiting" /\ (r.status = 200 => PaidFor(c)')
    <2>1. /\ Expected(m) /\ m.client = c
          /\ r.status = 200 => Released(m) # {}
          /\ UNCHANGED clientVars /\ settled' = settled \cup Released(m)
      BY <1>3 DEF HandlePayment, Status
    <2>2. pc[c] = "awaiting" /\ m.entry = Len(receipts[c])
      BY <2>1 DEF Expected
    <2>3. m.token = call[c].token /\ m.server = call[c].server
      <3>1. Accounts(receipts[c], m.entry, m.token, m.server)
        BY <2>1 DEF RequestsEvidenced
      <3>2. Accounts(receipts[c], m.entry, call[c].token, call[c].server)
        BY <2>2 DEF ClientEvidence, Submitting
      <3>3. QED
        BY <3>1, <3>2 DEF Accounts
    <2>4. ASSUME r.status = 200 PROVE PaidFor(c)'
      <3>1. PICK q \in Released(m) : TRUE
        BY <2>1, <2>4
      <3>2. q \in settled' /\ Against(q, m)
        BY <2>1, <3>1, ReleasedAgainst
      <3>3. QED
        BY <2>1, <2>2, <2>3, <3>2 DEF Against, PaidFor, clientVars
    <2>5. QED
      BY <2>1, <2>2, <2>4 DEF clientVars
  <1>4. ASSUME NEW d \in Clients, Step(d)
        PROVE  pc'[c] = "awaiting" /\ (r.status = 200 => PaidFor(c)')
    <2>1. r \in replies
      BY <1>4
      DEF Step, Required, RequireFails, Evaluate, Record, RecordFails, Build, SettleInProcess, Send, Receive,
          ConnectionFails, Unanswered
    <2>2. pc[c] = "awaiting"
      BY <2>1 DEF ClientAnswers
    <2>3. d # c
      BY <1>4, <2>2
      DEF Step, Required, RequireFails, Evaluate, Record, RecordFails, Build, SettleInProcess, Send, Receive,
          ConnectionFails, Unanswered
    <2>4. pc'[c] = pc[c] /\ call'[c] = call[c] /\ receipts'[c] = receipts[c]
      <3>1. CASE Record(d)
        BY <2>3, <3>1 DEF Record, Return
      <3>2. CASE Build(d)
        BY <2>3, <3>2 DEF Build, Return
      <3>3. QED
        BY <1>4, <2>3, <3>1, <3>2
        DEF Step, Required, RequireFails, Evaluate, RecordFails, SettleInProcess, Send, Receive,
            ConnectionFails, Return
    <2>5. QED
      BY <1>2, <2>1, <2>4
  <1>5. ASSUME NEW d \in Clients, Exit(d) \/ Crash(d)
        PROVE  pc'[c] = "awaiting" /\ (r.status = 200 => PaidFor(c)')
    <2>1. r \in replies /\ pc[c] = "awaiting"
      BY <1>5 DEF Exit, Crash, Unanswered, ClientAnswers
    <2>2. d # c
      BY <1>5, <2>1 DEF Exit, Crash, Unanswered
    <2>3. QED
      BY <1>2, <1>5, <2>1, <2>2 DEF Exit, Crash
  <1>6. ASSUME NEW d \in Clients, NEW k \in Calls[d], Start(d, k)
        PROVE  pc'[c] = "awaiting" /\ (r.status = 200 => PaidFor(c)')
    <2>1. r \in replies /\ pc[c] = "awaiting"
      BY <1>6 DEF Start, ClientAnswers
    <2>2. QED
      BY <1>2, <1>6, <2>1 DEF Start
  <1>7. ASSUME UNCHANGED clientVars, r \in replies
        PROVE  pc'[c] = "awaiting" /\ (r.status = 200 => PaidFor(c)')
    BY <1>2, <1>7 DEF clientVars
  <1>8. CASE \/ \E m \in wire : HandlePayment(m) \/ LoseRequest(m)
             \/ Anchor
             \/ UNCHANGED vars
    <2>1. UNCHANGED clientVars
      BY <1>8 DEF HandlePayment, LoseRequest, Anchor, clientVars, vars
    <2>2. CASE r \notin replies
      BY <1>3, <1>8, <2>2 DEF LoseRequest, Anchor, vars
    <2>3. QED
      BY <1>7, <2>1, <2>2
  <1>9. QED
    BY <1>4, <1>5, <1>6, <1>8 DEF Next

\* What is known of one client's answers survives every step.
LEMMA ClientAnswersStep ==
    ASSUME AnswersInv, [Next]_vars, NEW c \in Clients
    PROVE  ClientAnswers(c)'
  <1>1. TypeInv /\ ClientAnswers(c) /\ settled \subseteq settled'
    BY NetworkStep DEF AnswersInv, EvidenceInv
  <1>2. verdict'[c] \in {"ALLOW", "DENY_VIOLATION"}
    BY <1>1, VerdictStep DEF ClientAnswers
  <1>3. ASSUME pc'[c] \in {"allowed", "signed"} PROVE NothingSent(c)'
    BY <1>1, <1>3, ReadyStep, UnsentBeforeSubmission, NothingSentKept
  <1>4. ASSUME pc'[c] = "idle", outcome'[c].paid PROVE PaidFor(c)'
    <2>1. ASSUME PaidFor(c), call'[c] = call[c], receipts'[c] = receipts[c] PROVE PaidFor(c)'
      BY <1>1, <2>1 DEF PaidFor
    <2>2. CASE Rests(c)
      BY <1>1, <1>4, <2>1, <2>2 DEF ClientAnswers, Rests
    <2>3. CASE /\ pc[c] = "signed" /\ call'[c] = call[c] /\ receipts'[c] = receipts[c]
               /\ Released(Payment(c, 1)) # {} /\ Released(Payment(c, 1)) \subseteq settled'
      <3>1. PICK q \in Released(Payment(c, 1)) : TRUE
        BY <2>3
      <3>2. q \in settled' /\ Against(q, Payment(c, 1))
        BY <2>3, <3>1, ReleasedAgainst
      <3>3. QED
        BY <2>3, <3>2 DEF Against, Payment, PaidFor
    <2>4. CASE /\ call'[c] = call[c] /\ receipts'[c] = receipts[c]
               /\ \E r \in replies : r.client = c /\ r.status = 200
      BY <1>1, <2>1, <2>4 DEF ClientAnswers
    <2>5. QED
      BY <1>4, <2>2, <2>3, <2>4, ReturnStep DEF Returns
  <1>5. ASSUME pc'[c] = "idle", Refused(c)'
        PROVE  copies'[c] = 0 /\ (verdict'[c] = "ALLOW" => NothingSent(c)')
    <2>1. outcome'[c].aborted \/ outcome'[c].decision # "ALLOW"
      BY <1>5 DEF Refused
    <2>2. CASE Rests(c)
      <3>1. Refused(c) /\ pc[c] = "idle" /\ verdict'[c] = verdict[c] /\ copies'[c] = copies[c]
        BY <1>5, <2>2 DEF Rests, Refused
      <3>2. copies[c] = 0 /\ (verdict[c] = "ALLOW" => NothingSent(c))
        BY <1>1, <3>1 DEF ClientAnswers
      <3>3. QED
        BY <1>1, <1>5, <2>1, <2>2, <3>1, <3>2, NothingSentKept DEF Rests
    <2>3. CASE Returns(c)
      <3>1. /\ call'[c] = call[c] /\ verdict'[c] = verdict[c]
            /\ pc[c] \in {"evaluated", "allowed"} /\ copies'[c] = copies[c]
        BY <1>5, <2>3 DEF Returns, Refused
      <3>2. copies[c] = 0
        BY <1>1, <3>1 DEF ClientAnswers, Early
      <3>3. verdict[c] = "ALLOW" => NothingSent(c)
        BY <3>1, UnsentBeforeSubmission
      <3>4. QED
        BY <1>1, <1>5, <2>1, <3>1, <3>2, <3>3, NothingSentKept
    <2>4. QED
      BY <1>5, <2>2, <2>3, ReturnStep
  <1>6. ASSUME pc'[c] \in Early PROVE copies'[c] = 0
    BY <1>1, <1>6, EarlyStep DEF ClientAnswers
  <1>7. QED
    BY <1>2, <1>3, <1>4, <1>5, <1>6, ReplyStep DEF ClientAnswers

\* The invariant about answers holds in every reachable state.
LEMMA AnswersAlways == Spec => []AnswersInv
  <1>1. Init => AnswersInv
    <2>1. ASSUME Init, NEW c \in Clients PROVE ClientAnswers(c)
      <3>1. /\ pc[c] = "idle" /\ verdict[c] = "DENY_VIOLATION" /\ replies = {}
            /\ outcome[c] = NoOutcome
        BY <2>1 DEF Init
      <3>2. ~NoOutcome.paid /\ ~NoOutcome.aborted /\ NoOutcome.decision = ""
        BY DEF NoOutcome
      <3>3. ~outcome[c].paid /\ ~Refused(c)
        BY <3>1, <3>2 DEF Refused
      <3>4. copies[c] = 0
        BY <2>1 DEF Init
      <3>5. QED
        BY <3>1, <3>3, <3>4 DEF ClientAnswers
    <2>2. QED
      BY <2>1, EvidenceInit DEF AnswersInv
  <1>2. AnswersInv /\ [Next]_vars => AnswersInv'
    BY EvidenceStep, ClientAnswersStep DEF AnswersInv
  <1>3. QED
    BY <1>1, <1>2, PTL DEF Spec

\* Pay reports Paid (demo/demo.go:279, demo/x402http.go:300) only of content
\* released for this very Pay, whatever was resent or answered late.
THEOREM PaidMeansReleasedAlways == Spec => []PaidMeansReleased
  <1>1. AnswersInv => PaidMeansReleased
    BY DEF AnswersInv, ClientAnswers, PaidFor, PaidMeansReleased
  <1>2. QED
    BY <1>1, AnswersAlways, PTL

\* "A DENY never triggers a payment" (docs/SPEC-X402.md:158): a Pay that the
\* gate, the guard, a missing receipt or an unreadable price refused submitted
\* nothing, and if the gate had allowed it nothing was ever sent with its token.
THEOREM RefusedMeansNothingSentAlways == Spec => []RefusedMeansNothingSent
  <1>1. AnswersInv => RefusedMeansNothingSent
    BY DEF AnswersInv, ClientAnswers, Refused, NothingSent, RefusedMeansNothingSent
  <1>2. QED
    BY <1>1, AnswersAlways, PTL

-----------------------------------------------------------------------------
(* Refinement.  A step spends, evidences or releases one authorization, the *)
(* next stage it has not reached, or none.                                  *)

ReleasedFor(a) == \E r \in settled : r.client = a[1] /\ r.token = a[2]

EvidencedFor(a) == Evidenced(receipts[a[1]], a[2])

SpentFor(a) == a[2] \in spent[a[1]]

Same(a) ==
    /\ ReleasedFor(a)' <=> ReleasedFor(a)
    /\ EvidencedFor(a)' <=> EvidencedFor(a)
    /\ SpentFor(a)' <=> SpentFor(a)

Moves(a) ==
    \/ /\ ~SpentFor(a) /\ ~EvidencedFor(a) /\ ~ReleasedFor(a)
       /\ SpentFor(a)' /\ ~EvidencedFor(a)' /\ ~ReleasedFor(a)'
    \/ /\ SpentFor(a) /\ ~EvidencedFor(a) /\ ~ReleasedFor(a)
       /\ EvidencedFor(a)' /\ ~ReleasedFor(a)'
    \/ /\ EvidencedFor(a) /\ ~ReleasedFor(a) /\ ReleasedFor(a)'
    \/ Same(a)

\* A release was evidenced, and what is evidenced was spent.
LEMMA StagesInOrder ==
    ASSUME EvidenceInv, NEW a \in Clients \X Tokens
    PROVE  /\ ReleasedFor(a) => EvidencedFor(a)
           /\ EvidencedFor(a) => SpentFor(a)
  <1>1. ASSUME NEW r \in settled, r.client = a[1], r.token = a[2] PROVE EvidencedFor(a)
    <2>1. Accounts(receipts[a[1]], r.entry, a[2], r.server)
      BY <1>1 DEF EvidenceInv, EvidenceBeforeRelease
    <2>2. QED
      BY <2>1 DEF Accounts, EvidencedFor, Evidenced
  <1>2. a[1] \in Clients
    OBVIOUS
  <1>3. EvidencedFor(a) => SpentFor(a)
    BY <1>2 DEF EvidenceInv, ClientEvidence, EvidencedFor, Evidenced, SpentFor
  <1>4. QED
    BY <1>1, <1>3 DEF ReleasedFor

\* The step moves no authorization but the one of client c and token t.
OnlyMoves(c, t) ==
    \A a \in Clients \X Tokens : IF a = <<c, t>> THEN Moves(a) ELSE Same(a)

\* Content is released against evidence.
LEMMA ReleaseMoves ==
    ASSUME EvidenceInv, NEW m, m.client \in Clients, m.token \in Tokens,
           Accounts(receipts[m.client], m.entry, m.token, m.server),
           settled' = settled \cup Released(m), UNCHANGED <<spent, receipts>>
    PROVE  OnlyMoves(m.client, m.token)
  <1>1. ASSUME NEW a \in Clients \X Tokens, a # <<m.client, m.token>> PROVE Same(a)
    <2>1. ASSUME NEW r \in Released(m) PROVE ~(r.client = a[1] /\ r.token = a[2])
      BY <1>1, <2>1, ReleasedAgainst DEF Against
    <2>2. QED
      BY <2>1 DEF Same, ReleasedFor, EvidencedFor, SpentFor
  <1>2. ASSUME NEW a \in Clients \X Tokens, a = <<m.client, m.token>> PROVE Moves(a)
    <2>1. EvidencedFor(a)
      BY <1>2 DEF EvidencedFor, Evidenced, Accounts
    <2>2. ReleasedFor(a) => ReleasedFor(a)'
      BY DEF ReleasedFor
    <2>3. QED
      BY <2>1, <2>2 DEF Moves, Same, EvidencedFor, SpentFor
  <1>3. QED
    BY <1>1, <1>2 DEF OnlyMoves

\* Spending a nonce moves its authorization and no other.
LEMMA EvaluateMoves ==
    ASSUME EvidenceInv, NEW c \in Clients, Evaluate(c)
    PROVE  OnlyMoves(c, call[c].token)
  <1>1. UNCHANGED <<receipts, settled>> /\ pc[c] = "required"
    BY DEF Evaluate
  <1>2. spent \in [Clients -> SUBSET Tokens]
    BY DEF EvidenceInv, TypeInv, TypeOK
  <1>3. CASE spent' = spent
    BY <1>1, <1>3 DEF OnlyMoves, Moves, Same, ReleasedFor, EvidencedFor, SpentFor
  <1>4. CASE /\ call[c].token \notin spent[c]
             /\ spent' = [spent EXCEPT ![c] = @ \cup {call[c].token}]
    <2>1. ASSUME NEW a \in Clients \X Tokens, a # <<c, call[c].token>> PROVE Same(a)
      BY <1>1, <1>2, <1>4, <2>1 DEF Same, ReleasedFor, EvidencedFor, SpentFor
    <2>2. ASSUME NEW a \in Clients \X Tokens, a = <<c, call[c].token>> PROVE Moves(a)
      <3>1. ~SpentFor(a) /\ SpentFor(a)'
        BY <1>2, <1>4, <2>2 DEF SpentFor
      <3>2. QED
        BY <1>1, <3>1, StagesInOrder DEF Moves, ReleasedFor, EvidencedFor
    <2>3. QED
      BY <2>1, <2>2 DEF OnlyMoves
  <1>5. QED
    BY <1>3, <1>4, GateSpends

\* Recording an ALLOW moves its authorization and no other.
LEMMA RecordMoves ==
    ASSUME EvidenceInv, NEW c \in Clients, Record(c)
    PROVE  OnlyMoves(c, call[c].token)
  <1>1. /\ UNCHANGED <<spent, settled>> /\ pc[c] = "evaluated"
        /\ receipts' = [receipts EXCEPT ![c] = Append(@, Entry(c))]
    BY DEF Record
  <1>2. receipts \in [Clients -> Seq(Receipt)] /\ Entry(c) \in Receipt
    BY <1>1, CallFacts DEF EvidenceInv, TypeInv, TypeOK, Live, Entry, Receipt
  <1>3. /\ receipts[c] \in Seq(Receipt) /\ receipts'[c] = Append(receipts[c], Entry(c))
        /\ \A d \in Clients : d # c => receipts'[d] = receipts[d]
    BY <1>1, <1>2
  <1>4. ASSUME NEW t
        PROVE  Evidenced(receipts'[c], t) <=>
                  Evidenced(receipts[c], t) \/ (Entry(c).decision = "ALLOW" /\ Entry(c).token = t)
    <2> DEFINE log == receipts[c]
               longer == Append(log, Entry(c))
    <2>1. /\ DOMAIN longer = DOMAIN log \cup {Len(log) + 1}
          /\ \A i \in DOMAIN log : longer[i] = log[i]
          /\ longer[Len(log) + 1] = Entry(c)
      BY <1>2, <1>3, AppendFacts
    <2>2. Evidenced(longer, t) <=>
             Evidenced(log, t) \/ (Entry(c).decision = "ALLOW" /\ Entry(c).token = t)
      <3>. HIDE DEF longer, log
      <3>. QED
        BY <2>1 DEF Evidenced
    <2>3. QED
      BY <1>3, <2>2
  <1>5. ASSUME NEW a \in Clients \X Tokens, a # <<c, call[c].token>> PROVE Same(a)
    <2>1. CASE a[1] = c
      <3>1. a[2] # call[c].token
        BY <1>5, <2>1
      <3>2. EvidencedFor(a)' <=> EvidencedFor(a)
        BY <1>4, <2>1, <3>1 DEF EvidencedFor, Entry
      <3>3. QED
        BY <1>1, <3>2 DEF Same, ReleasedFor, SpentFor
    <2>2. CASE a[1] # c
      BY <1>1, <1>3, <2>2 DEF Same, ReleasedFor, SpentFor, EvidencedFor
    <2>3. QED
      BY <2>1, <2>2
  <1>6. ASSUME NEW a \in Clients \X Tokens, a = <<c, call[c].token>> PROVE Moves(a)
    <2>1. /\ EvidencedFor(a)' <=> EvidencedFor(a) \/ verdict[c] = "ALLOW"
          /\ ReleasedFor(a)' <=> ReleasedFor(a)
          /\ SpentFor(a)' <=> SpentFor(a)
      BY <1>1, <1>4, <1>6 DEF EvidencedFor, ReleasedFor, SpentFor, Entry
    <2>2. verdict[c] = "ALLOW" => SpentFor(a) /\ ~EvidencedFor(a)
      BY <1>1, <1>6 DEF EvidenceInv, ClientEvidence, SpentFor, EvidencedFor
    <2>3. ReleasedFor(a) => EvidencedFor(a)
      BY StagesInOrder
    <2>4. QED
      BY <2>1, <2>2, <2>3 DEF Moves, Same
  <1>7. QED
    BY <1>5, <1>6 DEF OnlyMoves

\* Every step moves one authorization at most.
LEMMA SomeMoves ==
    ASSUME EvidenceInv, [Next]_vars
    PROVE  \/ \A a \in Clients \X Tokens : Same(a)
           \/ \E c \in Clients, t \in Tokens : OnlyMoves(c, t)
  <1>1. ASSUME UNCHANGED <<spent, receipts, settled>>
        PROVE  \A a \in Clients \X Tokens : Same(a)
    BY <1>1 DEF Same, ReleasedFor, EvidencedFor, SpentFor
  <1>2. ASSUME NEW c \in Clients, Evaluate(c)
        PROVE  \E t \in Tokens : OnlyMoves(c, t)
    BY <1>2, EvaluateMoves, CallFacts DEF Evaluate, EvidenceInv, Live
  <1>3. ASSUME NEW c \in Clients, Record(c)
        PROVE  \E t \in Tokens : OnlyMoves(c, t)
    BY <1>3, RecordMoves, CallFacts DEF Record, EvidenceInv, Live
  <1>4. ASSUME NEW c \in Clients, SettleInProcess(c)
        PROVE  \E t \in Tokens : OnlyMoves(c, t)
    <2>1. /\ pc[c] = "signed" /\ settled' = settled \cup Released(Payment(c, 1))
          /\ UNCHANGED <<spent, receipts>>
      BY <1>4 DEF SettleInProcess
    <2>2. Accounts(receipts[c], Len(receipts[c]), call[c].token, call[c].server)
      BY <2>1 DEF EvidenceInv, ClientEvidence, Submitting
    <2>3. call[c].token \in Tokens
      BY <2>1, CallFacts DEF EvidenceInv, Live
    <2>4. QED
      BY <2>1, <2>2, <2>3, ReleaseMoves DEF Payment
  <1>5. ASSUME NEW m \in wire, HandlePayment(m)
        PROVE  \E c \in Clients, t \in Tokens : OnlyMoves(c, t)
    <2>1. m.client \in Clients /\ m.token \in Tokens
      BY DEF EvidenceInv, TypeInv, TypeOK, Message
    <2>2. settled' = settled \cup Released(m) /\ UNCHANGED <<spent, receipts>>
      BY <1>5 DEF HandlePayment, clientVars
    <2>3. Accounts(receipts[m.client], m.entry, m.token, m.server)
      BY DEF EvidenceInv, RequestsEvidenced
    <2>4. QED
      BY <2>1, <2>2, <2>3, ReleaseMoves
  <1>6. ASSUME NEW c \in Clients,
               \/ (\E k \in Calls[c] : Start(c, k))
               \/ Required(c) \/ RequireFails(c) \/ RecordFails(c) \/ Build(c) \/ Send(c)
               \/ (\E r \in replies : Receive(c, r)) \/ ConnectionFails(c)
               \/ Exit(c) \/ Crash(c)
        PROVE  UNCHANGED <<spent, receipts, settled>>
    BY <1>6 DEF Start, Required, RequireFails, RecordFails, Build, Send, Receive, ConnectionFails, Exit, Crash
  <1>7. CASE (\E m \in wire : LoseRequest(m)) \/ Anchor \/ UNCHANGED vars
    BY <1>1, <1>7 DEF LoseRequest, Anchor, clientVars, vars
  <1>8. QED
    BY <1>1, <1>2, <1>3, <1>4, <1>5, <1>6, <1>7 DEF Next, Step

\* Stage reads the three facts in turn.
LEMMA StageCases ==
    ASSUME NEW a \in Clients \X Tokens
    PROVE  /\ Stage(a) = IF ReleasedFor(a) THEN "released" ELSE IF EvidencedFor(a) THEN "evidenced"
                         ELSE IF SpentFor(a) THEN "spent" ELSE "fresh"
           /\ Stage(a)' = IF ReleasedFor(a)' THEN "released" ELSE IF EvidencedFor(a)' THEN "evidenced"
                          ELSE IF SpentFor(a)' THEN "spent" ELSE "fresh"
  BY DEF Stage, ReleasedFor, EvidencedFor, SpentFor

\* Every step is a step of the abstract lifecycle, or a stutter.
LEMMA StepsAdvance ==
    ASSUME EvidenceInv, [Next]_vars
    PROVE  [EvidencedPayments!Next]_StageOf
  <1>1. ASSUME NEW a \in Clients \X Tokens, Same(a) PROVE Stage(a)' = Stage(a)
    BY <1>1, StageCases DEF Same
  <1>2. ASSUME NEW a \in Clients \X Tokens, Moves(a)
        PROVE  \/ Stage(a)' = Stage(a)
               \/ Stage(a) = "fresh" /\ Stage(a)' = "spent"
               \/ Stage(a) = "spent" /\ Stage(a)' = "evidenced"
               \/ Stage(a) = "evidenced" /\ Stage(a)' = "released"
    BY <1>1, <1>2, StageCases DEF Moves
  <1>3. CASE \A a \in Clients \X Tokens : Same(a)
    BY <1>1, <1>3 DEF StageOf
  <1>4. ASSUME NEW c \in Clients, NEW t \in Tokens, OnlyMoves(c, t)
        PROVE  [EvidencedPayments!Next]_StageOf
    <2> DEFINE a0 == <<c, t>>
    <2>1. a0 \in Clients \X Tokens
      OBVIOUS
    <2>2. \A a \in Clients \X Tokens : a # a0 => Stage(a)' = Stage(a)
      BY <1>1, <1>4 DEF OnlyMoves
    <2>3. StageOf' = [StageOf EXCEPT ![a0] = Stage(a0)'] /\ StageOf[a0] = Stage(a0)
      BY <2>1, <2>2 DEF StageOf
    <2>4. Moves(a0)
      BY <1>4, <2>1 DEF OnlyMoves
    <2>5. CASE Stage(a0)' = Stage(a0)
      BY <2>1, <2>2, <2>5 DEF StageOf
    <2>6. CASE Stage(a0) = "fresh" /\ Stage(a0)' = "spent"
      BY <2>1, <2>3, <2>6
      DEF EvidencedPayments!Next, EvidencedPayments!Spend, EvidencedPayments!Advance
    <2>7. CASE Stage(a0) = "spent" /\ Stage(a0)' = "evidenced"
      BY <2>1, <2>3, <2>7
      DEF EvidencedPayments!Next, EvidencedPayments!Evidence, EvidencedPayments!Advance
    <2>8. CASE Stage(a0) = "evidenced" /\ Stage(a0)' = "released"
      BY <2>1, <2>3, <2>8
      DEF EvidencedPayments!Next, EvidencedPayments!Release, EvidencedPayments!Advance
    <2>9. QED
      BY <1>2, <2>1, <2>4, <2>5, <2>6, <2>7, <2>8
  <1>5. QED
    BY <1>3, <1>4, SomeMoves

\* The loop implements the lifecycle of an authorization (demo/demo.go:223-279):
\* nonce, evidence, release, in this order and never back, for any number of
\* clients and tokens, and whatever fails, crashes or is resent.
THEOREM LoopImplementsEvidencedPayment == Spec => ImplementsEvidencedPayment
  <1>1. Init => EvidencedPayments!Init
    BY DEF Init, EvidencedPayments!Init, StageOf, Stage, Evidenced
  <1>2. Spec => []EvidenceInv
    BY EvidenceInit, EvidenceStep, PTL DEF Spec
  <1>3. QED
    BY <1>1, <1>2, StepsAdvance, PTL
    DEF Spec, ImplementsEvidencedPayment, EvidencedPayments!Spec

=============================================================================
