----------------------------- MODULE MCEncodings -----------------------------
(***************************************************************************)
(* The guard's scan, the encodings of the escrow package and the gateway's *)
(* amounts, each on its own: one of them runs over all its inputs while    *)
(* the others rest.                                                        *)
(*                                                                         *)
(* A transaction is scanned as in MCSettleScan, a text is typed and read   *)
(* as in TypedText.  FromGate runs on every hash with the demands of       *)
(* LinkDemands.  Attestations are checked at every time, instructions with *)
(* every header.                                                           *)
(***************************************************************************)
EXTENDS EscrowLink, Attestation, TypedText, MCSettleScan

CONSTANT MaxLen  \* bound on the length and offsets of instructions

encodings == <<scanVars, linkVars, attestVars, amount>>

AllHashes == [0..MaxBump -> Address]

SomeAmounts == {-1, 0, 1, 3, 4}

OneHash == [b \in 0..MaxBump |-> [y |-> 2, sign |-> 0]]

\* For every hash, the account of the first and of the last bump is claimed;
\* for one hash, every combination of amounts and keys.
LinkDemands(h) ==
    [asset: {"mint"}, payTo: {h[0], h[MaxBump]}, amount: {1}]
    \cup (IF h = OneHash
          THEN [asset: {"mint", Garbage}, payTo: {h[MaxBump], Garbage}, amount: Amounts \cup {Garbage}]
          ELSE {})

LinkRests ==
    /\ hash = OneHash /\ bump = MaxBump /\ result = "found"
    /\ demand = [asset |-> "mint", payTo |-> OneHash[MaxBump], amount |-> 1]
    /\ outcome = "params"

Built == CHOOSE d \in BuildEd25519(AttestMsgLen) : TRUE

AttestRests ==
    /\ iat = 0 /\ message = Marshal(CHOOSE b \in Bindings : TRUE, 0)
    /\ ix = Built /\ now = Half - 1

ScanRests == ixs = <<>> /\ next = 1 /\ found = {} /\ count = 0 /\ answer = "refused"

\* Nothing more can be typed.
Full == [whole |-> <<>>, dot |-> TRUE, fraction |-> [i \in 1..MaxFraction |-> 0]]

Headers ==
    [len: 0..MaxLen, count: 0..2, keyOff: 0..MaxLen, keyIx: {0, ixSelf},
     msgOff: 0..MaxLen, msgSize: {0, AttestMsgLen, AttestMsgLen + 1}, msgIx: {0, ixSelf}]

MCInit ==
    \/ ScanInit /\ LinkRests /\ AttestRests /\ amount = Full
    \/ /\ hash \in AllHashes /\ bump = MaxBump /\ result = "searching"
       /\ demand \in LinkDemands(hash) /\ outcome = "called"
       /\ ScanRests /\ AttestRests /\ amount = Full
    \/ /\ iat \in Int64 /\ now = -Half /\ message \in Messages(iat) /\ ix = Built
       /\ ScanRests /\ LinkRests /\ amount = Full
    \/ /\ iat = 0 /\ now = Half - 1 /\ message = Marshal(CHOOSE b \in Bindings : TRUE, 0) /\ ix \in Headers
       /\ ScanRests /\ LinkRests /\ amount = Full
    \/ amount = Blank /\ ScanRests /\ LinkRests /\ AttestRests

MCNext ==
    \/ ScanNext /\ UNCHANGED <<linkVars, attestVars, amount>>
    \/ LinkNext /\ UNCHANGED <<scanVars, attestVars, amount>>
    \/ Tick /\ UNCHANGED <<scanVars, linkVars, amount>>
    \/ Type /\ UNCHANGED <<scanVars, linkVars, attestVars>>

MCSpec == MCInit /\ [][MCNext]_encodings

=============================================================================
