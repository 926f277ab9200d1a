----------------------------- MODULE Attestation -----------------------------
(***************************************************************************)
(* The attestation that releases an escrow (escrow/attest.go) and the      *)
(* Ed25519 instruction that carries it (escrow/ed25519ix.go): what the     *)
(* issuer encodes and what the mirror of the program's checks reads back.  *)
(*                                                                         *)
(* Times are signed integers of a fixed width, and a difference of two     *)
(* wraps as int64 does.  A message is what its parser looks at.  Bytes of  *)
(* an instruction are known by where they are: a Slice names the           *)
(* instruction they are in, the first one and how many.                    *)
(***************************************************************************)
EXTENDS Integers

CONSTANTS
    Half,              \* 2^63: times are -Half..(Half - 1)
    MaxTokenAgeSecs,   \* 120 in the code
    MaxClockSkewSecs,  \* 30
    AttestMsgLen,      \* 71
    HeaderLen, KeyLen, SigLen,  \* 16, 32 and 64
    MaxU16,            \* 2^16 - 1, also the index ixSelf
    Tags, Versions,    \* what other messages signed with the key may carry
    DomainTag, LayoutVersion,
    Bindings

Int64 == (-Half)..(Half - 1)

ASSUME AttestAssumption ==
    /\ Half \in Nat \ {0}
    /\ MaxTokenAgeSecs \in Nat /\ MaxClockSkewSecs \in Nat
    /\ MaxTokenAgeSecs + MaxClockSkewSecs < Half
    /\ {AttestMsgLen, HeaderLen, KeyLen, SigLen} \subseteq Nat
    /\ MaxU16 \in Nat /\ AttestMsgLen <= MaxU16 /\ HeaderLen + KeyLen + SigLen <= MaxU16
    /\ DomainTag \in Tags /\ LayoutVersion \in Versions

-----------------------------------------------------------------------------
(* The message.                                                            *)

\* What an int64 variable holds after a sum or difference.
AsInt64(n) == ((n + Half) % (2 * Half)) - Half

ToUint64(n) == n % (2 * Half)

\* Mutant of ToInt64: the upper half is not read as negative.
ToInt64Unsigned(n) == n

ToInt64(n) == IF n < Half THEN n ELSE n - 2 * Half

Marshal(binding, iat) ==
    [length |-> AttestMsgLen, tag |-> DomainTag, version |-> LayoutVersion,
     binding |-> binding, iat |-> ToUint64(iat)]

\* The attestation a message is, if it is one.
ParseAttestation(m) ==
    {a \in {[binding |-> m.binding, iat |-> ToInt64(m.iat)]} :
        m.length = AttestMsgLen /\ m.tag = DomainTag /\ m.version = LayoutVersion}

CheckFreshness(iat, now) ==
    LET age == AsInt64(now - iat) IN
    CASE age > MaxTokenAgeSecs     -> "expired"
      [] age < -MaxClockSkewSecs   -> "future"
      [] OTHER                     -> "fresh"

FreshnessDeadline(iat) == AsInt64(iat + MaxTokenAgeSecs)

-----------------------------------------------------------------------------
(* The instruction.                                                        *)

ixSelf == MaxU16

Slice(index, from, size) == [index |-> index, from |-> from, size |-> size]

\* The header's fields and the length of the whole.
Ed25519Instruction ==
    [len: 0..MaxU16, count: 0..2,
     keyOff: 0..MaxU16, keyIx: 0..MaxU16,
     msgOff: 0..MaxU16, msgSize: 0..MaxU16, msgIx: 0..MaxU16]

\* BuildEd25519Instruction for a message of this length, if it builds one.
BuildEd25519(msgLen) ==
    {[len |-> HeaderLen + KeyLen + SigLen + msgLen, count |-> 1,
      keyOff |-> HeaderLen, keyIx |-> ixSelf,
      msgOff |-> HeaderLen + KeyLen + SigLen, msgSize |-> n, msgIx |-> ixSelf] :
        n \in {msgLen} \cap 0..MaxU16}

\* Mutant of ParseEd25519: the message may be in another instruction.
ParseEd25519AnyIndex(d) ==
    {r \in {[key |-> Slice(ixSelf, d.keyOff, KeyLen), msg |-> Slice(ixSelf, d.msgOff, d.msgSize)]} :
        /\ d.len >= HeaderLen /\ d.count = 1
        /\ d.keyIx = ixSelf
        /\ d.keyOff + KeyLen <= d.len
        /\ d.msgSize = AttestMsgLen
        /\ d.msgOff + d.msgSize <= d.len}

\* The key and the message the parser extracts, if it accepts.
ParseEd25519(d) ==
    {r \in {[key |-> Slice(ixSelf, d.keyOff, KeyLen), msg |-> Slice(ixSelf, d.msgOff, d.msgSize)]} :
        /\ d.len >= HeaderLen /\ d.count = 1
        /\ d.keyIx = ixSelf /\ d.msgIx = ixSelf
        /\ d.keyOff + KeyLen <= d.len
        /\ d.msgSize = AttestMsgLen
        /\ d.msgOff + d.msgSize <= d.len}

\* What the runtime verified before the transaction ran: a key and a message
\* for each signature counted, wherever the header points.
Verified(d) ==
    {[key |-> Slice(d.keyIx, d.keyOff, KeyLen), msg |-> Slice(d.msgIx, d.msgOff, d.msgSize)] :
        n \in 1..d.count}

-----------------------------------------------------------------------------
(* A signed message on its way, while the validator's clock goes on.       *)

VARIABLES
    iat,      \* when the issuer signed
    message,  \* what it signed
    ix,       \* the instruction that carries a message
    now       \* the validator's clock

attestVars == <<iat, message, ix, now>>

\* The issuer's key also signs other messages (credentials of the identity
\* bridge): these have another tag, version or length.
Messages(i) ==
    {Marshal(b, i) : b \in Bindings} \cup
    [length: {AttestMsgLen, AttestMsgLen + 1}, tag: Tags, version: Versions,
     binding: Bindings, iat: {ToUint64(i)}]

AttestInit ==
    /\ iat \in Int64
    /\ message \in Messages(iat)
    /\ ix \in Ed25519Instruction
    /\ now \in Int64

Tick ==
    /\ now < Half - 1
    /\ now' = now + 1
    /\ UNCHANGED <<iat, message, ix>>

AttestSpec == AttestInit /\ [][Tick]_attestVars

-----------------------------------------------------------------------------

\* The clock is a release's distance away from both ends of its range; in the
\* code, anywhere but within two minutes of the year 292 billion.
ClockIsSane == now \in (MaxTokenAgeSecs - Half)..(Half - 1 - MaxClockSkewSecs)

\* CheckFreshness (escrow/attest.go:122) accepts what it was given exactly if
\* the message is an attestation issued within MaxTokenAgeSecs before and
\* MaxClockSkewSecs after now, as integers and for every issue time an int64
\* holds, although the age is a difference that wraps; and FreshnessDeadline
\* (line 136) is the last time at which it is not expired.
FreshnessIsExact ==
    ClockIsSane =>
        /\ \A a \in ParseAttestation(message) :
              /\ a = [binding |-> message.binding, iat |-> iat]
              /\ CheckFreshness(a.iat, now) = "fresh"
                    <=> now - iat \in (-MaxClockSkewSecs)..MaxTokenAgeSecs
        /\ iat + MaxTokenAgeSecs < Half =>
              /\ CheckFreshness(iat, now) = "fresh" => now <= FreshnessDeadline(iat)
              /\ now \in iat..FreshnessDeadline(iat) => CheckFreshness(iat, now) = "fresh"

\* ParseEd25519Instruction (escrow/ed25519ix.go:97) returns the very key and
\* message the runtime verified, all of it inside the instruction it parses,
\* whatever the header says, and it reads back what
\* BuildEd25519Instruction made of an attestation (the driver's self-check,
\* cmd/escrowdevnet/main.go:667) and of no other message.
ParserReadsWhatWasVerified ==
    /\ \A r \in ParseEd25519(ix) :
          /\ Verified(ix) = {r}
          /\ r.key.from + r.key.size <= ix.len /\ r.msg.from + r.msg.size <= ix.len
    /\ \A n \in 0..(MaxU16 + 1) : \A d \in BuildEd25519(n) :
          ParseEd25519(d) = {r \in Verified(d) : n = AttestMsgLen}

=============================================================================
