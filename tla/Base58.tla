------------------------------- MODULE Base58 -------------------------------
(***************************************************************************)
(* DecodePubkey (escrow/programs.go): a base58 text becomes the bytes of a *)
(* key.  A symbol is the number its character stands for, or NoSymbol.     *)
(***************************************************************************)
EXTENDS Integers, Sequences, Numeral

CONSTANTS
    Radix,      \* 58 in the code
    ByteRadix,  \* 256
    KeyBytes    \* 32

ASSUME Base58Assumption ==
    /\ Radix \in Nat \ {0, 1} /\ ByteRadix \in Nat \ {0, 1} /\ KeyBytes \in Nat

NoSymbol == Radix

Symbol == 0..(Radix - 1)

Text == Seq(Symbol \cup {NoSymbol})

Key == [1..KeyBytes -> 0..(ByteRadix - 1)]

\* How many of a sequence's first members are zero: the character '1'.
Leading(s) ==
    CHOOSE n \in 0..Len(s) :
        (\A i \in 1..n : s[i] = 0) /\ (n < Len(s) => s[n + 1] # 0)

\* big.Int.Bytes drops leading zero bytes.
ByteLength(n) ==
    CHOOSE l \in 0..n :
        n < Exp(ByteRadix, l) /\ \A k \in 0..(l - 1) : n >= Exp(ByteRadix, k)

\* Mutant of RightAligned: the bytes are copied to the front of the key.
LeftAligned(n) ==
    [i \in 1..KeyBytes |->
        IF i <= ByteLength(n) THEN (n \div Exp(ByteRadix, ByteLength(n) - i)) % ByteRadix ELSE 0]

RightAligned(n) == [i \in 1..KeyBytes |-> (n \div Exp(ByteRadix, KeyBytes - i)) % ByteRadix]

\* The key a text decodes to, or none if it is refused.
DecodePubkey(text) ==
    LET n == ValueOf(text, Radix) IN
    {key \in {RightAligned(n)} :
        /\ \A i \in DOMAIN text : text[i] \in Symbol
        /\ ByteLength(n) <= KeyBytes
        /\ Leading(text) <= KeyBytes - ByteLength(n)}

-----------------------------------------------------------------------------

\* The text an encoder writes for a key: one zero symbol for each leading zero
\* byte, and then the number's digits.
Encodes(text, key) ==
    /\ \A i \in DOMAIN text : text[i] \in Symbol
    /\ Leading(text) = Leading(key)
    /\ ValueOf(text, Radix) = ValueOf(key, ByteRadix)

\* DecodePubkey (escrow/programs.go:74) inverts the encoder (gate.EncodeBase58,
\* cmd/escrowdevnet/main.go:501): the text of a key decodes to that key and
\* is never refused, and a text that is accepted stands for the number its key
\* is, so no overflow or misplaced byte yields another account.  A text of too
\* few symbols is accepted too, as the key that begins with zeros.
DecodesTo(text) ==
    /\ \A key \in Key : Encodes(text, key) => DecodePubkey(text) = {key}
    /\ \A key \in DecodePubkey(text) :
          /\ key \in Key
          /\ ValueOf(key, ByteRadix) = ValueOf(text, Radix)
          /\ Leading(text) <= Leading(key)

=============================================================================
