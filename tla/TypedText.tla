----------------------------- MODULE TypedText -----------------------------
(***************************************************************************)
(* A text typed one character at a time, and what its readers make of it:  *)
(* microUSDC reads it as an amount and, without its dot, DecodePubkey reads*)
(* it as a key.                                                            *)
(***************************************************************************)
EXTENDS MicroUSDC, Base58

CONSTANTS
    MaxWhole,    \* bound on the characters before the dot
    MaxFraction  \* bound on those after it

VARIABLE amount

Blank == [whole |-> <<>>, dot |-> FALSE, fraction |-> <<>>]

TypeWhole(c) ==
    /\ ~amount.dot
    /\ Len(amount.whole) < MaxWhole
    /\ amount' = [amount EXCEPT !.whole = Append(@, c)]

TypeDot ==
    /\ ~amount.dot
    /\ amount' = [amount EXCEPT !.dot = TRUE]

TypeFraction(c) ==
    /\ amount.dot
    /\ Len(amount.fraction) < MaxFraction
    /\ amount' = [amount EXCEPT !.fraction = Append(@, c)]

Type ==
    \/ \E c \in Character : TypeWhole(c) \/ TypeFraction(c)
    \/ TypeDot

TextSpec == amount = Blank /\ [][Type]_amount

-----------------------------------------------------------------------------

\* The rational number written, whatever its size: its digits without the
\* dot, over Base^(places).
Digits(w) == Number(w.whole \o w.fraction)

Places(w) == Len(w.fraction)

\* microUSDC (cmd/mcp-gateway/main.go:293) returns the number written and
\* nothing else: it accepts exactly the well-written amounts whose value in
\* atomic units is positive and fits the width, and returns that value;
\* nothing is rounded, saturated or wrapped.
ParsesExactly ==
    Micro(amount) =
        {m \in 1..MaxUint :
            WellWritten(amount) /\ m * Exp(Base, Places(amount)) = Digits(amount) * Scale}

\* DecodePubkey (escrow/programs.go:74) on every text: the text of a key is
\* read as that key, and no accepted text stands for another number than its
\* key.
DecodesExactly == amount.dot \/ DecodesTo(amount.whole)

=============================================================================
