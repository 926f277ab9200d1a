----------------------------- MODULE MicroUSDC -----------------------------
(***************************************************************************)
(* The MCP gateway's reading of a written USDC amount (microUSDC): a       *)
(* decimal number with at most Decimals places becomes an integer number   *)
(* of atomic units of a fixed width, or is refused.                        *)
(*                                                                         *)
(* A written amount is cut at its first dot.  A character is a digit, the  *)
(* number it stands for, or NonDigit: a sign, an exponent, a space, a      *)
(* second dot.  Arithmetic wraps at the width MaxUint has, as uint64 does. *)
(***************************************************************************)
EXTENDS Integers, Sequences, Numeral

CONSTANTS
    Base,      \* 10 in the code
    Decimals,  \* 6 in the code
    MaxUint    \* 2^64 - 1 in the code

ASSUME MicroAssumption ==
    /\ Base \in Nat \ {0, 1} /\ Decimals \in Nat \ {0} /\ MaxUint \in Nat \ {0}
    /\ Exp(Base, Decimals) \in 1..MaxUint

Digit == 0..(Base - 1)

NonDigit == Base

Character == Digit \cup {NonDigit}

Written == [whole: Seq(Character), dot: BOOLEAN, fraction: Seq(Character)]

AllDigits(s) == s # <<>> /\ \A i \in DOMAIN s : s[i] \in Digit

Number(s) == ValueOf(s, Base)

\* strconv.ParseUint of decimal digits: an error when the number does not fit.
ParseUint(s) == {Number(s)} \cap 0..MaxUint

WellWritten(w) ==
    /\ w.whole # <<>>
    /\ ~(Len(w.whole) > 1 /\ w.whole[1] = 0)
    /\ AllDigits(w.whole)
    /\ w.dot => AllDigits(w.fraction) /\ Len(w.fraction) <= Decimals

Padded(fraction) == fraction \o [i \in 1..(Decimals - Len(fraction)) |-> 0]

Scale == Exp(Base, Decimals)

Wrapped(n) == n % (MaxUint + 1)

\* Mutant of Combine: the fraction is left out of the overflow check.
CombineUnchecked(whole, fraction) ==
    IF whole <= MaxUint \div Scale
    THEN {Wrapped(whole * Scale + fraction)} \ {0}
    ELSE {}

\* The checked sum, and the refusal of zero.
Combine(whole, fraction) ==
    IF whole <= (MaxUint - fraction) \div Scale
    THEN {Wrapped(whole * Scale + fraction)} \ {0}
    ELSE {}

\* The amounts microUSDC may return: one, or none if it returns an error.
Micro(w) ==
    IF WellWritten(w)
    THEN UNION {Combine(n, f) : n \in ParseUint(w.whole), f \in ParseUint(Padded(w.fraction))}
    ELSE {}

=============================================================================
