------------------------------ MODULE Numeral ------------------------------
(***************************************************************************)
(* Positional notation, written as the recursive functions its readers     *)
(* compute: the loop of a parser multiplies what it has by the radix and   *)
(* adds the next digit.                                                    *)
(***************************************************************************)
EXTENDS Integers, Sequences

ValueOf(digits, radix) ==
    LET value[n \in 0..Len(digits)] ==
            IF n = 0 THEN 0 ELSE value[n - 1] * radix + digits[n]
    IN  value[Len(digits)]

\* Exponentiation; the operator of Integers has no definition to reason from.
Exp(b, e) ==
    LET exp[n \in 0..e] == IF n = 0 THEN 1 ELSE exp[n - 1] * b
    IN  exp[e]

=============================================================================
