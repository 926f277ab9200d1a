--------------------------- MODULE ProgramAddress ---------------------------
(***************************************************************************)
(* Program-derived addresses (escrow/pda.go): FindProgramAddress tries the *)
(* bumps downwards from MaxBump and returns the first hash that is not a   *)
(* compressed Ed25519 point; IsOnCurve decides that by decompressing it.   *)
(*                                                                         *)
(* The curve is -x^2 + y^2 = 1 + D x^2 y^2 over the integers modulo P.  An *)
(* address is its y, which may be P or more, and the sign bit of x.  The   *)
(* hash is external: any function of the bump, for fixed seeds and program.*)
(***************************************************************************)
EXTENDS Integers

CONSTANTS
    P,        \* 2^255 - 19 in the code, a prime that is 5 modulo 8
    MaxY,     \* 2^255 - 1: what the low 255 bits hold
    MaxBump   \* 255 in the code

Address == [y: 0..MaxY, sign: {0, 1}]

CONSTANT Hashes  \* what the candidates of one search may be

ASSUME AddressAssumption ==
    /\ P \in Nat \ {0} /\ MaxY \in Nat
    /\ MaxBump \in Nat
    /\ Hashes \subseteq [0..MaxBump -> Address]

-----------------------------------------------------------------------------
(* Point decompression.                                                    *)

Power(b, e) ==
    LET power[n \in 0..e] == IF n = 0 THEN 1 ELSE (power[n - 1] * b) % P
    IN  power[e]

Square(n) == (n * n) % P

Inverses(v) == {i \in 1..(P - 1) : (v * i) % P = 1}

D == (-121665 * CHOOSE i \in Inverses(121666) : TRUE) % P

SqrtMinusOne == Power(2, (P - 1) \div 4)

\* P is a prime (Fermat's theorem holds of no other number) that is 5 modulo 8,
\* 121666 has an inverse, and SqrtMinusOne is what it is called.
ASSUME CurveAssumption ==
    /\ P % 8 = 5
    /\ \A a \in 1..(P - 1) : Power(a, P - 1) = 1
    /\ 121666 % P # 0
    /\ Square(SqrtMinusOne) = P - 1

\* x squared, from the curve equation: none if its denominator is zero.
XSquared(y) ==
    {((Square(y) - 1) * i) % P : i \in Inverses((D * Square(y) + 1) % P)}

\* Mutant of HasRoot: only the first candidate root is tried.
HasRootOnce(x2) == Square(Power(x2, (P + 3) \div 8)) = x2

\* Of the two candidate roots one squares to x2 exactly if x2 is a square.
HasRoot(x2) ==
    LET root == Power(x2, (P + 3) \div 8)
    IN  Square(root) = x2 \/ Square(root * SqrtMinusOne) = x2

IsOnCurve(a) ==
    \E x2 \in XSquared(a.y % P) :
        \/ x2 = 0 /\ a.sign = 0
        \/ x2 # 0 /\ HasRoot(x2)

-----------------------------------------------------------------------------
(* The search.                                                             *)

VARIABLES
    hash,   \* createProgramAddress for each bump, never assigned
    bump,   \* the loop variable b: the bump tried next; -1 after the last
    result  \* "searching", "found" or "none" (ErrNoPDABump)

vars == <<hash, bump, result>>

Init ==
    /\ hash \in Hashes
    /\ bump = MaxBump
    /\ result = "searching"

Reject ==
    /\ result = "searching"
    /\ bump >= 0
    /\ IsOnCurve(hash[bump])
    /\ bump' = bump - 1
    /\ UNCHANGED <<hash, result>>

Accept ==
    /\ result = "searching"
    /\ bump >= 0
    /\ ~IsOnCurve(hash[bump])
    /\ result' = "found"
    /\ UNCHANGED <<hash, bump>>

\* Mutant of Exhausted: the loop ends before bump 0.
ExhaustedEarly ==
    /\ result = "searching"
    /\ bump <= 0
    /\ result' = "none"
    /\ UNCHANGED <<hash, bump>>

Exhausted ==
    /\ result = "searching"
    /\ bump < 0
    /\ result' = "none"
    /\ UNCHANGED <<hash, bump>>

Next == Reject \/ Accept \/ Exhausted

Spec == Init /\ [][Next]_vars

-----------------------------------------------------------------------------

TypeOK ==
    /\ hash \in Hashes
    /\ bump \in -1..MaxBump
    /\ result \in {"searching", "found", "none"}
    /\ result = "found" => bump >= 0

\* FindProgramAddress (escrow/pda.go:50) returns the address with the highest
\* bump that is off the curve, and fails only when there is none.
FindsTheHighestOffCurve ==
    /\ result = "found" =>
          /\ ~IsOnCurve(hash[bump])
          /\ \A b \in (bump + 1)..MaxBump : IsOnCurve(hash[b])
    /\ result = "none" => \A b \in 0..MaxBump : IsOnCurve(hash[b])

\* A point of the curve with this y and sign; someone may know its key.
IsAPoint(a) ==
    \E x \in 0..(P - 1) :
        /\ (Square(a.y % P) - Square(x)) % P = (1 + D * Square(x) * Square(a.y % P)) % P
        /\ x % 2 = a.sign

\* IsOnCurve (escrow/pda.go:152) answers what the curve equation says of every
\* candidate: a found address has no point, hence no private key, and no
\* candidate without a point is passed over.
CurveTestIsExact ==
    \A b \in 0..MaxBump : IsOnCurve(hash[b]) <=> IsAPoint(hash[b])

=============================================================================
