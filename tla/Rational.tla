------------------------------ MODULE Rational ------------------------------
(***************************************************************************)
(* The exact numbers behind the floats of the accounts: <<n, d>> is n / d, *)
(* with d positive, in lowest terms.                                       *)
(***************************************************************************)
EXTENDS Integers, FiniteSetsExt

Rat(n, d) ==
    LET g == Max({k \in 1..d : n % k = 0 /\ d % k = 0})
    IN  <<n \div g, d \div g>>

Whole(n)   == <<n, 1>>
Plus(a, b) == Rat(a[1] * b[2] + b[1] * a[2], a[2] * b[2])
Times(a, b) == Rat(a[1] * b[1], a[2] * b[2])
Scaled(k, a) == Rat(k * a[1], a[2])
Minus(a, b) == Plus(a, Scaled(-1, b))
Larger(a, b) == IF a[1] * b[2] < b[1] * a[2] THEN b ELSE a
=============================================================================
