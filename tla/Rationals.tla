------------------------------- MODULE Rationals -------------------------------
(***************************************************************************)
(* Rational numbers for what the program computes in float64: pairs        *)
(* <<numerator, denominator>> in lowest terms, the denominator positive.   *)
(***************************************************************************)
EXTENDS Integers

Magnitude(i) == IF i < 0 THEN -i ELSE i

Whole(i) == <<i, 1>>

\* n / d with the least denominator that it can have.
Ratio(n, d) ==
    LET m == IF d < 0 THEN -n ELSE n
        e == Magnitude(d)
        q == CHOOSE k \in 1 .. e : (m * k) % e = 0 /\ \A j \in 1 .. k - 1 : (m * j) % e # 0
    IN  <<(m * q) \div e, q>>

IsRational(q) == q \in Int \X (Nat \ {0}) /\ Ratio(q[1], q[2]) = q

Add(a, b) == Ratio(a[1] * b[2] + b[1] * a[2], a[2] * b[2])
Sub(a, b) == Ratio(a[1] * b[2] - b[1] * a[2], a[2] * b[2])
Mul(a, b) == Ratio(a[1] * b[1], a[2] * b[2])
Div(a, b) == Ratio(a[1] * b[2], a[2] * b[1])
Leq(a, b) == a[1] * b[2] <= b[1] * a[2]
Lt(a, b) == a[1] * b[2] < b[1] * a[2]
Negative(a) == a[1] < 0
Positive(a) == a[1] > 0

=============================================================================
