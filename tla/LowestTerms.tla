----------------------------- MODULE LowestTerms -----------------------------
(* Fractions in lowest terms, for sums and products that go on for long: the *)
(* integers stay as small as the values allow, and equal values are equal.   *)
EXTENDS Fractions

Zero == Whole(0)

gcd[p \in Nat \X Nat] == IF p[2] = 0 THEN p[1] ELSE gcd[<<p[2], p[1] % p[2]>>]

Size(n) == IF n < 0 THEN -n ELSE n

(* n / d in lowest terms, for a positive d. *)
Ratio(n, d) ==
    LET g == gcd[<<Size(n), d>>]
    IN  [num |-> IF n < 0 THEN -(Size(n) \div g) ELSE n \div g, den |-> d \div g]

Neg(a) == [a EXCEPT !.num = -@]

Add(a, b) ==
    LET g == gcd[<<a.den, b.den>>]
    IN  Ratio(a.num * (b.den \div g) + b.num * (a.den \div g), a.den * (b.den \div g))

Sub(a, b) == Add(a, Neg(b))

Mul(a, b) ==
    LET x == Ratio(a.num, b.den)
        y == Ratio(b.num, a.den)
    IN  [num |-> x.num * y.num, den |-> x.den * y.den]

Leq(a, b) == Sub(a, b).num <= 0
=============================================================================
