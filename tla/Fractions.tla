------------------------------ MODULE Fractions ------------------------------
(* Exact fractions, for the float arithmetic of prices and money: what a     *)
(* float computes to within its rounding.  A fraction need not be reduced;   *)
(* Same compares values.                                                     *)
EXTENDS Integers

Fraction == [num : Int, den : Nat \ {0}]

Whole(n) == [num |-> n, den |-> 1]

Plus(a, b) == [num |-> a.num * b.den + b.num * a.den, den |-> a.den * b.den]

Minus(a, b) == [num |-> a.num * b.den - b.num * a.den, den |-> a.den * b.den]

(* A fraction times an integer, and over an integer other than zero. *)
Scaled(a, n) == [num |-> a.num * n, den |-> a.den]

Divided(a, n) ==
    IF n > 0 THEN [num |-> a.num, den |-> a.den * n]
             ELSE [num |-> -a.num, den |-> a.den * (-n)]

Same(a, b) == a.num * b.den = b.num * a.den

AtMost(a, b) == a.num * b.den <= b.num * a.den

(* Python's round: the integer next to n / d, the even one of two. *)
Rounded(n, d) ==
    LET q == n \div d
        r == n % d
    IN  IF 2 * r < d \/ (2 * r = d /\ q % 2 = 0) THEN q ELSE q + 1
=============================================================================
