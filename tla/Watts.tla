------------------------------- MODULE Watts -------------------------------
(***************************************************************************)
(* Arithmetic on signed powers (positive is discharge) that the balancer's *)
(* modules share.                                                          *)
(***************************************************************************)
EXTENDS Integers

Least(a, b) == IF a < b THEN a ELSE b
Most(a, b) == IF a > b THEN a ELSE b
Abs(n) == IF n < 0 THEN -n ELSE n
Sign(n) == IF n > 0 THEN 1 ELSE IF n < 0 THEN -1 ELSE 0
Within(n, b) == Most(-b, Least(b, n))
Power(b, n) == LET p[k \in 0 .. n] == IF k = 0 THEN 1 ELSE b * p[k - 1] IN p[n]
=============================================================================
