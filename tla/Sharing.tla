------------------------------ MODULE Sharing ------------------------------
(***************************************************************************)
(* How the balancer splits power between batteries: in proportion to their *)
(* weights, water-filled against what each of them can take, and with the  *)
(* batteries idling whose share would be too small to run at.              *)
(*                                                                         *)
(* A share is a fraction [num, den] with den > 0, so nothing is rounded.   *)
(* Batteries are numbers.                                                  *)
(***************************************************************************)
EXTENDS Watts, FiniteSets

Total(f, ids) ==
    LET sum[s \in SUBSET ids] ==
            IF s = {} THEN 0
            ELSE LET c == CHOOSE c \in s : TRUE IN f[c] + sum[s \ {c}]
    IN  sum[ids]

Share(num, den) == [num |-> num, den |-> den]
Under(s, n) == s.num < n * s.den
Less(r, s) == r.num * s.den < s.num * r.den

\* To the nearest watt; halves away from zero.
Whole(s) == Sign(s.num) * ((2 * Abs(s.num) + s.den) \div (2 * s.den))

\* Weights that sum to zero split evenly.
WeightedShares(total, weights, ids) ==
    LET sum == Total(weights, ids)
    IN  IF sum > 0 THEN [c \in ids |-> Share(total * weights[c], sum)]
        ELSE [c \in ids |-> Share(total, Most(1, Cardinality(ids)))]

\* A round of the water-fill: whoever's share of the rest is more than its
\* ceiling is fixed there, and what is left is split among the others again.
\* In magnitudes: ceilings are those of the total's direction.
Over(r, weights, ceilings) ==
    LET shares == WeightedShares(r.rest, weights, r.free)
    IN  {c \in r.free \cap DOMAIN ceilings : Less(Share(ceilings[c], 1), shares[c])}
Round(r, weights, ceilings) ==
    LET over == Over(r, weights, ceilings)
    IN  [free |-> r.free \ over, rest |-> r.rest - Total(ceilings, over)]

\* (mutant) one round: what the fixed ones leave over may lift others too far
FilledOnce(total, weights, ids, ceilings) ==
    Round([free |-> ids, rest |-> Abs(total)], weights, ceilings)

Filled(total, weights, ids, ceilings) ==
    LET round[n \in 0 .. Cardinality(ids)] ==
            IF n = 0 THEN [free |-> ids, rest |-> Abs(total)]
            ELSE Round(round[n - 1], weights, ceilings)
    IN  round[Cardinality(ids)]

CappedShares(total, weights, ids, ceilings) ==
    LET f == Filled(total, weights, ids, ceilings)
        shares == WeightedShares(f.rest, weights, f.free)
    IN  [c \in ids |-> IF c \in f.free THEN Share(Sign(total) * shares[c].num, shares[c].den)
                       ELSE Share(Sign(total) * ceilings[c], 1)]

\* While any of ids would run below its floor, the furthest below (in share of
\* its floor, then by number) idles and the rest are split again.  Magnitudes.
Running(demand, weights, ids, ceilings, floors) ==
    LET left[n \in 0 .. Cardinality(ids)] ==
            IF n = 0 THEN ids
            ELSE LET r == left[n - 1]
                     shares == CappedShares(Abs(demand), weights, r, ceilings)
                     short == {c \in r : floors[c] > 0 /\ Under(shares[c], floors[c])}
                     Met(c) == Share(shares[c].num, shares[c].den * floors[c])
                     Worse(c, d) == Less(Met(c), Met(d)) \/ (~Less(Met(d), Met(c)) /\ c < d)
                 IN  {c \in r : c \in short => \E d \in short : Worse(d, c)}
    IN  left[Cardinality(ids)]
=============================================================================
