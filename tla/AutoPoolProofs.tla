--------------------------- MODULE AutoPoolProofs ---------------------------
(***************************************************************************)
(* What AutoPool promises, for every pool: the sums its shares are made of *)
(* (Sharing), the water-fill, and the reserve that carries the overflow.   *)
(*                                                                         *)
(* Sums and rounds are recursive functions.  What such a function computes *)
(* is proved by the least counterexample: a smallest set, or a smallest    *)
(* number, for which it fails would need a smaller one.                    *)
(***************************************************************************)
EXTENDS AutoPool, FiniteSetTheorems, SequenceTheorems, TLAPS

-----------------------------------------------------------------------------
(* Least counterexamples                                                     *)

\* Among subsets of a finite set there is always a smallest one.
LEMMA LeastSubset ==
    ASSUME NEW ids, IsFiniteSet(ids), NEW bad \in SUBSET SUBSET ids, bad # {}
    PROVE  \E s \in bad : \A t \in bad : t \subseteq s => t = s
<1>1. IsWellFoundedOn(StrictSubsetOrdering(ids), SUBSET ids)
    BY FS_StrictSubsetOrderingWellFounded, FS_FiniteSubsetsOfFinite
<1>2. \E s \in bad : \A t \in bad : ~ (<<t, s>> \in StrictSubsetOrdering(ids))
    BY <1>1, WFMin, Zenon
<1> QED BY <1>2 DEF StrictSubsetOrdering

\* Among natural numbers there is always a smallest one.
LEMMA LeastNumber ==
    ASSUME NEW bad \in SUBSET Nat, bad # {}
    PROVE  \E n \in bad : \A m \in bad : n <= m
<1>1. PICK k \in bad : TRUE
    OBVIOUS
<1> DEFINE sets == {1 .. n : n \in {m \in bad : m <= k}}
<1>2. sets \in SUBSET SUBSET (1 .. k) /\ 1 .. k \in sets
    BY <1>1
<1>3. PICK s \in sets : \A t \in sets : t \subseteq s => t = s
    <2> DEFINE top == 1 .. k
    <2>1. IsFiniteSet(top)
        BY <1>1, FS_Interval
    <2>2. sets \in SUBSET SUBSET top /\ sets # {}
        BY <1>2
    <2> HIDE DEF sets, top
    <2> QED BY <2>1, <2>2, LeastSubset
<1>4. PICK n \in bad : n <= k /\ s = 1 .. n
    BY <1>3
<1>5. ASSUME NEW m \in bad, m < n PROVE FALSE
    <2>1. 1 .. m \in sets /\ 1 .. m \subseteq s
        BY <1>1, <1>4, <1>5
    <2>2. n \in s /\ n \notin 1 .. m
        BY <1>4, <1>5
    <2> QED BY <1>3, <2>1, <2>2
<1> QED BY <1>4, <1>5

-----------------------------------------------------------------------------
(* Sums                                                                      *)

Sums(g, f, ids) ==
    g = [s \in SUBSET ids |->
            IF s = {} THEN 0
            ELSE LET c == CHOOSE c \in s : TRUE IN f[c] + g[s \ {c}]]

\* Two sums over sets of the same function agree where both are defined.
LEMMA SumsAgree ==
    ASSUME NEW f, NEW a, NEW b, IsFiniteSet(a), NEW g, NEW h, Sums(g, f, a), Sums(h, f, b),
           NEW s \in SUBSET (a \cap b)
    PROVE  g[s] = h[s]
<1> DEFINE bad == {t \in SUBSET (a \cap b) : g[t] # h[t]}
<1> SUFFICES ASSUME bad # {} PROVE FALSE
    OBVIOUS
<1>1. IsFiniteSet(a \cap b)
    BY FS_Intersection
<1>2. PICK t \in bad : \A u \in bad : u \subseteq t => u = t
    <2> HIDE DEF bad
    <2>1. bad \in SUBSET SUBSET (a \cap b)
        BY DEF bad
    <2> QED BY <1>1, <2>1, LeastSubset
<1>3. t # {}
    BY DEF Sums
<1>4. PICK c \in t : c = (CHOOSE x \in t : TRUE)
    BY <1>3
<1>5. g[t \ {c}] = h[t \ {c}]
    <2>1. t \ {c} \notin bad
        BY <1>2, <1>4
    <2> QED BY <2>1
<1>6. g[t] = f[c] + g[t \ {c}]
    BY <1>3, <1>4 DEF Sums
<1>7. h[t] = f[c] + h[t \ {c}]
    BY <1>3, <1>4 DEF Sums
<1> QED BY <1>5, <1>6, <1>7

\* The recursion that Total is chosen by has a solution over a finite set.
LEMMA SumsExist ==
    ASSUME NEW f, NEW ids, IsFiniteSet(ids)
    PROVE  \E g : Sums(g, f, ids)
<1> DEFINE bad == {t \in SUBSET ids : ~ \E g : Sums(g, f, t)}
<1>1. CASE bad = {}
    BY <1>1
<1>2. CASE bad # {}
    <2>1. PICK t \in bad : \A u \in bad : u \subseteq t => u = t
        <3> HIDE DEF bad
        <3>1. bad \in SUBSET SUBSET ids
            BY DEF bad
        <3> QED BY <1>2, <3>1, LeastSubset
    <2> DEFINE of(u) == CHOOSE g : Sums(g, f, u)
               pick(u) == CHOOSE c \in u : TRUE
               below(u) == of(u)[u]
               sum == [u \in SUBSET t |->
                        IF u # t THEN below(u)
                        ELSE IF t = {} THEN 0 ELSE f[pick(t)] + below(t \ {pick(t)})]
    <2>2. \A u \in SUBSET t : u # t => Sums(of(u), f, u)
        <3> SUFFICES ASSUME NEW u \in SUBSET t, u # t PROVE Sums(of(u), f, u)
            OBVIOUS
        <3>1. u \notin bad
            BY <2>1
        <3>2. \E g : Sums(g, f, u)
            BY <3>1
        <3> QED BY <3>2
    <2>3. \A u \in SUBSET t : u # {} => pick(u) \in u
        OBVIOUS
    <2>4. \A u \in SUBSET t : u # {} /\ u # t => below(u) = f[pick(u)] + below(u \ {pick(u)})
        <3> SUFFICES ASSUME NEW u \in SUBSET t, u # {}, u # t
                     PROVE  below(u) = f[pick(u)] + below(u \ {pick(u)})
            OBVIOUS
        <3> DEFINE v == u \ {pick(u)}
        <3>1. v \in SUBSET u /\ v # t /\ v \in SUBSET t
            BY <2>3
        <3>2. Sums(of(u), f, u) /\ Sums(of(v), f, v)
            BY <2>2, <3>1
        <3>3. IsFiniteSet(u)
            BY FS_Subset
        <3>4. of(u)[v] = of(v)[v]
            <4> HIDE DEF v, of
            <4>1. v \in SUBSET (u \cap v)
                BY <3>1
            <4> QED BY <3>2, <3>3, <4>1, SumsAgree
        <3>5. of(u)[u] = f[pick(u)] + of(u)[v]
            <4> HIDE DEF of
            <4> QED BY <3>2 DEF Sums
        <3> QED BY <3>4, <3>5
    <2>5. t # t \ {pick(t)} \/ t = {}
        BY <2>3
    <2>6. \A u \in SUBSET t : u # t /\ u = {} => below(u) = 0
        <3> SUFFICES ASSUME NEW u \in SUBSET t, u # t, u = {} PROVE of(u)[u] = 0
            OBVIOUS
        <3>1. Sums(of(u), f, u)
            BY <2>2
        <3> HIDE DEF of
        <3> QED BY <3>1 DEF Sums
    <2>7. Sums(sum, f, t)
        <3> HIDE DEF below
        <3>1. sum = [u \in SUBSET t |-> IF u = {} THEN 0 ELSE f[pick(u)] + sum[u \ {pick(u)}]]
            <4>1. ASSUME NEW u \in SUBSET t
                  PROVE  sum[u] = IF u = {} THEN 0 ELSE f[pick(u)] + sum[u \ {pick(u)}]
                <5>1. u \ {pick(u)} \in SUBSET t
                    OBVIOUS
                <5>2. u # {} => u \ {pick(u)} # t
                    BY <2>3
                <5> HIDE DEF pick
                <5> QED BY <5>1, <5>2, <2>4, <2>5, <2>6
            <4> HIDE DEF pick
            <4> QED BY <4>1
        <3> HIDE DEF sum
        <3> QED BY <3>1 DEF Sums
    <2> HIDE DEF sum
    <2> QED BY <2>1, <2>7
<1> QED BY <1>1, <1>2

\* One round of the sum takes out the element the recursion chooses; a set in
\* a larger one has the same sum there.
LEMMA TotalChoice ==
    ASSUME NEW f, NEW ids, IsFiniteSet(ids)
    PROVE  /\ Total(f, {}) = 0
           /\ ids # {} => LET c == CHOOSE c \in ids : TRUE
                          IN  Total(f, ids) = f[c] + Total(f, ids \ {c})
<1> DEFINE of(u) == CHOOSE g : Sums(g, f, u)
<1>1. \A u : Total(f, u) = of(u)[u]
    BY DEF Total, Sums
<1>2. \A u : IsFiniteSet(u) => Sums(of(u), f, u)
    BY SumsExist
<1>3. Total(f, {}) = 0
    <2>1. Sums(of({}), f, {})
        BY <1>2, FS_EmptySet
    <2> HIDE DEF of
    <2> QED BY <2>1, <1>1 DEF Sums
<1>4. ASSUME NEW c \in ids, c = CHOOSE x \in ids : TRUE
      PROVE  Total(f, ids) = f[c] + Total(f, ids \ {c})
    <2> DEFINE v == ids \ {c}
    <2>1. IsFiniteSet(v)
        BY FS_RemoveElement
    <2>2. Sums(of(ids), f, ids) /\ Sums(of(v), f, v)
        BY <2>1, <1>2
    <2> HIDE DEF of
    <2>3. of(ids)[v] = of(v)[v]
        <3>1. v \in SUBSET (ids \cap v)
            OBVIOUS
        <3> HIDE DEF v
        <3> QED BY <2>2, <3>1, SumsAgree
    <2>4. of(ids)[ids] = f[c] + of(ids)[v]
        BY <2>2, <1>4 DEF Sums
    <2> QED BY <2>3, <2>4, <1>1
<1> QED BY <1>3, <1>4

\* The sum of integers is an integer.
LEMMA TotalInt ==
    ASSUME NEW ids, IsFiniteSet(ids), NEW f, \A c \in ids : f[c] \in Int
    PROVE  Total(f, ids) \in Int
<1> DEFINE bad == {s \in SUBSET ids : Total(f, s) \notin Int}
<1> SUFFICES ASSUME bad # {} PROVE FALSE
    OBVIOUS
<1>1. PICK t \in bad : \A u \in bad : u \subseteq t => u = t
    <2>1. bad \in SUBSET SUBSET ids
        OBVIOUS
    <2> HIDE DEF bad
    <2> QED BY <2>1, LeastSubset
<1>2. IsFiniteSet(t)
    BY FS_Subset
<1>3. t # {}
    <2>1. Total(f, {}) = 0
        BY <1>2, TotalChoice
    <2>2. Total(f, t) # 0
        BY <1>1
    <2> QED BY <2>1, <2>2
<1>4. PICK c \in t : c = CHOOSE x \in t : TRUE
    BY <1>3
<1>5. Total(f, t) = f[c] + Total(f, t \ {c})
    BY <1>2, <1>3, <1>4, TotalChoice
<1>6. Total(f, t \ {c}) \in Int
    BY <1>1, <1>4
<1> QED BY <1>4, <1>5, <1>6

\* Functions that agree on a set have the same sum over it.
LEMMA TotalSame ==
    ASSUME NEW ids, IsFiniteSet(ids), NEW f, NEW g, \A c \in ids : f[c] = g[c]
    PROVE  Total(f, ids) = Total(g, ids)
<1> DEFINE bad == {s \in SUBSET ids : Total(f, s) # Total(g, s)}
<1> SUFFICES ASSUME bad # {} PROVE FALSE
    OBVIOUS
<1>1. PICK t \in bad : \A u \in bad : u \subseteq t => u = t
    <2>1. bad \in SUBSET SUBSET ids
        OBVIOUS
    <2> HIDE DEF bad
    <2> QED BY <2>1, LeastSubset
<1>2. IsFiniteSet(t)
    BY FS_Subset
<1>3. t # {}
    <2>1. Total(f, {}) = 0
        BY <1>2, TotalChoice
    <2>2. Total(g, {}) = 0
        BY <1>2, TotalChoice
    <2>3. Total(f, t) # Total(g, t)
        BY <1>1
    <2> HIDE DEF bad
    <2> QED BY <2>1, <2>2, <2>3
<1>4. PICK c \in t : c = CHOOSE x \in t : TRUE
    BY <1>3
<1>5. Total(f, t) = f[c] + Total(f, t \ {c}) /\ Total(g, t) = g[c] + Total(g, t \ {c})
    <2>1. Total(f, t) = f[c] + Total(f, t \ {c})
        BY <1>2, <1>3, <1>4, TotalChoice
    <2>2. Total(g, t) = g[c] + Total(g, t \ {c})
        BY <1>2, <1>3, <1>4, TotalChoice
    <2> QED BY <2>1, <2>2
<1>6. Total(f, t \ {c}) = Total(g, t \ {c})
    BY <1>1, <1>4
<1> QED BY <1>4, <1>5, <1>6

\* Any element may be taken out of a sum, not only the one that is chosen.
LEMMA TotalPick ==
    ASSUME NEW ids, IsFiniteSet(ids), NEW f, \A c \in ids : f[c] \in Int, NEW d \in ids
    PROVE  Total(f, ids) = f[d] + Total(f, ids \ {d})
<1> DEFINE bad == {s \in SUBSET ids : \E x \in s : Total(f, s) # f[x] + Total(f, s \ {x})}
<1> SUFFICES ASSUME bad # {} PROVE FALSE
    OBVIOUS
<1>1. PICK t \in bad : \A u \in bad : u \subseteq t => u = t
    <2>1. bad \in SUBSET SUBSET ids
        OBVIOUS
    <2> HIDE DEF bad
    <2> QED BY <2>1, LeastSubset
<1>2. PICK e \in t : Total(f, t) # f[e] + Total(f, t \ {e})
    BY <1>1
<1>3. PICK c \in t : c = CHOOSE x \in t : TRUE
    BY <1>2
<1>4. \A s \in SUBSET ids : IsFiniteSet(s) /\ Total(f, s) \in Int
    BY FS_Subset, TotalInt
<1>5. Total(f, t) = f[c] + Total(f, t \ {c})
    BY <1>3, <1>4, TotalChoice
<1>6. c # e
    BY <1>2, <1>5
<1>7. Total(f, t \ {c}) = f[e] + Total(f, (t \ {c}) \ {e})
    <2>1. t \ {c} \notin bad
        BY <1>1, <1>3
    <2> QED BY <2>1, <1>6
<1>8. Total(f, t \ {e}) = f[c] + Total(f, (t \ {e}) \ {c})
    <2>1. t \ {e} \notin bad
        BY <1>1, <1>2
    <2> QED BY <2>1, <1>6
<1>9. (t \ {c}) \ {e} = (t \ {e}) \ {c}
    OBVIOUS
<1> DEFINE rest == Total(f, (t \ {e}) \ {c})
<1>10. rest \in Int /\ f[c] \in Int /\ f[e] \in Int
    BY <1>4
<1>11. Total(f, t) = f[c] + (f[e] + rest) /\ Total(f, t \ {e}) = f[c] + rest
    BY <1>5, <1>7, <1>8, <1>9
<1> HIDE DEF rest
<1> QED BY <1>2, <1>10, <1>11

\* A sum over a set is that over a part of it and that over the rest.
LEMMA TotalSplit ==
    ASSUME NEW ids, IsFiniteSet(ids), NEW f, \A c \in ids : f[c] \in Int, NEW a \in SUBSET ids
    PROVE  Total(f, ids) = Total(f, a) + Total(f, ids \ a)
<1> DEFINE bad == {s \in SUBSET ids : Total(f, ids) # Total(f, s) + Total(f, ids \ s)}
<1> SUFFICES ASSUME bad # {} PROVE FALSE
    OBVIOUS
<1>1. PICK t \in bad : \A u \in bad : u \subseteq t => u = t
    <2>1. bad \in SUBSET SUBSET ids
        OBVIOUS
    <2> HIDE DEF bad
    <2> QED BY <2>1, LeastSubset
<1>2. \A s \in SUBSET ids : IsFiniteSet(s) /\ Total(f, s) \in Int
    BY FS_Subset, TotalInt
<1>3. t # {}
    <2>1. Total(f, {}) = 0 /\ ids \ {} = ids /\ Total(f, ids) \in Int
        BY <1>2, TotalChoice
    <2> QED BY <2>1
<1>4. PICK c \in t : TRUE
    BY <1>3
<1> DEFINE s == t \ {c}
<1>5. Total(f, ids) = Total(f, s) + Total(f, ids \ s)
    <2>1. s \notin bad
        BY <1>1, <1>4
    <2> QED BY <2>1
<1>6. Total(f, t) = f[c] + Total(f, s)
    BY <1>2, <1>4, TotalPick
<1>7. Total(f, ids \ s) = f[c] + Total(f, ids \ t)
    <2>1. (ids \ s) \ {c} = ids \ t /\ c \in ids \ s /\ ids \ s \in SUBSET ids
        BY <1>4
    <2> QED BY <1>2, <2>1, TotalPick
<1>8. Total(f, s) \in Int /\ Total(f, ids \ t) \in Int /\ f[c] \in Int
    BY <1>2, <1>4
<1>9. Total(f, ids) # Total(f, t) + Total(f, ids \ t)
    BY <1>1
<1> HIDE DEF s, bad
<1> QED BY <1>5, <1>6, <1>7, <1>8, <1>9

\* Two sums compare as their terms do, in the same proportion.
LEMMA TotalScaled ==
    ASSUME NEW ids, IsFiniteSet(ids), NEW f, NEW g, NEW a \in Int, NEW b \in Int,
           \A c \in ids : f[c] \in Int /\ g[c] \in Int /\ f[c] * a <= b * g[c]
    PROVE  Total(f, ids) * a <= b * Total(g, ids)
<1> DEFINE bad == {s \in SUBSET ids : ~ (Total(f, s) * a <= b * Total(g, s))}
<1> SUFFICES ASSUME bad # {} PROVE FALSE
    OBVIOUS
<1>1. PICK t \in bad : \A u \in bad : u \subseteq t => u = t
    <2>1. bad \in SUBSET SUBSET ids
        OBVIOUS
    <2> HIDE DEF bad
    <2> QED BY <2>1, LeastSubset
<1>2. \A s \in SUBSET ids : IsFiniteSet(s) /\ Total(f, s) \in Int /\ Total(g, s) \in Int
    BY FS_Subset, TotalInt
<1>3. t # {}
    <2>1. Total(f, {}) = 0 /\ Total(g, {}) = 0
        BY <1>2, TotalChoice
    <2> QED BY <2>1
<1>4. PICK c \in t : TRUE
    BY <1>3
<1> DEFINE s == t \ {c}
<1>5. Total(f, s) * a <= b * Total(g, s)
    <2>1. s \notin bad
        BY <1>1, <1>4
    <2> QED BY <2>1
<1>6. Total(f, t) = f[c] + Total(f, s) /\ Total(g, t) = g[c] + Total(g, s)
    BY <1>2, <1>4, TotalPick
<1>7. Total(f, s) \in Int /\ Total(g, s) \in Int /\ f[c] \in Int /\ g[c] \in Int
    BY <1>2, <1>4
<1>8. f[c] * a <= b * g[c]
    BY <1>4
<1>9. (f[c] + Total(f, s)) * a <= b * (g[c] + Total(g, s))
    <2> HIDE DEF s, bad
    <2>1. /\ (f[c] + Total(f, s)) * a = f[c] * a + Total(f, s) * a
          /\ b * (g[c] + Total(g, s)) = b * g[c] + b * Total(g, s)
        BY <1>7
    <2>2. f[c] * a \in Int /\ Total(f, s) * a \in Int /\ b * g[c] \in Int /\ b * Total(g, s) \in Int
        BY <1>7
    <2> QED BY <1>5, <1>8, <2>1, <2>2
<1> QED BY <1>1, <1>6, <1>9

\* A sum of natural numbers is one, and none of them is more than their sum.
LEMMA TotalNat ==
    ASSUME NEW ids, IsFiniteSet(ids), NEW f, \A c \in ids : f[c] \in Nat
    PROVE  /\ Total(f, ids) \in Nat
           /\ \A c \in ids : f[c] <= Total(f, ids)
<1>1. \A s \in SUBSET ids : Total(f, s) \in Nat
    <2> SUFFICES ASSUME NEW s \in SUBSET ids PROVE Total(f, s) \in Nat
        OBVIOUS
    <2> DEFINE zero == [c \in ids |-> 0]
    <2>1. IsFiniteSet(s)
        BY FS_Subset
    <2>2. Total(f, s) \in Int
        BY <2>1, TotalInt
    <2>3. \A c \in s : f[c] \in Int /\ zero[c] \in Int /\ zero[c] * 1 <= 1 * f[c]
        OBVIOUS
    <2>4. \A c \in s : f[c] \in Int /\ zero[c] \in Int /\ zero[c] * 1 <= 0 * f[c]
        OBVIOUS
    <2>5. Total(zero, s) \in Int
        BY <2>1, TotalInt
    <2> HIDE DEF zero
    <2>6. Total(zero, s) * 1 <= 1 * Total(f, s)
        BY <2>1, <2>3, TotalScaled
    <2>7. \A c \in s : zero[c] \in Int /\ f[c] \in Int /\ f[c] * 0 <= 1 * zero[c]
        BY DEF zero
    <2>8. Total(f, s) * 0 <= 1 * Total(zero, s)
        BY <2>1, <2>7, TotalScaled
    <2> QED BY <2>2, <2>5, <2>6, <2>8
<1>2. ASSUME NEW c \in ids PROVE f[c] <= Total(f, ids)
    <2>1. Total(f, ids) = f[c] + Total(f, ids \ {c})
        BY TotalPick
    <2>2. Total(f, ids \ {c}) \in Nat
        BY <1>1
    <2> QED BY <2>1, <2>2
<1> QED BY <1>1, <1>2

-----------------------------------------------------------------------------
(* Rounds                                                                    *)

\* What holds at 0 and is handed on at every step holds up to any number.
LEMMA Upward ==
    ASSUME NEW n \in Nat, NEW good, 0 \in good, \A k \in 1 .. n : k - 1 \in good => k \in good
    PROVE  \A k \in 0 .. n : k \in good
<1> DEFINE bad == {k \in 0 .. n : k \notin good}
<1> SUFFICES ASSUME bad # {} PROVE FALSE
    OBVIOUS
<1>1. PICK k \in bad : \A m \in bad : k <= m
    <2>1. bad \in SUBSET Nat
        OBVIOUS
    <2> HIDE DEF bad
    <2> QED BY <2>1, LeastNumber
<1>2. k \in 1 .. n
    OBVIOUS
<1>3. k - 1 \in good
    BY <1>1, <1>2
<1> QED BY <1>2, <1>3

Iterates(p, n, S, first, step) ==
    p \in [0 .. n -> S] /\ p[0] = first /\ \A k \in 1 .. n : p[k] = step[k][p[k - 1]]

\* Rounds that lead from a set into it can be repeated any number of times.
LEMMA Iteration ==
    ASSUME NEW n \in Nat, NEW S, NEW first \in S, NEW step \in [1 .. n -> [S -> S]]
    PROVE  \E p : Iterates(p, n, S, first, step)
<1> USE DEF Iterates
<1> DEFINE Upto(p, m) == p[0] = first /\ \A k \in 1 .. m : p[k] = step[k][p[k - 1]]
           good == {m \in 0 .. n : \E p \in [0 .. m -> S] : Upto(p, m)}
<1>1. 0 \in good
    <2> DEFINE p == [k \in 0 .. 0 |-> first]
    <2>1. p \in [0 .. 0 -> S] /\ Upto(p, 0)
        OBVIOUS
    <2> HIDE DEF p, Upto
    <2> QED BY <2>1
<1>2. ASSUME NEW k \in 1 .. n, k - 1 \in good PROVE k \in good
    <2>1. PICK p \in [0 .. k - 1 -> S] : Upto(p, k - 1)
        BY <1>2
    <2> DEFINE q == [i \in 0 .. k |-> IF i < k THEN p[i] ELSE step[k][p[k - 1]]]
    <2>2. p[k - 1] \in S /\ step[k] \in [S -> S]
        OBVIOUS
    <2>3. step[k][p[k - 1]] \in S
        BY <2>2
    <2>4. q \in [0 .. k -> S]
        BY <2>3
    <2>5. ASSUME NEW i \in 1 .. k PROVE q[i] = step[i][q[i - 1]]
        <3>1. CASE i < k
            <4>1. q[i] = p[i] /\ q[i - 1] = p[i - 1] /\ i \in 1 .. k - 1
                BY <3>1
            <4> QED BY <4>1, <2>1
        <3>2. CASE i = k
            <4>1. q[k] = step[k][p[k - 1]] /\ q[k - 1] = p[k - 1]
                OBVIOUS
            <4> QED BY <3>2, <4>1
        <3> QED BY <3>1, <3>2
    <2>6. q[0] = first
        BY <2>1
    <2> HIDE DEF q
    <2>7. Upto(q, k) /\ k \in 0 .. n
        BY <2>5, <2>6
    <2> HIDE DEF Upto
    <2> QED BY <2>4, <2>7
<1>3. \A k \in 0 .. n : k \in good
    <2> HIDE DEF good
    <2>1. \A k \in 1 .. n : k - 1 \in good => k \in good
        BY <1>2
    <2> QED BY <1>1, <2>1, Upward, Zenon
<1> QED BY <1>3

\* A power of a positive number is a positive number.
LEMMA PowerType ==
    ASSUME NEW b \in Nat \ {0}, NEW n \in Nat
    PROVE  Power(b, n) \in Nat \ {0}
<1> DEFINE Def(p) == p = [k \in 0 .. n |-> IF k = 0 THEN 1 ELSE b * p[k - 1]]
           pos == Nat \ {0}
           step == [k \in 1 .. n |-> [x \in pos |-> b * x]]
<1>1. \A x \in pos : b * x \in pos
    OBVIOUS
<1>2. step \in [1 .. n -> [pos -> pos]]
    BY <1>1
<1>3. PICK p : Iterates(p, n, pos, 1, step)
    <2>1. 1 \in pos
        OBVIOUS
    <2> HIDE DEF step, pos
    <2> QED BY <1>2, <2>1, Iteration
<1>4. Def(p)
    <2>1. ASSUME NEW k \in 1 .. n PROVE p[k] = b * p[k - 1]
        <3>1. p[k - 1] \in pos
            BY <1>3 DEF Iterates
        <3>2. p[k] = step[k][p[k - 1]]
            BY <1>3 DEF Iterates
        <3> QED BY <3>1, <3>2
    <2> QED BY <1>3, <2>1 DEF Iterates
<1> DEFINE q == CHOOSE p2 : Def(p2)
<1>5. Def(q)
    BY <1>4
<1>6. Power(b, n) = q[n]
    BY DEF Power
<1> DEFINE good == {k \in 0 .. n : q[k] \in pos}
<1> HIDE DEF q
<1>7. 0 \in good
    BY <1>5
<1>8. ASSUME NEW k \in 1 .. n, k - 1 \in good PROVE k \in good
    <2>1. q[k] = b * q[k - 1]
        BY <1>5
    <2> QED BY <1>1, <1>8, <2>1
<1>9. \A k \in 0 .. n : k \in good
    <2> HIDE DEF good
    <2>1. \A k \in 1 .. n : k - 1 \in good => k \in good
        BY <1>8
    <2> QED BY <1>7, <2>1, Upward, Zenon
<1> QED BY <1>6, <1>9

-----------------------------------------------------------------------------
(* Shares                                                                    *)

\* A fraction rounds to an integer, and nothing rounds to nothing.
LEMMA WholeType ==
    ASSUME NEW s, s.num \in Int, s.den \in Nat \ {0}
    PROVE  Whole(s) \in Int /\ (s.num = 0 => Whole(s) = 0)
<1> DEFINE q == (2 * Abs(s.num) + s.den) \div (2 * s.den)
<1>1. q \in Int
    <2>1. 2 * Abs(s.num) + s.den \in Int /\ 2 * s.den \in Nat \ {0}
        BY DEF Abs
    <2> DEFINE a == 2 * Abs(s.num) + s.den
               b == 2 * s.den
    <2>2. a \in Int /\ b \in Nat \ {0}
        BY <2>1
    <2> HIDE DEF a, b
    <2>3. a \div b \in Int
        BY <2>2
    <2> QED BY <2>3 DEF a, b
<1>2. Whole(s) = Sign(s.num) * q
    BY DEF Whole
<1> HIDE DEF q
<1>3. Sign(s.num) \in {-1, 0, 1} /\ (s.num = 0 => Sign(s.num) = 0)
    BY DEF Sign
<1> QED BY <1>1, <1>2, <1>3

\* A split in proportion to weights gives everybody a fraction.
LEMMA WeightedSharesType ==
    ASSUME NEW ids, IsFiniteSet(ids), NEW total \in Int, NEW weights,
           \A c \in ids : weights[c] \in Nat, NEW c \in ids
    PROVE  /\ WeightedShares(total, weights, ids)[c].num \in Int
           /\ WeightedShares(total, weights, ids)[c].den \in Nat \ {0}
<1> DEFINE sum == Total(weights, ids)
<1>1. sum \in Nat
    BY TotalNat
<1>2. Cardinality(ids) \in Nat
    BY FS_CardinalityType
<1>3. Most(1, Cardinality(ids)) \in Nat \ {0}
    BY <1>2 DEF Most
<1>4. WeightedShares(total, weights, ids)[c] =
          IF sum > 0 THEN Share(total * weights[c], sum)
          ELSE Share(total, Most(1, Cardinality(ids)))
    BY DEF WeightedShares
<1> HIDE DEF sum
<1>5. CASE sum > 0
    <2>1. total * weights[c] \in Int
        OBVIOUS
    <2> QED BY <1>1, <1>4, <1>5, <2>1 DEF Share
<1>6. CASE ~ (sum > 0)
    BY <1>3, <1>4, <1>6 DEF Share
<1> QED BY <1>5, <1>6

Fills(ids) == [free : SUBSET ids, rest : Int]

\* A round fixes some at their ceilings and leaves an integer to split.
LEMMA RoundType ==
    ASSUME NEW ids, IsFiniteSet(ids), NEW weights, \A c \in ids : weights[c] \in Nat,
           NEW ceilings, \A c \in ids \cap DOMAIN ceilings : ceilings[c] \in Int,
           NEW r \in Fills(ids)
    PROVE  /\ Round(r, weights, ceilings) \in Fills(ids)
           /\ Over(r, weights, ceilings) \subseteq r.free \cap DOMAIN ceilings
           /\ Round(r, weights, ceilings).free = r.free \ Over(r, weights, ceilings)
           /\ Round(r, weights, ceilings).rest
                = r.rest - Total(ceilings, Over(r, weights, ceilings))
<1> DEFINE over == Over(r, weights, ceilings)
<1>1. r.free \subseteq ids /\ r.rest \in Int
    BY DEF Fills
<1>2. over \subseteq r.free \cap DOMAIN ceilings
    BY DEF Over
<1>3. IsFiniteSet(over)
    BY <1>1, <1>2, FS_Subset
<1>4. \A c \in over : ceilings[c] \in Int
    BY <1>1, <1>2
<1>5. Total(ceilings, over) \in Int
    <2> HIDE DEF over
    <2> QED BY <1>3, <1>4, TotalInt
<1>6. Round(r, weights, ceilings) = [free |-> r.free \ over, rest |-> r.rest - Total(ceilings, over)]
    BY DEF Round
<1> HIDE DEF over
<1>7. r.free \ over \in SUBSET ids /\ r.rest - Total(ceilings, over) \in Int
    BY <1>1, <1>5
<1>8. Round(r, weights, ceilings) \in Fills(ids)
    BY <1>6, <1>7 DEF Fills
<1> QED BY <1>2, <1>6, <1>8 DEF over

Rounds(q, total, weights, ids, ceilings) ==
    /\ q[0] = [free |-> ids, rest |-> Abs(total)]
    /\ \A k \in 1 .. Cardinality(ids) : q[k] = Round(q[k - 1], weights, ceilings)
    /\ \A k \in 0 .. Cardinality(ids) : q[k] \in Fills(ids)
    /\ Filled(total, weights, ids, ceilings) = q[Cardinality(ids)]

\* The water-fill is what as many rounds as there are batteries lead to.
LEMMA FilledRounds ==
    ASSUME NEW ids, IsFiniteSet(ids), NEW total \in Int, NEW weights,
           \A c \in ids : weights[c] \in Nat,
           NEW ceilings, \A c \in ids \cap DOMAIN ceilings : ceilings[c] \in Int
    PROVE  \E q : Rounds(q, total, weights, ids, ceilings)
<1> DEFINE n == Cardinality(ids)
           S == Fills(ids)
           first == [free |-> ids, rest |-> Abs(total)]
           next(r) == Round(r, weights, ceilings)
           Def(p) == p = [k \in 0 .. n |-> IF k = 0 THEN first ELSE next(p[k - 1])]
           step == [k \in 1 .. n |-> [r \in S |-> next(r)]]
<1>1. n \in Nat
    BY FS_CardinalityType
<1>2. first \in S
    BY DEF Fills, Abs
<1>3. \A r \in S : next(r) \in S
    BY RoundType
<1>4. Filled(total, weights, ids, ceilings) = (CHOOSE p : Def(p))[n]
    BY DEF Filled
<1> HIDE DEF n, S, first, next
<1>5. step \in [1 .. n -> [S -> S]]
    BY <1>3
<1>6. PICK p : Iterates(p, n, S, first, step)
    <2> HIDE DEF step
    <2> QED BY <1>1, <1>2, <1>5, Iteration
<1>7. Def(p)
    <2>1. ASSUME NEW k \in 1 .. n PROVE p[k] = next(p[k - 1])
        <3>1. p[k - 1] \in S
            BY <1>1, <1>6 DEF Iterates
        <3>2. p[k] = step[k][p[k - 1]]
            BY <1>6 DEF Iterates
        <3> QED BY <3>1, <3>2
    <2> QED BY <1>6, <2>1 DEF Iterates
<1> DEFINE q == CHOOSE p2 : Def(p2)
<1>8. Def(q)
    BY <1>7
<1> HIDE DEF q
<1>9. q[0] = first /\ \A k \in 1 .. n : q[k] = next(q[k - 1])
    BY <1>1, <1>8
<1> DEFINE good == {k \in 0 .. n : q[k] \in S}
<1>10. \A k \in 0 .. n : k \in good
    <2>1. 0 \in good
        BY <1>1, <1>2, <1>9
    <2>2. \A k \in 1 .. n : k - 1 \in good => k \in good
        BY <1>1, <1>3, <1>9
    <2> HIDE DEF good
    <2> QED BY <1>1, <2>1, <2>2, Upward, Zenon
<1>11. Filled(total, weights, ids, ceilings) = q[n]
    BY <1>4 DEF q
<1>12. \A k \in 0 .. n : q[k] \in S
    BY <1>10
<1> QED BY <1>9, <1>11, <1>12 DEF Rounds, n, S, first, next

\* What the water-fill ends with: some are fixed, at a ceiling they have.
LEMMA FilledType ==
    ASSUME NEW ids, IsFiniteSet(ids), NEW total \in Int, NEW weights,
           \A c \in ids : weights[c] \in Nat,
           NEW ceilings, \A c \in ids \cap DOMAIN ceilings : ceilings[c] \in Int
    PROVE  /\ Filled(total, weights, ids, ceilings) \in Fills(ids)
           /\ ids \ Filled(total, weights, ids, ceilings).free \subseteq DOMAIN ceilings
<1> DEFINE n == Cardinality(ids)
<1>1. n \in Nat
    BY FS_CardinalityType
<1>2. PICK q : Rounds(q, total, weights, ids, ceilings)
    BY FilledRounds
<1> DEFINE good == {k \in 0 .. n : ids \ q[k].free \subseteq DOMAIN ceilings}
<1>3. \A k \in 0 .. n : k \in good
    <2>1. 0 \in good
        BY <1>1, <1>2 DEF Rounds
    <2>2. ASSUME NEW k \in 1 .. n, k - 1 \in good PROVE k \in good
        <3>1. q[k - 1] \in Fills(ids) /\ q[k] = Round(q[k - 1], weights, ceilings)
            BY <1>1, <1>2, <2>2 DEF Rounds
        <3>2. /\ q[k].free = q[k - 1].free \ Over(q[k - 1], weights, ceilings)
              /\ Over(q[k - 1], weights, ceilings) \subseteq DOMAIN ceilings
            BY <3>1, RoundType
        <3> QED BY <2>2, <3>2
    <2> HIDE DEF good
    <2>3. \A k \in 1 .. n : k - 1 \in good => k \in good
        BY <2>2
    <2> QED BY <1>1, <2>1, <2>3, Upward, Zenon
<1>4. n \in good
    BY <1>1, <1>3
<1> QED BY <1>1, <1>2, <1>4 DEF Rounds

\* Water-filled shares are fractions.
LEMMA CappedSharesType ==
    ASSUME NEW ids, IsFiniteSet(ids), NEW total \in Int, NEW weights,
           \A c \in ids : weights[c] \in Nat,
           NEW ceilings, \A c \in ids \cap DOMAIN ceilings : ceilings[c] \in Int,
           NEW c \in ids
    PROVE  /\ CappedShares(total, weights, ids, ceilings)[c].num \in Int
           /\ CappedShares(total, weights, ids, ceilings)[c].den \in Nat \ {0}
<1> DEFINE f == Filled(total, weights, ids, ceilings)
           shares == WeightedShares(f.rest, weights, f.free)
<1>1. f.free \subseteq ids /\ f.rest \in Int /\ ids \ f.free \subseteq DOMAIN ceilings
    BY FilledType DEF Fills
<1>2. CappedShares(total, weights, ids, ceilings)[c] =
          IF c \in f.free THEN Share(Sign(total) * shares[c].num, shares[c].den)
          ELSE Share(Sign(total) * ceilings[c], 1)
    BY DEF CappedShares
<1> HIDE DEF f
<1>3. Sign(total) \in Int
    BY DEF Sign
<1>4. CASE c \in f.free
    <2>1. IsFiniteSet(f.free)
        BY <1>1, FS_Subset
    <2>2. shares[c].num \in Int /\ shares[c].den \in Nat \ {0}
        <3>1. \A d \in f.free : weights[d] \in Nat
            BY <1>1
        <3> QED BY <1>1, <1>4, <2>1, <3>1, WeightedSharesType
    <2> HIDE DEF shares
    <2> QED BY <1>2, <1>3, <1>4, <2>2 DEF Share
<1>5. CASE c \notin f.free
    <2>1. ceilings[c] \in Int
        BY <1>1, <1>5
    <2>2. Sign(total) * ceilings[c] \in Int
        BY <1>3, <2>1
    <2> QED BY <1>2, <1>5, <2>2 DEF Share
<1> QED BY <1>4, <1>5

-----------------------------------------------------------------------------
(* The water-fill is max-min fair                                            *)

\* The level of a water-fill is what is left over the weight of the free: r / v.
\* Fixing some at less than the level (e of their u, over all of it) never
\* lowers it, so that a ceiling below it once (a of a weight w) stays below.
LEMMA LevelRises ==
    ASSUME NEW r \in Int, NEW v \in Nat \ {0}, NEW u \in Nat, u <= v, NEW e \in Int,
           NEW a \in Int, NEW w \in Nat, a * v <= r * w, e * v <= r * u
    PROVE  a * (v - u) <= (r - e) * w
<1>1. (a * v) * (v - u) <= (r * w) * (v - u)
    <2> DEFINE x == a * v
               y == r * w
               z == v - u
    <2>1. x \in Int /\ y \in Int /\ z \in Nat /\ x <= y
        OBVIOUS
    <2> HIDE DEF x, y, z
    <2>2. x * z <= y * z
        BY <2>1
    <2> QED BY <2>2 DEF x, y, z
<1>2. (e * v) * w <= (r * u) * w
    <2> DEFINE x == e * v
               y == r * u
    <2>1. x \in Int /\ y \in Int /\ x <= y
        OBVIOUS
    <2> HIDE DEF x, y
    <2>2. x * w <= y * w
        BY <2>1
    <2> QED BY <2>2 DEF x, y
<1>3. (a * (v - u)) * v = (a * v) * (v - u)
    OBVIOUS
<1>4. ((r - e) * w) * v = (r * w) * (v - u) + (r * u) * w - (e * v) * w
    OBVIOUS
<1>5. (a * (v - u)) * v <= ((r - e) * w) * v
    <2>1. (a * v) * (v - u) \in Int /\ (r * w) * (v - u) \in Int /\ (r * u) * w \in Int /\ (e * v) * w \in Int
        OBVIOUS
    <2> QED BY <1>1, <1>2, <1>3, <1>4, <2>1
<1> DEFINE x == a * (v - u)
           y == (r - e) * w
<1>6. x \in Int /\ y \in Int /\ x * v <= y * v
    BY <1>5
<1> HIDE DEF x, y
<1>7. x <= y
    BY <1>6
<1> QED BY <1>7 DEF x, y

\* Whoever was fixed would get at least its ceiling at the level of the others.
Level(r, weights, ids, ceilings) ==
    r.free # {} =>
        \A c \in ids \ r.free : ceilings[c] * Total(weights, r.free) <= r.rest * weights[c]

\* What a round fixes takes at most its part of the rest.
LEMMA RoundTakes ==
    ASSUME NEW ids, IsFiniteSet(ids), NEW weights, \A c \in ids : weights[c] \in Nat \ {0},
           NEW ceilings, DOMAIN ceilings = ids, \A c \in ids : ceilings[c] \in Nat,
           NEW r \in Fills(ids), r.free # {}
    PROVE  LET over == Over(r, weights, ceilings)
               all == Total(weights, r.free)
               fixed == Total(weights, over)
               taken == Total(ceilings, over)
           IN  /\ all \in Nat \ {0} /\ fixed \in Nat /\ taken \in Nat /\ fixed <= all
               /\ Total(weights, r.free \ over) = all - fixed
               /\ \A d \in over : ceilings[d] * all <= r.rest * weights[d]
               /\ taken * all <= r.rest * fixed
<1> DEFINE over == Over(r, weights, ceilings)
           all == Total(weights, r.free)
           fixed == Total(weights, over)
           taken == Total(ceilings, over)
<1>1. r.free \subseteq ids /\ r.rest \in Int /\ over \subseteq r.free
    BY RoundType DEF Fills
<1>2. IsFiniteSet(r.free) /\ IsFiniteSet(over)
    BY <1>1, FS_Subset
<1>3. all \in Nat /\ \A d \in r.free : weights[d] <= all
    BY <1>1, <1>2, TotalNat
<1>4. all \in Nat \ {0}
    BY <1>1, <1>3
<1>5. fixed \in Nat /\ taken \in Nat
    <2> HIDE DEF over
    <2>1. \A d \in over : weights[d] \in Nat /\ ceilings[d] \in Nat
        BY <1>1
    <2> QED BY <1>2, <2>1, TotalNat
<1>6. all = fixed + Total(weights, r.free \ over) /\ Total(weights, r.free \ over) \in Nat
    <2> HIDE DEF over
    <2>1. \A d \in r.free : weights[d] \in Int
        BY <1>1
    <2>2. Total(weights, r.free) = Total(weights, over) + Total(weights, r.free \ over)
        BY <1>1, <1>2, <2>1, TotalSplit
    <2>3. Total(weights, r.free \ over) \in Nat
        BY <1>1, <1>2, FS_Difference, TotalNat
    <2> QED BY <2>2, <2>3
<1>7. \A d \in over : ceilings[d] * all <= r.rest * weights[d]
    <2> SUFFICES ASSUME NEW d \in over PROVE ceilings[d] * all <= r.rest * weights[d]
        OBVIOUS
    <2>1. Less(Share(ceilings[d], 1), WeightedShares(r.rest, weights, r.free)[d]) /\ d \in r.free
        BY DEF Over
    <2>2. WeightedShares(r.rest, weights, r.free)[d] = Share(r.rest * weights[d], all)
        BY <1>4, <2>1 DEF WeightedShares
    <2>3. ceilings[d] * all < (r.rest * weights[d]) * 1
        BY <2>1, <2>2 DEF Less, Share
    <2>4. ceilings[d] \in Nat /\ weights[d] \in Nat
        BY <1>1
    <2> HIDE DEF all
    <2>5. ceilings[d] * all \in Int /\ r.rest * weights[d] \in Int
        BY <1>1, <1>4, <2>4
    <2> QED BY <2>3, <2>5
<1>8. taken * all <= r.rest * fixed
    <2>1. \A d \in over : ceilings[d] \in Int /\ weights[d] \in Int
                            /\ ceilings[d] * all <= r.rest * weights[d]
        BY <1>1, <1>7
    <2>2. all \in Int /\ r.rest \in Int
        BY <1>1, <1>4
    <2> HIDE DEF over, all
    <2> QED BY <1>2, <2>1, <2>2, TotalScaled, Zenon
<1> HIDE DEF all, fixed, taken, over
<1>9. fixed <= all /\ Total(weights, r.free \ over) = all - fixed
    BY <1>4, <1>5, <1>6
<1> QED BY <1>4, <1>5, <1>7, <1>8, <1>9 DEF all, fixed, taken, over

\* A round that leaves somebody free keeps it so.
LEMMA RoundKeepsLevel ==
    ASSUME NEW ids, IsFiniteSet(ids), NEW weights, \A c \in ids : weights[c] \in Nat \ {0},
           NEW ceilings, DOMAIN ceilings = ids, \A c \in ids : ceilings[c] \in Nat,
           NEW r \in Fills(ids), Level(r, weights, ids, ceilings)
    PROVE  Level(Round(r, weights, ceilings), weights, ids, ceilings)
<1> DEFINE over == Over(r, weights, ceilings)
           s == Round(r, weights, ceilings)
           all == Total(weights, r.free)
           fixed == Total(weights, over)
           taken == Total(ceilings, over)
<1>1. /\ r.rest \in Int /\ over \subseteq r.free
      /\ s.free = r.free \ over /\ s.rest = r.rest - taken
    BY RoundType DEF Fills
<1> SUFFICES ASSUME s.free # {}, NEW c \in ids \ s.free
             PROVE  ceilings[c] * Total(weights, s.free) <= s.rest * weights[c]
    BY DEF Level
<1>2. r.free # {}
    BY <1>1
<1>3. /\ all \in Nat \ {0} /\ fixed \in Nat /\ taken \in Nat /\ fixed <= all
      /\ Total(weights, s.free) = all - fixed
      /\ \A d \in over : ceilings[d] * all <= r.rest * weights[d]
      /\ taken * all <= r.rest * fixed
    <2>1. /\ all \in Nat \ {0} /\ fixed \in Nat /\ taken \in Nat /\ fixed <= all
          /\ Total(weights, r.free \ over) = all - fixed
          /\ \A d \in over : ceilings[d] * all <= r.rest * weights[d]
          /\ taken * all <= r.rest * fixed
        BY <1>2, RoundTakes
    <2>2. s.free = r.free \ over
        BY <1>1
    <2> HIDE DEF all, fixed, taken, over, s
    <2> QED BY <2>1, <2>2
<1>4. ceilings[c] * all <= r.rest * weights[c]
    <2>1. CASE c \in over
        BY <1>3, <2>1
    <2>2. CASE c \notin over
        <3>1. c \in ids \ r.free
            BY <1>1, <2>2
        <3> QED BY <1>2, <3>1 DEF Level
    <2> QED BY <2>1, <2>2
<1>5. ceilings[c] \in Int /\ weights[c] \in Nat
    OBVIOUS
<1> HIDE DEF all, fixed, taken, over, s
<1>6. ceilings[c] * (all - fixed) <= (r.rest - taken) * weights[c]
    BY <1>1, <1>3, <1>4, <1>5, LevelRises
<1> QED BY <1>1, <1>3, <1>6

\* A round moves power between what is fixed and what is left, and never takes
\* more than is left.
Balanced(r, total, ids, ceilings) ==
    r.rest >= 0 /\ r.rest + Total(ceilings, ids \ r.free) = Abs(total)

LEMMA RoundKeepsBalance ==
    ASSUME NEW ids, IsFiniteSet(ids), NEW total \in Int,
           NEW weights, \A c \in ids : weights[c] \in Nat \ {0},
           NEW ceilings, DOMAIN ceilings = ids, \A c \in ids : ceilings[c] \in Nat,
           NEW r \in Fills(ids), Balanced(r, total, ids, ceilings)
    PROVE  Balanced(Round(r, weights, ceilings), total, ids, ceilings)
<1> DEFINE over == Over(r, weights, ceilings)
           s == Round(r, weights, ceilings)
           taken == Total(ceilings, over)
<1>1. /\ r.free \subseteq ids /\ r.rest \in Int /\ over \subseteq r.free
      /\ s.free = r.free \ over /\ s.rest = r.rest - taken
    BY RoundType DEF Fills
<1>2. taken \in Nat /\ taken <= r.rest
    <2>1. CASE r.free = {}
        <3>1. over = {}
            BY <1>1, <2>1
        <3>2. taken = 0
            BY <3>1, TotalChoice, FS_EmptySet
        <3> QED BY <3>2 DEF Balanced
    <2>2. CASE r.free # {}
        <3> DEFINE all == Total(weights, r.free)
                   fixed == Total(weights, over)
        <3>1. /\ all \in Nat \ {0} /\ fixed \in Nat /\ taken \in Nat /\ fixed <= all
              /\ taken * all <= r.rest * fixed
            BY <2>2, RoundTakes
        <3>2. r.rest \in Nat
            BY <1>1 DEF Balanced
        <3> HIDE DEF all, fixed, taken
        <3>3. r.rest * fixed <= r.rest * all
            BY <3>1, <3>2
        <3>4. taken * all <= r.rest * all
            <4>1. taken * all \in Int /\ r.rest * fixed \in Int /\ r.rest * all \in Int
                BY <3>1, <3>2
            <4> QED BY <3>1, <3>3, <4>1
        <3>5. taken <= r.rest
            BY <3>1, <3>2, <3>4
        <3> QED BY <3>1, <3>5
    <2> QED BY <2>1, <2>2
<1>3. Total(ceilings, ids \ s.free) = taken + Total(ceilings, ids \ r.free)
    <2> DEFINE whole == ids \ s.free
    <2>1. over \in SUBSET whole /\ whole \ over = ids \ r.free /\ whole \subseteq ids
        BY <1>1
    <2>2. IsFiniteSet(whole) /\ \A d \in whole : ceilings[d] \in Int
        BY <2>1, FS_Subset
    <2> HIDE DEF whole, over
    <2>3. Total(ceilings, whole) = Total(ceilings, over) + Total(ceilings, whole \ over)
        BY <2>1, <2>2, TotalSplit
    <2> QED BY <2>1, <2>3 DEF whole
<1>4. Total(ceilings, ids \ r.free) \in Int
    <2>1. IsFiniteSet(ids \ r.free) /\ \A d \in ids \ r.free : ceilings[d] \in Int
        BY FS_Subset
    <2> QED BY <2>1, TotalInt
<1> HIDE DEF taken, s, over
<1>5. Balanced(s, total, ids, ceilings)
    BY <1>1, <1>2, <1>3, <1>4 DEF Balanced
<1> QED BY <1>5 DEF s

\* As many rounds as there are batteries are enough: each fixes somebody or
\* nobody is left to fix.
LEMMA RoundsStop ==
    ASSUME NEW ids, IsFiniteSet(ids), NEW total \in Int, NEW weights,
           \A c \in ids : weights[c] \in Nat,
           NEW ceilings, \A c \in ids \cap DOMAIN ceilings : ceilings[c] \in Int
    PROVE  Over(Filled(total, weights, ids, ceilings), weights, ceilings) = {}
<1> DEFINE n == Cardinality(ids)
           over(r) == Over(r, weights, ceilings)
<1>1. n \in Nat
    BY FS_CardinalityType
<1>2. PICK q : Rounds(q, total, weights, ids, ceilings)
    BY FilledRounds
<1> DEFINE good == {k \in 0 .. n : over(q[k]) = {} \/ Cardinality(q[k].free) <= n - k}
<1>3. \A k \in 0 .. n : q[k].free \subseteq ids /\ q[k].rest \in Int /\ IsFiniteSet(q[k].free)
    BY <1>2, FS_Subset DEF Rounds, Fills
<1>4. \A k \in 0 .. n : k \in good
    <2>1. 0 \in good
        BY <1>1, <1>2 DEF Rounds
    <2>2. ASSUME NEW k \in 1 .. n, k - 1 \in good PROVE k \in good
        <3> DEFINE r == q[k - 1]
                   s == q[k]
        <3>1. r \in Fills(ids) /\ s = Round(r, weights, ceilings) /\ s \in Fills(ids)
            BY <1>1, <1>2, <2>2 DEF Rounds
        <3>2. /\ over(r) \subseteq r.free /\ s.free = r.free \ over(r)
              /\ s.rest = r.rest - Total(ceilings, over(r))
            BY <3>1, RoundType
        <3>3. k - 1 \in 0 .. n
            BY <1>1, <2>2
        <3>4. CASE over(r) = {}
            <4>1. Total(ceilings, over(r)) = 0
                BY <3>4, TotalChoice, FS_EmptySet
            <4>2. s.free = r.free /\ s.rest = r.rest
                BY <1>3, <3>2, <3>3, <3>4, <4>1
            <4>3. over(s) = over(r)
                BY <4>2 DEF Over
            <4> QED BY <3>4, <4>3
        <3>5. CASE over(r) # {}
            <4>1. PICK d \in over(r) : TRUE
                BY <3>5
            <4>2. s.free \subseteq r.free \ {d} /\ d \in r.free /\ IsFiniteSet(r.free)
                BY <1>3, <3>2, <3>3, <4>1
            <4>3. /\ Cardinality(r.free \ {d}) = Cardinality(r.free) - 1
                  /\ IsFiniteSet(r.free \ {d})
                BY <4>2, FS_RemoveElement
            <4>4. Cardinality(s.free) <= Cardinality(r.free \ {d})
                BY <4>2, <4>3, FS_Subset
            <4>5. Cardinality(r.free) <= n - (k - 1)
                BY <2>2, <3>5
            <4>6. Cardinality(s.free) \in Nat /\ Cardinality(r.free) \in Nat
                BY <1>3, <3>3, <4>2, FS_CardinalityType
            <4>7. Cardinality(s.free) <= n - k
                <5> HIDE DEF r, s, n
                <5> QED BY <1>1, <4>3, <4>4, <4>5, <4>6
            <4> QED BY <4>7
        <3> QED BY <3>4, <3>5
    <2> HIDE DEF good
    <2>3. \A k \in 1 .. n : k - 1 \in good => k \in good
        BY <2>2
    <2> QED BY <1>1, <2>1, <2>3, Upward, Zenon
<1>5. n \in 0 .. n
    BY <1>1
<1>6. over(q[n]) = {}
    <2>1. CASE Cardinality(q[n].free) <= n - n
        <3>1. Cardinality(q[n].free) = 0
            BY <1>1, <1>3, <1>5, <2>1, FS_CardinalityType
        <3>2. q[n].free = {}
            BY <1>3, <1>5, <3>1, FS_EmptySet
        <3> QED BY <3>2 DEF Over
    <2>2. CASE ~ (Cardinality(q[n].free) <= n - n)
        <3>1. n \in good
            BY <1>4, <1>5
        <3> QED BY <2>2, <3>1
    <2> QED BY <2>1, <2>2
<1> QED BY <1>2, <1>6 DEF Rounds

\* The water-fill is max-min fair: nobody is left past its ceiling, and whoever
\* was fixed would have got at least that at the level of the others.
THEOREM FilledIsFair ==
    ASSUME NEW ids, IsFiniteSet(ids), NEW total \in Int,
           NEW weights, \A c \in ids : weights[c] \in Nat \ {0},
           NEW ceilings, DOMAIN ceilings = ids, \A c \in ids : ceilings[c] \in Nat
    PROVE  LET f == Filled(total, weights, ids, ceilings)
               free == Total(weights, f.free)
           IN  /\ \A c \in f.free : f.rest * weights[c] <= ceilings[c] * free
               /\ f.free # {} => \A c \in ids \ f.free : f.rest * weights[c] >= ceilings[c] * free
<1> DEFINE n == Cardinality(ids)
           f == Filled(total, weights, ids, ceilings)
           free == Total(weights, f.free)
<1>1. n \in Nat
    BY FS_CardinalityType
<1>2. PICK q : Rounds(q, total, weights, ids, ceilings)
    BY FilledRounds
<1>3. f \in Fills(ids)
    BY FilledType
<1>4. f.free \subseteq ids /\ f.rest \in Int /\ IsFiniteSet(f.free)
    BY <1>3, FS_Subset DEF Fills
<1>5. Level(f, weights, ids, ceilings)
    <2> DEFINE good == {k \in 0 .. n : Level(q[k], weights, ids, ceilings)}
    <2>1. 0 \in good
        BY <1>1, <1>2 DEF Rounds, Level
    <2>2. \A k \in 1 .. n : k - 1 \in good => k \in good
        <3> SUFFICES ASSUME NEW k \in 1 .. n, k - 1 \in good PROVE k \in good
            OBVIOUS
        <3>1. q[k - 1] \in Fills(ids) /\ q[k] = Round(q[k - 1], weights, ceilings)
            BY <1>1, <1>2 DEF Rounds
        <3> QED BY <3>1, RoundKeepsLevel
    <2>3. \A k \in 0 .. n : k \in good
        <3> HIDE DEF good
        <3> QED BY <1>1, <2>1, <2>2, Upward, Zenon
    <2>4. f = q[n] /\ n \in good
        BY <1>1, <1>2, <2>3 DEF Rounds
    <2> QED BY <2>4
<1>6. free \in Nat
    BY <1>4, TotalNat
<1>7. ASSUME NEW c \in f.free PROVE f.rest * weights[c] <= ceilings[c] * free
    <2>1. free \in Nat \ {0}
        <3>1. weights[c] <= free
            BY <1>4, TotalNat
        <3>2. weights[c] \in Nat \ {0}
            BY <1>4
        <3> QED BY <1>6, <3>1, <3>2
    <2>2. ~ Less(Share(ceilings[c], 1), WeightedShares(f.rest, weights, f.free)[c])
        <3>1. Over(f, weights, ceilings) = {}
            BY RoundsStop
        <3> HIDE DEF f
        <3> QED BY <1>4, <3>1 DEF Over
    <2> HIDE DEF f
    <2>3. WeightedShares(f.rest, weights, f.free)[c] = Share(f.rest * weights[c], free)
        BY <2>1 DEF WeightedShares
    <2>4. ~ (ceilings[c] * free < (f.rest * weights[c]) * 1)
        BY <2>2, <2>3 DEF Less, Share
    <2> HIDE DEF free
    <2>5. ceilings[c] * free \in Int /\ f.rest * weights[c] \in Int
        BY <1>4, <2>1
    <2> QED BY <2>4, <2>5
<1>8. ASSUME f.free # {}, NEW c \in ids \ f.free PROVE f.rest * weights[c] >= ceilings[c] * free
    <2>1. ceilings[c] * free <= f.rest * weights[c]
        BY <1>5, <1>8 DEF Level
    <2> HIDE DEF f
    <2>2. ceilings[c] * free \in Int /\ f.rest * weights[c] \in Int
        <3> HIDE DEF free
        <3> QED BY <1>4, <1>6
    <2> QED BY <2>1, <2>2
<1> QED BY <1>7, <1>8

\* The water-filled shares cover the total: what is fixed and what is left to
\* split add up to it, and each share has the total's direction and stays within
\* its ceiling.  So the pool falls short only when everybody is at a ceiling.
THEOREM SharesCover ==
    ASSUME NEW ids, IsFiniteSet(ids), NEW total \in Int,
           NEW weights, \A c \in ids : weights[c] \in Nat \ {0},
           NEW ceilings, DOMAIN ceilings = ids, \A c \in ids : ceilings[c] \in Nat
    PROVE  LET f == Filled(total, weights, ids, ceilings)
               shares == CappedShares(total, weights, ids, ceilings)
           IN  /\ f.rest + Total(ceilings, ids \ f.free) = Abs(total)
               /\ \A c \in ids :
                    /\ 0 <= shares[c].num * Sign(total)
                    /\ shares[c].num * Sign(total) <= ceilings[c] * shares[c].den
<1> DEFINE n == Cardinality(ids)
           f == Filled(total, weights, ids, ceilings)
           split == WeightedShares(f.rest, weights, f.free)
           shares == CappedShares(total, weights, ids, ceilings)
<1>1. n \in Nat
    BY FS_CardinalityType
<1>2. PICK q : Rounds(q, total, weights, ids, ceilings)
    BY FilledRounds
<1> DEFINE good == {k \in 0 .. n : Balanced(q[k], total, ids, ceilings)}
<1>3. 0 \in good
    <2>1. q[0].rest = Abs(total) /\ ids \ q[0].free = {}
        BY <1>2 DEF Rounds
    <2>2. Total(ceilings, {}) = 0
        BY TotalChoice, FS_EmptySet
    <2>3. Abs(total) \in Nat
        BY DEF Abs
    <2>4. Balanced(q[0], total, ids, ceilings)
        BY <2>1, <2>2, <2>3 DEF Balanced
    <2> QED BY <1>1, <2>4
<1>4. \A k \in 1 .. n : k - 1 \in good => k \in good
    <2> SUFFICES ASSUME NEW k \in 1 .. n, k - 1 \in good PROVE k \in good
        OBVIOUS
    <2>1. q[k - 1] \in Fills(ids) /\ q[k] = Round(q[k - 1], weights, ceilings)
        BY <1>1, <1>2 DEF Rounds
    <2>2. Balanced(q[k], total, ids, ceilings)
        BY <2>1, RoundKeepsBalance
    <2> QED BY <2>2
<1>5. n \in good
    <2>1. n \in 0 .. n
        BY <1>1
    <2> HIDE DEF good
    <2>2. \A k \in 0 .. n : k \in good
        BY <1>1, <1>3, <1>4, Upward, Zenon
    <2> QED BY <2>1, <2>2
<1>6. Balanced(f, total, ids, ceilings)
    BY <1>2, <1>5 DEF Rounds
<1>7. f.free \subseteq ids /\ f.rest \in Nat
    <2>1. f.free \subseteq ids /\ f.rest \in Int
        BY FilledType DEF Fills
    <2> QED BY <1>6, <2>1 DEF Balanced
<1>8. \A c \in f.free : f.rest * weights[c] <= ceilings[c] * Total(weights, f.free)
    BY FilledIsFair
<1>9. ASSUME NEW c \in ids
      PROVE  /\ 0 <= shares[c].num * Sign(total)
             /\ shares[c].num * Sign(total) <= ceilings[c] * shares[c].den
    <2>1. shares[c] = IF c \in f.free THEN Share(Sign(total) * split[c].num, split[c].den)
                      ELSE Share(Sign(total) * ceilings[c], 1)
        BY DEF CappedShares
    <2>2. Sign(total) \in {-1, 0, 1} /\ ceilings[c] \in Nat /\ weights[c] \in Nat \ {0}
        BY DEF Sign
    <2> DEFINE sign == Sign(total)
    <2> HIDE DEF shares, split
    <2>3. CASE c \in f.free
        <3> DEFINE all == Total(weights, f.free)
                   x == f.rest * weights[c]
        <3>1. all \in Nat /\ weights[c] <= all
            <4> HIDE DEF f
            <4>1. IsFiniteSet(f.free) /\ \A d \in f.free : weights[d] \in Nat
                BY <1>7, FS_Subset
            <4> QED BY <2>3, <4>1, TotalNat
        <3>2. split[c] = Share(x, all)
            BY <2>2, <2>3, <3>1 DEF split, WeightedShares
        <3>3. x \in Nat /\ x <= ceilings[c] * all
            <4> HIDE DEF f
            <4> QED BY <1>7, <1>8, <2>2, <2>3
        <3>4. shares[c].num = sign * x /\ shares[c].den = all
            BY <2>1, <2>3, <3>2 DEF Share
        <3>5. 0 <= sign * x * sign /\ sign * x * sign <= x
            <4> HIDE DEF x, sign
            <4> QED BY <2>2, <3>3 DEF sign
        <3> HIDE DEF x, all
        <3>6. sign * x * sign <= ceilings[c] * all
            <4>1. sign * x * sign \in Int /\ ceilings[c] * all \in Int
                BY <2>2, <3>1, <3>3
            <4> QED BY <3>3, <3>5, <4>1
        <3> QED BY <3>4, <3>5, <3>6
    <2>4. CASE c \notin f.free
        <3>1. shares[c].num = sign * ceilings[c] /\ shares[c].den = 1
            BY <2>1, <2>4 DEF Share
        <3> HIDE DEF sign
        <3>2. 0 <= sign * ceilings[c] * sign /\ sign * ceilings[c] * sign <= ceilings[c] * 1
            BY <2>2 DEF sign
        <3> QED BY <3>1, <3>2 DEF sign
    <2> QED BY <2>3, <2>4
<1> QED BY <1>6, <1>9 DEF Balanced

-----------------------------------------------------------------------------
(* The minimum-power subset                                                  *)

Met(shares, floors, c) == Share(shares[c].num, shares[c].den * floors[c])
Worse(shares, floors, c, d) ==
    \/ Less(Met(shares, floors, c), Met(shares, floors, d))
    \/ ~Less(Met(shares, floors, d), Met(shares, floors, c)) /\ c < d
Short(r, demand, weights, ceilings, floors) ==
    {c \in r : floors[c] > 0 /\ Under(CappedShares(Abs(demand), weights, r, ceilings)[c], floors[c])}

\* A round of the subset: the furthest below its floor idles.
Left(r, demand, weights, ceilings, floors) ==
    LET shares == CappedShares(Abs(demand), weights, r, ceilings)
        short == Short(r, demand, weights, ceilings, floors)
    IN  {c \in r : c \in short => \E d \in short : Worse(shares, floors, d, c)}

\* Fractions are compared by cross-multiplying; that is transitive.
LEMMA LessTransitive ==
    ASSUME NEW a \in Int, NEW b \in Nat \ {0}, NEW c \in Int, NEW d \in Nat \ {0},
           NEW e \in Int, NEW f \in Nat \ {0}, a * d <= c * b, c * f <= e * d
    PROVE  a * f <= e * b
<1>1. (a * d) * f <= (c * b) * f
    <2> DEFINE x == a * d
               y == c * b
    <2>1. x \in Int /\ y \in Int /\ x <= y
        OBVIOUS
    <2> HIDE DEF x, y
    <2>2. x * f <= y * f
        BY <2>1
    <2> QED BY <2>2 DEF x, y
<1>2. (c * f) * b <= (e * d) * b
    <2> DEFINE x == c * f
               y == e * d
    <2>1. x \in Int /\ y \in Int /\ x <= y
        OBVIOUS
    <2> HIDE DEF x, y
    <2>2. x * b <= y * b
        BY <2>1
    <2> QED BY <2>2 DEF x, y
<1>3. (a * f) * d = (a * d) * f /\ (c * b) * f = (c * f) * b /\ (e * b) * d = (e * d) * b
    OBVIOUS
<1> DEFINE x == a * f
           y == e * b
<1>4. x \in Int /\ y \in Int /\ x * d <= y * d
    <2>1. (a * d) * f \in Int /\ (c * b) * f \in Int /\ (e * d) * b \in Int
        OBVIOUS
    <2> QED BY <1>1, <1>2, <1>3, <2>1
<1> HIDE DEF x, y
<1>5. x <= y
    BY <1>4
<1> QED BY <1>5 DEF x, y

\* The order in which batteries idle, by fraction and then by number, is one.
LEMMA WorseTransitive ==
    ASSUME NEW T \in SUBSET Nat, NEW shares, NEW floors,
           \A c \in T : /\ shares[c].num \in Int /\ shares[c].den \in Nat \ {0}
                        /\ floors[c] \in Nat \ {0},
           NEW c \in T, NEW d \in T, NEW e \in T,
           Worse(shares, floors, c, d), Worse(shares, floors, d, e)
    PROVE  Worse(shares, floors, c, e)
<1> DEFINE num(x) == shares[x].num
           den(x) == shares[x].den * floors[x]
           Upto(x, y) == num(x) * den(y) <= num(y) * den(x)
<1>1. \A x \in T : num(x) \in Int /\ den(x) \in Nat \ {0}
    OBVIOUS
<1>2. \A x, y \in T : Worse(shares, floors, x, y) <=> ~Upto(y, x) \/ (Upto(x, y) /\ x < y)
    <2> SUFFICES ASSUME NEW x \in T, NEW y \in T
                 PROVE  Worse(shares, floors, x, y) <=> ~Upto(y, x) \/ (Upto(x, y) /\ x < y)
        OBVIOUS
    <2>1. Worse(shares, floors, x, y) <=>
              \/ num(x) * den(y) < num(y) * den(x)
              \/ ~ (num(y) * den(x) < num(x) * den(y)) /\ x < y
        BY DEF Worse, Less, Met, Share
    <2>2. num(x) * den(y) \in Int /\ num(y) * den(x) \in Int
        BY <1>1
    <2> HIDE DEF num, den
    <2> QED BY <2>1, <2>2
<1>3. \A x, y, z \in T : Upto(x, y) /\ Upto(y, z) => Upto(x, z)
    <2> HIDE DEF num, den
    <2> QED BY <1>1, LessTransitive
<1>4. \A x, y \in T : Upto(x, y) \/ Upto(y, x)
    <2> SUFFICES ASSUME NEW x \in T, NEW y \in T PROVE Upto(x, y) \/ Upto(y, x)
        OBVIOUS
    <2> HIDE DEF num, den
    <2>1. num(x) * den(y) \in Int /\ num(y) * den(x) \in Int
        BY <1>1
    <2> QED BY <2>1
<1> HIDE DEF Upto
<1>5. Upto(c, d) /\ Upto(d, e) /\ Upto(c, e)
    BY <1>2, <1>3, <1>4
<1>6. CASE Upto(e, c)
    <2>1. Upto(d, c) /\ Upto(e, d)
        BY <1>3, <1>5, <1>6
    <2>2. c < d /\ d < e
        BY <1>2, <2>1
    <2>3. c < e
        BY <2>2
    <2> QED BY <1>2, <1>5, <2>3
<1>7. CASE ~Upto(e, c)
    BY <1>2, <1>7
<1> QED BY <1>6, <1>7

\* A strict order of a finite set has a first element.
LEMMA SomebodyIsFirst ==
    ASSUME NEW T, IsFiniteSet(T), T # {}, NEW R \in SUBSET (T \X T),
           \A c \in T : <<c, c>> \notin R,
           \A c, d, e \in T : <<c, d>> \in R /\ <<d, e>> \in R => <<c, e>> \in R
    PROVE  \E c \in T : \A d \in T : <<d, c>> \notin R
<1> DEFINE bad == {s \in SUBSET T : s # {} /\ ~ \E c \in s : \A d \in s : <<d, c>> \notin R}
<1> SUFFICES ASSUME bad # {} PROVE FALSE
    <2>1. T \in SUBSET T
        OBVIOUS
    <2> QED BY <2>1
<1>1. PICK t \in bad : \A u \in bad : u \subseteq t => u = t
    <2>1. bad \in SUBSET SUBSET T
        OBVIOUS
    <2> HIDE DEF bad
    <2> QED BY <2>1, LeastSubset
<1>2. PICK x \in t : TRUE
    BY <1>1
<1> DEFINE u == t \ {x}
<1>3. u \notin bad
    <2>1. u \subseteq t /\ u # t
        BY <1>2
    <2> HIDE DEF bad, u
    <2> QED BY <1>1, <2>1
<1>4. CASE u = {}
    <2>1. t = {x} /\ x \in T
        BY <1>1, <1>2, <1>4
    <2> QED BY <1>1, <2>1
<1>5. CASE u # {}
    <2>1. PICK w \in u : \A d \in u : <<d, w>> \notin R
        BY <1>1, <1>3, <1>5
    <2>2. w \in T /\ x \in T /\ u \subseteq T /\ t = u \cup {x}
        BY <1>1, <1>2
    <2>3. CASE <<x, w>> \in R
        <3>1. \A d \in u : <<d, x>> \notin R
            BY <2>1, <2>2, <2>3
        <3>2. \A d \in t : <<d, x>> \notin R
            BY <2>2, <3>1
        <3> QED BY <1>1, <1>2, <3>2
    <2>4. CASE <<x, w>> \notin R
        BY <1>1, <2>1, <2>2, <2>4
    <2> QED BY <2>3, <2>4
<1> QED BY <1>4, <1>5

\* Of those that are short, there is always one furthest below its floor.
LEMMA SomebodyIsWorst ==
    ASSUME NEW T \in SUBSET Nat, IsFiniteSet(T), T # {}, NEW shares, NEW floors,
           \A c \in T : /\ shares[c].num \in Int /\ shares[c].den \in Nat \ {0}
                        /\ floors[c] \in Nat \ {0}
    PROVE  \E c \in T : \A d \in T : ~Worse(shares, floors, d, c)
<1> DEFINE R == {p \in T \X T : Worse(shares, floors, p[1], p[2])}
<1>1. \A c, d \in T : <<c, d>> \in R <=> Worse(shares, floors, c, d)
    OBVIOUS
<1>2. \A c, d, e \in T : <<c, d>> \in R /\ <<d, e>> \in R => <<c, e>> \in R
    <2>1. \A c, d, e \in T : Worse(shares, floors, c, d) /\ Worse(shares, floors, d, e)
                                => Worse(shares, floors, c, e)
        BY WorseTransitive
    <2> HIDE DEF R
    <2> QED BY <1>1, <2>1
<1>3. \A c \in T : <<c, c>> \notin R
    <2> SUFFICES ASSUME NEW c \in T PROVE ~Worse(shares, floors, c, c)
        BY <1>1
    <2>1. Met(shares, floors, c).num * Met(shares, floors, c).den \in Int
        BY DEF Met, Share
    <2>2. ~ (c < c)
        OBVIOUS
    <2> QED BY <2>1, <2>2 DEF Worse, Less
<1>4. R \in SUBSET (T \X T)
    OBVIOUS
<1> HIDE DEF R
<1>5. \E c \in T : \A d \in T : <<d, c>> \notin R
    BY <1>2, <1>3, <1>4, SomebodyIsFirst, Zenon
<1> QED BY <1>1, <1>5

Leavings(q, demand, weights, ids, ceilings, floors) ==
    /\ q[0] = ids
    /\ \A k \in 1 .. Cardinality(ids) : q[k] = Left(q[k - 1], demand, weights, ceilings, floors)
    /\ \A k \in 0 .. Cardinality(ids) : q[k] \in SUBSET ids
    /\ Running(demand, weights, ids, ceilings, floors) = q[Cardinality(ids)]

\* The subset is what as many rounds as there are batteries leave.
LEMMA RunningRounds ==
    ASSUME NEW ids, IsFiniteSet(ids), NEW demand, NEW weights, NEW ceilings, NEW floors
    PROVE  \E q : Leavings(q, demand, weights, ids, ceilings, floors)
<1> DEFINE n == Cardinality(ids)
           S == SUBSET ids
           next(r) == Left(r, demand, weights, ceilings, floors)
           Def(p) == p = [k \in 0 .. n |-> IF k = 0 THEN ids ELSE next(p[k - 1])]
           step == [k \in 1 .. n |-> [r \in S |-> next(r)]]
<1>1. n \in Nat
    BY FS_CardinalityType
<1>2. ids \in S
    OBVIOUS
<1>3. \A r \in S : next(r) \in S
    BY DEF Left
<1>4. Running(demand, weights, ids, ceilings, floors) = (CHOOSE p : Def(p))[n]
    BY DEF Running, Left, Short, Worse, Met
<1> HIDE DEF n, S, next
<1>5. step \in [1 .. n -> [S -> S]]
    BY <1>3
<1>6. PICK p : Iterates(p, n, S, ids, step)
    <2> HIDE DEF step
    <2> QED BY <1>1, <1>2, <1>5, Iteration
<1>7. Def(p)
    <2>1. ASSUME NEW k \in 1 .. n PROVE p[k] = next(p[k - 1])
        <3>1. p[k - 1] \in S
            BY <1>1, <1>6 DEF Iterates
        <3>2. p[k] = step[k][p[k - 1]]
            BY <1>6 DEF Iterates
        <3> QED BY <3>1, <3>2
    <2> QED BY <1>6, <2>1 DEF Iterates
<1> DEFINE q == CHOOSE p2 : Def(p2)
<1>8. Def(q)
    BY <1>7
<1> HIDE DEF q
<1>9. q[0] = ids /\ \A k \in 1 .. n : q[k] = next(q[k - 1])
    BY <1>1, <1>8
<1> DEFINE good == {k \in 0 .. n : q[k] \in S}
<1>10. \A k \in 0 .. n : k \in good
    <2>1. 0 \in good
        BY <1>1, <1>2, <1>9
    <2>2. \A k \in 1 .. n : k - 1 \in good => k \in good
        BY <1>1, <1>3, <1>9
    <2> HIDE DEF good
    <2> QED BY <1>1, <2>1, <2>2, Upward, Zenon
<1>11. Running(demand, weights, ids, ceilings, floors) = q[n]
    BY <1>4 DEF q
<1>12. \A k \in 0 .. n : q[k] \in S
    BY <1>10
<1> QED BY <1>9, <1>11, <1>12 DEF Leavings, n, S, next

\* Nobody who is left to run gets less than its minimum: as many rounds as there
\* are batteries are enough, since each idles somebody or nobody is short.
THEOREM RunnersMeetTheirFloors ==
    ASSUME NEW ids \in SUBSET Nat, IsFiniteSet(ids), NEW demand \in Int,
           NEW weights, \A c \in ids : weights[c] \in Nat,
           NEW ceilings, \A c \in ids \cap DOMAIN ceilings : ceilings[c] \in Int,
           NEW floors, \A c \in ids : floors[c] \in Nat
    PROVE  LET run == Running(demand, weights, ids, ceilings, floors)
               shares == CappedShares(Abs(demand), weights, run, ceilings)
           IN  \A c \in run : floors[c] > 0 => shares[c].num >= floors[c] * shares[c].den
<1> DEFINE n == Cardinality(ids)
           short(r) == Short(r, demand, weights, ceilings, floors)
           run == Running(demand, weights, ids, ceilings, floors)
<1>1. n \in Nat
    BY FS_CardinalityType
<1>2. PICK q : Leavings(q, demand, weights, ids, ceilings, floors)
    BY RunningRounds
<1>3. Abs(demand) \in Int
    BY DEF Abs
<1>4. \A r \in SUBSET ids : \A c \in r :
          /\ CappedShares(Abs(demand), weights, r, ceilings)[c].num \in Int
          /\ CappedShares(Abs(demand), weights, r, ceilings)[c].den \in Nat \ {0}
    <2> SUFFICES ASSUME NEW r \in SUBSET ids, NEW c \in r
                 PROVE  /\ CappedShares(Abs(demand), weights, r, ceilings)[c].num \in Int
                        /\ CappedShares(Abs(demand), weights, r, ceilings)[c].den \in Nat \ {0}
        OBVIOUS
    <2>1. IsFiniteSet(r) /\ (\A d \in r : weights[d] \in Nat)
          /\ \A d \in r \cap DOMAIN ceilings : ceilings[d] \in Int
        BY FS_Subset
    <2> DEFINE all == Abs(demand)
    <2> HIDE DEF all
    <2>2. all \in Int
        BY <1>3 DEF all
    <2>3. /\ CappedShares(all, weights, r, ceilings)[c].num \in Int
          /\ CappedShares(all, weights, r, ceilings)[c].den \in Nat \ {0}
        BY <2>1, <2>2, CappedSharesType
    <2> QED BY <2>3 DEF all
<1>5. \A r \in SUBSET ids : IsFiniteSet(r) /\ Cardinality(r) \in Nat
    BY FS_Subset, FS_CardinalityType
<1> DEFINE good == {k \in 0 .. n : short(q[k]) = {} \/ Cardinality(q[k]) <= n - k}
<1>6. 0 \in good
    BY <1>1, <1>2 DEF Leavings
<1>7. ASSUME NEW k \in 1 .. n, k - 1 \in good PROVE k \in good
    <2> DEFINE r == q[k - 1]
               shares == CappedShares(Abs(demand), weights, r, ceilings)
    <2>1. r \in SUBSET ids /\ q[k] = Left(r, demand, weights, ceilings, floors)
        BY <1>1, <1>2, <1>7 DEF Leavings
    <2>2. CASE short(r) = {}
        <3>1. q[k] = r
            BY <2>1, <2>2 DEF Left
        <3> QED BY <2>2, <3>1
    <2>3. CASE short(r) # {}
        <3> DEFINE T == short(r)
        <3>1. T \subseteq r /\ \A c \in T : floors[c] > 0
            BY DEF Short
        <3>2. T \in SUBSET Nat /\ IsFiniteSet(T) /\ T # {}
            BY <1>5, <2>1, <2>3, <3>1
        <3>3. \A c \in T : /\ shares[c].num \in Int /\ shares[c].den \in Nat \ {0}
                           /\ floors[c] \in Nat \ {0}
            <4> HIDE DEF T
            <4> QED BY <1>4, <2>1, <3>1
        <3>4. PICK c \in T : \A d \in T : ~Worse(shares, floors, d, c)
            <4> HIDE DEF T, shares
            <4> QED BY <3>2, <3>3, SomebodyIsWorst
        <3>5. c \in r /\ c \notin q[k] /\ q[k] \subseteq r
            BY <2>1, <3>1, <3>4 DEF Left
        <3> HIDE DEF T, shares
        <3>6. q[k] \subseteq r \ {c} /\ IsFiniteSet(r)
            BY <1>5, <2>1, <3>5
        <3>7. Cardinality(r \ {c}) = Cardinality(r) - 1 /\ IsFiniteSet(r \ {c})
            BY <3>5, <3>6, FS_RemoveElement
        <3>8. Cardinality(q[k]) <= Cardinality(r \ {c})
            BY <3>6, <3>7, FS_Subset
        <3>9. Cardinality(r) <= n - (k - 1)
            BY <1>7, <2>3
        <3>10. Cardinality(q[k]) \in Nat /\ Cardinality(r) \in Nat
            BY <1>5, <2>1, <3>5
        <3>11. Cardinality(q[k]) <= n - k
            <4> HIDE DEF r, n
            <4> QED BY <1>1, <3>7, <3>8, <3>9, <3>10
        <3> QED BY <3>11
    <2> QED BY <2>2, <2>3
<1>8. \A k \in 0 .. n : k \in good
    <2> HIDE DEF good
    <2>1. \A k \in 1 .. n : k - 1 \in good => k \in good
        BY <1>7
    <2> QED BY <1>1, <1>6, <2>1, Upward, Zenon
<1>9. run = q[n] /\ run \in SUBSET ids
    BY <1>1, <1>2 DEF Leavings
<1>10. short(run) = {}
    <2>1. CASE Cardinality(q[n]) <= n - n
        <3>1. Cardinality(q[n]) = 0 /\ IsFiniteSet(q[n])
            BY <1>1, <1>5, <1>9, <2>1
        <3>2. run = {}
            BY <1>9, <3>1, FS_EmptySet
        <3> QED BY <3>2 DEF Short
    <2>2. CASE ~ (Cardinality(q[n]) <= n - n)
        <3>1. n \in good
            BY <1>1, <1>8
        <3> QED BY <1>9, <2>2, <3>1
    <2> QED BY <2>1, <2>2
<1> DEFINE shares == CappedShares(Abs(demand), weights, run, ceilings)
<1> SUFFICES ASSUME NEW c \in run, floors[c] > 0 PROVE shares[c].num >= floors[c] * shares[c].den
    OBVIOUS
<1>11. ~Under(shares[c], floors[c])
    BY <1>10 DEF Short
<1>12. shares[c].num \in Int /\ shares[c].den \in Nat \ {0} /\ floors[c] \in Nat
    BY <1>4, <1>9
<1> HIDE DEF shares
<1>13. floors[c] * shares[c].den \in Int
    BY <1>12
<1> QED BY <1>11, <1>12, <1>13 DEF Under

-----------------------------------------------------------------------------
(* The pool's state, and what the operators of a poll give back              *)

Size == Cardinality(Batteries)
Caps == UNION {[D -> Nat] : D \in SUBSET Batteries}
Spills == [line : Seq(Batteries), dir : {-1, 0, 1}, caps : Caps, free : NotFree .. ReleaseDelay]
Distinct(s) == \A i, j \in DOMAIN s : s[i] = s[j] => i = j

\* A reserve has a direction exactly while somebody is in it, and nobody is in
\* it twice.
GoodSpill(sp) ==
    /\ sp \in Spills /\ Distinct(sp.line)
    /\ sp.dir = 0 <=> sp.line = <<>>

\* TypeOK, with the structure of the reserve and with what it takes of a probe.
Shape ==
    /\ load \in Loads /\ out \in [Batteries -> Int]
    /\ \A c \in Batteries : Abs(out[c]) <= Limit[c] /\ (c \in empty => out[c] = 0)
    /\ order \in Orders
    /\ slots \in Slots /\ fade \in [Batteries -> 0 .. 2]
    /\ probe \in [cand : Batteries \cup {0}, active : SUBSET Batteries,
                  backup : SUBSET Batteries, restore : Seq(Batteries), asked : Nat]
    /\ probe # NoProbe => probe.cand \in Batteries
    /\ empty \subseteq Batteries /\ marked \subseteq Batteries /\ idle \subseteq Batteries
    /\ quiet \subseteq Batteries
    /\ GoodSpill(spill)

\* What a pass decides is over the batteries.
GoodPass(p) ==
    /\ GoodSpill(p.spill)
    /\ p.eff \in [Batteries -> Nat] /\ p.fade \in [Batteries -> 0 .. 2]

LEMMA PoolIsFinite == \A ids \in SUBSET Batteries : IsFiniteSet(ids)
BY AutoPoolAssumption, FS_Subset

\* Sums over batteries of what is an integer, or a natural number, for each.
LEMMA PoolTotal ==
    ASSUME NEW f, NEW ids \in SUBSET Batteries
    PROVE  /\ (\A c \in ids : f[c] \in Int) => Total(f, ids) \in Int
           /\ (\A c \in ids : f[c] \in Nat) =>
                  Total(f, ids) \in Nat /\ \A c \in ids : f[c] <= Total(f, ids)
<1>1. IsFiniteSet(ids)
    BY PoolIsFinite
<1>2. (\A c \in ids : f[c] \in Int) => Total(f, ids) \in Int
    BY <1>1, TotalInt
<1>3. (\A c \in ids : f[c] \in Nat) =>
          Total(f, ids) \in Nat /\ \A c \in ids : f[c] <= Total(f, ids)
    BY <1>1, TotalNat
<1> QED BY <1>2, <1>3

LEMMA GridType ==
    ASSUME Shape
    PROVE  load \in Int /\ Grid \in Int
<1>1. load \in Int
    BY AutoPoolAssumption DEF Shape
<1>2. Total(out, Batteries) \in Int
    BY PoolTotal DEF Shape
<1> QED BY <1>1, <1>2 DEF Grid

\* The reserve's place in the order of its line.
LEMMA RankType ==
    ASSUME NEW p, p.spill.line \in Seq(Batteries), NEW c
    PROVE  /\ SpillRank(p, c) \in 0 .. Len(p.spill.line)
           /\ c \in InSeq(p.spill.line) =>
                  SpillRank(p, c) \in 1 .. Len(p.spill.line) /\ p.spill.line[SpillRank(p, c)] = c
<1> DEFINE line == p.spill.line
<1>1. DOMAIN line = 1 .. Len(line) /\ Len(line) \in Nat
    BY LenProperties
<1>2. CASE c \in InSeq(line)
    <2>1. \E i \in DOMAIN line : line[i] = c
        BY <1>2 DEF InSeq
    <2>2. SpillRank(p, c) \in DOMAIN line /\ line[SpillRank(p, c)] = c
        BY <1>2, <2>1 DEF SpillRank
    <2> QED BY <1>1, <2>2
<1>3. CASE c \notin InSeq(line)
    BY <1>1, <1>3 DEF SpillRank
<1> QED BY <1>2, <1>3

LEMMA InLine ==
    ASSUME NEW s \in Seq(Batteries)
    PROVE  InSeq(s) \subseteq Batteries /\ InSeq(s) = {s[i] : i \in 1 .. Len(s)}
BY LenProperties, ElementOfSeq DEF InSeq

LEMMA ShareWeightType ==
    ASSUME NEW p, GoodSpill(p.spill), NEW c \in Batteries
    PROVE  ShareWeight(p, c) \in Nat \ {0}
<1>1. p.spill.line \in Seq(Batteries)
    BY DEF GoodSpill, Spills
<1>2. Len(p.spill.line) - SpillRank(p, c) \in Nat
    BY <1>1, RankType, LenProperties
<1>3. Power(Scale, Len(p.spill.line) - SpillRank(p, c)) \in Nat \ {0}
    BY <1>2, PowerType, AutoPoolAssumption
<1>4. Weight[c] \in Nat \ {0}
    BY AutoPoolAssumption
<1> QED BY <1>3, <1>4 DEF ShareWeight

LEMMA CeilingsType ==
    ASSUME NEW p, GoodSpill(p.spill), NEW ids \in SUBSET Batteries, NEW sign
    PROVE  /\ DOMAIN Ceilings(p, ids, sign) = IF sign # 0 THEN ids ELSE {}
           /\ \A c \in DOMAIN Ceilings(p, ids, sign) : Ceilings(p, ids, sign)[c] \in Nat
<1>1. DOMAIN Ceilings(p, ids, sign) = IF sign # 0 THEN ids ELSE {}
    BY DEF Ceilings
<1>2. ASSUME NEW c \in DOMAIN Ceilings(p, ids, sign)
      PROVE  Ceilings(p, ids, sign)[c] \in Nat
    <2>1. c \in Batteries /\ sign # 0
        BY <1>1, <1>2
    <2>2. Limit[c] \in Nat
        BY <2>1, AutoPoolAssumption
    <2>3. c \in DOMAIN p.spill.caps => p.spill.caps[c] \in Nat
        BY DEF GoodSpill, Spills, Caps
    <2>4. Ceilings(p, ids, sign)[c] =
              IF sign = p.spill.dir /\ c \in DOMAIN p.spill.caps
              THEN Least(Limit[c], p.spill.caps[c]) ELSE Limit[c]
        BY <1>1, <1>2, <2>1 DEF Ceilings
    <2> QED BY <2>2, <2>3, <2>4 DEF Least
<1> QED BY <1>1, <1>2

LEMMA ErrorsType ==
    ASSUME Shape, NEW p, GoodSpill(p.spill), NEW ids \in SUBSET Batteries, NEW c \in Batteries
    PROVE  Errors(p, ids)[c] \in Int
<1> DEFINE total == Total(out, ids)
           weights == ShareWeights(p)
           ceil == Ceilings(p, ids, Sign(total))
           shares == CappedShares(total, weights, ids, ceil)
<1>1. out \in [Batteries -> Int]
    BY DEF Shape
<1>2. total \in Int /\ IsFiniteSet(ids)
    BY <1>1, PoolTotal, PoolIsFinite
<1>3. \A d \in ids : weights[d] \in Nat
    BY ShareWeightType DEF ShareWeights
<1>4. \A d \in ids \cap DOMAIN ceil : ceil[d] \in Int
    BY CeilingsType
<1>5. Errors(p, ids)[c] = (IF c \in ids THEN Whole(shares[c]) ELSE 0) - out[c]
    BY DEF Errors
<1> HIDE DEF total, weights, ceil
<1>6. c \in ids => shares[c].num \in Int /\ shares[c].den \in Nat \ {0}
    BY <1>2, <1>3, <1>4, CappedSharesType
<1> HIDE DEF shares
<1>7. c \in ids => Whole(shares[c]) \in Int
    BY <1>6, WholeType
<1> QED BY <1>1, <1>5, <1>7

LEMMA CorrectionType ==
    ASSUME NEW e \in Int
    PROVE  Correction(e) \in Int
BY AutoPoolAssumption DEF Correction, Within, Most, Least

\* A fair share is a fraction, and of nothing it is nothing.
LEMMA FairShareType ==
    ASSUME NEW p, GoodPass(p), NEW error \in Int, NEW ids \in SUBSET Batteries, NEW pinned,
           NEW c \in ids
    PROVE  /\ Whole(FairShare(p, c, error, ids, pinned)) \in Int
           /\ error = 0 => Whole(FairShare(p, c, error, ids, pinned)) = 0
<1> DEFINE part == [d \in ids |-> p.eff[d] * ShareWeight(p, d)]
           all == Total(part, ids)
           free == Total(part, ids \ pinned)
           over == IF c \notin pinned /\ free > 0 THEN free ELSE all
           share == FairShare(p, c, error, ids, pinned)
<1>1. \A d \in ids : part[d] \in Nat
    <2> SUFFICES ASSUME NEW d \in ids PROVE part[d] \in Nat
        OBVIOUS
    <2>1. p.eff[d] \in Nat /\ ShareWeight(p, d) \in Nat
        BY ShareWeightType DEF GoodPass
    <2>2. p.eff[d] * ShareWeight(p, d) \in Nat
        BY <2>1
    <2> QED BY <2>2
<1>2. share = IF all = 0 THEN Share(error, Cardinality(Batteries)) ELSE Share(error * part[c], over)
    BY DEF FairShare
<1> HIDE DEF part
<1>3. all \in Nat /\ free \in Nat
    <2>1. ids \ pinned \in SUBSET Batteries
        OBVIOUS
    <2> QED BY <1>1, <2>1, PoolTotal
<1>4. Cardinality(Batteries) \in Nat \ {0}
    <2>1. Batteries # {} /\ IsFiniteSet(Batteries)
        BY PoolIsFinite
    <2> QED BY <2>1, FS_CardinalityType, FS_EmptySet
<1> HIDE DEF all, free, share
<1>5. share.num \in Int /\ share.den \in Nat \ {0} /\ (error = 0 => share.num = 0)
    <2>1. CASE all = 0
        BY <1>2, <1>4, <2>1 DEF Share
    <2>2. CASE all # 0
        <3>1. error * part[c] \in Int /\ (error = 0 => error * part[c] = 0)
            BY <1>1
        <3>2. over \in Nat \ {0}
            BY <1>3, <2>2
        <3> HIDE DEF over
        <3> QED BY <1>2, <2>2, <3>1, <3>2 DEF Share
    <2> QED BY <2>1, <2>2
<1> QED BY <1>5, WholeType DEF share

\* What the reserve carries of its own direction, and what it gives back.
Carried(p) == [c \in InSeq(p.spill.line) |-> Most(0, out[c] * p.spill.dir)]
Behind(p, i) == {p.spill.line[k] : k \in i + 1 .. Len(p.spill.line)}

LEMMA CarriedType ==
    ASSUME Shape, NEW p, GoodSpill(p.spill)
    PROVE  /\ \A c \in InSeq(p.spill.line) : Carried(p)[c] \in Nat
           /\ \A i \in Nat : /\ Behind(p, i) \subseteq InSeq(p.spill.line)
                             /\ Total(Carried(p), Behind(p, i)) \in Nat
<1>1. p.spill.line \in Seq(Batteries) /\ p.spill.dir \in Int
    BY DEF GoodSpill, Spills
<1>2. InSeq(p.spill.line) \subseteq Batteries
    BY <1>1, InLine
<1>3. ASSUME NEW c \in InSeq(p.spill.line) PROVE Carried(p)[c] \in Nat
    <2>1. out[c] \in Int
        BY <1>2 DEF Shape
    <2>2. out[c] * p.spill.dir \in Int
        BY <1>1, <2>1
    <2> QED BY <2>2 DEF Carried, Most
<1>4. ASSUME NEW i \in Nat
      PROVE  Behind(p, i) \subseteq InSeq(p.spill.line) /\ Total(Carried(p), Behind(p, i)) \in Nat
    <2>1. Behind(p, i) \subseteq InSeq(p.spill.line)
        BY <1>1, InLine, LenProperties DEF Behind
    <2>2. Behind(p, i) \in SUBSET Batteries /\ \A c \in Behind(p, i) : Carried(p)[c] \in Nat
        BY <1>2, <1>3, <2>1
    <2> QED BY <2>1, <2>2, PoolTotal
<1> QED BY <1>3, <1>4

\* Each gives back its part, as far as it carries anything.
LEMMA TakesType ==
    ASSUME Shape, NEW p, GoodSpill(p.spill), NEW error \in Int, error * p.spill.dir < 0
    PROVE  /\ DOMAIN Takes(p, error) = InSeq(p.spill.line)
           /\ \A c \in InSeq(p.spill.line) :
                /\ Takes(p, error)[c] \in Int
                /\ Takes(p, error)[c] = -p.spill.dir
                     * Most(0, Least(Carried(p)[c],
                                     -error * p.spill.dir
                                       - Total(Carried(p), Behind(p, SpillRank(p, c)))))
<1> DEFINE line == p.spill.line
           d == p.spill.dir
           part(c) == Most(0, Least(Carried(p)[c], -error * d - Total(Carried(p), Behind(p, SpillRank(p, c)))))
<1>1. line \in Seq(Batteries) /\ d \in Int
    BY DEF GoodSpill, Spills
<1>2. DOMAIN Takes(p, error) = InSeq(line)
    BY DEF Takes
<1>3. ASSUME NEW c \in InSeq(line) PROVE Takes(p, error)[c] = -d * part(c)
    <2>1. Carried(p)[c] = Most(0, out[c] * d)
        BY <1>3 DEF Carried
    <2> QED BY <1>3, <2>1 DEF Takes, Carried, Behind
<1>4. ASSUME NEW c \in InSeq(line) PROVE part(c) \in Int
    <2>1. SpillRank(p, c) \in Nat
        BY <1>1, RankType, LenProperties
    <2>2. Carried(p)[c] \in Nat /\ Total(Carried(p), Behind(p, SpillRank(p, c))) \in Nat
        BY <1>4, <2>1, CarriedType
    <2>3. -error * d \in Int
        BY <1>1
    <2> QED BY <2>2, <2>3 DEF Most, Least
<1> HIDE DEF d, line
<1>5. ASSUME NEW c \in InSeq(line) PROVE Takes(p, error)[c] \in Int
    <2>1. part(c) \in Int
        BY <1>4, <1>5
    <2> HIDE DEF part
    <2> QED BY <1>1, <1>3, <1>5, <2>1
<1> QED BY <1>2, <1>3, <1>5 DEF d, line

\* Last in, first out: those behind the i-th give back the whole error, or all
\* they carry.
LEMMA BehindGiveBack ==
    ASSUME Shape, NEW p, GoodSpill(p.spill), NEW error \in Int, error * p.spill.dir < 0,
           NEW i \in 0 .. Len(p.spill.line)
    PROVE  Total(Takes(p, error), Behind(p, i)) =
               -p.spill.dir * Least(-error * p.spill.dir, Total(Carried(p), Behind(p, i)))
<1> DEFINE line == p.spill.line
           d == p.spill.dir
           n == Len(line)
           e == -error * d
           takes == Takes(p, error)
           carried == Carried(p)
           after(k) == Total(carried, Behind(p, k))
           good == {m \in 0 .. n : Total(takes, Behind(p, n - m)) = -d * Least(e, after(n - m))}
<1>1. line \in Seq(Batteries) /\ d \in {-1, 0, 1} /\ n \in Nat /\ Distinct(line)
    BY LenProperties DEF GoodSpill, Spills
<1>2. e \in Nat \ {0}
    BY <1>1
<1>3. /\ \A c \in InSeq(line) : carried[c] \in Nat /\ takes[c] \in Int
      /\ \A k \in 0 .. n : Behind(p, k) \subseteq InSeq(line) /\ after(k) \in Nat
    <2>1. \A c \in InSeq(line) : takes[c] \in Int
        BY TakesType
    <2>2. \A c \in InSeq(line) : carried[c] \in Nat
        BY CarriedType
    <2>3. \A k \in 0 .. n : Behind(p, k) \subseteq InSeq(line) /\ after(k) \in Nat
        BY <1>1, CarriedType
    <2> QED BY <2>1, <2>2, <2>3
<1>4. \A k \in 0 .. n : IsFiniteSet(Behind(p, k)) /\ Total(takes, Behind(p, k)) \in Int
    <2> SUFFICES ASSUME NEW k \in 0 .. n
                 PROVE  IsFiniteSet(Behind(p, k)) /\ Total(takes, Behind(p, k)) \in Int
        OBVIOUS
    <2>1. Behind(p, k) \in SUBSET Batteries /\ \A c \in Behind(p, k) : takes[c] \in Int
        BY <1>1, <1>3, InLine
    <2> HIDE DEF takes
    <2> QED BY <2>1, PoolTotal, PoolIsFinite
<1>5. 0 \in good
    <2>1. Behind(p, n) = {}
        BY <1>1 DEF Behind
    <2>2. Total(takes, Behind(p, n)) = 0 /\ after(n) = 0
        BY <2>1, TotalChoice, FS_EmptySet
    <2>3. Least(e, 0) = 0
        BY <1>2 DEF Least
    <2>4. Total(takes, Behind(p, n - 0)) = -d * Least(e, after(n - 0))
        <3> HIDE DEF e, takes, carried
        <3> QED BY <1>1, <2>2, <2>3
    <2> QED BY <1>1, <2>4
<1>6. ASSUME NEW m \in 1 .. n, m - 1 \in good PROVE m \in good
    <2> DEFINE k == n - m + 1
               c == line[k]
    <2>1. k \in 1 .. n /\ k - 1 = n - m /\ n - (m - 1) = k /\ k \in 0 .. n /\ k - 1 \in 0 .. n
        <3> HIDE DEF n, good
        <3> QED BY <1>1
    <2>2. c \in InSeq(line)
        BY <1>1, <2>1, InLine
    <2>3. SpillRank(p, c) = k
        <3>1. SpillRank(p, c) \in 1 .. n /\ line[SpillRank(p, c)] = line[k]
            BY <1>1, <2>2, RankType
        <3>2. DOMAIN line = 1 .. n
            BY <1>1, LenProperties
        <3> QED BY <1>1, <2>1, <3>1, <3>2 DEF Distinct
    <2>4. Behind(p, k - 1) = {c} \cup Behind(p, k) /\ c \notin Behind(p, k)
        <3>1. DOMAIN line = 1 .. n
            BY <1>1, LenProperties
        <3>2. \A x \in k + 1 .. n : line[x] # line[k]
            <4> HIDE DEF n, k, line, good
            <4>1. \A x \in k + 1 .. n : x \in DOMAIN line /\ k \in DOMAIN line /\ x # k
                BY <1>1, <2>1, <3>1
            <4> QED BY <1>1, <4>1 DEF Distinct
        <3>3. k - 1 + 1 .. n = {k} \cup (k + 1 .. n)
            <4> HIDE DEF n, k
            <4> QED BY <1>1, <2>1
        <3>4. {line[x] : x \in {k} \cup (k + 1 .. n)} = {line[k]} \cup {line[x] : x \in k + 1 .. n}
            OBVIOUS
        <3> HIDE DEF k
        <3> QED BY <3>2, <3>3, <3>4 DEF Behind
    <2> DEFINE rest == Behind(p, k)
               whole == Behind(p, k - 1)
    <2>5. /\ \A x \in whole : takes[x] \in Int /\ carried[x] \in Int
          /\ c \in whole /\ rest = whole \ {c} /\ IsFiniteSet(whole)
        <3>1. c \in whole /\ rest = whole \ {c}
            BY <2>4
        <3>2. IsFiniteSet(whole) /\ whole \subseteq InSeq(line)
            BY <1>3, <1>4, <2>1
        <3> HIDE DEF takes, carried, rest, whole, c, line
        <3> QED BY <1>3, <3>1, <3>2
    <2>6. Total(takes, whole) = takes[c] + Total(takes, rest)
        <3> HIDE DEF takes, carried, rest, whole, c
        <3> QED BY <2>5, TotalPick
    <2>7. Total(carried, whole) = carried[c] + Total(carried, rest)
        <3> HIDE DEF takes, carried, rest, whole, c
        <3> QED BY <2>5, TotalPick
    <2>8. takes[c] = -d * Most(0, Least(carried[c], e - Total(carried, rest)))
        BY <2>2, <2>3, TakesType
    <2>9. Total(takes, rest) = -d * Least(e, Total(carried, rest))
        BY <1>6, <2>1
    <2>10. Total(carried, rest) \in Nat /\ carried[c] \in Nat
        BY <1>3, <2>1, <2>2
    <2>11. Total(takes, whole) = -d * Least(e, Total(carried, whole))
        <3> HIDE DEF d, e, takes, carried, rest, whole, c
        <3> DEFINE x == Total(carried, rest)
                   y == carried[c]
        <3>1. x \in Nat /\ y \in Nat
            BY <2>10
        <3> HIDE DEF x, y
        <3>2. Most(0, Least(y, e - x)) + Least(e, x) = Least(e, y + x)
            BY <1>2, <3>1 DEF Most, Least
        <3>3. Most(0, Least(y, e - x)) \in Int /\ Least(e, x) \in Int
            BY <1>2, <3>1 DEF Most, Least
        <3>4. -d * Most(0, Least(y, e - x)) + -d * Least(e, x)
                = -d * (Most(0, Least(y, e - x)) + Least(e, x))
            BY <1>1, <3>3
        <3> QED BY <2>6, <2>7, <2>8, <2>9, <3>2, <3>4 DEF x, y
    <2> QED BY <2>1, <2>11
<1>7. \A m \in 0 .. n : m \in good
    <2> HIDE DEF good
    <2>1. \A m \in 1 .. n : m - 1 \in good => m \in good
        BY <1>6
    <2> QED BY <1>1, <1>5, <2>1, Upward, Zenon
<1>8. n - i \in good /\ n - (n - i) = i
    BY <1>1, <1>7
<1> QED BY <1>8

\* The reserve gives back an integer, and the whole of an error it can carry.
LEMMA GivesBackType ==
    ASSUME Shape, NEW p, GoodSpill(p.spill), NEW error \in Int, error * p.spill.dir < 0
    PROVE  /\ GivesBack(p, error) \in Int
           /\ -error * p.spill.dir <= Total(Carried(p), InSeq(p.spill.line)) =>
                  GivesBack(p, error) = error
<1> DEFINE line == p.spill.line
           d == p.spill.dir
           all == Total(Carried(p), InSeq(line))
<1>1. line \in Seq(Batteries) /\ d \in {-1, 0, 1} /\ Len(line) \in Nat
    BY LenProperties DEF GoodSpill, Spills
<1>2. Behind(p, 0) = InSeq(line)
    BY <1>1, InLine DEF Behind
<1>3. all \in Nat
    BY <1>2, CarriedType
<1>4. GivesBack(p, error) = Total(Takes(p, error), InSeq(line))
    BY TakesType DEF GivesBack
<1>5. GivesBack(p, error) = -d * Least(-error * d, all)
    <2>1. 0 \in 0 .. Len(line)
        BY <1>1
    <2>2. Total(Takes(p, error), Behind(p, 0)) = -d * Least(-error * d, Total(Carried(p), Behind(p, 0)))
        BY <2>1, BehindGiveBack
    <2> QED BY <1>2, <1>4, <2>2
<1>6. -error * d \in Int /\ d # 0
    BY <1>1
<1> HIDE DEF all
<1>7. GivesBack(p, error) \in Int
    BY <1>1, <1>3, <1>5, <1>6 DEF Least
<1>8. ASSUME -error * d <= all PROVE GivesBack(p, error) = error
    <2>1. Least(-error * d, all) = -error * d
        BY <1>3, <1>6, <1>8 DEF Least
    <2>2. -d * (-error * d) = error
        BY <1>1, <1>6
    <2> QED BY <1>5, <2>1, <2>2
<1> QED BY <1>7, <1>8 DEF all

\* Against the direction of the reserve means that there is one.
LEMMA UnloadingMeans ==
    ASSUME NEW p, GoodSpill(p.spill), NEW error \in Int, Unloading(p, error)
    PROVE  error * p.spill.dir < 0 /\ p.spill.line # <<>>
<1>1. p.spill.dir \in Int /\ UnloadBand \in Nat
    BY AutoPoolAssumption DEF GoodSpill, Spills
<1>2. error * p.spill.dir \in Int
    BY <1>1
<1> QED BY <1>1, <1>2 DEF Unloading

\* What a poll asks a battery to move by is an integer.
LEMMA ResidualType ==
    ASSUME Shape, NEW p, GoodPass(p), NEW c \in Batteries, NEW g \in Int
    PROVE  Residual(p, c, g) \in Int
<1> DEFINE line == p.spill.line
<1>1. GoodSpill(p.spill) /\ InSeq(line) \subseteq Batteries
    BY InLine DEF GoodPass, GoodSpill, Spills
<1>2. CASE Unloading(p, g)
    <2>1. g * p.spill.dir < 0
        BY <1>1, <1>2, UnloadingMeans
    <2>2. CASE c \in InSeq(line)
        <3>1. Takes(p, g)[c] \in Int
            BY <1>1, <2>1, <2>2, TakesType
        <3> QED BY <1>2, <2>2, <3>1 DEF Residual, Unloaded
    <2>3. CASE c \notin InSeq(line)
        <3>1. g - GivesBack(p, g) \in Int
            BY <1>1, <2>1, GivesBackType
        <3>2. Whole(FairShare(p, c, g - GivesBack(p, g), Batteries \ InSeq(line), {})) \in Int
            BY <2>3, <3>1, FairShareType
        <3> QED BY <1>2, <2>3, <3>2 DEF Residual, Unloaded
    <2> QED BY <2>2, <2>3
<1>3. CASE ~ Unloading(p, g)
    <2> DEFINE pinned == Pinned(p, Sign(g))
               among == Concentrating(p, g, pinned)
               fair == Whole(FairShare(p, c, g, Batteries, pinned))
    <2>1. fair \in Int
        BY FairShareType
    <2>2. Participating(p) \in SUBSET Batteries
        BY DEF Participating, GoodPass
    <2>3. Correction(Errors(p, Participating(p))[c]) \in Int
        BY <1>1, <2>2, ErrorsType, CorrectionType
    <2>4. Residual(p, c, g) =
              IF c \in among THEN IF MostActive(among, c) THEN g ELSE 0
              ELSE fair + (IF Participating(p) = {} THEN 0
                           ELSE Correction(Errors(p, Participating(p))[c]))
        BY <1>3 DEF Residual, Shared
    <2> HIDE DEF among, fair
    <2> QED BY <2>1, <2>3, <2>4
<1> QED BY <1>2, <1>3

LEMMA SharedTargetType ==
    ASSUME Shape, NEW p, GoodPass(p), NEW c \in Batteries
    PROVE  /\ SharedTarget(p, c) \in Int
           /\ c \in InSeq(p.spill.line) => SharedTarget(p, c) * p.spill.dir >= 0
<1>1. Residual(p, c, Grid) \in Int /\ out[c] \in Int
    BY GridType, ResidualType DEF Shape
<1>2. p.spill.dir \in Int
    BY DEF GoodPass, GoodSpill, Spills
<1> DEFINE want == out[c] + Residual(p, c, Grid)
<1>3. want \in Int
    BY <1>1
<1>4. SharedTarget(p, c) = IF c \in InSeq(p.spill.line) /\ want * p.spill.dir < 0 THEN 0 ELSE want
    BY DEF SharedTarget
<1> HIDE DEF want
<1>5. want * p.spill.dir \in Int
    BY <1>2, <1>3
<1> QED BY <1>2, <1>3, <1>4, <1>5

LEMMA SpillTargetType ==
    ASSUME Shape, NEW p, GoodPass(p), NEW c \in InSeq(p.spill.line), NEW hold \in BOOLEAN
    PROVE  SpillTarget(p, c, hold) \in Int /\ SpillTarget(p, c, hold) * p.spill.dir >= 0
<1> DEFINE d == p.spill.dir
           take == IF Grid * d < 0
                   THEN IF hold /\ ~Unloading(p, Grid) THEN 0 ELSE Takes(p, Grid)[c]
                   ELSE IF ~hold /\ c = p.spill.line[Len(p.spill.line)] THEN Grid ELSE 0
<1>1. GoodSpill(p.spill) /\ d \in Int /\ c \in Batteries /\ Grid \in Int
    BY InLine, GridType DEF GoodPass, GoodSpill, Spills
<1>2. out[c] \in Int
    BY <1>1 DEF Shape
<1>3. take \in Int
    <2>1. Grid * d < 0 => Takes(p, Grid)[c] \in Int
        BY <1>1, TakesType
    <2> QED BY <1>1, <2>1
<1>4. SpillTarget(p, c, hold) = IF (out[c] + take) * d < 0 THEN 0 ELSE out[c] + take
    BY DEF SpillTarget
<1> HIDE DEF take, d
<1>5. (out[c] + take) * d \in Int
    BY <1>1, <1>2, <1>3
<1> QED BY <1>1, <1>2, <1>3, <1>4, <1>5 DEF d

-----------------------------------------------------------------------------
(* What a battery makes of a command                                         *)

\* It stays within its limit, and an empty one delivers nothing.
LEMMA DeliversType ==
    ASSUME Shape, NEW c \in Batteries, NEW reading \in Int
    PROVE  /\ Delivers(c, reading) \in Int /\ Abs(Delivers(c, reading)) <= Limit[c]
           /\ c \in empty => Delivers(c, reading) = 0
<1>1. out[c] \in Int /\ Limit[c] \in Nat
    BY AutoPoolAssumption DEF Shape
<1> DEFINE o == Within(out[c] + reading, Limit[c])
<1>2. o \in Int /\ Abs(o) <= Limit[c] /\ Abs(Most(0, o)) <= Limit[c] /\ Most(0, o) \in Int
    BY <1>1 DEF Within, Most, Least, Abs
<1>3. Delivers(c, reading) = IF c \in empty THEN 0 ELSE IF c \in DcOnly THEN Most(0, o) ELSE o
    BY DEF Delivers
<1> HIDE DEF o
<1> QED BY <1>1, <1>2, <1>3 DEF Abs

LEMMA WithinType ==
    ASSUME NEW n \in Int, NEW b \in Nat
    PROVE  Within(n, b) \in -b .. b
BY DEF Within, Most, Least

\* Paced towards a target on the side d, it does not end up on the other, or it
\* was there and comes closer.
LEMMA PacedStaysOnItsSide ==
    ASSUME Shape, NEW c \in Batteries, NEW want \in Int, NEW d \in {-1, 1}, want * d >= 0,
           NEW o, o = Delivers(c, Within(Within(want, Limit[c]) - out[c], PaceCap)), o # out[c]
    PROVE  o * d >= 0 \/ Abs(o) < Abs(out[c])
<1>1. out[c] \in Int /\ Limit[c] \in Nat /\ PaceCap \in Nat \ {0} /\ Abs(out[c]) <= Limit[c]
    BY AutoPoolAssumption DEF Shape
<1> DEFINE t == Within(want, Limit[c])
           r == Within(t - out[c], PaceCap)
           x == Within(out[c] + r, Limit[c])
<1>2. t \in Int /\ t * d >= 0 /\ Abs(t) <= Limit[c]
    BY <1>1 DEF Within, Most, Least, Abs
<1>3. o = IF c \in empty THEN 0 ELSE IF c \in DcOnly THEN Most(0, x) ELSE x
    BY DEF Delivers
<1> HIDE DEF t
<1>4. /\ r \in Int
      /\ out[c] <= t => 0 <= r /\ r <= t - out[c]
      /\ t <= out[c] => r <= 0 /\ t - out[c] <= r
      /\ t # out[c] => r # 0
    BY <1>1, <1>2 DEF Within, Most, Least
<1> HIDE DEF r
<1>5. x = out[c] + r
    BY <1>1, <1>2, <1>4 DEF Within, Most, Least, Abs
<1> HIDE DEF x
<1>6. CASE d = 1
    <2>1. t >= 0
        BY <1>2, <1>6
    <2>2. o >= 0 \/ Abs(o) < Abs(out[c])
        BY <1>1, <1>2, <1>3, <1>4, <1>5, <2>1 DEF Most, Abs
    <2>3. o \in Int
        BY <1>1, <1>3, <1>4, <1>5 DEF Most
    <2> QED BY <1>6, <2>2, <2>3
<1>7. CASE d = -1
    <2>1. t <= 0
        BY <1>2, <1>7
    <2>2. o <= 0 \/ Abs(o) < Abs(out[c])
        BY <1>1, <1>2, <1>3, <1>4, <1>5, <2>1 DEF Most, Abs
    <2>3. o \in Int
        BY <1>1, <1>3, <1>4, <1>5 DEF Most
    <2> QED BY <1>7, <2>2, <2>3
<1> QED BY <1>6, <1>7

-----------------------------------------------------------------------------
(* The reserve                                                               *)

Walks == [line : Seq(Batteries), ahead : SUBSET Batteries, caps : Caps, held : BOOLEAN,
          free : NotFree .. ReleaseDelay, open : BOOLEAN]

LEMMA StuckAtType ==
    ASSUME Shape, NEW c \in Batteries, NEW sign
    PROVE  StuckAt(c, sign) \in Nat
<1>1. Limit[c] \in Nat /\ out[c] \in Int
    BY AutoPoolAssumption DEF Shape
<1> QED BY <1>1 DEF StuckAt, Abs

\* A standby that is considered joins the end of the line, or nobody does.
LEMMA ConsideredType ==
    ASSUME Shape, NEW st \in Walks, NEW c \in Batteries, NEW sign
    PROVE  /\ Considered(st, c, sign) \in Walks
           /\ Considered(st, c, sign) # st =>
                  st.open /\ Considered(st, c, sign).line \in {st.line, Append(st.line, c)}
<1> DEFINE staying == c \in InSeq(spill.line) /\ spill.dir = sign
           margin == IF staying THEN 2 * Margin ELSE Margin
           stuck == {d \in st.ahead : NoHeadroom(d, sign, margin)}
           blocked == stuck = st.ahead
           hold == staying /\ ~blocked /\ out[c] * sign > HoldPower
           free == IF hold /\ st.free = NotFree THEN 0 ELSE st.free
           joins == IF staying THEN blocked \/ (hold /\ free < ReleaseDelay)
                    ELSE blocked /\ Grid * sign > 0
           capped == [d \in DOMAIN st.caps \cup stuck |->
                        IF d \in stuck THEN StuckAt(d, sign) ELSE st.caps[d]]
           r == [line |-> IF joins THEN Append(st.line, c) ELSE st.line,
                 ahead |-> IF joins THEN st.ahead \cup {c} ELSE st.ahead,
                 caps |-> capped, held |-> st.held \/ hold, free |-> free, open |-> joins]
<1>1. Considered(st, c, sign) = IF ~st.open \/ (sign < 0 /\ c \in DcOnly) THEN st ELSE r
    BY DEF Considered
<1>2. /\ st.line \in Seq(Batteries) /\ st.ahead \subseteq Batteries /\ st.held \in BOOLEAN
      /\ st.free \in NotFree .. ReleaseDelay /\ st.caps \in Caps
    BY DEF Walks
<1>3. stuck \subseteq Batteries
    BY <1>2
<1>4. capped \in Caps
    <2>1. DOMAIN st.caps \subseteq Batteries /\ \A d \in DOMAIN st.caps : st.caps[d] \in Nat
        BY <1>2 DEF Caps
    <2>2. \A d \in stuck : StuckAt(d, sign) \in Nat
        BY <1>3, StuckAtType
    <2> DEFINE D == DOMAIN st.caps \cup stuck
    <2>3. D \in SUBSET Batteries
        BY <1>3, <2>1
    <2> HIDE DEF stuck
    <2>4. capped \in [D -> Nat]
        BY <2>1, <2>2
    <2> HIDE DEF D, capped
    <2> QED BY <2>3, <2>4 DEF Caps
<1>5. free \in NotFree .. ReleaseDelay
    <2>1. ReleaseDelay \in Nat
        BY AutoPoolAssumption
    <2> HIDE DEF hold
    <2> QED BY <1>2, <2>1 DEF NotFree
<1>6. joins \in BOOLEAN /\ hold \in BOOLEAN
    OBVIOUS
<1>7. Append(st.line, c) \in Seq(Batteries)
    BY <1>2
<1> HIDE DEF joins, hold, free, capped
<1>8. r \in Walks
    <2>1. (IF joins THEN Append(st.line, c) ELSE st.line) \in Seq(Batteries)
        BY <1>2, <1>7
    <2>2. (IF joins THEN st.ahead \cup {c} ELSE st.ahead) \in SUBSET Batteries
        BY <1>2
    <2>3. (st.held \/ hold) \in BOOLEAN
        BY <1>2, <1>6
    <2> QED BY <1>4, <1>5, <1>6, <2>1, <2>2, <2>3 DEF Walks
<1>9. r.line \in {st.line, Append(st.line, c)}
    OBVIOUS
<1> HIDE DEF r
<1> QED BY <1>1, <1>8, <1>9

\* A battery that joins behind others it is not among leaves the line distinct.
LEMMA AppendDistinct ==
    ASSUME NEW s \in Seq(Batteries), Distinct(s), NEW c \in Batteries, c \notin InSeq(s)
    PROVE  Distinct(Append(s, c)) /\ InSeq(Append(s, c)) = InSeq(s) \cup {c}
<1> DEFINE t == Append(s, c)
<1>1. /\ Len(s) \in Nat /\ DOMAIN s = 1 .. Len(s) /\ DOMAIN t = 1 .. Len(s) + 1
      /\ \A i \in 1 .. Len(s) : t[i] = s[i]
      /\ t[Len(s) + 1] = c
    BY LenProperties
<1> HIDE DEF t
<1>2. \A i \in 1 .. Len(s) : s[i] # c
    BY <1>1 DEF InSeq
<1>3. Distinct(t)
    <2> SUFFICES ASSUME NEW i \in DOMAIN t, NEW j \in DOMAIN t, t[i] = t[j] PROVE i = j
        BY DEF Distinct
    <2>1. CASE i \in 1 .. Len(s) /\ j \in 1 .. Len(s)
        BY <1>1, <2>1 DEF Distinct
    <2>2. CASE i = Len(s) + 1 \/ j = Len(s) + 1
        BY <1>1, <1>2, <2>2
    <2> QED BY <1>1, <2>1, <2>2
<1>4. InSeq(t) = InSeq(s) \cup {c}
    <2>1. InSeq(t) \subseteq InSeq(s) \cup {c}
        <3> SUFFICES ASSUME NEW i \in DOMAIN t PROVE t[i] \in InSeq(s) \cup {c}
            BY DEF InSeq
        <3>1. i \in 1 .. Len(s) \/ i = Len(s) + 1
            BY <1>1
        <3> QED BY <1>1, <3>1 DEF InSeq
    <2>2. ASSUME NEW i \in DOMAIN s PROVE s[i] \in InSeq(t)
        BY <1>1, <2>2 DEF InSeq
    <2>3. c \in InSeq(t)
        <3>1. Len(s) + 1 \in DOMAIN t
            BY <1>1
        <3> QED BY <1>1, <3>1 DEF InSeq
    <2>4. InSeq(s) \subseteq InSeq(t)
        BY <2>2 DEF InSeq
    <2> QED BY <2>1, <2>3, <2>4
<1> QED BY <1>3, <1>4 DEF t

LEMMA IsOrder ==
    ASSUME NEW o \in [1 .. Size -> Batteries], \A c \in Batteries : \E i \in 1 .. Size : o[i] = c
    PROVE  o \in Orders
<1>1. DOMAIN o = 1 .. Size
    OBVIOUS
<1>2. InSeq(o) \subseteq Batteries
    BY <1>1 DEF InSeq
<1>3. Batteries \subseteq InSeq(o)
    BY <1>1 DEF InSeq
<1> QED BY <1>2, <1>3 DEF Orders, Size

LEMMA OrderType ==
    ASSUME NEW o \in Orders
    PROVE  /\ o \in [1 .. Size -> Batteries] /\ DOMAIN o = 1 .. Size /\ Len(o) = Size
           /\ Size \in Nat /\ InSeq(o) = Batteries /\ Distinct(o)
<1>0. Size \in Nat /\ o \in [1 .. Size -> Batteries] /\ DOMAIN o = 1 .. Size /\ InSeq(o) = Batteries
    BY AutoPoolAssumption, FS_CardinalityType DEF Orders, Size
<1>1. o \in Seq(Batteries) /\ Len(o) = Size /\ \A c \in Batteries : \E i \in 1 .. Size : o[i] = c
    <2>1. o \in Seq(Batteries)
        BY <1>0, SeqDef
    <2>2. Len(o) = Size
        BY <1>0, <2>1, LenProperties
    <2>3. \A c \in Batteries : \E i \in 1 .. Size : o[i] = c
        BY <1>0 DEF InSeq
    <2> QED BY <2>1, <2>2, <2>3
<1>2. Size \in Nat /\ o \in [1 .. Size -> Batteries] /\ DOMAIN o = 1 .. Size
    BY <1>0
<1>3. InSeq(o) = Batteries
    <2>1. InSeq(o) \subseteq Batteries
        BY <1>2 DEF InSeq
    <2>2. Batteries \subseteq InSeq(o)
        BY <1>1, <1>2 DEF InSeq
    <2> QED BY <2>1, <2>2
<1>4. Distinct(o)
    <2>1. IsFiniteSet(Batteries) /\ IsFiniteSet(1 .. Size) /\ Cardinality(1 .. Size) = Size
        <3>1. IsFiniteSet(1 .. Size) /\ Cardinality(1 .. Size) = IF 1 > Size THEN 0 ELSE Size - 1 + 1
            BY <1>2, FS_Interval
        <3> QED BY <1>2, <3>1, PoolIsFinite
    <2>2. o \in Surjection(1 .. Size, Batteries)
        BY <1>1, <1>2 DEF Surjection
    <2>3. o \in Injection(1 .. Size, Batteries)
        <3> DEFINE places == 1 .. Size
        <3>1. IsFiniteSet(places) /\ Cardinality(places) = Cardinality(Batteries)
              /\ o \in Surjection(places, Batteries)
            BY <2>1, <2>2 DEF Size
        <3> HIDE DEF places
        <3>2. o \in Injection(places, Batteries)
            BY <3>1, FS_SurjSameCardinalityImpliesInj
        <3> QED BY <3>2 DEF places
    <2> QED BY <1>2, <2>3 DEF Distinct, Injection, IsInjective
<1> QED BY <1>1, <1>2, <1>3, <1>4

\* Whatever the fades are, the walk down the order leaves a good reserve.
LEMMA SpilledType ==
    ASSUME Shape, NEW f, f \in [Batteries -> 0 .. 2]
    PROVE  GoodSpill(Spilled(f))
<1> DEFINE sign == IF Standby(f) # {} /\ Abs(load) >= MinDemand THEN Sign(load) ELSE 0
           n == Len(order)
           first == [line |-> <<>>, ahead |-> {c \in Batteries : f[c] > 0}, caps |-> NoSpill.caps,
                     held |-> FALSE, free |-> spill.free, open |-> sign # 0]
           next(k, w) == IF order[k] \in Standby(f) THEN Considered(w, order[k], sign) ELSE w
           Def(p) == p = [k \in 0 .. n |-> IF k = 0 THEN first ELSE next(k, p[k - 1])]
           step == [k \in 1 .. n |-> [w \in Walks |-> next(k, w)]]
<1>1. /\ order \in [1 .. n -> Batteries] /\ n \in Nat /\ Distinct(order) /\ DOMAIN order = 1 .. n
      /\ load \in Int /\ GoodSpill(spill)
    BY OrderType, GridType DEF Shape
<1>2. sign \in {-1, 0, 1}
    BY <1>1 DEF Sign
<1>3. first \in Walks
    <2>1. NoSpill.caps \in Caps
        <3>1. NoSpill.caps = [c \in {} |-> 0]
            BY DEF NoSpill
        <3>2. [c \in {} |-> 0] \in [{} -> Nat] /\ {} \in SUBSET Batteries
            OBVIOUS
        <3> QED BY <3>1, <3>2 DEF Caps
    <2>2. <<>> \in Seq(Batteries)
        BY EmptySeq
    <2>3. spill.free \in NotFree .. ReleaseDelay
        BY <1>1 DEF GoodSpill, Spills
    <2>4. {c \in Batteries : f[c] > 0} \in SUBSET Batteries /\ (sign # 0) \in BOOLEAN
        OBVIOUS
    <2> HIDE DEF sign
    <2> QED BY <2>1, <2>2, <2>3, <2>4 DEF Walks
<1> DEFINE walked == (CHOOSE p : Def(p))[n]
<1>4. Spilled(f) =
          [line |-> walked.line,
           dir |-> IF walked.line = <<>> THEN 0 ELSE sign,
           caps |-> IF walked.line = <<>> THEN NoSpill.caps ELSE walked.caps,
           free |-> IF walked.held THEN walked.free ELSE NotFree]
    BY DEF Spilled
<1> HIDE DEF n, first, sign
<1>5. \A k \in 1 .. n, w \in Walks : next(k, w) \in Walks
    BY <1>1, ConsideredType
<1>6. step \in [1 .. n -> [Walks -> Walks]]
    BY <1>5
<1>7. PICK p : Iterates(p, n, Walks, first, step)
    <2> HIDE DEF step
    <2> QED BY <1>1, <1>3, <1>6, Iteration
<1>8. Def(p)
    <2>1. ASSUME NEW k \in 1 .. n PROVE p[k] = next(k, p[k - 1])
        <3>1. p[k - 1] \in Walks
            BY <1>1, <1>7 DEF Iterates
        <3>2. p[k] = step[k][p[k - 1]]
            BY <1>7 DEF Iterates
        <3> HIDE DEF next
        <3> QED BY <3>1, <3>2
    <2> HIDE DEF next
    <2> QED BY <1>7, <2>1 DEF Iterates
<1> DEFINE q == CHOOSE p2 : Def(p2)
<1>9. Def(q)
    BY <1>8
<1> HIDE DEF q
<1>10. q[0] = first /\ \A k \in 1 .. n : q[k] = next(k, q[k - 1])
    <2> HIDE DEF next
    <2> QED BY <1>1, <1>9
<1> DEFINE Fine(k) ==
               /\ q[k] \in Walks /\ Distinct(q[k].line)
               /\ InSeq(q[k].line) \subseteq {order[i] : i \in 1 .. k}
               /\ q[k].open \/ q[k].line # <<>> => sign # 0
           good == {k \in 0 .. n : Fine(k)}
<1>11. 0 \in good
    <2>1. first.line = <<>> /\ first.open = (sign # 0)
        BY DEF first
    <2>2. Distinct(<<>>) /\ InSeq(<<>>) = {}
        BY DEF Distinct, InSeq
    <2>3. Fine(0)
        BY <1>3, <1>10, <2>1, <2>2
    <2> QED BY <1>1, <2>3
<1>12. ASSUME NEW k \in 1 .. n, Fine(k - 1) PROVE Fine(k)
    <2> DEFINE w == q[k - 1]
               c == order[k]
    <2>1. w \in Walks /\ w.line \in Seq(Batteries) /\ c \in Batteries /\ q[k] = next(k, w)
        BY <1>1, <1>10, <1>12 DEF Walks
    <2>2. {order[i] : i \in 1 .. k - 1} \subseteq {order[i] : i \in 1 .. k}
        BY <1>1
    <2>3. q[k] \in Walks
        BY <1>5, <2>1
    <2>4. CASE q[k] = w
        BY <1>12, <2>2, <2>4
    <2>5. CASE q[k] # w
        <3>1. q[k] = Considered(w, c, sign)
            BY <2>1, <2>5
        <3>2. w.open /\ q[k].line \in {w.line, Append(w.line, c)}
            BY <2>1, <2>5, <3>1, ConsideredType
        <3>3. sign # 0
            BY <1>12, <3>2
        <3>4. c \notin InSeq(w.line)
            <4>1. c \notin {order[i] : i \in 1 .. k - 1}
                BY <1>1 DEF Distinct
            <4> QED BY <1>12, <4>1
        <3>5. Distinct(Append(w.line, c)) /\ InSeq(Append(w.line, c)) = InSeq(w.line) \cup {c}
            BY <1>12, <2>1, <3>4, AppendDistinct
        <3>6. c \in {order[i] : i \in 1 .. k}
            BY <1>1
        <3>7. Distinct(w.line) /\ InSeq(w.line) \subseteq {order[i] : i \in 1 .. k}
            BY <1>12, <2>2
        <3> HIDE DEF w, c
        <3>8. Distinct(q[k].line) /\ InSeq(q[k].line) \subseteq {order[i] : i \in 1 .. k}
            <4>1. CASE q[k].line = w.line
                BY <3>7, <4>1
            <4>2. CASE q[k].line = Append(w.line, c)
                BY <3>5, <3>6, <3>7, <4>2
            <4> QED BY <3>2, <4>1, <4>2
        <3> QED BY <2>3, <3>3, <3>8
    <2> QED BY <2>4, <2>5
<1>13. \A k \in 0 .. n : k \in good
    <2>1. \A k \in 1 .. n : k - 1 \in good => k \in good
        <3> SUFFICES ASSUME NEW k \in 1 .. n, k - 1 \in good PROVE k \in good
            OBVIOUS
        <3>1. Fine(k - 1) /\ k \in 0 .. n
            BY <1>1
        <3> HIDE DEF Fine
        <3> QED BY <3>1, <1>12
    <2> HIDE DEF good
    <2> QED BY <1>1, <1>11, <2>1, Upward, Zenon
<1>14. Fine(n)
    <2>1. n \in 0 .. n
        BY <1>1
    <2> HIDE DEF Fine
    <2>2. n \in good => Fine(n)
        OBVIOUS
    <2> HIDE DEF good
    <2> QED BY <1>13, <2>1, <2>2
<1>15. walked = q[n]
    BY DEF q
<1> HIDE DEF walked
<1>16. /\ walked.line \in Seq(Batteries) /\ walked.caps \in Caps
       /\ walked.free \in NotFree .. ReleaseDelay
       /\ Distinct(walked.line) /\ (walked.line # <<>> => sign # 0)
    BY <1>14, <1>15 DEF Walks
<1>17. Spilled(f).line = walked.line /\ Spilled(f).dir = IF walked.line = <<>> THEN 0 ELSE sign
    BY <1>4
<1>18. Spilled(f) \in Spills
    <2>1. (IF walked.line = <<>> THEN 0 ELSE sign) \in {-1, 0, 1}
        BY <1>2
    <2>2. (IF walked.line = <<>> THEN NoSpill.caps ELSE walked.caps) \in Caps
        BY <1>3, <1>16 DEF first, Walks
    <2>3. (IF walked.held THEN walked.free ELSE NotFree) \in NotFree .. ReleaseDelay
        BY <1>16, AutoPoolAssumption DEF NotFree
    <2> QED BY <1>4, <1>16, <2>1, <2>2, <2>3 DEF Spills
<1> QED BY <1>16, <1>17, <1>18 DEF GoodSpill

-----------------------------------------------------------------------------
(* A poll                                                                    *)

LEMMA FadedType ==
    ASSUME Shape
    PROVE  Faded \in [Batteries -> 0 .. 2]
<1>1. ASSUME NEW c \in Batteries PROVE Faded[c] \in 0 .. 2
    <2>1. fade[c] \in 0 .. 2
        BY DEF Shape
    <2> QED BY <2>1 DEF Faded, Most, Least
<1>2. Faded = [c \in Batteries |-> Faded[c]]
    BY DEF Faded
<1> QED BY <1>1, <1>2

\* The pass of a poll, and the pass without some batteries.
LEMMA PassType ==
    ASSUME NEW f \in [Batteries -> 0 .. 2], NEW sp, GoodSpill(sp)
    PROVE  GoodPass(PassOf(f, sp)) /\ PassOf(f, sp).spill = sp /\ PassOf(f, sp).fade = f
<1>1. Part(f, sp.line, Blind(Grid)) \in [Batteries -> Nat]
    <2>1. FullPart \in Nat
        BY AutoPoolAssumption DEF FullPart
    <2> QED BY <2>1 DEF Part
<1>2. /\ PassOf(f, sp).spill = sp /\ PassOf(f, sp).fade = f
      /\ PassOf(f, sp).eff = Part(f, sp.line, Blind(Grid))
    BY DEF PassOf
<1> QED BY <1>1, <1>2 DEF GoodPass

LEMMA WithoutType ==
    ASSUME NEW p, GoodPass(p), NEW ids
    PROVE  /\ GoodPass(Without(p, ids))
           /\ Without(p, ids).spill = p.spill /\ Without(p, ids).fade = p.fade
<1> DEFINE eff == [c \in Batteries |-> IF c \in ids THEN 0 ELSE p.eff[c]]
<1>1. eff \in [Batteries -> Nat]
    BY DEF GoodPass
<1>2. Without(p, ids) = [p EXCEPT !.eff = eff]
    BY DEF Without
<1> QED BY <1>1, <1>2 DEF GoodPass

\* The gate decides about those outside the reserve only.
LEMMA IdlesOutside ==
    ASSUME NEW p
    PROVE  /\ Idles(p) \subseteq GateIds(p)
           /\ GateIds(p) \subseteq Batteries \ InSeq(p.spill.line)
<1>1. GateIds(p) \subseteq Batteries \ InSeq(p.spill.line)
    BY DEF GateIds
<1>2. Idles(p) \subseteq GateIds(p)
    BY DEF Idles
<1> QED BY <1>1, <1>2

LEMMA ProbeDemandType ==
    ASSUME Shape, NEW p, GoodPass(p)
    PROVE  ProbeDemand(p) \in Int
<1>1. load \in Int /\ Grid \in Int
    BY GridType
<1>2. GoodSpill(p.spill) /\ InSeq(p.spill.line) \in SUBSET Batteries
    BY InLine DEF GoodPass, GoodSpill, Spills
<1>3. Total(out, InSeq(p.spill.line)) \in Int
    <2>1. \A c \in InSeq(p.spill.line) : out[c] \in Int
        BY <1>2 DEF Shape
    <2> QED BY <1>2, <2>1, PoolTotal
<1>4. (IF Unloading(p, Grid) THEN GivesBack(p, Grid) ELSE 0) \in Int
    <2>1. CASE Unloading(p, Grid)
        <3>1. Grid * p.spill.dir < 0
            BY <1>1, <1>2, <2>1, UnloadingMeans
        <3>2. GivesBack(p, Grid) \in Int
            BY <1>1, <1>2, <3>1, GivesBackType
        <3> QED BY <2>1, <3>2
    <2>2. CASE ~Unloading(p, Grid)
        BY <2>2
    <2> QED BY <2>1, <2>2
<1>5. SpillDelivery(p) \in Int
    BY <1>3, <1>4 DEF SpillDelivery
<1> QED BY <1>1, <1>5 DEF ProbeDemand

LEMMA CandidateTargetType ==
    ASSUME Shape, NEW p, GoodPass(p), probe.cand \in Batteries
    PROVE  CandidateTarget(p) \in Int
<1> DEFINE want == ProbeDemand(p)
           much == Most(Abs(out[probe.cand]), Least(Most(Abs(want), ProbeStep), probe.asked + ProbeStep))
           less == Most(0, probe.asked - ProbeProof)
<1>1. want \in Int /\ out[probe.cand] \in Int /\ probe.asked \in Int
      /\ ProbeStep \in Int /\ ProbeProof \in Int
    <2>1. want \in Int
        BY ProbeDemandType
    <2>2. out[probe.cand] \in Int /\ probe.asked \in Nat
        BY DEF Shape
    <2> HIDE DEF want
    <2> QED BY <2>1, <2>2, AutoPoolAssumption
<1> HIDE DEF want
<1>2. much \in Int /\ less \in Int /\ Sign(want) \in Int
    BY <1>1 DEF Most, Least, Abs, Sign
<1>3. CandidateTarget(p) = IF want # 0 THEN Sign(want) * much ELSE less
    BY DEF CandidateTarget, want
<1> DEFINE s == Sign(want)
<1>4. s * much \in Int
    <2>1. s \in Int
        BY <1>2
    <2> HIDE DEF s, much
    <2> QED BY <1>2, <2>1
<1> HIDE DEF much, less
<1> QED BY <1>2, <1>3, <1>4

LEMMA SupportTargetType ==
    ASSUME Shape, NEW p, GoodPass(p), NEW c \in Supports, NEW proven \in Int
    PROVE  SupportTarget(p, c, proven) \in Int
<1> DEFINE want == ProbeDemand(p) - proven
           weights == [d \in Supports |-> Most(1, p.eff[d]) * Weight[d]]
           fair == Whole(WeightedShares(want, weights, Supports)[c])
           healthy == {d \in Supports : weights[d] * 10 > FullPart}
<1>1. want \in Int
    BY ProbeDemandType
<1>2. Supports \in SUBSET Batteries
    BY DEF Supports, Participants, Shape
<1>3. \A d \in Supports : weights[d] \in Nat
    <2>1. ASSUME NEW d \in Supports PROVE weights[d] \in Nat
        <3>1. p.eff[d] \in Nat /\ Weight[d] \in Nat
            BY <1>2, AutoPoolAssumption DEF GoodPass
        <3>2. Most(1, p.eff[d]) \in Nat
            BY <3>1 DEF Most
        <3> QED BY <3>1, <3>2
    <2> QED BY <2>1
<1>4. healthy \in SUBSET Batteries /\ c \in Batteries
    BY <1>2
<1>5. GoodSpill(p.spill)
    BY DEF GoodPass
<1>6. SupportTarget(p, c, proven) =
          IF Abs(want) < BalanceBand \/ healthy = {} THEN fair
          ELSE fair + Correction(Errors(p, healthy)[c])
    BY DEF SupportTarget
<1> HIDE DEF want, weights
<1>7. fair \in Int
    <2>1. IsFiniteSet(Supports)
        BY <1>2, PoolIsFinite
    <2>2. /\ WeightedShares(want, weights, Supports)[c].num \in Int
          /\ WeightedShares(want, weights, Supports)[c].den \in Nat \ {0}
        BY <1>1, <1>3, <2>1, WeightedSharesType
    <2> QED BY <2>2, WholeType
<1> HIDE DEF fair, healthy
<1>8. Correction(Errors(p, healthy)[c]) \in Int
    BY <1>4, <1>5, ErrorsType, CorrectionType
<1> QED BY <1>6, <1>7, <1>8

LEMMA FadingTargetType ==
    ASSUME Shape, NEW p, GoodPass(p), NEW c \in Batteries
    PROVE  FadingTarget(p, c) \in Int
<1>1. load \in Int /\ IsFiniteSet(Batteries) /\ \A d \in Batteries : p.fade[d] \in Nat
    BY GridType, PoolIsFinite DEF GoodPass
<1>2. /\ WeightedShares(load, p.fade, Batteries)[c].num \in Int
      /\ WeightedShares(load, p.fade, Batteries)[c].den \in Nat \ {0}
    BY <1>1, WeightedSharesType
<1> QED BY <1>2, WholeType DEF FadingTarget

\* Every path of a poll ends in a command within the limit of the one polled.
Settles(c) ==
    /\ out' \in [Batteries -> Int] /\ \A d \in Batteries \ {c} : out'[d] = out[d]
    /\ Abs(out'[c]) <= Limit[c] /\ (c \in empty => out'[c] = 0)

LEMMA EmitType ==
    ASSUME Shape, NEW c \in Batteries, NEW want \in Int, Emit(c, want)
    PROVE  Settles(c)
<1>1. out \in [Batteries -> Int] /\ Limit[c] \in Nat
    BY AutoPoolAssumption DEF Shape
<1>2. Within(want, Limit[c]) \in Int
    BY <1>1, WithinType
<1> DEFINE o == Delivers(c, Within(want, Limit[c]) - out[c])
<1>3. o \in Int /\ Abs(o) <= Limit[c] /\ (c \in empty => o = 0)
    BY <1>1, <1>2, DeliversType
<1>4. out' = [out EXCEPT ![c] = o]
    BY DEF Emit
<1> HIDE DEF o
<1> QED BY <1>1, <1>3, <1>4 DEF Settles

LEMMA EmitPacedType ==
    ASSUME Shape, NEW c \in Batteries, NEW want \in Int, EmitPaced(c, want)
    PROVE  /\ Settles(c)
           /\ out'[c] = Delivers(c, Within(Within(want, Limit[c]) - out[c], PaceCap))
<1>1. out \in [Batteries -> Int] /\ Limit[c] \in Nat /\ PaceCap \in Nat
    BY AutoPoolAssumption DEF Shape
<1>2. Within(want, Limit[c]) \in Int
    BY <1>1, WithinType
<1>3. Within(Within(want, Limit[c]) - out[c], PaceCap) \in Int
    BY <1>1, <1>2, WithinType
<1> DEFINE o == Delivers(c, Within(Within(want, Limit[c]) - out[c], PaceCap))
<1>4. o \in Int /\ Abs(o) <= Limit[c] /\ (c \in empty => o = 0)
    BY <1>1, <1>3, DeliversType
<1>5. out' = [out EXCEPT ![c] = o]
    BY DEF EmitPaced
<1> HIDE DEF o
<1>6. Settles(c) /\ out'[c] = o
    BY <1>1, <1>4, <1>5 DEF Settles
<1> QED BY <1>6 DEF o

\* What a path leaves of the probe and of the batteries that idle.
Probes == [cand : Batteries \cup {0}, active : SUBSET Batteries, backup : SUBSET Batteries,
           restore : Seq(Batteries), asked : Nat]
GoodProbe(r) == r \in Probes /\ (r # NoProbe => r.cand \in Batteries)

LEMMA PollProbeType ==
    ASSUME Shape, NEW p, GoodPass(p), NEW c \in Batteries, PollProbe(c, p)
    PROVE  Settles(c) /\ GoodProbe(probe') /\ idle' = idle
<1>1. probe \in Probes /\ probe.cand \in Batteries /\ c \in Participants
    <2>1. probe # NoProbe
        BY DEF PollProbe, Participants, NoProbe
    <2> QED BY <2>1 DEF Shape, Probes, PollProbe
<1>2. CASE /\ c = probe.cand
           /\ Emit(c, CandidateTarget(p)) /\ probe' = [probe EXCEPT !.asked = Abs(CandidateTarget(p))]
    <2>1. CandidateTarget(p) \in Int
        BY <1>1, CandidateTargetType
    <2>2. Settles(c)
        BY <1>2, <2>1, EmitType
    <2>3. Abs(CandidateTarget(p)) \in Nat
        BY <2>1 DEF Abs
    <2>4. probe' \in Probes /\ probe'.cand = probe.cand
        BY <1>1, <1>2, <2>3 DEF Probes
    <2> QED BY <1>1, <2>2, <2>4 DEF PollProbe, GoodProbe
<1>3. CASE /\ c # probe.cand
           /\ \E proven \in {0, out[probe.cand]} : Emit(c, SupportTarget(p, c, proven))
           /\ UNCHANGED probe
    <2>1. PICK proven \in {0, out[probe.cand]} : Emit(c, SupportTarget(p, c, proven))
        BY <1>3
    <2>2. c \in Supports /\ proven \in Int
        BY <1>1, <1>3 DEF Supports, Shape
    <2>3. SupportTarget(p, c, proven) \in Int
        BY <2>2, SupportTargetType
    <2>4. Settles(c)
        BY <2>1, <2>3, EmitType
    <2> QED BY <1>1, <1>3, <2>4 DEF PollProbe, GoodProbe
<1> QED BY <1>2, <1>3 DEF PollProbe

LEMMA PollBlindType ==
    ASSUME Shape, NEW p, NEW c \in Batteries, PollBlind(c, p)
    PROVE  /\ Settles(c) /\ probe' = probe /\ idle' = idle
           /\ out'[c] = Delivers(c, Within(Within(0, Limit[c]) - out[c], PaceCap))
<1>1. EmitPaced(c, 0) /\ probe' = probe /\ idle' = idle
    BY DEF PollBlind
<1> QED BY <1>1, EmitPacedType

LEMMA PollRestingType ==
    ASSUME Shape, NEW p, NEW c \in Batteries, PollResting(c, p)
    PROVE  /\ Settles(c) /\ probe' = probe /\ idle' = idle
           /\ c \notin InSeq(p.spill.line)
<1>1. EmitPaced(c, 0) /\ probe' = probe /\ idle' = idle /\ c \notin InSeq(p.spill.line)
    BY DEF PollResting, Out
<1> QED BY <1>1, EmitPacedType

LEMMA PollHandoffType ==
    ASSUME Shape, NEW p, GoodPass(p), NEW c \in Batteries, PollHandoff(c, p)
    PROVE  /\ Settles(c) /\ probe' = probe /\ idle' = idle
           /\ c \in InSeq(p.spill.line) =>
                 \E want \in Int :
                    /\ want * p.spill.dir >= 0
                    /\ out'[c] = Delivers(c, Within(Within(want, Limit[c]) - out[c], PaceCap))
<1>1. CASE c \in InSeq(p.spill.line)
    <2> DEFINE hold == probe # NoProbe
               want == SpillTarget(p, c, hold)
    <2>1. EmitPaced(c, want) /\ probe' = probe /\ idle' = idle
        BY <1>1 DEF PollHandoff
    <2>2. want \in Int /\ want * p.spill.dir >= 0
        <3>1. hold \in BOOLEAN
            OBVIOUS
        <3> HIDE DEF hold
        <3> QED BY <1>1, <3>1, SpillTargetType DEF want
    <2> HIDE DEF want
    <2> QED BY <2>1, <2>2, EmitPacedType
<1>2. CASE c \notin InSeq(p.spill.line)
    <2>1. EmitPaced(c, FadingTarget(p, c)) /\ probe' = probe /\ idle' = idle
        BY <1>2 DEF PollHandoff
    <2>2. FadingTarget(p, c) \in Int
        BY FadingTargetType
    <2> QED BY <1>2, <2>1, <2>2, EmitPacedType
<1> QED BY <1>1, <1>2

\* The pass a settled battery's share is computed on, without those outside
\* and without those the gate idles, and whom it idles.
InsidePass(p) == Without(p, Out(p))
SharePass(p) == Without(InsidePass(p), Idles(InsidePass(p)))

LEMMA PollSettledType ==
    ASSUME Shape, NEW p, GoodPass(p), NEW c \in Batteries, PollSettled(c, p)
    PROVE  /\ Settles(c) /\ probe' = probe /\ idle' \in SUBSET Batteries
           /\ GoodPass(SharePass(p)) /\ SharePass(p).spill = p.spill
           /\ c \notin Idles(InsidePass(p)) =>
                 out'[c] = Delivers(c, Within(Within(SharedTarget(SharePass(p), c), Limit[c])
                                                - out[c], PaceCap))
           /\ c \in InSeq(p.spill.line) => c \notin Idles(InsidePass(p))
           /\ Idles(InsidePass(p)) \subseteq idle'
<1> DEFINE q == InsidePass(p)
           gated == Idles(q)
           want == IF c \in gated THEN 0 ELSE SharedTarget(SharePass(p), c)
<1>1. GoodPass(q) /\ q.spill = p.spill
    BY WithoutType DEF InsidePass
<1>2. GoodPass(SharePass(p)) /\ SharePass(p).spill = p.spill
    BY <1>1, WithoutType DEF SharePass
<1>3. gated \subseteq GateIds(q) /\ GateIds(q) \subseteq Batteries \ InSeq(p.spill.line)
    BY <1>1, IdlesOutside
<1>4. /\ idle' = (idle \ GateIds(q)) \cup gated /\ probe' = probe
      /\ EmitPaced(c, want)
    BY DEF PollSettled, InsidePass, SharePass
<1>5. SharedTarget(SharePass(p), c) \in Int
    BY <1>2, SharedTargetType
<1>6. want \in Int
    BY <1>5
<1>7. Settles(c) /\ out'[c] = Delivers(c, Within(Within(want, Limit[c]) - out[c], PaceCap))
    <2> HIDE DEF want
    <2> QED BY <1>4, <1>6, EmitPacedType
<1>8. idle' \in SUBSET Batteries
    BY <1>3, <1>4 DEF Shape
<1> QED BY <1>2, <1>3, <1>4, <1>7, <1>8

-----------------------------------------------------------------------------
(* The shape of the state, always                                            *)

LEMMA MovedToTailType ==
    ASSUME Shape, NEW c \in Batteries
    PROVE  MovedToTail(c) \in Orders
<1> DEFINE at == CHOOSE i \in DOMAIN order : order[i] = c
           m == [i \in 1 .. Size |->
                    IF i < at THEN order[i] ELSE IF i < Size THEN order[i + 1] ELSE c]
<1>1. /\ order \in [1 .. Size -> Batteries] /\ DOMAIN order = 1 .. Size /\ Len(order) = Size
      /\ Size \in Nat /\ InSeq(order) = Batteries
    BY OrderType DEF Shape
<1>2. at \in 1 .. Size /\ order[at] = c
    BY <1>1 DEF InSeq
<1>3. MovedToTail(c) = m
    BY <1>1 DEF MovedToTail
<1> HIDE DEF at
<1>4. m \in [1 .. Size -> Batteries]
    BY <1>1
<1>6. ASSUME NEW d \in Batteries PROVE \E i \in 1 .. Size : m[i] = d
    <2>1. PICK i \in 1 .. Size : order[i] = d
        BY <1>1 DEF InSeq
    <2>2. CASE i < at
        BY <2>1, <2>2
    <2>3. CASE i = at
        <3>1. Size \in 1 .. Size /\ m[Size] = c
            BY <1>1, <1>2
        <3> QED BY <1>2, <2>1, <2>3, <3>1
    <2>4. CASE i > at
        <3>1. i - 1 \in 1 .. Size /\ m[i - 1] = order[i]
            BY <1>1, <1>2, <2>4
        <3> QED BY <2>1, <3>1
    <2> QED BY <1>1, <1>2, <2>2, <2>3, <2>4
<1>7. m \in Orders
    <2> HIDE DEF m
    <2> QED BY <1>4, <1>6, IsOrder
<1> QED BY <1>3, <1>7

LEMMA NoProbeIsGood == GoodProbe(NoProbe)
<1>1. <<>> \in Seq(Batteries)
    OBVIOUS
<1> QED BY <1>1 DEF GoodProbe, Probes, NoProbe

\* A new order leaves a good probe: the first newcomer is the candidate.
LEMMA ReorderType ==
    ASSUME Shape, NEW o \in Orders, NEW n \in Slots, Reorder(o, n)
    PROVE  /\ order' \in Orders /\ slots' \in Slots /\ GoodProbe(probe')
           /\ fade' \in [Batteries -> 0 .. 2] /\ marked' \subseteq Batteries
<1> DEFINE was == Active
           now == {o[i] : i \in 1 .. n}
           fresh == {i \in 1 .. n : o[i] \notin was}
           first == CHOOSE i \in 1 .. n : o[i] \notin was /\ \A k \in 1 .. i - 1 : o[k] \in was
           before == [i \in 1 .. slots |-> order[i]]
<1>1. n \in 1 .. Size /\ o \in [1 .. Size -> Batteries] /\ Size \in Nat
    BY OrderType, AutoPoolAssumption DEF Size
<1>2. now \subseteq Batteries
    BY <1>1
<1>3. was \subseteq Batteries /\ before \in Seq(Batteries)
    <2>1. order \in [1 .. Size -> Batteries] /\ slots \in 1 .. Size
        BY OrderType, AutoPoolAssumption DEF Shape, Size
    <2>2. before \in [1 .. slots -> Batteries] /\ slots \in Nat
        BY <1>1, <2>1
    <2>3. before \in Seq(Batteries)
        BY <2>2, SeqDef
    <2> QED BY <1>1, <2>1, <2>3 DEF Active
<1>4. order' = o /\ slots' = n /\ marked' \subseteq Batteries
    BY DEF Reorder, Shape
<1>5. CASE now \ was # {} /\ was \ now # {}
    <2>1. fresh # {} /\ fresh \in SUBSET Nat
        BY <1>1, <1>5
    <2>2. PICK i \in fresh : \A m \in fresh : i <= m
        <3> HIDE DEF fresh
        <3> QED BY <2>1, LeastNumber
    <2>3. i \in 1 .. n /\ o[i] \notin was
        BY <2>2
    <2>4. \A k \in 1 .. i - 1 : o[k] \in was
        <3> SUFFICES ASSUME NEW k \in 1 .. i - 1, o[k] \notin was PROVE FALSE
            OBVIOUS
        <3>1. k \in 1 .. n
            BY <1>1, <2>3
        <3>2. k \in fresh
            BY <3>1
        <3>3. i <= k
            BY <2>2, <3>2
        <3> QED BY <1>1, <2>3, <3>3
    <2> HIDE DEF was, fresh
    <2>5. first \in 1 .. n
        BY <2>3, <2>4
    <2> HIDE DEF first
    <2>6. o[first] \in Batteries
        BY <1>1, <2>5
    <2>7. /\ probe' = [cand |-> o[first], active |-> now, backup |-> was \ now,
                       restore |-> before, asked |-> 0]
          /\ fade' = [c \in Batteries |-> IF c \in now \cup was THEN 2 ELSE fade[c]]
        BY <1>5 DEF Reorder, first, was
    <2> HIDE DEF now
    <2>8. fade' \in [Batteries -> 0 .. 2]
        BY <2>7 DEF Shape
    <2> HIDE DEF before
    <2>9. probe' \in Probes /\ probe'.cand \in Batteries
        BY <1>2, <1>3, <2>6, <2>7 DEF Probes
    <2> QED BY <1>4, <2>8, <2>9 DEF GoodProbe
<1>6. CASE ~ (now \ was # {} /\ was \ now # {})
    <2>1. probe' = NoProbe /\ fade' = fade
        BY <1>6 DEF Reorder
    <2>2. GoodProbe(probe')
        BY <2>1, NoProbeIsGood
    <2> QED BY <1>4, <2>1, <2>2 DEF Shape
<1> QED BY <1>5, <1>6

LEMMA InitShape == Init => Shape
<1> SUFFICES ASSUME Init PROVE Shape
    OBVIOUS
<1>1. load \in Loads /\ out \in [Batteries -> Int]
    BY DEF Init
<1>2. \A c \in Batteries : Abs(out[c]) <= Limit[c] /\ (c \in empty => out[c] = 0)
    <2>1. ASSUME NEW c \in Batteries PROVE out[c] = 0 /\ Limit[c] \in Nat
        BY AutoPoolAssumption DEF Init
    <2> QED BY <2>1 DEF Abs
<1>3. order \in Orders
    <2>1. FirstOrder \in Seq(Batteries) /\ Len(FirstOrder) = Size /\ DOMAIN FirstOrder = 1 .. Size
        BY AutoPoolAssumption, LenProperties DEF Size
    <2>2. FirstOrder \in [1 .. Size -> Batteries]
        BY <2>1, LenProperties
    <2>3. \A c \in Batteries : \E i \in 1 .. Size : FirstOrder[i] = c
        BY <2>1, AutoPoolAssumption
    <2> QED BY <2>2, <2>3, IsOrder DEF Init
<1>4. slots \in Slots /\ fade \in [Batteries -> 0 .. 2]
    BY DEF Init
<1>5. GoodProbe(probe)
    BY NoProbeIsGood DEF Init
<1>6. empty \subseteq Batteries /\ marked \subseteq Batteries /\ idle \subseteq Batteries
      /\ quiet \subseteq Batteries
    BY DEF Init
<1>7. GoodSpill(spill)
    <2> DEFINE none == [c \in {} |-> 0]
    <2>1. none \in Caps
        <3>1. none \in [{} -> Nat] /\ {} \in SUBSET Batteries
            OBVIOUS
        <3> QED BY <3>1 DEF Caps
    <2>2. NoSpill = [line |-> <<>>, dir |-> 0, caps |-> none, free |-> NotFree]
        BY DEF NoSpill
    <2> HIDE DEF none
    <2>3. <<>> \in Seq(Batteries) /\ NotFree \in NotFree .. ReleaseDelay
        BY AutoPoolAssumption DEF NotFree
    <2>4. Distinct(<<>>)
        BY DEF Distinct
    <2>5. NoSpill \in Spills
        BY <2>1, <2>2, <2>3 DEF Spills
    <2> QED BY <2>2, <2>4, <2>5 DEF GoodSpill, Init
<1>8. /\ probe \in [cand : Batteries \cup {0}, active : SUBSET Batteries,
                   backup : SUBSET Batteries, restore : Seq(Batteries), asked : Nat]
      /\ probe # NoProbe => probe.cand \in Batteries
    BY <1>5 DEF GoodProbe, Probes
<1> QED BY <1>1, <1>2, <1>3, <1>4, <1>6, <1>7, <1>8 DEF Shape

\* What a poll changes, path by path, is of the right shape.
LEMMA PollShape ==
    ASSUME Shape, NEW c \in Batteries, Poll(c)
    PROVE  Shape'
<1> DEFINE p == PassOf(Faded, Spilled(Faded))
<1>1. Faded \in [Batteries -> 0 .. 2]
    BY FadedType
<1>2. GoodPass(p) /\ p.spill = Spilled(Faded)
    BY <1>1, SpilledType, PassType
<1>3. /\ fade' = Faded /\ spill' = p.spill
      /\ PollProbe(c, p) \/ PollBlind(c, p) \/ PollHandoff(c, p)
         \/ PollResting(c, p) \/ PollSettled(c, p)
      /\ UNCHANGED <<load, order, slots, empty>>
    BY DEF Poll
<1>4. quiet' \subseteq Batteries /\ marked' \subseteq Batteries
    BY DEF Poll, Shape
<1> HIDE DEF p
<1>5. GoodProbe(probe) /\ idle \in SUBSET Batteries
    BY DEF Shape, GoodProbe, Probes
<1>6. Settles(c) /\ GoodProbe(probe') /\ idle' \in SUBSET Batteries
    <2>1. CASE PollProbe(c, p)
        BY <1>2, <1>5, <2>1, PollProbeType
    <2>2. CASE PollBlind(c, p)
        BY <1>5, <2>2, PollBlindType
    <2>3. CASE PollHandoff(c, p)
        BY <1>2, <1>5, <2>3, PollHandoffType
    <2>4. CASE PollResting(c, p)
        BY <1>5, <2>4, PollRestingType
    <2>5. CASE PollSettled(c, p)
        BY <1>2, <1>5, <2>5, PollSettledType
    <2> QED BY <1>3, <2>1, <2>2, <2>3, <2>4, <2>5
<1>7. GoodSpill(spill')
    BY <1>2, <1>3 DEF GoodPass
<1>8. \A d \in Batteries : Abs(out'[d]) <= Limit[d] /\ (d \in empty => out'[d] = 0)
    <2> SUFFICES ASSUME NEW d \in Batteries
                 PROVE  Abs(out'[d]) <= Limit[d] /\ (d \in empty => out'[d] = 0)
        OBVIOUS
    <2>1. CASE d = c
        BY <1>6, <2>1 DEF Settles
    <2>2. CASE d # c
        <3>1. out'[d] = out[d]
            BY <1>6, <2>2 DEF Settles
        <3> QED BY <3>1 DEF Shape
    <2> QED BY <2>1, <2>2
<1>9. out' \in [Batteries -> Int]
    BY <1>6 DEF Settles
<1> QED BY <1>1, <1>3, <1>4, <1>6, <1>7, <1>8, <1>9 DEF Shape, GoodProbe, Probes

\* Every step of the pool keeps the shape.
LEMMA NextShape ==
    ASSUME Shape, [Next]_vars
    PROVE  Shape'
<1>1. ASSUME NEW c \in Batteries, Poll(c) PROVE Shape'
    BY <1>1, PollShape
<1>2. ASSUME NEW c \in Batteries, BatteryFails(c) PROVE Shape'
    <2>1. /\ empty' = empty \cup {c} /\ out' = [out EXCEPT ![c] = 0] /\ quiet' = {}
          /\ UNCHANGED <<load, order, slots, fade, probe, marked, idle, spill>>
        BY <1>2 DEF BatteryFails
    <2>2. ASSUME NEW d \in Batteries
          PROVE  Abs(out'[d]) <= Limit[d] /\ (d \in empty' => out'[d] = 0)
        <3>1. CASE d = c
            <4>1. out'[d] = 0 /\ Limit[d] \in Nat
                BY <2>1, <3>1, AutoPoolAssumption DEF Shape
            <4> QED BY <4>1 DEF Abs
        <3>2. CASE d # c
            BY <2>1, <3>2 DEF Shape
        <3> QED BY <3>1, <3>2
    <2>3. out' \in [Batteries -> Int] /\ empty' \subseteq Batteries /\ quiet' \subseteq Batteries
        BY <2>1 DEF Shape
    <2> QED BY <2>1, <2>2, <2>3 DEF Shape
<1>3. ASSUME NEW c \in Batteries, BatteryRecovers(c) PROVE Shape'
    <2>1. /\ empty' = empty \ {c} /\ quiet' = {}
          /\ UNCHANGED <<load, out, order, slots, fade, probe, marked, idle, spill>>
        BY <1>3 DEF BatteryRecovers
    <2> QED BY <2>1 DEF Shape
<1>4. ASSUME NEW c \in Batteries, Judge(c) PROVE Shape'
    <2>1. /\ marked' = (IF c \in empty THEN marked \cup {c} ELSE marked \ {c}) /\ quiet' = {}
          /\ UNCHANGED <<load, out, order, slots, fade, probe, empty, idle, spill>>
        BY <1>4 DEF Judge
    <2> QED BY <2>1 DEF Shape
<1>5. CASE Rotate
    <2>1. PICK n \in Slots, o \in {order, MovedToTail(order[1])} : Reorder(o, n)
        BY <1>5 DEF Rotate
    <2>2. quiet' = {} /\ UNCHANGED <<load, out, empty, idle, spill>>
        BY <1>5 DEF Rotate
    <2>3. o \in Orders
        <3>1. order \in [1 .. Size -> Batteries] /\ n \in 1 .. Size /\ Size \in Nat
            BY OrderType, AutoPoolAssumption DEF Shape, Size
        <3>2. order[1] \in Batteries
            BY <3>1
        <3>3. MovedToTail(order[1]) \in Orders
            BY <3>2, MovedToTailType
        <3>4. order \in Orders
            BY DEF Shape
        <3> QED BY <3>3, <3>4
    <2>4. /\ order' \in Orders /\ slots' \in Slots /\ GoodProbe(probe')
          /\ fade' \in [Batteries -> 0 .. 2] /\ marked' \subseteq Batteries
        BY <2>1, <2>3, ReorderType
    <2> QED BY <2>2, <2>4 DEF Shape, GoodProbe, Probes
<1>6. CASE ProbeEnds
    <2>1. /\ probe # NoProbe /\ probe' = NoProbe /\ (CommitProbe \/ RejectProbe)
          /\ quiet' = {} /\ UNCHANGED <<load, out, slots, empty, idle, spill>>
        BY <1>6 DEF ProbeEnds
    <2>2. order' \in Orders /\ fade' \in [Batteries -> 0 .. 2] /\ marked' \subseteq Batteries
        <3>1. CASE CommitProbe
            BY <3>1 DEF CommitProbe, Committed, FadeAt, Shape
        <3>2. CASE RejectProbe
            <4>1. order' \in Orders /\ marked' \subseteq marked \cup {probe.cand}
                BY <3>2 DEF RejectProbe
            <4>2. marked \subseteq Batteries /\ probe.cand \in Batteries
                BY <2>1 DEF Shape
            <4>3. fade' \in [Batteries -> 0 .. 2]
                BY <3>2 DEF RejectProbe, Shape
            <4> QED BY <4>1, <4>2, <4>3
        <3> QED BY <2>1, <3>1, <3>2
    <2>3. GoodProbe(probe')
        BY <2>1, NoProbeIsGood
    <2> QED BY <2>1, <2>2, <2>3 DEF Shape, GoodProbe, Probes
<1>7. CASE LoadChanges
    <2>1. /\ load' \in Loads /\ quiet' = {}
          /\ UNCHANGED <<out, order, slots, fade, probe, empty, marked, idle, spill>>
        BY <1>7 DEF LoadChanges
    <2> QED BY <2>1 DEF Shape
<1>8. CASE Tick
    <2>1. /\ spill.free < ReleaseDelay /\ spill' = [spill EXCEPT !.free = @ + 1] /\ quiet' = {}
          /\ UNCHANGED <<load, out, order, slots, fade, probe, empty, marked, idle>>
        BY <1>8 DEF Tick
    <2>2. GoodSpill(spill) /\ ReleaseDelay \in Nat
        BY AutoPoolAssumption DEF Shape
    <2>3. spill.free + 1 \in NotFree .. ReleaseDelay
        BY <2>1, <2>2 DEF GoodSpill, Spills, NotFree
    <2>4. GoodSpill(spill')
        BY <2>1, <2>2, <2>3 DEF GoodSpill, Spills
    <2> QED BY <2>1, <2>4 DEF Shape
<1>9. CASE UNCHANGED vars
    BY <1>9 DEF vars, Shape
<1> QED BY <1>1, <1>2, <1>3, <1>4, <1>5, <1>6, <1>7, <1>8, <1>9 DEF Next

LEMMA ShapeAlways == Spec => []Shape
<1>1. Init => Shape
    BY InitShape
<1>2. Shape /\ [Next]_vars => Shape'
    BY NextShape
<1> QED BY <1>1, <1>2, PTL DEF Spec

\* Orders stay orders of the whole pool, through rotations, probes and rejected
\* candidates; nobody is ever asked past its limit; and the reserve has a
\* direction exactly while somebody is in it, whatever the poll that left it so.
THEOREM TypeCorrect == Spec => []TypeOK
<1>1. Shape => TypeOK
    <2> SUFFICES ASSUME Shape PROVE TypeOK
        OBVIOUS
    <2>1. order \in [1 .. Size -> Batteries] /\ InSeq(order) = Batteries
        BY OrderType DEF Shape
    <2>2. spill \in Spills /\ (spill.dir = 0 <=> spill.line = <<>>)
        BY DEF Shape, GoodSpill
    <2>3. spill.dir \in {-1, 0, 1} /\ spill.free \in NotFree .. ReleaseDelay
          /\ InSeq(spill.line) \subseteq Batteries
        BY <2>2, InLine DEF Spills
    <2>4. \A c \in Batteries : Abs(out[c]) <= Limit[c]
        BY DEF Shape
    <2> QED BY <2>1, <2>2, <2>3, <2>4 DEF Shape, TypeOK, Size
<1> QED BY <1>1, ShapeAlways, PTL

\* However the house turns, the water-fill over what the reserve leaves behind
\* (its caps, its weights, its direction) is the max-min fair one.
THEOREM FairAlways == Spec => []WaterFillIsFair
<1>1. Shape => WaterFillIsFair
    <2> DEFINE p == [spill |-> spill]
    <2> SUFFICES ASSUME Shape, NEW total \in {load, 2 * load} \ {0}
                 PROVE  LET weights == ShareWeights(p)
                            ceil == Ceilings(p, Batteries, Sign(total))
                            f == Filled(total, weights, Batteries, ceil)
                            left == f.rest
                            free == Total(weights, f.free)
                        IN  /\ \A c \in f.free : left * weights[c] <= ceil[c] * free
                            /\ f.free # {} => \A c \in Batteries \ f.free :
                                                 left * weights[c] >= ceil[c] * free
        BY DEF WaterFillIsFair
    <2> DEFINE weights == ShareWeights(p)
               ceil == Ceilings(p, Batteries, Sign(total))
    <2>1. GoodSpill(p.spill)
        BY DEF Shape
    <2>2. total \in Int /\ Sign(total) # 0
        <3>1. load \in Int
            BY GridType
        <3> QED BY <3>1 DEF Sign
    <2> HIDE DEF p
    <2>3. \A c \in Batteries : weights[c] \in Nat \ {0}
        BY <2>1, ShareWeightType DEF ShareWeights
    <2>4. DOMAIN ceil = Batteries /\ \A c \in Batteries : ceil[c] \in Nat
        <3> DEFINE sign == Sign(total)
        <3>1. Batteries \in SUBSET Batteries /\ sign # 0
            BY <2>2
        <3> HIDE DEF sign
        <3>2. /\ DOMAIN Ceilings(p, Batteries, sign) = Batteries
              /\ \A c \in Batteries : Ceilings(p, Batteries, sign)[c] \in Nat
            BY <2>1, <3>1, CeilingsType
        <3> QED BY <3>2 DEF sign
    <2>5. IsFiniteSet(Batteries)
        BY AutoPoolAssumption
    <2> HIDE DEF weights, ceil
    <2> QED BY <2>2, <2>3, <2>4, <2>5, FilledIsFair DEF weights, ceil
<1> QED BY <1>1, ShapeAlways, PTL

-----------------------------------------------------------------------------
(* What the reserve's batteries, and those ahead of them, are never asked    *)

\* Only its own poll moves a battery that can still deliver.
LEMMA OnlyItsPoll ==
    ASSUME Shape, [Next]_vars, NEW c \in Batteries, out'[c] # out[c], empty' = empty
    PROVE  Poll(c)
<1>1. ASSUME NEW d \in Batteries, Poll(d) PROVE d = c
    <2> DEFINE p == PassOf(Faded, Spilled(Faded))
    <2>1. GoodPass(p)
        BY FadedType, SpilledType, PassType
    <2>2. PollProbe(d, p) \/ PollBlind(d, p) \/ PollHandoff(d, p)
          \/ PollResting(d, p) \/ PollSettled(d, p)
        BY <1>1 DEF Poll
    <2> HIDE DEF p
    <2>3. Settles(d)
        BY <2>1, <2>2, PollProbeType, PollBlindType, PollHandoffType, PollRestingType,
           PollSettledType
    <2> QED BY <2>3 DEF Settles
<1>2. ASSUME NEW d \in Batteries, BatteryFails(d) PROVE FALSE
    BY <1>2 DEF BatteryFails
<1>3. ASSUME out' = out PROVE FALSE
    BY <1>3
<1>4. (\E d \in Batteries : BatteryRecovers(d) \/ Judge(d)) \/ Rotate \/ ProbeEnds
      \/ LoadChanges \/ Tick \/ UNCHANGED vars => out' = out
    BY DEF BatteryRecovers, Judge, Rotate, ProbeEnds, LoadChanges, Tick, vars
<1> QED BY <1>1, <1>2, <1>3, <1>4 DEF Next

LEMMA NoCrossingStep ==
    ASSUME Shape, [Next]_vars, NEW c \in Batteries, out'[c] # out[c], empty' = empty,
           c \in InSeq(spill'.line) \ Participants
    PROVE  out'[c] * spill'.dir >= 0 \/ Abs(out'[c]) < Abs(out[c])
<1> DEFINE p == PassOf(Faded, Spilled(Faded))
           Paced(want) == Delivers(c, Within(Within(want, Limit[c]) - out[c], PaceCap))
<1>1. Poll(c)
    BY OnlyItsPoll
<1>2. GoodPass(p)
    BY FadedType, SpilledType, PassType
<1>3. /\ spill' = p.spill
      /\ PollProbe(c, p) \/ PollBlind(c, p) \/ PollHandoff(c, p)
         \/ PollResting(c, p) \/ PollSettled(c, p)
    BY <1>1 DEF Poll
<1> HIDE DEF p
<1>4. c \in InSeq(p.spill.line) /\ p.spill.dir \in {-1, 1}
    <2>1. c \in InSeq(p.spill.line)
        BY <1>3
    <2>2. p.spill.line # <<>>
        BY <2>1 DEF InSeq
    <2> QED BY <1>2, <2>1, <2>2 DEF GoodPass, GoodSpill, Spills
<1>5. \E want \in Int : want * p.spill.dir >= 0 /\ out'[c] = Paced(want)
    <2>1. CASE PollProbe(c, p)
        BY <2>1 DEF PollProbe
    <2>2. CASE PollBlind(c, p)
        <3>1. out'[c] = Paced(0)
            BY <2>2, PollBlindType
        <3>2. 0 * p.spill.dir >= 0
            BY <1>4
        <3> HIDE DEF Paced
        <3> QED BY <3>1, <3>2
    <2>3. CASE PollHandoff(c, p)
        BY <1>2, <1>4, <2>3, PollHandoffType
    <2>4. CASE PollResting(c, p)
        BY <1>4, <2>4, PollRestingType
    <2>5. CASE PollSettled(c, p)
        <3>1. /\ GoodPass(SharePass(p)) /\ SharePass(p).spill = p.spill
              /\ out'[c] = Paced(SharedTarget(SharePass(p), c))
            BY <1>2, <1>4, <2>5, PollSettledType
        <3>2. /\ SharedTarget(SharePass(p), c) \in Int
              /\ SharedTarget(SharePass(p), c) * p.spill.dir >= 0
            BY <1>4, <3>1, SharedTargetType
        <3> HIDE DEF Paced
        <3> QED BY <3>1, <3>2
    <2> QED BY <1>3, <2>1, <2>2, <2>3, <2>4, <2>5
<1>6. PICK want \in Int : want * p.spill.dir >= 0 /\ out'[c] = Paced(want)
    BY <1>5
<1>7. out'[c] * p.spill.dir >= 0 \/ Abs(out'[c]) < Abs(out[c])
    BY <1>4, <1>6, PacedStaysOnItsSide
<1> QED BY <1>3, <1>7

\* A standby carrying the overflow is never driven through 0 W to the other
\* side, on any path of its poll and however the house turns.
THEOREM NeverCrosses == Spec => NoCrossing
<1> DEFINE Kept ==
      \A c \in Batteries :
         out'[c] # out[c] /\ empty' = empty /\ c \in InSeq(spill'.line) \ Participants =>
            \/ out'[c] * spill'.dir >= 0
            \/ Abs(out'[c]) < Abs(out[c])
<1>1. Shape /\ [Next]_vars => Kept
    BY NoCrossingStep
<1>2. NoCrossing <=> [][Kept]_vars
    BY DEF NoCrossing
<1> HIDE DEF Kept
<1> QED BY <1>1, <1>2, ShapeAlways, PTL DEF Spec

\* A command for what a battery already delivers changes nothing.
LEMMA HoldsStill ==
    ASSUME Shape, NEW c \in Batteries \ DcOnly
    PROVE  Delivers(c, Within(Within(out[c], Limit[c]) - out[c], PaceCap)) = out[c]
<1>1. /\ out[c] \in Int /\ Limit[c] \in Nat /\ Abs(out[c]) <= Limit[c]
      /\ (c \in empty => out[c] = 0) /\ PaceCap \in Nat
    BY AutoPoolAssumption DEF Shape
<1>2. Within(out[c], Limit[c]) = out[c]
    BY <1>1 DEF Within, Most, Least, Abs
<1>3. Within(out[c] - out[c], PaceCap) = 0 /\ out[c] + 0 = out[c]
    BY <1>1 DEF Within, Most, Least
<1>4. Delivers(c, 0) = out[c]
    BY <1>1, <1>2, <1>3 DEF Delivers
<1> QED BY <1>2, <1>3, <1>4

LEMMA GivesBackFirstStep ==
    ASSUME Shape, [Next]_vars, NEW c \in Batteries \ (InSeq(spill.line) \cup DcOnly),
           out'[c] # out[c], empty' = empty, spill' = spill, fade' = fade,
           probe = NoProbe, fade[c] = 2, \A d \in Batteries : fade[d] # 1,
           idle' = idle, c \notin idle,
           Grid * spill.dir < -UnloadBand, -Grid * spill.dir <= Carries
    PROVE  FALSE
<1> DEFINE p == PassOf(Faded, Spilled(Faded))
           s == SharePass(p)
<1>1. Poll(c)
    BY OnlyItsPoll
<1>2. GoodPass(p) /\ p.fade = Faded /\ p.blind \subseteq Blind(Grid)
    BY FadedType, SpilledType, PassType DEF PassOf
<1>3. /\ p.spill = spill /\ p.fade = fade
      /\ PollProbe(c, p) \/ PollBlind(c, p) \/ PollHandoff(c, p)
         \/ PollResting(c, p) \/ PollSettled(c, p)
    <2>1. /\ fade' = Faded /\ spill' = p.spill
          /\ PollProbe(c, p) \/ PollBlind(c, p) \/ PollHandoff(c, p)
             \/ PollResting(c, p) \/ PollSettled(c, p)
        BY <1>1 DEF Poll
    <2> HIDE DEF p
    <2> QED BY <1>2, <2>1
<1> HIDE DEF p
<1>4. PollSettled(c, p)
    <2>1. ~PollProbe(c, p)
        BY DEF PollProbe, Participants, NoProbe
    <2>2. ~PollBlind(c, p)
        BY <1>2 DEF PollBlind, Blind
    <2>3. ~Fading(p)
        BY <1>3 DEF Fading
    <2>4. ~PollHandoff(c, p)
        BY <1>3, <2>3 DEF PollHandoff
    <2>5. ~PollResting(c, p)
        BY <1>3 DEF PollResting, Out
    <2> QED BY <1>3, <2>1, <2>2, <2>4, <2>5
<1>5. /\ GoodPass(s) /\ s.spill = spill
      /\ out'[c] = Delivers(c, Within(Within(SharedTarget(s, c), Limit[c]) - out[c], PaceCap))
    BY <1>2, <1>3, <1>4, PollSettledType
<1> HIDE DEF s
<1>6. Grid \in Int /\ UnloadBand \in Nat /\ out[c] \in Int
    BY GridType, AutoPoolAssumption DEF Shape
<1>7. GoodSpill(spill)
    BY DEF Shape
<1>8. Grid * spill.dir < 0 /\ spill.line # <<>> /\ Unloading(s, Grid)
    <2>1. spill.dir \in {-1, 0, 1}
        BY <1>7 DEF GoodSpill, Spills
    <2>2. Grid * spill.dir < 0
        BY <1>6, <2>1
    <2>3. spill.dir # 0
        BY <1>6, <2>2
    <2> QED BY <1>5, <1>7, <2>2, <2>3 DEF GoodSpill, Unloading
<1>9. GivesBack(s, Grid) = Grid
    <2>1. Carries = Total(Carried(s), InSeq(spill.line))
        <3> DEFINE f == [d \in Batteries |-> Most(0, out[d] * spill.dir)]
        <3>1. InSeq(spill.line) \in SUBSET Batteries
            BY <1>7, InLine DEF GoodSpill, Spills
        <3>2. \A d \in InSeq(spill.line) : f[d] = Carried(s)[d]
            BY <1>5, <3>1 DEF Carried
        <3>3. IsFiniteSet(InSeq(spill.line))
            BY <3>1, PoolIsFinite
        <3> HIDE DEF f
        <3>4. Total(f, InSeq(spill.line)) = Total(Carried(s), InSeq(spill.line))
            BY <3>2, <3>3, TotalSame
        <3> QED BY <3>4 DEF f, Carries
    <2> QED BY <1>5, <1>6, <1>7, <1>8, <2>1, GivesBackType
<1>10. Residual(s, c, Grid) = 0
    <2> DEFINE ids == Batteries \ InSeq(spill.line)
    <2>1. Residual(s, c, Grid) = Whole(FairShare(s, c, Grid - Grid, ids, {}))
        BY <1>5, <1>8, <1>9 DEF Residual, Unloaded
    <2>2. Grid - Grid = 0
        BY <1>6
    <2>3. ids \in SUBSET Batteries /\ c \in ids
        OBVIOUS
    <2> HIDE DEF ids
    <2>4. Whole(FairShare(s, c, 0, ids, {})) = 0
        BY <1>5, <2>3, FairShareType
    <2> QED BY <2>1, <2>2, <2>4
<1>11. SharedTarget(s, c) = out[c]
    BY <1>5, <1>6, <1>10 DEF SharedTarget
<1> QED BY <1>5, <1>11, HoldsStill

\* Last in, first out: while the reserve carries as much as the house no longer
\* wants, no battery ahead of it is turned down.
THEOREM ReserveGivesBackFirst == Spec => GivesBackFirst
<1> DEFINE Kept ==
      \A c \in Batteries \ (InSeq(spill.line) \cup DcOnly) :
         /\ out'[c] # out[c] /\ empty' = empty /\ spill' = spill /\ fade' = fade
         /\ probe = NoProbe /\ fade[c] = 2 /\ \A d \in Batteries : fade[d] # 1
         /\ idle' = idle /\ c \notin idle
         /\ Grid * spill.dir < -UnloadBand /\ -Grid * spill.dir <= Carries
         => out'[c] * spill.dir >= out[c] * spill.dir
<1>1. Shape /\ [Next]_vars => Kept
    BY GivesBackFirstStep
<1>2. GivesBackFirst <=> [][Kept]_vars
    BY DEF GivesBackFirst
<1> HIDE DEF Kept
<1> QED BY <1>1, <1>2, ShapeAlways, PTL DEF Spec
=============================================================================
