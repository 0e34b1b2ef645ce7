------------------------ MODULE EfficiencyPoolProofs ------------------------
(***************************************************************************)
(* Theorems about EfficiencyPool, for every finite pool and every value of *)
(* the constants it admits.  Type correctness and the shape of a probe     *)
(* cannot be proved apart: the order a rejection rewrites lists every      *)
(* battery once BECAUSE the candidate did not run before.  The inductive   *)
(* invariant is their conjunction.                                         *)
(***************************************************************************)
EXTENDS EfficiencyPool, FiniteSetTheorems, SequenceTheorems, WellFoundedInduction, TLAPS

-----------------------------------------------------------------------------
(* Orders. *)

\* No battery twice.
Injective(s) == \A i, j \in 1..Len(s) : s[i] = s[j] => i = j

\* An order is a sequence that lists no battery twice: it is never longer than
\* the pool.
LEMMA OrderIsSeq ==
    ASSUME NEW s
    PROVE  s \in Orders <=> s \in Seq(Batteries) /\ Injective(s)
<1>1. Cardinality(Batteries) \in Nat
  BY PoolAssumption, FS_CardinalityType
<1>2. ASSUME s \in Orders PROVE s \in Seq(Batteries) /\ Injective(s)
  <2>1. PICK n \in 0..Cardinality(Batteries) : s \in [1..n -> Batteries]
    BY <1>2 DEF Orders
  <2>2. n \in Nat
    BY <1>1
  <2>3. s \in Seq(Batteries) /\ DOMAIN s = 1..Len(s)
    BY <2>1, <2>2, SeqDef, LenProperties
  <2> QED BY <2>3, <1>2 DEF Orders, Injective
<1>3. ASSUME s \in Seq(Batteries), Injective(s) PROVE s \in Orders
  <2>1. /\ Len(s) \in Nat
        /\ s \in [1..Len(s) -> Batteries]
        /\ DOMAIN s = 1..Len(s)
    BY <1>3, LenProperties
  <2>2. s \in Injection(1..Len(s), Batteries)
    BY <1>3, <2>1 DEF Injection, IsInjective, Injective
  <2>3. Cardinality(1..Len(s)) <= Cardinality(Batteries)
    BY <2>2, FS_Injection, PoolAssumption
  <2>4. Cardinality(1..Len(s)) = Len(s)
    BY <2>1, FS_Interval
  <2>5. Len(s) \in 0..Cardinality(Batteries)
    BY <2>1, <2>3, <2>4, <1>1
  <2> QED BY <2>1, <2>5, <1>3 DEF Orders, Injective
<1> QED BY <1>2, <1>3

LEMMA EmptyOrder == <<>> \in Orders
<1>1. <<>> \in Seq(Batteries) /\ Len(<<>>) = 0
  BY EmptySeq
<1>2. Injective(<<>>)
  BY DEF Injective
<1> QED BY <1>1, <1>2, OrderIsSeq

\* The head sent to the back.
LEMMA RotationIsOrder ==
    ASSUME NEW s \in Orders, s # <<>>
    PROVE  /\ Append(Tail(s), Head(s)) \in Orders
           /\ Members(Append(Tail(s), Head(s))) = Members(s)
           /\ Len(Append(Tail(s), Head(s))) = Len(s)
<1> DEFINE t == Append(Tail(s), Head(s))
<1>1. s \in Seq(Batteries) /\ Injective(s) /\ Len(s) \in Nat \ {0}
  BY OrderIsSeq, EmptySeq
<1>2. /\ t \in Seq(Batteries)
      /\ Len(t) = Len(s)
      /\ \A i \in 1..Len(s) : t[i] = IF i = Len(s) THEN s[1] ELSE s[i + 1]
  BY <1>1
<1> HIDE DEF t
<1>3. Injective(t)
  BY <1>1, <1>2 DEF Injective
<1>4. ASSUME NEW i \in 1..Len(s) PROVE \E j \in 1..Len(s) : t[j] = s[i]
  <2>1. CASE i = 1
    <3>1. t[Len(s)] = s[i] /\ Len(s) \in 1..Len(s)
      BY <2>1, <1>1, <1>2
    <3> QED BY <3>1
  <2>2. CASE i # 1
    <3>1. i - 1 \in 1..Len(s) /\ t[i - 1] = s[i]
      BY <2>2, <1>1, <1>2
    <3> QED BY <3>1
  <2> QED BY <2>1, <2>2
<1>5. ASSUME NEW i \in 1..Len(s) PROVE \E j \in 1..Len(s) : t[i] = s[j]
  <2>1. CASE i = Len(s)
    BY <2>1, <1>1, <1>2
  <2>2. CASE i # Len(s)
    <3>1. i + 1 \in 1..Len(s) /\ t[i] = s[i + 1]
      BY <2>2, <1>1, <1>2
    <3> QED BY <3>1
  <2> QED BY <2>1, <2>2
<1>6. ASSUME NEW c \in Members(t) PROVE c \in Members(s)
  <2>1. PICK i \in 1..Len(s) : t[i] = c
    BY <1>2 DEF Members
  <2>2. PICK j \in 1..Len(s) : s[j] = c
    BY <2>1, <1>5
  <2> QED BY <2>2 DEF Members
<1>7. ASSUME NEW c \in Members(s) PROVE c \in Members(t)
  <2>1. PICK i \in 1..Len(s) : s[i] = c
    BY DEF Members
  <2>2. PICK j \in 1..Len(s) : t[j] = c
    BY <2>1, <1>4
  <2> QED BY <2>2, <1>2 DEF Members
<1> QED BY <1>2, <1>3, <1>6, <1>7, OrderIsSeq DEF t

\* Two places exchanged.
LEMMA SwapIsOrder ==
    ASSUME NEW s \in Orders, NEW i \in 1..Len(s), NEW j \in 1..Len(s)
    PROVE  /\ Swapped(s, i, j) \in Orders
           /\ Members(Swapped(s, i, j)) = Members(s)
           /\ Len(Swapped(s, i, j)) = Len(s)
<1> DEFINE t == Swapped(s, i, j)
<1>1. s \in Seq(Batteries) /\ Injective(s) /\ Len(s) \in Nat
  BY OrderIsSeq, LenProperties
<1>2. s \in [1..Len(s) -> Batteries]
  BY <1>1, LenProperties
<1>3. t \in [1..Len(s) -> Batteries]
  BY <1>2 DEF Swapped
<1>4. t \in Seq(Batteries)
  BY <1>3, <1>1, SeqDef
<1>5. Len(t) = Len(s)
  BY <1>3, <1>4, <1>1, LenProperties
<1>6. \A k \in 1..Len(s) : t[k] = IF k = j THEN s[i] ELSE IF k = i THEN s[j] ELSE s[k]
  BY <1>2 DEF Swapped
<1> HIDE DEF t
<1>7. Injective(t)
  BY <1>1, <1>5, <1>6 DEF Injective
<1>8. \A k \in 1..Len(s) : \E l \in 1..Len(s) : t[k] = s[l]
  BY <1>6
<1>9. \A k \in 1..Len(s) : \E l \in 1..Len(s) : t[l] = s[k]
  BY <1>6
<1>10. ASSUME NEW c \in Members(t) PROVE c \in Members(s)
  <2>1. PICK k \in 1..Len(s) : t[k] = c
    BY <1>5 DEF Members
  <2>2. PICK l \in 1..Len(s) : s[l] = c
    BY <2>1, <1>8
  <2> QED BY <2>2 DEF Members
<1>11. ASSUME NEW c \in Members(s) PROVE c \in Members(t)
  <2>1. PICK k \in 1..Len(s) : s[k] = c
    BY DEF Members
  <2>2. PICK l \in 1..Len(s) : t[l] = c
    BY <2>1, <1>9
  <2> QED BY <2>2, <1>5 DEF Members
<1> QED BY <1>4, <1>5, <1>7, <1>10, <1>11, OrderIsSeq DEF t

\* Two orders with no battery in common, one after the other.
LEMMA ConcatIsOrder ==
    ASSUME NEW s \in Orders, NEW t \in Orders, Members(s) \cap Members(t) = {}
    PROVE  /\ s \o t \in Orders
           /\ Members(s \o t) = Members(s) \cup Members(t)
           /\ Len(s \o t) = Len(s) + Len(t)
<1>1. /\ s \in Seq(Batteries) /\ Injective(s) /\ Len(s) \in Nat
      /\ t \in Seq(Batteries) /\ Injective(t) /\ Len(t) \in Nat
  BY OrderIsSeq, LenProperties
<1>2. /\ s \o t \in Seq(Batteries)
      /\ Len(s \o t) = Len(s) + Len(t)
      /\ \A i \in 1..(Len(s) + Len(t)) :
            (s \o t)[i] = IF i <= Len(s) THEN s[i] ELSE t[i - Len(s)]
  BY <1>1, ConcatProperties
<1>3. \A i \in 1..Len(s), j \in 1..Len(t) : s[i] # t[j]
  BY DEF Members
<1>4. Injective(s \o t)
  <2> SUFFICES ASSUME NEW i \in 1..Len(s \o t), NEW j \in 1..Len(s \o t),
                      (s \o t)[i] = (s \o t)[j]
               PROVE  i = j
    BY DEF Injective
  <2>1. CASE i <= Len(s) /\ j <= Len(s)
    BY <2>1, <1>1, <1>2 DEF Injective
  <2>2. CASE i > Len(s) /\ j > Len(s)
    <3>1. i - Len(s) \in 1..Len(t) /\ j - Len(s) \in 1..Len(t)
      BY <2>2, <1>1, <1>2
    <3>2. t[i - Len(s)] = t[j - Len(s)]
      BY <2>2, <1>1, <1>2
    <3>3. i - Len(s) = j - Len(s)
      BY <3>1, <3>2, <1>1 DEF Injective
    <3> QED BY <3>3, <1>1
  <2>3. CASE i <= Len(s) /\ j > Len(s)
    BY <2>3, <1>1, <1>2, <1>3
  <2>4. CASE i > Len(s) /\ j <= Len(s)
    BY <2>4, <1>1, <1>2, <1>3
  <2> QED BY <2>1, <2>2, <2>3, <2>4, <1>1, <1>2
<1>5. ASSUME NEW i \in 1..Len(s) PROVE \E k \in 1..Len(s \o t) : (s \o t)[k] = s[i]
  <2>1. i \in 1..Len(s \o t) /\ (s \o t)[i] = s[i]
    BY <1>1, <1>2
  <2> QED BY <2>1
<1>6. ASSUME NEW i \in 1..Len(t) PROVE \E k \in 1..Len(s \o t) : (s \o t)[k] = t[i]
  <2>1. i + Len(s) \in 1..Len(s \o t) /\ (s \o t)[i + Len(s)] = t[i]
    BY <1>1, <1>2
  <2> QED BY <2>1
<1>7. ASSUME NEW k \in 1..Len(s \o t)
      PROVE  (s \o t)[k] \in Members(s) \cup Members(t)
  <2>1. CASE k <= Len(s)
    BY <2>1, <1>1, <1>2 DEF Members
  <2>2. CASE k > Len(s)
    <3>1. k - Len(s) \in 1..Len(t) /\ (s \o t)[k] = t[k - Len(s)]
      BY <2>2, <1>1, <1>2
    <3> QED BY <3>1 DEF Members
  <2> QED BY <2>1, <2>2, <1>1, <1>2
<1>8. Members(s \o t) = Members(s) \cup Members(t)
  BY <1>5, <1>6, <1>7 DEF Members
<1> QED BY <1>2, <1>4, <1>8, OrderIsSeq

\* One battery alone.
LEMMA SingletonOrder ==
    ASSUME NEW c \in Batteries
    PROVE  <<c>> \in Orders /\ Members(<<c>>) = {c}
<1>1. <<c>> \in Seq(Batteries) /\ Len(<<c>>) = 1 /\ <<c>>[1] = c
  OBVIOUS
<1>2. Injective(<<c>>)
  BY <1>1 DEF Injective
<1>3. Members(<<c>>) = {c}
  BY <1>1 DEF Members
<1> QED BY <1>1, <1>2, <1>3, OrderIsSeq

-----------------------------------------------------------------------------
(* The stages of a pass. *)

\* First picks the least of a set of places.
LEMMA FirstIsLeast ==
    ASSUME NEW S \in SUBSET Nat, S # {}
    PROVE  First(S) \in S /\ \A j \in S : First(S) <= j
<1>1. PICK i \in S : \A j \in S : ~ (<<j, i>> \in OpToRel(<, Nat))
  BY WFMin, NatLessThanWellFounded
<1>2. ASSUME NEW j \in S PROVE i <= j
  <2>1. <<j, i>> \in Nat \X Nat /\ <<j, i>>[1] = j /\ <<j, i>>[2] = i
    OBVIOUS
  <2>2. j < i => <<j, i>> \in {ss \in Nat \X Nat : ss[1] < ss[2]}
    BY <2>1
  <2>3. ~ (j < i)
    BY <2>2, <1>1 DEF OpToRel
  <2> QED BY <2>3
<1> QED BY <1>2 DEF First

\* _sync_pool lists the reporting batteries.
LEMMA SyncedIsPool ==
    ASSUME NEW s \in Synced
    PROVE  s \in Orders /\ Members(s) = Pool
BY DEF Synced, Sorted

\* Filtering an order keeps it one.
LEMMA KeepingIsOrder ==
    ASSUME NEW s, NEW S, NEW r \in Keeping(s, S)
    PROVE  r \in Orders /\ Members(r) = Members(s) \cap S
BY DEF Keeping, Sorted

\* The slots never exceed the pool, and a pool has at least one.
LEMMA SlotsInPool ==
    ASSUME NEW demand \in Demands, NEW n \in Nat, NEW limiting \in BOOLEAN,
           NEW slots \in Int
    PROVE  /\ ActiveSlots(demand, n, limiting, slots) \in 0..n
           /\ n > 0 => ActiveSlots(demand, n, limiting, slots) > 0
<1> DEFINE clamp(k) == IF k > n - 1 THEN n - 1 ELSE k
           w == demand \div EfficientPower
           g == (5 * demand) \div (6 * EfficientPower)
           wanted == IF w < 1 THEN 1 ELSE clamp(w)
           grown == clamp(g)
           enough == IF limiting THEN 5 * demand >= 6 * EfficientPower * n
                     ELSE demand >= EfficientPower * n
<1>1. demand \in Nat /\ EfficientPower \in Nat \ {0}
  BY PoolAssumption
<1>2. w \in Int /\ g \in Int
  BY <1>1
<1> HIDE DEF w, g
<1>3. CASE n <= 1 \/ enough
  <2>1. ActiveSlots(demand, n, limiting, slots) = n
    BY <1>3 DEF ActiveSlots
  <2> QED BY <2>1
<1>4. CASE ~ (n <= 1 \/ enough)
  <2>1. ActiveSlots(demand, n, limiting, slots) =
          IF limiting /\ 1 <= slots /\ slots < wanted
          THEN IF grown > slots THEN grown ELSE slots
          ELSE wanted
    BY <1>4 DEF ActiveSlots, w, g
  <2> HIDE DEF enough
  <2>2. wanted \in 1..(n - 1) /\ grown \in Int /\ grown <= n - 1
    BY <1>2, <1>4
  <2> HIDE DEF wanted, grown
  <2> QED BY <2>1, <2>2
<1> QED BY <1>3, <1>4

\* What ProbeIsAHandoff says of a probe.
Handoff(p) ==
    p # NoProbe =>
        /\ p.candidate \in p.active \ Members(p.restore)
        /\ p.backups # {}
        /\ p.backups = Members(p.restore) \ p.active

\* What a pass hands from one stage to the next.
Stage == [order : {s \in Orders : Members(s) = Pool}, probe : Probe \cup {NoProbe},
          saturated : SUBSET Batteries, since : 0..RotationInterval,
          cache : Orders \cup {NoCache}]

\* The order of a rejected probe lists the reporting batteries, each once.
LEMMA RejectedIsOrder ==
    ASSUME probe \in Probe, Handoff(probe), probe # NoProbe,
           Participants \subseteq Pool,
           NEW order \in Orders, Members(order) = Pool,
           NEW s \in Rejected(order)
    PROVE  s \in Orders /\ Members(s) = Pool
<1> DEFINE c == probe.candidate
           ran == probe.restore
           others == Members(order) \ (Members(ran) \cup {c})
<1>1. c \in Batteries /\ ran \in Orders
  BY DEF Probe
<1>2. PICK rest \in Keeping(order, others) : s = ran \o rest \o <<c>>
  BY DEF Rejected
<1>3. rest \in Orders /\ Members(rest) = others
  BY <1>2, KeepingIsOrder
<1>4. ran \o rest \in Orders /\ Members(ran \o rest) = Members(ran) \cup others
  BY <1>1, <1>3, ConcatIsOrder
<1>5. <<c>> \in Orders /\ Members(<<c>>) = {c}
  BY <1>1, SingletonOrder
<1>6. c \notin Members(ran) \cup others
  BY DEF Handoff
<1>7. s \in Orders /\ Members(s) = Members(ran) \cup others \cup {c}
  BY <1>2, <1>4, <1>5, <1>6, ConcatIsOrder
<1>8. Members(ran) \subseteq Pool /\ c \in Pool
  BY DEF Participants, Handoff
<1> QED BY <1>7, <1>8

\* _resolve_probe_state.
LEMMA ResolutionsStage ==
    ASSUME TypeOK, Handoff(probe), NEW order \in Orders, Members(order) = Pool,
           NEW verdicts \in SUBSET Batteries, NEW delivers \in BOOLEAN,
           NEW r \in Resolutions(order, verdicts, delivers)
    PROVE  r \in Stage /\ Handoff(r.probe)
<1>1. /\ probe \in Probe \cup {NoProbe}
      /\ sinceRotation \in 0..RotationInterval
      /\ cache \in Orders \cup {NoCache}
      /\ 0 \in 0..RotationInterval
  BY PoolAssumption DEF TypeOK
<1>2. CASE probe = NoProbe
  BY <1>1, <1>2 DEF Resolutions, Stage, Handoff
<1>3. CASE probe # NoProbe /\ ~ Participants \subseteq Pool
  BY <1>1, <1>3 DEF Resolutions, Stage, Handoff
<1>4. CASE /\ probe # NoProbe /\ Participants \subseteq Pool
           /\ delivers /\ probe.proven = 1
  BY <1>1, <1>4 DEF Resolutions, Stage, Handoff
<1>5. CASE /\ probe # NoProbe /\ Participants \subseteq Pool
           /\ ~ (delivers /\ probe.proven = 1) /\ Overdue(probe)
  <2>1. PICK s \in Rejected(order) :
          r = [order |-> s, probe |-> NoProbe,
               saturated |-> verdicts \cup {probe.candidate},
               since |-> sinceRotation, cache |-> NoCache]
    BY <1>5 DEF Resolutions
  <2>2. s \in Orders /\ Members(s) = Pool
    BY <1>1, <1>5, RejectedIsOrder
  <2>3. probe.candidate \in Batteries
    BY <1>1, <1>5 DEF Probe
  <2> QED BY <2>1, <2>2, <2>3, <1>1 DEF Stage, Handoff
<1>6. CASE /\ probe # NoProbe /\ Participants \subseteq Pool
           /\ ~ (delivers /\ probe.proven = 1) /\ ~ Overdue(probe)
  <2> DEFINE q == [probe EXCEPT !.proven = IF delivers THEN 1 ELSE 0]
  <2>1. r = [order |-> order, probe |-> q, saturated |-> verdicts,
             since |-> sinceRotation, cache |-> cache]
    BY <1>6 DEF Resolutions
  <2>2. /\ q \in Probe
        /\ q.candidate = probe.candidate /\ q.active = probe.active
        /\ q.backups = probe.backups /\ q.restore = probe.restore
    BY <1>1, <1>6 DEF Probe
  <2>3. Handoff(q)
    BY <2>2, <1>6 DEF Handoff
  <2> HIDE DEF q
  <2> QED BY <2>1, <2>2, <2>3, <1>1 DEF Stage
<1> QED BY <1>2, <1>3, <1>4, <1>5, <1>6

\* _rotate_priority_head.
LEMMA RotatedStage ==
    ASSUME NEW p \in Stage, NEW slots
    PROVE  Rotated(p, slots) \in Stage /\ Rotated(p, slots).probe = p.probe
<1>1. CASE p.order # <<>> /\ p.since >= Turn(Head(p.order), slots)
  <2> DEFINE o == Append(Tail(p.order), Head(p.order))
  <2>1. o \in Orders /\ Members(o) = Pool
    BY <1>1, RotationIsOrder DEF Stage
  <2>2. Rotated(p, slots) = [p EXCEPT !.order = o, !.since = 0, !.cache = NoCache]
    BY <1>1 DEF Rotated
  <2> HIDE DEF o
  <2>3. 0 \in 0..RotationInterval
    BY PoolAssumption
  <2> QED BY <2>1, <2>2, <2>3 DEF Stage
<1>2. CASE ~ (p.order # <<>> /\ p.since >= Turn(Head(p.order), slots))
  BY <1>2 DEF Rotated
<1> QED BY <1>1, <1>2

\* _active_slot_saturated.
LEMMA ReconsideredStage ==
    ASSUME NEW p \in Stage, NEW slots
    PROVE  Reconsidered(p, slots) \in Stage /\ Reconsidered(p, slots).probe = p.probe
BY DEF Reconsidered, Stage

\* The two places of a swap are places of the order.
LEMMA SwapsInOrder ==
    ASSUME NEW order \in Orders, NEW slots \in 0..Len(order), NEW verdicts, NEW surplus,
           NEW w \in Swaps(order, slots, verdicts, surplus)
    PROVE  w[1] \in 1..Len(order) /\ w[2] \in 1..Len(order)
<1> DEFINE sick == {i \in 1..slots : order[i] \in verdicts}
           fit(i) == {j \in (slots + 1)..Len(order) :
                         /\ order[j] \notin verdicts
                         /\ weight[order[i]] > 0 => weight[order[j]] > 0
                         /\ surplus => order[j] \in AcChargeable}
<1>1. sick # {} /\ fit(First(sick)) # {} /\ w = <<First(sick), First(fit(First(sick)))>>
  BY DEF Swaps
<1>2. Len(order) \in Nat
  BY OrderIsSeq, LenProperties
<1>3. sick \in SUBSET Nat /\ fit(First(sick)) \in SUBSET Nat
  BY <1>2
<1>4. First(sick) \in sick /\ First(fit(First(sick))) \in fit(First(sick))
  BY <1>1, <1>3, FirstIsLeast
<1> QED BY <1>1, <1>2, <1>4

\* _begin_probe: the candidate is the first battery the pass promotes.
LEMMA BegunIsHandoff ==
    ASSUME NEW order \in Orders, NEW slots \in 0..Len(order), NEW before \in Orders,
           HandsOver(order, slots, before)
    PROVE  Begun(order, slots, before) \in Probe /\ Handoff(Begun(order, slots, before))
<1> DEFINE new == {i \in 1..slots : order[i] \notin Members(before)}
           b == Begun(order, slots, before)
<1>1. order \in Seq(Batteries) /\ Len(order) \in Nat /\ before \in Seq(Batteries)
  BY OrderIsSeq, LenProperties
<1>2. \A i \in 1..Len(order) : order[i] \in Batteries
  BY <1>1, ElementOfSeq
<1>3. Leading(order, slots) \subseteq Batteries
  BY <1>1, <1>2 DEF Leading
<1>4. Members(before) \subseteq Batteries
  BY <1>1, ElementOfSeq DEF Members
<1>5. new # {} /\ new \in SUBSET Nat
  BY <1>1 DEF HandsOver, Leading
<1>6. First(new) \in new
  BY <1>5, FirstIsLeast
<1> DEFINE c == order[First(new)]
<1>7. c \in Leading(order, slots) /\ c \notin Members(before)
  BY <1>6 DEF Leading
<1>8. Members(before) \ Leading(order, slots) # {}
  BY DEF HandsOver
<1>9. b = [candidate |-> c, active |-> Leading(order, slots),
           backups |-> Members(before) \ Leading(order, slots),
           restore |-> before, proven |-> 0, age |-> 0]
  BY DEF Begun
<1>10. 0 \in 0..ProbeTimeout
  BY PoolAssumption
<1> HIDE DEF b, c, new
<1>11. b \in Probe
  BY <1>3, <1>4, <1>7, <1>9, <1>10 DEF Probe
<1>12. Handoff(b)
  BY <1>7, <1>8, <1>9 DEF Handoff
<1> QED BY <1>11, <1>12 DEF b

\* What a pass leaves behind.
PassKept ==
    /\ priority' \in Orders /\ Members(priority') = Pool
    /\ deprioritized' \subseteq Batteries
    /\ steady' => \E c \in Pool : c \notin deprioritized'
    /\ probe' \in Probe \cup {NoProbe}
    /\ Handoff(probe')
    /\ saturated' \subseteq Batteries
    /\ sinceRotation' \in 0..RotationInterval
    /\ cache' \in Orders \cup {NoCache}
    /\ steady' \in BOOLEAN

\* Everything in the decision the order decides: with a place for each battery
\* and a slot for one at least, the first battery of the order works.
LEMMA OrderDecides ==
    ASSUME NEW order \in Orders, Members(order) = Pool, NEW slots \in 1..Len(order)
    PROVE  /\ Trailing(order, slots) \subseteq Batteries
           /\ \E c \in Pool : c \notin Trailing(order, slots)
<1>1. order \in Seq(Batteries) /\ Injective(order) /\ Len(order) \in Nat
  BY OrderIsSeq, LenProperties
<1>2. \A i \in 1..Len(order) : order[i] \in Batteries
  BY <1>1, ElementOfSeq
<1>3. Trailing(order, slots) \subseteq Batteries
  BY <1>1, <1>2 DEF Trailing
<1>4. 1 \in 1..Len(order) /\ order[1] \in Pool
  BY <1>1 DEF Members
<1>5. order[1] \notin Trailing(order, slots)
  BY <1>1, <1>4 DEF Trailing, Injective
<1> QED BY <1>3, <1>4, <1>5

\* What a decision leaves behind, with `k` of the batteries of its order at work.
DecidedWith(p, before, k) ==
    /\ priority' \in Orders /\ Members(priority') = Pool
    /\ k \in 1..Len(priority')
    /\ deprioritized' = Trailing(priority', k)
    /\ probe' = IF probe = NoProbe /\ HandsOver(priority', k, before)
                THEN Begun(priority', k, before) ELSE p.probe
    /\ saturated' \subseteq Pool
    /\ sinceRotation' = 0 \/ (sinceRotation' = p.since /\ priority' = p.order)
    /\ cache' = priority'
    /\ steady' = TRUE

\* The decision: an order of the pool, a slot for one battery at least, and a
\* probe when the batteries at work changed places with some at rest.
LEMMA DecidedLays ==
    ASSUME NEW p \in Stage, Pool # {}, NEW kept \in SUBSET Pool, NEW before,
           NEW demand \in Demands, NEW surplus,
           PassDecided(p, kept, before, demand, surplus)
    PROVE  \E k : DecidedWith(p, before, k)
<1> DEFINE n == Len(p.order)
           slots == ActiveSlots(demand, n, kept # {}, n - Cardinality(kept))
           fresh == p.saturated \ (kept \ Trailing(p.order, slots))
           swaps == IF probe = NoProbe
                    THEN Swaps(p.order, slots, fresh, surplus) ELSE {}
           swap == CHOOSE w \in swaps : TRUE
           order == IF swaps = {} THEN p.order ELSE Swapped(p.order, swap[1], swap[2])
           promoted == Leading(order, slots) \ Leading(p.order, slots)
           resting == Trailing(order, slots)
<1>1. /\ priority' = order
      /\ deprioritized' = resting
      /\ IF probe = NoProbe /\ HandsOver(order, slots, before)
         THEN /\ probe' = Begun(order, slots, before)
              /\ saturated' = ((fresh \ promoted) \ (resting \ kept))
                              \cap (Pool \ {probe'.candidate})
         ELSE /\ probe' = p.probe
              /\ saturated' = ((fresh \ promoted) \ (resting \ kept)) \cap Pool
      /\ sinceRotation' = IF swaps = {} THEN p.since ELSE 0
      /\ cache' = order
      /\ steady' = TRUE
  BY DEF PassDecided
<1>2. p.order \in Orders /\ Members(p.order) = Pool
  BY DEF Stage
<1>3. n \in Nat \ {0}
  <2>1. n \in Nat
    BY <1>2, OrderIsSeq, LenProperties
  <2>2. n # 0
    BY <1>2 DEF Members
  <2> QED BY <2>1, <2>2
<1>4. Cardinality(kept) \in Nat
  <2>1. Pool \subseteq Batteries
    BY DEF Pool
  <2> QED BY <2>1, PoolAssumption, FS_Subset, FS_CardinalityType
<1>5. slots \in 1..n
  <2>1. n - Cardinality(kept) \in Int /\ (kept # {}) \in BOOLEAN
    BY <1>3, <1>4
  <2> HIDE DEF n
  <2>2. slots \in 0..n /\ (n > 0 => slots > 0)
    BY <1>3, <2>1, SlotsInPool
  <2> QED BY <1>3, <2>2
<1> HIDE DEF slots
<1>6. order \in Orders /\ Members(order) = Pool /\ Len(order) = n
  <2>1. CASE swaps = {}
    BY <2>1, <1>2
  <2>2. CASE swaps # {}
    <3>1. swap \in Swaps(p.order, slots, fresh, surplus)
      BY <2>2
    <3> HIDE DEF swap, swaps, fresh
    <3>2. swap[1] \in 1..n /\ swap[2] \in 1..n
      <4>1. slots \in 0..Len(p.order)
        BY <1>5
      <4> QED BY <3>1, <4>1, <1>2, SwapsInOrder
    <3> QED BY <2>2, <3>2, <1>2, SwapIsOrder
  <2> QED BY <2>1, <2>2
<1> HIDE DEF n, order, swaps, fresh, promoted
<1>7. saturated' \subseteq Pool
  BY <1>1
<1>8. sinceRotation' = 0 \/ (sinceRotation' = p.since /\ priority' = p.order)
  BY <1>1 DEF order
<1>9. DecidedWith(p, before, slots)
  BY <1>1, <1>5, <1>6, <1>7, <1>8 DEF DecidedWith
<1> QED BY <1>9

\* A decision keeps the invariant.
LEMMA DecidedKeeps ==
    ASSUME TypeOK, NEW p \in Stage, Handoff(p.probe), Pool # {},
           NEW kept \in SUBSET Pool, NEW before \in Orders,
           NEW demand \in Demands, NEW surplus \in BOOLEAN,
           PassDecided(p, kept, before, demand, surplus)
    PROVE  PassKept
<1>1. PICK k : DecidedWith(p, before, k)
  BY DecidedLays
<1>2. priority' \in Orders /\ Members(priority') = Pool /\ k \in 1..Len(priority')
  BY <1>1 DEF DecidedWith
<1>3. deprioritized' \subseteq Batteries /\ \E c \in Pool : c \notin deprioritized'
  BY <1>1, <1>2, OrderDecides DEF DecidedWith
<1>4. p.probe \in Probe \cup {NoProbe} /\ p.since \in 0..RotationInterval
  BY DEF Stage
<1>5. probe' \in Probe \cup {NoProbe} /\ Handoff(probe')
  <2>1. CASE probe = NoProbe /\ HandsOver(priority', k, before)
    <3>1. Len(priority') \in Nat
      BY <1>2, OrderIsSeq, LenProperties
    <3>2. k \in 0..Len(priority')
      BY <1>2, <3>1
    <3> QED BY <2>1, <3>2, <1>1, <1>2, BegunIsHandoff DEF DecidedWith
  <2>2. CASE ~ (probe = NoProbe /\ HandsOver(priority', k, before))
    BY <2>2, <1>1, <1>4 DEF DecidedWith
  <2> QED BY <2>1, <2>2
<1>6. saturated' \subseteq Batteries
  BY <1>1 DEF DecidedWith, Pool
<1>7. sinceRotation' \in 0..RotationInterval
  BY <1>1, <1>4, PoolAssumption DEF DecidedWith
<1> QED BY <1>1, <1>2, <1>3, <1>5, <1>6, <1>7 DEF PassKept, DecidedWith

-----------------------------------------------------------------------------
(* The inductive invariant. *)

\* While nothing but polls has happened since the last decision, the order lists
\* the pool and some battery of it works.
Covered ==
    steady => Members(priority) = Pool /\ \E c \in Pool : c \notin deprioritized

IInv == TypeOK /\ ProbeIsAHandoff /\ Covered

\* The first m batteries of an order.
LEMMA PrefixIsOrder ==
    ASSUME NEW s \in Orders, NEW m \in Int, m <= Len(s)
    PROVE  SubSeq(s, 1, m) \in Orders
<1> DEFINE t == SubSeq(s, 1, m)
<1>1. s \in Seq(Batteries) /\ Injective(s) /\ Len(s) \in Nat
  BY OrderIsSeq, LenProperties
<1>2. \A i \in 1..m : s[i] \in Batteries
  BY <1>1, ElementOfSeq
<1>3. /\ t \in Seq(Batteries)
      /\ Len(t) = IF 1 <= m THEN m - 1 + 1 ELSE 0
      /\ \A i \in 1..(m - 1 + 1) : t[i] = s[1 + i - 1]
  BY <1>2, SubSeqProperties
<1> HIDE DEF t
<1>4. Injective(t)
  BY <1>1, <1>3 DEF Injective
<1> QED BY <1>3, <1>4, OrderIsSeq DEF t

\* The pass over two batteries or more.
LEMMA TogetherKeeps ==
    ASSUME IInv, Pool # {}, NEW synced \in Synced, NEW verdicts \in SUBSET Batteries,
           NEW repeat \in BOOLEAN, NEW delivers \in BOOLEAN, NEW demand \in Demands,
           NEW surplus \in BOOLEAN,
           PassTogether(synced, verdicts, repeat, delivers, demand, surplus)
    PROVE  PassKept
<1> DEFINE kept == deprioritized \cap Pool
           slots == Len(synced) - Cardinality(kept)
<1>1. PICK r \in Resolutions(synced, verdicts, delivers) :
        LET p == IF probe = NoProbe
                 THEN Reconsidered(Rotated(r, slots), slots) ELSE r
        IN  IF repeat /\ p.cache = p.order THEN PassCached(p, kept)
            ELSE PassDecided(p, kept, SubSeq(synced, 1, slots), demand, surplus)
  BY DEF PassTogether
<1> DEFINE p == IF probe = NoProbe
                THEN Reconsidered(Rotated(r, slots), slots) ELSE r
           before == SubSeq(synced, 1, slots)
<1>2. \/ repeat /\ p.cache = p.order /\ PassCached(p, kept)
      \/ PassDecided(p, kept, before, demand, surplus)
  BY <1>1
<1>3. TypeOK /\ Handoff(probe) /\ Covered
  BY DEF IInv, ProbeIsAHandoff, Handoff
<1>4. synced \in Orders /\ Members(synced) = Pool
  BY SyncedIsPool
<1>5. r \in Stage /\ Handoff(r.probe)
  BY <1>3, <1>4, ResolutionsStage
<1>6. p \in Stage /\ Handoff(p.probe)
  <2>1. CASE probe = NoProbe
    <3>1. Rotated(r, slots) \in Stage /\ Rotated(r, slots).probe = r.probe
      BY <1>5, RotatedStage
    <3>2. /\ Reconsidered(Rotated(r, slots), slots) \in Stage
          /\ Reconsidered(Rotated(r, slots), slots).probe = r.probe
      BY <3>1, ReconsideredStage
    <3> QED BY <2>1, <3>2, <1>5
  <2>2. CASE probe # NoProbe
    BY <2>2, <1>5
  <2> QED BY <2>1, <2>2
<1>7. kept \in SUBSET Pool /\ Pool \subseteq Batteries
  BY DEF Pool
<1>8. before \in Orders
  <2>1. Cardinality(kept) \in Nat
    BY <1>7, PoolAssumption, FS_Subset, FS_CardinalityType
  <2>2. Len(synced) \in Nat
    BY <1>4, OrderIsSeq, LenProperties
  <2>3. slots \in Int /\ slots <= Len(synced)
    BY <2>1, <2>2
  <2> HIDE DEF slots
  <2> QED BY <2>3, <1>4, PrefixIsOrder
<1> HIDE DEF p, before, slots
<1>9. CASE PassCached(p, kept)
  BY <1>9, <1>3, <1>6, <1>7 DEF PassCached, PassKept, Stage, TypeOK, Covered
<1>10. CASE PassDecided(p, kept, before, demand, surplus)
  <2> HIDE DEF kept
  <2> QED BY <1>10, <1>3, <1>6, <1>7, <1>8, DecidedKeeps
<1> QED BY <1>2, <1>9, <1>10

\* A battery alone in the pool works.
LEMMA AloneKeeps ==
    ASSUME IInv, NEW c \in Batteries, NEW verdicts \in SUBSET Batteries,
           PassAlone(verdicts), UNCHANGED <<status, weight>>
    PROVE  IInv'
BY DEF PassAlone, IInv, TypeOK, ProbeIsAHandoff, Covered

\* Each verdict is a set of batteries.
LEMMA VerdictsType ==
    ASSUME TypeOK, NEW c \in Batteries, NEW verdicts \in Verdicts(c)
    PROVE  verdicts \in SUBSET Batteries
BY DEF Verdicts, TypeOK

LEMMA PollKeeps ==
    ASSUME IInv, NEW c \in Batteries, Poll(c)
    PROVE  IInv'
<1>1. TypeOK /\ UNCHANGED <<status, weight>> /\ c \in Pool
  BY DEF Poll, IInv
<1>2. CASE Cardinality(Pool) < 2
  <2>1. PICK verdicts \in Verdicts(c) : PassAlone(verdicts)
    BY <1>2 DEF Poll
  <2> QED BY <2>1, <1>1, VerdictsType, AloneKeeps
<1>3. CASE ~ (Cardinality(Pool) < 2)
  <2>1. PICK synced \in Synced, verdicts \in Verdicts(c) :
        \E demand \in Demands, repeat \in Input(cache # NoCache),
           delivers \in Input(probe # NoProbe),
           surplus \in Input(probe = NoProbe /\ verdicts # {}) :
           PassTogether(synced, verdicts, repeat, delivers, demand, surplus)
    BY <1>3 DEF Poll
  <2>2. PICK demand \in Demands, repeat \in Input(cache # NoCache),
             delivers \in Input(probe # NoProbe),
             surplus \in Input(probe = NoProbe /\ verdicts # {}) :
             PassTogether(synced, verdicts, repeat, delivers, demand, surplus)
    BY <2>1
  <2>3. repeat \in BOOLEAN /\ delivers \in BOOLEAN /\ surplus \in BOOLEAN
    BY <2>2 DEF Input
  <2>4. verdicts \in SUBSET Batteries
    BY <1>1, VerdictsType
  <2>5. PassKept
    BY <2>2, <2>3, <2>4, <1>1, TogetherKeeps
  <2>6. Pool' = Pool
    BY <1>1 DEF Pool
  <2>7. TypeOK'
    BY <2>5, <1>1 DEF PassKept, TypeOK
  <2>8. ProbeIsAHandoff'
    BY <2>5 DEF PassKept, Handoff, ProbeIsAHandoff
  <2>9. Covered'
    BY <2>5, <2>6 DEF PassKept, Covered
  <2> QED BY <2>7, <2>8, <2>9 DEF IInv
<1> QED BY <1>2, <1>3

\* A battery that leaves is taken out of everything.
LEMMA LeftKeeps ==
    ASSUME IInv, NEW c \in Batteries, NEW s \in Statuses,
           status' = [status EXCEPT ![c] = s], Left(c), cache' \in {cache, NoCache}
    PROVE  IInv'
<1>1. TypeOK /\ ProbeIsAHandoff
  BY DEF IInv
<1>2. priority' \in Orders
  BY KeepingIsOrder DEF Left
<1>3. TypeOK'
  BY <1>1, <1>2 DEF Left, ProbeWithout, TypeOK
<1>4. ProbeIsAHandoff'
  BY <1>1 DEF Left, ProbeWithout, ProbeIsAHandoff
<1>5. Covered'
  BY DEF Left, Covered
<1> QED BY <1>3, <1>4, <1>5 DEF IInv

\* A step that leaves the order, the probe and the roles alone and counts as a
\* change of the pool.
LEMMA ChangeKeeps ==
    ASSUME IInv, status' \in [Batteries -> Statuses], weight' \in [Batteries -> Weights],
           saturated' \subseteq Batteries, steady' = FALSE,
           UNCHANGED <<priority, deprioritized, probe, sinceRotation, cache>>
    PROVE  IInv'
BY DEF IInv, TypeOK, ProbeIsAHandoff, Covered

LEMMA ForceRotationKeeps ==
    ASSUME IInv, ForceRotation
    PROVE  IInv'
<1>1. TypeOK /\ ProbeIsAHandoff
  BY DEF IInv
<1>2. PICK order \in Sorted(Eligible, QueuedFirst) :
          IF Len(order) < 2
          THEN /\ priority' = order
               /\ UNCHANGED <<probe, saturated, sinceRotation, cache>>
          ELSE /\ priority' = Append(Tail(order), Head(order))
               /\ sinceRotation' = 0
               /\ probe' = NoProbe
               /\ cache' = NoCache
               /\ saturated' = saturated \cap Eligible
  BY DEF ForceRotation
<1>3. order \in Orders
  BY DEF Sorted
<1>4. /\ deprioritized' = deprioritized \cap Eligible
      /\ steady' = FALSE
      /\ UNCHANGED <<status, weight>>
  BY DEF ForceRotation
<1>5. CASE Len(order) < 2
  BY <1>1, <1>2, <1>3, <1>4, <1>5 DEF IInv, TypeOK, ProbeIsAHandoff, Covered
<1>6. CASE ~ (Len(order) < 2)
  <2>1. order # <<>>
    BY <1>6, EmptySeq
  <2>2. priority' \in Orders
    BY <2>1, <1>2, <1>3, <1>6, RotationIsOrder
  <2>3. 0 \in 0..RotationInterval
    BY PoolAssumption
  <2> QED BY <2>2, <2>3, <1>1, <1>2, <1>4, <1>6
             DEF IInv, TypeOK, ProbeIsAHandoff, Covered
<1> QED BY <1>5, <1>6

LEMMA TickKeeps ==
    ASSUME IInv, Tick
    PROVE  IInv'
<1>1. TypeOK /\ ProbeIsAHandoff /\ Covered
  BY DEF IInv
<1>2. sinceRotation' \in 0..RotationInterval
  BY <1>1, PoolAssumption DEF Tick, TypeOK
<1>3. probe' \in Probe \cup {NoProbe} /\ ProbeIsAHandoff'
  <2>1. CASE probe # NoProbe /\ probe.age < ProbeTimeout
    <3>1. probe' = [probe EXCEPT !.age = @ + 1] /\ probe \in Probe
      BY <2>1, <1>1 DEF Tick, TypeOK
    <3>2. probe.age + 1 \in 0..ProbeTimeout
      BY <3>1, <2>1, PoolAssumption DEF Probe
    <3>3. /\ probe' \in Probe
          /\ probe'.candidate = probe.candidate /\ probe'.active = probe.active
          /\ probe'.backups = probe.backups /\ probe'.restore = probe.restore
      BY <3>1, <3>2 DEF Probe
    <3> QED BY <3>3, <2>1, <1>1 DEF ProbeIsAHandoff
  <2>2. CASE ~ (probe # NoProbe /\ probe.age < ProbeTimeout)
    BY <2>2, <1>1 DEF Tick, TypeOK, ProbeIsAHandoff
  <2> QED BY <2>1, <2>2
<1>4. TypeOK'
  BY <1>1, <1>2, <1>3 DEF Tick, TypeOK
<1>5. Covered'
  BY <1>1 DEF Tick, Covered, Pool
<1> QED BY <1>3, <1>4, <1>5 DEF IInv

LEMMA InitKeeps == Init => IInv
<1> SUFFICES ASSUME Init PROVE IInv
  OBVIOUS
<1>1. 0 \in 0..RotationInterval
  BY PoolAssumption
<1>2. TypeOK
  BY <1>1, EmptyOrder DEF Init, TypeOK, Statuses
<1> QED BY <1>2 DEF Init, IInv, ProbeIsAHandoff, Covered

LEMMA NextKeeps == IInv /\ [Next]_vars => IInv'
<1> SUFFICES ASSUME IInv, [Next]_vars PROVE IInv'
  OBVIOUS
<1>1. TypeOK
  BY DEF IInv
<1>2. ASSUME NEW c \in Batteries, Poll(c) PROVE IInv'
  BY <1>2, PollKeeps
<1>3. ASSUME NEW c \in Batteries, IdlePoll(c) PROVE IInv'
  <2>1. saturated' \subseteq Batteries
    BY <1>1, <1>3, VerdictsType DEF IdlePoll
  <2> QED BY <2>1, <1>3 DEF IdlePoll, IInv, TypeOK, ProbeIsAHandoff, Covered, Pool
<1>4. ASSUME NEW c \in Batteries, Arrive(c) PROVE IInv'
  <2>1. status' \in [Batteries -> Statuses]
    BY <1>1, <1>4 DEF Arrive, TypeOK, Statuses
  <2> QED BY <2>1, <1>1, <1>4, ChangeKeeps DEF Arrive, TypeOK
<1>5. ASSUME NEW c \in Batteries, Evict(c) PROVE IInv'
  BY <1>5, LeftKeeps DEF Evict, Statuses
<1>6. ASSUME NEW c \in Batteries, SetManual(c) PROVE IInv'
  BY <1>6, LeftKeeps DEF SetManual, Statuses
<1>7. ASSUME NEW c \in Batteries, NEW from \in SUBSET Statuses, NEW to \in Statuses,
             Moves(c, from, to)
      PROVE  IInv'
  BY <1>1, <1>7, ChangeKeeps DEF Moves, TypeOK
<1>8. ASSUME NEW c \in Batteries, StepAside(c) \/ ComeBack(c) \/ Pause(c) PROVE IInv'
  BY <1>7, <1>8 DEF StepAside, ComeBack, Pause, Statuses
<1>9. ASSUME NEW c \in Batteries, Resume(c) PROVE IInv'
  <2>1. status' \in [Batteries -> Statuses]
    BY <1>1, <1>9 DEF Resume, TypeOK, Statuses
  <2> QED BY <2>1, <1>1, <1>9, ChangeKeeps DEF Resume, TypeOK
<1>10. ASSUME NEW c \in Batteries, NEW w \in Weights, SetWeight(c, w) PROVE IInv'
  BY <1>1, <1>10, ChangeKeeps DEF SetWeight, TypeOK
<1>11. CASE ForceRotation
  BY <1>11, ForceRotationKeeps
<1>12. CASE Tick
  BY <1>12, TickKeeps
<1>13. CASE UNCHANGED vars
  BY <1>13 DEF vars, IInv, TypeOK, ProbeIsAHandoff, Covered, Pool
<1> QED BY <1>2, <1>3, <1>4, <1>5, <1>6, <1>8, <1>9, <1>10, <1>11, <1>12, <1>13
           DEF Next, Polls, Command

LEMMA Invariant == Spec => []IInv
BY InitKeeps, NextKeeps, PTL DEF Spec

\* Every variable keeps its type; above all the rotation order and the order a
\* probe would restore never list a battery twice (_sync_pool, _reject_probe).
THEOREM TypeCorrect == Spec => []TypeOK
<1>1. IInv => TypeOK
  BY DEF IInv
<1> QED BY <1>1, Invariant, PTL

\* A probe always tests a battery that did not run before against batteries that
\* did and no longer would (_probe_active_set_change, _begin_probe).
THEOREM ProbesTestHandoffs == Spec => []ProbeIsAHandoff
<1>1. IInv => ProbeIsAHandoff
  BY DEF IInv
<1> QED BY <1>1, Invariant, PTL

\* Whatever the demand, the weights and the probes' outcomes, a pass lists the
\* reporting batteries and leaves one of them at work (_active_slots).
THEOREM SomeoneAlwaysRuns == Spec => []SomeoneRuns
<1>1. IInv => SomeoneRuns
  BY DEF IInv, Covered, SomeoneRuns
<1> QED BY <1>1, Invariant, PTL

-----------------------------------------------------------------------------
(* What a rejected probe gives back. *)

\* The head of a rejected probe's order led before the probe.
LEMMA RejectedHead ==
    ASSUME probe \in Probe, Handoff(probe), probe # NoProbe,
           NEW order \in Orders, NEW s \in Rejected(order)
    PROVE  s[1] = probe.restore[1]
<1> DEFINE ran == probe.restore
           others == Members(order) \ (Members(ran) \cup {probe.candidate})
<1>1. ran \in Orders /\ probe.candidate \in Batteries
  BY DEF Probe
<1>2. PICK rest \in Keeping(order, others) : s = ran \o rest \o <<probe.candidate>>
  BY DEF Rejected
<1>3. rest \in Orders
  BY <1>2, KeepingIsOrder
<1>4. /\ ran \in Seq(Batteries) /\ rest \in Seq(Batteries)
      /\ <<probe.candidate>> \in Seq(Batteries)
      /\ Len(<<probe.candidate>>) = 1
      /\ Len(ran) \in Nat /\ Len(rest) \in Nat
  BY <1>1, <1>3, OrderIsSeq, LenProperties
<1>5. Len(ran) >= 1
  <2>1. Members(ran) # {}
    BY DEF Handoff
  <2> QED BY <2>1, <1>4 DEF Members
<1>6. /\ ran \o rest \in Seq(Batteries) /\ Len(ran \o rest) = Len(ran) + Len(rest)
      /\ (ran \o rest)[1] = ran[1]
  BY <1>4, <1>5, ConcatProperties
<1>7. (ran \o rest \o <<probe.candidate>>)[1] = (ran \o rest)[1]
  <2> DEFINE u == ran \o rest
             v == <<probe.candidate>>
  <2>1. u \in Seq(Batteries) /\ v \in Seq(Batteries) /\ Len(u) \in Nat /\ Len(u) >= 1
        /\ Len(v) = 1
    BY <1>4, <1>5, <1>6
  <2> HIDE DEF u, v
  <2>2. (u \o v)[1] = u[1]
    BY <2>1, ConcatProperties
  <2> QED BY <2>2 DEF u, v
<1> QED BY <1>2, <1>6, <1>7

\* A pass that finds a probe neither swaps nor begins another.
LEMMA DecidedUnderProbe ==
    ASSUME probe # NoProbe, NEW p \in Stage, Pool # {}, NEW kept \in SUBSET Pool,
           NEW before, NEW demand \in Demands, NEW surplus,
           PassDecided(p, kept, before, demand, surplus)
    PROVE  /\ \E k \in 1..Len(p.order) : deprioritized' = Trailing(p.order, k)
           /\ probe' = p.probe
           /\ sinceRotation' = p.since
<1> DEFINE n == Len(p.order)
           slots == ActiveSlots(demand, n, kept # {}, n - Cardinality(kept))
<1>1. /\ deprioritized' = Trailing(p.order, slots)
      /\ probe' = p.probe
      /\ sinceRotation' = p.since
  BY DEF PassDecided
<1>2. p.order \in Orders /\ Members(p.order) = Pool
  BY DEF Stage
<1>3. n \in Nat \ {0}
  <2>1. n \in Nat
    BY <1>2, OrderIsSeq, LenProperties
  <2>2. n # 0
    BY <1>2 DEF Members
  <2> QED BY <2>1, <2>2
<1>4. Cardinality(kept) \in Nat
  <2>1. Pool \subseteq Batteries
    BY DEF Pool
  <2> QED BY <2>1, PoolAssumption, FS_Subset, FS_CardinalityType
<1>5. slots \in 1..n
  <2>1. n - Cardinality(kept) \in Int /\ (kept # {}) \in BOOLEAN
    BY <1>3, <1>4
  <2> HIDE DEF n
  <2>2. slots \in 0..n /\ (n > 0 => slots > 0)
    BY <1>3, <2>1, SlotsInPool
  <2> QED BY <1>3, <2>2
<1> QED BY <1>1, <1>5

\* A poll that finds a probe past its deadline restores its first battery.
Restores ==
    (/\ probe # NoProbe /\ probe' = NoProbe /\ steady' /\ cache' # NoCache
     /\ Participants \subseteq Pool /\ sinceRotation' # 0)
      => probe.restore[1] \notin deprioritized'

LEMMA TogetherRestores ==
    ASSUME IInv, Pool # {}, NEW synced \in Synced, NEW verdicts \in SUBSET Batteries,
           NEW repeat \in BOOLEAN, NEW delivers \in BOOLEAN, NEW demand \in Demands,
           NEW surplus \in BOOLEAN,
           PassTogether(synced, verdicts, repeat, delivers, demand, surplus)
    PROVE  Restores
<1> SUFFICES ASSUME probe # NoProbe, probe' = NoProbe, cache' # NoCache,
                    Participants \subseteq Pool, sinceRotation' # 0
             PROVE  probe.restore[1] \notin deprioritized'
  BY DEF Restores
<1> DEFINE kept == deprioritized \cap Pool
           slots == Len(synced) - Cardinality(kept)
           before == SubSeq(synced, 1, slots)
<1>1. PICK r \in Resolutions(synced, verdicts, delivers) :
        IF repeat /\ r.cache = r.order THEN PassCached(r, kept)
        ELSE PassDecided(r, kept, before, demand, surplus)
  BY DEF PassTogether
<1> HIDE DEF before
<1>2. TypeOK /\ Handoff(probe) /\ probe \in Probe
  BY DEF IInv, ProbeIsAHandoff, Handoff, TypeOK
<1>3. synced \in Orders /\ Members(synced) = Pool
  BY SyncedIsPool
<1>4. r \in Stage
  BY <1>2, <1>3, ResolutionsStage
<1>5. /\ probe' = r.probe /\ sinceRotation' = r.since
      /\ \/ cache' = r.cache
         \/ \E k \in 1..Len(r.order) : deprioritized' = Trailing(r.order, k)
  <2>1. CASE PassCached(r, kept)
    BY <2>1 DEF PassCached
  <2>2. CASE PassDecided(r, kept, before, demand, surplus)
    BY <2>2, <1>4, DecidedUnderProbe
  <2> QED BY <2>1, <2>2, <1>1
<1>6. CASE delivers /\ probe.proven = 1
  BY <1>5, <1>6 DEF Resolutions
<1>7. CASE ~ (delivers /\ probe.proven = 1) /\ ~ Overdue(probe)
  <2> DEFINE q == [probe EXCEPT !.proven = IF delivers THEN 1 ELSE 0]
  <2>1. r.probe = q
    BY <1>7 DEF Resolutions
  <2>2. q \in Probe
    BY <1>2 DEF Probe
  <2> QED BY <2>1, <2>2, <1>5, NoProbeAssumption
<1>8. CASE ~ (delivers /\ probe.proven = 1) /\ Overdue(probe)
  <2>1. r.order \in Rejected(synced) /\ r.cache = NoCache
    BY <1>8 DEF Resolutions
  <2>2. PICK k \in 1..Len(r.order) : deprioritized' = Trailing(r.order, k)
    BY <2>1, <1>5
  <2>3. r.order \in Orders
    BY <1>4 DEF Stage
  <2>4. Injective(r.order) /\ Len(r.order) \in Nat
    BY <2>3, OrderIsSeq, LenProperties
  <2>5. r.order[1] \notin Trailing(r.order, k)
    BY <2>4 DEF Trailing, Injective
  <2>6. r.order[1] = probe.restore[1]
    BY <2>1, <1>2, <1>3, RejectedHead
  <2> QED BY <2>2, <2>5, <2>6
<1> QED BY <1>6, <1>7, <1>8

LEMMA NextRestores == IInv /\ [Next]_vars => Restores
<1> SUFFICES ASSUME IInv, [Next]_vars, probe # NoProbe, probe' = NoProbe, steady',
                    cache' # NoCache
             PROVE  Restores
  BY DEF Restores
<1>1. TypeOK
  BY DEF IInv
<1>2. ASSUME NEW c \in Batteries, Poll(c) PROVE Restores
  <2>1. CASE Cardinality(Pool) < 2
    BY <1>2, <2>1 DEF Poll, PassAlone
  <2>2. CASE ~ (Cardinality(Pool) < 2)
    <3>1. PICK synced \in Synced, verdicts \in Verdicts(c) :
          \E demand \in Demands, repeat \in Input(cache # NoCache),
             delivers \in Input(probe # NoProbe),
             surplus \in Input(probe = NoProbe /\ verdicts # {}) :
             PassTogether(synced, verdicts, repeat, delivers, demand, surplus)
      BY <1>2, <2>2 DEF Poll
    <3>2. PICK demand \in Demands, repeat \in Input(cache # NoCache),
               delivers \in Input(probe # NoProbe),
               surplus \in Input(probe = NoProbe /\ verdicts # {}) :
               PassTogether(synced, verdicts, repeat, delivers, demand, surplus)
      BY <3>1
    <3>3. repeat \in BOOLEAN /\ delivers \in BOOLEAN /\ surplus \in BOOLEAN
      BY <3>2 DEF Input
    <3>4. verdicts \in SUBSET Batteries /\ Pool # {}
      BY <1>1, <1>2, VerdictsType DEF Poll
    <3> QED BY <3>2, <3>3, <3>4, TogetherRestores
  <2> QED BY <2>1, <2>2
<1>3. ASSUME NEW c \in Batteries, IdlePoll(c) PROVE Restores
  BY <1>3 DEF IdlePoll
<1>4. ASSUME NEW c \in Batteries, Evict(c) \/ SetManual(c) PROVE Restores
  BY <1>4 DEF Evict, SetManual, Left
<1>5. ASSUME NEW c \in Batteries,
             Arrive(c) \/ StepAside(c) \/ ComeBack(c) \/ Pause(c) \/ Resume(c)
      PROVE  Restores
  BY <1>5 DEF Arrive, StepAside, ComeBack, Pause, Moves, Resume
<1>6. ASSUME NEW c \in Batteries, NEW w \in Weights, SetWeight(c, w) PROVE Restores
  BY <1>6 DEF SetWeight
<1>7. CASE ForceRotation
  BY <1>7 DEF ForceRotation
<1>8. CASE Tick
  <2>1. probe.age < ProbeTimeout => [probe EXCEPT !.age = @ + 1] \in Probe
    BY <1>1, PoolAssumption DEF TypeOK, Probe
  <2> QED BY <2>1, <1>8, NoProbeAssumption DEF Tick
<1>9. CASE UNCHANGED vars
  BY <1>9 DEF vars
<1> QED BY <1>2, <1>3, <1>4, <1>5, <1>6, <1>7, <1>8, <1>9 DEF Next, Polls, Command

\* The poll that finds a probe past its deadline puts the battery that led before
\* back to work, whatever else the pass does (_reject_probe).
THEOREM RejectionGivesBack == Spec => RejectionRestores
<1>1. IInv /\ [Next]_vars => [Restores]_vars
  BY NextRestores
<1>2. [][Restores]_vars => RejectionRestores
  BY PTL DEF Restores, RejectionRestores
<1> QED BY <1>1, <1>2, Invariant, PTL DEF Spec
-----------------------------------------------------------------------------
(* No exchange without a probe. *)

\* The first k batteries of an order and those behind them share it out.
LEMMA LeadingAndTrailing ==
    ASSUME NEW s \in Orders, NEW k \in 0..Len(s)
    PROVE  /\ Leading(s, k) = Members(s) \ Trailing(s, k)
           /\ Trailing(s, k) \subseteq Members(s)
<1>1. Injective(s) /\ Len(s) \in Nat
  BY OrderIsSeq, LenProperties
<1>2. Trailing(s, k) \subseteq Members(s)
  BY <1>1 DEF Trailing, Members
<1>3. ASSUME NEW c \in Leading(s, k) PROVE c \in Members(s) \ Trailing(s, k)
  <2>1. PICK i \in 1..k : c = s[i]
    BY <1>3 DEF Leading
  <2>2. i \in 1..Len(s) /\ \A j \in (k + 1)..Len(s) : j \in 1..Len(s) /\ j # i
    BY <1>1
  <2>3. c \notin Trailing(s, k)
    BY <1>1, <2>1, <2>2 DEF Trailing, Injective
  <2> QED BY <2>1, <2>2, <2>3 DEF Members
<1>4. ASSUME NEW c \in Members(s), c \notin Trailing(s, k) PROVE c \in Leading(s, k)
  <2>1. PICK i \in 1..Len(s) : c = s[i]
    BY DEF Members
  <2>2. i \in 1..k
    BY <1>1, <1>4, <2>1 DEF Trailing
  <2> QED BY <2>1, <2>2 DEF Leading
<1> QED BY <1>2, <1>3, <1>4

\* An order lists no battery twice: its first k places hold k batteries.
LEMMA LeadingCount ==
    ASSUME NEW s \in Orders, NEW k \in 0..Len(s)
    PROVE  IsFiniteSet(Leading(s, k)) /\ Cardinality(Leading(s, k)) = k
<1>1. Injective(s) /\ Len(s) \in Nat
  BY OrderIsSeq, LenProperties
<1>2. k \in Nat /\ \A i \in 1..k : i \in 1..Len(s)
  BY <1>1
<1> DEFINE f == [i \in 1..k |-> s[i]]
<1>3. f \in [1..k -> Leading(s, k)]
  BY DEF Leading
<1>4. f \in Injection(1..k, Leading(s, k))
  BY <1>1, <1>2, <1>3 DEF Injection, IsInjective, Injective
<1>5. f \in Surjection(1..k, Leading(s, k))
  BY <1>3 DEF Surjection, Leading
<1>6. ExistsBijection(1..k, Leading(s, k))
  BY <1>4, <1>5 DEF ExistsBijection, Bijection
<1>7. IsFiniteSet(1..k) /\ Cardinality(1..k) = k
  <2>1. 1 \in Int /\ k \in Int
    BY <1>2
  <2>2. IsFiniteSet(1..k) /\ Cardinality(1..k) = IF 1 > k THEN 0 ELSE k - 1 + 1
    BY <2>1, FS_Interval
  <2> QED BY <2>2, <1>2
<1> QED BY <1>6, <1>7, FS_Bijection

\* All the places hold all the batteries.
LEMMA MembersCount ==
    ASSUME NEW s \in Orders
    PROVE  IsFiniteSet(Members(s)) /\ Cardinality(Members(s)) = Len(s)
<1>1. Len(s) \in Nat
  BY OrderIsSeq, LenProperties
<1>2. Len(s) \in 0..Len(s) /\ Members(s) = Leading(s, Len(s))
  BY <1>1 DEF Members, Leading
<1> QED BY <1>2, LeadingCount

\* Where an order lists a battery.
LEMMA PlaceOf ==
    ASSUME NEW s \in Orders, NEW i \in 1..Len(s)
    PROVE  Place(s, s[i]) = i
<1>1. \A j \in 1..Len(s) : s[j] = s[i] => j = i
  BY OrderIsSeq DEF Injective
<1> DEFINE j == CHOOSE h \in 1..Len(s) : s[h] = s[i]
<1>2. j \in 1..Len(s) /\ s[j] = s[i]
  OBVIOUS
<1>3. Place(s, s[i]) = j
  BY DEF Place
<1> HIDE DEF j
<1> QED BY <1>1, <1>2, <1>3

\* _sync_pool moves parked batteries back and nobody else: one that is not parked
\* keeps its rank or gains one.
LEMMA SyncKeepsRank ==
    ASSUME TypeOK, NEW synced \in Synced, Members(priority) = Pool,
           NEW k \in 0..Len(priority), k <= Len(synced),
           NEW c \in Leading(priority, k), weight[c] # 0
    PROVE  c \in Leading(synced, k)
<1>1. priority \in Orders /\ synced \in Orders /\ Members(synced) = Pool
  BY SyncedIsPool DEF TypeOK
<1>2. Len(priority) \in Nat /\ Len(synced) \in Nat
      /\ Injective(priority) /\ Injective(synced)
  BY <1>1, OrderIsSeq, LenProperties
<1>3. PICK h \in 1..k : c = priority[h]
  BY DEF Leading
<1>4. h \in 1..Len(priority) /\ Place(priority, c) = h
  BY <1>1, <1>2, <1>3, PlaceOf
<1>5. c \in Members(priority)
  BY <1>3, <1>4 DEF Members
<1>6. PICK i \in 1..Len(synced) : c = synced[i]
  BY <1>1, <1>5 DEF Members
<1> SUFFICES ASSUME i > k PROVE FALSE
  BY <1>2, <1>6 DEF Leading
<1>7. ASSUME NEW j \in 1..k PROVE synced[j] \in Leading(priority, k) \ {c}
  <2> DEFINE x == synced[j]
  <2>1. j \in 1..Len(synced) /\ j < i
    BY <1>2
  <2>2. RanksAhead(x, c)
    BY <2>1, <1>6 DEF Synced, Sorted
  <2>3. x \in Members(priority) /\ x # c
    <3>1. x \in Members(synced)
      BY <2>1 DEF Members
    <3>2. j # i
      BY <2>1
    <3>3. x # synced[i]
      BY <2>1, <3>2, <1>2 DEF Injective
    <3> QED BY <3>1, <3>3, <1>1, <1>6
  <2> HIDE DEF x
  <2>4. Place(priority, x) < Place(priority, c)
    <3>1. CASE weight[x] = 0
      BY <3>1, <2>2 DEF RanksAhead
    <3>2. CASE weight[x] # 0
      <4>1. (weight[x] = 0) = FALSE /\ (weight[c] = 0) = FALSE
        BY <3>2
      <4> QED BY <4>1, <2>2, <2>3, <1>5 DEF RanksAhead
    <3> QED BY <3>1, <3>2
  <2>5. PICK m \in 1..Len(priority) : x = priority[m]
    BY <2>3 DEF Members
  <2>6. m < h
    BY <2>4, <2>5, <1>1, <1>4, PlaceOf
  <2>7. m \in 1..k
    BY <2>6, <1>2, <1>3
  <2> QED BY <2>3, <2>5, <2>7 DEF Leading, x
<1>8. Leading(synced, k) \subseteq Leading(priority, k) \ {c}
  BY <1>7 DEF Leading
<1>9. /\ IsFiniteSet(Leading(priority, k)) /\ Cardinality(Leading(priority, k)) = k
      /\ Cardinality(Leading(synced, k)) = k
  <2>1. k \in 0..Len(synced)
    BY <1>2
  <2> QED BY <2>1, <1>1, LeadingCount
<1>10. /\ IsFiniteSet(Leading(priority, k) \ {c})
       /\ Cardinality(Leading(priority, k) \ {c}) = k - 1
  BY <1>9, FS_RemoveElement
<1>11. k <= k - 1
  BY <1>8, <1>9, <1>10, FS_Subset
<1> QED BY <1>11, <1>2

\* The prefix of an order lists its first batteries.
LEMMA PrefixMembers ==
    ASSUME NEW s \in Orders, NEW k \in 1..Len(s)
    PROVE  /\ Members(SubSeq(s, 1, k)) = Leading(s, k)
           /\ SubSeq(s, 1, k) # <<>>
<1> DEFINE t == SubSeq(s, 1, k)
<1>1. s \in Seq(Batteries) /\ Len(s) \in Nat
  BY OrderIsSeq, LenProperties
<1>2. k \in Nat /\ k >= 1 /\ k <= Len(s)
  BY <1>1
<1>3. \A i \in 1..k : s[i] \in Batteries
  BY <1>1, <1>2, ElementOfSeq
<1>4. /\ Len(t) = IF 1 <= k THEN k - 1 + 1 ELSE 0
      /\ \A i \in 1..(k - 1 + 1) : t[i] = s[1 + i - 1]
  BY <1>2, <1>3, SubSeqProperties
<1> HIDE DEF t
<1>5. Len(t) = k /\ \A i \in 1..k : t[i] = s[i]
  BY <1>2, <1>4
<1>6. Members(t) = Leading(s, k)
  BY <1>5 DEF Members, Leading
<1>7. t # <<>>
  BY <1>2, <1>5, EmptySeq
<1> QED BY <1>6, <1>7 DEF t

\* What an unwatched change of the batteries at work may do.
Harmless(ran, runs) ==
    \/ \A c \in ran \ runs : weight[c] = 0
    \/ runs \subseteq ran
    \/ (\E c \in ran : weight[c] = 0) /\ Cardinality(runs) < Cardinality(ran)

\* A decision that does not hand over changes the batteries at work harmlessly:
\* the ones it compares with are those that worked, but for the parked ones that
\* _sync_pool has replaced.
LEMMA NoHandoverIsHarmless ==
    ASSUME TypeOK, NEW synced \in Synced, Members(priority) = Pool,
           NEW k \in 1..Len(priority),
           NEW order \in Orders, NEW m \in 1..Len(order),
           ~ HandsOver(order, m, SubSeq(synced, 1, k))
    PROVE  Harmless(Leading(priority, k), Leading(order, m))
<1> DEFINE ran == Leading(priority, k)
           seen == Leading(synced, k)
           runs == Leading(order, m)
<1>1. priority \in Orders /\ synced \in Orders /\ Members(synced) = Pool
  BY SyncedIsPool DEF TypeOK
<1>2. Len(priority) \in Nat /\ Len(synced) = Len(priority) /\ Len(order) \in Nat
  BY <1>1, MembersCount, OrderIsSeq, LenProperties
<1>3. k \in 0..Len(priority) /\ k \in 1..Len(synced) /\ k \in 0..Len(synced)
      /\ k <= Len(synced) /\ m \in 0..Len(order) /\ k \in Nat /\ m \in Nat
  BY <1>2
<1>4. Members(SubSeq(synced, 1, k)) = seen /\ SubSeq(synced, 1, k) # <<>>
  BY <1>1, <1>3, PrefixMembers
<1>5. runs \subseteq seen \/ seen \subseteq runs
  BY <1>4 DEF HandsOver
<1>6. \A c \in ran : weight[c] # 0 => c \in seen
  BY <1>1, <1>3, SyncKeepsRank
<1>7. /\ IsFiniteSet(ran) /\ Cardinality(ran) = k
      /\ IsFiniteSet(seen) /\ Cardinality(seen) = k
      /\ Cardinality(runs) = m
  BY <1>1, <1>3, LeadingCount
<1> SUFFICES Harmless(ran, runs)
  OBVIOUS
<1> HIDE DEF ran, seen, runs
<1>8. CASE seen \subseteq runs
  BY <1>6, <1>8 DEF Harmless
<1>9. CASE runs \subseteq seen /\ ~ (seen \subseteq runs)
  <2>1. m <= k /\ (m = k => seen = runs)
    BY <1>7, <1>9, FS_Subset
  <2>2. m < k
    BY <2>1, <1>3, <1>9
  <2>3. CASE \E c \in ran : weight[c] = 0
    BY <2>2, <2>3, <1>7 DEF Harmless
  <2>4. CASE ~ \E c \in ran : weight[c] = 0
    <3>1. ran \subseteq seen
      BY <2>4, <1>6
    <3>2. ran = seen
      BY <3>1, <1>7, FS_Subset
    <3> QED BY <3>2, <1>9 DEF Harmless
  <2> QED BY <2>3, <2>4
<1> QED BY <1>5, <1>8, <1>9

\* While nothing but polls has happened since the last decision, the batteries at
\* rest are the last of the order, and the decision the cache holds is this one.
Laid ==
    steady => /\ \E k \in 1..Len(priority) : deprioritized = Trailing(priority, k)
              /\ cache \in {priority, NoCache}

\* What HandoffIsProbed says of one step.
Watched ==
    (steady /\ steady') =>
        \/ Harmless(Pool \ deprioritized, Pool \ deprioritized')
        \/ probe # NoProbe \/ probe' # NoProbe

\* A cached decision is the last one, and stands.
LEMMA CachedStands ==
    ASSUME IInv, Laid, steady, NEW p \in Stage, p.cache \in {cache, NoCache},
           PassCached(p, deprioritized \cap Pool)
    PROVE  priority' = priority /\ deprioritized' = deprioritized /\ cache' = cache
<1>1. p.cache = p.order /\ p.order \in Orders
  BY DEF PassCached, Stage
<1>2. p.cache = cache /\ cache = priority
  BY <1>1, NoCacheAssumption DEF Laid
<1>3. deprioritized \subseteq Pool
  <2>1. PICK k \in 1..Len(priority) : deprioritized = Trailing(priority, k)
    BY DEF Laid
  <2>2. priority \in Orders /\ Members(priority) = Pool
    BY DEF IInv, TypeOK, Covered
  <2>3. k \in 0..Len(priority)
    BY <2>2, OrderIsSeq, LenProperties
  <2> QED BY <2>1, <2>2, <2>3, LeadingAndTrailing
<1> QED BY <1>1, <1>2, <1>3 DEF PassCached

\* A pass hands over under a probe's eyes, and leaves the order laid out.
LEMMA TogetherWatched ==
    ASSUME IInv, Laid, Pool # {}, NEW synced \in Synced,
           NEW verdicts \in SUBSET Batteries,
           NEW repeat \in BOOLEAN, NEW delivers \in BOOLEAN, NEW demand \in Demands,
           NEW surplus \in BOOLEAN,
           PassTogether(synced, verdicts, repeat, delivers, demand, surplus)
    PROVE  Laid' /\ Watched
<1> DEFINE kept == deprioritized \cap Pool
           slots == Len(synced) - Cardinality(kept)
           before == SubSeq(synced, 1, slots)
<1>1. PICK r \in Resolutions(synced, verdicts, delivers) :
        LET p == IF probe = NoProbe
                 THEN Reconsidered(Rotated(r, slots), slots) ELSE r
        IN  IF repeat /\ p.cache = p.order THEN PassCached(p, kept)
            ELSE PassDecided(p, kept, SubSeq(synced, 1, slots), demand, surplus)
  BY DEF PassTogether
<1> DEFINE p == IF probe = NoProbe
                THEN Reconsidered(Rotated(r, slots), slots) ELSE r
<1>2. PassCached(p, kept) \/ PassDecided(p, kept, before, demand, surplus)
  BY <1>1
<1>3. TypeOK /\ Handoff(probe) /\ Covered
  BY DEF IInv, ProbeIsAHandoff, Handoff
<1>4. synced \in Orders /\ Members(synced) = Pool
  BY SyncedIsPool
<1>5. r \in Stage /\ r.cache \in {cache, NoCache}
  <2>1. r \in Stage
    BY <1>3, <1>4, ResolutionsStage
  <2>2. r.cache \in {cache, NoCache}
    BY DEF Resolutions
  <2> QED BY <2>1, <2>2
<1>6. p \in Stage /\ p.cache \in {cache, NoCache} /\ p.probe = r.probe
  <2>1. CASE probe = NoProbe
    <3>1. /\ Rotated(r, slots) \in Stage /\ Rotated(r, slots).probe = r.probe
          /\ Rotated(r, slots).cache \in {cache, NoCache}
      BY <1>5, RotatedStage DEF Rotated, Stage
    <3> DEFINE q == Rotated(r, slots)
    <3> HIDE DEF q
    <3>2. /\ q \in Stage /\ q.cache \in {cache, NoCache} /\ q.probe = r.probe
      BY <3>1 DEF q
    <3>3. /\ Reconsidered(q, slots) \in Stage /\ Reconsidered(q, slots).probe = r.probe
          /\ Reconsidered(q, slots).cache \in {cache, NoCache}
      BY <3>2, ReconsideredStage DEF Reconsidered, Stage
    <3> QED BY <2>1, <3>3 DEF q
  <2>2. CASE probe # NoProbe
    BY <2>2, <1>5
  <2> QED BY <2>1, <2>2
<1>7. kept \in SUBSET Pool
  OBVIOUS
<1> HIDE DEF p
<1>8. CASE PassCached(p, kept)
  <2>1. steady' = steady
    BY <1>8 DEF PassCached
  <2>2. CASE ~ steady
    BY <2>1, <2>2 DEF Laid, Watched
  <2>3. CASE steady
    <3>1. priority' = priority /\ deprioritized' = deprioritized /\ cache' = cache
      BY <2>3, <1>6, <1>8, CachedStands
    <3> QED BY <3>1, <2>1 DEF Laid, Watched, Harmless
  <2> QED BY <2>2, <2>3
<1>9. CASE PassDecided(p, kept, before, demand, surplus)
  <2> HIDE DEF before
  <2>1. PICK m : DecidedWith(p, before, m)
    <3> HIDE DEF kept
    <3> QED BY <1>6, <1>7, <1>9, DecidedLays
  <2>2. /\ priority' \in Orders /\ Members(priority') = Pool
        /\ m \in 1..Len(priority') /\ deprioritized' = Trailing(priority', m)
        /\ cache' = priority'
    BY <2>1 DEF DecidedWith
  <2>3. Laid'
    BY <2>2 DEF Laid
  <2>4. ASSUME steady, probe = NoProbe, probe' = NoProbe
        PROVE  Harmless(Pool \ deprioritized, Pool \ deprioritized')
    <3>1. PICK k \in 1..Len(priority) : deprioritized = Trailing(priority, k)
      BY <2>4 DEF Laid
    <3>2. priority \in Orders /\ Members(priority) = Pool
      BY <2>4, <1>3 DEF TypeOK, Covered
    <3>3. Len(priority) \in Nat /\ Len(synced) = Len(priority) /\ Len(priority') \in Nat
      BY <3>2, <2>2, <1>4, MembersCount, OrderIsSeq, LenProperties
    <3>4. k \in 0..Len(priority) /\ m \in 0..Len(priority')
      BY <2>2, <3>3
    <3>5. /\ Pool \ deprioritized = Leading(priority, k) /\ deprioritized \subseteq Pool
          /\ Pool \ deprioritized' = Leading(priority', m)
      BY <2>2, <3>1, <3>2, <3>4, LeadingAndTrailing
    <3>6. slots = k
      <4>1. /\ IsFiniteSet(Pool) /\ Cardinality(Pool) = Len(priority)
            /\ Cardinality(Leading(priority, k)) = k
        BY <3>2, <3>4, MembersCount, LeadingCount
      <4>2. kept = deprioritized
        BY <3>5
      <4>3. Cardinality(Pool \ deprioritized) = Cardinality(Pool) - Cardinality(Pool \cap deprioritized)
        BY <4>1, FS_Difference
      <4>4. Pool \cap deprioritized = deprioritized
        BY <3>5
      <4>5. Cardinality(deprioritized) \in Nat
        BY <4>1, <3>5, FS_Subset, FS_CardinalityType
      <4> QED BY <4>1, <4>2, <4>3, <4>4, <4>5, <3>3, <3>5
    <3>7. before = SubSeq(synced, 1, k)
      BY <3>6 DEF before
    <3>8. ~ HandsOver(priority', m, before)
      <4> SUFFICES ASSUME HandsOver(priority', m, before) PROVE FALSE
        OBVIOUS
      <4>1. probe' = Begun(priority', m, before)
        BY <2>1, <2>4 DEF DecidedWith
      <4>2. before \in Orders
        <5>1. k \in Int /\ k <= Len(synced)
          BY <3>3
        <5> QED BY <5>1, <3>7, <1>4, PrefixIsOrder
      <4>3. Begun(priority', m, before) \in Probe
        BY <4>2, <2>2, <3>4, BegunIsHandoff
      <4> QED BY <4>1, <4>3, <2>4, NoProbeAssumption
    <3> QED BY <1>3, <2>2, <3>2, <3>5, <3>7, <3>8, NoHandoverIsHarmless
  <2> QED BY <2>3, <2>4 DEF Watched
<1> QED BY <1>2, <1>8, <1>9

\* Every step keeps the order laid out, and only a poll exchanges batteries.
LEMMA NextWatched == IInv /\ Laid /\ [Next]_vars => Laid' /\ Watched
<1> SUFFICES ASSUME IInv, Laid, [Next]_vars PROVE Laid' /\ Watched
  OBVIOUS
<1>1. TypeOK
  BY DEF IInv
<1>2. ASSUME NEW c \in Batteries, Poll(c) PROVE Laid' /\ Watched
  <2>1. CASE Cardinality(Pool) < 2
    BY <1>2, <2>1 DEF Poll, PassAlone, Laid, Watched
  <2>2. CASE ~ (Cardinality(Pool) < 2)
    <3>1. PICK synced \in Synced, verdicts \in Verdicts(c) :
          \E demand \in Demands, repeat \in Input(cache # NoCache),
             delivers \in Input(probe # NoProbe),
             surplus \in Input(probe = NoProbe /\ verdicts # {}) :
             PassTogether(synced, verdicts, repeat, delivers, demand, surplus)
      BY <1>2, <2>2 DEF Poll
    <3>2. PICK demand \in Demands, repeat \in Input(cache # NoCache),
               delivers \in Input(probe # NoProbe),
               surplus \in Input(probe = NoProbe /\ verdicts # {}) :
               PassTogether(synced, verdicts, repeat, delivers, demand, surplus)
      BY <3>1
    <3>3. repeat \in BOOLEAN /\ delivers \in BOOLEAN /\ surplus \in BOOLEAN
      BY <3>2 DEF Input
    <3>4. verdicts \in SUBSET Batteries /\ Pool # {}
      BY <1>1, <1>2, VerdictsType DEF Poll
    <3> QED BY <3>2, <3>3, <3>4, TogetherWatched
  <2> QED BY <2>1, <2>2
<1>3. ASSUME UNCHANGED <<priority, deprioritized, steady>>, cache' \in {cache, NoCache}
      PROVE  Laid' /\ Watched
  BY <1>3 DEF Laid, Watched, Harmless
<1>4. ASSUME NEW c \in Batteries, IdlePoll(c) PROVE Laid' /\ Watched
  BY <1>3, <1>4 DEF IdlePoll
<1>5. ASSUME ~ steady' PROVE Laid' /\ Watched
  BY <1>5 DEF Laid, Watched
<1>6. ASSUME NEW c \in Batteries, Evict(c) \/ SetManual(c) PROVE Laid' /\ Watched
  BY <1>5, <1>6 DEF Evict, SetManual, Left
<1>7. ASSUME NEW c \in Batteries,
             Arrive(c) \/ StepAside(c) \/ ComeBack(c) \/ Pause(c) \/ Resume(c)
      PROVE  Laid' /\ Watched
  BY <1>5, <1>7 DEF Arrive, StepAside, ComeBack, Pause, Moves, Resume
<1>8. ASSUME NEW c \in Batteries, NEW w \in Weights, SetWeight(c, w)
      PROVE  Laid' /\ Watched
  BY <1>5, <1>8 DEF SetWeight
<1>9. CASE ForceRotation
  BY <1>5, <1>9 DEF ForceRotation
<1>10. CASE Tick
  BY <1>3, <1>10 DEF Tick
<1>11. CASE UNCHANGED vars
  BY <1>3, <1>11 DEF vars
<1> QED BY <1>2, <1>4, <1>6, <1>7, <1>8, <1>9, <1>10, <1>11 DEF Next, Polls, Command

\* No pass over an unchanged pool trades a battery at work for one at rest on
\* trust: a probe watches, but for what a parked battery leaves behind
\* (_probe_active_set_change compares with the order _sync_pool has just made).
THEOREM HandoffsAreProbed == Spec => HandoffIsProbed
<1>1. Init => Laid
  BY DEF Init, Laid
<1>2. IInv /\ Laid /\ [Next]_vars => Laid'
  BY NextWatched
<1>3. IInv /\ Laid /\ [Next]_vars => [Watched]_vars
  BY NextWatched
<1>4. Spec => [](IInv /\ Laid)
  BY <1>1, <1>2, Invariant, PTL DEF Spec
<1>5. [][Watched]_vars => HandoffIsProbed
  BY PTL DEF Watched, Harmless, HandoffIsProbed
<1> QED BY <1>3, <1>4, <1>5, PTL DEF Spec

-----------------------------------------------------------------------------
(* A parked battery gives way. *)

\* _sync_pool puts no parked battery in front of one that is not.
LEMMA SyncedHead ==
    ASSUME TypeOK, NEW synced \in Synced, NEW c \in Members(synced), weight[c] > 0
    PROVE  weight[Head(synced)] > 0
<1>1. synced \in Orders /\ Members(synced) = Pool
  BY SyncedIsPool
<1>2. synced \in Seq(Batteries) /\ Len(synced) \in Nat
  BY <1>1, OrderIsSeq, LenProperties
<1>3. PICK i \in 1..Len(synced) : c = synced[i]
  BY DEF Members
<1>4. 1 \in 1..Len(synced) /\ synced # <<>> /\ Head(synced) = synced[1]
  <2>1. 1 \in 1..Len(synced) /\ Len(synced) # 0
    BY <1>2, <1>3
  <2>2. synced # <<>>
    BY <2>1, EmptySeq
  <2> QED BY <2>1, <2>2, <1>2, HeadTailProperties
<1> DEFINE h == synced[1]
<1>5. h \in Batteries /\ c \in Batteries
  BY <1>2, <1>3, <1>4, ElementOfSeq
<1>6. weight[h] \in Nat /\ weight[c] \in Nat
  <2>1. weight[h] \in Weights /\ weight[c] \in Weights
    BY <1>5 DEF TypeOK
  <2>2. \A w \in Weights : w \in Nat
    BY PoolAssumption
  <2> QED BY <2>1, <2>2
<1>7. CASE i = 1
  BY <1>3, <1>4, <1>7
<1>8. CASE i # 1
  <2>1. RanksAhead(h, c)
    <3>1. 1 < i
      BY <1>2, <1>8
    <3> QED BY <3>1, <1>3, <1>4 DEF Synced, Sorted
  <2> HIDE DEF h
  <2>2. weight[h] # 0
    <3> SUFFICES ASSUME weight[h] = 0 PROVE FALSE
      OBVIOUS
    <3>1. (weight[h] = 0) = TRUE /\ (weight[c] = 0) = FALSE
      BY <1>6
    <3>2. weight[c] = 0
      BY <3>1, <2>1 DEF RanksAhead
    <3> QED BY <3>1, <3>2
  <2>3. weight[h] > 0
    BY <2>2, <1>6
  <2> QED BY <2>3, <1>4 DEF h
<1> QED BY <1>7, <1>8

\* Only the end of a probe changes the order _sync_pool has made.
LEMMA ResolutionsOrder ==
    ASSUME NEW order, NEW verdicts, NEW delivers,
           NEW r \in Resolutions(order, verdicts, delivers)
    PROVE  r.order = order \/ (probe # NoProbe /\ r.probe = NoProbe)
<1>1. CASE probe = NoProbe
  BY <1>1 DEF Resolutions
<1>2. CASE probe # NoProbe /\ ~ Participants \subseteq Pool
  BY <1>2 DEF Resolutions
<1>3. CASE /\ probe # NoProbe /\ Participants \subseteq Pool
           /\ delivers /\ probe.proven = 1
  BY <1>3 DEF Resolutions
<1>4. CASE /\ probe # NoProbe /\ Participants \subseteq Pool
           /\ ~ (delivers /\ probe.proven = 1) /\ Overdue(probe)
  <2>1. PICK s \in Rejected(order) :
          r = [order |-> s, probe |-> NoProbe,
               saturated |-> verdicts \cup {probe.candidate},
               since |-> sinceRotation, cache |-> NoCache]
    BY <1>4 DEF Resolutions
  <2> QED BY <2>1, <1>4
<1>5. CASE /\ probe # NoProbe /\ Participants \subseteq Pool
           /\ ~ (delivers /\ probe.proven = 1) /\ ~ Overdue(probe)
  <2> DEFINE q == [probe EXCEPT !.proven = IF delivers THEN 1 ELSE 0]
  <2>1. r = [order |-> order, probe |-> q, saturated |-> verdicts,
             since |-> sinceRotation, cache |-> cache]
    BY <1>5 DEF Resolutions
  <2> HIDE DEF q
  <2> QED BY <2>1
<1> QED BY <1>1, <1>2, <1>3, <1>4, <1>5

\* A pass that neither rotates, nor swaps, nor undoes a probe leaves the order
\* as _sync_pool has made it.
LEMMA TogetherKeepsSynced ==
    ASSUME IInv, Pool # {}, NEW synced \in Synced, NEW verdicts \in SUBSET Batteries,
           NEW repeat \in BOOLEAN, NEW delivers \in BOOLEAN, NEW demand \in Demands,
           NEW surplus \in BOOLEAN,
           PassTogether(synced, verdicts, repeat, delivers, demand, surplus),
           sinceRotation' # 0, probe' = NoProbe => probe = NoProbe
    PROVE  priority' = synced
<1> DEFINE kept == deprioritized \cap Pool
           slots == Len(synced) - Cardinality(kept)
           before == SubSeq(synced, 1, slots)
<1>1. PICK r \in Resolutions(synced, verdicts, delivers) :
        LET p == IF probe = NoProbe
                 THEN Reconsidered(Rotated(r, slots), slots) ELSE r
        IN  IF repeat /\ p.cache = p.order THEN PassCached(p, kept)
            ELSE PassDecided(p, kept, SubSeq(synced, 1, slots), demand, surplus)
  BY DEF PassTogether
<1> DEFINE p == IF probe = NoProbe
                THEN Reconsidered(Rotated(r, slots), slots) ELSE r
<1>2. PassCached(p, kept) \/ PassDecided(p, kept, before, demand, surplus)
  BY <1>1
<1>3. TypeOK /\ Handoff(probe)
  BY DEF IInv, ProbeIsAHandoff, Handoff
<1>4. synced \in Orders /\ Members(synced) = Pool
  BY SyncedIsPool
<1>5. r \in Stage /\ (r.order = synced \/ (probe # NoProbe /\ r.probe = NoProbe))
  <2>1. r \in Stage
    BY <1>3, <1>4, ResolutionsStage
  <2> QED BY <2>1, ResolutionsOrder
<1>6. /\ p \in Stage /\ p.probe = r.probe
      /\ p.since = 0 \/ (p.order = r.order /\ p.since = r.since)
  <2>1. CASE probe = NoProbe
    <3> DEFINE q == Rotated(r, slots)
    <3>1. q \in Stage /\ q.probe = r.probe
      BY <1>5, RotatedStage
    <3>2. q.since = 0 \/ q = r
      BY <1>5 DEF Rotated, Stage
    <3> HIDE DEF q
    <3>3. /\ Reconsidered(q, slots) \in Stage /\ Reconsidered(q, slots).probe = r.probe
          /\ Reconsidered(q, slots).since = q.since
          /\ Reconsidered(q, slots).order = q.order
      BY <3>1, ReconsideredStage DEF Reconsidered, Stage
    <3>4. p = Reconsidered(q, slots)
      BY <2>1 DEF q
    <3> HIDE DEF p
    <3>5. p \in Stage /\ p.probe = r.probe
      BY <3>3, <3>4
    <3>6. p.since = q.since /\ p.order = q.order
      BY <3>3, <3>4
    <3>7. p.since = 0 \/ (p.order = r.order /\ p.since = r.since)
      BY <3>2, <3>6
    <3> QED BY <3>5, <3>7
  <2>2. CASE probe # NoProbe
    BY <2>2, <1>5
  <2> QED BY <2>1, <2>2
<1>7. kept \in SUBSET Pool
  OBVIOUS
<1> HIDE DEF p, kept, before
<1>8. /\ sinceRotation' = p.since /\ priority' = p.order
      /\ probe # NoProbe => probe' = p.probe
  <2>1. CASE PassCached(p, kept)
    BY <2>1 DEF PassCached
  <2>2. CASE PassDecided(p, kept, before, demand, surplus)
    <3>1. PICK k : DecidedWith(p, before, k)
      BY <2>2, <1>6, <1>7, DecidedLays
    <3> QED BY <3>1 DEF DecidedWith
  <2> QED BY <2>1, <2>2, <1>2
<1> QED BY <1>5, <1>6, <1>8

\* What ParkedGivesWay says of one step.
GivesWay ==
    (/\ steady' /\ sinceRotation' # 0
     /\ probe' = NoProbe => probe = NoProbe
     /\ \E c \in Members(priority') : weight[c] > 0
     /\ \E c \in Batteries : Poll(c))
       => weight[Head(priority')] > 0

\* A pass does so whatever has happened before it.
LEMMA NextGivesWay == IInv => GivesWay
<1> SUFFICES ASSUME IInv, steady', sinceRotation' # 0,
                    probe' = NoProbe => probe = NoProbe,
                    NEW d \in Members(priority'), weight[d] > 0,
                    NEW c \in Batteries, Poll(c)
             PROVE  weight[Head(priority')] > 0
  BY DEF GivesWay
<1>1. TypeOK
  BY DEF IInv
<1>2. CASE Cardinality(Pool) < 2
  BY <1>2 DEF Poll, PassAlone
<1>3. CASE ~ (Cardinality(Pool) < 2)
  <2>1. PICK synced \in Synced, verdicts \in Verdicts(c) :
        \E demand \in Demands, repeat \in Input(cache # NoCache),
           delivers \in Input(probe # NoProbe),
           surplus \in Input(probe = NoProbe /\ verdicts # {}) :
           PassTogether(synced, verdicts, repeat, delivers, demand, surplus)
    BY <1>3 DEF Poll
  <2>2. PICK demand \in Demands, repeat \in Input(cache # NoCache),
             delivers \in Input(probe # NoProbe),
             surplus \in Input(probe = NoProbe /\ verdicts # {}) :
             PassTogether(synced, verdicts, repeat, delivers, demand, surplus)
    BY <2>1
  <2>3. repeat \in BOOLEAN /\ delivers \in BOOLEAN /\ surplus \in BOOLEAN
    BY <2>2 DEF Input
  <2>4. verdicts \in SUBSET Batteries /\ Pool # {}
    BY <1>1, VerdictsType DEF Poll
  <2>5. priority' = synced
    BY <2>2, <2>3, <2>4, TogetherKeepsSynced
  <2>6. Members(priority') = Members(synced)
    BY <2>5
  <2>7. weight[Head(synced)] > 0
    BY <2>6, <1>1, SyncedHead
  <2> QED BY <2>5, <2>7
<1> QED BY <1>2, <1>3

\* A parked battery leads for one pass at most, in a pool of any size, however
\* probes, commands and evictions fall between two passes (_sync_pool).
THEOREM ParkedLeadsOnce == Spec => ParkedGivesWay
<1>1. IInv /\ [Next]_vars => [GivesWay]_vars
  BY NextGivesWay
<1>2. [][GivesWay]_vars => ParkedGivesWay
  BY PTL DEF GivesWay, ParkedGivesWay
<1> QED BY <1>1, <1>2, Invariant, PTL DEF Spec
=============================================================================
