------------------------- MODULE SaturationProofs -------------------------
(***************************************************************************)
(* The two judgements the balancer forms of a battery, for any limits,     *)
(* shares, margins and times.  The saturation score: a battery is never    *)
(* scored for more than it earned in its present role.  The learned        *)
(* ceilings (Ceilings, taken as an instance beside Saturation, with which  *)
(* it shares the battery and its loop): a battery that follows is not      *)
(* capped, and a cap that is wrong falls.                                  *)
(***************************************************************************)
EXTENDS Saturation, CeilingVerdicts, TLAPS

\* Besides the score, what it may still rise by is earned: the seconds since
\* the last update that nobody judged, and those of a grace window that runs.
\* A resting battery has neither a score nor a clock.
Backed(s, e) ==
    /\ s.score <= e
    /\ s.since # Never => ~s.on /\ Least(Full, s.score + Rise * s.since) <= e
    /\ s.on => Least(Full, Rise * s.ran) <= e

Idle(s) == s.score = 0 /\ ~s.on /\ s.since = Never

Earned == Backed(sat, earned) /\ (role = "resting" => Idle(sat))

SatRecords == [score : 0 .. Full, on : BOOLEAN, left : Nat,
               ran : 0 .. StallTimeout, since : Never .. LongGap + 1]

(* What the tracker makes of a record                                        *)

LEMMA ClearedRecord ==
    /\ Cleared \in SatRecords
    /\ Cleared.score = 0 /\ ~Cleared.on /\ Cleared.since = Never
BY SaturationAssumption DEF Cleared, SatRecords, Never

LEMMA MarkedRecord ==
    LET marked == [Cleared EXCEPT !.score = Full]
    IN  marked \in SatRecords /\ marked.score = Full /\ ~marked.on /\ marked.since = Never
<1> DEFINE marked == [Cleared EXCEPT !.score = Full]
<1>1. Full \in 0 .. Full BY SaturationAssumption
<1>2. marked \in SatRecords BY <1>1, ClearedRecord DEF SatRecords
<1>3. marked.score = Full BY ClearedRecord DEF SatRecords
<1>4. marked.on = Cleared.on /\ marked.since = Cleared.since BY ClearedRecord DEF SatRecords
<1> QED BY <1>2, <1>3, <1>4, ClearedRecord

LEMMA GraceRecord ==
    ASSUME NEW s \in SatRecords, NEW n \in Nat
    PROVE  /\ WithGrace(s, n) \in SatRecords
           /\ WithGrace(s, n).score = s.score
           /\ WithGrace(s, n).ran = 0
           /\ WithGrace(s, n).since = Never
<1>1. 0 \in 0 .. StallTimeout /\ Never \in Never .. LongGap + 1
  BY SaturationAssumption DEF Never
<1>2. WithGrace(s, n) \in SatRecords BY <1>1 DEF WithGrace, SatRecords
<1>3. /\ WithGrace(s, n).score = s.score
      /\ WithGrace(s, n).ran = 0 /\ WithGrace(s, n).since = Never
  BY DEF WithGrace, SatRecords
<1> QED BY <1>2, <1>3

LEMMA NoGraceRecord ==
    ASSUME NEW s \in SatRecords
    PROVE  /\ NoGrace(s) \in SatRecords
           /\ NoGrace(s).score = s.score
           /\ NoGrace(s).since = s.since
           /\ ~NoGrace(s).on
<1>0. 0 \in 0 .. StallTimeout /\ 0 \in Nat BY SaturationAssumption
<1>1. NoGrace(s) \in SatRecords BY <1>0 DEF NoGrace, SatRecords
<1>2. NoGrace(s).score = s.score /\ NoGrace(s).since = s.since BY DEF NoGrace, SatRecords
<1>3. ~NoGrace(s).on BY DEF NoGrace, SatRecords
<1> QED BY <1>1, <1>2, <1>3

LEMMA AgedRecord ==
    ASSUME NEW s \in SatRecords, NEW dt \in Nat
    PROVE  /\ Aged(s, dt) \in SatRecords
           /\ Aged(s, dt).score = s.score
           /\ Aged(s, dt).on = s.on
           /\ s.on => Aged(s, dt).ran <= s.ran + dt
           /\ s.since = Never => Aged(s, dt).since = Never
           /\ s.since # Never => /\ Aged(s, dt).since # Never
                                 /\ Aged(s, dt).since <= s.since + dt
<1>1. /\ s.ran \in 0 .. StallTimeout /\ s.left \in Nat /\ s.since \in Never .. LongGap + 1
      /\ s.on \in BOOLEAN
  BY DEF SatRecords
<1> DEFINE left == Most(0, s.left - dt)
           ran == IF s.on THEN Least(StallTimeout, s.ran + dt) ELSE 0
           since == IF s.since = Never THEN Never ELSE Least(LongGap + 1, s.since + dt)
<1>2. left \in Nat BY <1>1 DEF Most
<1>3. ran \in 0 .. StallTimeout /\ (s.on => ran <= s.ran + dt)
  BY <1>1, SaturationAssumption DEF Least
<1>4. /\ since \in Never .. LongGap + 1
      /\ s.since = Never => since = Never
      /\ s.since # Never => since # Never /\ since <= s.since + dt
  BY <1>1, SaturationAssumption DEF Least, Never
<1>5. Aged(s, dt) = [s EXCEPT !.left = left, !.ran = ran, !.since = since]
  BY DEF Aged
<1> HIDE DEF left, ran, since
<1>6. Aged(s, dt) \in SatRecords
  BY <1>2, <1>3, <1>4, <1>5 DEF SatRecords
<1>7. /\ Aged(s, dt).score = s.score /\ Aged(s, dt).on = s.on
      /\ Aged(s, dt).ran = ran /\ Aged(s, dt).since = since
  BY <1>5 DEF SatRecords
<1> QED BY <1>3, <1>4, <1>6, <1>7

Second(s) == IF s.since = Never THEN 1 ELSE s.since

LEMMA ScoredRecord ==
    ASSUME NEW s \in SatRecords, NEW target \in Int, NEW actual \in Int
    PROVE  /\ Scored(s, target, actual) \in SatRecords
           /\ Scored(s, target, actual).since = 0
           /\ Scored(s, target, actual).on = s.on
           /\ Abs(actual) >= MinTarget => Scored(s, target, actual).score <= s.score
           /\ Scored(s, target, actual).score <= Least(Full, s.score + Rise * Second(s))
<1> DEFINE dt == Second(s)
           excused == Abs(target) < Actionable \/ target * actual < 0
           score == IF dt > LongGap THEN s.score
                    ELSE IF excused THEN Most(0, s.score - Decay * dt)
                    ELSE IF Abs(actual) < MinTarget
                    THEN Least(Full, s.score + Rise * dt)
                    ELSE Most(0, s.score - Rise * dt)
<1>1. Scored(s, target, actual) = [s EXCEPT !.since = 0, !.score = score]
  BY DEF Scored, Second
<1>2. s.score \in 0 .. Full /\ s.since \in Never .. LongGap + 1
  BY DEF SatRecords
<1>3. dt \in Nat BY <1>2, SaturationAssumption DEF Second, Never
<1>4. Rise * dt \in Nat /\ Decay * dt \in Nat
  BY <1>3, SaturationAssumption
<1> HIDE DEF dt, excused
<1>5. /\ score \in 0 .. Full
      /\ Abs(actual) >= MinTarget => score <= s.score
      /\ score <= Least(Full, s.score + Rise * dt)
  <2> DEFINE sunk == Most(0, s.score - Decay * dt)
             fallen == Most(0, s.score - Rise * dt)
             risen == Least(Full, s.score + Rise * dt)
  <2>1. sunk \in 0 .. s.score /\ fallen \in 0 .. s.score /\ risen \in s.score .. Full
    BY <1>2, <1>4, SaturationAssumption DEF Most, Least
  <2>2. /\ score \in {s.score, sunk, risen, fallen}
        /\ ~(Abs(actual) < MinTarget) => score \in {s.score, sunk, fallen}
    OBVIOUS
  <2>3. Abs(actual) >= MinTarget => ~(Abs(actual) < MinTarget)
    BY SaturationAssumption DEF Abs
  <2> HIDE DEF score, sunk, fallen, risen
  <2>4. /\ score \in 0 .. Full /\ score <= risen
        /\ ~(Abs(actual) < MinTarget) => score <= s.score
    BY <1>2, <2>1, <2>2, SaturationAssumption
  <2> QED BY <2>3, <2>4 DEF risen
<1> HIDE DEF score
<1>s. 0 \in Never .. LongGap + 1 BY SaturationAssumption DEF Never
<1>6. Scored(s, target, actual) \in SatRecords
  BY <1>1, <1>5, <1>s DEF SatRecords
<1>7. /\ Scored(s, target, actual).since = 0 /\ Scored(s, target, actual).on = s.on
      /\ Scored(s, target, actual).score = score
  BY <1>1 DEF SatRecords
<1> QED BY <1>5, <1>6, <1>7 DEF dt

-----------------------------------------------------------------------------
(* What a poll makes of the score, against what it makes of the evidence     *)

Fields(s) == /\ s.score \in 0 .. Full /\ s.on \in BOOLEAN
             /\ s.ran \in 0 .. StallTimeout /\ s.since \in Never .. LongGap + 1

LEMMA RecordFields == ASSUME NEW s \in SatRecords PROVE Fields(s)
BY DEF SatRecords, Fields

LEMMA Products ==
    ASSUME NEW a \in Nat, NEW b \in Nat
    PROVE  /\ Rise * a \in Nat /\ Rise * b \in Nat
           /\ Rise * (a + b) = Rise * a + Rise * b
           /\ a <= b => Rise * a <= Rise * b
BY SaturationAssumption

\* The seconds since the last poll count as evidence at least as much as they
\* can add to the score, or to what a running grace window hides.
LEMMA SecondsCount ==
    ASSUME NEW s \in SatRecords, NEW e \in 0 .. Full, NEW dt \in Nat, Backed(s, e)
    PROVE  LET a == Aged(s, dt)
               e2 == Least(Full, e + Rise * Most(1, dt))
           IN  /\ Backed(a, e2) /\ e2 \in e .. Full
               /\ Least(Full, a.score + Rise * Second(a)) <= e2
<1> DEFINE a == Aged(s, dt)
           d == Most(1, dt)
           e2 == Least(Full, e + Rise * d)
<1>1. Fields(s) /\ Fields(a) BY AgedRecord, RecordFields
<1>2. /\ a.score = s.score /\ a.on = s.on
      /\ s.on => a.ran <= s.ran + dt
      /\ s.since = Never => a.since = Never
      /\ s.since # Never => a.since # Never /\ a.since <= s.since + dt
  BY AgedRecord
<1>3. d \in Nat /\ d >= 1 /\ dt <= d BY DEF Most
<1> HIDE DEF a, d
<1>4. Rise * d \in Nat /\ Rise * 1 <= Rise * d BY <1>3, Products
<1>5. e2 \in e .. Full BY <1>4, SaturationAssumption DEF Least
<1>6. ASSUME NEW x \in Nat, NEW y \in Nat, y <= x + dt, NEW z \in Nat,
             Least(Full, z + Rise * x) <= e
      PROVE  Least(Full, z + Rise * y) <= e2
  <2>1. y <= x + d /\ x + d \in Nat BY <1>3, <1>6
  <2>2. Rise * y <= Rise * (x + d) /\ Rise * y \in Nat
    BY <1>3, <2>1, Products
  <2>3. Rise * (x + d) = Rise * x + Rise * d /\ Rise * x \in Nat
    BY <1>3, Products
  <2> QED BY <1>4, <1>6, <2>2, <2>3, SaturationAssumption DEF Least
<1>7. s.since # Never =>
        ~s.on /\ Least(Full, a.score + Rise * a.since) <= e2 /\ a.since \in Nat
  <2> SUFFICES ASSUME s.since # Never
               PROVE  ~s.on /\ Least(Full, a.score + Rise * a.since) <= e2 /\ a.since \in Nat
    OBVIOUS
  <2>1. s.since \in Nat /\ a.since \in Nat /\ a.since <= s.since + dt /\ s.score \in Nat
    <3>1. s.since \in Never .. LongGap + 1 /\ a.since \in Never .. LongGap + 1 /\ s.score \in 0 .. Full
      BY <1>1 DEF Fields
    <3>2. a.since # Never /\ a.since <= s.since + dt BY <1>2
    <3> QED BY <3>1, <3>2, SaturationAssumption DEF Never
  <2>2. Least(Full, s.score + Rise * s.since) <= e /\ ~s.on BY DEF Backed
  <2> QED BY <1>2, <1>6, <2>1, <2>2
<1>8. a.on => Least(Full, Rise * a.ran) <= e2
  <2> SUFFICES ASSUME a.on PROVE Least(Full, 0 + Rise * a.ran) <= e2
    BY <1>1, Products, SaturationAssumption DEF Fields
  <2>1. s.ran \in Nat /\ a.ran \in Nat /\ a.ran <= s.ran + dt
    BY <1>1, <1>2, SaturationAssumption DEF Fields
  <2>2. Rise * s.ran \in Nat BY <2>1, Products
  <2>3. Least(Full, 0 + Rise * s.ran) <= e BY <1>2, <2>2 DEF Backed
  <2> QED BY <1>6, <2>1, <2>3
<1>9. a.score <= e2 BY <1>1, <1>2, <1>5 DEF Backed, Fields
<1>10. Backed(a, e2)
  BY <1>2, <1>7, <1>8, <1>9 DEF Backed
<1>11. Least(Full, a.score + Rise * Second(a)) <= e2
  <2>1. CASE a.since # Never
    BY <1>2, <1>7, <2>1 DEF Second
  <2>2. CASE a.since = Never
    BY <1>1, <1>2, <1>4, <2>2, SaturationAssumption DEF Second, Backed, Fields, Least
  <2> QED BY <2>1, <2>2
<1> QED BY <1>5, <1>10, <1>11 DEF a, d

LEMMA Judging ==
    ASSUME NEW a \in SatRecords, NEW target \in Int, NEW actual \in Int,
           NEW e \in 0 .. Full, a.score <= e,
           Abs(actual) < MinTarget =>
               Backed(a, e) /\ Least(Full, a.score + Rise * Second(a)) <= e
    PROVE  Update(a, target, actual) \in SatRecords /\ Backed(Update(a, target, actual), e)
<1> DEFINE u == Update(a, target, actual)
           quiet == Abs(actual) < MinTarget
           b == IF a.on THEN [NoGrace(a) EXCEPT !.since = Never] ELSE a
<1>1. Fields(a) BY RecordFields
<1>2. CASE a.on /\ a.left > 0 /\ quiet
  <2>1. u = a \/ (a.ran >= StallTimeout /\ u = [Cleared EXCEPT !.score = Full])
    BY <1>2 DEF Update
  <2>2. CASE u = a BY <1>2, <2>2
  <2>3. CASE a.ran >= StallTimeout /\ u = [Cleared EXCEPT !.score = Full]
    <3>1. a.ran = StallTimeout BY <1>1, <2>3, SaturationAssumption DEF Fields
    <3>2. Rise * a.ran >= Full BY <3>1, SaturationAssumption
    <3>3. e = Full BY <1>2, <3>1, <3>2, SaturationAssumption DEF Backed, Least
    <3> HIDE DEF u
    <3>4. u \in SatRecords /\ u.score = Full /\ ~u.on /\ u.since = Never
      BY <2>3, MarkedRecord
    <3> QED BY <3>3, <3>4, SaturationAssumption DEF Backed, u
  <2> QED BY <2>1, <2>2, <2>3
<1>3. CASE ~(a.on /\ a.left > 0 /\ quiet)
  <2>1. u = Scored(b, target, actual) BY <1>3 DEF Update
  <2>2. b \in SatRecords /\ b.score = a.score /\ ~b.on
    <3>1. CASE ~a.on BY <3>1
    <3>2. CASE a.on
      <4>1. NoGrace(a) \in SatRecords /\ NoGrace(a).score = a.score /\ ~NoGrace(a).on
        BY NoGraceRecord
      <4>2. Never \in Never .. LongGap + 1 BY SaturationAssumption DEF Never
      <4>3. [NoGrace(a) EXCEPT !.since = Never] \in SatRecords
        BY <4>1, <4>2 DEF SatRecords
      <4>4. /\ [NoGrace(a) EXCEPT !.since = Never].score = NoGrace(a).score
            /\ [NoGrace(a) EXCEPT !.since = Never].on = NoGrace(a).on
        BY <4>1 DEF SatRecords
      <4> QED BY <3>2, <4>1, <4>3, <4>4
    <3> QED BY <3>1, <3>2
  <2>3. quiet => Second(b) = Second(a)
    <3>1. CASE ~a.on BY <3>1
    <3>2. CASE a.on /\ quiet
      <4>1. a.since = Never BY <3>2 DEF Backed
      <4>2. [NoGrace(a) EXCEPT !.since = Never].since = Never
        BY NoGraceRecord DEF SatRecords
      <4> QED BY <3>2, <4>1, <4>2 DEF Second
    <3> QED BY <3>1, <3>2
  <2> HIDE DEF b, u
  <2>4. /\ u \in SatRecords /\ u.since = 0 /\ ~u.on
        /\ ~quiet => u.score <= a.score
        /\ u.score <= Least(Full, a.score + Rise * Second(b))
    <3>1. ~quiet => Abs(actual) >= MinTarget BY SaturationAssumption DEF Abs
    <3> QED BY <2>1, <2>2, <3>1, ScoredRecord
  <2>5. Fields(u) BY <2>4, RecordFields
  <2>6. u.score <= e
    <3>1. CASE quiet
      <4>1. Rise * Second(a) \in Nat
        BY <1>1, Products, SaturationAssumption DEF Second, Fields, Never
      <4> QED BY <1>1, <2>3, <2>4, <2>5, <3>1, <4>1, SaturationAssumption DEF Fields, Least
    <3>2. CASE ~quiet BY <1>1, <2>4, <2>5, <3>2 DEF Fields
    <3> QED BY <3>1, <3>2
  <2>7. Least(Full, u.score + Rise * u.since) <= e
    BY <2>4, <2>5, <2>6, SaturationAssumption DEF Fields, Least
  <2> QED BY <2>4, <2>6, <2>7 DEF Backed, u
<1> QED BY <1>2, <1>3

-----------------------------------------------------------------------------
(* Roles                                                                     *)

\* A role change leaves a record that its evidence backs.
LEMMA ChangesBacked ==
    ASSUME NEW s \in SatRecords, NEW e \in 0 .. Full, Backed(s, e), role \in Roles,
           role = "resting" => Idle(s), NEW next \in {Role(role, s)} \cup RoleChanges(s)
    PROVE  /\ next.role \in Roles /\ next.sat \in SatRecords
           /\ Evidence(next, e) \in 0 .. Full
           /\ Backed(next.sat, Evidence(next, e))
           /\ next.role = "resting" => Idle(next.sat)
<1> USE DEF Role
<1>0. /\ 0 \in 0 .. Full /\ Full \in 0 .. Full /\ Least(Full, Rise * 0) = 0
      /\ Grace \in Nat /\ JoinGrace \in Nat
  BY SaturationAssumption DEF Least
<1>1. Backed(Cleared, 0) /\ Idle(Cleared) /\ Cleared \in SatRecords
  BY ClearedRecord DEF Backed, Idle
<1>2. \A r \in SatRecords, n \in Nat :
        WithGrace(r, n) \in SatRecords /\ (r.score = 0 => Backed(WithGrace(r, n), 0))
  <2> TAKE r \in SatRecords, n \in Nat
  <2>1. /\ WithGrace(r, n) \in SatRecords /\ WithGrace(r, n).score = r.score
        /\ WithGrace(r, n).ran = 0 /\ WithGrace(r, n).since = Never
    BY GraceRecord
  <2> QED BY <1>0, <2>1 DEF Backed
<1>3. NoGrace(s) \in SatRecords /\ Backed(NoGrace(s), e)
  BY NoGraceRecord DEF Backed
<1>4. Rejected(s) \in SatRecords /\ Rejected(s).score = Full /\ Backed(Rejected(s), Full)
  <2>1. NoGrace(s) \in SatRecords /\ ~NoGrace(s).on BY NoGraceRecord
  <2>2. Rejected(s) \in SatRecords /\ Rejected(s).score = Full
    BY <1>0, <2>1 DEF Rejected, SatRecords
  <2>3. Rejected(s).on = NoGrace(s).on BY <2>1 DEF Rejected, SatRecords
  <2>4. Fields(Rejected(s)) BY <2>2, RecordFields
  <2>5. Rejected(s).since # Never => Rise * Rejected(s).since \in Nat
    BY <2>4, Products, SaturationAssumption DEF Fields, Never
  <2> QED BY <2>1, <2>2, <2>3, <2>5, SaturationAssumption DEF Backed, Least
<1>5. Promoted(s) \in SatRecords /\ Backed(Promoted(s), 0)
  BY <1>0, <1>1, <1>2, ClearedRecord DEF Promoted
<1>6. /\ Evidence(next, e) \in {0, e, Full}
      /\ next.role = role => Evidence(next, e) \in {e, Full}
      /\ role = "probing" /\ next.role = "auto" /\ next.sat.score = Full => Evidence(next, e) = Full
      /\ {next.role, role} \subseteq Serving => Evidence(next, e) \in {e, Full}
  BY DEF Evidence
<1>7. \A r, x, y : Backed(r, x) /\ x \in 0 .. Full /\ y \in {x, Full} /\ r \in SatRecords => Backed(r, y)
  <2> SUFFICES ASSUME NEW r \in SatRecords, NEW x \in 0 .. Full, NEW y \in {x, Full}, Backed(r, x)
               PROVE  Backed(r, y)
    OBVIOUS
  <2>1. Fields(r) BY RecordFields
  <2>2. r.since # Never => Rise * r.since \in Nat
    BY <2>1, Products, SaturationAssumption DEF Fields, Never
  <2>3. Rise * r.ran \in Nat BY <2>1, Products, SaturationAssumption DEF Fields
  <2> QED BY <2>1, <2>2, <2>3, SaturationAssumption DEF Backed, Fields, Least
<1>8. \A r \in SatRecords, y \in 0 .. Full : Backed(r, 0) => Backed(r, y)
  <2> SUFFICES ASSUME NEW r \in SatRecords, NEW y \in 0 .. Full, Backed(r, 0)
               PROVE  Backed(r, y)
    OBVIOUS
  <2>1. Fields(r) BY RecordFields
  <2>2. r.since # Never => Rise * r.since \in Nat
    BY <2>1, Products, SaturationAssumption DEF Fields, Never
  <2>3. Rise * r.ran \in Nat BY <2>1, Products, SaturationAssumption DEF Fields
  <2> QED BY <2>1, <2>2, <2>3, SaturationAssumption DEF Backed, Fields, Least
<1>9. Evidence(next, e) \in 0 .. Full BY <1>0, <1>6
<1>10. CASE next = Role(role, s)
  <2>1. next.role = role /\ next.sat = s BY <1>10
  <2> QED BY <1>6, <1>7, <1>9, <2>1
<1>11. CASE next \in RoleChanges(s)
  <2>1. \/ next \in {Role("resting", Cleared), Role("spilling", WithGrace(s, JoinGrace)),
                     Role("probing", WithGrace(Cleared, Grace)), Role("probing", Cleared),
                     Role("auto", Promoted(s))}
           /\ (next = Role("spilling", WithGrace(s, JoinGrace)) => role = "resting")
        \/ /\ role \in Serving
           /\ next \in {Role("auto", s), Role("backing", s), Role("auto", NoGrace(s))}
        \/ role = "probing" /\ next = Role("auto", Rejected(s))
    BY <1>11 DEF RoleChanges, Serving
  <2>2. CASE next \in {Role("resting", Cleared), Role("spilling", WithGrace(s, JoinGrace)),
                       Role("probing", WithGrace(Cleared, Grace)), Role("probing", Cleared),
                       Role("auto", Promoted(s))}
             /\ (next = Role("spilling", WithGrace(s, JoinGrace)) => role = "resting")
    <3>1. /\ next.role \in Roles /\ next.sat \in SatRecords /\ Backed(next.sat, 0)
          /\ next.role = "resting" => Idle(next.sat)
      <4>1. CASE next = Role("resting", Cleared) BY <4>1, <1>1 DEF Roles
      <4>2. CASE next = Role("spilling", WithGrace(s, JoinGrace))
        <5>1. s.score = 0 BY <2>2, <4>2 DEF Idle
        <5> QED BY <4>2, <5>1, <1>0, <1>2 DEF Roles
      <4>3. CASE next = Role("probing", WithGrace(Cleared, Grace))
        BY <4>3, <1>0, <1>1, <1>2, ClearedRecord DEF Roles
      <4>4. CASE next = Role("probing", Cleared) BY <4>4, <1>1 DEF Roles
      <4>5. CASE next = Role("auto", Promoted(s)) BY <4>5, <1>5 DEF Roles
      <4> QED BY <2>2, <4>1, <4>2, <4>3, <4>4, <4>5
    <3> QED BY <1>8, <1>9, <3>1
  <2>3. CASE /\ role \in Serving
             /\ next \in {Role("auto", s), Role("backing", s), Role("auto", NoGrace(s))}
    <3>1. /\ next.role \in {"auto", "backing"} /\ next.sat \in {s, NoGrace(s)}
      BY <2>3
    <3>2. Evidence(next, e) \in {e, Full} BY <1>6, <2>3, <3>1 DEF Serving
    <3>3. Backed(next.sat, e) /\ next.sat \in SatRecords BY <1>3, <3>1
    <3> QED BY <1>7, <1>9, <3>1, <3>2, <3>3 DEF Roles
  <2>4. CASE role = "probing" /\ next = Role("auto", Rejected(s))
    <3>1. next.role = "auto" /\ next.sat = Rejected(s) BY <2>4
    <3> QED BY <1>0, <1>4, <1>6, <2>4, <3>1 DEF Roles
  <2> QED BY <2>1, <2>2, <2>3, <2>4
<1> QED BY <1>10, <1>11

-----------------------------------------------------------------------------
(* Powers                                                                    *)

LEMMA Arithmetic ==
    /\ \A n \in Int : Abs(n) \in Nat /\ Sign(n) \in Int
    /\ \A n \in Int, b \in Int : Within(n, b) \in Int
BY DEF Abs, Sign, Within, Most, Least

LEMMA Commands ==
    ASSUME share \in Int, NEW r, NEW s \in SatRecords, NEW actual \in Int, NEW slice \in Int,
           NEW alone \in BOOLEAN
    PROVE  Command(r, s, actual, slice, alone) \in Int
<1>1. s.score \in Int BY SaturationAssumption DEF SatRecords
<1>2. (Abs(slice) * (Full - s.score)) \div Full \in Int
  <2>1. Full \in Int /\ Full > 0 /\ Abs(slice) \in Int /\ Full - s.score \in Int
    <3>1. Full \in Int /\ Full > 0 BY SaturationAssumption
    <3>2. Abs(slice) \in Int BY DEF Abs
    <3>3. Full - s.score \in Int BY <1>1, <3>1
    <3> QED BY <3>1, <3>2, <3>3
  <2>2. \A x \in Int, y \in Int : x * y \in Int OBVIOUS
  <2>3. Abs(slice) * (Full - s.score) \in Int BY <2>1, <2>2, Zenon
  <2>4. \A x \in Int : x \div Full \in Int BY <2>1
  <2> QED BY <2>3, <2>4, Zenon
<1>3. Sign(slice) * ((Abs(slice) * (Full - s.score)) \div Full) \in Int
  <2>1. Sign(slice) \in Int BY Arithmetic
  <2>2. \A x \in Int, y \in Int : x * y \in Int OBVIOUS
  <2> QED BY <1>2, <2>1, <2>2, Zenon
<1> DEFINE goal == IF s.score < Full THEN share ELSE IF alone THEN actual ELSE 0
<1>4. Within(goal - actual, MaxStep) \in Int
  <2>1. goal - actual \in Int /\ MaxStep \in Int BY SaturationAssumption
  <2> HIDE DEF goal
  <2> QED BY <2>1, Arithmetic
<1>5. Wanted(s, actual, slice, alone) \in Int
  BY <1>3, <1>4 DEF Wanted
<1>6. Sign(share) * Abs(slice) \in Int
  <2>1. Sign(share) \in Int /\ Abs(slice) \in Int BY Arithmetic
  <2>2. \A x \in Int, y \in Int : x * y \in Int OBVIOUS
  <2> QED BY <2>1, <2>2, Zenon
<1> QED BY <1>5, <1>6 DEF Command

TypedScores ==
    /\ sat \in SatRecords /\ earned \in 0 .. Full /\ role \in Roles
    /\ power \in Int /\ share \in Int /\ sent \in Int /\ intent \in Int
    /\ limit \in Nat /\ known \in BOOLEAN

LEMMA PollStep ==
    ASSUME TypedScores, Earned, NEW dt \in Gaps, NEW slice \in Slices, Poll(dt, slice)
    PROVE  TypedScores' /\ Earned'
<1>1. dt \in Nat /\ slice \in Int BY SaturationAssumption
<1>2. Answer \in Int BY Arithmetic DEF Answer, TypedScores
<1> DEFINE a == Aged(sat, dt)
           e2 == Least(Full, earned + Rise * Most(1, dt))
           e == IF Unproductive THEN e2 ELSE earned
           t == Tracked(dt)
<1>3. Backed(a, e2) /\ e2 \in earned .. Full /\ Least(Full, a.score + Rise * Second(a)) <= e2
  BY <1>1, SecondsCount DEF TypedScores, Earned
<1>4. a \in SatRecords /\ a.score = sat.score
  BY <1>1, AgedRecord DEF TypedScores
<1>5. e \in 0 .. Full /\ earned <= e
  BY <1>3, SaturationAssumption DEF TypedScores
<1>6. a.score <= e
  BY <1>4, <1>5, RecordFields, SaturationAssumption DEF Earned, Backed, TypedScores, Fields
<1>7. t \in SatRecords /\ Backed(t, e)
  <2>1. CASE Judged /\ known
    <3>1. t = Update(a, intent, Answer) BY <2>1 DEF Tracked
    <3>2. Unproductive <=> Abs(Answer) < MinTarget BY <2>1 DEF Unproductive
    <3> HIDE DEF a, t, e2
    <3>3. Abs(Answer) < MinTarget => Backed(a, e) /\ Least(Full, a.score + Rise * Second(a)) <= e
      BY <1>3, <3>2
    <3> HIDE DEF e
    <3> QED BY <1>2, <1>4, <1>5, <1>6, <3>1, <3>3, Judging DEF TypedScores
  <2>2. CASE ~(Judged /\ known)
    <3>1. t = a BY <2>2 DEF Tracked
    <3>2. e = e2 BY <2>2 DEF Unproductive
    <3> QED BY <1>3, <1>4, <3>1, <3>2
  <2> QED BY <2>1, <2>2
<1>8. role = "resting" => Idle(t)
  <2> SUFFICES ASSUME role = "resting" PROVE Idle(t) OBVIOUS
  <2>1. t = a BY DEF Tracked, Judged
  <2>2. Idle(sat) BY DEF Earned
  <2> QED BY <1>1, <2>1, <2>2, AgedRecord DEF Idle, TypedScores
<1> HIDE DEF a, e2, e, t
<1>9. PICK next \in {Role(role, t)} \cup RoleChanges(t), alone \in BOOLEAN :
        LET out == Command(next.role, next.sat, Answer, slice, alone) IN
        /\ role' = next.role
        /\ sat' = next.sat
        /\ sent' = Paced(next.role, out)
        /\ intent' = Intent(next.role, out)
        /\ known' = (next.role # "away")
        /\ earned' = Evidence(next, e)
  BY DEF Poll, t, e, e2
<1>10. /\ next.role \in Roles /\ next.sat \in SatRecords
       /\ Evidence(next, e) \in 0 .. Full
       /\ Backed(next.sat, Evidence(next, e))
       /\ next.role = "resting" => Idle(next.sat)
  BY <1>5, <1>7, <1>8, ChangesBacked DEF TypedScores
<1>11. Command(next.role, next.sat, Answer, slice, alone) \in Int
  BY <1>1, <1>2, <1>10, Commands DEF TypedScores
<1>12. sent' \in Int /\ intent' \in Int
  BY <1>9, <1>11, Arithmetic, SaturationAssumption DEF Paced, Intent
<1>13. TypedScores'
  BY <1>2, <1>9, <1>10, <1>12 DEF TypedScores, Poll, world
<1>14. Earned' BY <1>9, <1>10 DEF Earned
<1> QED BY <1>13, <1>14

LEMMA OtherSteps ==
    ASSUME TypedScores, Earned,
           OthersPoll \/ Leave \/ Return \/ BatteryChanges \/ DemandChanges
    PROVE  TypedScores' /\ Earned'
<1>1. CASE OthersPoll
  <2>1. PICK next \in RoleChanges(sat) :
          role' = next.role /\ sat' = next.sat /\ earned' = Evidence(next, earned)
    BY <1>1 DEF OthersPoll
  <2>2. /\ next.role \in Roles /\ next.sat \in SatRecords
        /\ Evidence(next, earned) \in 0 .. Full
        /\ Backed(next.sat, Evidence(next, earned))
        /\ next.role = "resting" => Idle(next.sat)
    BY ChangesBacked DEF TypedScores, Earned
  <2>3. UNCHANGED <<power, sent, intent, known, limit, share>> BY <1>1 DEF OthersPoll, world
  <2>4. TypedScores' BY <2>1, <2>2, <2>3 DEF TypedScores
  <2> QED BY <2>1, <2>2, <2>4 DEF Earned
<1>2. CASE Leave
  <2>1. Cleared \in SatRecords /\ Idle(Cleared) /\ Backed(Cleared, 0)
    BY ClearedRecord DEF Idle, Backed
  <2>2. 0 \in 0 .. Full /\ 0 \in Int /\ "away" \in Roles BY SaturationAssumption DEF Roles
  <2>3. /\ role' = "away" /\ known' = FALSE /\ sat' = Cleared /\ earned' = 0 /\ intent' = 0
        /\ UNCHANGED <<power, sent, limit, share>>
    BY <1>2 DEF Leave, world
  <2>4. TypedScores' BY <2>1, <2>2, <2>3 DEF TypedScores
  <2> QED BY <2>1, <2>3, <2>4 DEF Earned
<1>3. CASE Return
  <2>1. /\ WithGrace(Cleared, Grace) \in SatRecords /\ WithGrace(Cleared, Grace).score = 0
        /\ WithGrace(Cleared, Grace).ran = 0 /\ WithGrace(Cleared, Grace).since = Never
    BY ClearedRecord, GraceRecord, SaturationAssumption
  <2>2. Backed(WithGrace(Cleared, Grace), 0)
    BY <2>1, SaturationAssumption DEF Backed, Least
  <2>3. /\ role' = "auto" /\ sat' = WithGrace(Cleared, Grace) /\ earned' = 0
        /\ UNCHANGED <<power, sent, intent, known, limit, share>>
    BY <1>3 DEF Return, world
  <2>4. 0 \in 0 .. Full /\ "auto" \in Roles BY SaturationAssumption DEF Roles
  <2>5. TypedScores' BY <2>1, <2>3, <2>4 DEF TypedScores
  <2> QED BY <2>2, <2>3, <2>5 DEF Earned
<1>4. CASE BatteryChanges
  BY <1>4, SaturationAssumption DEF BatteryChanges, TypedScores, Earned
<1>5. CASE DemandChanges
  BY <1>5, SaturationAssumption DEF DemandChanges, TypedScores, Earned
<1> QED BY <1>1, <1>2, <1>3, <1>4, <1>5

LEMMA Invariant == Spec => [](TypedScores /\ Earned)
<1>1. Init => TypedScores /\ Earned
  <2> SUFFICES ASSUME Init PROVE TypedScores /\ Earned OBVIOUS
  <2>1. /\ WithGrace(Cleared, Grace) \in SatRecords /\ WithGrace(Cleared, Grace).score = 0
        /\ WithGrace(Cleared, Grace).ran = 0 /\ WithGrace(Cleared, Grace).since = Never
    BY ClearedRecord, GraceRecord, SaturationAssumption
  <2>2. Backed(sat, 0)
    BY <2>1, SaturationAssumption DEF Init, Backed, Least
  <2>3. /\ role = "auto" /\ power = 0 /\ sent = 0 /\ intent = 0 /\ known = FALSE /\ earned = 0
        /\ limit \in Nat /\ share \in Int /\ sat = WithGrace(Cleared, Grace)
    <3>1. limit \in Limits /\ share \in Shares /\ sat = WithGrace(Cleared, Grace)
      BY DEF Init
    <3>2. role = "auto" /\ power = 0 /\ sent = 0 /\ intent = 0 /\ known = FALSE /\ earned = 0
      BY DEF Init
    <3> QED BY <3>1, <3>2, SaturationAssumption
  <2>4. 0 \in 0 .. Full /\ 0 \in Int /\ "auto" \in Roles BY SaturationAssumption DEF Roles
  <2>5. TypedScores BY <2>1, <2>3, <2>4, Zenon DEF TypedScores
  <2> QED BY <2>2, <2>3, <2>5 DEF Earned
<1>2. ASSUME TypedScores, Earned, UNCHANGED vars PROVE TypedScores' /\ Earned'
  BY <1>2 DEF vars, TypedScores, Earned
<1>3. ASSUME TypedScores, Earned, [Next]_vars PROVE TypedScores' /\ Earned'
  BY <1>2, <1>3, PollStep, OtherSteps DEF Next
<1> QED BY <1>1, <1>3, PTL DEF Spec

\* The score, the grace windows and their clocks stay in their ranges.
THEOREM TypeCorrect == Spec => []TypeOK
<1>1. TypedScores => TypeOK BY DEF TypedScores, TypeOK, SatRecords
<1> QED BY <1>1, Invariant, PTL

\* A battery is never scored for more than it earned in its present role.
THEOREM ScoresAreEarned == Spec => []ScoreIsEarned
<1>1. Earned => ScoreIsEarned BY DEF Earned, Backed, ScoreIsEarned
<1> QED BY <1>1, Invariant, PTL

-----------------------------------------------------------------------------
(* The ceilings the balancer learns of the same battery.                     *)

\* Ceilings sees the battery, its share and its role as Saturation does.
Learned == INSTANCE Ceilings

CeilRecords ==
    [value : [Learned!Dirs -> Nat], seen : [Learned!Dirs -> 0 .. Ttl + 1], anchor : Int,
     polls : 0 .. StallPolls, span : 0 .. StallSeconds]

\* A number times the sign of another.
LEMMA TimesSign ==
    ASSUME NEW x \in Int, NEW y \in Int
    PROVE  /\ x > 0 => Learned!Sign(x) = 1 /\ y * Learned!Sign(x) = y
           /\ x < 0 => Learned!Sign(x) = -1 /\ y * Learned!Sign(x) = -y
           /\ x = 0 => Learned!Sign(x) = 0 /\ y * Learned!Sign(x) = 0
<1>1. y * 1 = y /\ y * (-1) = -y /\ y * 0 = 0
  OBVIOUS
<1> QED BY <1>1 DEF Learned!Sign

\* Time alone keeps the ceilings and the run.
LEMMA LearnedAged ==
    ASSUME Learned!CeilingsAssumption, NEW c \in CeilRecords, NEW dt \in Nat
    PROVE  /\ Learned!Aged(c, dt) \in CeilRecords
           /\ Learned!Aged(c, dt).value = c.value
           /\ Learned!Aged(c, dt).anchor = c.anchor
           /\ Learned!Aged(c, dt).polls = c.polls
           /\ \A d \in Learned!Dirs :
                 Learned!Aged(c, dt).seen[d] = 0 /\ c.value[d] > 0 => c.seen[d] = 0
<1> DEFINE seen == [d \in Learned!Dirs |-> IF c.value[d] = 0 THEN 0
                                           ELSE Least(Ttl + 1, c.seen[d] + dt)]
           span == IF c.polls = 0 THEN 0 ELSE Least(StallSeconds, c.span + dt)
<1>1. Ttl \in Nat /\ StallSeconds \in Nat /\ StallPolls \in Nat
  BY DEF Learned!CeilingsAssumption
<1>2. c.value \in [Learned!Dirs -> Nat] /\ c.seen \in [Learned!Dirs -> 0 .. Ttl + 1]
      /\ c.anchor \in Int /\ c.polls \in 0 .. StallPolls /\ c.span \in 0 .. StallSeconds
  BY DEF CeilRecords
<1>3. ASSUME NEW d \in Learned!Dirs
      PROVE  /\ seen[d] \in 0 .. Ttl + 1
             /\ seen[d] = 0 /\ c.value[d] > 0 => c.seen[d] = 0
  <2>1. c.value[d] \in Nat /\ c.seen[d] \in Nat
    BY <1>1, <1>2
  <2> QED BY <2>1, <1>1 DEF Least
<1>4. seen \in [Learned!Dirs -> 0 .. Ttl + 1]
  BY <1>3
<1>5. span \in 0 .. StallSeconds
  BY <1>1, <1>2 DEF Least
<1>6. Learned!Aged(c, dt) = [c EXCEPT !.seen = seen, !.span = span]
  BY DEF Learned!Aged, Learned!Least, Least
<1> HIDE DEF seen, span
<1> QED BY <1>2, <1>3, <1>4, <1>5, <1>6 DEF CeilRecords

\* Dropping the ceilings that no longer stand keeps the run.
LEMMA LearnedStanding ==
    ASSUME Learned!CeilingsAssumption, NEW c \in CeilRecords, NEW actual \in Int
    PROVE  /\ Learned!Standing(c, actual) \in CeilRecords
           /\ Learned!Standing(c, actual).anchor = c.anchor
           /\ Learned!Standing(c, actual).polls = c.polls
<1> DEFINE Kept(f) == [d \in Learned!Dirs |->
                          IF Learned!Disproved(c, d, actual) THEN 0 ELSE f[d]]
           value == Kept(c.value)
           seen == Kept(c.seen)
<1>1. c.value \in [Learned!Dirs -> Nat] /\ c.seen \in [Learned!Dirs -> 0 .. Ttl + 1]
      /\ c.anchor \in Int /\ c.polls \in 0 .. StallPolls /\ c.span \in 0 .. StallSeconds
  BY DEF CeilRecords
<1>2. 0 \in 0 .. Ttl + 1
  BY DEF Learned!CeilingsAssumption
<1>3. value \in [Learned!Dirs -> Nat] /\ seen \in [Learned!Dirs -> 0 .. Ttl + 1]
  BY <1>1, <1>2
<1>4. Learned!Standing(c, actual) = [c EXCEPT !.value = value, !.seen = seen]
  BY DEF Learned!Standing
<1> HIDE DEF value, seen
<1> QED BY <1>1, <1>3, <1>4 DEF CeilRecords

\* A run begins with the output it begins at.
LEMMA LearnedNewRun ==
    ASSUME Learned!CeilingsAssumption, NEW c \in CeilRecords, NEW pushed \in BOOLEAN,
           NEW actual \in Int
    PROVE  /\ Learned!NewRun(c, pushed, actual) \in CeilRecords
           /\ Learned!NewRun(c, pushed, actual).polls = IF pushed THEN 1 ELSE 0
           /\ pushed => Learned!NewRun(c, pushed, actual).anchor = actual
<1> DEFINE anchor == IF pushed THEN actual ELSE 0
           polls == IF pushed THEN 1 ELSE 0
<1>1. c.value \in [Learned!Dirs -> Nat] /\ c.seen \in [Learned!Dirs -> 0 .. Ttl + 1]
  BY DEF CeilRecords
<1>2. polls \in 0 .. StallPolls /\ anchor \in Int /\ 0 \in 0 .. StallSeconds
  BY DEF Learned!CeilingsAssumption
<1>3. Learned!NewRun(c, pushed, actual) =
        [c EXCEPT !.anchor = anchor, !.span = 0, !.polls = polls]
  BY DEF Learned!NewRun
<1> HIDE DEF anchor, polls
<1>4. Learned!NewRun(c, pushed, actual) \in CeilRecords
  BY <1>1, <1>2, <1>3 DEF CeilRecords
<1>5. /\ Learned!NewRun(c, pushed, actual).polls = polls
      /\ Learned!NewRun(c, pushed, actual).anchor = anchor
  BY <1>3 DEF CeilRecords
<1> QED BY <1>4, <1>5 DEF anchor, polls

\* A run grows by a poll, and keeps the output it began at.
LEMMA LearnedLongerRun ==
    ASSUME Learned!CeilingsAssumption, NEW c \in CeilRecords, NEW actual \in Int,
           actual # 0
    PROVE  /\ Learned!LongerRun(c, actual) \in CeilRecords
           /\ Learned!LongerRun(c, actual).polls = Learned!Least(StallPolls, c.polls + 1)
           /\ Learned!LongerRun(c, actual).anchor = c.anchor
<1> DEFINE d == Learned!Sign(actual)
           polls == Learned!Least(StallPolls, c.polls + 1)
           value == [c.value EXCEPT ![d] = Learned!Abs(actual)]
           seen == [c.seen EXCEPT ![d] = 0]
<1>1. c.value \in [Learned!Dirs -> Nat] /\ c.seen \in [Learned!Dirs -> 0 .. Ttl + 1]
      /\ c.anchor \in Int /\ c.polls \in 0 .. StallPolls /\ c.span \in 0 .. StallSeconds
  BY DEF CeilRecords
<1>2. StallPolls \in Nat /\ 0 \in 0 .. Ttl + 1
  BY DEF Learned!CeilingsAssumption
<1>3. polls \in 0 .. StallPolls
  BY <1>1, <1>2 DEF Learned!Least
<1>4. Learned!Abs(actual) \in Nat
  BY DEF Learned!Abs
<1>5. value \in [Learned!Dirs -> Nat] /\ seen \in [Learned!Dirs -> 0 .. Ttl + 1]
  BY <1>1, <1>2, <1>4
<1>6. \/ Learned!LongerRun(c, actual) =
           [c EXCEPT !.polls = polls, !.value = value, !.seen = seen]
      \/ Learned!LongerRun(c, actual) = [c EXCEPT !.polls = polls]
  BY DEF Learned!LongerRun
<1> HIDE DEF polls, value, seen
<1>7. CASE Learned!LongerRun(c, actual) =
              [c EXCEPT !.polls = polls, !.value = value, !.seen = seen]
  <2>1. Learned!LongerRun(c, actual) \in CeilRecords
    BY <1>1, <1>3, <1>5, <1>7 DEF CeilRecords
  <2>2. /\ Learned!LongerRun(c, actual).polls = polls
        /\ Learned!LongerRun(c, actual).anchor = c.anchor
    BY <1>7 DEF CeilRecords
  <2> QED BY <2>1, <2>2 DEF polls
<1>8. CASE Learned!LongerRun(c, actual) = [c EXCEPT !.polls = polls]
  <2>1. Learned!LongerRun(c, actual) \in CeilRecords
    BY <1>1, <1>3, <1>8 DEF CeilRecords
  <2>2. /\ Learned!LongerRun(c, actual).polls = polls
        /\ Learned!LongerRun(c, actual).anchor = c.anchor
    BY <1>8 DEF CeilRecords
  <2> QED BY <2>1, <2>2 DEF polls
<1> QED BY <1>6, <1>7, <1>8

\* What _track_ceiling makes of the run: none, a new one at this output, or a
\* longer one that this output is still flat with.
Ran(c, t, target, actual) ==
    \/ t.polls = 0
    \/ t.polls = 1 /\ t.anchor = actual /\ Learned!Abs(actual) >= MinPower
    \/ /\ c.polls > 0 /\ t.polls = Learned!Least(StallPolls, c.polls + 1)
       /\ t.anchor = c.anchor /\ Learned!Abs(actual - c.anchor) <= Flat
       /\ Learned!Pushed(target, actual)

\* _track_ceiling keeps the record and does one of these.
LEMMA LearnedTracked ==
    ASSUME Learned!CeilingsAssumption, NEW c \in CeilRecords, NEW target \in Int,
           NEW actual \in Int
    PROVE  /\ Learned!TrackCeiling(c, target, actual) \in CeilRecords
           /\ Ran(c, Learned!TrackCeiling(c, target, actual), target, actual)
<1> DEFINE s == Learned!Standing(c, actual)
           pushed == Learned!Pushed(target, actual)
           t == Learned!TrackCeiling(c, target, actual)
<1>1. s \in CeilRecords /\ s.anchor = c.anchor /\ s.polls = c.polls
  BY LearnedStanding
<1>2. c.polls \in Nat
  BY DEF CeilRecords, Learned!CeilingsAssumption
<1>3. pushed \in BOOLEAN
  BY DEF Learned!Pushed
<1>4. t = IF ~pushed \/ c.polls = 0 \/ Learned!Abs(actual - c.anchor) > Flat
          THEN Learned!NewRun(s, pushed, actual) ELSE Learned!LongerRun(s, actual)
  BY DEF Learned!TrackCeiling
<1>5. Learned!Abs(actual - c.anchor) \in Int /\ Flat \in Int /\ MinPower \in Nat \ {0}
  BY DEF CeilRecords, Learned!Abs, Learned!CeilingsAssumption
<1>6. pushed => Learned!Abs(actual) >= MinPower
  BY DEF Learned!Pushed
<1>7. Learned!Abs(actual) >= MinPower => actual # 0
  BY <1>5 DEF Learned!Abs
<1> HIDE DEF s, t, pushed
<1>8. CASE ~pushed \/ c.polls = 0 \/ Learned!Abs(actual - c.anchor) > Flat
  <2>1. t = Learned!NewRun(s, pushed, actual)
    BY <1>4, <1>8
  <2>2. t \in CeilRecords /\ t.polls = (IF pushed THEN 1 ELSE 0)
        /\ (pushed => t.anchor = actual)
    BY <2>1, <1>1, <1>3, LearnedNewRun
  <2> QED BY <2>2, <1>6 DEF Ran, t
<1>9. CASE ~ (~pushed \/ c.polls = 0 \/ Learned!Abs(actual - c.anchor) > Flat)
  <2>1. t = Learned!LongerRun(s, actual) /\ pushed
    BY <1>4, <1>9
  <2>2. t \in CeilRecords /\ t.polls = Learned!Least(StallPolls, s.polls + 1)
        /\ t.anchor = s.anchor
    BY <2>1, <1>1, <1>6, <1>7, LearnedLongerRun
  <2>3. c.polls > 0 /\ Learned!Abs(actual - c.anchor) <= Flat
    BY <1>2, <1>5, <1>9
  <2> QED BY <2>1, <2>2, <2>3, <1>1 DEF Ran, t, pushed
<1> QED BY <1>8, <1>9

\* Two pushes that a battery follows one after the other carry it out of a flat
\* band, wherever in the band the first one found it.
LEMMA PushesAddUp ==
    ASSUME Learned!CeilingsAssumption, NEW a \in Int, NEW q \in Int, NEW p \in Int,
           NEW x \in Int, Learned!Abs(a) >= MinPower,
           Learned!Abs(q - a) <= Flat, Learned!Abs(p - a) <= Flat,
           Learned!Abs(x - a) <= Flat,
           Learned!Pushed(p - q, p), Learned!Pushed(x - p, x)
    PROVE  FALSE
<1>1. /\ Flat \in Nat /\ Push \in Nat /\ Push > Flat /\ MinPower \in Nat \ {0}
      /\ Flat < 2 * MinPower
  BY DEF Learned!CeilingsAssumption
<1>2. /\ p > 0 => p - q >= Push
      /\ p < 0 => q - p >= Push
      /\ x > 0 => x - p >= Push
      /\ x < 0 => p - x >= Push
  <2>1. p - q \in Int /\ x - p \in Int
    OBVIOUS
  <2>2. (p - q) * Learned!Sign(p) >= Push /\ (x - p) * Learned!Sign(x) >= Push
    BY DEF Learned!Pushed
  <2>3. /\ p > 0 => (p - q) * Learned!Sign(p) = p - q
        /\ p < 0 => (p - q) * Learned!Sign(p) = -(p - q)
        /\ x > 0 => (x - p) * Learned!Sign(x) = x - p
        /\ x < 0 => (x - p) * Learned!Sign(x) = -(x - p)
    BY <2>1, TimesSign
  <2> QED BY <2>2, <2>3
<1>3. Learned!Abs(p) >= MinPower /\ Learned!Abs(x) >= MinPower
  BY DEF Learned!Pushed
<1> QED BY <1>1, <1>2, <1>3 DEF Learned!Abs

\* And one push does, from the output the run began at.
LEMMA OnePushCarries ==
    ASSUME Learned!CeilingsAssumption, NEW p \in Int, NEW x \in Int,
           Learned!Abs(x - p) <= Flat, Learned!Pushed(x - p, x)
    PROVE  FALSE
<1>1. Flat \in Nat /\ Push \in Nat /\ Push > Flat /\ MinPower \in Nat \ {0}
  BY DEF Learned!CeilingsAssumption
<1>2. /\ x > 0 => x - p >= Push
      /\ x < 0 => p - x >= Push
  <2>1. x - p \in Int
    OBVIOUS
  <2>2. (x - p) * Learned!Sign(x) >= Push
    BY DEF Learned!Pushed
  <2>3. /\ x > 0 => (x - p) * Learned!Sign(x) = x - p
        /\ x < 0 => (x - p) * Learned!Sign(x) = -(x - p)
    BY <2>1, TimesSign
  <2> QED BY <2>2, <2>3
<1>3. Learned!Abs(x) >= MinPower
  BY DEF Learned!Pushed
<1> QED BY <1>1, <1>2, <1>3 DEF Learned!Abs

\* A push is a command, towards more output.
LEMMA PushedIsCommanded ==
    ASSUME Learned!CeilingsAssumption, NEW x \in Int
    PROVE  ~ Learned!Pushed(0, x)
<1>1. 0 * Learned!Sign(x) = 0
  BY TimesSign DEF Learned!Sign
<1>2. Push \in Nat /\ Push > 0
  BY DEF Learned!CeilingsAssumption
<1> QED BY <1>1, <1>2 DEF Learned!Pushed

\* A battery within its limit does what it is commanded to.
LEMMA AnswerFollows ==
    ASSUME power \in Int, sent \in Int, limit \in Nat
    PROVE  /\ Learned!Answer \in Int
           /\ Learned!Abs(power + sent) <= limit => Learned!Answer = power + sent
BY DEF Learned!Answer, Learned!Within, Learned!Most, Learned!Least, Learned!Abs

\* In a run of flat polls that no rest or handoff interrupted, the output stayed
\* within the band of the run's first; and when the battery could follow its last
\* command, that command pushed it here from inside the band.
FlatRun ==
    (ceil.polls > 0 /\ ~bridged /\ StallPolls > 1) =>
        /\ Learned!Abs(ceil.anchor) >= MinPower
        /\ Learned!Abs(power - ceil.anchor) <= Flat
        /\ ceil.polls = 1 => power = ceil.anchor
        /\ (ceil.polls > 1 /\ able) =>
              \E q \in Int : /\ Learned!Abs(q - ceil.anchor) <= Flat
                             /\ Learned!Pushed(power - q, power)

\* What HealthyNotCapped says of one step.
Healthy ==
    \A d \in Learned!Dirs :
        ceil'.value[d] > 0 /\ ceil'.seen[d] = 0 /\ ceil'.polls > 1
        /\ (ceil.value[d] # ceil'.value[d] \/ ceil.seen[d] > 0)
           => ~able' \/ ~able \/ bridged

\* A poll that is judged.
LEMMA JudgedPoll ==
    ASSUME Learned!CeilingsAssumption, Learned!TypeOK, FlatRun, role = "judged",
           NEW dt \in Nat, NEW slice, NEW path, Learned!Poll(dt, slice, path)
    PROVE  ceil' \in CeilRecords /\ FlatRun' /\ Healthy
<1> DEFINE x == Learned!Answer
           c == Learned!Aged(ceil, dt)
           target == IF known THEN sent ELSE 0
<1>1. /\ power' = x
      /\ ceil' = Learned!TrackCeiling(c, target, x)
      /\ able' = (Learned!Abs(power + sent) <= limit)
      /\ bridged' = (ceil'.polls > 0 /\ bridged /\ ceil'.polls > 1)
  BY DEF Learned!Poll, Learned!Tracked
<1>2. /\ power \in Int /\ sent \in Int /\ limit \in Nat /\ ceil \in CeilRecords
      /\ bridged \in BOOLEAN /\ able \in BOOLEAN
  BY DEF Learned!TypeOK, CeilRecords
<1>3. x \in Int /\ (able' => x = power + sent)
  BY <1>1, <1>2, AnswerFollows
<1>4. c \in CeilRecords /\ c.anchor = ceil.anchor /\ c.polls = ceil.polls
  BY <1>2, LearnedAged
<1>5. target \in Int
  BY <1>2
<1> HIDE DEF x, c, target
<1>6. ceil' \in CeilRecords /\ Ran(c, ceil', target, x)
  BY <1>1, <1>3, <1>4, <1>5, LearnedTracked
<1>7. /\ Flat \in Nat /\ StallPolls \in Nat \ {0} /\ ceil.polls \in 0 .. StallPolls
      /\ ceil'.polls \in 0 .. StallPolls
  BY <1>2, <1>6 DEF Learned!CeilingsAssumption, CeilRecords
<1>8. CASE ceil'.polls = 0
  BY <1>6, <1>8 DEF FlatRun, Healthy
<1>9. CASE ceil'.polls = 1 /\ ceil'.anchor = x /\ Learned!Abs(x) >= MinPower
  <2>1. Learned!Abs(x - x) <= Flat
    BY <1>3, <1>7 DEF Learned!Abs
  <2> QED BY <2>1, <1>1, <1>6, <1>9 DEF FlatRun, Healthy
<1>10. CASE /\ ceil.polls > 0 /\ ceil'.polls = Learned!Least(StallPolls, ceil.polls + 1)
            /\ ceil'.anchor = ceil.anchor /\ Learned!Abs(x - ceil.anchor) <= Flat
            /\ Learned!Pushed(target, x)
  <2>1. ceil'.polls > 1 <=> StallPolls > 1
    BY <1>7, <1>10 DEF Learned!Least
  <2>2. target = sent
    BY <1>3, <1>10, PushedIsCommanded DEF target
  <2>3. able' => Learned!Pushed(x - power, x)
    <3>1. able' => x - power = sent
      BY <1>2, <1>3
    <3> QED BY <3>1, <2>2, <1>10
  <2>4. CASE StallPolls > 1 /\ ~bridged
    <3>1. /\ Learned!Abs(ceil.anchor) >= MinPower
          /\ Learned!Abs(power - ceil.anchor) <= Flat
          /\ ceil.polls = 1 => power = ceil.anchor
      BY <2>4, <1>10 DEF FlatRun
    <3>2. FlatRun'
      BY <3>1, <2>1, <2>3, <2>4, <1>1, <1>2, <1>10 DEF FlatRun
    <3>3. ~ (able /\ able')
      <4> SUFFICES ASSUME able, able' PROVE FALSE
        OBVIOUS
      <4>1. ceil.anchor \in Int
        BY <1>2 DEF CeilRecords
      <4>2. CASE ceil.polls = 1
        BY <4>2, <3>1, <2>3, <1>2, <1>3, <1>10, OnePushCarries
      <4>3. CASE ceil.polls > 1
        <5>1. PICK q \in Int : /\ Learned!Abs(q - ceil.anchor) <= Flat
                               /\ Learned!Pushed(power - q, power)
          BY <4>3, <2>4, <1>10 DEF FlatRun
        <5> QED BY <5>1, <4>1, <3>1, <2>3, <1>2, <1>3, <1>10, PushesAddUp
      <4> QED BY <4>2, <4>3, <1>7, <1>10
    <3> QED BY <3>2, <3>3, <1>6 DEF Healthy
  <2>5. CASE ~ (StallPolls > 1)
    BY <2>1, <2>5, <1>6 DEF FlatRun, Healthy
  <2>6. CASE StallPolls > 1 /\ bridged
    BY <2>1, <2>6, <1>1, <1>6, <1>10 DEF FlatRun, Healthy
  <2> QED BY <2>4, <2>5, <2>6, <1>2
<1> QED BY <1>4, <1>6, <1>8, <1>9, <1>10 DEF Ran

\* An output is the same whichever of the two directions it is measured along.
LEMMA AlongDir ==
    ASSUME NEW d \in Learned!Dirs, NEW a \in Int, NEW b \in Int
    PROVE  /\ a * d \in Int /\ b * d \in Int /\ (a * d) * d = a
           /\ (a + b) * d = a * d + b * d /\ (a - b) * d = a * d - b * d
           /\ -Learned!Abs(a) <= a * d /\ a * d <= Learned!Abs(a)
           /\ d = Learned!Sign(a) <=> a * d > 0
           /\ a * d > 0 => a * d = Learned!Abs(a)
<1>1. a * 1 = a /\ b * 1 = b /\ a * (-1) = -a /\ b * (-1) = -b
      /\ (-a) * (-1) = a
      /\ (a + b) * 1 = a + b /\ (a + b) * (-1) = -(a + b)
      /\ (a - b) * 1 = a - b /\ (a - b) * (-1) = -(a - b)
  OBVIOUS
<1>2. CASE d = 1
  BY <1>1, <1>2 DEF Learned!Abs, Learned!Sign
<1>3. CASE d = -1
  BY <1>1, <1>3 DEF Learned!Abs, Learned!Sign
<1> QED BY <1>2, <1>3 DEF Learned!Dirs

\* Bounding a power bounds it along either direction.
LEMMA WithinAlong ==
    ASSUME NEW d \in Learned!Dirs, NEW n \in Int, NEW b \in Nat
    PROVE  /\ Learned!Within(n, b) \in Int
           /\ Learned!Within(n, b) * d = Learned!Within(n * d, b)
<1>1. /\ Learned!Within(n, b) \in Int
      /\ Learned!Within(-n, b) = -Learned!Within(n, b)
  BY DEF Learned!Within, Learned!Most, Learned!Least
<1>2. Learned!Within(n, b) * 1 = Learned!Within(n, b)
      /\ Learned!Within(n, b) * (-1) = -Learned!Within(n, b)
  BY <1>1
<1>3. n * 1 = n /\ n * (-1) = -n
  OBVIOUS
<1> QED BY <1>1, <1>2, <1>3 DEF Learned!Dirs

RetestStep == Learned!Least(Push, PaceCap)

\* The damping keeps a residual's sign and adds nothing to it; the push of a
\* retest sets the sign, lowers the score unless it reverses, and goes out as a
\* push once the score no longer matters.
LEMMA DampedResidual ==
    ASSUME Learned!CeilingsAssumption, Learned!TypeOK, NEW r \in Int, Learned!Damp(r)
    PROVE  /\ osc' \in 0 .. OscFull /\ swing' \in {-1, 0, 1} /\ sent' \in Int
           /\ \A d \in Learned!Dirs, b \in Nat : r * d >= -b => sent' * d >= -b
           /\ \A d \in Learned!Dirs : r * d >= RetestPush =>
                 /\ swing' = d /\ sent' * d >= 0
                 /\ swing = d => osc' = Learned!Most(0, osc - 1)
                 /\ osc' = 0 => sent' * d >= RetestStep
<1>1. /\ Push \in Nat /\ Push > 0 /\ RetestPush \in Nat /\ RetestPush >= Push
      /\ PaceCap \in Nat \ {0} /\ OscFull \in Nat
  BY DEF Learned!CeilingsAssumption
<1>2. osc \in 0 .. OscFull /\ swing \in {-1, 0, 1}
  BY DEF Learned!TypeOK
<1>3. /\ osc' \in Learned!Scores(r)
      /\ swing' = IF r = 0 THEN swing ELSE Learned!Sign(r)
  BY DEF Learned!Damp
<1>4. PICK w \in 0 .. Learned!Abs(r) :
         /\ Learned!Steps(r) => w = Learned!Abs(r)
         /\ osc' = 0 /\ Learned!Abs(r) >= RetestPush => w >= Push
         /\ sent' = Learned!Within(Learned!Sign(r) * w, PaceCap)
  BY DEF Learned!Damp, Learned!Damped
<1>5. osc' \in 0 .. OscFull
  <2>1. osc' \in osc .. OscFull \/ osc' = Learned!Most(0, osc - 1)
    BY <1>3 DEF Learned!Scores
  <2>2. Learned!Most(0, osc - 1) \in 0 .. OscFull
    BY <1>1, <1>2 DEF Learned!Most
  <2> QED BY <2>1, <2>2, <1>1, <1>2
<1>6. swing' \in {-1, 0, 1}
  BY <1>2, <1>3 DEF Learned!Sign
<1>7. Learned!Abs(r) \in Nat /\ w \in Nat /\ w <= Learned!Abs(r)
  <2>1. Learned!Abs(r) \in Nat
    BY DEF Learned!Abs
  <2> QED BY <2>1, <1>4
<1> DEFINE damped == Learned!Sign(r) * w
<1>8. damped \in Int
  <2>1. Learned!Sign(r) \in Int
    BY DEF Learned!Sign
  <2> QED BY <2>1, <1>7
<1>9. ASSUME NEW d \in Learned!Dirs
      PROVE  /\ r * d > 0 => damped * d = w /\ r * d = Learned!Abs(r) /\ d = Learned!Sign(r)
             /\ r * d <= 0 => damped * d = -w \/ damped * d = 0
             /\ r * d <= 0 => r * d = -Learned!Abs(r)
             /\ r * d \in Int /\ damped * d \in Int
  <2>1. /\ 1 * w = w /\ (-1) * w = -w /\ 0 * w = 0 /\ (-w) * 1 = -w /\ (-w) * (-1) = w
        /\ w * 1 = w /\ w * (-1) = -w /\ 0 * 1 = 0 /\ 0 * (-1) = 0
        /\ r * 1 = r /\ r * (-1) = -r
    BY <1>7
  <2>2. \/ r > 0 /\ damped = w /\ Learned!Sign(r) = 1 /\ Learned!Abs(r) = r
        \/ r < 0 /\ damped = -w /\ Learned!Sign(r) = -1 /\ Learned!Abs(r) = -r
        \/ r = 0 /\ damped = 0 /\ Learned!Sign(r) = 0 /\ Learned!Abs(r) = r
    BY <2>1 DEF Learned!Sign, Learned!Abs
  <2> HIDE DEF damped
  <2>3. CASE d = 1
    BY <2>1, <2>2, <2>3, <1>7
  <2>4. CASE d = -1
    BY <2>1, <2>2, <2>4, <1>7
  <2> QED BY <2>3, <2>4 DEF Learned!Dirs
<1> HIDE DEF damped
<1>10. sent' = Learned!Within(damped, PaceCap)
  BY <1>4 DEF damped
<1>11. ASSUME NEW d \in Learned!Dirs
       PROVE  sent' \in Int /\ sent' * d = Learned!Within(damped * d, PaceCap)
  BY <1>1, <1>8, <1>10, WithinAlong
<1>12. sent' \in Int
  BY <1>11 DEF Learned!Dirs
<1>13. ASSUME NEW d \in Learned!Dirs, NEW b \in Nat, r * d >= -b
       PROVE  sent' * d >= -b
  <2>1. damped * d >= -b
    BY <1>7, <1>9, <1>13
  <2> QED BY <2>1, <1>1, <1>9, <1>11, <1>13
          DEF Learned!Within, Learned!Most, Learned!Least
<1>14. ASSUME NEW d \in Learned!Dirs, r * d >= RetestPush
       PROVE  /\ swing' = d /\ sent' * d >= 0
              /\ swing = d => osc' = Learned!Most(0, osc - 1)
              /\ osc' = 0 => sent' * d >= RetestStep
  <2>1. r * d > 0 /\ r * d \in Int /\ r # 0
    <3>1. r * d > 0 /\ r * d \in Int
      BY <1>1, <1>9, <1>14
    <3>2. 0 * d = 0
      BY DEF Learned!Dirs
    <3> QED BY <3>1, <3>2
  <2>2. damped * d = w /\ d = Learned!Sign(r) /\ r * d = Learned!Abs(r)
    BY <2>1, <1>9
  <2>3. swing' = d
    BY <2>1, <2>2, <1>3
  <2>4. sent' * d = Learned!Within(w, PaceCap)
    BY <2>2, <1>11
  <2>5. sent' * d >= 0
    BY <2>4, <1>1, <1>7 DEF Learned!Within, Learned!Most, Learned!Least
  <2>6. ASSUME swing = d PROVE osc' = Learned!Most(0, osc - 1)
    <3>1. ~ (r * swing < 0)
      BY <2>1, <2>6
    <3> QED BY <3>1, <1>3 DEF Learned!Scores
  <2>7. ASSUME osc' = 0 PROVE sent' * d >= RetestStep
    <3>1. w >= Push
      BY <2>2, <2>7, <1>4, <1>14
    <3> QED BY <3>1, <2>4, <1>1, <1>7
            DEF RetestStep, Learned!Within, Learned!Most, Learned!Least
  <2> QED BY <2>3, <2>5, <2>6, <2>7
<1> QED BY <1>5, <1>6, <1>12, <1>13, <1>14

\* The types hold along every poll.
LEMMA LearnedPollType ==
    ASSUME Learned!CeilingsAssumption, Learned!TypeOK, NEW dt \in Nat,
           NEW slice \in Int, NEW path, Learned!Poll(dt, slice, path), ceil' \in CeilRecords
    PROVE  Learned!TypeOK'
<1> DEFINE x == Learned!Answer
<1>1. /\ power' = x /\ known' = (role # "away")
      /\ Learned!Commanded(ceil', x, slice, path)
      /\ able' = (Learned!Abs(power + sent) <= limit)
      /\ bridged' = (ceil'.polls > 0 /\ (role # "judged" \/ (bridged /\ ceil'.polls > 1)))
      /\ wronged' = IF Learned!HeldBack(ceil', dt, slice, path)
                    THEN Learned!Least(Ttl + 1, wronged + 1) ELSE 0
      /\ UNCHANGED <<role, limit, share>>
  BY DEF Learned!Poll
<1>2. /\ power \in Int /\ sent \in Int /\ limit \in Nat /\ share \in Int
      /\ role \in {"judged", "skipped", "away"} /\ wronged \in 0 .. Ttl + 1
  BY DEF Learned!TypeOK
<1>3. x \in Int
  BY <1>2, AnswerFollows
<1>4. /\ Ttl \in Nat /\ MaxStep \in Int /\ PaceCap \in Int /\ RetestPush \in Int
  BY DEF Learned!CeilingsAssumption
<1>5. \A a, b \in Int : Learned!Within(a, b) \in Int /\ Learned!Most(a, b) \in Int
                        /\ Learned!Least(a, b) \in Int /\ a * b \in Int
                        /\ Learned!Sign(a) \in Int /\ Learned!Abs(a) \in Int
  BY DEF Learned!Within, Learned!Most, Learned!Least, Learned!Sign, Learned!Abs
<1> HIDE DEF x
<1>6. Learned!Goal(ceil') \in Int
  <2> DEFINE d == Learned!Sign(share)
  <2>1. d \in Int /\ Learned!Abs(share) \in Int /\ (d # 0 => d \in Learned!Dirs)
    BY <1>2, <1>5 DEF Learned!Sign, Learned!Dirs
  <2>2. d # 0 => ceil'.value[d] \in Int
    BY <2>1 DEF CeilRecords
  <2>3. Learned!Goal(ceil') = share
        \/ (d # 0 /\ Learned!Goal(ceil') = d * Learned!Least(Learned!Abs(share), ceil'.value[d]))
    BY DEF Learned!Goal
  <2> HIDE DEF d
  <2> QED BY <2>1, <2>2, <2>3, <1>2, <1>5
<1>7. Learned!RetestDue(ceil', x, slice) \in Int
  <2>1. \/ Learned!RetestDue(ceil', x, slice) = Learned!Sign(share)
        \/ Learned!RetestDue(ceil', x, slice) = 0
    BY DEF Learned!RetestDue
  <2>2. Learned!Sign(share) \in Int
    BY <1>2 DEF Learned!Sign
  <2> QED BY <2>1, <2>2
<1>8. Learned!Wanted(ceil', x, slice) \in Int
  <2> DEFINE out == slice + Learned!Within(Learned!Goal(ceil') - x, MaxStep)
             push == Learned!RetestDue(ceil', x, slice)
  <2>1. Learned!Goal(ceil') - x \in Int
    BY <1>3, <1>6
  <2>2. out \in Int
    <3>1. Learned!Within(Learned!Goal(ceil') - x, MaxStep) \in Int
      BY <2>1, <1>4, <1>5
    <3> QED BY <3>1
  <2>3. \/ Learned!Wanted(ceil', x, slice) = out
        \/ Learned!Wanted(ceil', x, slice) = push * Learned!Most(out * push, RetestPush)
    BY DEF Learned!Wanted
  <2>4. push \in Int
    BY <1>7
  <2> HIDE DEF out, push
  <2>5. out * push \in Int
    BY <2>2, <2>4, <1>5
  <2>6. Learned!Most(out * push, RetestPush) \in Int
    BY <2>5, <1>4, <1>5
  <2>7. push * Learned!Most(out * push, RetestPush) \in Int
    BY <2>4, <2>6, <1>5
  <2> QED BY <2>2, <2>3, <2>7
<1>9. sent' \in Int /\ osc' \in 0 .. OscFull /\ swing' \in {-1, 0, 1}
  <2>1. \/ Learned!Damp(Learned!Wanted(ceil', x, slice))
        \/ Learned!Damp(slice)
        \/ /\ \/ sent' = Learned!Within(slice, PaceCap)
              \/ sent' = slice
              \/ sent' = share - x
           /\ UNCHANGED <<osc, swing>>
    BY <1>1 DEF Learned!Commanded
  <2>2. CASE Learned!Damp(Learned!Wanted(ceil', x, slice))
    BY <2>2, <1>8, DampedResidual
  <2>3. CASE Learned!Damp(slice)
    BY <2>3, DampedResidual
  <2>4. CASE /\ \/ sent' = Learned!Within(slice, PaceCap)
                \/ sent' = slice
                \/ sent' = share - x
             /\ UNCHANGED <<osc, swing>>
    <3>1. Learned!Within(slice, PaceCap) \in Int /\ share - x \in Int
      BY <1>2, <1>3, <1>4, <1>5
    <3>2. osc \in 0 .. OscFull /\ swing \in {-1, 0, 1}
      BY DEF Learned!TypeOK
    <3> QED BY <3>1, <3>2, <2>4
  <2> QED BY <2>1, <2>2, <2>3, <2>4
<1>10. wronged' \in 0 .. Ttl + 1
  BY <1>1, <1>2, <1>4 DEF Learned!Least
<1>11. known' \in BOOLEAN /\ able' \in BOOLEAN /\ bridged' \in BOOLEAN
  BY <1>1
<1> QED BY <1>1, <1>2, <1>3, <1>9, <1>10, <1>11 DEF Learned!TypeOK, CeilRecords

\* Every step keeps the types and the run, and caps no battery that follows.
LEMMA LearnedStep ==
    ASSUME Learned!CeilingsAssumption, Learned!TypeOK, FlatRun,
           [Learned!Next]_Learned!vars
    PROVE  Learned!TypeOK' /\ FlatRun' /\ (Learned!vars' = Learned!vars \/ Healthy)
<1>1. ASSUME NEW dt \in Gaps, NEW slice \in Slices, NEW path, Learned!Poll(dt, slice, path)
      PROVE  Learned!TypeOK' /\ FlatRun' /\ Healthy
  <2>1. dt \in Nat /\ slice \in Int
    BY DEF Learned!CeilingsAssumption
  <2>2. ceil' \in CeilRecords /\ FlatRun' /\ Healthy
    <3>1. CASE role = "judged"
      BY <3>1, <2>1, <1>1, JudgedPoll
    <3>2. CASE role # "judged"
      <4>1. ceil' = Learned!Aged(ceil, dt)
            /\ bridged' = (ceil'.polls > 0 /\ (role # "judged" \/ (bridged /\ ceil'.polls > 1)))
        BY <3>2, <1>1 DEF Learned!Poll, Learned!Tracked
      <4>2. ceil \in CeilRecords
        BY DEF Learned!TypeOK, CeilRecords
      <4>3. /\ ceil' \in CeilRecords /\ ceil'.value = ceil.value
            /\ \A d \in Learned!Dirs :
                  ceil'.seen[d] = 0 /\ ceil.value[d] > 0 => ceil.seen[d] = 0
        BY <4>1, <4>2, <2>1, LearnedAged
      <4>4. FlatRun'
        BY <3>2, <4>1 DEF FlatRun
      <4>5. Healthy
        <5> SUFFICES ASSUME NEW d \in Learned!Dirs, ceil'.value[d] > 0,
                            ceil'.seen[d] = 0,
                            ceil.value[d] # ceil'.value[d] \/ ceil.seen[d] > 0
                     PROVE  FALSE
          BY DEF Healthy
        <5> QED BY <4>3
      <4> QED BY <4>3, <4>4, <4>5
    <3> QED BY <3>1, <3>2
  <2> QED BY <2>1, <2>2, <1>1, LearnedPollType
<1>2. ASSUME UNCHANGED <<ceil, power, able, bridged>> PROVE FlatRun' /\ Healthy
  <2>1. FlatRun'
    BY <1>2 DEF FlatRun
  <2>2. Healthy
    <3> SUFFICES ASSUME NEW d \in Learned!Dirs, ceil'.seen[d] = 0,
                        ceil.value[d] # ceil'.value[d] \/ ceil.seen[d] > 0
                 PROVE  FALSE
      BY DEF Healthy
    <3>1. ceil'.seen[d] = ceil.seen[d] /\ ceil'.value[d] = ceil.value[d]
      BY <1>2
    <3> QED BY <3>1
  <2> QED BY <2>1, <2>2
<1>3. CASE Learned!RoleChanges \/ Learned!Return
  <2>1. Learned!TypeOK'
    BY <1>3 DEF Learned!RoleChanges, Learned!Return, Learned!TypeOK
  <2>2. UNCHANGED <<ceil, power, able, bridged>>
    BY <1>3 DEF Learned!RoleChanges, Learned!Return
  <2> QED BY <2>1, <2>2, <1>2
<1>4. CASE Learned!Leave
  <2>1. Learned!NoCeilings \in CeilRecords /\ Learned!NoCeilings.polls = 0
    BY DEF Learned!CeilingsAssumption, Learned!NoCeilings, CeilRecords
  <2>2. Learned!TypeOK'
    <3>1. /\ ceil' \in CeilRecords /\ wronged' = 0 /\ osc' = 0 /\ swing' = 0
          /\ Ttl \in Nat /\ OscFull \in Nat
      BY <1>4, <2>1 DEF Learned!Leave, Learned!CeilingsAssumption
    <3>2. wronged' \in 0 .. Ttl + 1 /\ osc' \in 0 .. OscFull /\ swing' \in {-1, 0, 1}
      BY <3>1
    <3> QED BY <1>4, <3>1, <3>2 DEF Learned!Leave, Learned!TypeOK, CeilRecords
  <2> QED BY <1>4, <2>1, <2>2 DEF Learned!Leave, FlatRun, Healthy
<1>5. CASE Learned!LimitChanges \/ Learned!DemandChanges
  <2>1. Learned!TypeOK'
    BY <1>5 DEF Learned!LimitChanges, Learned!DemandChanges, Learned!TypeOK,
       Learned!CeilingsAssumption
  <2>2. UNCHANGED <<ceil, power, able, bridged>>
    BY <1>5 DEF Learned!LimitChanges, Learned!DemandChanges
  <2> QED BY <2>1, <2>2, <1>2
<1>6. CASE UNCHANGED Learned!vars
  <2>1. Learned!TypeOK'
    BY <1>6 DEF Learned!vars, Learned!TypeOK
  <2>2. UNCHANGED <<ceil, power, able, bridged>>
    BY <1>6 DEF Learned!vars
  <2> QED BY <2>1, <2>2, <1>2
<1> QED BY <1>1, <1>3, <1>4, <1>5, <1>6 DEF Learned!Next

\* The ceilings start with no run.
LEMMA LearnedInit ==
    ASSUME Learned!CeilingsAssumption, Learned!Init
    PROVE  Learned!TypeOK /\ FlatRun
<1>1. Learned!NoCeilings \in CeilRecords /\ Learned!NoCeilings.polls = 0
  BY DEF Learned!CeilingsAssumption, Learned!NoCeilings, CeilRecords
<1>2. Learned!TypeOK
  <2>1. /\ ceil \in CeilRecords /\ wronged = 0 /\ Ttl \in Nat
        /\ osc = 0 /\ swing = 0 /\ OscFull \in Nat
        /\ limit \in Nat /\ share \in Int
    BY <1>1 DEF Learned!Init, Learned!CeilingsAssumption
  <2>2. wronged \in 0 .. Ttl + 1 /\ osc \in 0 .. OscFull /\ swing \in {-1, 0, 1}
    BY <2>1
  <2>3. /\ role = "judged" /\ power = 0 /\ sent = 0
        /\ known = FALSE /\ able = TRUE /\ bridged = FALSE
    BY DEF Learned!Init
  <2>4. /\ known \in BOOLEAN /\ able \in BOOLEAN /\ bridged \in BOOLEAN
        /\ role \in {"judged", "skipped", "away"}
    BY <2>3
  <2>5. power \in Int /\ sent \in Int
    BY <2>3
  <2> QED BY <2>1, <2>2, <2>4, <2>5 DEF Learned!TypeOK, CeilRecords
<1> QED BY <1>1, <1>2 DEF Learned!Init, FlatRun

\* The record of ceilings keeps its shape, whatever the battery, the demand and
\* the user do.
THEOREM CeilingsTypeCorrect ==
    ASSUME Learned!CeilingsAssumption
    PROVE  Learned!Spec => []Learned!TypeOK
<1>1. Learned!Init => Learned!TypeOK /\ FlatRun
  BY LearnedInit
<1>2. (Learned!TypeOK /\ FlatRun) /\ [Learned!Next]_Learned!vars
        => (Learned!TypeOK /\ FlatRun)'
  BY LearnedStep
<1> QED BY <1>1, <1>2, PTL DEF Learned!Spec

\* No battery that follows its commands is capped, or has a cap confirmed: two
\* pushes it follows one after the other leave every flat band (_track_ceiling).
THEOREM FollowersAreNotCapped ==
    ASSUME Learned!CeilingsAssumption
    PROVE  Learned!Spec => HealthyNotCapped
<1>1. Learned!Init => Learned!TypeOK /\ FlatRun
  BY LearnedInit
<1>2. (Learned!TypeOK /\ FlatRun) /\ [Learned!Next]_Learned!vars
        => (Learned!TypeOK /\ FlatRun)'
  BY LearnedStep
<1>3. Learned!TypeOK /\ FlatRun /\ [Learned!Next]_Learned!vars
        => [Healthy]_<<ceil, able, bridged>>
  BY LearnedStep DEF Learned!vars
<1>4. [][Healthy]_<<ceil, able, bridged>> => HealthyNotCapped
  BY PTL DEF Healthy, HealthyNotCapped, Learned!Dirs, Dirs
<1> QED BY <1>1, <1>2, <1>3, <1>4, PTL DEF Learned!Spec

-----------------------------------------------------------------------------
(* A ceiling that is wrong falls.                                            *)

\* The margins around a ceiling are small beside the least output that can be
\* one (25, 30 and 25 W beside 100 W): nobody moves from one direction's ceiling
\* to the other's in a poll that does not clearly ask the pool for less.
MarginsApart == 2 * Push + Release < 2 * (MinPower - AtMargin)

\* The age of a ceiling grows by the time that passes.
LEMMA AgedCeiling ==
    ASSUME Learned!CeilingsAssumption, NEW c \in CeilRecords, NEW dt \in Nat,
           NEW d \in Learned!Dirs, c.value[d] > 0
    PROVE  Learned!Aged(c, dt).seen[d] = Learned!Least(Ttl + 1, c.seen[d] + dt)
<1> DEFINE seen == [e \in Learned!Dirs |->
                       IF c.value[e] = 0 THEN 0 ELSE Learned!Least(Ttl + 1, c.seen[e] + dt)]
           span == IF c.polls = 0 THEN 0 ELSE Learned!Least(StallSeconds, c.span + dt)
<1>1. Learned!Aged(c, dt) = [c EXCEPT !.seen = seen, !.span = span]
  BY DEF Learned!Aged
<1>2. c.value[d] # 0
  BY DEF CeilRecords
<1>3. seen[d] = Learned!Least(Ttl + 1, c.seen[d] + dt)
  BY <1>2
<1> HIDE DEF seen, span
<1> QED BY <1>1, <1>3 DEF CeilRecords

\* A ceiling that stands is the one there was, neither disproved nor expired.
LEMMA StandingCeiling ==
    ASSUME Learned!CeilingsAssumption, NEW c \in CeilRecords, NEW actual \in Int,
           NEW d \in Learned!Dirs, Learned!Standing(c, actual).value[d] > 0
    PROVE  /\ Learned!Standing(c, actual).value[d] = c.value[d]
           /\ Learned!Standing(c, actual).seen[d] = c.seen[d]
           /\ actual * d <= c.value[d] + Release /\ c.seen[d] <= Ttl
<1> DEFINE Kept(f) == [e \in Learned!Dirs |->
                          IF Learned!Disproved(c, e, actual) THEN 0 ELSE f[e]]
           value == Kept(c.value)
           seen == Kept(c.seen)
<1>1. Learned!Standing(c, actual) = [c EXCEPT !.value = value, !.seen = seen]
  BY DEF Learned!Standing
<1>2. value[d] = (IF Learned!Disproved(c, d, actual) THEN 0 ELSE c.value[d])
      /\ seen[d] = (IF Learned!Disproved(c, d, actual) THEN 0 ELSE c.seen[d])
  OBVIOUS
<1> HIDE DEF value, seen
<1>3. /\ Learned!Standing(c, actual).value = value
      /\ Learned!Standing(c, actual).seen = seen
  BY <1>1 DEF CeilRecords
<1>4. ~ Learned!Disproved(c, d, actual)
  BY <1>2, <1>3
<1>5. c.value[d] \in Int /\ c.seen[d] \in Int /\ Ttl \in Int /\ Release \in Int
  BY DEF CeilRecords, Learned!CeilingsAssumption
<1>6. actual * d \in Int
  BY AlongDir
<1>7. actual * d <= c.value[d] + Release /\ c.seen[d] <= Ttl
  BY <1>4, <1>5, <1>6 DEF Learned!Disproved
<1> QED BY <1>2, <1>3, <1>4, <1>7

\* A longer run leaves a ceiling as it is, or takes the output for it.
LEMMA LongerRunCeiling ==
    ASSUME Learned!CeilingsAssumption, NEW c \in CeilRecords, NEW actual \in Int,
           actual # 0, NEW d \in Learned!Dirs
    PROVE  \/ /\ Learned!LongerRun(c, actual).value[d] = c.value[d]
              /\ Learned!LongerRun(c, actual).seen[d] = c.seen[d]
           \/ /\ Learned!LongerRun(c, actual).value[d] = Learned!Abs(actual)
              /\ Learned!LongerRun(c, actual).seen[d] = 0
              /\ d = Learned!Sign(actual)
<1> DEFINE e == Learned!Sign(actual)
           polls == Learned!Least(StallPolls, c.polls + 1)
           value == [c.value EXCEPT ![e] = Learned!Abs(actual)]
           seen == [c.seen EXCEPT ![e] = 0]
<1>1. c.value \in [Learned!Dirs -> Nat] /\ c.seen \in [Learned!Dirs -> 0 .. Ttl + 1]
  BY DEF CeilRecords
<1>2. \/ Learned!LongerRun(c, actual) =
           [c EXCEPT !.polls = polls, !.value = value, !.seen = seen]
      \/ Learned!LongerRun(c, actual) = [c EXCEPT !.polls = polls]
  BY DEF Learned!LongerRun
<1>3. /\ d = e => value[d] = Learned!Abs(actual) /\ seen[d] = 0
      /\ d # e => value[d] = c.value[d] /\ seen[d] = c.seen[d]
  BY <1>1
<1> HIDE DEF value, seen, polls, e
<1>4. CASE Learned!LongerRun(c, actual) =
              [c EXCEPT !.polls = polls, !.value = value, !.seen = seen]
  <2>1. /\ Learned!LongerRun(c, actual).value = value
        /\ Learned!LongerRun(c, actual).seen = seen
    BY <1>4 DEF CeilRecords
  <2>2. CASE d = e
    BY <2>1, <2>2, <1>3 DEF e
  <2>3. CASE d # e
    BY <2>1, <2>3, <1>3
  <2> QED BY <2>2, <2>3
<1>5. CASE Learned!LongerRun(c, actual) = [c EXCEPT !.polls = polls]
  BY <1>5 DEF CeilRecords
<1> QED BY <1>2, <1>4, <1>5

\* _track_ceiling leaves a ceiling that stands, or takes the output for it in a
\* pushed poll that is flat with the run.
LEMMA TrackedCeiling ==
    ASSUME Learned!CeilingsAssumption, NEW c \in CeilRecords, NEW target \in Int,
           NEW actual \in Int, NEW d \in Learned!Dirs,
           Learned!TrackCeiling(c, target, actual).value[d] > 0
    PROVE  \/ /\ Learned!TrackCeiling(c, target, actual).value[d] = c.value[d]
              /\ Learned!TrackCeiling(c, target, actual).seen[d] = c.seen[d]
              /\ actual * d <= c.value[d] + Release /\ c.seen[d] <= Ttl
           \/ /\ Learned!TrackCeiling(c, target, actual).value[d] = Learned!Abs(actual)
              /\ Learned!TrackCeiling(c, target, actual).seen[d] = 0
              /\ d = Learned!Sign(actual) /\ Learned!Pushed(target, actual)
              /\ c.polls > 0 /\ Learned!Abs(actual - c.anchor) <= Flat
<1> DEFINE s == Learned!Standing(c, actual)
           pushed == Learned!Pushed(target, actual)
           t == Learned!TrackCeiling(c, target, actual)
<1>1. s \in CeilRecords
  BY LearnedStanding
<1>2. s.value[d] > 0 => /\ s.value[d] = c.value[d] /\ s.seen[d] = c.seen[d]
                        /\ actual * d <= c.value[d] + Release /\ c.seen[d] <= Ttl
  BY StandingCeiling
<1>3. t = IF ~pushed \/ c.polls = 0 \/ Learned!Abs(actual - c.anchor) > Flat
          THEN Learned!NewRun(s, pushed, actual) ELSE Learned!LongerRun(s, actual)
  BY DEF Learned!TrackCeiling
<1>4. /\ Learned!NewRun(s, pushed, actual).value = s.value
      /\ Learned!NewRun(s, pushed, actual).seen = s.seen
  BY <1>1 DEF Learned!NewRun, CeilRecords
<1>5. c.polls \in Nat /\ Learned!Abs(actual - c.anchor) \in Int /\ Flat \in Int
      /\ MinPower \in Nat \ {0}
  BY DEF CeilRecords, Learned!Abs, Learned!CeilingsAssumption
<1>6. pushed => Learned!Abs(actual) >= MinPower
  BY DEF Learned!Pushed
<1>7. pushed => actual # 0
  BY <1>5, <1>6 DEF Learned!Abs
<1> SUFFICES \/ /\ t.value[d] = c.value[d] /\ t.seen[d] = c.seen[d]
                /\ actual * d <= c.value[d] + Release /\ c.seen[d] <= Ttl
             \/ /\ t.value[d] = Learned!Abs(actual) /\ t.seen[d] = 0
                /\ d = Learned!Sign(actual) /\ pushed
                /\ c.polls > 0 /\ Learned!Abs(actual - c.anchor) <= Flat
  OBVIOUS
<1>8. t.value[d] > 0
  OBVIOUS
<1> HIDE DEF s, t, pushed
<1>9. CASE ~pushed \/ c.polls = 0 \/ Learned!Abs(actual - c.anchor) > Flat
  <2>1. t.value = s.value /\ t.seen = s.seen
    BY <1>3, <1>4, <1>9
  <2> QED BY <2>1, <1>2, <1>8
<1>10. CASE ~ (~pushed \/ c.polls = 0 \/ Learned!Abs(actual - c.anchor) > Flat)
  <2>1. t = Learned!LongerRun(s, actual) /\ pushed
    BY <1>3, <1>10
  <2>2. c.polls > 0 /\ Learned!Abs(actual - c.anchor) <= Flat
    BY <1>5, <1>10
  <2>3. \/ t.value[d] = s.value[d] /\ t.seen[d] = s.seen[d]
        \/ /\ t.value[d] = Learned!Abs(actual) /\ t.seen[d] = 0
           /\ d = Learned!Sign(actual)
    BY <2>1, <1>1, <1>7, LongerRunCeiling
  <2>4. CASE t.value[d] = s.value[d] /\ t.seen[d] = s.seen[d]
    BY <2>4, <1>2, <1>8
  <2>5. CASE /\ t.value[d] = Learned!Abs(actual) /\ t.seen[d] = 0
             /\ d = Learned!Sign(actual)
    BY <2>1, <2>2, <2>5
  <2> QED BY <2>3, <2>4, <2>5
<1> QED BY <1>9, <1>10

\* Every ceiling is at least the least output that can be one.
Floors(c) == \A d \in Learned!Dirs : c.value[d] = 0 \/ c.value[d] >= MinPower

\* _track_ceiling keeps every ceiling at least that.
LEMMA TrackedFloors ==
    ASSUME Learned!CeilingsAssumption, NEW c \in CeilRecords, NEW target \in Int,
           NEW actual \in Int, Floors(c)
    PROVE  Floors(Learned!TrackCeiling(c, target, actual))
<1> DEFINE t == Learned!TrackCeiling(c, target, actual)
<1> SUFFICES ASSUME NEW d \in Learned!Dirs, t.value[d] # 0
             PROVE  t.value[d] >= MinPower
  BY DEF Floors
<1>0. t.value[d] # 0
  OBVIOUS
<1>1. t.value[d] > 0
  <2>1. t \in CeilRecords
    BY LearnedTracked
  <2> HIDE DEF t
  <2>2. t.value[d] \in Nat
    BY <2>1 DEF CeilRecords
  <2> QED BY <2>2, <1>0
<1>2. \/ t.value[d] = c.value[d]
      \/ Learned!Pushed(target, actual) /\ t.value[d] = Learned!Abs(actual)
  BY <1>1, TrackedCeiling
<1> HIDE DEF t
<1> QED BY <1>1, <1>2 DEF Floors, Learned!Pushed

\* What the regulation wants of a battery that stands at a ceiling and could and
\* should deliver more: hardly less than the ceiling, and more than it when the
\* ceiling has gone unconfirmed for the retest interval.
LEMMA HeldWanted ==
    ASSUME Learned!CeilingsAssumption, NEW c \in CeilRecords, NEW x \in Int,
           NEW slice \in Int, share \in Int, NEW d \in Learned!Dirs,
           d = Learned!Sign(share), c.value[d] > 0,
           x * d <= c.value[d] + Release, slice * d >= -2 * Push,
           Learned!Abs(share) >= c.value[d] + Release + Push
    PROVE  /\ Learned!Wanted(c, x, slice) \in Int
           /\ Learned!Wanted(c, x, slice) * d >= -(2 * Push + Release)
           /\ x * d >= c.value[d] - AtMargin /\ c.seen[d] >= Retest =>
                 Learned!Wanted(c, x, slice) * d >= RetestPush
<1> DEFINE v == c.value[d]
           goal == Learned!Goal(c)
           tilt == Learned!Within(goal - x, MaxStep)
           out == slice + tilt
           push == Learned!RetestDue(c, x, slice)
           wanted == Learned!Wanted(c, x, slice)
<1>1. /\ Push \in Nat /\ Push > 0 /\ Release \in Nat /\ AtMargin \in Nat
      /\ RetestPush \in Nat /\ RetestPush >= Push /\ Retest \in Nat
      /\ MaxStep \in Nat \ {0} /\ PaceCap \in Nat \ {0}
  BY DEF Learned!CeilingsAssumption
<1>2. v \in Nat /\ v > 0 /\ c.seen[d] \in Nat
  BY <1>1 DEF CeilRecords, Learned!CeilingsAssumption
<1>3. d # 0 /\ x * d \in Int /\ slice * d \in Int /\ share * d = Learned!Abs(share)
      /\ Learned!Abs(share) \in Int
  <2>1. share # 0
    BY DEF Learned!Sign, Learned!Dirs
  <2>2. share * d > 0
    BY AlongDir
  <2> QED BY <2>1, <2>2, AlongDir DEF Learned!Dirs, Learned!Abs
<1>4. goal = d * v
  <2>1. Learned!Least(Learned!Abs(share), v) = v
    BY <1>1, <1>2, <1>3 DEF Learned!Least
  <2> QED BY <2>1, <1>2, <1>3 DEF Learned!Goal
<1>5. goal \in Int /\ goal * d = v
  <2>1. d * v \in Int /\ (d * v) * d = v
    <3>1. 1 * v = v /\ v * 1 = v /\ (-1) * v = -v /\ (-v) * (-1) = v
      BY <1>2
    <3>2. d = 1 \/ d = -1
      BY DEF Learned!Dirs
    <3> QED BY <3>1, <3>2, <1>2
  <2> QED BY <2>1, <1>4
<1>6. goal - x \in Int /\ (goal - x) * d = v - x * d
  <2> HIDE DEF goal, v
  <2>1. (goal - x) * d = goal * d - x * d
    BY <1>5, AlongDir
  <2> QED BY <2>1, <1>5
<1>7. tilt \in Int /\ tilt * d \in Int /\ tilt * d >= -Release
  <2>1. tilt \in Int /\ tilt * d = Learned!Within((goal - x) * d, MaxStep)
    BY <1>1, <1>6, WithinAlong
  <2>2. v - x * d >= -Release
    BY <1>1, <1>2, <1>3
  <2> HIDE DEF tilt
  <2>3. Learned!Within(v - x * d, MaxStep) >= -Release
        /\ Learned!Within(v - x * d, MaxStep) \in Int
    BY <2>2, <1>1, <1>2, <1>3 DEF Learned!Within, Learned!Most, Learned!Least
  <2> QED BY <2>1, <2>3, <1>6
<1>8. out \in Int /\ out * d \in Int /\ out * d >= -(2 * Push + Release)
  <2> HIDE DEF tilt
  <2>1. out \in Int /\ out * d = slice * d + tilt * d
    <3>1. tilt \in Int
      BY <1>7
    <3>2. (slice + tilt) * d = slice * d + tilt * d
      BY <3>1, AlongDir
    <3> QED BY <3>1, <3>2
  <2> HIDE DEF out
  <2> QED BY <2>1, <1>1, <1>3, <1>7
<1>9. push = d \/ push = 0
  BY DEF Learned!RetestDue
<1>10. wanted = IF push # 0 THEN push * Learned!Most(out * push, RetestPush) ELSE out
  BY DEF Learned!Wanted
<1>11. x * d >= v - AtMargin /\ c.seen[d] >= Retest => push = d
  <2>1. (share - x) * d >= Push
    <3>1. (share - x) * d = share * d - x * d
      BY AlongDir
    <3> QED BY <3>1, <1>1, <1>2, <1>3
  <2> QED BY <2>1, <1>2, <1>3 DEF Learned!RetestDue
<1> HIDE DEF goal, tilt, out, push, wanted, v
<1>12. /\ wanted \in Int /\ wanted * d \in Int /\ wanted * d >= -(2 * Push + Release)
       /\ push = d => wanted * d >= RetestPush
  <2>1. CASE push = d
    <3>1. wanted = d * Learned!Most(out * d, RetestPush)
      BY <2>1, <1>3, <1>10
    <3>2. Learned!Most(out * d, RetestPush) \in Int
          /\ Learned!Most(out * d, RetestPush) >= RetestPush
      BY <1>1, <1>8 DEF Learned!Most
    <3>3. wanted \in Int /\ wanted * d = Learned!Most(out * d, RetestPush)
      BY <3>1, <3>2, AlongDir DEF Learned!Dirs
    <3> QED BY <3>2, <3>3, <1>1
  <2>2. CASE push = 0
    BY <2>2, <1>3, <1>8, <1>10
  <2> QED BY <2>1, <2>2, <1>9
<1> QED BY <1>11, <1>12 DEF wanted, v

\* While a battery is held at a ceiling it stands at it, no more than the margins
\* away; the ceiling has gone unconfirmed for all these polls but two; an output
\* below the beginning of the run of flat polls can only be the first; past the
\* retest interval it is asked in one direction only, so that its score falls by
\* one a poll, and with that gone each poll has pushed the battery a step further.
HeldAt(d) ==
    /\ d \in Learned!Dirs /\ known /\ ceil.value[d] > 0
    /\ power * d >= ceil.value[d] - AtMargin
    /\ power * d <= ceil.value[d] + Release
    /\ ceil.seen[d] <= Ttl /\ ceil.seen[d] + 2 >= wronged
    /\ sent * d >= -(2 * Push + Release)
    /\ ceil.polls > 0 =>
          /\ Learned!Abs(power - ceil.anchor) <= Flat
          /\ wronged > 1 => power * d >= ceil.anchor * d
    /\ wronged >= Retest + 2 =>
          /\ sent * d >= 0 /\ swing = d
          /\ osc = 0 \/ osc + wronged <= OscFull + Retest + 2
    /\ wronged >= Retest + 2 + OscFull =>
          /\ sent * d >= RetestStep
          /\ power * d >= ceil.value[d] - AtMargin
                           + (wronged - Retest - 2 - OscFull) * RetestStep

HeldWhileWronged ==
    /\ Floors(ceil)
    /\ role = "away" => wronged = 0
    /\ wronged > 0 => HeldAt(Learned!Sign(power))

\* What a poll that counts says of itself.
LEMMA HeldPollFacts ==
    ASSUME Learned!CeilingsAssumption, MarginsApart, Learned!TypeOK, Floors(ceil),
           NEW dt \in Nat, NEW slice \in Int, NEW path, Learned!Poll(dt, slice, path),
           Learned!HeldBack(ceil', dt, slice, path),
           NEW d, d = Learned!Sign(share)
    PROVE  /\ d \in Learned!Dirs /\ role = "judged" /\ known /\ dt > 0
           /\ ceil' = Learned!TrackCeiling(Learned!Aged(ceil, dt), sent, power')
           /\ ceil' \in CeilRecords /\ ceil'.value[d] >= MinPower
           /\ power' \in Int /\ power' = power + sent /\ d = Learned!Sign(power')
           /\ power' * d >= ceil'.value[d] - AtMargin
           /\ power' * d <= ceil'.value[d] + Release
           /\ ceil'.seen[d] <= Ttl
           /\ sent' \in Int /\ osc' \in 0 .. OscFull
           /\ sent' * d >= -(2 * Push + Release)
           /\ ceil'.seen[d] >= Retest =>
                 /\ swing' = d /\ sent' * d >= 0
                 /\ swing = d => osc' = Learned!Most(0, osc - 1)
                 /\ osc' = 0 => sent' * d >= RetestStep
<1> DEFINE x == Learned!Answer
           c == Learned!Aged(ceil, dt)
<1>1. /\ role = "judged" /\ known /\ dt > 0 /\ slice * d >= -2 * Push
      /\ d # 0 /\ ceil'.value[d] > 0 /\ x * d >= ceil'.value[d] - AtMargin
      /\ Learned!Least(limit, Learned!Abs(share)) >= ceil'.value[d] + Release + Push
  BY DEF Learned!HeldBack
<1>2. /\ power' = x
      /\ ceil' = Learned!TrackCeiling(c, sent, x)
      /\ Learned!Damp(Learned!Wanted(ceil', x, slice))
  BY <1>1 DEF Learned!Poll, Learned!Tracked, Learned!Commanded, Learned!HeldBack
<1>3. /\ power \in Int /\ sent \in Int /\ limit \in Nat /\ share \in Int
      /\ ceil \in CeilRecords
  BY DEF Learned!TypeOK, CeilRecords
<1>4. x \in Int
  BY <1>3, AnswerFollows
<1>5. d \in Learned!Dirs
  BY <1>1 DEF Learned!Sign, Learned!Dirs
<1>6. c \in CeilRecords /\ c.value = ceil.value
  BY <1>3, LearnedAged
<1>7. /\ Push \in Nat /\ Push > 0 /\ Release \in Nat /\ AtMargin \in Nat
      /\ MinPower \in Nat \ {0} /\ Ttl \in Nat /\ AtMargin < MinPower
  BY DEF Learned!CeilingsAssumption, MarginsApart
<1> HIDE DEF x, c
<1>8. ceil' \in CeilRecords
  BY <1>2, <1>3, <1>4, <1>6, LearnedTracked
<1>9. ceil'.value[d] \in Nat /\ ceil'.value[d] >= MinPower
  <2>1. Floors(c)
    BY <1>6 DEF Floors
  <2>2. Floors(ceil')
    BY <2>1, <1>2, <1>3, <1>4, <1>6, TrackedFloors
  <2>3. ceil'.value[d] \in Nat
    BY <1>5, <1>8 DEF CeilRecords
  <2>4. ceil'.value[d] = 0 \/ ceil'.value[d] >= MinPower
    BY <2>2, <1>5 DEF Floors
  <2> QED BY <2>3, <2>4, <1>1
<1>10. x * d \in Int /\ x * d > 0 /\ d = Learned!Sign(x) /\ x * d = Learned!Abs(x)
  <2>1. x * d \in Int
    BY <1>4, <1>5, AlongDir
  <2>2. x * d > 0
    BY <2>1, <1>1, <1>7, <1>9
  <2> QED BY <2>1, <2>2, <1>4, <1>5, AlongDir
<1>11. x * d <= ceil'.value[d] + Release /\ ceil'.seen[d] <= Ttl
  <2>1. \/ /\ ceil'.value[d] = c.value[d] /\ ceil'.seen[d] = c.seen[d]
           /\ x * d <= c.value[d] + Release /\ c.seen[d] <= Ttl
        \/ ceil'.value[d] = Learned!Abs(x) /\ ceil'.seen[d] = 0
    BY <1>1, <1>2, <1>3, <1>4, <1>5, <1>6, TrackedCeiling
  <2> QED BY <2>1, <1>7, <1>9, <1>10
<1>12. /\ limit >= ceil'.value[d] + Release + Push
       /\ Learned!Abs(share) >= ceil'.value[d] + Release + Push
  <2>1. Learned!Abs(share) \in Int
    BY <1>3 DEF Learned!Abs
  <2> QED BY <2>1, <1>1, <1>3, <1>7, <1>9 DEF Learned!Least
<1>13. x = power + sent
  <2>1. power + sent \in Int /\ x = Learned!Within(power + sent, limit)
    BY <1>3 DEF x, Learned!Answer
  <2>2. x * d = Learned!Within((power + sent) * d, limit) /\ (power + sent) * d \in Int
    BY <2>1, <1>3, <1>5, WithinAlong, AlongDir
  <2>3. x * d < limit /\ x * d > -limit
    BY <1>3, <1>7, <1>9, <1>10, <1>11, <1>12
  <2>4. x * d = (power + sent) * d
    BY <2>2, <2>3, <1>3, <1>10 DEF Learned!Within, Learned!Most, Learned!Least
  <2>5. (x * d) * d = x /\ ((power + sent) * d) * d = power + sent
    BY <2>1, <1>4, <1>5, AlongDir
  <2> QED BY <2>4, <2>5
<1> DEFINE wanted == Learned!Wanted(ceil', x, slice)
<1>14. /\ wanted \in Int /\ wanted * d >= -(2 * Push + Release)
       /\ ceil'.seen[d] >= Retest => wanted * d >= RetestPush
  BY <1>1, <1>3, <1>4, <1>5, <1>8, <1>11, <1>12, HeldWanted
<1> HIDE DEF wanted
<1>15. /\ sent' \in Int /\ osc' \in 0 .. OscFull
       /\ sent' * d >= -(2 * Push + Release)
       /\ ceil'.seen[d] >= Retest =>
             /\ swing' = d /\ sent' * d >= 0
             /\ swing = d => osc' = Learned!Most(0, osc - 1)
             /\ osc' = 0 => sent' * d >= RetestStep
  <2>1. Learned!Damp(wanted)
    BY <1>2 DEF wanted
  <2>2. 2 * Push + Release \in Nat
    BY <1>7
  <2> QED BY <2>1, <2>2, <1>5, <1>14, DampedResidual
<1> QED BY <1>1, <1>2, <1>4, <1>5, <1>8, <1>9, <1>10, <1>11, <1>13, <1>15 DEF c

\* Nobody is at the other direction's ceiling in the next poll.
LEMMA SameCeiling ==
    ASSUME Learned!CeilingsAssumption, MarginsApart, NEW d \in Learned!Dirs,
           NEW e \in Learned!Dirs, NEW p \in Int, NEW s \in Int,
           NEW v \in Int, NEW u \in Int, v >= MinPower, u >= MinPower,
           p * e >= u - AtMargin, s * e >= -(2 * Push + Release),
           (p + s) * d >= v - AtMargin
    PROVE  e = d
<1>1. /\ Push \in Nat /\ Release \in Nat /\ AtMargin \in Nat /\ MinPower \in Nat
      /\ 2 * Push + Release < 2 * (MinPower - AtMargin)
  BY DEF Learned!CeilingsAssumption, MarginsApart
<1>2. (p + s) * e = p * e + s * e /\ p * e \in Int /\ s * e \in Int
  BY AlongDir
<1>3. (p + s) * e >= u - AtMargin - (2 * Push + Release)
  BY <1>1, <1>2
<1>4. SUFFICES ASSUME e # d PROVE FALSE
  OBVIOUS
<1>5. (p + s) * d = -((p + s) * e)
  <2>1. p + s \in Int
    OBVIOUS
  <2>2. (p + s) * 1 = p + s /\ (p + s) * (-1) = -(p + s) /\ -(-(p + s)) = p + s
    BY <2>1
  <2>3. \/ d = 1 /\ e = -1
        \/ d = -1 /\ e = 1
    <3>1. d = 1 \/ d = -1
      BY DEF Learned!Dirs
    <3>2. e = 1 \/ e = -1
      BY DEF Learned!Dirs
    <3>3. CASE d = 1
      BY <3>2, <3>3, <1>4
    <3>4. CASE d = -1
      BY <3>2, <3>4, <1>4
    <3> QED BY <3>1, <3>3, <3>4
  <2> QED BY <2>2, <2>3
<1>6. (p + s) * e \in Int
  BY <1>2
<1> QED BY <1>1, <1>3, <1>5, <1>6

\* Each poll at the ceiling past the retest interval has pushed one step more.
LEMMA OneStepMore ==
    ASSUME NEW n \in Int, NEW m \in Int, NEW r \in Int, NEW o \in Int, m <= n + 1,
           NEW step \in Nat
    PROVE  /\ (n - r - 2 - o) * step \in Int
           /\ (m - r - 2 - o) * step <= (n - r - 2 - o) * step + step
<1>1. (n - r - 2 - o) * step + step = (n + 1 - r - 2 - o) * step
  OBVIOUS
<1>2. \A a \in Int, b \in Int : a <= b => a * step <= b * step
  OBVIOUS
<1>3. (m - r - 2 - o) * step <= (n + 1 - r - 2 - o) * step
  BY <1>2
<1> QED BY <1>1, <1>3

\* A poll that counts keeps what is held.
LEMMA HeldPoll ==
    ASSUME Learned!CeilingsAssumption, MarginsApart, Learned!TypeOK, HeldWhileWronged,
           NEW dt \in Nat, NEW slice \in Int, NEW path,
           Learned!Poll(dt, slice, path),
           Learned!HeldBack(ceil', dt, slice, path)
    PROVE  HeldAt(Learned!Sign(power))'
<1> DEFINE d == Learned!Sign(share)
           x == power'
           c == Learned!Aged(ceil, dt)
           w == wronged
           n == wronged'
           step == RetestStep
<1>1. /\ d \in Learned!Dirs /\ role = "judged" /\ known /\ dt > 0
      /\ ceil' = Learned!TrackCeiling(c, sent, x)
      /\ ceil' \in CeilRecords /\ ceil'.value[d] >= MinPower
      /\ x \in Int /\ x = power + sent /\ d = Learned!Sign(x)
      /\ x * d >= ceil'.value[d] - AtMargin
      /\ x * d <= ceil'.value[d] + Release
      /\ ceil'.seen[d] <= Ttl
      /\ sent' \in Int /\ osc' \in 0 .. OscFull
      /\ sent' * d >= -(2 * Push + Release)
      /\ ceil'.seen[d] >= Retest =>
            /\ swing' = d /\ sent' * d >= 0
            /\ swing = d => osc' = Learned!Most(0, osc - 1)
            /\ osc' = 0 => sent' * d >= step
  BY HeldPollFacts DEF HeldWhileWronged
<1>2. /\ power \in Int /\ sent \in Int /\ ceil \in CeilRecords /\ w \in 0 .. Ttl + 1
      /\ osc \in 0 .. OscFull
  BY DEF Learned!TypeOK, CeilRecords
<1>3. /\ Push \in Nat /\ Flat \in Nat /\ Push > Flat /\ Release \in Nat
      /\ AtMargin \in Nat /\ MinPower \in Nat \ {0} /\ Ttl \in Nat /\ Retest \in Nat
      /\ step \in Nat /\ StallPolls \in Nat \ {0} /\ OscFull \in Nat
  BY DEF Learned!CeilingsAssumption, RetestStep, Learned!Least
<1>4. /\ n = Learned!Least(Ttl + 1, w + 1) /\ known' = TRUE
  BY <1>1 DEF Learned!Poll
<1>5. c \in CeilRecords /\ c.value = ceil.value /\ c.anchor = ceil.anchor
      /\ c.polls = ceil.polls
  BY <1>2, LearnedAged
<1>6. Ran(c, ceil', sent, x)
  BY <1>1, <1>2, <1>5, LearnedTracked
<1> HIDE DEF d, x, c, w, n, step
<1>7. n \in Nat /\ n <= w + 1 /\ n >= 1 /\ n <= Ttl + 1 /\ (w = 0 => n = 1)
  BY <1>2, <1>3, <1>4 DEF Learned!Least
<1>8. /\ ceil'.value[d] \in Nat /\ ceil'.value[d] > 0 /\ ceil'.seen[d] \in Nat
      /\ ceil'.polls \in Nat /\ ceil'.anchor \in Int /\ ceil.anchor \in Int
      /\ ceil.polls \in Nat
  BY <1>1, <1>2, <1>3 DEF CeilRecords
<1>9. x * d \in Int /\ sent * d \in Int /\ power * d \in Int
      /\ x * d = power * d + sent * d
      /\ ceil.anchor * d \in Int /\ ceil'.anchor * d \in Int
  <2>0. d \in Learned!Dirs /\ power \in Int /\ sent \in Int
    BY <1>1, <1>2
  <2>1. (power + sent) * d = power * d + sent * d /\ power * d \in Int /\ sent * d \in Int
    BY <2>0, AlongDir
  <2>2. ceil.anchor * d \in Int /\ ceil'.anchor * d \in Int
    BY <1>1, <1>8, AlongDir
  <2> QED BY <2>1, <2>2, <1>1
\* A longer run was pushed in this direction.
<1>10. Learned!Pushed(sent, x) => sent * d >= Push
  BY <1>1 DEF Learned!Pushed
\* What is held from the poll before.
<1>11. ASSUME w > 0
       PROVE  /\ power * d >= ceil.value[d] - AtMargin
              /\ ceil.seen[d] + 2 >= w /\ ceil.value[d] > 0
              /\ ceil.polls > 0 =>
                    /\ Learned!Abs(power - ceil.anchor) <= Flat
                    /\ w > 1 => power * d >= ceil.anchor * d
              /\ w >= Retest + 2 =>
                    /\ sent * d >= 0 /\ swing = d
                    /\ osc = 0 \/ osc + w <= OscFull + Retest + 2
              /\ w >= Retest + 2 + OscFull =>
                    /\ sent * d >= step
                    /\ power * d >= ceil.value[d] - AtMargin + (w - Retest - 2 - OscFull) * step
  <2> DEFINE e == Learned!Sign(power)
  <2>1. HeldAt(e)
    BY <1>11 DEF HeldWhileWronged, w
  <2> HIDE DEF e
  <2>2. ceil.value[e] \in Int /\ ceil.value[e] >= MinPower
    <3>1. e \in Learned!Dirs /\ ceil.value[e] > 0
      BY <2>1 DEF HeldAt
    <3>2. ceil.value[e] \in Nat
      BY <3>1, <1>2 DEF CeilRecords
    <3> QED BY <3>1, <3>2 DEF HeldWhileWronged, Floors
  <2>3. e = d
    <3>1. /\ e \in Learned!Dirs /\ power * e >= ceil.value[e] - AtMargin
          /\ sent * e >= -(2 * Push + Release)
      BY <2>1 DEF HeldAt
    <3>2. (power + sent) * d >= ceil'.value[d] - AtMargin
      BY <1>1
    <3>3. ceil'.value[d] \in Int
      BY <1>8
    <3> QED BY <3>1, <3>2, <3>3, <2>2, <1>1, <1>2, SameCeiling
  <2> QED BY <2>1, <2>3 DEF HeldAt, w, step
\* The ceiling is confirmed in the first two polls at most.
<1>12. ASSUME w > 1
       PROVE  /\ ceil'.value[d] = ceil.value[d]
              /\ ceil'.seen[d] = c.seen[d] /\ c.seen[d] <= Ttl
  <2>1. \/ /\ ceil'.value[d] = c.value[d] /\ ceil'.seen[d] = c.seen[d]
           /\ c.seen[d] <= Ttl
        \/ /\ Learned!Pushed(sent, x) /\ c.polls > 0
           /\ Learned!Abs(x - c.anchor) <= Flat
    BY <1>1, <1>2, <1>5, <1>8, TrackedCeiling
  <2>2. ~ (/\ Learned!Pushed(sent, x) /\ c.polls > 0
           /\ Learned!Abs(x - c.anchor) <= Flat)
    <3> SUFFICES ASSUME Learned!Pushed(sent, x), c.polls > 0,
                        Learned!Abs(x - c.anchor) <= Flat
                 PROVE  FALSE
      OBVIOUS
    <3>1. power * d >= ceil.anchor * d
      BY <1>2, <1>5, <1>11, <1>12 DEF w
    <3>0. d \in Learned!Dirs /\ x \in Int /\ ceil.anchor \in Int
      BY <1>1, <1>8
    <3>2. x - ceil.anchor \in Int /\ (x - ceil.anchor) * d = x * d - ceil.anchor * d
      BY <3>0, AlongDir
    <3>3. (x - ceil.anchor) * d <= Learned!Abs(x - ceil.anchor)
      BY <1>1, <3>2, AlongDir
    <3>4. Learned!Abs(x - ceil.anchor) \in Int
      BY <3>2 DEF Learned!Abs
    <3> QED BY <3>1, <3>2, <3>3, <3>4, <1>3, <1>5, <1>9, <1>10
  <2> QED BY <2>1, <2>2, <1>5
\* So it goes unconfirmed for one poll more.
<1>13. ceil'.seen[d] + 2 >= n
  <2>1. CASE w > 1
    <3>1. ceil.value[d] > 0 /\ ceil.seen[d] + 2 >= w
      BY <2>1, <1>2, <1>11 DEF w
    <3>2. c.seen[d] = Learned!Least(Ttl + 1, ceil.seen[d] + dt)
      BY <3>1, <1>1, <1>2, AgedCeiling DEF c
    <3>3. ceil.seen[d] \in Nat
      BY <1>1, <1>2, <1>3 DEF CeilRecords
    <3> QED BY <3>1, <3>2, <3>3, <1>1, <1>2, <1>3, <1>7, <1>12, <2>1 DEF Learned!Least
  <2>2. CASE w <= 1
    BY <2>2, <1>2, <1>7, <1>8
  <2> QED BY <2>1, <2>2, <1>2
<1>14. ASSUME ceil'.polls > 0
       PROVE  /\ Learned!Abs(x - ceil'.anchor) <= Flat
              /\ n > 1 => x * d >= ceil'.anchor * d
  <2>1. CASE ceil'.polls = 1 /\ ceil'.anchor = x
    BY <2>1, <1>1, <1>3, <1>9 DEF Learned!Abs
  <2>2. CASE /\ ceil.polls > 0 /\ ceil'.anchor = ceil.anchor
             /\ Learned!Abs(x - ceil.anchor) <= Flat /\ Learned!Pushed(sent, x)
    <3>1. ASSUME n > 1 PROVE x * d >= ceil.anchor * d
      <4>1. Learned!Abs(power - ceil.anchor) <= Flat
        BY <3>1, <2>2, <1>2, <1>7, <1>11
      <4>0. d \in Learned!Dirs /\ power \in Int /\ ceil.anchor \in Int
        BY <1>1, <1>2, <1>8
      <4>2. power - ceil.anchor \in Int
            /\ (power - ceil.anchor) * d = power * d - ceil.anchor * d
            /\ (power - ceil.anchor) * d >= -Learned!Abs(power - ceil.anchor)
        <5>1. power - ceil.anchor \in Int
              /\ (power - ceil.anchor) * d = power * d - ceil.anchor * d
          BY <4>0, AlongDir
        <5>2. -Learned!Abs(power - ceil.anchor) <= (power - ceil.anchor) * d
              /\ (power - ceil.anchor) * d \in Int
          BY <4>0, <5>1, AlongDir
        <5>3. Learned!Abs(power - ceil.anchor) \in Int
          BY <5>1 DEF Learned!Abs
        <5> QED BY <5>1, <5>2, <5>3
      <4>3. Learned!Abs(power - ceil.anchor) \in Int
        BY <4>2 DEF Learned!Abs
      <4> QED BY <4>1, <4>2, <4>3, <2>2, <1>3, <1>9, <1>10
    <3> QED BY <3>1, <2>2
  <2> QED BY <2>1, <2>2, <1>5, <1>6, <1>8, <1>14 DEF Ran
<1>15. ASSUME n >= Retest + 2
       PROVE  /\ sent' * d >= 0 /\ swing' = d
              /\ osc' = 0 \/ osc' + n <= OscFull + Retest + 2
              /\ osc' = 0 => sent' * d >= step
  <2>1. /\ swing' = d /\ sent' * d >= 0
        /\ swing = d => osc' = Learned!Most(0, osc - 1)
        /\ osc' = 0 => sent' * d >= step
    <3>1. ceil'.seen[d] >= Retest
      BY <1>3, <1>7, <1>8, <1>13, <1>15
    <3> QED BY <3>1, <1>1
  <2>2. osc' = 0 \/ osc' + n <= OscFull + Retest + 2
    <3>1. CASE n = Retest + 2
      BY <3>1, <1>1, <1>3
    <3>2. CASE n > Retest + 2
      <4>1. w >= Retest + 2 /\ w > 0
        BY <3>2, <1>2, <1>3, <1>7
      <4>2. swing = d /\ (osc = 0 \/ osc + w <= OscFull + Retest + 2)
        BY <4>1, <1>11
      <4>3. osc' = Learned!Most(0, osc - 1)
        BY <4>2, <2>1
      <4> QED BY <4>2, <4>3, <1>2, <1>3, <1>7 DEF Learned!Most
    <3> QED BY <3>1, <3>2, <1>3, <1>7, <1>15
  <2> QED BY <2>1, <2>2
<1>16. ASSUME n >= Retest + 2 + OscFull
       PROVE  /\ sent' * d >= step
              /\ x * d >= ceil'.value[d] - AtMargin + (n - Retest - 2 - OscFull) * step
  <2>1. sent' * d >= step
    <3>1. n >= Retest + 2
      BY <1>3, <1>7, <1>16
    <3>2. osc' = 0 \/ osc' + n <= OscFull + Retest + 2
      BY <3>1, <1>15
    <3>3. osc' = 0
      <4>1. osc' \in 0 .. OscFull
        BY <1>1
      <4>2. OscFull \in Nat /\ Retest \in Nat /\ n \in Nat
        BY <1>3, <1>7
      <4>3. n >= Retest + 2 + OscFull
        BY <1>16
      <4>4. \A o \in Nat, a \in Nat, b \in Nat, m \in Nat :
              o + m <= a + b + 2 /\ m >= b + 2 + a => o = 0
        OBVIOUS
      <4>5. osc' \in Nat
        BY <4>1, <4>2
      <4>6. CASE osc' + n <= OscFull + Retest + 2
        BY <4>2, <4>3, <4>4, <4>5, <4>6
      <4> QED BY <3>2, <4>6
    <3> QED BY <3>1, <3>3, <1>15
  <2>2. CASE n = Retest + 2 + OscFull
    <3>1. (n - Retest - 2 - OscFull) * step = 0
      <4>1. n - Retest - 2 - OscFull = 0
        BY <2>2, <1>3
      <4> QED BY <4>1, <1>3
    <3> QED BY <3>1, <2>1, <1>1, <1>8
  <2>3. CASE n > Retest + 2 + OscFull
    <3>1. w \in Nat /\ w >= Retest + 2 + OscFull /\ w > 1
      BY <2>3, <1>2, <1>3, <1>7
    <3>2. /\ sent * d >= step
          /\ power * d >= ceil.value[d] - AtMargin + (w - Retest - 2 - OscFull) * step
          /\ ceil'.value[d] = ceil.value[d]
      BY <3>1, <1>11, <1>12
    <3>3. /\ (w - Retest - 2 - OscFull) * step \in Int
          /\ (n - Retest - 2 - OscFull) * step <= (w - Retest - 2 - OscFull) * step + step
      BY <3>1, <1>3, <1>7, OneStepMore
    <3>4. (n - Retest - 2 - OscFull) * step \in Int
      BY <1>3, <1>7
    <3> QED BY <3>2, <3>3, <3>4, <2>1, <1>3, <1>8, <1>9
  <2> QED BY <2>2, <2>3, <1>3, <1>7, <1>16
<1> QED BY <1>1, <1>4, <1>8, <1>13, <1>14, <1>15, <1>16
        DEF HeldAt, x, n, step, RetestStep

\* Every step keeps what is held: whatever ends the count starts it anew.
LEMMA HeldStep ==
    ASSUME Learned!CeilingsAssumption, MarginsApart, Learned!TypeOK, HeldWhileWronged,
           [Learned!Next]_Learned!vars
    PROVE  HeldWhileWronged'
<1>1. ASSUME NEW dt \in Gaps, NEW slice \in Slices, NEW path, Learned!Poll(dt, slice, path)
      PROVE  HeldWhileWronged'
  <2>1. dt \in Nat /\ slice \in Int /\ Ttl \in Nat
    BY DEF Learned!CeilingsAssumption
  <2>2. ceil \in CeilRecords /\ sent \in Int /\ Learned!Answer \in Int
    <3>1. power \in Int /\ sent \in Int /\ limit \in Nat /\ ceil \in CeilRecords
      BY DEF Learned!TypeOK, CeilRecords
    <3> QED BY <3>1, AnswerFollows
  <2>3. Floors(ceil')
    <3> DEFINE c == Learned!Aged(ceil, dt)
               target == IF known THEN sent ELSE 0
    <3>1. c \in CeilRecords /\ c.value = ceil.value
      BY <2>1, <2>2, LearnedAged
    <3>2. Floors(c)
      BY <3>1 DEF HeldWhileWronged, Floors
    <3>3. ceil' = c \/ ceil' = Learned!TrackCeiling(c, target, Learned!Answer)
      BY <1>1 DEF Learned!Poll, Learned!Tracked
    <3>4. target \in Int
      BY <2>2
    <3> HIDE DEF c, target
    <3> QED BY <2>2, <3>1, <3>2, <3>3, <3>4, TrackedFloors
  <2>4. CASE Learned!HeldBack(ceil', dt, slice, path)
    <3>1. HeldAt(Learned!Sign(power))'
      BY <2>1, <2>4, <1>1, HeldPoll
    <3>2. role' = "judged"
      BY <2>4, <1>1 DEF Learned!HeldBack, Learned!Poll
    <3> QED BY <2>3, <3>1, <3>2 DEF HeldWhileWronged
  <2>5. CASE ~ Learned!HeldBack(ceil', dt, slice, path)
    <3>1. wronged' = 0
      BY <2>5, <1>1 DEF Learned!Poll
    <3> QED BY <2>3, <3>1 DEF HeldWhileWronged
  <2> QED BY <2>4, <2>5
<1>2. CASE Learned!Leave
  <2>1. wronged' = 0 /\ Floors(ceil')
    BY <1>2 DEF Learned!Leave, Learned!NoCeilings, Floors
  <2> QED BY <2>1 DEF HeldWhileWronged
<1>3. ASSUME UNCHANGED <<power, sent, known, ceil, osc, swing, wronged>>,
             role' = "away" => role = "away"
      PROVE  HeldWhileWronged'
  <2>1. Floors(ceil') /\ (role' = "away" => wronged' = 0)
    BY <1>3 DEF HeldWhileWronged
  <2>2. wronged' > 0 => HeldAt(Learned!Sign(power))'
    BY <1>3 DEF HeldWhileWronged, HeldAt, RetestStep
  <2> QED BY <2>1, <2>2 DEF HeldWhileWronged
<1>4. CASE Learned!RoleChanges
  BY <1>3, <1>4 DEF Learned!RoleChanges
<1>5. CASE Learned!Return
  <2>1. wronged' = 0 /\ Floors(ceil')
    BY <1>5 DEF Learned!Return, HeldWhileWronged
  <2> QED BY <2>1 DEF HeldWhileWronged
<1>6. CASE Learned!LimitChanges \/ Learned!DemandChanges
  BY <1>3, <1>6 DEF Learned!LimitChanges, Learned!DemandChanges
<1>7. CASE UNCHANGED Learned!vars
  BY <1>3, <1>7 DEF Learned!vars
<1> QED BY <1>1, <1>2, <1>4, <1>5, <1>6, <1>7 DEF Learned!Next

\* However the limits, the demand, the roles and the polls fall, a ceiling that
\* binds without being real is pushed past within the retest interval, and is gone
\* as soon as the pushes add up to its margins once the damping of a battery that
\* was hunting has worn off (_ceiling_retest, _damp_oscillation, _track_ceiling).
THEOREM WrongCeilingsFall ==
    ASSUME Learned!CeilingsAssumption, MarginsApart
    PROVE  Learned!Spec => []RetestIsPrompt
<1> DEFINE Inv == Learned!TypeOK /\ FlatRun /\ HeldWhileWronged
<1>1. Learned!Init => Inv
  <2> SUFFICES ASSUME Learned!Init PROVE HeldWhileWronged
    BY LearnedInit
  <2>1. wronged = 0 /\ Floors(ceil)
    BY DEF Learned!Init, Learned!NoCeilings, Floors
  <2> QED BY <2>1 DEF HeldWhileWronged
<1>2. Inv /\ [Learned!Next]_Learned!vars => Inv'
  BY LearnedStep, HeldStep
<1>3. Inv => RetestIsPrompt
  <2> SUFFICES ASSUME Inv PROVE (wronged - Retest - 2 - OscFull) * RetestStep <= AtMargin + Release
    BY DEF RetestIsPrompt, RetestStep, Learned!Least, Least
  <2>1. /\ Retest \in Nat /\ AtMargin \in Nat /\ Release \in Nat
        /\ RetestStep \in Nat /\ Ttl \in Nat /\ OscFull \in Nat
    BY DEF Learned!CeilingsAssumption, RetestStep, Learned!Least
  <2>2. wronged \in Nat
    BY <2>1 DEF Learned!TypeOK
  <2>3. CASE wronged >= Retest + 2 + OscFull
    <3> DEFINE d == Learned!Sign(power)
               v == ceil.value[d]
               pushed == (wronged - Retest - 2 - OscFull) * RetestStep
    <3>1. HeldAt(d)
      BY <2>1, <2>2, <2>3 DEF HeldWhileWronged
    <3>2. power * d <= v + Release /\ power * d >= v - AtMargin + pushed
      BY <2>3, <3>1 DEF HeldAt
    <3>3. d \in Learned!Dirs /\ power \in Int /\ ceil \in CeilRecords
      BY <3>1 DEF HeldAt, Learned!TypeOK, CeilRecords
    <3>4. v \in Int /\ power * d \in Int /\ pushed \in Int
      <4>1. v \in Int
        BY <3>3 DEF CeilRecords
      <4>2. power * d \in Int
        BY <3>3, AlongDir
      <4>3. pushed \in Int
        BY <2>1, <2>2
      <4> QED BY <4>1, <4>2, <4>3
    <3> HIDE DEF d, v, pushed
    <3>5. pushed <= AtMargin + Release
      BY <2>1, <3>2, <3>4
    <3> QED BY <3>5 DEF pushed
  <2>4. CASE wronged < Retest + 2 + OscFull
    <3>1. wronged - Retest - 2 - OscFull \in Int /\ wronged - Retest - 2 - OscFull <= 0
      BY <2>1, <2>2, <2>4
    <3>2. \A a \in Int : a <= 0 => a * RetestStep <= 0 /\ a * RetestStep \in Int
      BY <2>1
    <3> QED BY <2>1, <3>1, <3>2
  <2> QED BY <2>1, <2>2, <2>3, <2>4
<1> QED BY <1>1, <1>2, <1>3, PTL DEF Learned!Spec
=============================================================================
