------------------------- MODULE ActionPipelineProofs -------------------------
(***************************************************************************)
(* Proofs about ActionPipeline for any goals, steps, lengths and limits: the *)
(* modality the operator chose is the one the network attends to, a pose     *)
(* keeps its bearing, the path is where the network meant it, and the        *)
(* command keeps to the robot's limits and to the arc of the law.            *)
(***************************************************************************)
EXTENDS ActionPipeline, FiniteSetTheorems, WellFoundedInduction, TLAPS

\* The rows of the masks that the three modalities select.
LEMMA Rows ==
    /\ Attended(7) = {"text"} /\ Attended(4) = {"pose"} /\ Attended(6) = {"image"}
<1>1. AllMasks[7] = GoalMask[7] /\ AllMasks[4] = GoalMask[1] /\ AllMasks[6] = GoalMask[6]
    BY DEF AllMasks
<1>2. /\ AvgPoolMask[7] = GoalTokens \ GoalMask[7]
      /\ AvgPoolMask[4] = GoalTokens \ GoalMask[1]
      /\ AvgPoolMask[6] = GoalTokens \ GoalMask[6]
    BY DEF AvgPoolMask
<1>3. Attended(7) = GoalTokens \ GoalMask[7] /\ Attended(4) = GoalTokens \ GoalMask[1]
      /\ Attended(6) = GoalTokens \ GoalMask[6]
    BY <1>1, <1>2 DEF Attended
<1> QED
    BY <1>3 DEF GoalMask, GoalTokens

-----------------------------------------------------------------------------
(* Numbers and recursion.                                                   *)

\* A non-empty set of natural numbers has a least element.
LEMMA LeastNat ==
    ASSUME NEW T \in SUBSET Nat, T # {}
    PROVE  \E m \in T : \A k \in T : m <= k
<1> DEFINE R == OpToRel(<, Nat)
<1>1. PICK m \in T : \A k \in T : ~(<<k, m>> \in R)
    BY ONLY NatLessThanWellFounded, WFMin, T \in SUBSET Nat, T # {}
<1>2. \A k \in T : ~(k < m)
    BY <1>1 DEF OpToRel
<1> QED
    BY <1>2

\* A set with 0 and with the successor of every member below n has all up to n.
LEMMA Upwards ==
    ASSUME NEW n \in Nat, NEW G, 0 \in G, \A i \in 1..n : i - 1 \in G => i \in G
    PROVE  \A i \in 0..n : i \in G
<1> DEFINE Bad == {i \in 0..n : i \notin G}
<1>1. ASSUME Bad # {} PROVE FALSE
    <2>1. PICK m \in Bad : \A j \in Bad : m <= j
        <3>1. Bad \in SUBSET Nat
            OBVIOUS
        <3> QED
            BY ONLY <3>1, <1>1, LeastNat
    <2>2. m \in 1..n /\ m \notin G /\ m - 1 \in 0..n /\ ~(m <= m - 1)
        BY <2>1
    <2>3. m - 1 \in G
        BY <2>1, <2>2
    <2> QED
        BY <2>2, <2>3
<1> QED
    BY <1>1

\* Recursion from k on: a step for every number yields a function.
Iterates(f, k, m, s0, step) ==
    \A i \in k..m : f[i] = IF i = k THEN s0 ELSE step[i][f[i - 1]]

\* The function is there, longer by one at a time.
LEMMA IterateExists ==
    ASSUME NEW S, NEW k \in Nat, NEW n \in Nat, NEW s0 \in S, NEW step \in [(k + 1)..n -> [S -> S]]
    PROVE  \E f \in [k..n -> S] : Iterates(f, k, n, s0, step)
<1> DEFINE Good(m) == \E f \in [k..m -> S] : Iterates(f, k, m, s0, step)
           G == {m \in 0..n : Good(m)}
<1>1. ASSUME NEW m \in 0..n, m <= k
      PROVE  Good(m)
    <2> DEFINE g == [i \in k..m |-> s0]
    <2>1. g \in [k..m -> S]
        OBVIOUS
    <2>2. \A i \in k..m : i = k
        BY <1>1
    <2>3. Iterates(g, k, m, s0, step)
        BY <2>2 DEF Iterates
    <2> QED
        BY <2>1, <2>3
<1>2. ASSUME NEW m \in 0..n, m > k, Good(m - 1)
      PROVE  Good(m)
    <2>1. PICK f \in [k..(m - 1) -> S] : Iterates(f, k, m - 1, s0, step)
        BY <1>2
    <2> DEFINE g == [i \in k..m |-> IF i = m THEN step[m][f[m - 1]] ELSE f[i]]
    <2>2. m - 1 \in k..(m - 1) /\ m \in (k + 1)..n
        BY <1>2
    <2>3. step[m][f[m - 1]] \in S
        BY <2>2
    <2>4. \A i \in k..m : i # m => i \in k..(m - 1)
        OBVIOUS
    <2>5. g \in [k..m -> S]
        BY <2>3, <2>4
    <2>6. ASSUME NEW i \in k..m
          PROVE  g[i] = IF i = k THEN s0 ELSE step[i][g[i - 1]]
        <3>1. CASE i = m
            <4>1. g[i] = step[m][f[m - 1]] /\ m - 1 \in k..m /\ m - 1 # m /\ i # k
                BY <1>2, <3>1
            <4>2. g[m - 1] = f[m - 1]
                BY <4>1
            <4> QED
                BY <3>1, <4>1, <4>2
        <3>2. CASE i # m
            <4>1. i \in k..(m - 1) /\ g[i] = f[i]
                BY <3>2, <2>4
            <4>2. i # k => i - 1 \in k..m /\ i - 1 # m
                BY <1>2, <3>2
            <4>3. i # k => g[i - 1] = f[i - 1]
                BY <4>2
            <4> QED
                BY <2>1, <4>1, <4>3 DEF Iterates
        <3> QED
            BY <3>1, <3>2
    <2>7. Iterates(g, k, m, s0, step)
        BY <2>6 DEF Iterates
    <2> QED
        BY <2>5, <2>7
<1> HIDE DEF Good
<1>3. 0 \in G
    BY <1>1
<1>4. ASSUME NEW m \in 1..n, m - 1 \in G PROVE m \in G
    BY <1>1, <1>2, <1>4
<1>5. n \in G
    <2>1. n \in 0..n
        OBVIOUS
    <2> HIDE DEF G
    <2> QED
        BY <2>1, <1>3, <1>4, Upwards
<1> QED
    BY <1>5 DEF Good

\* Integer division by a positive number.
LEMMA Quotient ==
    ASSUME NEW a \in Nat, NEW b \in Nat, NEW d \in Nat, d > 0, a <= b * d
    PROVE  a \div d \in Nat /\ a \div d <= b
<1> DEFINE q == a \div d
<1>1. q \in Int /\ a % d \in Int /\ a = d * q + (a % d) /\ 0 <= a % d /\ a % d < d
    OBVIOUS
<1>2. q >= 0
    OBVIOUS
<1>3. q <= b
    OBVIOUS
<1> QED
    BY <1>2, <1>3

\* Division towards zero is off by less than the divisor.
LEMMA QuotRounds ==
    ASSUME NEW a \in Int, NEW b \in Nat, b > 0
    PROVE  Quot(a, b) \in Int /\ Rounds(Quot(a, b) * b, a, b)
<1> DEFINE m == Abs(a)
           q == m \div b
           r == m % b
<1>1. m \in Nat /\ (a = m \/ a = -m) /\ (a >= 0 => Sign(a) = 1 /\ a = m) /\ (a < 0 => Sign(a) = -1 /\ a = -m)
    BY DEF Abs, Sign
<1> HIDE DEF m
<1>2. q \in Int /\ r \in Int /\ m = b * q + r /\ 0 <= r /\ r < b
    BY <1>1
<1>3. Quot(a, b) = Sign(a) * q
    BY DEF Quot, m
<1> HIDE DEF q, r
<1>4. CASE a >= 0
    <2>1. Quot(a, b) = q
        BY <1>1, <1>2, <1>3, <1>4
    <2>2. q * b = b * q
        BY <1>2
    <2>3. q * b - a = -r
        BY <1>1, <1>2, <1>4, <2>2
    <2> QED
        BY <1>2, <2>1, <2>3 DEF Rounds, Abs
<1>5. CASE a < 0
    <2>1. Quot(a, b) = -q
        BY <1>1, <1>2, <1>3, <1>5
    <2>2. (-q) * b = -(b * q)
        BY <1>2
    <2>3. (-q) * b - a = r
        BY <1>1, <1>2, <1>5, <2>2
    <2> QED
        BY <1>2, <2>1, <2>3 DEF Rounds, Abs
<1> QED
    BY <1>4, <1>5

\* _limit keeps to both limits, forwards if it is given a forward command, and
\* whatever way it has to scale.
LEMMA LimitBounds ==
    ASSUME NEW v \in Nat, NEW w \in Int
    PROVE  /\ Limit([v |-> v, w |-> w]).v \in 0..MaxV
           /\ Limit([v |-> v, w |-> w]).w \in -MaxW..MaxW
<1> DEFINE c == [v |-> v, w |-> w]
           n == Abs(w)
           byTurn == [v |-> Sign(v) * ((MaxW * v) \div n), w |-> Sign(w) * MaxW]
           bySpeed == [v |-> Sign(v) * MaxV, w |-> Sign(w) * ((MaxV * n) \div v)]
<1>1. MaxV \in Nat \ {0} /\ MaxW \in Nat \ {0}
    BY PipelineAssumption
<1>2. n \in Nat /\ (w = n \/ w = -n) /\ Sign(v) = 1 /\ Sign(w) \in {1, -1} /\ Abs(v) = v
    BY DEF Abs, Sign
<1> HIDE DEF n
<1>3. CASE v <= MaxV /\ n <= MaxW
    <2>1. Limit(c) = c
        BY <1>1, <1>2, <1>3 DEF Limit, n
    <2>2. v \in 0..MaxV /\ w \in -MaxW..MaxW
        BY <1>1, <1>2, <1>3
    <2> QED
        BY <2>1, <2>2
<1>4. ASSUME n > 0, MaxW * v <= MaxV * n
      PROVE  byTurn.v \in 0..MaxV /\ byTurn.w \in -MaxW..MaxW
    <2>1. (MaxW * v) \div n \in Nat /\ (MaxW * v) \div n <= MaxV
        <3>1. MaxW * v \in Nat
            BY <1>1
        <3> QED
            BY <1>1, <1>2, <1>4, <3>1, Quotient
    <2>2. byTurn.v = (MaxW * v) \div n /\ byTurn.w \in {MaxW, -MaxW}
        BY <1>1, <1>2, <2>1
    <2> QED
        BY <1>1, <2>1, <2>2
<1>5. CASE v <= MaxV /\ n > MaxW
    <2>1. Limit(c) = byTurn
        BY <1>1, <1>2, <1>5 DEF Limit, n
    <2>2. MaxW * v <= MaxW * MaxV /\ MaxW * MaxV <= MaxV * n
        BY <1>1, <1>2, <1>5
    <2>3. MaxW * v <= MaxV * n /\ n > 0
        BY <1>1, <1>2, <1>5, <2>2
    <2> QED
        BY <1>4, <2>1, <2>3
<1>6. CASE v > MaxV /\ n <= 1
    <2>1. Limit(c) = [v |-> Sign(v) * MaxV, w |-> 0]
        BY <1>1, <1>2, <1>6 DEF Limit, n
    <2> QED
        BY <1>1, <1>2, <2>1
<1>7. CASE v > MaxV /\ n > 1 /\ v * MaxW >= MaxV * n
    <2>1. Limit(c) = bySpeed
        BY <1>1, <1>2, <1>7 DEF Limit, n
    <2>2. (MaxV * n) \div v \in Nat /\ (MaxV * n) \div v <= MaxW
        <3>1. MaxV * n \in Nat /\ MaxV * n <= MaxW * v /\ v > 0
            BY <1>1, <1>2, <1>7
        <3> QED
            BY <1>1, <1>2, <3>1, Quotient
    <2>3. bySpeed.v = MaxV /\ bySpeed.w \in -MaxW..MaxW
        BY <1>1, <1>2, <2>2
    <2> QED
        BY <1>1, <2>1, <2>3
<1>8. CASE v > MaxV /\ n > 1 /\ v * MaxW < MaxV * n
    <2>1. Limit(c) = byTurn
        BY <1>1, <1>2, <1>8 DEF Limit, n
    <2>2. MaxW * v <= MaxV * n
        BY <1>1, <1>2, <1>8
    <2> QED
        BY <1>2, <1>4, <1>8, <2>1, <2>2
<1> QED
    BY <1>1, <1>2, <1>3, <1>5, <1>6, <1>7, <1>8

\* What _limit puts out is on the arc of what it is given, up to the rounding of
\* the component it scales.
LEMMA LimitKeepsArc ==
    ASSUME NEW v \in Nat, NEW w \in Int
    PROVE  LET c == [v |-> v, w |-> w]
               d == Limit(c)
           IN  Abs(d.v * w - d.w * v) <= IF v > Abs(w) THEN v ELSE Abs(w)
<1> DEFINE c == [v |-> v, w |-> w]
           n == Abs(w)
           sg == Sign(w)
           Bound == IF v > n THEN v ELSE n
           byTurn == [v |-> Sign(v) * ((MaxW * v) \div n), w |-> sg * MaxW]
           bySpeed == [v |-> Sign(v) * MaxV, w |-> sg * ((MaxV * n) \div v)]
<1>1. MaxV \in Nat \ {0} /\ MaxW \in Nat \ {0}
    BY PipelineAssumption
<1>2. /\ n \in Nat /\ Abs(v) = v /\ Sign(v) = 1
      /\ (sg = 1 /\ w = n) \/ (sg = -1 /\ w = -n)
    BY DEF Abs, Sign
<1>3. \A e, r, b \in Int : (e = r \/ e = -r) /\ 0 <= r /\ r < b => Abs(e) <= b
    BY DEF Abs
<1>4. Bound \in Nat /\ n <= Bound /\ v <= Bound
    BY <1>2
<1> HIDE DEF n, sg, Bound
<1>5. ASSUME v <= MaxV /\ n <= MaxW
      PROVE  Abs(Limit(c).v * w - Limit(c).w * v) <= Bound
    <2>1. Limit(c) = c
        BY <1>1, <1>2, <1>5 DEF Limit, n
    <2>2. v * w - w * v = 0
        OBVIOUS
    <2>3. Abs(v * w - w * v) <= Bound
        BY <1>4, <2>2 DEF Abs
    <2> QED
        BY <2>1, <2>3
<1>6. ASSUME n > 0, Limit(c) = byTurn
      PROVE  Abs(Limit(c).v * w - Limit(c).w * v) <= Bound
    <2> DEFINE a == MaxW * v
               q == a \div n
               r == a % n
    <2>1. a \in Nat
        BY <1>1
    <2>a. a = MaxW * v
        OBVIOUS
    <2> HIDE DEF a
    <2>2. q \in Int /\ r \in Int /\ a = n * q + r /\ 0 <= r /\ r < n
        BY <1>2, <1>6, <2>1
    <2>3. Limit(c).v = q /\ Limit(c).w = sg * MaxW
        <3>1. Limit(c).v = Sign(v) * q /\ Limit(c).w = sg * MaxW
            BY <1>6, <2>a
        <3> HIDE DEF q
        <3> QED
            BY <1>2, <2>2, <3>1
    <2> HIDE DEF q, r
    <2>4. CASE sg = 1 /\ w = n
        <3>1. q * w - (sg * MaxW) * v = -r
            <4>1. q * w = n * q
                BY <1>2, <2>2, <2>4
            <4>2. (sg * MaxW) * v = a
                BY <1>1, <2>4, <2>a
            <4> QED
                BY <1>2, <2>1, <2>2, <4>1, <4>2
        <3>2. Abs(q * w - (sg * MaxW) * v) <= n
            BY <1>2, <1>3, <2>2, <3>1
        <3> QED
            BY <1>2, <1>4, <2>2, <2>3, <3>1, <3>2 DEF Abs
    <2>5. CASE sg = -1 /\ w = -n
        <3>1. q * w - (sg * MaxW) * v = r
            <4>1. q * w = -(n * q)
                BY <1>2, <2>2, <2>5
            <4>2. (sg * MaxW) * v = -a
                BY <1>1, <2>5, <2>a
            <4> QED
                BY <1>2, <2>1, <2>2, <4>1, <4>2
        <3>2. Abs(q * w - (sg * MaxW) * v) <= n
            BY <1>2, <1>3, <2>2, <3>1
        <3> QED
            BY <1>2, <1>4, <2>2, <2>3, <3>1, <3>2 DEF Abs
    <2> QED
        BY <1>2, <2>4, <2>5
<1>7. ASSUME v <= MaxV /\ n > MaxW
      PROVE  Abs(Limit(c).v * w - Limit(c).w * v) <= Bound
    <2>1. Limit(c) = byTurn /\ n > 0
        BY <1>1, <1>2, <1>7 DEF Limit, n, sg
    <2> QED
        BY <1>6, <2>1
<1>8. ASSUME v > MaxV /\ n <= 1
      PROVE  Abs(Limit(c).v * w - Limit(c).w * v) <= Bound
    <2>1. Limit(c) = [v |-> Sign(v) * MaxV, w |-> 0]
        BY <1>1, <1>2, <1>8 DEF Limit, n
    <2>2. Limit(c).v = MaxV /\ Limit(c).w = 0
        BY <1>1, <1>2, <2>1
    <2>3. w \in {0, 1, -1}
        BY <1>2, <1>8
    <2>4. MaxV * w - 0 * v \in {0, MaxV, -MaxV}
        BY <1>1, <2>3
    <2>5. Abs(MaxV * w - 0 * v) <= MaxV /\ MaxV <= Bound
        BY <1>1, <1>4, <1>8, <2>4 DEF Abs
    <2>6. Abs(MaxV * w - 0 * v) <= Bound
        <3>1. Abs(MaxV * w - 0 * v) \in Int
            BY <1>1, <2>4 DEF Abs
        <3> QED
            BY <1>1, <1>4, <2>5, <3>1
    <2> QED
        BY <2>2, <2>6
<1>9. ASSUME v > MaxV /\ n > 1 /\ v * MaxW >= MaxV * n
      PROVE  Abs(Limit(c).v * w - Limit(c).w * v) <= Bound
    <2> DEFINE a == MaxV * n
               q == a \div v
               r == a % v
    <2>1. a \in Nat /\ v > 0
        BY <1>1, <1>2, <1>9
    <2>a. a = MaxV * n
        OBVIOUS
    <2> HIDE DEF a
    <2>2. q \in Int /\ r \in Int /\ a = v * q + r /\ 0 <= r /\ r < v
        BY <1>2, <2>1
    <2>3. Limit(c).v = MaxV /\ Limit(c).w = sg * q
        <3>1. Limit(c) = bySpeed
            BY <1>1, <1>2, <1>9 DEF Limit, n, sg
        <3>2. Limit(c).v = Sign(v) * MaxV /\ Limit(c).w = sg * q
            BY <2>a, <3>1
        <3> QED
            BY <1>1, <1>2, <3>2
    <2> HIDE DEF q, r
    <2>4. CASE sg = 1 /\ w = n
        <3>1. MaxV * w - (sg * q) * v = r
            <4>1. (sg * q) * v = v * q
                BY <2>2, <2>4
            <4> QED
                BY <2>1, <2>2, <2>4, <2>a, <4>1
        <3>2. Abs(MaxV * w - (sg * q) * v) <= v
            BY <1>3, <2>2, <3>1
        <3> QED
            BY <1>4, <2>2, <2>3, <3>1, <3>2 DEF Abs
    <2>5. CASE sg = -1 /\ w = -n
        <3>1. MaxV * w - (sg * q) * v = -r
            <4>1. (sg * q) * v = -(v * q)
                BY <2>2, <2>5
            <4>2. MaxV * w = -a
                BY <1>1, <1>2, <2>5, <2>a
            <4> QED
                BY <1>2, <2>1, <2>2, <4>1, <4>2
        <3>2. Abs(MaxV * w - (sg * q) * v) <= v
            BY <1>3, <2>2, <3>1
        <3> QED
            BY <1>4, <2>2, <2>3, <3>1, <3>2 DEF Abs
    <2> QED
        BY <1>2, <2>4, <2>5
<1>10. ASSUME v > MaxV /\ n > 1 /\ v * MaxW < MaxV * n
      PROVE  Abs(Limit(c).v * w - Limit(c).w * v) <= Bound
    <2>1. Limit(c) = byTurn /\ n > 0
        BY <1>1, <1>2, <1>10 DEF Limit, n, sg
    <2> QED
        BY <1>6, <2>1
<1>11. Abs(Limit(c).v * w - Limit(c).w * v) <= Bound
    BY <1>1, <1>2, <1>5, <1>7, <1>8, <1>9, <1>10
<1> QED
    BY <1>11 DEF Bound, n

Waypoints == [x : Int, y : Int, cos : {-1, 0, 1}, sin : {-1, 0, 1}]

\* The law never asks to go backwards, and for whole numbers.
LEMMA LawForwards ==
    ASSUME NEW wp \in Waypoints
    PROVE  \E v \in Nat, w \in Int : PD(wp) = [v |-> v, w |-> w]
<1> DEFINE angular == CASE wp.x = 0 /\ wp.y = 0 -> IF wp.sin = 0 /\ wp.cos > 0 THEN 0
                                                   ELSE AngularClip * Sign(wp.sin)
                        [] wp.x = 0 /\ wp.y # 0 -> AngularClip * Sign(wp.y)
                        [] wp.x # 0 -> Sign(wp.x) * Quot(3000 * wp.y, Abs(wp.x))
<1>1. wp.x \in Int /\ wp.y \in Int /\ wp.sin \in Int /\ wp.cos \in Int
    BY DEF Waypoints
<1>2. angular \in Int
    <2>1. CASE wp.x = 0 /\ wp.y = 0
        BY <1>1, <2>1 DEF AngularClip, Sign
    <2>2. CASE wp.x = 0 /\ wp.y # 0
        BY <1>1, <2>2 DEF AngularClip, Sign
    <2>3. CASE wp.x # 0
        <3>1. Abs(3000 * wp.y) \in Nat /\ Abs(wp.x) \in Nat /\ Abs(wp.x) > 0
            BY <1>1, <2>3 DEF Abs
        <3>2. Abs(3000 * wp.y) \div Abs(wp.x) \in Int
            BY <3>1
        <3>3. Sign(wp.x) \in Int /\ Sign(3000 * wp.y) \in Int
            BY <1>1 DEF Sign
        <3>4. Quot(3000 * wp.y, Abs(wp.x)) \in Int
            BY <3>2, <3>3 DEF Quot
        <3>5. angular = Sign(wp.x) * Quot(3000 * wp.y, Abs(wp.x))
            BY <2>3
        <3> HIDE DEF angular
        <3> QED
            BY <3>3, <3>4, <3>5
    <2> QED
        BY <1>1, <2>1, <2>2, <2>3
<1> HIDE DEF angular
<1>3. Clip(0, 30 * wp.x, LinearClip) \in Nat
    BY <1>1 DEF Clip, LinearClip
<1>4. Clip(-AngularClip, angular, AngularClip) \in Int
    BY <1>2 DEF Clip, AngularClip
<1>5. PD(wp) = [v |-> Clip(0, 30 * wp.x, LinearClip),
                w |-> Clip(-AngularClip, angular, AngularClip)]
    BY Zenon DEF PD, angular
<1> QED
    BY <1>3, <1>4, <1>5

\* compute() looks at one waypoint of the path.
LEMMA TargetType == \A to \in Seq(Waypoints) : to # <<>> => Target(to) \in Waypoints
<1> SUFFICES ASSUME NEW to \in Seq(Waypoints), to # <<>> PROVE Target(to) \in Waypoints
    OBVIOUS
<1>1. Select \in Nat
    BY PipelineAssumption
<1>2. Len(to) \in Nat /\ Len(to) >= 1
    OBVIOUS
<1>3. to[Len(to)] \in Waypoints
    BY <1>2
<1>4. ~(Select >= Len(to)) => to[Select + 1] \in Waypoints
    BY <1>1, <1>2
<1> QED
    BY ONLY <1>3, <1>4 DEF Target

\* WaypointPD.compute (waypoint_pd.py:79-129) keeps every command within max_v and
\* max_w and never reverses, for every path of any length and every positive limit.
THEOREM ComputeWithinLimits ==
    ASSUME NEW to \in Seq(Waypoints)
    PROVE  Compute(to).v \in 0..MaxV /\ Compute(to).w \in -MaxW..MaxW
<1>1. CASE to = <<>>
    <2>1. MaxV \in Nat /\ MaxW \in Nat
        BY PipelineAssumption
    <2>2. Compute(to) = [v |-> 0, w |-> 0]
        BY <1>1, Zenon DEF Compute, StopCmd
    <2> QED
        BY <2>1, <2>2
<1>2. CASE to # <<>>
    <2>1. Target(to) \in Waypoints
        BY <1>2, TargetType
    <2>2. PICK v \in Nat, w \in Int : PD(Target(to)) = [v |-> v, w |-> w]
        BY <2>1, LawForwards
    <2>3. Compute(to) = Limit([v |-> v, w |-> w])
        BY <1>2, <2>2 DEF Compute
    <2> QED
        BY <2>3, LimitBounds
<1> QED
    BY <1>1, <1>2

-----------------------------------------------------------------------------
(* Sums.                                                                    *)

\* g adds up the values that f has on s.
SumsOn(g, f, s, k) ==
    g[0] = 0 /\ \A i \in 1..k : g[i] = g[i - 1] + (IF i \in s THEN f[i] ELSE 0)

\* Every set of numbers has a sum, which loses f[x] with x and is, of all of
\* them, the last of the sums that f adds up to.
LEMMA SumOnSets ==
    ASSUME NEW k \in Nat, NEW f \in [1..k -> Int]
    PROVE  \E h \in [SUBSET (1..k) -> Int] :
            /\ h[{}] = 0
            /\ \A s \in SUBSET (1..k) : \A x \in s : h[s] = f[x] + h[s \ {x}]
            /\ \A P \in [0..k -> Int] : SumsOn(P, f, 1..k, k) => h[1..k] = P[k]
<1>1. \A s \in SUBSET (1..k) : \E g \in [0..k -> Int] : SumsOn(g, f, s, k)
    <2> SUFFICES ASSUME NEW s \in SUBSET (1..k)
                 PROVE  \E g \in [0..k -> Int] : SumsOn(g, f, s, k)
        OBVIOUS
    <2> DEFINE step == [i \in 1..k |-> [p \in Int |-> p + (IF i \in s THEN f[i] ELSE 0)]]
    <2>1. step \in [(0 + 1)..k -> [Int -> Int]] /\ 0 \in Nat /\ 0 \in Int
        OBVIOUS
    <2>2. \A i \in 1..k, p \in Int : step[i][p] = p + (IF i \in s THEN f[i] ELSE 0)
        OBVIOUS
    <2> HIDE DEF step
    <2>3. PICK g \in [0..k -> Int] : Iterates(g, 0, k, 0, step)
        BY ONLY <2>1, IterateExists, k \in Nat
    <2>4. g[0] = 0
        BY <2>3 DEF Iterates
    <2>5. ASSUME NEW i \in 1..k PROVE g[i] = g[i - 1] + (IF i \in s THEN f[i] ELSE 0)
        <3>1. i \in 0..k /\ i # 0 /\ i - 1 \in 0..k
            OBVIOUS
        <3>2. g[i] = step[i][g[i - 1]] /\ g[i - 1] \in Int
            BY <2>3, <3>1 DEF Iterates
        <3> QED
            BY <2>2, <3>2
    <2> QED
        BY <2>4, <2>5 DEF SumsOn
<1> DEFINE g == [s \in SUBSET (1..k) |-> CHOOSE g \in [0..k -> Int] : SumsOn(g, f, s, k)]
           h == [s \in SUBSET (1..k) |-> g[s][k]]
<1>2. \A s \in SUBSET (1..k) : g[s] \in [0..k -> Int] /\ SumsOn(g[s], f, s, k)
    BY <1>1
<1> HIDE DEF g
<1>3. k \in 0..k
    OBVIOUS
<1>4. h \in [SUBSET (1..k) -> Int]
    BY <1>2, <1>3
<1>5. g[{}][k] = 0
    <2> DEFINE G == {i \in 0..k : g[{}][i] = 0}
    <2>1. {} \in SUBSET (1..k)
        OBVIOUS
    <2>2. 0 \in G
        BY <1>2, <2>1 DEF SumsOn
    <2>3. ASSUME NEW i \in 1..k, i - 1 \in G PROVE i \in G
        <3>1. g[{}][i] = g[{}][i - 1] + 0
            BY <1>2, <2>1 DEF SumsOn
        <3> QED
            BY <2>3, <3>1
    <2>4. k \in G
        <3> HIDE DEF G
        <3> QED
            BY <1>3, <2>2, <2>3, Upwards
    <2> QED
        BY <2>4
<1>6. ASSUME NEW s \in SUBSET (1..k), NEW x \in s
      PROVE  g[s][k] = f[x] + g[s \ {x}][k]
    <2> DEFINE r == s \ {x}
               G == {i \in 0..k : g[s][i] = (IF i >= x THEN f[x] ELSE 0) + g[r][i]}
    <2>1. r \in SUBSET (1..k) /\ x \in 1..k /\ f[x] \in Int
        OBVIOUS
    <2>2. \A i \in 1..k : (i \in s) = (i \in r \/ i = x)
        OBVIOUS
    <2>3. x \notin r
        OBVIOUS
    <2> HIDE DEF r
    <2>4. 0 \in G
        <3>1. g[s][0] = 0 /\ g[r][0] = 0
            BY <1>2, <2>1 DEF SumsOn
        <3>2. 0 \in 0..k /\ ~(0 >= x)
            BY <2>1
        <3> QED
            BY <3>1, <3>2
    <2>5. ASSUME NEW i \in 1..k, i - 1 \in G PROVE i \in G
        <3>1. /\ g[s][i] = g[s][i - 1] + (IF i \in s THEN f[i] ELSE 0)
              /\ g[r][i] = g[r][i - 1] + (IF i \in r THEN f[i] ELSE 0)
            BY <1>2, <2>1 DEF SumsOn
        <3>2. i \in 0..k /\ i - 1 \in 0..k /\ f[i] \in Int
            OBVIOUS
        <3>3. g[s][i - 1] \in Int /\ g[r][i - 1] \in Int
            BY <1>2, <2>1, <3>2
        <3>4. g[s][i - 1] = (IF i - 1 >= x THEN f[x] ELSE 0) + g[r][i - 1]
            BY <2>5
        <3>5. g[s][i] = (IF i >= x THEN f[x] ELSE 0) + g[r][i]
            <4>1. CASE i = x
                <5>1. i \in s /\ i \notin r /\ ~(i - 1 >= x) /\ i >= x
                    BY <2>1, <2>3, <4>1
                <5> QED
                    BY ONLY <2>1, <3>1, <3>2, <3>3, <3>4, <4>1, <5>1
            <4>2. CASE i # x
                <5>1. (i \in s) = (i \in r) /\ (i - 1 >= x) = (i >= x)
                    BY <2>1, <2>2, <4>2
                <5> QED
                    BY ONLY <2>1, <3>1, <3>2, <3>3, <3>4, <5>1
            <4> QED
                BY <4>1, <4>2
        <3> QED
            BY <3>2, <3>5
    <2>6. k \in G
        <3> HIDE DEF G
        <3> QED
            BY <1>3, <2>4, <2>5, Upwards
    <2>7. k >= x
        BY <2>1
    <2> QED
        BY <2>6, <2>7 DEF r
<1>7. ASSUME NEW P \in [0..k -> Int], SumsOn(P, f, 1..k, k)
      PROVE  g[1..k][k] = P[k]
    <2> DEFINE G == {i \in 0..k : g[1..k][i] = P[i]}
    <2>1. 1..k \in SUBSET (1..k)
        OBVIOUS
    <2>2. 0 \in G
        BY <1>2, <1>7, <2>1 DEF SumsOn
    <2>3. ASSUME NEW i \in 1..k, i - 1 \in G PROVE i \in G
        <3>1. /\ g[1..k][i] = g[1..k][i - 1] + f[i]
              /\ P[i] = P[i - 1] + f[i]
            BY <1>2, <1>7, <2>1 DEF SumsOn
        <3> QED
            BY <2>3, <3>1
    <2>4. k \in G
        <3> HIDE DEF G
        <3> QED
            BY <1>3, <2>2, <2>3, Upwards
    <2> QED
        BY <2>4
<1>8. /\ h[{}] = g[{}][k] /\ h[1..k] = g[1..k][k]
      /\ \A s \in SUBSET (1..k) : \A x \in s : h[s] = g[s][k] /\ h[s \ {x}] = g[s \ {x}][k]
    OBVIOUS
<1> HIDE DEF h
<1>9. \A s \in SUBSET (1..k) : \A x \in s : h[s] = f[x] + h[s \ {x}]
    BY <1>6, <1>8
<1>10. \A P \in [0..k -> Int] : SumsOn(P, f, 1..k, k) => h[1..k] = P[k]
    BY <1>7, <1>8
<1> QED
    BY ONLY <1>4, <1>5, <1>8, <1>9, <1>10

\* FoldFunctionOnSet takes the values in an order of its own; their sum is what
\* they add up to in the order of the sequence.
LEMMA SumIs ==
    ASSUME NEW n \in Nat, NEW f, NEW P \in [0..n -> Int], P[0] = 0,
           \A i \in 1..n : f[i] \in Int /\ P[i] = P[i - 1] + f[i], NEW k \in 0..n
    PROVE  Sum(f, k) = P[k]
<1> DEFINE one(s) == CHOOSE x \in s : TRUE
           F(g) == [s \in SUBSET (1..k) |-> IF s = {} THEN 0 ELSE f[one(s)] + g[s \ {one(s)}]]
           iter == CHOOSE g : g = F(g)
           fk == [i \in 1..k |-> f[i]]
           Pk == [i \in 0..k |-> P[i]]
<1>1. Sum(f, k) = iter[1..k]
    BY Zenon DEF Sum, FoldFunctionOnSet, MapThenFoldSet
<1>2. k \in Nat /\ k \in 0..k /\ 1..k \subseteq 1..n /\ 0..k \subseteq 0..n /\ 0 \in 0..k
    OBVIOUS
<1>3. fk \in [1..k -> Int] /\ \A i \in 1..k : fk[i] = f[i]
    BY <1>2
<1>4. Pk \in [0..k -> Int] /\ Pk[k] = P[k] /\ Pk[0] = 0
    BY <1>2
<1>5. SumsOn(Pk, fk, 1..k, k)
    <2>1. \A i \in 1..k : i \in 0..k /\ i - 1 \in 0..k /\ i \in 1..n
        BY <1>2
    <2>2. \A i \in 1..k : Pk[i] = P[i] /\ Pk[i - 1] = P[i - 1]
        BY <2>1
    <2> HIDE DEF Pk, fk
    <2> QED
        BY <1>3, <1>4, <2>1, <2>2 DEF SumsOn
<1>6. \A s : s # {} => one(s) \in s
    OBVIOUS
<1> HIDE DEF one, fk, Pk
<1>7. PICK h \in [SUBSET (1..k) -> Int] :
        /\ h[{}] = 0
        /\ \A s \in SUBSET (1..k) : \A x \in s : h[s] = fk[x] + h[s \ {x}]
        /\ \A Q \in [0..k -> Int] : SumsOn(Q, fk, 1..k, k) => h[1..k] = Q[k]
    BY ONLY <1>2, <1>3, SumOnSets
<1>8. ASSUME NEW s \in SUBSET (1..k)
      PROVE  h[s] = IF s = {} THEN 0 ELSE f[one(s)] + h[s \ {one(s)}]
    <2>1. CASE s = {}
        BY <1>7, <2>1
    <2>2. CASE s # {}
        <3>1. one(s) \in s /\ one(s) \in 1..k
            BY <1>6, <2>2
        <3>2. h[s] = fk[one(s)] + h[s \ {one(s)}] /\ fk[one(s)] = f[one(s)]
            BY <1>3, <1>7, <3>1
        <3> QED
            BY <2>2, <3>2
    <2> QED
        BY <2>1, <2>2
<1>9. h = F(h)
    BY <1>8
<1>10. iter = F(iter)
    BY <1>9
<1> HIDE DEF iter
<1>11. \A s \in SUBSET (1..k) : iter[s] = IF s = {} THEN 0 ELSE f[one(s)] + iter[s \ {one(s)}]
    BY <1>10
\* A set on which the two differ would have a smaller one.
<1>12. \A s \in SUBSET (1..k) : IsFiniteSet(s) /\ Cardinality(s) \in Nat
    <2>1. IsFiniteSet(1..k)
        BY <1>2, 1 \in Int, k \in Int, FS_Interval
    <2> QED
        BY <2>1, FS_Subset, FS_CardinalityType
<1>13. ASSUME NEW t \in SUBSET (1..k), iter[t] # h[t] PROVE FALSE
    <2> DEFINE Bad == {s \in SUBSET (1..k) : iter[s] # h[s]}
               Sizes == {Cardinality(s) : s \in Bad}
    <2>1. PICK m \in Sizes : \A j \in Sizes : m <= j
        <3>1. Sizes \in SUBSET Nat /\ Sizes # {}
            <4>1. \A s \in Bad : Cardinality(s) \in Nat
                BY <1>12
            <4>2. t \in Bad
                BY <1>13
            <4> HIDE DEF Bad
            <4> QED
                BY <4>1, <4>2
        <3> QED
            BY ONLY <3>1, LeastNat
    <2>2. PICK s \in Bad : Cardinality(s) = m
        BY <2>1
    <2>3. s # {}
        BY <1>8, <1>11, <2>2
    <2>4. one(s) \in s /\ s \ {one(s)} \in SUBSET (1..k)
        BY <1>6, <2>2, <2>3
    <2>5. Cardinality(s \ {one(s)}) = Cardinality(s) - 1
        BY <1>12, <2>2, <2>4, FS_RemoveElement
    <2>6. ~(Cardinality(s) <= Cardinality(s) - 1)
        BY <1>12, <2>2
    <2>7. s \ {one(s)} \notin Bad
        BY <2>1, <2>2, <2>5, <2>6
    <2>8. iter[s \ {one(s)}] = h[s \ {one(s)}]
        BY <2>4, <2>7
    <2> QED
        BY <1>8, <1>11, <2>2, <2>3, <2>8
<1>14. iter[1..k] = h[1..k]
    BY <1>13
<1> QED
    BY <1>1, <1>4, <1>5, <1>7, <1>14

-----------------------------------------------------------------------------
(* Chunks.                                                                  *)

Moves == [x : Int, y : Int, h : Int]

\* A waypoint of a chunk has whole numbers.
LEMMA MoveFields ==
    ASSUME NEW c \in Seq(Moves), NEW i \in DOMAIN c
    PROVE  c[i].x \in Int /\ c[i].y \in Int /\ c[i].h \in Int
<1>1. c[i] \in Moves
    OBVIOUS
<1> QED
    BY <1>1 DEF Moves

\* A function on the numbers of a sequence is a sequence of that length.
LEMMA SameLength ==
    ASSUME NEW S, NEW T, NEW c \in Seq(S), NEW d \in [DOMAIN c -> T]
    PROVE  d \in Seq(T) /\ Len(d) = Len(c) /\ DOMAIN d = DOMAIN c /\ DOMAIN c = 1..Len(c)
OBVIOUS

LEMMA ChunksAreMoves == \A c \in Chunks : c \in Seq(Moves) /\ Len(c) >= 1
<1> SUFFICES ASSUME NEW c \in Chunks PROVE c \in Seq(Moves) /\ Len(c) >= 1
    OBVIOUS
<1>1. PICK n \in 1..MaxLen : c \in [1..n -> Steps]
    BY DEF Chunks
<1>2. n \in Nat /\ n >= 1 /\ c \in [1..n -> Moves]
    BY <1>1, PipelineAssumption DEF Moves
<1> QED
    BY <1>2

\* Scaled to metres, a waypoint keeps its heading and its place up to rounding.
LEMMA ToMetresFacts ==
    ASSUME NEW c \in Seq(Moves)
    PROVE  /\ ToMetres(c) \in Seq(Moves) /\ Len(ToMetres(c)) = Len(c)
           /\ DOMAIN ToMetres(c) = DOMAIN c
           /\ \A i \in DOMAIN c :
                /\ Rounds(ToMetres(c)[i].x * Spacings, c[i].x, Spacings)
                /\ Rounds(ToMetres(c)[i].y * Spacings, c[i].y, Spacings)
                /\ ToMetres(c)[i].h = c[i].h
<1>1. Spacings \in Nat /\ Spacings > 0
    BY DEF Spacings
<1>2. ASSUME NEW i \in DOMAIN c
      PROVE  /\ Quot(c[i].x, Spacings) \in Int /\ Rounds(Quot(c[i].x, Spacings) * Spacings, c[i].x, Spacings)
             /\ Quot(c[i].y, Spacings) \in Int /\ Rounds(Quot(c[i].y, Spacings) * Spacings, c[i].y, Spacings)
             /\ c[i].h \in Int
    BY <1>1, MoveFields, QuotRounds
<1>3. ToMetres(c) \in [DOMAIN c -> Moves]
    BY <1>2 DEF ToMetres, Moves
<1>4. \A i \in DOMAIN c :
        /\ ToMetres(c)[i].x = Quot(c[i].x, Spacings) /\ ToMetres(c)[i].y = Quot(c[i].y, Spacings)
        /\ ToMetres(c)[i].h = c[i].h
    BY DEF ToMetres
<1> QED
    BY <1>2, <1>3, <1>4, SameLength

\* The waypoints p are where c has them, in units of which a metre has so many.
InPlace(p, c, unit) ==
    \A i \in DOMAIN c :
        Rounds(p[i].x * unit, c[i].x, unit) /\ Rounds(p[i].y * unit, c[i].y, unit)

\* A chunk in metres is in place as it is.
LEMMA SamePlace == ASSUME NEW c \in Seq(Moves), NEW p, \A i \in DOMAIN c : p[i].x = c[i].x /\ p[i].y = c[i].y
                   PROVE  InPlace(p, c, 1)
<1>1. \A n \in Int : Rounds(n * 1, n, 1)
    BY DEF Rounds, Abs
<1> QED
    BY <1>1, MoveFields DEF InPlace

\* trajectory_to_path makes a path of any chunk, in place.
LEMMA PathFacts ==
    ASSUME NEW c \in Seq(Moves), NEW scaled \in BOOLEAN
    PROVE  /\ TrajectoryToPath(c, scaled) \in Seq(Waypoints)
           /\ Len(TrajectoryToPath(c, scaled)) = Len(c) /\ DOMAIN TrajectoryToPath(c, scaled) = DOMAIN c
           /\ InPlace(TrajectoryToPath(c, scaled), c, IF scaled THEN 1 ELSE Spacings)
<1> DEFINE wp == IF scaled THEN c ELSE ToMetres(c)
           p == TrajectoryToPath(c, scaled)
<1>1. p = [i \in DOMAIN c |-> [x |-> wp[i].x, y |-> wp[i].y, cos |-> Cos(wp[i].h), sin |-> Sin(wp[i].h)]]
    BY DEF TrajectoryToPath
<1>2. wp \in Seq(Moves) /\ DOMAIN wp = DOMAIN c
    BY ToMetresFacts
<1>3. \A h \in Int : Cos(h) \in {-1, 0, 1} /\ Sin(h) \in {-1, 0, 1}
    BY DEF Cos, Sin
<1> HIDE DEF wp
<1>4. p \in [DOMAIN c -> Waypoints]
    BY <1>1, <1>2, <1>3, MoveFields DEF Waypoints
<1>5. p \in Seq(Waypoints) /\ Len(p) = Len(c) /\ DOMAIN p = DOMAIN c
    BY <1>4, SameLength
<1>6. \A i \in DOMAIN c : p[i].x = wp[i].x /\ p[i].y = wp[i].y
    BY <1>1
<1> HIDE DEF p
<1>7. CASE scaled
    <2>1. wp = c
        BY <1>7 DEF wp
    <2>2. InPlace(p, c, 1)
        BY <1>6, <2>1, SamePlace
    <2> QED
        BY <1>5, <1>7, <2>2 DEF p
<1>8. CASE ~scaled
    <2>1. wp = ToMetres(c)
        BY <1>8 DEF wp
    <2>2. InPlace(p, c, Spacings)
        BY <1>6, <2>1, ToMetresFacts DEF InPlace
    <2> QED
        BY <1>5, <1>8, <2>2 DEF p
<1> QED
    BY <1>7, <1>8

\* A chunk of increments is the sequence of their sums.
LEMMA CumsumIs ==
    ASSUME NEW c \in Seq(Moves)
    PROVE  \E f \in [0..Len(c) -> [x : Int, y : Int]] :
            /\ f[0] = [x |-> 0, y |-> 0]
            /\ \A i \in 1..Len(c) : f[i] = [x |-> f[i - 1].x + c[i].x, y |-> f[i - 1].y + c[i].y]
            /\ Cumsum(c) = [i \in DOMAIN c |-> [x |-> f[i].x, y |-> f[i].y, h |-> c[i].h]]
<1> DEFINE S == [x : Int, y : Int]
           n == Len(c)
           s0 == [x |-> 0, y |-> 0]
           F(f) == [i \in 0..n |-> IF i = 0 THEN [x |-> 0, y |-> 0]
                       ELSE [x |-> f[i - 1].x + c[i].x, y |-> f[i - 1].y + c[i].y]]
           sum == CHOOSE f : f = F(f)
           step == [i \in 1..n |-> [p \in S |-> [x |-> p.x + c[i].x, y |-> p.y + c[i].y]]]
<1>1. Cumsum(c) = [i \in DOMAIN c |-> [x |-> sum[i].x, y |-> sum[i].y, h |-> c[i].h]]
    BY DEF Cumsum
<1>2. n \in Nat /\ s0 \in S /\ DOMAIN c = 1..n
    OBVIOUS
<1>3. \A i \in 1..n : c[i].x \in Int /\ c[i].y \in Int
    BY <1>2, MoveFields
<1>4. step \in [1..n -> [S -> S]]
    BY <1>3
<1> HIDE DEF n, S, step, s0
<1>5. PICK g \in [0..n -> S] : Iterates(g, 0, n, s0, step)
    <2>1. step \in [(0 + 1)..n -> [S -> S]] /\ 0 \in Nat
        BY <1>4
    <2> QED
        BY ONLY <1>2, <2>1, IterateExists
<1>6. g = F(g)
    <2>1. ASSUME NEW i \in 0..n
          PROVE  g[i] = IF i = 0 THEN [x |-> 0, y |-> 0]
                        ELSE [x |-> g[i - 1].x + c[i].x, y |-> g[i - 1].y + c[i].y]
        <3>1. CASE i = 0
            BY <1>5, <3>1 DEF Iterates, s0
        <3>2. CASE i # 0
            <4>1. i \in 1..n /\ i - 1 \in 0..n
                BY <1>2, <3>2
            <4>2. g[i] = step[i][g[i - 1]] /\ g[i - 1] \in S
                BY <1>5, <3>2, <4>1 DEF Iterates
            <4> QED
                BY <3>2, <4>1, <4>2 DEF step
        <3> QED
            BY <3>1, <3>2
    <2> QED
        BY <2>1
<1>7. sum = F(sum)
    BY <1>6
<1> HIDE DEF sum
\* The function is the only one.
<1>8. \A i \in 0..n : sum[i] = g[i]
    <2> DEFINE G == {i \in 0..n : sum[i] = g[i]}
    <2>1. 0 \in G
        <3>1. \A f : f = F(f) => f[0] = [x |-> 0, y |-> 0]
            BY <1>2
        <3> HIDE DEF F
        <3> QED
            BY <1>2, <1>6, <1>7, <3>1
    <2>2. ASSUME NEW j \in 1..n, j - 1 \in G PROVE j \in G
        <3>1. \A f : f = F(f) => f[j] = [x |-> f[j - 1].x + c[j].x, y |-> f[j - 1].y + c[j].y]
            BY <1>2
        <3> HIDE DEF F
        <3>2. /\ g[j] = [x |-> g[j - 1].x + c[j].x, y |-> g[j - 1].y + c[j].y]
              /\ sum[j] = [x |-> sum[j - 1].x + c[j].x, y |-> sum[j - 1].y + c[j].y]
            BY ONLY <1>6, <1>7, <3>1
        <3>3. sum[j - 1] = g[j - 1] /\ j \in 0..n
            BY <1>2, <2>2
        <3> QED
            BY ONLY <3>2, <3>3
    <2> HIDE DEF G
    <2>3. \A i \in 0..n : i \in G
        BY ONLY <1>2, <2>1, <2>2, Upwards
    <2> QED
        BY <2>3 DEF G
<1>9. \A i \in 1..n : i \in 0..n /\ i # 0
    BY <1>2
<1>10. /\ g[0] = [x |-> 0, y |-> 0]
       /\ \A i \in 1..n : g[i] = [x |-> g[i - 1].x + c[i].x, y |-> g[i - 1].y + c[i].y]
    BY <1>2, <1>6, <1>9
<1>11. Cumsum(c) = [i \in DOMAIN c |-> [x |-> g[i].x, y |-> g[i].y, h |-> c[i].h]]
    BY <1>1, <1>2, <1>8, <1>9
<1> QED
    BY <1>5, <1>10, <1>11 DEF n, S

LEMMA CosSin == \A h \in Int : Cos(h) \in {-1, 0, 1} /\ Sin(h) \in {-1, 0, 1}
BY DEF Cos, Sin

\* A pose and a step in its frame.
Onto(p, d) ==
    [x |-> p.x + Cos(p.h) * d.x - Sin(p.h) * d.y,
     y |-> p.y + Sin(p.h) * d.x + Cos(p.h) * d.y, h |-> p.h + d.h]

LEMMA OntoType == \A p, d \in Moves : Onto(p, d) \in Moves
<1> SUFFICES ASSUME NEW p \in Moves, NEW d \in Moves PROVE Onto(p, d) \in Moves
    OBVIOUS
<1>1. /\ p.x \in Int /\ p.y \in Int /\ p.h \in Int /\ d.x \in Int /\ d.y \in Int /\ d.h \in Int
      /\ Cos(p.h) \in {-1, 0, 1} /\ Sin(p.h) \in {-1, 0, 1}
    BY CosSin DEF Moves
<1>2. \A a \in {-1, 0, 1}, n \in Int : a * n \in Int
    OBVIOUS
<1>3. /\ Cos(p.h) * d.x \in Int /\ Sin(p.h) * d.y \in Int
      /\ Sin(p.h) * d.x \in Int /\ Cos(p.h) * d.y \in Int
    BY <1>1, <1>2
<1>4. /\ p.x + Cos(p.h) * d.x - Sin(p.h) * d.y \in Int
      /\ p.y + Sin(p.h) * d.x + Cos(p.h) * d.y \in Int /\ p.h + d.h \in Int
    BY <1>1, <1>3
<1> QED
    BY <1>4 DEF Onto, Moves

\* A chunk of steps in each other's frame is the sequence of their poses.
LEMMA DeltaToPoseIs ==
    ASSUME NEW c \in Seq(Moves)
    PROVE  \E f \in [1..Len(c) -> Moves] :
            /\ \A i \in 1..Len(c) : f[i] = IF i = 1 THEN c[1] ELSE Onto(f[i - 1], c[i])
            /\ DeltaToPose(c) = [i \in DOMAIN c |-> f[i]]
<1> DEFINE n == Len(c)
           F(f) == [i \in 1..n |->
                        IF i = 1 THEN c[1]
                        ELSE [x |-> f[i-1].x + Cos(f[i-1].h) * c[i].x - Sin(f[i-1].h) * c[i].y,
                              y |-> f[i-1].y + Sin(f[i-1].h) * c[i].x + Cos(f[i-1].h) * c[i].y,
                              h |-> f[i-1].h + c[i].h]]
           pose == CHOOSE f : f = F(f)
           step == [i \in 2..n |-> [p \in Moves |-> Onto(p, c[i])]]
           s0 == IF n = 0 THEN [x |-> 0, y |-> 0, h |-> 0] ELSE c[1]
<1>1. DeltaToPose(c) = [i \in DOMAIN c |-> pose[i]]
    BY DEF DeltaToPose
<1>2. n \in Nat /\ DOMAIN c = 1..n /\ \A i \in 1..n : c[i] \in Moves
    OBVIOUS
<1>3. s0 \in Moves /\ (n # 0 => s0 = c[1])
    <2>1. CASE n = 0
        BY <2>1 DEF Moves
    <2>2. CASE n # 0
        <3>1. 1 \in 1..n
            BY <1>2, <2>2
        <3> QED
            BY <1>2, <2>2, <3>1
    <2> QED
        BY <2>1, <2>2
<1>4. step \in [2..n -> [Moves -> Moves]]
    <2>1. \A i \in 2..n : i \in 1..n
        BY <1>2
    <2> QED
        BY <1>2, <2>1, OntoType
<1> HIDE DEF s0, n, step
<1>5. PICK g \in [1..n -> Moves] : Iterates(g, 1, n, s0, step)
    <2>1. step \in [(1 + 1)..n -> [Moves -> Moves]] /\ 1 \in Nat
        BY <1>4
    <2> QED
        BY ONLY <1>2, <1>3, <2>1, IterateExists
<1>6. \A i \in 1..n : g[i] = IF i = 1 THEN c[1] ELSE Onto(g[i - 1], c[i])
    <2> SUFFICES ASSUME NEW i \in 1..n
                 PROVE  g[i] = IF i = 1 THEN c[1] ELSE Onto(g[i - 1], c[i])
        OBVIOUS
    <2>1. CASE i = 1
        <3>1. n # 0
            BY <1>2, <2>1
        <3> QED
            BY <1>3, <1>5, <2>1, <3>1 DEF Iterates
    <2>2. CASE i # 1
        <3>1. i \in 2..n /\ i - 1 \in 1..n
            BY <1>2, <2>2
        <3>2. g[i] = step[i][g[i - 1]] /\ g[i - 1] \in Moves
            BY <1>5, <2>2, <3>1 DEF Iterates
        <3> QED
            BY <2>2, <3>1, <3>2 DEF step
    <2> QED
        BY <2>1, <2>2
<1>7. \A f : F(f) = [i \in 1..n |-> IF i = 1 THEN c[1] ELSE Onto(f[i - 1], c[i])]
    BY DEF Onto
<1> HIDE DEF F
<1>8. g = F(g)
    BY <1>6, <1>7
<1>9. pose = F(pose)
    BY <1>8
<1> HIDE DEF pose
<1>10. pose = [i \in 1..n |-> IF i = 1 THEN c[1] ELSE Onto(pose[i - 1], c[i])]
    BY <1>7, <1>9
\* The function is the only one.
<1>11. \A i \in 1..n : pose[i] = g[i]
    <2> DEFINE G == {0} \cup {i \in 1..n : pose[i] = g[i]}
    <2>1. ASSUME NEW j \in 1..n, j - 1 \in G PROVE j \in G
        <3>1. CASE j = 1
            BY <1>6, <1>10, <3>1
        <3>2. CASE j # 1
            <4>1. pose[j - 1] = g[j - 1]
                BY <1>2, <2>1, <3>2
            <4>2. pose[j] = Onto(pose[j - 1], c[j])
                <5>1. \A f : f = [i \in 1..n |-> IF i = 1 THEN c[1] ELSE Onto(f[i - 1], c[i])]
                                => f[j] = Onto(f[j - 1], c[j])
                    BY <3>2
                <5> QED
                    BY ONLY <1>10, <5>1
            <4>3. g[j] = Onto(g[j - 1], c[j]) /\ j \in 1..n
                BY <1>6, <3>2
            <4> QED
                BY ONLY <4>1, <4>2, <4>3
        <3> QED
            BY <3>1, <3>2
    <2>2. 0 \in G
        OBVIOUS
    <2> HIDE DEF G
    <2>3. \A i \in 0..n : i \in G
        BY ONLY <1>2, <2>1, <2>2, Upwards
    <2>4. \A i \in 1..n : i \in 0..n /\ i # 0
        BY <1>2
    <2> QED
        BY <2>3, <2>4 DEF G
<1>12. DeltaToPose(c) = [i \in DOMAIN c |-> g[i]]
    BY <1>1, <1>2, <1>11
<1> QED
    BY <1>5, <1>6, <1>12 DEF n

\* Both are chunks of the same length.
LEMMA AccumulatedTypes ==
    ASSUME NEW c \in Seq(Moves)
    PROVE  /\ Cumsum(c) \in Seq(Moves) /\ Len(Cumsum(c)) = Len(c)
           /\ DeltaToPose(c) \in Seq(Moves) /\ Len(DeltaToPose(c)) = Len(c)
<1>0. DOMAIN c = 1..Len(c) /\ 1..Len(c) \subseteq 0..Len(c)
    OBVIOUS
<1>1. Cumsum(c) \in [DOMAIN c -> Moves]
    <2>1. PICK f \in [0..Len(c) -> [x : Int, y : Int]] :
            Cumsum(c) = [i \in DOMAIN c |-> [x |-> f[i].x, y |-> f[i].y, h |-> c[i].h]]
        BY CumsumIs
    <2>2. \A i \in DOMAIN c : f[i].x \in Int /\ f[i].y \in Int /\ c[i].h \in Int
        BY <1>0, MoveFields
    <2> QED
        BY <2>1, <2>2 DEF Moves
<1>2. DeltaToPose(c) \in [DOMAIN c -> Moves]
    <2>1. PICK f \in [1..Len(c) -> Moves] : DeltaToPose(c) = [i \in DOMAIN c |-> f[i]]
        BY DeltaToPoseIs
    <2> QED
        BY <1>0, <2>1
<1> QED
    BY <1>1, <1>2, SameLength

-----------------------------------------------------------------------------
(* Commands.                                                                *)

\* What the edge is sent for the network's output.
ChunkOf(r, c) ==
    CASE r = "omnivla" -> ProjectActions(c)
      [] r = "omnivla_edge" -> EdgeBackendChunk(c)
      [] r = "movla" -> ChunkToEmbedding(c)
      [] OTHER -> c

\* What is known of the chunk and the path on the way.
PathTypes ==
    /\ route \in Routes /\ stage \in Stages
    /\ route \in {"grpc", "ws"} => asked \in PhoneChunks
    /\ stage \in {"held", "proto", "python", "input", "chunk"} => route \in Clouds \cup {"local"}
    /\ stage = "chunk" => raw \in Seq(Moves) /\ chunk = ChunkOf(route, raw)
    /\ path \in Seq(Waypoints)
    /\ stage \notin {"path", "cmd"} => path = <<>>
    /\ cmd = IF stage = "cmd" THEN Compute(path) ELSE StopCmd

LEMMA StubPathType == StubPath \in Seq(Waypoints)
<1>1. StubPath \in [1..10 -> Waypoints]
    BY DEF StubPath, Waypoints
<1>2. \A n \in Nat : [1..n -> Waypoints] \subseteq Seq(Waypoints)
    OBVIOUS
<1>3. 10 \in Nat
    OBVIOUS
<1> QED
    BY ONLY <1>1, <1>2, <1>3, Zenon

\* The path an adapter makes for the route it runs on.
LEMMA AdapterPathType ==
    ASSUME PathTypes, Adapter
    PROVE  path' \in Seq(Waypoints)
<1>1. raw \in Seq(Moves) /\ chunk = ChunkOf(route, raw) /\ route \in Clouds \cup {"local"}
    BY DEF PathTypes, Adapter
<1>2. chunk \in Seq(Moves)
    BY <1>1, ToMetresFacts, AccumulatedTypes
    DEF ChunkOf, ProjectActions, EdgeBackendChunk, ChunkToEmbedding
<1>3. \A c \in Seq(Moves), b \in BOOLEAN : TrajectoryToPath(c, b) \in Seq(Waypoints)
    BY PathFacts
<1>4. OmniVLAPath(chunk) \in Seq(Waypoints)
    BY <1>2, <1>3 DEF OmniVLAPath
<1>5. AsyncVLAPath(chunk) \in Seq(Waypoints) /\ LocalPath(chunk) \in Seq(Waypoints)
    BY <1>2, <1>3, AccumulatedTypes DEF AsyncVLAPath, LocalPath
<1> QED
    BY <1>1, <1>4, <1>5, StubPathType DEF Adapter, Clouds

\* What the bridges decode of a phone's chunk.
LEMMA DecodedFacts ==
    ASSUME NEW m \in PhoneChunks
    PROVE  /\ m.values \in Seq(Moves) /\ m.scaled \in BOOLEAN
           /\ DecodeActionChunk(m) \in {None, TrajectoryToPath(m.values, m.scaled)}
           /\ DecodeChunkMsg(m) \in {None, TrajectoryToPath(m.values, m.scaled)}
           /\ TrajectoryToPath(m.values, m.scaled) \in Seq(Waypoints)
<1>1. PICK n \in 0..MaxLen, d \in {2, 4}, c \in Chunks, s \in BOOLEAN, t \in BOOLEAN :
        m = [tokens |-> n, dim |-> d, values |-> c, scaled |-> s, typed |-> t]
    BY DEF PhoneChunks
<1>2. m.values = c /\ m.scaled = s
    BY <1>1
<1>3. c \in Seq(Moves)
    BY ChunksAreMoves
<1> QED
    BY <1>2, <1>3, PathFacts DEF DecodeActionChunk, DecodeChunkMsg

LEMMA PathTypesStep == PathTypes /\ [Next]_vars => PathTypes'
<1> SUFFICES ASSUME PathTypes, [Next]_vars PROVE PathTypes'
    OBVIOUS
<1>0. <<>> \in Seq(Waypoints)
    OBVIOUS
<1>1. CASE EdgeNode
    BY <1>1 DEF EdgeNode, PathTypes, Stages
<1>9. CASE OnGoal
    BY <1>9 DEF OnGoal, PathTypes, Stages
<1>10. CASE ActionTickLocal
    BY <1>10 DEF ActionTickLocal, PathTypes, Stages
<1>2. CASE Server
    BY <1>2 DEF Server, PathTypes, Stages
<1>3. CASE Backend
    BY <1>3 DEF Backend, PathTypes, Stages
<1>4. CASE Network
    <2>1. raw' \in Seq(Moves)
        BY <1>4, ChunksAreMoves DEF Network
    <2>2. chunk' = ChunkOf(route, raw')
        BY <1>4 DEF Network, ChunkOf
    <2> QED
        BY <1>4, <2>1, <2>2 DEF Network, PathTypes, Stages
<1>5. CASE Adapter
    BY <1>5, AdapterPathType DEF Adapter, PathTypes, Stages
<1>6. CASE Bridge
    <2>1. asked \in PhoneChunks
        BY <1>6 DEF Bridge, PathTypes
    <2>2. path' \in Seq(Waypoints) /\ stage' \in {"refused", "path"}
          /\ (stage' = "refused" => path' = path)
        BY <1>6, <2>1, DecodedFacts DEF Bridge, PathTypes
    <2> QED
        BY <1>6, <2>2 DEF Bridge, PathTypes, Stages
<1>7. CASE Follower
    BY <1>7 DEF Follower, PathTypes, Stages
<1>8. CASE UNCHANGED vars
    BY <1>8 DEF vars, PathTypes
<1> QED
    BY <1>1, <1>2, <1>3, <1>4, <1>5, <1>6, <1>7, <1>8, <1>9, <1>10 DEF Next

LEMMA PathTypesInit == Init => PathTypes
<1>1. <<>> \in Seq(Waypoints)
    OBVIOUS
<1> QED
    BY <1>1 DEF Init, PathTypes, Stages

\* On every route and for whatever a network puts out, the follower's command is
\* within the robot's limits and never backwards: waypoint_pd.py:79-129 on the
\* paths that the adapters and the bridges make.
THEOREM CommandsWithinLimits == Spec => []CommandLimited
<1>1. PathTypes => CommandLimited
    <2> SUFFICES ASSUME PathTypes PROVE CommandLimited
        OBVIOUS
    <2>1. CASE stage = "cmd"
        BY <2>1, ComputeWithinLimits DEF PathTypes, CommandLimited
    <2>2. CASE stage # "cmd"
        <3>1. cmd.v = 0 /\ cmd.w = 0
            BY <2>2 DEF PathTypes, StopCmd
        <3> QED
            BY <3>1, PipelineAssumption DEF CommandLimited
    <2> QED
        BY <2>1, <2>2
<1> QED
    BY <1>1, PathTypesInit, PathTypesStep, PTL DEF Spec

\* On every route the limiter leaves the robot on the arc that the control law has
\* chosen for the waypoint it aims at, up to the rounding of one component.
THEOREM CommandsKeepArc == Spec => []ArcKept
<1>1. PathTypes => ArcKept
    <2> SUFFICES ASSUME PathTypes, stage = "cmd", path # <<>>
                 PROVE  LET c == PD(Target(path))
                        IN  Abs(cmd.v * c.w - cmd.w * c.v)
                                <= IF Abs(c.v) > Abs(c.w) THEN Abs(c.v) ELSE Abs(c.w)
        BY DEF ArcKept
    <2>1. Target(path) \in Waypoints
        BY TargetType DEF PathTypes
    <2>2. PICK v \in Nat, w \in Int : PD(Target(path)) = [v |-> v, w |-> w]
        BY <2>1, LawForwards
    <2>3. cmd = Limit([v |-> v, w |-> w])
        BY <2>2 DEF PathTypes, Compute
    <2>4. Abs(cmd.v * w - cmd.w * v) <= IF v > Abs(w) THEN v ELSE Abs(w)
        BY <2>3, LimitKeepsArc
    <2>5. Abs(v) = v
        BY DEF Abs
    <2>6. PD(Target(path)).v = v /\ PD(Target(path)).w = w
        BY <2>2
    <2> QED
        BY <2>4, <2>5, <2>6
<1> QED
    BY <1>1, PathTypesInit, PathTypesStep, PTL DEF Spec

-----------------------------------------------------------------------------
(* Paths.                                                                   *)

\* The chunk that is accumulated on the route r.
Accumulated(r, c) ==
    CASE r = "asyncvla" -> DeltaToPose(c)
      [] r \in {"omnivla_edge", "local"} -> Cumsum(c)
      [] OTHER -> c

\* The engine's loop adds up what the sums of the whole chunk add up to.
LEMMA SummedIs ==
    ASSUME raw \in Seq(Moves), NEW i \in DOMAIN raw
    PROVE  Summed(i).x = Cumsum(raw)[i].x /\ Summed(i).y = Cumsum(raw)[i].y
<1> DEFINE n == Len(raw)
           fx == [j \in DOMAIN raw |-> raw[j].x]
           fy == [j \in DOMAIN raw |-> raw[j].y]
<1>1. n \in Nat /\ DOMAIN raw = 1..n /\ i \in 0..n
    OBVIOUS
<1>2. PICK f \in [0..n -> [x : Int, y : Int]] :
        /\ f[0] = [x |-> 0, y |-> 0]
        /\ \A j \in 1..n : f[j] = [x |-> f[j - 1].x + raw[j].x, y |-> f[j - 1].y + raw[j].y]
        /\ Cumsum(raw) = [j \in DOMAIN raw |-> [x |-> f[j].x, y |-> f[j].y, h |-> raw[j].h]]
    BY CumsumIs
<1> DEFINE px == [j \in 0..n |-> f[j].x]
           py == [j \in 0..n |-> f[j].y]
<1>3. px \in [0..n -> Int] /\ py \in [0..n -> Int]
    OBVIOUS
<1>4. px[0] = 0 /\ py[0] = 0
    BY <1>1, <1>2
<1>5. ASSUME NEW j \in 1..n
      PROVE  /\ fx[j] \in Int /\ px[j] = px[j - 1] + fx[j]
             /\ fy[j] \in Int /\ py[j] = py[j - 1] + fy[j]
    <2>1. j \in 0..n /\ j - 1 \in 0..n /\ raw[j].x \in Int /\ raw[j].y \in Int
        BY <1>1, MoveFields
    <2>2. f[j].x = f[j - 1].x + raw[j].x /\ f[j].y = f[j - 1].y + raw[j].y
        <3>1. f[j] = [x |-> f[j - 1].x + raw[j].x, y |-> f[j - 1].y + raw[j].y]
            BY ONLY <1>2, j \in 1..n, Zenon
        <3> QED
            BY ONLY <3>1
    <2> QED
        BY <1>1, <2>1, <2>2
<1>6. Cumsum(raw)[i].x = px[i] /\ Cumsum(raw)[i].y = py[i]
    BY <1>1, <1>2
<1>7. Summed(i).x = Sum(fx, i) /\ Summed(i).y = Sum(fy, i)
    BY DEF Summed
<1> HIDE DEF n, fx, fy, px, py
<1>8. Sum(fx, i) = px[i]
    BY <1>1, <1>3, <1>4, <1>5, SumIs
<1>9. Sum(fy, i) = py[i]
    BY <1>1, <1>3, <1>4, <1>5, SumIs
<1> QED
    BY <1>6, <1>7, <1>8, <1>9

\* The poses asyncvla's steps lead to are what the turned steps add up to.
LEMMA ComposedIs ==
    ASSUME raw \in Seq(Moves), NEW i \in DOMAIN raw
    PROVE  Composed(i).x = DeltaToPose(raw)[i].x /\ Composed(i).y = DeltaToPose(raw)[i].y
<1> DEFINE n == Len(raw)
           fh == [j \in DOMAIN raw |-> raw[j].h]
           fx == [j \in DOMAIN raw |->
                    Cos(Turned(j - 1)) * raw[j].x - Sin(Turned(j - 1)) * raw[j].y]
           fy == [j \in DOMAIN raw |->
                    Sin(Turned(j - 1)) * raw[j].x + Cos(Turned(j - 1)) * raw[j].y]
<1>1. n \in Nat /\ DOMAIN raw = 1..n /\ i \in 0..n /\ i \in 1..n
    OBVIOUS
<1>2. PICK f \in [1..n -> Moves] :
        /\ \A j \in 1..n : f[j] = IF j = 1 THEN raw[1] ELSE Onto(f[j - 1], raw[j])
        /\ DeltaToPose(raw) = [j \in DOMAIN raw |-> f[j]]
    BY DeltaToPoseIs
<1> DEFINE ph == [j \in 0..n |-> IF j = 0 THEN 0 ELSE f[j].h]
           px == [j \in 0..n |-> IF j = 0 THEN 0 ELSE f[j].x]
           py == [j \in 0..n |-> IF j = 0 THEN 0 ELSE f[j].y]
<1>3. \A j \in 1..n : f[j].x \in Int /\ f[j].y \in Int /\ f[j].h \in Int
    BY DEF Moves
<1>4. /\ ph \in [0..n -> Int] /\ px \in [0..n -> Int] /\ py \in [0..n -> Int]
      /\ ph[0] = 0 /\ px[0] = 0 /\ py[0] = 0
    BY <1>1, <1>3
<1>5. \A j \in 1..n : raw[j].x \in Int /\ raw[j].y \in Int /\ raw[j].h \in Int
    BY <1>1, MoveFields
<1>6. \A j \in 1..n : ph[j] = f[j].h /\ px[j] = f[j].x /\ py[j] = f[j].y
    OBVIOUS
<1>7. \A j \in 0..n : Turned(j) = Sum(fh, j)
    BY DEF Turned
<1>8. \A j \in 1..n : fh[j] = raw[j].h
    BY <1>1
<1>9. \A j \in 1..n :
        /\ fx[j] = Cos(Turned(j - 1)) * raw[j].x - Sin(Turned(j - 1)) * raw[j].y
        /\ fy[j] = Sin(Turned(j - 1)) * raw[j].x + Cos(Turned(j - 1)) * raw[j].y
    BY <1>1
<1>10. Composed(i).x = Sum(fx, i) /\ Composed(i).y = Sum(fy, i)
    BY DEF Composed
<1>11. DeltaToPose(raw)[i].x = px[i] /\ DeltaToPose(raw)[i].y = py[i]
    BY <1>1, <1>2, <1>6
<1> HIDE DEF n, fh, fx, fy, ph, px, py
\* One step, from the origin for the first.
<1>12. ASSUME NEW j \in 1..n
       PROVE  /\ ph[j] = ph[j - 1] + raw[j].h
              /\ px[j] = px[j - 1] + (Cos(ph[j - 1]) * raw[j].x - Sin(ph[j - 1]) * raw[j].y)
              /\ py[j] = py[j - 1] + (Sin(ph[j - 1]) * raw[j].x + Cos(ph[j - 1]) * raw[j].y)
    <2>1. CASE j = 1
        <3>1. Cos(0) = 1 /\ Sin(0) = 0
            BY DEF Cos, Sin
        <3>2. ph[j - 1] = 0 /\ px[j - 1] = 0 /\ py[j - 1] = 0 /\ f[j] = raw[j]
            BY <1>2, <1>4, <2>1
        <3>3. ph[j] = raw[j].h /\ px[j] = raw[j].x /\ py[j] = raw[j].y
            BY <1>6, <3>2
        <3>4. \A a \in Int, b \in Int : 1 * a - 0 * b = a /\ 0 * a + 1 * b = b /\ 0 + a = a
            OBVIOUS
        <3> QED
            BY <1>5, <3>1, <3>2, <3>3, <3>4
    <2>2. CASE j # 1
        <3>1. j - 1 \in 1..n
            BY <1>1, <2>2
        <3>2. f[j] = Onto(f[j - 1], raw[j])
            BY <1>2, <2>2
        <3>3. f[j - 1].h = ph[j - 1] /\ f[j - 1].x = px[j - 1] /\ f[j - 1].y = py[j - 1]
            BY <1>6, <3>1
        <3>4. /\ f[j].h = ph[j - 1] + raw[j].h
              /\ f[j].x = px[j - 1] + Cos(ph[j - 1]) * raw[j].x - Sin(ph[j - 1]) * raw[j].y
              /\ f[j].y = py[j - 1] + Sin(ph[j - 1]) * raw[j].x + Cos(ph[j - 1]) * raw[j].y
            BY <3>2, <3>3 DEF Onto
        <3>5. /\ px[j - 1] \in Int /\ py[j - 1] \in Int /\ ph[j - 1] \in Int
              /\ Cos(ph[j - 1]) \in {-1, 0, 1} /\ Sin(ph[j - 1]) \in {-1, 0, 1}
            BY <1>3, <3>1, <3>3, CosSin
        <3>6. \A a \in {-1, 0, 1}, m \in Int : a * m \in Int
            OBVIOUS
        <3>7. /\ Cos(ph[j - 1]) * raw[j].x \in Int /\ Sin(ph[j - 1]) * raw[j].y \in Int
              /\ Sin(ph[j - 1]) * raw[j].x \in Int /\ Cos(ph[j - 1]) * raw[j].y \in Int
            BY <1>5, <3>5, <3>6
        <3>8. \A a \in Int, b \in Int, c \in Int : a + b - c = a + (b - c) /\ a + b + c = a + (b + c)
            OBVIOUS
        <3> QED
            BY ONLY <1>6, <3>4, <3>5, <3>7, <3>8, j \in 1..n
    <2> QED
        BY <2>1, <2>2
<1>13. ASSUME NEW j \in 0..n PROVE Turned(j) = ph[j]
    <2>1. \A k \in 1..n : fh[k] \in Int /\ ph[k] = ph[k - 1] + fh[k]
        BY <1>5, <1>8, <1>12
    <2>2. Sum(fh, j) = ph[j]
        BY <1>1, <1>4, <2>1, SumIs
    <2> QED
        BY <1>7, <2>2
<1>14. ASSUME NEW j \in 1..n
       PROVE  /\ fx[j] \in Int /\ px[j] = px[j - 1] + fx[j]
              /\ fy[j] \in Int /\ py[j] = py[j - 1] + fy[j]
    <2>1. j - 1 \in 0..n
        BY <1>1
    <2>2. Turned(j - 1) = ph[j - 1] /\ ph[j - 1] \in Int
        BY <1>4, <1>13, <2>1
    <2>3. /\ fx[j] = Cos(ph[j - 1]) * raw[j].x - Sin(ph[j - 1]) * raw[j].y
          /\ fy[j] = Sin(ph[j - 1]) * raw[j].x + Cos(ph[j - 1]) * raw[j].y
        BY <1>9, <2>2
    <2>4. Cos(ph[j - 1]) \in {-1, 0, 1} /\ Sin(ph[j - 1]) \in {-1, 0, 1}
        BY <2>2, CosSin
    <2>5. \A a \in {-1, 0, 1}, m \in Int : a * m \in Int
        OBVIOUS
    <2>6. /\ Cos(ph[j - 1]) * raw[j].x \in Int /\ Sin(ph[j - 1]) * raw[j].y \in Int
          /\ Sin(ph[j - 1]) * raw[j].x \in Int /\ Cos(ph[j - 1]) * raw[j].y \in Int
        BY <1>5, <2>4, <2>5
    <2>7. fx[j] \in Int /\ fy[j] \in Int
        BY <2>3, <2>6
    <2> QED
        BY <1>12, <2>3, <2>7
<1>15. Sum(fx, i) = px[i]
    BY <1>1, <1>4, <1>14, SumIs
<1>16. Sum(fy, i) = py[i]
    BY <1>1, <1>4, <1>14, SumIs
<1> QED
    BY <1>10, <1>11, <1>15, <1>16

\* What a route accumulates is what the network meant.
LEMMA AccumulatedIsMeant ==
    ASSUME raw \in Seq(Moves), NEW i \in DOMAIN raw
    PROVE  Accumulated(route, raw)[i].x = Meant(i).x /\ Accumulated(route, raw)[i].y = Meant(i).y
<1>1. CASE route = "asyncvla"
    <2>1. Accumulated(route, raw) = DeltaToPose(raw) /\ Meant(i) = Composed(i)
        BY <1>1 DEF Accumulated, Meant
    <2> QED
        BY <2>1, ComposedIs
<1>2. CASE route \in {"omnivla_edge", "local"}
    <2>1. Accumulated(route, raw) = Cumsum(raw) /\ Meant(i) = Summed(i)
        BY <1>2 DEF Accumulated, Meant
    <2> QED
        BY <2>1, SummedIs
<1>3. CASE route \notin {"asyncvla", "omnivla_edge", "local"}
    BY <1>3 DEF Accumulated, Meant
<1> QED
    BY <1>1, <1>2, <1>3

\* A path that is made of a chunk in metres is where the chunk in spacings was.
LEMMA ScaledOnce ==
    ASSUME NEW c \in Seq(Moves)
    PROVE  /\ Len(OmniVLAPath(ToMetres(c))) = Len(c)
           /\ InPlace(OmniVLAPath(ToMetres(c)), c, Spacings)
<1> DEFINE m == ToMetres(c)
           p == OmniVLAPath(m)
<1>1. m \in Seq(Moves) /\ Len(m) = Len(c) /\ DOMAIN m = DOMAIN c
    BY ToMetresFacts
<1>2. \A i \in DOMAIN c :
        Rounds(m[i].x * Spacings, c[i].x, Spacings) /\ Rounds(m[i].y * Spacings, c[i].y, Spacings)
    BY ToMetresFacts
<1> HIDE DEF m
<1>3. p \in Seq(Waypoints) /\ Len(p) = Len(m) /\ DOMAIN p = DOMAIN m /\ InPlace(p, m, 1)
    BY <1>1, PathFacts DEF OmniVLAPath
<1> HIDE DEF p
<1>4. ASSUME NEW i \in DOMAIN c PROVE p[i].x = m[i].x /\ p[i].y = m[i].y
    <2>1. p[i] \in Waypoints
        BY <1>1, <1>3
    <2>2. p[i].x \in Int /\ p[i].y \in Int /\ m[i].x \in Int /\ m[i].y \in Int
        BY <1>1, <2>1, MoveFields DEF Waypoints
    <2>3. Rounds(p[i].x * 1, m[i].x, 1) /\ Rounds(p[i].y * 1, m[i].y, 1)
        BY <1>1, <1>3 DEF InPlace
    <2>4. \A a \in Int, b \in Int : Rounds(a * 1, b, 1) => a = b
        BY DEF Rounds, Abs
    <2> QED
        BY <2>2, <2>3, <2>4
<1>5. InPlace(p, c, Spacings)
    BY <1>2, <1>4 DEF InPlace
<1> QED
    BY <1>1, <1>3, <1>5 DEF m, p

\* A path is where what the route accumulates is.
Placed ==
    (stage = "path" /\ path # <<>> /\ route # "stub") =>
        /\ raw \in Seq(Moves) /\ Len(path) = Len(raw)
        /\ InPlace(path, Accumulated(route, raw), IF InMetres THEN 1 ELSE Spacings)

\* Each adapter scales and accumulates what the other side has not.
LEMMA AdapterPlaces ==
    ASSUME PathTypes, Adapter
    PROVE  Placed'
<1>1. raw \in Seq(Moves) /\ chunk = ChunkOf(route, raw) /\ route \in Clouds \cup {"local"}
    BY DEF PathTypes, Adapter
<1>2. UNCHANGED <<route, raw, asked>>
    BY DEF Adapter
<1>3. /\ Cumsum(raw) \in Seq(Moves) /\ Len(Cumsum(raw)) = Len(raw)
      /\ DeltaToPose(raw) \in Seq(Moves) /\ Len(DeltaToPose(raw)) = Len(raw)
    BY <1>1, AccumulatedTypes
<1>4. (InMetres <=> route = "movla") /\ (InMetres' <=> InMetres)
    BY <1>1, <1>2 DEF InMetres, Clouds
<1>5. SUFFICES ASSUME route # "stub"
               PROVE  /\ Len(path') = Len(raw)
                      /\ InPlace(path', Accumulated(route, raw), IF InMetres THEN 1 ELSE Spacings)
    BY <1>1, <1>2, <1>4 DEF Placed
<1>6. CASE route = "omnivla"
    <2>1. path' = OmniVLAPath(ToMetres(raw)) /\ Accumulated(route, raw) = raw /\ ~InMetres
        BY <1>1, <1>4, <1>6 DEF Adapter, ChunkOf, ProjectActions, Accumulated
    <2> QED
        BY <1>1, <2>1, ScaledOnce
<1>7. CASE route = "omnivla_edge"
    <2>1. path' = OmniVLAPath(ToMetres(Cumsum(raw))) /\ Accumulated(route, raw) = Cumsum(raw) /\ ~InMetres
        BY <1>1, <1>4, <1>7 DEF Adapter, ChunkOf, EdgeBackendChunk, Accumulated
    <2> QED
        BY <1>3, <2>1, ScaledOnce
<1>8. CASE route = "movla"
    <2>1. path' = TrajectoryToPath(raw, TRUE) /\ Accumulated(route, raw) = raw /\ InMetres
        BY <1>1, <1>4, <1>8 DEF Adapter, ChunkOf, ChunkToEmbedding, Accumulated, OmniVLAPath
    <2> QED
        BY <1>1, <2>1, PathFacts
<1>9. CASE route = "asyncvla"
    <2>1. path' = TrajectoryToPath(DeltaToPose(raw), FALSE) /\ Accumulated(route, raw) = DeltaToPose(raw)
          /\ ~InMetres
        BY <1>1, <1>4, <1>9 DEF Adapter, ChunkOf, Accumulated, AsyncVLAPath
    <2> QED
        BY <1>3, <2>1, PathFacts
<1>10. CASE route = "local"
    <2>1. path' = TrajectoryToPath(Cumsum(raw), FALSE) /\ Accumulated(route, raw) = Cumsum(raw)
          /\ ~InMetres
        BY <1>1, <1>4, <1>10 DEF Adapter, ChunkOf, Accumulated, LocalPath
    <2> QED
        BY <1>3, <2>1, PathFacts
<1> QED
    BY <1>1, <1>5, <1>6, <1>7, <1>8, <1>9, <1>10 DEF Clouds

\* The bridges take over a phone's chunk as it is.
LEMMA BridgePlaces ==
    ASSUME PathTypes, Bridge
    PROVE  Placed'
<1>1. asked \in PhoneChunks /\ route \in {"grpc", "ws"} /\ UNCHANGED <<route, asked>>
    BY DEF PathTypes, Bridge
<1>2. raw' = asked.values /\ raw' \in Seq(Moves) /\ asked.scaled \in BOOLEAN
    BY <1>1, DecodedFacts DEF Bridge
<1>3. SUFFICES ASSUME stage' = "path" PROVE Placed'
    BY DEF Placed
<1>4. path' = TrajectoryToPath(asked.values, asked.scaled)
    BY <1>1, <1>3, DecodedFacts DEF Bridge
<1>5. Accumulated(route', raw') = raw' /\ (InMetres' <=> asked.scaled)
    BY <1>1 DEF Accumulated, InMetres
<1>6. Len(path') = Len(raw') /\ InPlace(path', raw', IF asked.scaled THEN 1 ELSE Spacings)
    BY <1>2, <1>4, PathFacts
<1> QED
    BY <1>2, <1>5, <1>6 DEF Placed

LEMMA PlacedStep ==
    ASSUME PathTypes, Placed, [Next]_vars
    PROVE  Placed'
<1>1. CASE EdgeNode
    BY <1>1 DEF EdgeNode, PathTypes, Placed
<1>9. CASE OnGoal
    BY <1>9 DEF OnGoal, PathTypes, Placed
<1>10. CASE ActionTickLocal
    BY <1>10 DEF ActionTickLocal, PathTypes, Placed
<1>2. CASE Server
    BY <1>2 DEF Server, Placed
<1>3. CASE Backend
    BY <1>3 DEF Backend, Placed
<1>4. CASE Network
    BY <1>4 DEF Network, Placed
<1>5. CASE Adapter
    BY <1>5, AdapterPlaces
<1>6. CASE Bridge
    BY <1>6, BridgePlaces
<1>7. CASE Follower
    BY <1>7 DEF Follower, Placed
<1>8. CASE UNCHANGED vars
    BY <1>8 DEF vars, Placed, InMetres
<1> QED
    BY <1>1, <1>2, <1>3, <1>4, <1>5, <1>6, <1>7, <1>8, <1>9, <1>10 DEF Next

\* On every route the published path has every waypoint where the network meant
\* it, in metres, for any chunk of any length: between server.py's backends and
\* the edge's adapters and bridges the steps are accumulated once and scaled once.
THEOREM PathsAreInMetres == Spec => []PathInMetres
<1>1. Init => Placed
    BY DEF Init, Placed
<1>2. PathTypes /\ Placed => PathInMetres
    <2> SUFFICES ASSUME PathTypes, Placed, stage = "path" /\ path # <<>> /\ route # "stub"
                 PROVE  /\ Len(path) = Len(raw)
                        /\ \A i \in DOMAIN path :
                            LET unit == IF InMetres THEN 1 ELSE Spacings
                            IN  /\ Rounds(path[i].x * unit, Meant(i).x, unit)
                                /\ Rounds(path[i].y * unit, Meant(i).y, unit)
        BY DEF PathInMetres
    <2> DEFINE unit == IF InMetres THEN 1 ELSE Spacings
    <2>1. raw \in Seq(Moves) /\ Len(path) = Len(raw) /\ InPlace(path, Accumulated(route, raw), unit)
        BY DEF Placed
    <2>2. DOMAIN path = DOMAIN raw
        BY <2>1 DEF PathTypes
    <2>3. DOMAIN Accumulated(route, raw) = DOMAIN raw
        BY <2>1, AccumulatedTypes DEF Accumulated
    <2> HIDE DEF unit
    <2>4. ASSUME NEW i \in DOMAIN path
          PROVE  /\ Rounds(path[i].x * unit, Meant(i).x, unit)
                 /\ Rounds(path[i].y * unit, Meant(i).y, unit)
        BY <2>1, <2>2, <2>3, AccumulatedIsMeant DEF InPlace
    <2> QED
        BY <2>1, <2>4 DEF unit
<1> QED
    BY <1>1, <1>2, PathTypesInit, PathTypesStep, PlacedStep, PTL DEF Spec

-----------------------------------------------------------------------------

\* What a network has been given is the goal g.
Follows(in, g) ==
    /\ in.attends = {g.mode}
    /\ g.mode = "text" => in.text = g.text
    /\ g.mode = "image" => in.image = g.jpeg

ToPython(g) == ProtoGoalToPython(RosGoalToProto(g))
AtHeading0(at) == [at |-> at, theta |-> 0]

\* The three kinds of goals as a backend gets them.
LEMMA PythonGoals ==
    /\ \A at \in Poses, k \in Turns :
        ToPython(GoalPose(at, k)) = [pose |-> AtHeading0(at), lang |-> NoText, image |-> None]
    /\ \A t \in Texts : ToPython(GoalText(t)) = [pose |-> None, lang |-> t, image |-> None]
    /\ \A j \in Decodable : ToPython(GoalImage(j)) = [pose |-> None, lang |-> NoText, image |-> j]
BY DEF ToPython, AtHeading0, ProtoGoalToPython, RosGoalToProto, GoalPose, GoalText, GoalImage

\* Values that are not None, and the texts that are not empty.
LEMMA NotNone ==
    /\ \A t \in Texts : t \notin {None, NoText, Placeholder}
    /\ \A j \in Jpegs : j # None
    /\ \A at \in Poses : AtHeading0(at) # None
<1>1. Texts \cap {NoText, Placeholder} = {} /\ None \notin Jpegs \cup Texts \cup [at : Poses, theta : Int]
    BY PipelineAssumption
<1>2. \A at \in Poses : [at |-> at, theta |-> 0] \in [at : Poses, theta : Int]
    OBVIOUS
<1>3. \A at \in Poses : AtHeading0(at) # None
    BY ONLY <1>1, <1>2, Zenon DEF AtHeading0
<1> QED
    BY ONLY <1>1, <1>3, Zenon

\* OmniVLA-edge attends to the goal of the mode it is asked for.
LEMMA EngineFollows ==
    /\ \A lang, pose, image : EngineGoal("pose", lang, pose, image).attends = {"pose"}
    /\ \A t \in Texts : \A pose, image :
        /\ EngineGoal("text", t, pose, image).attends = {"text"}
        /\ EngineGoal("text", t, pose, image).text = t
    /\ \A lang, pose, image :
        /\ EngineGoal("image", lang, pose, image).attends = {"image"}
        /\ EngineGoal("image", lang, pose, image).image = image
<1>1. ModalityIdFor("text") = 7 /\ ModalityIdFor("pose") = 4 /\ ModalityIdFor("image") = 6
    BY Zenon DEF ModalityIdFor
<1>2. \A mode, lang, pose, image :
        EngineGoal(mode, lang, pose, image).attends = Attended(ModalityIdFor(mode))
    BY DEF EngineGoal
<1>3. \A lang, pose, image : EngineGoal("image", lang, pose, image).image = image
    BY DEF EngineGoal
<1>4. \A lang, pose, image : EngineGoal("text", lang, pose, image).text = Or(lang, Placeholder)
    BY DEF EngineGoal
<1>5. \A t \in Texts : Or(t, Placeholder) = t
    BY NotNone DEF Or
<1> QED
    BY ONLY <1>1, <1>2, <1>3, <1>4, <1>5, Rows

\* What the OpenVLA backends attend to for the fields of a goal.
LEMMA Modalities ==
    ASSUME NEW lang, NEW image, NEW pose
    PROVE  LET id == DetermineModalityId(lang # NoText, pose # None, image # None)
           IN  /\ (lang # NoText /\ image = None /\ pose = None) => OpenVLAAttends(id) = {"text"}
               /\ (lang = NoText /\ image # None /\ pose = None) => OpenVLAAttends(id) = {"image"}
               /\ (lang = NoText /\ image = None /\ pose # None) => OpenVLAAttends(id) = {"pose"}
<1> DEFINE id == DetermineModalityId(lang # NoText, pose # None, image # None)
<1>1. (lang # NoText /\ image = None /\ pose = None) => id = 7
    BY Zenon DEF DetermineModalityId
<1>2. (lang = NoText /\ image # None /\ pose = None) => id = 6
    BY Zenon DEF DetermineModalityId
<1>3. (lang = NoText /\ image = None /\ pose # None) => id = 4
    BY Zenon DEF DetermineModalityId
<1>4. OpenVLAAttends(4) = {"pose"}
    BY 4 # 5, 4 # 6, 4 # 7, 4 # 8, Zenon DEF OpenVLAAttends
<1>5. OpenVLAAttends(6) = {"image"}
    BY 6 # 4, 6 # 5, 6 # 7, 6 # 8, Zenon DEF OpenVLAAttends
<1>6. OpenVLAAttends(7) = {"text"}
    BY 7 # 4, 7 # 5, 7 # 6, 7 # 8, Zenon DEF OpenVLAAttends
<1> HIDE DEF id
<1> QED
    BY ONLY <1>1, <1>2, <1>3, <1>4, <1>5, <1>6, Zenon DEF id

\* Every goal of the operator is one of the three kinds.
LEMMA Kinds ==
    ASSUME NEW g \in OperatorGoals
    PROVE  \/ \E at \in Poses, k \in Turns : g = GoalPose(at, k)
           \/ \E t \in Texts : g = GoalText(t)
           \/ \E j \in Jpegs : g = GoalImage(j)
BY DEF OperatorGoals

\* The three kinds of goals as the local adapter gets them.
LEMMA EdgeGoals ==
    /\ \A at \in Poses, k \in Turns :
        RosGoalToEdgeGoal(GoalPose(at, k)) =
            [mode |-> "pose", lang |-> NoText, image |-> None,
             pose |-> [at |-> at, theta |-> QuatToYaw(k)]]
    /\ \A t \in Texts :
        RosGoalToEdgeGoal(GoalText(t)) =
            [mode |-> "text", lang |-> t, image |-> None, pose |-> None]
    /\ \A j \in Jpegs : RosGoalToEdgeGoal(GoalImage(j)) = None
BY DEF RosGoalToEdgeGoal, GoalPose, GoalText, GoalImage

\* The robot's own engine follows poses and texts; an image is no goal to it.
LEMMA LocalFollows ==
    ASSUME NEW g \in OperatorGoals, g.mode # "image", NEW e, e = RosGoalToEdgeGoal(g)
    PROVE  Follows(EngineGoal(e.mode, e.lang, e.pose, e.image), g)
<1>1. ASSUME NEW at \in Poses, NEW k \in Turns, g = GoalPose(at, k)
      PROVE  Follows(EngineGoal(e.mode, e.lang, e.pose, e.image), g)
    <2>1. g.mode = "pose"
        BY <1>1 DEF GoalPose
    <2>2. e.mode = "pose"
        BY <1>1, EdgeGoals
    <2> QED
        BY <2>1, <2>2, EngineFollows DEF Follows
<1>2. ASSUME NEW t \in Texts, g = GoalText(t)
      PROVE  Follows(EngineGoal(e.mode, e.lang, e.pose, e.image), g)
    <2>1. g.mode = "text" /\ g.text = t
        BY <1>2 DEF GoalText
    <2>2. e.mode = "text" /\ e.lang = t
        BY <1>2, EdgeGoals
    <2> QED
        BY <2>1, <2>2, EngineFollows DEF Follows
<1>3. ASSUME NEW j \in Jpegs, g = GoalImage(j)
      PROVE  FALSE
    BY <1>3 DEF GoalImage
<1> QED
    BY <1>1, <1>2, <1>3, Kinds

\* What the backends make of a goal as they get it.
LEMMA BackendGoals ==
    ASSUME NEW p
    PROVE  /\ EdgeBackendGoal(p) =
                EngineGoal(GoalModeFor(p.lang # NoText, p.image # None, p.pose # None),
                           p.lang, p.pose, p.image)
           /\ OpenVLAGoal(p).attends =
                OpenVLAAttends(DetermineModalityId(p.lang # NoText, p.pose # None, p.image # None))
           /\ OpenVLAGoal(p).image = p.image
           /\ OpenVLAGoal(p).text = Instruction(p.lang)
           /\ MovlaGoal(p).attends = {"text"} /\ MovlaGoal(p).text = Or(p.lang, "go straight ahead")
BY DEF EdgeBackendGoal, OpenVLAGoal, MovlaGoal, BuildBatch

\* What each backend follows, by the one field of the goal that is set.
LEMMA ByField ==
    ASSUME NEW p
    PROVE  /\ (p.lang # NoText /\ p.image = None /\ p.pose = None)
                => /\ EdgeBackendGoal(p) = EngineGoal("text", p.lang, p.pose, p.image)
                   /\ OpenVLAGoal(p).attends = {"text"}
           /\ (p.lang = NoText /\ p.image # None /\ p.pose = None)
                => /\ EdgeBackendGoal(p) = EngineGoal("image", p.lang, p.pose, p.image)
                   /\ OpenVLAGoal(p).attends = {"image"}
           /\ (p.lang = NoText /\ p.image = None /\ p.pose # None)
                => /\ EdgeBackendGoal(p) = EngineGoal("pose", p.lang, p.pose, p.image)
                   /\ OpenVLAGoal(p).attends = {"pose"}
<1> DEFINE mode == GoalModeFor(p.lang # NoText, p.image # None, p.pose # None)
           id == DetermineModalityId(p.lang # NoText, p.pose # None, p.image # None)
           seen == OpenVLAAttends(id)
<1>1. /\ EdgeBackendGoal(p) = EngineGoal(mode, p.lang, p.pose, p.image)
      /\ OpenVLAGoal(p).attends = seen
    BY BackendGoals
<1>2. /\ (p.lang # NoText /\ p.image = None /\ p.pose = None) => mode = "text"
      /\ (p.lang = NoText /\ p.image # None /\ p.pose = None) => mode = "image"
      /\ (p.lang = NoText /\ p.image = None /\ p.pose # None) => mode = "pose"
    BY Zenon DEF GoalModeFor
<1>3. /\ (p.lang # NoText /\ p.image = None /\ p.pose = None) => seen = {"text"}
      /\ (p.lang = NoText /\ p.image # None /\ p.pose = None) => seen = {"image"}
      /\ (p.lang = NoText /\ p.image = None /\ p.pose # None) => seen = {"pose"}
    BY ONLY Modalities, Zenon
<1> HIDE DEF mode, seen
<1> QED
    BY ONLY <1>1, <1>2, <1>3, Zenon

\* The backends follow every readable goal of their kind.
LEMMA BackendFollows ==
    ASSUME NEW g \in OperatorGoals, g.mode = "image" => g.jpeg \in Decodable,
           NEW p, p = ToPython(g)
    PROVE  /\ Follows(EdgeBackendGoal(p), g)
           /\ Follows(OpenVLAGoal(p), g)
           /\ g.mode = "text" => Follows(MovlaGoal(p), g)
<1>2. ASSUME NEW at \in Poses, NEW k \in Turns, g = GoalPose(at, k)
      PROVE  Follows(EdgeBackendGoal(p), g) /\ Follows(OpenVLAGoal(p), g) /\ g.mode # "text"
    <2>1. g.mode = "pose" /\ p = [pose |-> AtHeading0(at), lang |-> NoText, image |-> None]
        BY <1>2, PythonGoals DEF GoalPose
    <2>2. p.lang = NoText /\ p.image = None /\ p.pose # None
        BY ONLY <2>1, <1>2, NotNone
    <2>3. EdgeBackendGoal(p) = EngineGoal("pose", p.lang, p.pose, p.image)
        BY <2>2, ByField
    <2>4. OpenVLAGoal(p).attends = {"pose"}
        BY <2>2, BackendGoals, ByField
    <2> QED
        BY <2>1, <2>3, <2>4, EngineFollows DEF Follows
<1>3. ASSUME NEW t \in Texts, g = GoalText(t)
      PROVE  /\ Follows(EdgeBackendGoal(p), g) /\ Follows(OpenVLAGoal(p), g)
             /\ Follows(MovlaGoal(p), g)
    <2>1. g.mode = "text" /\ g.text = t /\ p = [pose |-> None, lang |-> t, image |-> None]
        BY <1>3, PythonGoals DEF GoalText
    <2>2. p.lang = t /\ p.lang # NoText /\ p.image = None /\ p.pose = None
        BY ONLY <2>1, <1>2, NotNone
    <2>3. EdgeBackendGoal(p) = EngineGoal("text", t, p.pose, p.image)
        BY <2>2, ByField
    <2>5. OpenVLAGoal(p).attends = {"text"} /\ MovlaGoal(p).attends = {"text"}
        BY <2>2, BackendGoals, ByField
    <2>4. OpenVLAGoal(p).text = t /\ MovlaGoal(p).text = t
        BY <2>1, <2>2, BackendGoals, NotNone DEF Or, Instruction
    <2> QED
        BY <2>1, <2>3, <2>4, <2>5, EngineFollows DEF Follows
<1>4. ASSUME NEW j \in Jpegs, g = GoalImage(j)
      PROVE  Follows(EdgeBackendGoal(p), g) /\ Follows(OpenVLAGoal(p), g) /\ g.mode # "text"
    <2>1. g.mode = "image" /\ g.jpeg = j /\ j \in Decodable
        BY <1>4 DEF GoalImage
    <2>2. p = [pose |-> None, lang |-> NoText, image |-> j]
        BY <1>4, <2>1, PythonGoals
    <2>3. p.lang = NoText /\ p.image # None /\ p.pose = None
        BY <2>2, NotNone
    <2>4. EdgeBackendGoal(p) = EngineGoal("image", p.lang, p.pose, j)
        BY <2>2, <2>3, ByField
    <2>5. OpenVLAGoal(p).attends = {"image"}
        BY <2>3, ByField
    <2>6. OpenVLAGoal(p).image = j
        BY <2>2, BackendGoals
    <2> QED
        BY <2>1, <2>4, <2>5, <2>6, EngineFollows DEF Follows
<1> QED
    BY <1>2, <1>3, <1>4, Kinds

\* The forms a goal takes on the way from the operator to the network.
Forms ==
    /\ route \in Routes
    /\ route \notin {"grpc", "ws"} => asked \in OperatorGoals
    /\ stage = "ros" => goal = asked
    /\ stage = "held" =>
        route = "local" /\ (asked.mode # "image" => held = RosGoalToEdgeGoal(asked))
    /\ stage = "proto" => route \in Clouds /\ goal = RosGoalToProto(asked)
    /\ stage = "python" => route \in Clouds /\ goal = ToPython(asked)

GoalInv == Forms /\ AttendsGoal

LEMMA GoalInit == Init => GoalInv
BY DEF Init, GoalInv, Forms, AttendsGoal, Inferred, Routes, Clouds

LEMMA AttendsFollows == AttendsGoal <=> ((Inferred /\ Followed) => Follows(input, asked))
BY DEF AttendsGoal, Follows

LEMMA GoalStep ==
    ASSUME GoalInv, [Next]_vars
    PROVE  GoalInv'
<1>1. ASSUME UNCHANGED <<route, asked, goal, input>>,
             stage \notin {"ros", "held", "proto", "python"},
             stage' \notin {"ros", "held", "proto", "python"}
      PROVE  GoalInv'
    BY <1>1 DEF GoalInv, Forms, AttendsGoal, Followed, Inferred
<1>2. CASE OnGoal
    <2>1. goal = asked /\ route = "local" /\ asked \in OperatorGoals
        BY <1>2 DEF OnGoal, GoalInv, Forms
    <2>2. asked.mode # "image" => held' = RosGoalToEdgeGoal(asked)
        BY <1>2, <2>1, GoalAssumption DEF OnGoal
    <2> QED
        BY <1>2, <2>1, <2>2 DEF OnGoal, GoalInv, Forms, AttendsGoal, Inferred
<1>3. CASE EdgeNode
    <2>1. goal' = RosGoalToProto(asked) /\ stage' = "proto" /\ UNCHANGED <<route, asked>>
        BY <1>3 DEF EdgeNode, GoalInv, Forms
    <2> QED
        BY <1>3, <2>1 DEF EdgeNode, GoalInv, Forms, AttendsGoal, Inferred
<1>11. CASE ActionTickLocal
    <2>1. route = "local" /\ asked \in OperatorGoals /\ UNCHANGED <<route, asked, goal>>
          /\ stage' \in {"path", "input"}
        BY <1>11 DEF ActionTickLocal, GoalInv, Forms
    <2>2. Forms'
        BY <2>1 DEF GoalInv, Forms
    <2>3. SUFFICES ASSUME Followed PROVE Follows(input', asked)
        BY <2>1, <2>2, <2>3 DEF GoalInv, AttendsGoal, Follows, Followed
    <2>4. asked.mode # "image"
        BY <2>1, <2>3 DEF Followed
    <2>5. held = RosGoalToEdgeGoal(asked) /\ held # None
        BY <1>11, <2>1, <2>4, GoalAssumption DEF ActionTickLocal, GoalInv, Forms
    <2>6. input' = EngineGoal(held.mode, held.lang, held.pose, held.image)
        BY <1>11, <2>5 DEF ActionTickLocal
    <2> QED
        BY <2>1, <2>4, <2>5, <2>6, LocalFollows
<1>4. CASE Server
    BY <1>4 DEF Server, GoalInv, Forms, AttendsGoal, Inferred, ToPython
<1>5. CASE Backend
    <2>1. goal = ToPython(asked) /\ route \in Clouds /\ asked \in OperatorGoals
        BY <1>5 DEF Backend, GoalInv, Forms, Clouds
    <2>2. Forms'
        BY <1>5, <2>1 DEF Backend, GoalInv, Forms
    <2>3. SUFFICES ASSUME Followed PROVE Follows(input', asked)
        BY <1>5, <2>2, <2>3 DEF Backend, GoalInv, AttendsGoal, Follows, Followed
    <2>4. /\ route # "stub"
          /\ asked.mode = "image" => asked.jpeg \in Decodable
          /\ route = "movla" => asked.mode = "text"
        BY <2>3 DEF Followed
    <2>5. CASE route = "omnivla_edge"
        <3>1. input' = EdgeBackendGoal(goal)
            BY <1>5, <2>5 DEF Backend
        <3> QED
            BY <2>1, <2>4, <3>1, BackendFollows
    <2>6. CASE route \in {"asyncvla", "omnivla"}
        <3>1. input' = OpenVLAGoal(goal)
            BY <1>5, <2>6 DEF Backend
        <3> QED
            BY <2>1, <2>4, <3>1, BackendFollows
    <2>7. CASE route = "movla"
        <3>1. input' = MovlaGoal(goal)
            BY <1>5, <2>7 DEF Backend
        <3> QED
            BY <2>1, <2>4, <2>7, <3>1, BackendFollows
    <2> QED
        BY <2>1, <2>4, <2>5, <2>6, <2>7 DEF Clouds
<1>6. CASE Network
    BY <1>1, <1>6 DEF Network
<1>7. CASE Adapter
    BY <1>1, <1>7 DEF Adapter
<1>8. CASE Bridge
    BY <1>8 DEF Bridge, GoalInv, Forms, AttendsGoal, Followed
<1>9. CASE Follower
    BY <1>1, <1>9 DEF Follower
<1>10. CASE UNCHANGED vars
    BY <1>10 DEF vars, GoalInv, Forms, AttendsGoal, Followed, Inferred
<1> QED
    BY <1>2, <1>3, <1>4, <1>5, <1>6, <1>7, <1>8, <1>9, <1>10, <1>11 DEF Next

\* Whatever goal the operator sends, on a route that can follow it (Followed: not an
\* image on the local route, where the adapter keeps its former goal), the network
\* is given that goal whatever came before it, attends to the token of its modality
\* and to no other, and the token is made of that goal: the goal's encodings in
\* edge_node.py and server.py, the modality ids of the backends and the mask rows
\* agree with each other.
THEOREM OperatorsGoalIsAttended == Spec => []AttendsGoal
<1>1. GoalInv => AttendsGoal
    BY DEF GoalInv
<1> QED
    BY GoalInit, GoalStep, <1>1, PTL DEF Spec

-----------------------------------------------------------------------------
(* Pose goals.                                                              *)

\* v is at in waypoint spacings, or at Reach on its bearing.
OnBearing(v, at) ==
    IF at.r > Reach
    THEN /\ Rounds(v.x * at.r, Spacings * (at.x * Reach), at.r)
         /\ Rounds(v.y * at.r, Spacings * (at.y * Reach), at.r)
    ELSE v.x = Spacings * at.x /\ v.y = Spacings * at.y

\* Both encodings of a pose, the engine's and the OpenVLA backends', are.
LEMMA BothOnBearing ==
    ASSUME NEW at \in Poses, NEW theta
    PROVE  LET p == [at |-> at, theta |-> theta]
           IN  /\ OnBearing(PoseGoalVector(p), at) /\ PoseGoalVector(p).h = theta
               /\ OnBearing(GoalPoseCosSin(p), at) /\ GoalPoseCosSin(p).h = theta
<1> DEFINE p == [at |-> at, theta |-> theta]
           far(n) == Spacings * (n * Reach)
<1>1. at.x \in Int /\ at.y \in Int /\ at.r \in Nat
    BY PipelineAssumption
<1>2. p.at = at /\ p.theta = theta
    OBVIOUS
<1> HIDE DEF p
<1>3. PoseGoalVector(p).h = theta /\ GoalPoseCosSin(p).h = theta
    BY <1>2 DEF PoseGoalVector, GoalPoseCosSin
<1>4. CASE at.r > Reach
    <2>1. /\ PoseGoalVector(p).x = Quot(far(at.x), at.r) /\ PoseGoalVector(p).y = Quot(far(at.y), at.r)
          /\ GoalPoseCosSin(p).x = Quot(far(at.x), at.r) /\ GoalPoseCosSin(p).y = Quot(far(at.y), at.r)
        BY <1>2, <1>4 DEF PoseGoalVector, GoalPoseCosSin
    <2>2. far(at.x) \in Int /\ far(at.y) \in Int /\ at.r > 0
        BY <1>1, <1>4 DEF Spacings, Reach
    <2>3. /\ Rounds(Quot(far(at.x), at.r) * at.r, far(at.x), at.r)
          /\ Rounds(Quot(far(at.y), at.r) * at.r, far(at.y), at.r)
        <3> HIDE DEF far
        <3> QED
            BY <1>1, <2>2, QuotRounds
    <2>4. OnBearing(PoseGoalVector(p), at) /\ OnBearing(GoalPoseCosSin(p), at)
        BY ONLY <1>4, <2>1, <2>3 DEF OnBearing
    <2> QED
        BY <1>3, <2>4 DEF p
<1>5. CASE ~(at.r > Reach)
    <2>1. PoseGoalVector(p).x = Spacings * at.x /\ PoseGoalVector(p).y = Spacings * at.y
        BY <1>2, <1>5 DEF PoseGoalVector
    <2>2. /\ GoalPoseCosSin(p).x = Quot(Spacings * (at.x * 1), 1)
          /\ GoalPoseCosSin(p).y = Quot(Spacings * (at.y * 1), 1)
        BY <1>2, <1>5 DEF GoalPoseCosSin
    <2>3. \A n \in Int : Quot(Spacings * (n * 1), 1) = Spacings * n
        <3> SUFFICES ASSUME NEW n \in Int PROVE Quot(Spacings * (n * 1), 1) = Spacings * n
            OBVIOUS
        <3> DEFINE m == Spacings * n
        <3>1. m \in Int /\ Spacings * (n * 1) = m
            BY DEF Spacings
        <3> HIDE DEF m
        <3>2. Quot(m, 1) \in Int /\ Rounds(Quot(m, 1) * 1, m, 1)
            BY <3>1, QuotRounds
        <3>3. \A a \in Int, b \in Int : Rounds(a * 1, b, 1) => a = b
            BY DEF Rounds, Abs
        <3> QED
            BY <3>1, <3>2, <3>3 DEF m
    <2>4. OnBearing(PoseGoalVector(p), at) /\ OnBearing(GoalPoseCosSin(p), at)
        BY <1>1, <1>5, <2>1, <2>2, <2>3 DEF OnBearing
    <2> QED
        BY <1>3, <2>4 DEF p
<1> QED
    BY <1>4, <1>5

\* What a network is given for a pose goal.
LEMMA PoseInputs ==
    ASSUME NEW at \in Poses, NEW k \in Turns
    PROVE  /\ LET e == RosGoalToEdgeGoal(GoalPose(at, k))
                  v == EngineGoal(e.mode, e.lang, e.pose, e.image).pose
              IN  OnBearing(v, at) /\ v.h = Wrap(k)
           /\ LET v == EdgeBackendGoal(ToPython(GoalPose(at, k))).pose
              IN  OnBearing(v, at) /\ v.h = 0
           /\ LET v == OpenVLAGoal(ToPython(GoalPose(at, k))).pose
              IN  OnBearing(v, at) /\ v.h = 0
<1>1. None \notin [at : Poses, theta : Int] /\ None \notin Turns /\ Turns \subseteq Int
    BY PipelineAssumption
<1>2. QuatToYaw(k) = Wrap(k) /\ Wrap(k) \in Int
    BY <1>1 DEF QuatToYaw, Wrap
<1>3. \A theta \in Int : [at |-> at, theta |-> theta] # None
    <2>1. \A theta \in Int : [at |-> at, theta |-> theta] \in [at : Poses, theta : Int]
        OBVIOUS
    <2> QED
        BY ONLY <1>1, <2>1, Zenon
<1>4. \A mode, lang, pose, image :
        pose # None => EngineGoal(mode, lang, pose, image).pose = PoseGoalVector(pose)
    BY DEF EngineGoal
<1> DEFINE e == RosGoalToEdgeGoal(GoalPose(at, k))
           p == ToPython(GoalPose(at, k))
<1>5. e.pose = [at |-> at, theta |-> Wrap(k)] /\ e.pose # None
    BY <1>2, <1>3, EdgeGoals
<1>6. p.pose = [at |-> at, theta |-> 0] /\ p.pose # None
    BY <1>3, PythonGoals DEF AtHeading0
<1> HIDE DEF e, p
<1>7. EngineGoal(e.mode, e.lang, e.pose, e.image).pose = PoseGoalVector(e.pose)
    BY ONLY <1>4, <1>5
<1>8. EdgeBackendGoal(p).pose = PoseGoalVector(p.pose)
    <2>1. PICK mode : EdgeBackendGoal(p) = EngineGoal(mode, p.lang, p.pose, p.image)
        BY BackendGoals
    <2> QED
        BY ONLY <1>4, <1>6, <2>1
<1>9. OpenVLAGoal(p).pose = GoalPoseCosSin(p.pose)
    BY <1>6 DEF OpenVLAGoal
<1>10. OnBearing(PoseGoalVector(e.pose), at) /\ PoseGoalVector(e.pose).h = Wrap(k)
    BY <1>5, BothOnBearing
<1>11. /\ OnBearing(PoseGoalVector(p.pose), at) /\ PoseGoalVector(p.pose).h = 0
       /\ OnBearing(GoalPoseCosSin(p.pose), at) /\ GoalPoseCosSin(p.pose).h = 0
    BY <1>6, BothOnBearing
<1> QED
    BY <1>7, <1>8, <1>9, <1>10, <1>11 DEF e, p

LEMMA PoseStep ==
    ASSUME GoalInv, PoseOnBearing, [Next]_vars
    PROVE  PoseOnBearing'
<1>1. ASSUME UNCHANGED <<route, asked, input>>, Inferred' => Inferred \/ ~Followed
      PROVE  PoseOnBearing'
    BY <1>1 DEF PoseOnBearing, Followed
<1>2. ASSUME NEW at \in Poses, NEW k \in Turns, asked' = GoalPose(at, k), OnBearing(input'.pose, at),
             input'.pose.h = IF route' = "local" THEN Wrap(k) ELSE 0
      PROVE  PoseOnBearing'
    <2>1. asked'.at = at /\ asked'.half = k
        BY <1>2 DEF GoalPose
    <2> QED
        BY <1>2, <2>1 DEF PoseOnBearing, OnBearing
<1>3. ASSUME asked \in OperatorGoals, asked.mode = "pose"
      PROVE  \E at \in Poses, k \in Turns : asked = GoalPose(at, k)
    BY <1>3, Kinds DEF GoalText, GoalImage
<1>4. CASE ActionTickLocal
    <2>1. route = "local" /\ asked \in OperatorGoals /\ UNCHANGED <<route, asked>>
        BY <1>4 DEF ActionTickLocal, GoalInv, Forms
    <2>2. SUFFICES ASSUME asked.mode = "pose" PROVE PoseOnBearing'
        BY <2>1 DEF PoseOnBearing
    <2>3. PICK at \in Poses, k \in Turns : asked = GoalPose(at, k)
        BY <1>3, <2>1, <2>2
    <2> DEFINE e == RosGoalToEdgeGoal(GoalPose(at, k))
    <2>4. held = e /\ e # None
        BY <1>4, <2>1, <2>2, <2>3, GoalAssumption DEF ActionTickLocal, GoalInv, Forms
    <2>5. input' = EngineGoal(e.mode, e.lang, e.pose, e.image)
        BY <1>4, <2>4 DEF ActionTickLocal
    <2>6. OnBearing(input'.pose, at) /\ input'.pose.h = Wrap(k)
        BY <2>5, PoseInputs
    <2> QED
        BY <1>2, <2>1, <2>3, <2>6
<1>12. CASE EdgeNode
    BY <1>12 DEF EdgeNode, PoseOnBearing, Inferred
<1>13. CASE OnGoal
    BY <1>13 DEF OnGoal, PoseOnBearing, Inferred
<1>5. CASE Backend
    <2>1. goal = ToPython(asked) /\ route \in Clouds /\ asked \in OperatorGoals /\ UNCHANGED <<route, asked>>
        BY <1>5 DEF Backend, GoalInv, Forms, Clouds
    <2>2. SUFFICES ASSUME Followed, asked.mode = "pose" PROVE PoseOnBearing'
        BY <2>1 DEF PoseOnBearing, Followed
    <2>3. PICK at \in Poses, k \in Turns : asked = GoalPose(at, k)
        BY <1>3, <2>1, <2>2
    <2>4. route \in {"omnivla_edge", "asyncvla", "omnivla"}
        BY <2>1, <2>2 DEF Followed, Clouds
    <2>5. input' \in {EdgeBackendGoal(ToPython(GoalPose(at, k))), OpenVLAGoal(ToPython(GoalPose(at, k)))}
        BY <1>5, <2>1, <2>3, <2>4 DEF Backend
    <2>6. OnBearing(input'.pose, at) /\ input'.pose.h = 0
        BY <2>5, PoseInputs
    <2>7. route' # "local"
        BY <2>1, <2>4
    <2> QED
        BY <1>2, <2>1, <2>3, <2>6, <2>7
<1>6. CASE Server
    BY <1>1, <1>6 DEF Server, Inferred
<1>7. CASE Network
    BY <1>1, <1>7 DEF Network, Inferred
<1>8. CASE Adapter
    BY <1>1, <1>8 DEF Adapter, Inferred
<1>9. CASE Bridge
    BY <1>1, <1>9 DEF Bridge, Inferred, Followed
<1>10. CASE Follower
    BY <1>1, <1>10 DEF Follower, Inferred
<1>11. CASE UNCHANGED vars
    BY <1>1, <1>11 DEF vars, Inferred
<1> QED
    BY <1>4, <1>5, <1>6, <1>7, <1>8, <1>9, <1>10, <1>11, <1>12, <1>13 DEF Next

\* Wherever the operator puts a pose goal, the network gets it in waypoint
\* spacings, pulled in to Reach on its own bearing if it is farther away: the
\* engine's _pose_goal_vector, the OpenVLA backends' _goal_pose_cos_sin and the
\* three encodings before them agree.
THEOREM PosesKeepBearing == Spec => []PoseOnBearing
<1>1. Init => PoseOnBearing
    BY DEF Init, PoseOnBearing, Inferred
<1> QED
    BY <1>1, GoalInit, GoalStep, PoseStep, PTL DEF Spec

=============================================================================
