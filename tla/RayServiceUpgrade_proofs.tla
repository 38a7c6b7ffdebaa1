---------------------- MODULE RayServiceUpgrade_proofs ----------------------
(***************************************************************************)
(* What an incremental upgrade keeps at every moment, for every step size  *)
(* and surge: the traffic, the capacity, and that the one fits the other.  *)
(***************************************************************************)
EXTENDS RayServicePass_proofs, RayServiceUpgrade

------------------------------------------------------------------------------
\* The abstract upgrade.  A reconcile is the composition of scalings and a move of traffic.

\* So a reconcile conserves the traffic.
LEMMA PassSplits ==
    ASSUME Sound(options), NEW v, Splits(v), NEW w \in Passes(v)
    PROVE  Splits(w)
<1>1. PICK b \in BOOLEAN, x \in BOOLEAN, y \in BOOLEAN, ready \in BOOLEAN, due \in BOOLEAN :
         w = Moved(Rolled(v, b), x, y, ready, due)
  BY DEF Passes
<1>2. Splits(Rolled(v, b))
  BY DEF Splits, Rolled, Upgrades
<1>3. \A k, who, does : Splits(k) => Splits(Scaled(k, who, does))
  BY ScalingShape DEF Scaled, Splits
<1> QED
  BY <1>1, <1>2, <1>3, MoveSplits DEF Moved

\* Every request goes to one of the two RayClusters, whatever fails and however often
\* the spec is taken back (the weights createHTTPRoute writes add up to 100).
THEOREM TrafficConserved == USpec => []Conserved
<1> DEFINE Inv == Sound(options) /\ Conserved
<1>1. UInit => Inv
  BY DEF UInit, ValidateClusterUpgradeOptions, Sound, Conserved, Fresh, Upgrades, Percent
<1>2. Inv /\ [UNext]_uvars => Inv'
  <2> SUFFICES ASSUME Inv, [UNext]_uvars PROVE Inv'
    OBVIOUS
  <2>1. options' = options
    BY DEF UNext, uvars
  <2>2. u' = u \/ u' = Fresh \/ u' \in Passes(u)
    BY DEF UNext, uvars, Begin, Advance, Promote, Restore, Abandon, Passes
  <2>3. CASE u' = u
    BY <2>1, <2>3 DEF Sound, Conserved
  <2>4. CASE u' = Fresh
    BY <2>1, <2>4 DEF Sound, Conserved, Fresh, Upgrades, Percent
  <2>5. CASE u' \in Passes(u)
    BY <2>1, <2>5, PassSplits DEF Conserved, Splits, Sound
  <2> QED
    BY <2>2, <2>3, <2>4, <2>5
<1> QED
  BY <1>1, <1>2, PTL DEF USpec

\* The capacities stay where surges from 0 and from 100 lead.
LEMMA PassOnGrid ==
    ASSUME Sound(options), NEW v \in Upgrades, OnGrid(options.surge, v), Drained(v),
           NEW w \in Passes(v)
    PROVE  OnGrid(options.surge, w) /\ Drained(w)
<1> DEFINE Carried(k) == k \in Upgrades /\ OnGrid(options.surge, k) /\ Drained(k)
<1>1. PICK b \in BOOLEAN, x \in BOOLEAN, y \in BOOLEAN, ready \in BOOLEAN, due \in BOOLEAN :
         w = Moved(Rolled(v, b), x, y, ready, due)
  BY DEF Passes
<1>2. Carried(Rolled(v, b))
  BY DEF Rolled, Upgrades, OnGrid, Drained
<1>3. ASSUME NEW k, NEW who, NEW does, Carried(k) PROVE Carried(Scaled(k, who, does))
  BY <1>3, ScalingShape, ScalingOnGrid DEF Scaled
<1>4. ASSUME NEW k, Carried(k), NEW r, r = calculateTrafficRoutedPercent(options, k, ready, due)
      PROVE  OnGrid(options.surge, r) /\ Drained(r)
  <2>1. r.a = k.a /\ r.p = k.p
    BY <1>4 DEF calculateTrafficRoutedPercent, Split
  <2> QED
    BY <1>4, <2>1 DEF OnGrid, Drained
<1> HIDE DEF Carried
<1>5. Carried(Scaled(Scaled(Rolled(v, b), "pending", x), "active", y))
  BY <1>2, <1>3
<1> QED
  BY <1>1, <1>4, <1>5 DEF Moved

\* The active RayCluster gives up its last capacity only when the pending one has all of
\* it, however the surges were interleaved with rollbacks and whether or not they divide
\* 100: so a RayCluster that takes over (IsIncrementalUpgradeComplete looks at the old one's
\* capacity only) is at full size.
THEOREM NeverUncovered == USpec => [](u.a = 0 => u.p = 100)
<1> DEFINE Inv == /\ Sound(options) /\ Splits(u)
                  /\ OnGrid(options.surge, u) /\ Drained(u)
<1>1. ASSUME Sound(options) PROVE OnGrid(options.surge, Fresh) /\ Drained(Fresh) /\ Splits(Fresh)
  <2>1. 100 \in Down(options.surge) /\ 0 \in Up(options.surge)
    BY <1>1, GridEnds DEF Sound
  <2> QED
    BY <2>1 DEF OnGrid, Drained, Splits, Fresh, Upgrades, Percent
<1>2. UInit => Inv
  BY <1>1 DEF UInit, ValidateClusterUpgradeOptions, Sound
<1>3. Inv /\ [UNext]_uvars => Inv'
  <2> SUFFICES ASSUME Inv, [UNext]_uvars PROVE Inv'
    OBVIOUS
  <2>1. options' = options
    BY DEF UNext, uvars
  <2>2. u' = u \/ u' = Fresh \/ u' \in Passes(u)
    BY DEF UNext, uvars, Begin, Advance, Promote, Restore, Abandon, Passes
  <2>3. u \in Upgrades
    BY DEF Splits
  <2>4. Splits(u') /\ OnGrid(options.surge, u') /\ Drained(u')
    BY <1>1, <2>2, <2>3, PassSplits, PassOnGrid
  <2> QED
    BY <2>1, <2>4 DEF Sound
<1>4. Inv => (u.a = 0 => u.p = 100)
  BY DEF Drained
<1> QED
  BY <1>2, <1>3, <1>4, PTL DEF USpec

------------------------------------------------------------------------------
\* Without a rollback.  The two have all of the capacity, or a surge more, or the
\* pending one has all of it by itself: so a surge can be taken from the active
\* one as soon as the traffic has followed.
Ahead(o, v) ==
    /\ Splits(v) /\ v.ta <= v.a /\ v.tp <= v.p
    /\ v.a + v.p = 100 \/ v.a + v.p = 100 + o.surge \/ v.p = 100

\* The arithmetic of taking a surge from the active RayCluster, or giving one to the
\* pending one.
LEMMA SurgeAhead ==
    ASSUME NEW a \in Percent, NEW p \in Percent, NEW ta \in Percent, NEW tp \in Percent,
           NEW s \in Percent, ta + tp = 100, ta <= a, p = tp,
           a + p = 100 \/ a + p = 100 + s \/ p = 100
    PROVE  /\ a + p > 100 => LET b == Most(0, a - s) IN
                /\ ta <= b
                /\ b + p = 100 \/ b + p = 100 + s \/ p = 100
           /\ ~(a + p > 100) => LET q == Least(100, p + s) IN
                /\ tp <= q
                /\ a + q = 100 \/ a + q = 100 + s \/ q = 100
BY DEF Percent, Most, Least

\* A scaling (reconcileServeTargetCapacity) of an upgrade that goes ahead.
LEMMA ScalingAhead ==
    ASSUME NEW o, Sound(o), NEW v, Ahead(o, v), ~v.rb, NEW who,
           NEW r, r = reconcileServeTargetCapacity(o, v, who)
    PROVE  Ahead(o, r) /\ ~r.rb
<1>1. v \in Upgrades /\ o.surge \in Percent /\ v.ta + v.tp = 100
  BY DEF Ahead, Splits, Sound
<1>2. r \in Upgrades /\ r.ta = v.ta /\ r.tp = v.tp /\ r.rb = v.rb /\ ScaledBy(o, v, r)
  BY <1>1, ScalingShape
<1>3. v.a \in Percent /\ v.p \in Percent /\ v.ta \in Percent /\ v.tp \in Percent
  BY <1>1 DEF Upgrades
<1>4. CASE r.a = v.a /\ r.p = v.p
  BY <1>1, <1>2, <1>4 DEF Ahead, Splits
<1>5. CASE v.p = v.tp /\ v.a + v.p > 100 /\ r.p = v.p /\ r.a = Most(0, v.a - o.surge)
  BY <1>1, <1>2, <1>3, <1>5, SurgeAhead DEF Ahead, Splits
<1>6. CASE v.p = v.tp /\ ~(v.a + v.p > 100) /\ r.a = v.a /\ r.p = Least(100, v.p + o.surge)
  BY <1>1, <1>2, <1>3, <1>6, SurgeAhead DEF Ahead, Splits
<1> QED
  BY <1>2, <1>4, <1>5, <1>6 DEF ScaledBy

\* The sides are interchangeable.
LEMMA Commutes ==
    ASSUME NEW x \in Percent, NEW y \in Percent
    PROVE  x + y = y + x
BY DEF Percent

\* What one side gains within its capacity, the other can spare.
LEMMA GainFits ==
    ASSUME NEW x \in Percent, NEW cap \in Percent, NEW y \in Percent, NEW other \in Percent,
           x + y = 100, x <= cap, y <= other, NEW w, Gains(x, cap, w)
    PROVE  w <= cap /\ 100 - w <= other /\ 100 - (100 - w) = w
BY DEF Gains, Percent

\* A move of traffic (calculateTrafficRoutedPercent), ahead or back.
LEMMA MoveFits ==
    ASSUME NEW o, Sound(o), NEW v, Splits(v), v.ta <= v.a, v.tp <= v.p, NEW ready, NEW due,
           NEW r, r = calculateTrafficRoutedPercent(o, v, ready, due)
    PROVE  r.ta <= r.a /\ r.tp <= r.p /\ r.a = v.a /\ r.p = v.p /\ r.rb = v.rb
<1>1. v \in Upgrades /\ v.ta + v.tp = 100
  BY DEF Splits
<1>a. v.a \in Percent /\ v.p \in Percent /\ v.ta \in Percent /\ v.tp \in Percent
  BY <1>1 DEF Upgrades
<1>2. ASSUME NEW w, Gains(v.ta, v.a, w), r = Split(v, w)
      PROVE  r.ta <= r.a /\ r.tp <= r.p /\ r.a = v.a /\ r.p = v.p /\ r.rb = v.rb
  <2>1. r.a = v.a /\ r.p = v.p /\ r.rb = v.rb /\ r.ta = w /\ r.tp = 100 - w
    BY <1>2 DEF Split
  <2>2. w <= v.a /\ 100 - w <= v.p
    BY <1>1, <1>a, <1>2, GainFits
  <2> QED
    BY <2>1, <2>2
<1>3. ASSUME NEW w, Gains(v.tp, v.p, w), r = Split(v, 100 - w)
      PROVE  r.ta <= r.a /\ r.tp <= r.p /\ r.a = v.a /\ r.p = v.p /\ r.rb = v.rb
  <2>1. r.a = v.a /\ r.p = v.p /\ r.rb = v.rb /\ r.ta = 100 - w /\ r.tp = 100 - (100 - w)
    BY <1>3 DEF Split
  <2>2. 100 - w <= v.a /\ 100 - (100 - w) <= v.p
    <3>1. v.tp + v.ta = 100
      BY <1>1, <1>a, Commutes
    <3> QED
      BY <1>a, <1>3, <3>1, GainFits
  <2> QED
    BY <2>1, <2>2
<1> QED
  BY <1>1, <1>2, <1>3, MoveShape

\* A reconcile that does not roll back.
LEMMA PassAhead ==
    ASSUME Sound(options), NEW v, Ahead(options, v), NEW w \in Passes(v), ~w.rb
    PROVE  Ahead(options, w)
<1>1. PICK b \in BOOLEAN, x \in BOOLEAN, y \in BOOLEAN, ready \in BOOLEAN, due \in BOOLEAN :
         w = Moved(Rolled(v, b), x, y, ready, due)
  BY DEF Passes
<1> DEFINE v1 == Rolled(v, b)
           v2 == Scaled(v1, "pending", x)
           v3 == Scaled(v2, "active", y)
<1>2. Ahead(options, v1) /\ v1.rb = b
  BY DEF Ahead, Splits, Rolled, Upgrades
<1>3. w = calculateTrafficRoutedPercent(options, v3, ready, due)
  BY <1>1 DEF Moved
<1>4. CASE ~b
  <2>1. Ahead(options, v2) /\ ~v2.rb
    BY <1>2, <1>4, ScalingAhead DEF Scaled
  <2>2. Ahead(options, v3) /\ ~v3.rb
    BY <2>1, ScalingAhead DEF Scaled
  <2> HIDE DEF v3
  <2>3. Splits(w)
    BY <1>3, <2>2, MoveSplits DEF Ahead
  <2> QED
    BY <1>3, <2>2, <2>3, MoveFits DEF Ahead
<1>5. CASE b
  <2>1. v2 \in Upgrades /\ v2.rb
    <3>1. v1 \in Upgrades /\ v1.rb
      BY <1>2, <1>5 DEF Ahead, Splits
    <3> HIDE DEF v1
    <3> QED
      BY <3>1, ScalingShape DEF Scaled
  <2> HIDE DEF v2
  <2>2. v3.rb
    BY <2>1, ScalingShape DEF Scaled
  <2> HIDE DEF v3
  <2> QED
    BY <1>3, <2>2, MoveKeeps
<1> QED
  BY <1>4, <1>5

\* All of the traffic needs all of the capacity.
LEMMA Enough ==
    ASSUME NEW a \in Percent, NEW p \in Percent, NEW ta \in Percent, NEW tp \in Percent,
           ta + tp = 100, ta <= a, tp <= p
    PROVE  a + p >= 100
BY DEF Percent

\* Without a rollback no RayCluster ever has more traffic than capacity, for every step
\* and surge (reconcileServeTargetCapacity, calculateTrafficRoutedPercent).
THEOREM ForwardFits == UForward => []Fits
<1> DEFINE Inv == Sound(options) /\ Ahead(options, u)
<1>1. UInit => Inv
  BY DEF UInit, ValidateClusterUpgradeOptions, Sound, Ahead, Splits, Fresh, Upgrades, Percent
<1>2. Inv /\ [UNext /\ ~u'.rb]_uvars => Inv'
  <2> SUFFICES ASSUME Inv, [UNext /\ ~u'.rb]_uvars PROVE Inv'
    OBVIOUS
  <2>1. options' = options
    BY DEF UNext, uvars
  <2>2. u' = u \/ u' = Fresh \/ (u' \in Passes(u) /\ ~u'.rb)
    BY DEF UNext, uvars, Begin, Advance, Promote, Restore, Abandon, Passes
  <2>3. CASE u' = u
    BY <2>1, <2>3 DEF Sound, Ahead, Splits
  <2>4. CASE u' = Fresh
    BY <2>1, <2>4 DEF Sound, Ahead, Splits, Fresh, Upgrades, Percent
  <2>5. CASE u' \in Passes(u) /\ ~u'.rb
    <3>1. Ahead(options, u')
      BY <2>5, PassAhead
    <3> QED
      BY <2>1, <3>1 DEF Sound, Ahead, Splits
  <2> QED
    BY <2>2, <2>3, <2>4, <2>5
<1>3. Inv => Fits
  <2> SUFFICES ASSUME Inv PROVE Fits
    OBVIOUS
  <2>1. /\ u.a \in Percent /\ u.p \in Percent /\ u.ta \in Percent /\ u.tp \in Percent
        /\ u.ta + u.tp = 100 /\ u.ta <= u.a /\ u.tp <= u.p
    BY DEF Ahead, Splits, Upgrades
  <2> QED
    BY <2>1, Enough DEF Fits
<1> QED
  BY <1>1, <1>2, <1>3, PTL DEF UForward

------------------------------------------------------------------------------
\* With rollbacks, when the surge divides 100: capacities are multiples of it.
Divisors == {1, 2, 4, 5, 10, 20, 25, 50, 100}
Whole(x, s) == x \in Percent /\ x % s = 0

\* The multiples of the surge, up to 100.
LEMMA Multiples ==
    ASSUME NEW s \in Divisors, NEW x, Whole(x, s)
    PROVE  /\ x = 100 \/ Whole(x + s, s)
           /\ x = 0 \/ Whole(x - s, s)
BY DEF Divisors, Whole, Percent

\* The two have all of the capacity, or a surge more.
Stepped(s, v) ==
    /\ Splits(v) /\ v.ta <= v.a /\ v.tp <= v.p
    /\ Whole(v.a, s) /\ Whole(v.p, s)
    /\ v.a + v.p = 100 \/ v.a + v.p = 100 + s

\* The arithmetic of giving a surge to one side or of taking it from the other: x is
\* the side that gains and its traffic tx has followed, y is the other one.
LEMMA SurgeEven ==
    ASSUME NEW s \in Divisors, NEW x, Whole(x, s), NEW y, Whole(y, s), NEW ty \in Percent,
           x + ty = 100, ty <= y, x + y = 100 \/ x + y = 100 + s
    PROVE  /\ x + y > 100 => LET z == Most(0, y - s) IN
                Whole(z, s) /\ ty <= z /\ x + z = 100
           /\ ~(x + y > 100) => LET z == Least(100, x + s) IN
                Whole(z, s) /\ x <= z /\ (z + y = 100 \/ z + y = 100 + s)
<1>1. s \in 1..100 /\ x \in Percent /\ y \in Percent
  BY DEF Divisors, Whole, Percent
<1>2. /\ x = 100 \/ Whole(x + s, s)
      /\ y = 0 \/ Whole(y - s, s)
      /\ Whole(100, s)
  <2>1. x = 100 \/ Whole(x + s, s)
    BY Multiples
  <2>2. y = 0 \/ Whole(y - s, s)
    BY Multiples
  <2>3. Whole(100, s)
    BY DEF Divisors, Whole, Percent
  <2> QED
    BY <2>1, <2>2, <2>3
<1>3. ASSUME x + y > 100 PROVE y >= s /\ x + (y - s) = 100 /\ ty <= y - s
  BY <1>1, <1>3, x + y = 100 + s DEF Percent
<1>4. ASSUME ~(x + y > 100) PROVE x + y = 100 /\ (x = 100 => y = 0)
  BY <1>1, <1>4 DEF Percent
<1> QED
  BY <1>1, <1>2, <1>3, <1>4 DEF Percent, Most, Least, Whole

\* A scaling (reconcileServeTargetCapacity), in an upgrade or in a rollback.
LEMMA ScalingStepped ==
    ASSUME NEW o, Sound(o), o.surge \in Divisors, NEW v, Stepped(o.surge, v), NEW who,
           NEW r, r = reconcileServeTargetCapacity(o, v, who)
    PROVE  Stepped(o.surge, r)
<1> DEFINE s == o.surge
<1>1. /\ v \in Upgrades /\ v.ta + v.tp = 100 /\ v.ta <= v.a /\ v.tp <= v.p
      /\ v.a \in Percent /\ v.p \in Percent /\ v.ta \in Percent /\ v.tp \in Percent
      /\ Whole(v.a, s) /\ Whole(v.p, s)
      /\ v.a + v.p = 100 \/ v.a + v.p = 100 + s
      /\ v.p + v.a = 100 \/ v.p + v.a = 100 + s
      /\ v.p + v.a > 100 <=> v.a + v.p > 100
  <2>1. v \in Upgrades
    BY DEF Stepped, Splits
  <2>2. v.a \in Percent /\ v.p \in Percent /\ v.ta \in Percent /\ v.tp \in Percent
    BY <2>1 DEF Upgrades
  <2>3. v.p + v.a = v.a + v.p
    BY <2>2, Commutes
  <2> QED
    BY <2>1, <2>2, <2>3 DEF Stepped, Splits
<1>2. r \in Upgrades /\ r.ta = v.ta /\ r.tp = v.tp /\ r.rb = v.rb /\ ScaledBy(o, v, r)
  BY <1>1, ScalingShape
<1>3. CASE r.a = v.a /\ r.p = v.p
  BY <1>1, <1>2, <1>3 DEF Stepped, Splits
<1>4. CASE v.a = v.ta /\ v.a + v.p > 100 /\ r.a = v.a /\ r.p = Most(0, v.p - s)
  <2>1. Whole(r.p, s) /\ v.tp <= r.p /\ v.a + r.p = 100
    BY <1>1, <1>4, SurgeEven
  <2> QED
    BY <1>1, <1>2, <1>4, <2>1 DEF Stepped, Splits
<1>5. CASE v.a = v.ta /\ ~(v.a + v.p > 100) /\ r.p = v.p /\ r.a = Least(100, v.a + s)
  <2>1. Whole(r.a, s) /\ v.a <= r.a /\ (r.a + v.p = 100 \/ r.a + v.p = 100 + s)
    BY <1>1, <1>5, SurgeEven
  <2> QED
    BY <1>1, <1>2, <1>5, <2>1 DEF Stepped, Splits
<1>6. CASE v.p = v.tp /\ v.a + v.p > 100 /\ r.p = v.p /\ r.a = Most(0, v.a - s)
  <2>1. v.p + v.ta = 100
    BY <1>1, <1>6, Commutes
  <2>2. Whole(r.a, s) /\ v.ta <= r.a /\ v.p + r.a = 100
    BY <1>1, <1>6, <2>1, SurgeEven
  <2>3. r.a + v.p = 100
    BY <1>1, <2>2, Commutes DEF Whole
  <2> QED
    BY <1>1, <1>2, <1>6, <2>2, <2>3 DEF Stepped, Splits
<1>7. CASE v.p = v.tp /\ ~(v.a + v.p > 100) /\ r.a = v.a /\ r.p = Least(100, v.p + s)
  <2>1. v.p + v.ta = 100
    BY <1>1, <1>7, Commutes
  <2>2. Whole(r.p, s) /\ v.p <= r.p /\ (r.p + v.a = 100 \/ r.p + v.a = 100 + s)
    BY <1>1, <1>7, <2>1, SurgeEven
  <2>3. v.a + r.p = 100 \/ v.a + r.p = 100 + s
    BY <1>1, <2>2, Commutes DEF Whole
  <2> QED
    BY <1>1, <1>2, <1>7, <2>2, <2>3 DEF Stepped, Splits
<1> QED
  BY <1>2, <1>3, <1>4, <1>5, <1>6, <1>7 DEF ScaledBy

\* A reconcile, ahead or back.
LEMMA PassStepped ==
    ASSUME Sound(options), options.surge \in Divisors, NEW v, Stepped(options.surge, v),
           NEW w \in Passes(v)
    PROVE  Stepped(options.surge, w)
<1>1. PICK b \in BOOLEAN, x \in BOOLEAN, y \in BOOLEAN, ready \in BOOLEAN, due \in BOOLEAN :
         w = Moved(Rolled(v, b), x, y, ready, due)
  BY DEF Passes
<1>2. Stepped(options.surge, Rolled(v, b))
  BY DEF Stepped, Splits, Rolled, Upgrades
<1>3. \A k, who, does : Stepped(options.surge, k) => Stepped(options.surge, Scaled(k, who, does))
  BY ScalingStepped DEF Scaled
<1>4. PICK k : /\ Stepped(options.surge, k)
               /\ w = calculateTrafficRoutedPercent(options, k, ready, due)
  BY <1>1, <1>2, <1>3 DEF Moved
<1>5. Splits(w)
  BY <1>4, MoveSplits DEF Stepped
<1> QED
  BY <1>4, <1>5, MoveFits DEF Stepped

\* Rolled back or not, as often as the spec is changed, no RayCluster ever has more
\* traffic than capacity if the surge divides 100 (with another surge a rollback
\* takes more from the pending RayCluster than the traffic it has lost).
THEOREM EvenSurgeFits == USpec /\ Even => []Fits
<1> DEFINE Inv == Sound(options) /\ Even /\ Stepped(options.surge, u)
<1>1. UInit /\ Even => Inv
  BY DEF UInit, ValidateClusterUpgradeOptions, Sound, Stepped, Splits, Fresh, Upgrades, Percent,
         Whole, Even
<1>2. Inv /\ [UNext]_uvars => Inv'
  <2> SUFFICES ASSUME Inv, [UNext]_uvars PROVE Inv'
    OBVIOUS
  <2>1. options' = options
    BY DEF UNext, uvars
  <2>2. u' = u \/ u' = Fresh \/ u' \in Passes(u)
    BY DEF UNext, uvars, Begin, Advance, Promote, Restore, Abandon, Passes
  <2>3. CASE u' = u
    BY <2>1, <2>3 DEF Sound, Even, Stepped, Splits
  <2>4. CASE u' = Fresh
    <3>1. Stepped(options.surge, Fresh)
      BY DEF Stepped, Splits, Fresh, Upgrades, Percent, Whole, Even
    <3> QED
      BY <2>1, <2>4, <3>1 DEF Sound, Even, Stepped, Splits
  <2>5. CASE u' \in Passes(u)
    <3>1. Stepped(options.surge, u')
      BY <2>5, PassStepped DEF Even, Divisors
    <3> QED
      BY <2>1, <3>1 DEF Sound, Even, Stepped, Splits
  <2> QED
    BY <2>2, <2>3, <2>4, <2>5
<1>3. Inv => Fits
  <2> SUFFICES ASSUME Inv PROVE Fits
    OBVIOUS
  <2>1. /\ u.a \in Percent /\ u.p \in Percent /\ u.ta \in Percent /\ u.tp \in Percent
        /\ u.ta + u.tp = 100 /\ u.ta <= u.a /\ u.tp <= u.p
    BY DEF Stepped, Splits, Upgrades
  <2> QED
    BY <2>1, Enough DEF Fits
<1> QED
  BY <1>1, <1>2, <1>3, PTL DEF USpec

==============================================================================
