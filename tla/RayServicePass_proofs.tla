------------------------ MODULE RayServicePass_proofs ------------------------
(***************************************************************************)
(* What one pass of the RayService controller makes of a status, for every *)
(* number of RayClusters, of edits and of faults and for every strategy:   *)
(* the arithmetic of a scaling and of a move of traffic, the work on the   *)
(* two RayClusters (Worked), the weights of the HTTPRoute and the stages   *)
(* that lead from the status that was read to the one that is stored       *)
(* (StageFacts).                                                           *)
(***************************************************************************)
EXTENDS RayService, TLAPS

------------------------------------------------------------------------------
\* The arithmetic of one scaling and of one move of traffic, for every step and surge.

\* What the arithmetic needs to know of the options.
Sound(o) == o.step \in Percent /\ o.surge \in Percent

\* Traffic is conserved by a scaling and by a move.
Splits(v) == v \in Upgrades /\ v.ta + v.tp = 100

\* A percentage that gains or loses a surge stays one (the min and max of
\* reconcileServeTargetCapacity).
LEMMA Clamped ==
    ASSUME NEW x \in Percent, NEW s \in Percent
    PROVE  Least(100, x + s) \in Percent /\ Most(0, x - s) \in Percent
BY DEF Percent, Least, Most

\* A scaling (reconcileServeTargetCapacity) changes at most one capacity, and only when
\* the traffic has followed the capacity.
ScaledBy(o, v, r) ==
    \/ r.a = v.a /\ r.p = v.p
    \/ v.rb /\ v.a = v.ta /\ v.a + v.p > 100 /\ r.a = v.a /\ r.p = Most(0, v.p - o.surge)
    \/ v.rb /\ v.a = v.ta /\ ~(v.a + v.p > 100) /\ r.p = v.p /\ r.a = Least(100, v.a + o.surge)
    \/ ~v.rb /\ v.p = v.tp /\ v.a + v.p > 100 /\ r.p = v.p /\ r.a = Most(0, v.a - o.surge)
    \/ ~v.rb /\ v.p = v.tp /\ ~(v.a + v.p > 100) /\ r.a = v.a /\ r.p = Least(100, v.p + o.surge)
\* That is what a scaling is.
LEMMA ScalingShape ==
    ASSUME NEW o, Sound(o), NEW v \in Upgrades, NEW who,
           NEW r, r = reconcileServeTargetCapacity(o, v, who)
    PROVE  r \in Upgrades /\ r.ta = v.ta /\ r.tp = v.tp /\ r.rb = v.rb /\ ScaledBy(o, v, r)
<1>1. v.a \in Percent /\ v.p \in Percent /\ o.surge \in Percent
  BY DEF Upgrades, Sound
<1>2. CASE v.rb /\ v.a = v.ta /\ v.a + v.p > 100 /\ who = "pending"
  <2>1. r = Sized(v, v.a, Most(0, v.p - o.surge))
    BY <1>2 DEF reconcileServeTargetCapacity
  <2>2. Most(0, v.p - o.surge) \in Percent
    BY <1>1, Clamped
  <2>3. /\ r \in Upgrades /\ r.a = v.a /\ r.p = Most(0, v.p - o.surge)
        /\ r.ta = v.ta /\ r.tp = v.tp /\ r.rb = v.rb
    BY <1>1, <2>1, <2>2 DEF Sized, Upgrades
  <2> QED
    BY <1>2, <2>3, Zenon DEF ScaledBy
<1>3. CASE v.rb /\ v.a = v.ta /\ ~(v.a + v.p > 100) /\ who = "active"
  <2>1. r = Sized(v, Least(100, v.a + o.surge), v.p)
    BY <1>3 DEF reconcileServeTargetCapacity
  <2>2. Least(100, v.a + o.surge) \in Percent
    BY <1>1, Clamped
  <2>3. /\ r \in Upgrades /\ r.a = Least(100, v.a + o.surge) /\ r.p = v.p
        /\ r.ta = v.ta /\ r.tp = v.tp /\ r.rb = v.rb
    BY <1>1, <2>1, <2>2 DEF Sized, Upgrades
  <2> QED
    BY <1>3, <2>3, Zenon DEF ScaledBy
<1>4. CASE ~v.rb /\ v.p = v.tp /\ v.a + v.p > 100 /\ who = "active"
  <2>1. r = Sized(v, Most(0, v.a - o.surge), v.p)
    BY <1>4 DEF reconcileServeTargetCapacity
  <2>2. Most(0, v.a - o.surge) \in Percent
    BY <1>1, Clamped
  <2>3. /\ r \in Upgrades /\ r.a = Most(0, v.a - o.surge) /\ r.p = v.p
        /\ r.ta = v.ta /\ r.tp = v.tp /\ r.rb = v.rb
    BY <1>1, <2>1, <2>2 DEF Sized, Upgrades
  <2> QED
    BY <1>4, <2>3, Zenon DEF ScaledBy
<1>5. CASE ~v.rb /\ v.p = v.tp /\ ~(v.a + v.p > 100) /\ who = "pending"
  <2>1. r = Sized(v, v.a, Least(100, v.p + o.surge))
    BY <1>5 DEF reconcileServeTargetCapacity
  <2>2. Least(100, v.p + o.surge) \in Percent
    BY <1>1, Clamped
  <2>3. /\ r \in Upgrades /\ r.a = v.a /\ r.p = Least(100, v.p + o.surge)
        /\ r.ta = v.ta /\ r.tp = v.tp /\ r.rb = v.rb
    BY <1>1, <2>1, <2>2 DEF Sized, Upgrades
  <2> QED
    BY <1>5, <2>3, Zenon DEF ScaledBy
<1>6. r = v => r \in Upgrades /\ r.ta = v.ta /\ r.tp = v.tp /\ r.rb = v.rb /\ ScaledBy(o, v, r)
  BY DEF ScaledBy
<1>7. \/ r = v
      \/ v.rb /\ v.a = v.ta /\ v.a + v.p > 100 /\ who = "pending"
      \/ v.rb /\ v.a = v.ta /\ ~(v.a + v.p > 100) /\ who = "active"
      \/ ~v.rb /\ v.p = v.tp /\ v.a + v.p > 100 /\ who = "active"
      \/ ~v.rb /\ v.p = v.tp /\ ~(v.a + v.p > 100) /\ who = "pending"
  BY Zenon DEF reconcileServeTargetCapacity
<1> QED
  BY <1>2, <1>3, <1>4, <1>5, <1>6, <1>7, Zenon

\* A move (calculateTrafficRoutedPercent) gives the side that gains w, at most its
\* capacity, and the other side the rest.
Gains(x, cap, w) == w \in Percent /\ w <= cap /\ (x <= cap => x <= w)
\* That is what a move is.
LEMMA MoveShape ==
    ASSUME NEW o, Sound(o), NEW v \in Upgrades, NEW ready, NEW due,
           NEW r, r = calculateTrafficRoutedPercent(o, v, ready, due)
    PROVE  \/ r = v
           \/ v.rb /\ \E w : /\ Gains(v.ta, v.a, w)
                             /\ r = Split(v, w)
           \/ ~v.rb /\ \E w : /\ Gains(v.tp, v.p, w)
                              /\ r = Split(v, 100 - w)
<1> DEFINE w(x, cap) == Least(Least(100, x + o.step), cap)
<1>1. v.a \in Percent /\ v.p \in Percent /\ v.ta \in Percent /\ v.tp \in Percent
  BY DEF Upgrades
<1>2. ASSUME NEW x \in Percent, NEW cap \in Percent
      PROVE  Gains(x, cap, w(x, cap))
  <2> DEFINE m == Least(100, x + o.step)
  <2>1. o.step \in Percent
    BY DEF Sound
  <2>2. m \in Percent /\ x <= m
    BY <2>1 DEF Least, Percent
  <2> HIDE DEF m
  <2>3. Least(m, cap) \in Percent /\ Least(m, cap) <= cap /\ (x <= cap => x <= Least(m, cap))
    BY <2>2 DEF Least, Percent
  <2> QED
    BY <2>3 DEF Gains, m
<1>3. CASE v.rb
  <2>1. r = v \/ r = Split(v, w(v.ta, v.a))
    BY <1>3 DEF calculateTrafficRoutedPercent
  <2> QED
    BY <1>1, <1>2, <1>3, <2>1
<1>4. CASE ~v.rb
  <2>1. r = v \/ r = Split(v, 100 - w(v.tp, v.p))
    BY <1>4 DEF calculateTrafficRoutedPercent
  <2> QED
    BY <1>1, <1>2, <1>4, <2>1
<1> QED
  BY <1>3, <1>4

\* What one side gains the other loses.
LEMMA MoveSplits ==
    ASSUME NEW o, Sound(o), NEW v, Splits(v), NEW ready, NEW due
    PROVE  Splits(calculateTrafficRoutedPercent(o, v, ready, due))
<1>1. v \in Upgrades
  BY DEF Splits
<1>2. \A w \in Percent : Splits(Split(v, w)) /\ Splits(Split(v, 100 - w))
  BY <1>1 DEF Split, Splits, Upgrades, Percent
<1> QED
  BY <1>1, <1>2, MoveShape DEF Gains

\* Nor does it change whether it is a rollback.
LEMMA MoveKeeps ==
    ASSUME NEW o, NEW v, NEW ready, NEW due
    PROVE  calculateTrafficRoutedPercent(o, v, ready, due).rb = v.rb
BY DEF calculateTrafficRoutedPercent, Split

------------------------------------------------------------------------------
\* The capacities surges can lead to, down from 100 and up from 0.
Down(s) == {x \in Percent : \E i \in Nat : x = 100 - i * s}
Up(s) == {x \in Percent : \E i \in Nat : x = i * s}

\* Only one of the two may have come to where the other one's surges lead.
OnGrid(s, v) ==
    \/ v.a \in Down(s) /\ v.p \in Down(s) \cup Up(s)
    \/ v.a \in Up(s) /\ v.p \in Down(s)

\* The active RayCluster has no capacity left only if the pending one has all of it.
Drained(v) == v.a = 0 => v.p = 100

\* Both ends are reached.
LEMMA GridEnds ==
    ASSUME NEW s \in Percent
    PROVE  100 \in Down(s) /\ 0 \in Up(s)
<1>1. 100 = 100 - 0 * s /\ 0 = 0 * s
  BY DEF Percent
<1> QED
  BY <1>1 DEF Down, Up, Percent

\* A surge more.
LEMMA GridUp ==
    ASSUME NEW s \in Percent, NEW x
    PROVE  /\ x \in Down(s) => Least(100, x + s) \in Down(s)
           /\ x \in Up(s) => Least(100, x + s) \in Up(s) \cup {100}
<1>1. ASSUME x \in Down(s) PROVE Least(100, x + s) \in Down(s)
  <2>1. PICK i \in Nat : x = 100 - i * s
    BY <1>1 DEF Down
  <2>2. x \in Percent
    BY <1>1 DEF Down
  <2>3. CASE x + s >= 100
    <3>1. Least(100, x + s) = 100
      BY <2>2, <2>3 DEF Least, Percent
    <3> QED
      BY <3>1, GridEnds
  <2>4. CASE ~(x + s >= 100)
    <3>1. i # 0
      BY <2>1, <2>4 DEF Percent
    <3>2. i - 1 \in Nat /\ x + s = 100 - (i - 1) * s
      BY <2>1, <3>1 DEF Percent
    <3>3. Least(100, x + s) = x + s /\ x + s \in Percent
      BY <2>2, <2>4 DEF Least, Percent
    <3> QED
      BY <3>2, <3>3 DEF Down
  <2> QED
    BY <2>3, <2>4
<1>2. ASSUME x \in Up(s) PROVE Least(100, x + s) \in Up(s) \cup {100}
  <2>1. PICK i \in Nat : x = i * s
    BY <1>2 DEF Up
  <2>2. x \in Percent
    BY <1>2 DEF Up
  <2>3. CASE x + s >= 100
    BY <2>2, <2>3 DEF Least, Percent
  <2>4. CASE ~(x + s >= 100)
    <3>1. i + 1 \in Nat /\ x + s = (i + 1) * s
      BY <2>1 DEF Percent
    <3>2. Least(100, x + s) = x + s /\ x + s \in Percent
      BY <2>2, <2>4 DEF Least, Percent
    <3> QED
      BY <3>1, <3>2 DEF Up
  <2> QED
    BY <2>3, <2>4
<1> QED
  BY <1>1, <1>2

\* A surge less.
LEMMA GridDown ==
    ASSUME NEW s \in Percent, NEW x
    PROVE  /\ x \in Down(s) /\ x > s => Most(0, x - s) \in Down(s)
           /\ x \in Up(s) => Most(0, x - s) \in Up(s)
<1>1. ASSUME x \in Down(s), x > s PROVE Most(0, x - s) \in Down(s)
  <2>1. PICK i \in Nat : x = 100 - i * s
    BY <1>1 DEF Down
  <2>2. x \in Percent
    BY <1>1 DEF Down
  <2>3. i + 1 \in Nat /\ x - s = 100 - (i + 1) * s
    BY <2>1 DEF Percent
  <2>4. Most(0, x - s) = x - s /\ x - s \in Percent
    BY <1>1, <2>2 DEF Most, Percent
  <2> QED
    BY <2>3, <2>4 DEF Down
<1>2. ASSUME x \in Up(s) PROVE Most(0, x - s) \in Up(s)
  <2>1. PICK i \in Nat : x = i * s
    BY <1>2 DEF Up
  <2>2. x \in Percent
    BY <1>2 DEF Up
  <2>3. CASE x - s <= 0
    <3>1. Most(0, x - s) = 0
      BY <2>2, <2>3 DEF Most, Percent
    <3> QED
      BY <3>1, GridEnds
  <2>4. CASE ~(x - s <= 0)
    <3>1. i # 0
      BY <2>1, <2>4 DEF Percent
    <3>2. i - 1 \in Nat /\ x - s = (i - 1) * s
      BY <2>1, <3>1 DEF Percent
    <3>3. Most(0, x - s) = x - s /\ x - s \in Percent
      BY <2>2, <2>4 DEF Most, Percent
    <3> QED
      BY <3>2, <3>3 DEF Up
  <2> QED
    BY <2>3, <2>4
<1> QED
  BY <1>1, <1>2

\* Multiples are as far apart as their factors.
LEMMA Apart ==
    ASSUME NEW s \in Nat, NEW i \in Nat, NEW j \in Nat
    PROVE  j * s > i * s => j * s >= i * s + s
<1>1. CASE j <= i
  <2>1. i - j \in Nat /\ i * s = j * s + (i - j) * s
    BY <1>1
  <2>2. (i - j) * s >= 0
    BY <2>1
  <2>3. j * s \in Nat /\ i * s \in Nat /\ (i - j) * s \in Nat
    BY <2>1
  <2> QED
    BY <2>1, <2>2, <2>3
<1>2. CASE j > i
  <2>1. j - i - 1 \in Nat /\ j * s = i * s + s + (j - i - 1) * s
    BY <1>2
  <2>2. (j - i - 1) * s >= 0
    BY <2>1
  <2>3. j * s \in Nat /\ i * s \in Nat /\ (j - i - 1) * s \in Nat
    BY <2>1
  <2> QED
    BY <2>1, <2>2, <2>3
<1> QED
  BY <1>1, <1>2

\* The last surge is taken from one side only if the other one has all of the
\* capacity.
LEMMA LastSurge ==
    ASSUME NEW s \in Percent, NEW x \in Percent, NEW y \in Percent, x <= s, x + y > 100
    PROVE  /\ x \in Down(s) /\ y \in Down(s) \cup Up(s) => y = 100
           /\ x \in Up(s) /\ y \in Down(s) /\ x # 0 => y = 100
<1> USE DEF Percent
<1>1. ASSUME x \in Down(s), y \in Down(s) PROVE y = 100
  <2>1. PICK i \in Nat : x = 100 - i * s
    BY <1>1 DEF Down
  <2>2. PICK j \in Nat : y = 100 - j * s
    BY <1>1, Zenon DEF Down
  <2>3. SUFFICES ASSUME j * s > 0 * s PROVE FALSE
    BY <2>2
  <2>4. j * s >= 0 * s + s
    BY <2>3, Apart
  <2> QED
    BY <2>2, <2>4
<1>2. ASSUME x \in Down(s), y \in Up(s) PROVE y = 100
  <2>1. PICK i \in Nat : x = 100 - i * s
    BY <1>2 DEF Down
  <2>2. PICK j \in Nat : y = j * s
    BY <1>2 DEF Up
  <2>3. j * s > i * s
    BY <2>1, <2>2
  <2>4. j * s >= i * s + s
    BY <2>3, Apart
  <2>5. i * s + s >= 100
    BY <2>1
  <2> QED
    BY <2>2, <2>4, <2>5
<1>3. ASSUME x \in Up(s), y \in Down(s), x # 0 PROVE y = 100
  <2>1. PICK i \in Nat : x = i * s
    BY <1>3 DEF Up
  <2>2. PICK j \in Nat : y = 100 - j * s
    BY <1>3 DEF Down
  <2>3. i * s > j * s
    BY <2>1, <2>2
  <2>4. i * s >= j * s + s
    BY <2>3, Apart
  <2>5. j * s = 0
    BY <2>1, <2>2, <2>4
  <2> QED
    BY <2>2, <2>5
<1> QED
  BY <1>1, <1>2, <1>3

\* So a scaling stays on the grid and never leaves a gap (reconcileServeTargetCapacity).
LEMMA ScalingOnGrid ==
    ASSUME NEW o, Sound(o), NEW v \in Upgrades, OnGrid(o.surge, v), Drained(v), NEW who,
           NEW r, r = reconcileServeTargetCapacity(o, v, who)
    PROVE  OnGrid(o.surge, r) /\ Drained(r)
<1> DEFINE s == o.surge
<1>1. s \in Percent /\ v.a \in Percent /\ v.p \in Percent
  BY DEF Sound, Upgrades
<1>2. ScaledBy(o, v, r)
  BY ScalingShape
<1> HIDE DEF s
<1>3. 100 \in Down(s) /\ 0 \in Up(s)
  BY <1>1, GridEnds
<1>4. OnGrid(s, v)
  BY DEF s
<1>5. \A x : /\ x \in Down(s) => Least(100, x + s) \in Down(s)
             /\ x \in Up(s) => Least(100, x + s) \in Up(s) \cup {100}
             /\ x \in Down(s) /\ x > s => Most(0, x - s) \in Down(s)
             /\ x \in Up(s) => Most(0, x - s) \in Up(s)
  BY <1>1, GridUp, GridDown
<1>6. \A x \in Percent : x <= s => Most(0, x - s) = 0
  BY <1>1 DEF Most, Percent
<1>7. CASE r.a = v.a /\ r.p = v.p
  BY <1>4, <1>7 DEF OnGrid, Drained, s
<1>8. CASE v.a + v.p > 100 /\ r.a = v.a /\ r.p = Most(0, v.p - s)
  <2>1. v.p > s \/ Most(0, v.p - s) = 0
    BY <1>1, <1>6 DEF Percent
  <2>2. ~(v.p > s) => v.p <= s
    BY <1>1 DEF Percent
  <2>3. v.p + v.a > 100
    <3>1. \A x, y \in Percent : x + y > 100 => y + x > 100
      BY DEF Percent
    <3> QED
      BY <1>1, <1>8, <3>1
  <2>4. v.a \in Up(s) /\ v.p \in Down(s) /\ ~(v.p > s) => v.a = 100
    BY <1>1, <2>2, <2>3, LastSurge
  <2>5. OnGrid(s, r)
    <3>1. CASE v.a \in Down(s) /\ v.p \in Down(s) \cup Up(s)
      <4>1. Most(0, v.p - s) \in Down(s) \cup Up(s)
        BY <1>3, <1>5, <2>1, <3>1
      <4> QED
        BY <1>8, <3>1, <4>1 DEF OnGrid
    <3>2. CASE v.a \in Up(s) /\ v.p \in Down(s)
      <4>1. CASE v.p > s
        BY <1>5, <1>8, <3>2, <4>1 DEF OnGrid
      <4>2. CASE ~(v.p > s)
        BY <1>3, <1>8, <2>1, <2>4, <3>2, <4>2 DEF OnGrid
      <4> QED
        BY <4>1, <4>2
    <3> QED
      BY <1>4, <3>1, <3>2 DEF OnGrid
  <2>6. Drained(r)
    BY <1>1, <1>8 DEF Drained, Percent
  <2> QED
    BY <2>5, <2>6 DEF s
<1>9. CASE r.p = v.p /\ r.a = Least(100, v.a + s)
  <2>1. OnGrid(s, r)
    BY <1>3, <1>4, <1>5, <1>9 DEF OnGrid
  <2>2. Drained(r)
    BY <1>1, <1>9 DEF Drained, Least, Percent
  <2> QED
    BY <2>1, <2>2 DEF s
<1>10. CASE v.a + v.p > 100 /\ r.p = v.p /\ r.a = Most(0, v.a - s)
  <2>1. v.a # 0
    BY <1>1, <1>10 DEF Percent
  <2>2. v.a <= s => v.p = 100
    BY <1>1, <1>4, <1>10, <2>1, LastSurge DEF OnGrid
  <2>3. v.a > s \/ (Most(0, v.a - s) = 0 /\ v.p = 100)
    BY <1>1, <1>6, <2>2 DEF Percent
  <2>4. OnGrid(s, r)
    BY <1>3, <1>4, <1>5, <1>10, <2>3 DEF OnGrid
  <2>5. v.a > s => Most(0, v.a - s) # 0
    BY <1>1 DEF Most, Percent
  <2>6. Drained(r)
    BY <1>10, <2>3, <2>5 DEF Drained
  <2> QED
    BY <2>4, <2>6 DEF s
<1>11. CASE r.a = v.a /\ r.p = Least(100, v.p + s)
  <2>1. OnGrid(s, r)
    BY <1>3, <1>4, <1>5, <1>11 DEF OnGrid
  <2>2. Drained(r)
    BY <1>1, <1>11 DEF Drained, Least, Percent
  <2> QED
    BY <2>1, <2>2 DEF s
<1> QED
  BY <1>2, <1>7, <1>8, <1>9, <1>10, <1>11 DEF ScaledBy, s

------------------------------------------------------------------------------
\* Types.

\* A name is a number other than 0, which stands for none.
LEMMA NamesFact == /\ MaxNames \in Nat /\ \A n \in Names : n \in Nat /\ n # 0 /\ n \in 0..MaxNames
                   /\ \A n \in 0..MaxNames : n # 0 => n \in Names
BY RayServiceAssumption DEF Names

\* Deleting RayClusters and updating them in place (Deleted, WithGoal).
LEMMA DeletedTyped ==
    ASSUME NEW cs \in [Names -> Cluster], NEW S
    PROVE  /\ Deleted(cs, S) \in [Names -> Cluster]
           /\ \A n \in Names : /\ Deleted(cs, S)[n].exists = cs[n].exists
                               /\ Deleted(cs, S)[n].head = cs[n].head
                               /\ Deleted(cs, S)[n].goal = cs[n].goal
                               /\ n \notin S \/ ~cs[n].exists => Deleted(cs, S)[n] = cs[n]
<1>1. \A n \in Names : cs[n] \in Cluster
  OBVIOUS
<1>2. \A c \in Cluster : /\ [c EXCEPT !.deleting = TRUE] \in Cluster
                         /\ [c EXCEPT !.deleting = TRUE].exists = c.exists
                         /\ [c EXCEPT !.deleting = TRUE].head = c.head
                         /\ [c EXCEPT !.deleting = TRUE].goal = c.goal
  BY Zenon DEF Cluster
<1> QED
  BY <1>1, <1>2 DEF Deleted

\* Updating RayClusters in place (modifyRayCluster) changes nothing but their spec.
LEMMA WithGoalTyped ==
    ASSUME NEW cs \in [Names -> Cluster], NEW S, cache.goal \in Goal
    PROVE  /\ WithGoal(cs, S) \in [Names -> Cluster]
           /\ \A n \in Names : /\ WithGoal(cs, S)[n].exists = cs[n].exists
                               /\ WithGoal(cs, S)[n].head = cs[n].head
                               /\ WithGoal(cs, S)[n].deleting = cs[n].deleting
<1>1. \A n \in Names : cs[n] \in Cluster
  OBVIOUS
<1>2. \A c \in Cluster : /\ [c EXCEPT !.goal = cache.goal] \in Cluster
                         /\ [c EXCEPT !.goal = cache.goal].exists = c.exists
                         /\ [c EXCEPT !.goal = cache.goal].head = c.head
                         /\ [c EXCEPT !.goal = cache.goal].deleting = c.deleting
  BY DEF Cluster
<1> QED
  BY <1>1, <1>2 DEF WithGoal

\* The status of a RayCluster that is not there: every pointer is nil.
LEMMA NoServiceFact ==
    /\ NoService \in ServiceStatus
    /\ NoService.name = 0 /\ NoService.tc = -1 /\ NoService.traffic = -1
    /\ NoService.recent = FALSE
BY NamesFact DEF NoService, ServiceStatus

\* What handleSuspend and a failed validation write are statuses.
LEMMA StatusTyped ==
    ASSUME NEW st \in Status
    PROVE  /\ Suspending(st) \in Status /\ Suspended(st) \in Status /\ Resumed(st) \in Status
           /\ [st EXCEPT !.ready = "ValidationFailed"] \in Status
<1>1. NoService \in ServiceStatus
  BY NoServiceFact
<1> QED
  BY <1>1, Zenon DEF Status, Suspending, Suspended, Resumed

\* The initial values have the types of their variables.
LEMMA NoClusterTyped == NoCluster \in Cluster /\ NoServe \in Serve /\ FirstGoal \in Goal
BY RayServiceAssumption DEF NoCluster, Cluster, FirstGoal, Goal, NoServe, Serve, Percent

\* So have the memories of the operator after the cleanup of a reconcile
\* (cleanUpRayClusterInstance, cleanUpServeConfigCache).
LEMMA CleanupTyped ==
    ASSUME TypeOK
    PROVE  /\ Marked \in [Names -> {"none", "scheduled", "due"}]
           /\ cleanUpServeConfigCache \in [Names -> 0..2]
BY DEF TypeOK, Marked, cleanUpServeConfigCache

\* A RayService with another status.
LEMMA ObjectTyped ==
    ASSUME NEW o \in Object, NEW st \in Status
    PROVE  /\ [o EXCEPT !.st = st] \in Object /\ [o EXCEPT !.st = st].st = st
           /\ [o EXCEPT !.st = st].exists = o.exists
           /\ [o EXCEPT !.st = st].deleting = o.deleting
           /\ [o EXCEPT !.st = st].finalizer = o.finalizer
BY DEF Object

------------------------------------------------------------------------------
\* What a pass starts from.

\* Statuses that are equal but for the capacities.
Same(s, t) ==
    /\ s.active.name = t.active.name /\ s.pending.name = t.pending.name
    /\ s.active.traffic = t.active.traffic /\ s.pending.traffic = t.pending.traffic
    /\ s.active.recent = t.active.recent /\ s.pending.recent = t.pending.recent
    /\ s.susp = t.susp /\ s.upgrade = t.upgrade /\ s.rollback = t.rollback /\ s.ready = t.ready

\* A pass starts from the cached status, with the suspension reset by handleSuspend.
LEMMA StartTyped ==
    ASSUME TypeOK
    PROVE  /\ Start \in Status
           /\ cache.st.susp # "suspending" => Start.susp = "no"
           /\ Start.active = cache.st.active /\ Start.pending = cache.st.pending
           /\ Start.rollback = cache.st.rollback
<1>1. cache.st \in Status
  BY DEF TypeOK, Object
<1>2. Resumed(cache.st) \in Status
  BY <1>1, StatusTyped, Zenon
<1> QED
  BY <1>1, <1>2 DEF Start, Status, Resumed

\* The two RayClusters a pass works on are those that its status names, if the cache shows
\* them (reconcileRayCluster).
LEMMA SeenTyped ==
    ASSUME TypeOK
    PROVE  /\ Active \in Cluster /\ Pending \in Cluster
           /\ Active.exists = Seen(Start.active.name).exists
           /\ Pending.exists = Seen(Start.pending.name).exists
           /\ Active.exists => Start.active.name \in Names
           /\ Pending.exists => Start.pending.name \in Names
<1>1. cache.goal \in Goal /\ \A n \in Names : clusterCache[n] \in Cluster
  BY DEF TypeOK, Object
<1>2. Start.active.name \in 0..MaxNames /\ Start.pending.name \in 0..MaxNames
  BY StartTyped DEF Status, ServiceStatus
<1>3. \A n \in 0..MaxNames : Seen(n) \in Cluster /\ (Seen(n).exists => n \in Names)
  BY <1>1, NamesFact, NoClusterTyped DEF Seen, NoCluster
<1>4. \A b : \A c \in Cluster : Updated(c, b) \in Cluster /\ Updated(c, b).exists = c.exists
  BY <1>1 DEF Updated, Cluster
<1> QED
  BY <1>2, <1>3, <1>4, Zenon DEF Active, Pending

\* The capacities and the traffic a status describes.
LEMMA UpgradeTyped ==
    ASSUME NEW st \in Status
    PROVE  /\ U(st) \in Upgrades
           /\ U(st).a = Deref(st.active.tc, 100) /\ U(st).p = Deref(st.pending.tc, 0)
           /\ U(st).ta = Deref(st.active.traffic, 100) /\ U(st).tp = Deref(st.pending.traffic, 0)
           /\ U(st).rb = st.rollback
BY DEF U, Deref, Status, ServiceStatus, Upgrades, Percent

------------------------------------------------------------------------------
\* Ray Serve.

\* What a pass has done so far.
Work == [st : Status, serve : [Names -> Serve], configs : [Names -> 0..2],
         ready : SUBSET {"active", "pending"}, err : BOOLEAN]

\* The options of an incremental upgrade are percentages.
Scalable == IsIncrementalUpgradeEnabled => Sound(strategy)

\* reconcileServe leaves the status alone and calls a RayCluster ready only if its head is
\* ready and its applications run.
LEMMA ServeWork ==
    ASSUME TypeOK, NEW w \in Work, NEW n, NEW c, c.exists => n \in Names,
           NEW who \in {"active", "pending"}, NEW r, r = reconcileServe(w, n, c, who)
    PROVE  /\ r \in Work /\ r.st = w.st
           /\ r.ready \subseteq w.ready \cup {who}
           /\ who \in r.ready /\ who \notin w.ready =>
                 c.exists /\ clusters[n].head = "ready" /\ w.serve[n].apps = "running"
<1>1. CASE Alone(w, c)
  BY <1>1 DEF reconcileServe
<1>2. CASE ~Alone(w, c) /\ clusters[n].head # "ready"
  <2>1. r = [w EXCEPT !.err = TRUE]
    BY <1>2 DEF reconcileServe
  <2> QED
    BY <2>1, Zenon DEF Work
<1>3. CASE ~Alone(w, c) /\ clusters[n].head = "ready"
  <2>1. c.exists /\ n \in Names
    BY <1>3 DEF Alone
  <2> DEFINE w1 == IF checkIfNeedSubmitServeApplications(w, n) /\ ~skipConfigUpdate(w.st, who)
                   THEN updateServeDeployment(w, n, who) ELSE w
             tc == IF IsIncrementalUpgradeEnabled THEN Deref(w.st[who].tc, 100) ELSE 100
  <2>2. r = [w1 EXCEPT !.ready = IF w.serve[n].apps = "running" THEN @ \cup {who} ELSE @]
    BY <1>3 DEF reconcileServe
  <2>3. tc \in Percent /\ cache.config \in 1..2 /\ cache.config \in 0..2
    BY SMTT(20) DEF Work, Status, ServiceStatus, Deref, Percent, TypeOK, Object
  <2>4. Submit(w.serve[n], cache.config, tc) \in Serve
    BY <2>1, <2>3 DEF Submit, Serve, Work
  <2>5. updateServeDeployment(w, n, who)
           = [w EXCEPT !.serve = [w.serve EXCEPT ![n] = Submit(w.serve[n], cache.config, tc)],
                       !.configs = [w.configs EXCEPT ![n] = cache.config]]
    BY DEF updateServeDeployment
  <2> HIDE DEF tc
  <2>6. w1 \in Work /\ w1.st = w.st /\ w1.ready = w.ready
    <3> DEFINE S == [w.serve EXCEPT ![n] = Submit(w.serve[n], cache.config, tc)]
               C == [w.configs EXCEPT ![n] = cache.config]
    <3>1. S \in [Names -> Serve] /\ C \in [Names -> 0..2]
      BY <2>3, <2>4, Zenon DEF Work
    <3> HIDE DEF S, C
    <3>2. \A v : v = [w EXCEPT !.serve = S, !.configs = C] =>
                 v \in Work /\ v.st = w.st /\ v.ready = w.ready
      BY <3>1, Zenon DEF Work
    <3>3. w1 = w \/ w1 = [w EXCEPT !.serve = S, !.configs = C]
      BY <2>5 DEF S, C
    <3> QED
      BY <3>2, <3>3
  <2> HIDE DEF w1
  <2>7. r \in Work /\ r.st = w1.st
    BY <2>2, <2>6 DEF Work
  <2>8. r.ready = IF w.serve[n].apps = "running" THEN w1.ready \cup {who} ELSE w1.ready
    BY <2>2, <2>6 DEF Work
  <2> QED
    BY <1>3, <2>1, <2>6, <2>7, <2>8
<1> QED
  BY <1>1, <1>2, <1>3

\* An upgrade is what its five fields are.
LEMMA UpgradeEqual ==
    ASSUME NEW v \in Upgrades, NEW r \in Upgrades,
           v.a = r.a, v.p = r.p, v.ta = r.ta, v.tp = r.tp, v.rb = r.rb
    PROVE  v = r
BY DEF Upgrades

\* A capacity is written to the status (applyServeTargetCapacity).
Resized(st, a, p) == [st EXCEPT !.active.tc = a, !.pending.tc = p]
\* Writing two capacities to a status writes them to the upgrade that it describes.
LEMMA Resizes ==
    ASSUME NEW st \in Status, NEW v \in Upgrades,
           v.ta = U(st).ta, v.tp = U(st).tp, v.rb = U(st).rb
    PROVE  /\ Resized(st, v.a, v.p) \in Status /\ Same(Resized(st, v.a, v.p), st)
           /\ Resized(st, v.a, v.p).active.tc = v.a /\ Resized(st, v.a, v.p).pending.tc = v.p
           /\ U(Resized(st, v.a, v.p)) = v
<1> DEFINE r == Resized(st, v.a, v.p)
<1>1. v.a \in Percent /\ v.p \in Percent
  BY DEF Upgrades
<1>2. /\ r \in Status /\ Same(r, st) /\ r.active.tc = v.a /\ r.pending.tc = v.p
  BY <1>1, Zenon DEF Status, ServiceStatus, Same, Resized
<1> HIDE DEF r
<1>3. Deref(v.a, 100) = v.a /\ Deref(v.p, 0) = v.p
  BY <1>1 DEF Deref, Percent
<1>4. /\ U(r) \in Upgrades /\ U(r).a = v.a /\ U(r).p = v.p
      /\ U(r).ta = v.ta /\ U(r).tp = v.tp /\ U(r).rb = v.rb
  BY <1>2, <1>3, UpgradeTyped DEF Same
<1> QED
  BY <1>2, <1>4, UpgradeEqual DEF r

\* The pass has the status s and scales one of the two, or does not.
ScaleStep(v, r, who) == r = v \/ r = reconcileServeTargetCapacity(strategy, v, who)

\* reconcileCapacity scales one of the two at most, by what the arithmetic says, in the
\* status and in Ray Serve, and neither unless two RayClusters are named.
LEMMA CapacityWork ==
    ASSUME TypeOK, Scalable, NEW w \in Work, NEW n, NEW c, c.exists => n \in Names,
           NEW who \in {"active", "pending"}, NEW r, r = reconcileCapacity(w, n, c, who)
    PROVE  /\ r \in Work /\ Same(r.st, w.st) /\ r.ready = w.ready
           /\ ScaleStep(U(w.st), U(r.st), who)
           /\ 0 \in Named(w.st) => r.st = w.st
           /\ r.serve # w.serve => IsIncrementalUpgradeEnabled
<1>1. CASE Alone(w, c) \/ ~Scales(w.st)
  BY <1>1 DEF reconcileCapacity, Same, ScaleStep
<1>2. CASE ~Alone(w, c) /\ Scales(w.st)
  <2>1. n \in Names /\ IsIncrementalUpgradeEnabled /\ Sound(strategy) /\ 0 \notin Named(w.st)
    BY <1>2 DEF Alone, Scales, Scalable, Named
  <2>2. w.st \in Status /\ U(w.st) \in Upgrades
    BY UpgradeTyped DEF Work
  <2> DEFINE z == U(w.st)
             v == IF w.st.rollback /\ w.st.active.traffic = -1 THEN z
                  ELSE reconcileServeTargetCapacity(strategy, z, who)
             st == [w.st EXCEPT !.active.tc = v.a, !.pending.tc = v.p]
             config == IF w.configs[n] = 0 THEN cache.config ELSE w.configs[n]
             S == [w.serve EXCEPT ![n] = Submit(w.serve[n], config, st[who].tc)]
  <2>3. v \in Upgrades /\ v.ta = z.ta /\ v.tp = z.tp /\ v.rb = z.rb
    BY <2>1, <2>2, ScalingShape
  <2>4. v.a \in Percent /\ v.p \in Percent
    BY <2>3 DEF Upgrades
  <2>5. ScaleStep(z, v, who)
    BY DEF ScaleStep
  <2> HIDE DEF v
  <2>6. st = Resized(w.st, v.a, v.p)
    BY DEF Resized
  <2> HIDE DEF st
  <2>7. /\ st \in Status /\ Same(st, w.st) /\ st.active.tc = v.a /\ st.pending.tc = v.p
        /\ U(st) = v
    BY <2>2, <2>3, <2>6, Resizes
  <2>8. st[who].tc \in Percent
    BY <2>4, <2>7
  <2>9. config \in 0..2
    BY <2>1 DEF Work, TypeOK, Object
  <2> HIDE DEF config
  <2>10. Submit(w.serve[n], config, st[who].tc) \in Serve
    BY <2>1, <2>8, <2>9 DEF Submit, Serve, Work
  <2>11. S \in [Names -> Serve]
    BY <2>10, Zenon DEF Work
  <2>12. r = [w EXCEPT !.st = st] \/ r = [w EXCEPT !.st = st, !.serve = S]
    BY <1>2 DEF reconcileCapacity, applyServeTargetCapacity, v, st, config
  <2> HIDE DEF S, z
  <2>13. r \in Work /\ r.st = st /\ r.ready = w.ready
    BY <2>7, <2>11, <2>12, Zenon DEF Work
  <2> QED
    BY <2>1, <2>5, <2>7, <2>13 DEF z
<1> QED
  BY <1>1, <1>2

\* What is known of the work whenever the pass stops.
Worked(w) ==
    /\ w \in Work /\ Same(w.st, Untouched.st)
    /\ "pending" \in w.ready => Pending.exists /\ Endpoint(Start.pending.name)
    /\ "active" \in w.ready => Active.exists
    /\ 0 \in Named(Start) => w.st = Untouched.st
    /\ \E v : ScaleStep(U(Untouched.st), v, "pending") /\ ScaleStep(v, U(w.st), "active")

\* At its start a pass has decided about the rollback and done nothing else
\* (reconcileRollbackState).
LEMMA UntouchedWork ==
    ASSUME TypeOK
    PROVE  /\ Untouched \in Work /\ Untouched.ready = {} /\ Untouched.serve = serve
           /\ Untouched.st = reconcileRollbackState(Start, Active, Pending)
           /\ Untouched.st.active = Start.active /\ Untouched.st.pending = Start.pending
           /\ Untouched.st.susp = Start.susp /\ Untouched.st.upgrade = Start.upgrade
           /\ Untouched.st.ready = Start.ready
<1> DEFINE st == reconcileRollbackState(Start, Active, Pending)
<1>1. /\ st \in Status /\ st.active = Start.active /\ st.pending = Start.pending
      /\ st.susp = Start.susp /\ st.upgrade = Start.upgrade /\ st.ready = Start.ready
  BY StartTyped, Zenon DEF reconcileRollbackState, Status
<1>2. serve \in [Names -> Serve] /\ cleanUpServeConfigCache \in [Names -> 0..2]
  BY CleanupTyped DEF TypeOK
<1> HIDE DEF st
<1> QED
  BY <1>1, <1>2 DEF Untouched, Work, st

\* Statuses that are equal but for the capacities form classes.
LEMMA SameTrans ==
    ASSUME NEW r, NEW s, NEW t, Same(r, s), Same(s, t)
    PROVE  Same(r, t)
BY DEF Same

\* What is known whenever a pass stops is known at its start.
LEMMA UntouchedWorked ==
    ASSUME TypeOK
    PROVE  Worked(Untouched)
BY UntouchedWork DEF Worked, Same, ScaleStep

\* Ray Serve on the pending RayCluster.
LEMMA PendingWorked ==
    ASSUME TypeOK, Scalable,
           NEW p1, p1 = reconcileServe(Untouched, Start.pending.name, Pending, "pending"),
           NEW p, p = reconcileCapacity(p1, Start.pending.name, Pending, "pending")
    PROVE  Worked(p) /\ "active" \notin p.ready
                     /\ ScaleStep(U(Untouched.st), U(p.st), "pending")
<1> DEFINE n == Start.pending.name
<1>1. Pending.exists => n \in Names /\ n # 0
  BY SeenTyped, NamesFact
<1> HIDE DEF n
<1>2. /\ p1 \in Work /\ p1.st = Untouched.st /\ p1.ready \subseteq {"pending"}
      /\ "pending" \in p1.ready => Pending.exists /\ Endpoint(n)
  BY <1>1, UntouchedWork, ServeWork DEF Endpoint, n
<1>3. /\ p \in Work /\ Same(p.st, p1.st) /\ p.ready = p1.ready
      /\ ScaleStep(U(p1.st), U(p.st), "pending")
      /\ 0 \in Named(p1.st) => p.st = p1.st
  BY <1>1, <1>2, CapacityWork DEF n
<1>4. Named(p1.st) = Named(Start)
  BY <1>2, UntouchedWork DEF Named
<1>5. ScaleStep(U(p.st), U(p.st), "active")
  BY DEF ScaleStep
<1> QED
  BY <1>2, <1>3, <1>4, <1>5 DEF Worked, n

\* Then on the active one.
LEMMA ActiveWorked ==
    ASSUME TypeOK, Scalable, NEW p, Worked(p), "active" \notin p.ready,
           ScaleStep(U(Untouched.st), U(p.st), "pending"),
           NEW a \in {Active, NoCluster},
           NEW w1, w1 = reconcileServe(p, Start.active.name, a, "active"),
           NEW w, w = reconcileCapacity(w1, Start.active.name, a, "active")
    PROVE  Worked(w)
<1> DEFINE n == Start.active.name
<1>1. a.exists => n \in Names /\ Active.exists
  BY SeenTyped, SMTT(20) DEF NoCluster
<1> HIDE DEF n
<1>2. p \in Work
  BY DEF Worked
<1>3. /\ w1 \in Work /\ w1.st = p.st /\ w1.ready \subseteq p.ready \cup {"active"}
      /\ "active" \in w1.ready => a.exists
  BY <1>1, <1>2, ServeWork DEF n
<1>4. /\ w \in Work /\ Same(w.st, w1.st) /\ w.ready = w1.ready
      /\ ScaleStep(U(w1.st), U(w.st), "active")
      /\ 0 \in Named(w1.st) => w.st = w1.st
  BY <1>1, <1>3, CapacityWork DEF n
<1>5. Named(p.st) = Named(Start)
  BY UntouchedWork DEF Worked, Same, Named
<1>6. Same(w.st, Untouched.st)
  BY <1>3, <1>4, SameTrans DEF Worked
<1> QED
  BY <1>1, <1>3, <1>4, <1>5, <1>6, SMTT(20) DEF Worked

------------------------------------------------------------------------------
\* A pass.

\* A RayService that passed the validation has percentages for options.
LEMMA Validated ==
    ASSUME validateRayService
    PROVE  Scalable
BY DEF validateRayService, Scalable, ValidateClusterUpgradeOptions, Sound

\* The part of Reconcile after the early returns is a pass up to one of its calls.
LEMMA ProceedPasses ==
    ASSUME TypeOK, Proceed
    PROVE  /\ Proceeds /\ Scalable
           /\ queued' = TRUE /\ UNCHANGED <<user, cache, clusterCache>>
           /\ \E k \in 0..6 : \E w : Worked(w) /\ Pass(k, w)
           /\ UNCHANGED faults \/ Fault("api")
<1>1. Proceeds /\ queued' = TRUE /\ UNCHANGED <<user, cache, clusterCache>>
  BY DEF Proceed
<1>2. Scalable
  BY <1>1, Validated DEF Proceeds, Operative, Serves
<1>3. PICK p1 \in {reconcileServe(Untouched, Start.pending.name, Pending, "pending")} :
      \E p \in {reconcileCapacity(p1, Start.pending.name, Pending, "pending")} :
      \E a \in {IF ServesActive(p) THEN Active ELSE NoCluster} :
      \E w1 \in {reconcileServe(p, Start.active.name, a, "active")} :
      \E w \in {reconcileCapacity(w1, Start.active.name, a, "active")} :
         \/ PassUpTo(Reaches(p, w), p, w) /\ NoFault
         \/ Fault("api") /\ \E k \in 0..(Reaches(p, w) - 1) : PassUpTo(k, p, w)
  BY Zenon DEF Proceed
<1>4. PICK p \in {reconcileCapacity(p1, Start.pending.name, Pending, "pending")} :
      \E a \in {IF ServesActive(p) THEN Active ELSE NoCluster} :
      \E w1 \in {reconcileServe(p, Start.active.name, a, "active")} :
      \E w \in {reconcileCapacity(w1, Start.active.name, a, "active")} :
         \/ PassUpTo(Reaches(p, w), p, w) /\ NoFault
         \/ Fault("api") /\ \E k \in 0..(Reaches(p, w) - 1) : PassUpTo(k, p, w)
  BY <1>3, Zenon
<1>5. PICK a \in {IF ServesActive(p) THEN Active ELSE NoCluster} :
      \E w1 \in {reconcileServe(p, Start.active.name, a, "active")} :
      \E w \in {reconcileCapacity(w1, Start.active.name, a, "active")} :
         \/ PassUpTo(Reaches(p, w), p, w) /\ NoFault
         \/ Fault("api") /\ \E k \in 0..(Reaches(p, w) - 1) : PassUpTo(k, p, w)
  BY <1>4, Zenon
<1>6. PICK w1 \in {reconcileServe(p, Start.active.name, a, "active")} :
      \E w \in {reconcileCapacity(w1, Start.active.name, a, "active")} :
         \/ PassUpTo(Reaches(p, w), p, w) /\ NoFault
         \/ Fault("api") /\ \E k \in 0..(Reaches(p, w) - 1) : PassUpTo(k, p, w)
  BY <1>5, Zenon
<1>7. PICK w \in {reconcileCapacity(w1, Start.active.name, a, "active")} :
         \/ PassUpTo(Reaches(p, w), p, w) /\ NoFault
         \/ Fault("api") /\ \E k \in 0..(Reaches(p, w) - 1) : PassUpTo(k, p, w)
  BY <1>6, Zenon
<1>8. Worked(p) /\ "active" \notin p.ready /\ ScaleStep(U(Untouched.st), U(p.st), "pending")
  BY <1>2, PendingWorked
<1>9. Worked(w)
  BY <1>2, <1>8, ActiveWorked
<1>10. Reaches(p, w) \in 0..6
  BY DEF Reaches
<1>11. ASSUME NEW k \in 0..6, PassUpTo(k, p, w) PROVE \E v : Worked(v) /\ Pass(k, v)
  <2>1. k = 0 \/ k = 1 \/ k > 1
    OBVIOUS
  <2> QED
    BY <1>8, <1>9, <1>11, <2>1, UntouchedWorked DEF PassUpTo
<1>12. \E k \in 0..6 : PassUpTo(k, p, w)
  BY <1>7, <1>10
<1>13. UNCHANGED faults \/ Fault("api")
  BY <1>7, Zenon DEF NoFault
<1> QED
  BY <1>1, <1>2, <1>11, <1>12, <1>13

\* The weights the HTTPRoute gets (createHTTPRoute).
Routing(st, ready) ==
    calculateTrafficRoutedPercent(strategy, U(st), ready,
                                  IF st.rollback THEN ~st.active.recent ELSE ~st.pending.recent)

\* The weights of the HTTPRoute are percentages, of RayClusters that the cached status names,
\* and are the traffic that calculateTrafficRoutedPercent computes.
LEMMA WeightsShape ==
    ASSUME TypeOK, Sound(strategy), NEW w, Worked(w), NEW ready,
           NEW weights, weights = createHTTPRoute(w.st, ready)
    PROVE  LET a == Start.active.name  p == Start.pending.name  v == Routing(w.st, ready) IN
           /\ DOMAIN weights \subseteq Names /\ \A n \in DOMAIN weights : weights[n] \in Percent
           /\ Active.exists => a \in DOMAIN weights /\ weights[a] = v.ta
           /\ Active.exists /\ Pending.exists => p \in DOMAIN weights
           /\ Active.exists /\ Pending.exists /\ p # a => weights[p] = v.tp
           /\ ~Active.exists => DOMAIN weights = {}
<1> DEFINE a == Start.active.name
           p == Start.pending.name
           v == Routing(w.st, ready)
           backends == {a} \cup (IF Pending.exists THEN {p} ELSE {})
<1>1. w.st \in Status /\ w.st.active.name = a /\ w.st.pending.name = p
  BY UntouchedWork, Zenon DEF Worked, Work, Same
<1>2. U(w.st) \in Upgrades
  BY <1>1, UpgradeTyped
<1>3. v.ta \in Percent /\ v.tp \in Percent
  <2> DEFINE due == IF w.st.rollback THEN ~w.st.active.recent ELSE ~w.st.pending.recent
  <2>1. v = calculateTrafficRoutedPercent(strategy, U(w.st), ready, due)
    BY DEF Routing
  <2>2. \/ v = U(w.st)
        \/ \E x \in Percent : v = Split(U(w.st), x) \/ v = Split(U(w.st), 100 - x)
    BY <1>2, <2>1, MoveShape DEF Gains
  <2>3. \A x \in Percent : 100 - x \in Percent /\ 100 - (100 - x) = x
    BY DEF Percent
  <2>4. \A x \in Percent : LET r == Split(U(w.st), x) IN r.ta = x /\ r.tp = 100 - x
    BY DEF Split
  <2> HIDE DEF v
  <2> QED
    BY <1>2, <2>2, <2>3, <2>4 DEF Upgrades
<1>4. weights = IF Active.exists THEN [n \in backends |-> IF n = a THEN v.ta ELSE v.tp] ELSE <<>>
  BY <1>1 DEF createHTTPRoute, Routing
<1>5. (Active.exists => a \in Names) /\ (Pending.exists => p \in Names)
  BY SeenTyped
<1> HIDE DEF v, a, p
<1> QED
  BY <1>3, <1>4, <1>5 DEF v, a, p

------------------------------------------------------------------------------
\* The status at the end of a pass (calculateStatus), stage by stage.

\* s1 to s4 are the stages on the way to st.
Stages(w, weights, s1, s2, s3, pen, s4, st) ==
    /\ s1 = Reweighed(w, weights) /\ s2 = AfterPromotion(w, s1) /\ s3 = RolledBack(s2)
    /\ pen = StillPending(s2) /\ s4 = AfterPreparation(w, s3, pen, s1.pending.name)
    /\ st = calculateConditions(s4, Endpoints(w, pen))

\* calculateStatus stores what its stages make of the work of the pass.
LEMMA CalculateStages ==
    ASSUME NEW w, NEW weights, calculateStatus(w, weights)
    PROVE  \E s1, s2, s3, pen, s4, st : Stages(w, weights, s1, s2, s3, pen, s4, st) /\ Stores(st)
BY DEF calculateStatus, Stages

\* The name of a RayCluster that has just been named may be one too many.
Loose == [active : ServiceStatus,
          pending : [name : Nat, tc : Percent \cup {-1}, traffic : Percent \cup {-1},
                     recent : BOOLEAN],
          susp : {"no", "suspending", "suspended"},
          upgrade : {"none", "Initializing", "True", "False", "Unknown"},
          rollback : BOOLEAN,
          ready : {"none", "Initializing", "Expired", "True", "Zero", "Timeout",
                   "ValidationFailed", "Suspend"}]

\* A status whose pending name is within the bound is one of the model.
LEMMA LooseStatus ==
    /\ \A st \in Status : st \in Loose
    /\ \A st \in Loose : st.pending.name <= MaxNames => st \in Status
BY NamesFact DEF Loose, Status, ServiceStatus

\* Two statuses that differ in the names and the conditions only.
SameUpgrade(s, t) ==
    /\ s.active.tc = t.active.tc /\ s.pending.tc = t.pending.tc
    /\ s.active.traffic = t.active.traffic /\ s.pending.traffic = t.pending.traffic
    /\ s.rollback = t.rollback

\* What calculateConditions makes of a status.
Conditioned(s, st) ==
    /\ st \in Loose /\ st.susp = s.susp /\ SameUpgrade(st, s)
    /\ \/ st.active.name = s.active.name /\ st.pending.name = s.pending.name
       \/ st.active.name = 0 /\ st.pending.name = 0 /\ st.ready = "Timeout"
    /\ st.upgrade = "True" <=> st.active.name # 0 /\ st.pending.name # 0

\* calculateConditions keeps the upgrade and the names, unless the initialization has timed
\* out, and says that an upgrade is in progress exactly if two RayClusters are named.
LEMMA Conditions ==
    ASSUME NEW s \in Loose, NEW e, NEW st, st = calculateConditions(s, e)
    PROVE  Conditioned(s, st)
<1> DEFINE first == IF s.ready = "none" /\ s.upgrade = "none"
                    THEN [s EXCEPT !.ready = "Initializing", !.upgrade = "Initializing"] ELSE s
           late == markFailedOnInitializingTimeout(first)
           ready == IF e THEN [first EXCEPT !.ready = "True"]
                    ELSE IF first.ready = "True" THEN [first EXCEPT !.ready = "Zero"] ELSE late
           Fine(t) == /\ t \in Loose /\ t.susp = s.susp /\ SameUpgrade(t, s)
                      /\ \/ t.active.name = s.active.name /\ t.pending.name = s.pending.name
                         \/ t.active.name = 0 /\ t.pending.name = 0 /\ t.ready = "Timeout"
<1>1. first \in Loose /\ first.active = s.active /\ first.pending = s.pending
      /\ first.susp = s.susp /\ first.rollback = s.rollback
  <2> DEFINE t == [s EXCEPT !.ready = "Initializing", !.upgrade = "Initializing"]
  <2>1. t \in Loose /\ t.active = s.active /\ t.pending = s.pending
        /\ t.susp = s.susp /\ t.rollback = s.rollback
    BY Zenon DEF Loose
  <2>2. first = t \/ first = s
    OBVIOUS
  <2> HIDE DEF first, t
  <2> QED
    BY <2>1, <2>2, Zenon
<1> HIDE DEF first
<1>2. Fine([first EXCEPT !.ready = "True"]) /\ Fine([first EXCEPT !.ready = "Zero"])
  BY <1>1 DEF Loose, SameUpgrade
<1>3. Fine(late)
  <2>1. CASE late = first
    BY <1>1, <2>1 DEF SameUpgrade
  <2>2. CASE late = [first EXCEPT !.ready = "Timeout", !.active.name = 0, !.pending.name = 0]
    <3> DEFINE a == [first.active EXCEPT !.name = 0]
               p == [first.pending EXCEPT !.name = 0]
    <3>1. /\ late.active = a /\ late.pending = p /\ late.ready = "Timeout"
          /\ late = [first EXCEPT !.ready = "Timeout", !.active = a, !.pending = p]
      BY <1>1, <2>2, Zenon DEF Loose
    <3>2. /\ a \in ServiceStatus /\ a.name = 0 /\ a.tc = s.active.tc
          /\ a.traffic = s.active.traffic
      BY <1>1, NamesFact DEF Loose, ServiceStatus
    <3>3. /\ p \in [name : Nat, tc : Percent \cup {-1}, traffic : Percent \cup {-1},
                    recent : BOOLEAN]
          /\ p.name = 0 /\ p.tc = s.pending.tc /\ p.traffic = s.pending.traffic
      BY <1>1 DEF Loose
    <3> HIDE DEF a, p
    <3>4. [first EXCEPT !.ready = "Timeout", !.active = a, !.pending = p] \in Loose
      BY <1>1, <3>2, <3>3, Zenon DEF Loose
    <3>5. /\ late.susp = first.susp /\ late.rollback = first.rollback
      BY <1>1, <3>1 DEF Loose
    <3>6. late \in Loose /\ late.susp = s.susp /\ late.rollback = s.rollback
      BY <1>1, <3>1, <3>4, <3>5, Zenon
    <3> QED
      BY <3>1, <3>2, <3>3, <3>6 DEF SameUpgrade
  <2> QED
    BY <2>1, <2>2 DEF markFailedOnInitializingTimeout
<1> HIDE DEF late
<1>4. Fine(ready)
  BY <1>2, <1>3
<1>5. st = [ready EXCEPT !.upgrade = IF ready.active.name # 0
                                     THEN IF ready.pending.name # 0 THEN "True" ELSE "False"
                                     ELSE IF @ = "Initializing" THEN @ ELSE "Unknown"]
  BY DEF calculateConditions, first, late
<1> HIDE DEF ready
<1> QED
  BY <1>4, <1>5 DEF Conditioned, Loose, SameUpgrade

\* The traffic of a RayCluster is copied from the HTTPRoute if that has a weight for it.
LEMMA RoutedShape ==
    ASSUME NEW s \in ServiceStatus, NEW weights, \A n \in DOMAIN weights : weights[n] \in Percent
    PROVE  /\ Routed(s, weights) \in ServiceStatus
           /\ Routed(s, weights).name = s.name /\ Routed(s, weights).tc = s.tc
           /\ Routed(s, weights).traffic
                 = IF s.name \in DOMAIN weights THEN weights[s.name] ELSE s.traffic
<1> DEFINE w == GetWeightsFromHTTPRoute(weights, s, s.traffic)
<1>1. w = IF s.name \in DOMAIN weights THEN weights[s.name] ELSE s.traffic
  BY DEF GetWeightsFromHTTPRoute
<1>2. w \in Percent \cup {-1}
  BY <1>1 DEF ServiceStatus
<1>3. Routed(s, weights) = [s EXCEPT !.traffic = w, !.recent = @ \/ w # s.traffic]
  BY DEF Routed
<1> HIDE DEF w
<1> QED
  BY <1>1, <1>2, <1>3, Zenon DEF ServiceStatus

\* What the first stage makes of the status, v being the traffic it routes.
ReweighedTo(w, s1) ==
    LET v == Routing(w.st, "pending" \in w.ready)
        routed == w.ready # {} /\ IsIncrementalUpgradeEnabled /\ Active.exists IN
    /\ s1 \in Status
    /\ s1.active.name = Start.active.name /\ s1.pending.name = Start.pending.name
    /\ s1.susp = Start.susp /\ s1.upgrade = Start.upgrade /\ s1.ready = Start.ready
    /\ s1.rollback = Untouched.st.rollback
    /\ s1.active.tc = w.st.active.tc /\ s1.pending.tc = w.st.pending.tc
    /\ s1.active.traffic = IF routed THEN v.ta ELSE w.st.active.traffic
    /\ ~routed \/ ~Pending.exists => s1.pending.traffic = w.st.pending.traffic
    /\ routed /\ Pending.exists /\ Start.pending.name # Start.active.name =>
          s1.pending.traffic = v.tp

\* The first stage changes the traffic only, to what has been routed in this pass.
LEMMA ReweighedShape ==
    ASSUME TypeOK, Scalable, NEW w, Worked(w),
           NEW weights, weights = createHTTPRoute(w.st, "pending" \in w.ready),
           NEW s1, s1 = Reweighed(w, weights)
    PROVE  ReweighedTo(w, s1)
<1>1. /\ w.st \in Status
      /\ w.st.active.name = Start.active.name /\ w.st.pending.name = Start.pending.name
      /\ w.st.susp = Start.susp /\ w.st.upgrade = Start.upgrade /\ w.st.ready = Start.ready
      /\ w.st.rollback = Untouched.st.rollback
  BY UntouchedWork, Zenon DEF Worked, Work, Same
<1>2. CASE ~(w.ready # {} /\ IsIncrementalUpgradeEnabled)
  BY <1>1, <1>2 DEF Reweighed, ReweighedTo
<1>3. CASE w.ready # {} /\ IsIncrementalUpgradeEnabled
  <2> DEFINE a == Routed(w.st.active, weights)
             p == IF Pending.exists THEN Routed(w.st.pending, weights) ELSE w.st.pending
             v == Routing(w.st, "pending" \in w.ready)
  <2>1. Sound(strategy)
    BY <1>3 DEF Scalable
  <2>2. /\ \A n \in DOMAIN weights : weights[n] \in Percent
        /\ Active.exists =>
              Start.active.name \in DOMAIN weights /\ weights[Start.active.name] = v.ta
        /\ Active.exists /\ Pending.exists => Start.pending.name \in DOMAIN weights
        /\ Active.exists /\ Pending.exists /\ Start.pending.name # Start.active.name =>
              weights[Start.pending.name] = v.tp
        /\ ~Active.exists => DOMAIN weights = {}
    BY <2>1, WeightsShape, Zenon
  <2> HIDE DEF v
  <2>3. w.st.active \in ServiceStatus /\ w.st.pending \in ServiceStatus
    BY <1>1 DEF Status
  <2>4. /\ a \in ServiceStatus /\ a.name = w.st.active.name /\ a.tc = w.st.active.tc
        /\ a.traffic = IF Active.exists THEN v.ta ELSE w.st.active.traffic
    BY <1>1, <2>2, <2>3, RoutedShape
  <2>5. /\ p \in ServiceStatus /\ p.name = w.st.pending.name /\ p.tc = w.st.pending.tc
        /\ ~Active.exists \/ ~Pending.exists => p.traffic = w.st.pending.traffic
        /\ Active.exists /\ Pending.exists /\ Start.pending.name # Start.active.name =>
              p.traffic = v.tp
    BY <1>1, <2>2, <2>3, RoutedShape, SMTT(20)
  <2>6. s1 = [w.st EXCEPT !.active = a, !.pending = p]
    BY <1>3 DEF Reweighed
  <2> HIDE DEF a, p
  <2>7. /\ s1 \in Status /\ s1.active = a /\ s1.pending = p /\ s1.susp = w.st.susp
        /\ s1.upgrade = w.st.upgrade /\ s1.rollback = w.st.rollback /\ s1.ready = w.st.ready
    BY <1>1, <2>4, <2>5, <2>6, Zenon DEF Status
  <2> QED
    BY <1>1, <1>3, <2>4, <2>5, <2>7, Zenon DEF v, ReweighedTo
<1> QED
  BY <1>2, <1>3

\* The conditions for suspension and readiness are the same.
Unconditional(s, t) == s.susp = t.susp /\ s.ready = t.ready

\* What the second stage makes of that.
PromotedTo(w, s1, s2) ==
    /\ s2 \in Status /\ Unconditional(s2, s1)
    /\ s2.upgrade = s1.upgrade /\ s2.rollback = s1.rollback
    /\ \/ s2 = s1
       \/ /\ w.ready # {} /\ Promotes(s1, Target(w))
          /\ s2.active = s1.pending /\ s2.pending = NoService

\* The second stage makes the pending RayCluster the active one, or changes nothing.
LEMMA PromotionShape ==
    ASSUME NEW w, NEW s1 \in Status, NEW s2, s2 = AfterPromotion(w, s1)
    PROVE  PromotedTo(w, s1, s2)
<1>1. NoService \in ServiceStatus
  BY NoServiceFact
<1>2. CASE s2 = s1
  BY <1>2 DEF Unconditional, PromotedTo
<1>3. CASE /\ w.ready # {} /\ Promotes(s1, Target(w))
           /\ s2 = [s1 EXCEPT !.active = s1.pending, !.pending = NoService]
  BY <1>1, <1>3, Zenon DEF Unconditional, Status, PromotedTo
<1> QED
  BY <1>2, <1>3 DEF AfterPromotion, reconcilePromotionAndServingStatus

\* What the third stage makes of that.
RolledBackTo(s2, s3) ==
    /\ s3 \in Status /\ Unconditional(s3, s2) /\ s3.active = s2.active
    /\ \/ s3 = s2 /\ ~RollbackCompletes(s2)
       \/ RollbackCompletes(s2) /\ s3.pending = NoService /\ ~s3.rollback

\* The third forgets the pending RayCluster of a rollback that is complete, or changes
\* nothing.
LEMMA RolledBackShape ==
    ASSUME NEW s2 \in Status, NEW s3, s3 = RolledBack(s2)
    PROVE  RolledBackTo(s2, s3)
<1>1. NoService \in ServiceStatus
  BY NoServiceFact
<1>2. CASE ~RollbackCompletes(s2)
  BY <1>2 DEF Unconditional, RolledBack, RolledBackTo
<1>3. CASE RollbackCompletes(s2)
  BY <1>1, <1>3, Zenon DEF Unconditional, Status, RolledBack, RolledBackTo
<1> QED
  BY <1>2, <1>3

\* What the fourth stage makes of that.
PreparedTo(s3, s4) ==
    /\ s4 \in Loose /\ Unconditional(s4, s3) /\ s4.active = s3.active
    /\ s4.rollback = s3.rollback
    /\ \/ s4 = s3
       \/ /\ s4.pending.name = names + 1 /\ s4.pending.traffic = -1
          /\ s4.pending.tc \in {-1, 0, 100}
          /\ IsIncrementalUpgradeEnabled =>
                s4.pending.tc = IF s3.active.name # 0 THEN 0
                                ELSE IF s3.active.tc = -1 THEN 100 ELSE -1

\* The fourth names a new pending RayCluster with the capacity it begins with, or changes
\* nothing (shouldPrepareNewCluster).
LEMMA PreparationShape ==
    ASSUME names \in Nat, NEW w, NEW s3 \in Status, NEW pen, NEW name,
           NEW s4, s4 = AfterPreparation(w, s3, pen, name)
    PROVE  PreparedTo(s3, s4)
<1>1. s3 \in Loose
  BY LooseStatus
<1>2. CASE s4 = s3
  BY <1>1, <1>2 DEF Unconditional, PreparedTo
<1>3. CASE s4 = Prepared(s3)
  <2> DEFINE tc == IF ~IsIncrementalUpgradeEnabled THEN -1
                   ELSE IF s3.active.name # 0 THEN 0
                   ELSE IF s3.active.tc = -1 THEN 100 ELSE -1
             p == [name |-> names + 1, traffic |-> -1, recent |-> FALSE, tc |-> tc]
  <2>1. tc \in {-1, 0, 100} /\ tc \in Percent \cup {-1}
    BY DEF Percent
  <2>2. s4 = [s3 EXCEPT !.pending = p]
    BY <1>3 DEF Prepared
  <2>3. IsIncrementalUpgradeEnabled =>
           tc = IF s3.active.name # 0 THEN 0 ELSE IF s3.active.tc = -1 THEN 100 ELSE -1
    OBVIOUS
  <2> HIDE DEF tc
  <2>4. /\ p \in [name : Nat, tc : Percent \cup {-1}, traffic : Percent \cup {-1},
                  recent : BOOLEAN]
        /\ p.name = names + 1 /\ p.tc = tc /\ p.traffic = -1
    BY <2>1
  <2> HIDE DEF p
  <2>5. /\ s4 \in Loose /\ s4.pending = p /\ s4.active = s3.active /\ s4.susp = s3.susp
        /\ s4.ready = s3.ready /\ s4.rollback = s3.rollback
    BY <1>1, <2>2, <2>4 DEF Loose
  <2> QED
    BY <1>3, <2>1, <2>3, <2>4, <2>5 DEF Unconditional, PreparedTo
<1> QED
  BY <1>2, <1>3 DEF AfterPreparation

\* The statuses of the stages, one after the other.
StageFacts(w, s1, s2, s3, s4, st) ==
    /\ s1 \in Status /\ s2 \in Status /\ s3 \in Status /\ s4 \in Loose /\ st \in Loose
    /\ st.susp = Start.susp
    /\ ReweighedTo(w, s1) /\ PromotedTo(w, s1, s2) /\ RolledBackTo(s2, s3)
    /\ PreparedTo(s3, s4) /\ Conditioned(s4, st)

\* The stages, and what they lead to.
LEMMA StageShapes ==
    ASSUME TypeOK, Scalable, NEW w, Worked(w),
           NEW weights, weights = createHTTPRoute(w.st, "pending" \in w.ready),
           NEW s1, NEW s2, NEW s3, NEW pen, NEW s4, NEW st,
           Stages(w, weights, s1, s2, s3, pen, s4, st)
    PROVE  StageFacts(w, s1, s2, s3, s4, st)
<1>1. /\ s1 = Reweighed(w, weights) /\ s2 = AfterPromotion(w, s1) /\ s3 = RolledBack(s2)
      /\ s4 = AfterPreparation(w, s3, pen, s1.pending.name)
      /\ st = calculateConditions(s4, Endpoints(w, pen))
  BY Zenon DEF Stages
<1>2. ReweighedTo(w, s1)
  BY <1>1, ReweighedShape, Zenon
<1>3. s1 \in Status /\ s1.susp = Start.susp
  BY <1>2, Zenon DEF ReweighedTo
<1>4. PromotedTo(w, s1, s2)
  BY <1>1, <1>3, PromotionShape, Zenon
<1>5. s2 \in Status /\ s2.susp = s1.susp
  BY <1>4, Zenon DEF PromotedTo, Unconditional
<1>6. RolledBackTo(s2, s3)
  BY <1>1, <1>5, RolledBackShape, Zenon
<1>7. s3 \in Status /\ s3.susp = s2.susp
  BY <1>6 DEF RolledBackTo, Unconditional
<1>8. names \in Nat
  BY NamesFact DEF TypeOK
<1>9. PreparedTo(s3, s4)
  BY <1>1, <1>7, <1>8, PreparationShape, Zenon
<1>10. s4 \in Loose /\ s4.susp = s3.susp
  BY <1>9 DEF PreparedTo, Unconditional
<1>11. Conditioned(s4, st)
  BY <1>1, <1>10, Conditions, Zenon
<1>12. st \in Loose /\ st.susp = s4.susp
  BY <1>11 DEF Conditioned
<1> QED
  BY <1>2, <1>3, <1>4, <1>5, <1>6, <1>7, <1>9, <1>10, <1>11, <1>12, Zenon DEF StageFacts

\* So a pass stores names that it has read or the next new one, never one twice, and a new
\* active one only by promotion.
NamesTo(w, s1, st) ==
    /\ st.active.name \in {0, Start.active.name, Start.pending.name}
    /\ st.pending.name \in {0, Start.pending.name, names + 1}
    /\ st.active.name # 0 => st.active.name # st.pending.name
    /\ st.upgrade = "True" <=> st.active.name # 0 /\ st.pending.name # 0
    /\ st.active.name \notin {0, Start.active.name} =>
          /\ w.ready # {} /\ Promotes(s1, Target(w))
          /\ st.active.name = Start.pending.name

\* It does.
LEMMA PassNames ==
    ASSUME TypeOK, Scalable, NEW w, Worked(w),
           NEW weights, weights = createHTTPRoute(w.st, "pending" \in w.ready),
           NEW s1, NEW s2, NEW s3, NEW pen, NEW s4, NEW st,
           Stages(w, weights, s1, s2, s3, pen, s4, st),
           Named(Start) \subseteq 0..names,
           Start.active.name # 0 => Start.active.name # Start.pending.name
    PROVE  NamesTo(w, s1, st)
<1> DEFINE a == Start.active.name
           p == Start.pending.name
<1>1. StageFacts(w, s1, s2, s3, s4, st)
  BY StageShapes, Zenon
<1>2. a \in 0..names /\ p \in 0..names /\ names \in Nat
  BY NamesFact DEF TypeOK, Named
<1>3. s1.active.name = a /\ s1.pending.name = p
  BY <1>1, Zenon DEF StageFacts, ReweighedTo
<1>4. \/ s2.active.name = a /\ s2.pending.name = p
      \/ /\ s2.active.name = p /\ s2.pending.name = 0
         /\ w.ready # {} /\ Promotes(s1, Target(w))
  BY <1>1, <1>3, NoServiceFact, Zenon DEF StageFacts, PromotedTo
<1>5. s3.active.name = s2.active.name /\ s3.pending.name \in {s2.pending.name, 0}
  BY <1>1, NoServiceFact, Zenon DEF StageFacts, RolledBackTo
<1>6. s4.active.name = s3.active.name /\ s4.pending.name \in {s3.pending.name, names + 1}
  BY <1>1, Zenon DEF StageFacts, PreparedTo
<1>7. /\ \/ st.active.name = s4.active.name /\ st.pending.name = s4.pending.name
         \/ st.active.name = 0 /\ st.pending.name = 0 /\ st.ready = "Timeout"
      /\ st.upgrade = "True" <=> st.active.name # 0 /\ st.pending.name # 0
  BY <1>1, Zenon DEF StageFacts, Conditioned
<1>8. s4.active.name \in {a, p} /\ s4.pending.name \in {0, p, names + 1}
  BY <1>4, <1>5, <1>6
<1>9. s4.active.name # 0 => s4.active.name # s4.pending.name
  BY <1>2, <1>4, <1>5, <1>6
<1> QED
  BY <1>4, <1>5, <1>6, <1>7, <1>8, <1>9, Zenon DEF NamesTo

==============================================================================
