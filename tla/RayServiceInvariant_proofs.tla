--------------------- MODULE RayServiceInvariant_proofs ----------------------
(***************************************************************************)
(* The invariant of the RayService controller: how the status describes an *)
(* incremental upgrade, pass by pass, and so how the pending RayCluster    *)
(* takes over.                                                             *)
(***************************************************************************)
EXTENDS RayServiceSteps_proofs

------------------------------------------------------------------------------
\* In an incremental upgrade no one but the operator deletes a RayCluster, so those that
\* the status names stay, once they are there.

Present ==
    IsIncrementalUpgradeEnabled /\ ~rs.deleting =>
      /\ \A n \in Names : n \in Named(rs.st) =>
            (clusterCache[n].exists => clusters[n].exists) /\ ~clusters[n].deleting
      /\ rs.st.active.name # 0 => clusterCache[rs.st.active.name].exists

\* A new active RayCluster is the former pending one, and the cache shows it.
LEMMA ActiveFrom ==
    ASSUME NameInv, [Next]_vars
    PROVE  /\ UNCHANGED strategy /\ (rs.deleting => rs'.deleting)
           /\ \/ rs'.st.active.name \in {0, rs.st.active.name}
              \/ /\ rs'.st.active.name = rs.st.pending.name /\ UNCHANGED clusterCache
                 /\ clusterCache[rs.st.pending.name].exists
<1>1. TypeOK /\ Keeps(rs.st) /\ Counted /\ UNCHANGED strategy
  BY StatusStep DEF NameInv
<1>2. CASE Quiet
  BY <1>1, <1>2 DEF Quiet
<1>3. CASE Timed
  BY <1>1, <1>3 DEF Timed, SameButTime
<1>4. CASE Written
  BY <1>1, <1>4, WrittenShape, NoServiceFact, Zenon
<1>5. CASE Passed
  <2>1. rs = cache /\ UNCHANGED clusterCache /\ Proceeds
    BY <1>5 DEF Passed, Writable
  <2>2. rs.st.pending.name # 0 => clusterCache[rs.st.pending.name].exists
    BY <1>1, <2>1, StartTyped DEF Proceeds
  <2> QED
    BY <1>1, <1>5, <2>1, <2>2, PassedShape
<1> QED
  BY <1>1, <1>2, <1>3, <1>4, <1>5, StatusStep, Zenon

\* Every step keeps Present, because NameInv keeps the cleanup from the RayClusters named.
LEMMA PresentStep ==
    ASSUME NameInv, Present, [Next]_vars
    PROVE  Present'
<1> SUFFICES ASSUME IsIncrementalUpgradeEnabled, ~rs'.deleting
             PROVE  /\ \A n \in Names : n \in Named(rs'.st) =>
                         (clusterCache'[n].exists => clusters'[n].exists) /\ ~clusters'[n].deleting
                    /\ rs'.st.active.name # 0 => clusterCache'[rs'.st.active.name].exists
  BY ActiveFrom DEF Present, IsIncrementalUpgradeEnabled
<1>1. ~rs.deleting
  BY ActiveFrom
<1>2. ASSUME NEW n \in Names, n \in Named(rs'.st)
      PROVE  (clusterCache'[n].exists => clusters'[n].exists) /\ ~clusters'[n].deleting
  <2>1. n # 0 /\ n \in Nat
    BY NamesFact
  <2>2. (clusterCache[n].exists => clusters[n].exists) /\ ~clusters[n].deleting
    <3>1. CASE n \in Named(rs.st)
      BY <1>1, <3>1, Zenon DEF Present
    <3>2. CASE n \notin Named(rs.st)
      BY <1>2, <2>1, <3>2, NamesGrow, NamesFact DEF NameInv, Unborn, TypeOK
    <3> QED
      BY <3>1, <3>2
  <2>3. /\ ClusterStep(n)
        /\ clusterCache'[n] \in {clusterCache[n], clusters[n]}
        /\ clusterCache'[n] # clusterCache[n] => Kept(n)
    BY ClustersStep DEF NameInv
  <2>4. CASE Kept(n)
    BY <2>2, <2>3, <2>4, Zenon DEF Kept
  <2>5. CASE ~Kept(n) /\ Created(n)
    BY <2>2, <2>3, <2>5, Zenon DEF Created
  <2>6. ~Collected(n)
    BY <1>1 DEF Collected, NameInv, Behind
  <2>7. ~Condemned(n)
    <3>1. SUFFICES ASSUME clusters[n].exists, n \notin Named(cache.st) PROVE FALSE
      BY <1>1, <2>1 DEF Condemned, NameInv, Behind, Keeps, Named
    <3>2. CASE n \in Named(rs.st)
      BY <3>1, <3>2, Zenon DEF NameInv, Recognised
    <3>3. CASE n \notin Named(rs.st)
      BY <1>2, <2>1, <3>1, <3>3, NamesGrow, NamesFact DEF NameInv, Unborn, TypeOK
    <3> QED
      BY <3>2, <3>3, Zenon
  <2> QED
    BY <2>2, <2>3, <2>4, <2>5, <2>6, <2>7 DEF ClusterStep
<1>3. ASSUME rs'.st.active.name # 0
      PROVE  clusterCache'[rs'.st.active.name].exists
  <2>1. CASE rs'.st.active.name = rs.st.active.name
    <3>1. rs.st.active.name \in Names
      BY <1>3, <2>1, NamesFact, Zenon DEF NameInv, TypeOK, Object, Status, ServiceStatus
    <3>2. /\ clusterCache[rs.st.active.name].exists /\ clusters[rs.st.active.name].exists
      BY <1>1, <1>3, <2>1, <3>1 DEF Present, Named
    <3> QED
      BY <2>1, <3>1, <3>2, ClustersStep DEF NameInv
  <2>2. CASE rs'.st.active.name # rs.st.active.name
    BY <1>3, <2>2, ActiveFrom
  <2> QED
    BY <2>1, <2>2, Zenon
<1> QED
  BY <1>2, <1>3

------------------------------------------------------------------------------
\* The upgrade a status describes, between two RayClusters.

Good(v) == Splits(v) /\ OnGrid(strategy.surge, v) /\ Drained(v)
Turned(v, b) == [v EXCEPT !.rb = b]
Resize(v, who, does) == IF does THEN reconcileServeTargetCapacity(strategy, v, who) ELSE v
Shift(v, b, x, y, ready, due) ==
    calculateTrafficRoutedPercent(strategy, Resize(Resize(Turned(v, b), "pending", x), "active", y),
                                  ready, due)

\* An upgrade that has not begun is a good one.
LEMMA FreshGood ==
    ASSUME Sound(strategy)
    PROVE  Good(Fresh) /\ Fresh \in Upgrades /\ ~Fresh.rb
           /\ Fresh.a = 100 /\ Fresh.p = 0 /\ Fresh.ta = 100 /\ Fresh.tp = 0
BY GridEnds DEF Good, Fresh, Splits, OnGrid, Drained, Upgrades, Percent, Sound

\* Rolling back, or forward again, changes neither capacity nor traffic.
LEMMA TurnGood ==
    ASSUME NEW v, Good(v), NEW b \in BOOLEAN
    PROVE  Good(Turned(v, b)) /\ Turned(v, b).rb = b
           /\ Turned(v, b).a = v.a /\ Turned(v, b).p = v.p
           /\ Turned(v, b).ta = v.ta /\ Turned(v, b).tp = v.tp
BY DEF Good, Turned, Splits, OnGrid, Drained, Upgrades

\* A scaling keeps an upgrade good.
LEMMA ScaleGood ==
    ASSUME Sound(strategy), NEW v, Good(v), NEW who, NEW r, ScaleStep(v, r, who)
    PROVE  Good(r) /\ r.rb = v.rb /\ r.ta = v.ta /\ r.tp = v.tp
           /\ \E does \in BOOLEAN : r = Resize(v, who, does)
<1>1. CASE r = v
  BY <1>1, Zenon DEF Resize
<1>2. CASE r = reconcileServeTargetCapacity(strategy, v, who)
  <2>1. v \in Upgrades /\ v.ta + v.tp = 100 /\ OnGrid(strategy.surge, v) /\ Drained(v)
    BY DEF Good, Splits
  <2>2. r \in Upgrades /\ r.ta = v.ta /\ r.tp = v.tp /\ r.rb = v.rb
    BY <1>2, <2>1, ScalingShape
  <2>3. OnGrid(strategy.surge, r) /\ Drained(r)
    BY <1>2, <2>1, ScalingOnGrid
  <2> QED
    BY <1>2, <2>1, <2>2, <2>3, Zenon DEF Good, Splits, Resize
<1> QED
  BY <1>1, <1>2 DEF ScaleStep

\* So does a move of traffic.
LEMMA MoveGood ==
    ASSUME Sound(strategy), NEW v, Good(v), NEW ready, NEW due,
           NEW r, r = calculateTrafficRoutedPercent(strategy, v, ready, due)
    PROVE  Good(r) /\ r.rb = v.rb /\ r.a = v.a /\ r.p = v.p
<1>1. v \in Upgrades
  BY DEF Good, Splits
<1>2. Splits(r)
  BY MoveSplits DEF Good
<1>3. r.a = v.a /\ r.p = v.p /\ r.rb = v.rb
  BY <1>1, MoveShape DEF Split
<1> QED
  BY <1>2, <1>3 DEF Good, OnGrid, Drained

\* What no upgrade has touched: the first RayCluster will serve at once.
Idle(st) == ~st.rollback /\ st.pending.tc \in {-1, 100} /\ st.pending.traffic \in {-1, 100}

\* The status describes an upgrade that surges and steps can lead to.
Progress(st) ==
    /\ st.active.name # 0 => Good(U(st))
    /\ st.active.name # 0 /\ st.pending.name = 0 => U(st) = Fresh
    /\ st.active.name = 0 /\ ~(st.susp = "no" /\ st.ready = "Timeout") => Idle(st)

\* Nil pointers in a status are read as the values before the upgrade.
LEMMA IsFresh ==
    ASSUME NEW st \in Status, st.active.tc \in {-1, 100}, st.active.traffic \in {-1, 100},
           st.pending.tc \in {-1, 0}, st.pending.traffic \in {-1, 0}, ~st.rollback
    PROVE  U(st) = Fresh
<1>1. U(st) \in Upgrades /\ Fresh \in Upgrades
  BY UpgradeTyped DEF Fresh, Upgrades, Percent
<1>2. /\ U(st).a = 100 /\ U(st).p = 0 /\ U(st).ta = 100 /\ U(st).tp = 0
  BY UpgradeTyped DEF Deref
<1>3. U(st).rb = FALSE
  BY UpgradeTyped DEF Status
<1> QED
  BY <1>1, <1>2, <1>3, UpgradeEqual, Zenon DEF Fresh

\* The upgrade a status describes is in its capacities, its traffic and the rollback.
LEMMA SameUpgradeU ==
    ASSUME NEW s \in Status, NEW t \in Status, SameUpgrade(s, t)
    PROVE  U(s) = U(t)
BY DEF SameUpgrade, U

\* Every stage of a whole pass, in one place.
PassFacts(w, s1, s2, s3, s4, st) ==
    /\ w \in Work /\ w.st \in Status /\ ReweighedTo(w, s1)
    /\ s1 \in Status /\ s2 \in Status /\ s3 \in Status /\ s4 \in Loose /\ st \in Status
    /\ s2.rollback = s1.rollback
    /\ \/ s2 = s1
       \/ /\ w.ready # {} /\ Promotes(s1, Target(w))
          /\ s2.active = s1.pending /\ s2.pending = NoService
    /\ s3.active = s2.active
    /\ \/ s3 = s2 /\ ~RollbackCompletes(s2)
       \/ RollbackCompletes(s2) /\ s3.pending = NoService /\ ~s3.rollback
    /\ s4.active = s3.active /\ s4.rollback = s3.rollback
    /\ \/ s4 = s3
       \/ /\ s4.pending.name = names + 1 /\ s4.pending.traffic = -1
          /\ IsIncrementalUpgradeEnabled =>
                s4.pending.tc = IF s3.active.name # 0 THEN 0
                                ELSE IF s3.active.tc = -1 THEN 100 ELSE -1
    /\ SameUpgrade(st, s4)
    /\ \/ st.active.name = s4.active.name /\ st.pending.name = s4.pending.name
       \/ st.active.name = 0 /\ st.pending.name = 0 /\ st.ready = "Timeout"

\* A whole pass goes through those stages.
LEMMA PassStages ==
    ASSUME TypeOK, Scalable, NEW w, NEW weights, NEW s1, NEW s2, NEW s3, NEW pen, NEW s4, NEW st,
           PassedWith(w, weights, s1, s2, s3, pen, s4, st)
    PROVE  PassFacts(w, s1, s2, s3, s4, st)
<1>1. Worked(w) /\ weights = createHTTPRoute(w.st, "pending" \in w.ready)
      /\ Stages(w, weights, s1, s2, s3, pen, s4, st) /\ Stores(st)
  BY DEF PassedWith
<1>2. StageFacts(w, s1, s2, s3, s4, st)
  BY <1>1, StageShapes, Zenon
<1>3. /\ s1 \in Status /\ s2 \in Status /\ s3 \in Status /\ s4 \in Loose /\ st \in Loose
      /\ ReweighedTo(w, s1)
  BY <1>2, Zenon DEF StageFacts
<1>4. st \in Status /\ w \in Work /\ w.st \in Status
  BY <1>1, <1>3, StoresTyped DEF Worked, Work
<1>5. /\ s2.rollback = s1.rollback
      /\ \/ s2 = s1
         \/ /\ w.ready # {} /\ Promotes(s1, Target(w))
            /\ s2.active = s1.pending /\ s2.pending = NoService
  BY <1>2, Zenon DEF StageFacts, PromotedTo
<1>6. /\ s3.active = s2.active
      /\ \/ s3 = s2 /\ ~RollbackCompletes(s2)
         \/ RollbackCompletes(s2) /\ s3.pending = NoService /\ ~s3.rollback
  BY <1>2, Zenon DEF StageFacts, RolledBackTo
<1>7. /\ s4.active = s3.active /\ s4.rollback = s3.rollback
      /\ \/ s4 = s3
         \/ /\ s4.pending.name = names + 1 /\ s4.pending.traffic = -1
            /\ IsIncrementalUpgradeEnabled =>
                  s4.pending.tc = IF s3.active.name # 0 THEN 0
                                  ELSE IF s3.active.tc = -1 THEN 100 ELSE -1
  BY <1>2, Zenon DEF StageFacts, PreparedTo
<1>8. /\ SameUpgrade(st, s4)
      /\ \/ st.active.name = s4.active.name /\ st.pending.name = s4.pending.name
         \/ st.active.name = 0 /\ st.pending.name = 0 /\ st.ready = "Timeout"
  BY <1>2, Zenon DEF StageFacts, Conditioned
<1> QED
  BY <1>3, <1>4, <1>5, <1>6, <1>7, <1>8, Zenon DEF PassFacts

\* No RayCluster is active: if the pending one becomes active, it has everything
\* (reconcilePromotionAndServingStatus).
LEMMA EmptyPass ==
    ASSUME TypeOK, Sound(strategy), IsIncrementalUpgradeEnabled,
           NEW w, NEW weights, NEW s1, NEW s2, NEW s3, NEW pen, NEW s4, NEW st,
           PassedWith(w, weights, s1, s2, s3, pen, s4, st),
           Start.active.name = 0, Idle(Start), Start.upgrade # "True"
    PROVE  IF st.active.name = 0 THEN Idle(st) \/ st.ready = "Timeout"
           ELSE /\ U(st) = Fresh /\ st.active.name = Start.pending.name
                /\ w.ready # {} /\ Promotes(s1, Target(w))
<1> Scalable
  BY DEF Scalable
<1>0. PassFacts(w, s1, s2, s3, s4, st)
  BY PassStages
<1>1. Worked(w) /\ weights = createHTTPRoute(w.st, "pending" \in w.ready) /\ s1 = Reweighed(w, weights)
  BY DEF PassedWith, Stages
<1>2. ~Active.exists
  BY SeenTyped, NoClusterTyped, Zenon DEF Seen, NoCluster
<1>3. Untouched.st = Start
  BY <1>2, UntouchedWork DEF reconcileRollbackState
<1>4. w.st = Start
  BY <1>1, <1>3 DEF Worked, Named
<1>5. /\ s1.active.name = 0 /\ s1.pending.name = Start.pending.name
      /\ s1.upgrade # "True" /\ Idle(s1)
  BY <1>0, <1>2, <1>3, <1>4 DEF PassFacts, ReweighedTo, Idle
<1>6. s3 = s2
  BY <1>5, <1>0 DEF PassFacts, RollbackCompletes, Idle
<1>7. CASE s2 = s1
  <2>1. Idle(s4)
    BY <1>5, <1>6, <1>7, <1>0 DEF PassFacts, Idle
  <2>2. Idle(st)
    BY <2>1, <1>0 DEF PassFacts, Idle, SameUpgrade
  <2>3. s4.active = s1.active
    BY <1>6, <1>7, <1>0 DEF PassFacts
  <2>4. st.active.name = 0
    BY <1>5, <2>3, <1>0 DEF PassFacts
  <2> QED
    BY <2>2, <2>4, Zenon
<1>8. CASE w.ready # {} /\ Promotes(s1, Target(w)) /\ s2.active = s1.pending /\ s2.pending = NoService
  <2>1. s1.pending.name # 0
    BY <1>5, <1>8, Zenon DEF Promotes
  <2>2. /\ s4.active.tc \in {-1, 100} /\ s4.active.traffic \in {-1, 100}
        /\ s4.pending.tc \in {-1, 0} /\ s4.pending.traffic \in {-1, 0} /\ ~s4.rollback
    BY <1>5, <1>6, <1>8, <2>1, <1>0, NoServiceFact DEF PassFacts, Idle
  <2>3. U(st) = Fresh
    BY <2>2, <1>0, IsFresh DEF PassFacts, SameUpgrade
  <2>4. s4.active.name = Start.pending.name /\ Start.pending.name # 0
    BY <1>5, <1>6, <1>8, <2>1, <1>0 DEF PassFacts
  <2> QED
    BY <1>8, <2>3, <2>4, <1>0 DEF PassFacts
<1> QED
  BY <1>7, <1>8, <1>0 DEF PassFacts

\* Only the active RayCluster is named: it has everything, and keeps it.
LEMMA LonePass ==
    ASSUME TypeOK, Sound(strategy), IsIncrementalUpgradeEnabled,
           NEW w, NEW weights, NEW s1, NEW s2, NEW s3, NEW pen, NEW s4, NEW st,
           PassedWith(w, weights, s1, s2, s3, pen, s4, st),
           Start.active.name # 0, Start.pending.name = 0, U(Start) = Fresh, Start.upgrade # "True"
    PROVE  IF st.active.name = 0 THEN st.ready = "Timeout"
           ELSE U(st) = Fresh /\ st.active.name = Start.active.name
<1> Scalable
  BY DEF Scalable
<1>0. PassFacts(w, s1, s2, s3, s4, st)
  BY PassStages
<1>1. Worked(w) /\ weights = createHTTPRoute(w.st, "pending" \in w.ready) /\ s1 = Reweighed(w, weights)
  BY DEF PassedWith, Stages
<1>2. ~Pending.exists /\ Start \in Status
  BY SeenTyped, NoClusterTyped, StartTyped, Zenon DEF Seen, NoCluster
<1>3. Untouched.st = Start
  BY <1>2, UntouchedWork DEF reconcileRollbackState
<1>4. w.st = Start /\ "pending" \notin w.ready
  BY <1>1, <1>2, <1>3 DEF Worked, Named
<1>5. /\ ~Start.rollback /\ Start.active.tc \in {-1, 100} /\ Start.active.traffic \in {-1, 100}
      /\ Start.pending.tc \in {-1, 0} /\ Start.pending.traffic \in {-1, 0}
  <2>1. /\ Deref(Start.active.tc, 100) = 100 /\ Deref(Start.pending.tc, 0) = 0
        /\ Deref(Start.active.traffic, 100) = 100 /\ Deref(Start.pending.traffic, 0) = 0
    BY <1>2, UpgradeTyped, FreshGood
  <2>2. ~Start.rollback
    BY <1>2, UpgradeTyped, FreshGood, Zenon
  <2> QED
    BY <2>1, <2>2, Zenon DEF Deref
<1>6. Routing(w.st, "pending" \in w.ready) = Fresh
  BY <1>4, <1>5, FreshGood, Zenon DEF Routing, calculateTrafficRoutedPercent
<1>7. /\ s1.active.name = Start.active.name /\ s1.pending.name = 0
      /\ s1.upgrade # "True" /\ ~s1.rollback
      /\ s1.active.tc \in {-1, 100} /\ s1.active.traffic \in {-1, 100}
      /\ s1.pending.tc \in {-1, 0} /\ s1.pending.traffic \in {-1, 0}
  BY <1>0, <1>2, <1>3, <1>4, <1>5, <1>6, FreshGood, SMTT(20) DEF PassFacts, ReweighedTo
<1>8. s2 = s1
  BY <1>7, <1>0 DEF PassFacts, Promotes
<1>9. s3 = s1
  BY <1>7, <1>8, <1>0, Zenon DEF PassFacts, RollbackCompletes
<1>10. /\ s4.active = s1.active
       /\ s4.active.tc \in {-1, 100} /\ s4.active.traffic \in {-1, 100}
       /\ s4.pending.tc \in {-1, 0} /\ s4.pending.traffic \in {-1, 0} /\ ~s4.rollback
  BY <1>7, <1>9, <1>0 DEF PassFacts
<1>11. U(st) = Fresh
  BY <1>10, <1>0, IsFresh, Zenon DEF PassFacts, SameUpgrade
<1> QED
  BY <1>7, <1>10, <1>11, <1>0 DEF PassFacts

\* Both are named.  Before anything is promoted or given up, the pass has turned the
\* upgrade round or not, scaled the two or not, and moved traffic or not.
Both == /\ Start.active.name # 0 /\ Start.pending.name # 0
        /\ Start.active.name # Start.pending.name
        /\ Start.upgrade = "True" /\ Active.exists /\ Pending.exists /\ Good(U(Start))

\* With two RayClusters a pass rolls back exactly if the active one matches the spec or the
\* pending one does not (reconcileRollbackState).
LEMMA BothTurned ==
    ASSUME TypeOK, IsIncrementalUpgradeEnabled, Both
    PROVE  /\ Untouched.st.rollback = (Active.goal = cache.goal \/ Pending.goal # cache.goal)
           /\ U(Untouched.st) = Turned(U(Start), Untouched.st.rollback)
           /\ Good(U(Untouched.st)) /\ Untouched.st.rollback \in BOOLEAN
<1> DEFINE b == Untouched.st.rollback
<1>1. Start \in Status /\ Untouched.st \in Status /\ b \in BOOLEAN
  BY StartTyped, UntouchedWork DEF Work, Status
<1>2. b = (Active.goal = cache.goal \/ Pending.goal # cache.goal)
  BY <1>1, UntouchedWork DEF Both, reconcileRollbackState, Status
<1>3. Good(Turned(U(Start), b)) /\ Turned(U(Start), b) \in Upgrades
  BY <1>1, TurnGood DEF Both, Good, Splits
<1>4. U(Untouched.st) = Turned(U(Start), b)
  <2> DEFINE x == U(Untouched.st)
             y == Turned(U(Start), b)
  <2>1. x \in Upgrades /\ x.a = U(Start).a /\ x.p = U(Start).p
        /\ x.ta = U(Start).ta /\ x.tp = U(Start).tp /\ x.rb = b
    BY <1>1, UpgradeTyped, UntouchedWork
  <2>2. y \in Upgrades /\ y.a = U(Start).a /\ y.p = U(Start).p
        /\ y.ta = U(Start).ta /\ y.tp = U(Start).tp /\ y.rb = b
    BY <1>1, <1>3, TurnGood, Zenon DEF Both
  <2> HIDE DEF x, y
  <2>3. x = y
    BY <2>1, <2>2, UpgradeEqual
  <2> QED
    BY <2>3 DEF x, y
<1> QED
  BY <1>1, <1>2, <1>3, <1>4, Zenon

\* Then it scales and moves by at most a surge and a step each, and the HTTPRoute has the
\* traffic that the status is going to say.
MovedTo(w, weights, s1) ==
    /\ Good(U(s1)) /\ U(s1).rb = Untouched.st.rollback
    /\ \E b, x, y, ready, due \in BOOLEAN : U(s1) = Shift(U(Start), b, x, y, ready, due)
    /\ w.ready # {} => /\ weights[Start.active.name] = U(s1).ta
                       /\ weights[Start.pending.name] = U(s1).tp

\* It does.
LEMMA BothMoved ==
    ASSUME TypeOK, Sound(strategy), IsIncrementalUpgradeEnabled, Both,
           NEW w, Worked(w), NEW weights, weights = createHTTPRoute(w.st, "pending" \in w.ready),
           NEW s1, s1 = Reweighed(w, weights)
    PROVE  MovedTo(w, weights, s1)
<1> DEFINE b == Untouched.st.rollback
           z == U(w.st)
           pr == ("pending" \in w.ready)
           r == Routing(w.st, pr)
<1> Scalable
  BY DEF Scalable
<1>0. ReweighedTo(w, s1)
  BY ReweighedShape, Zenon
<1>1. w \in Work /\ w.st \in Status /\ s1 \in Status /\ b \in BOOLEAN /\ pr \in BOOLEAN
  BY <1>0, BothTurned, SMTT(20) DEF Worked, Work, ReweighedTo
<1>2. PICK v : ScaleStep(U(Untouched.st), v, "pending") /\ ScaleStep(v, z, "active")
  BY Zenon DEF Worked
<1>3. Good(v) /\ v.rb = U(Untouched.st).rb
      /\ \E x \in BOOLEAN : v = Resize(U(Untouched.st), "pending", x)
  BY <1>2, BothTurned, ScaleGood, Zenon
<1>4. Good(z) /\ z.rb = v.rb /\ \E y \in BOOLEAN : z = Resize(v, "active", y)
  BY <1>2, <1>3, ScaleGood, Zenon
<1>5. z \in Upgrades /\ z.a = Deref(w.st.active.tc, 100) /\ z.p = Deref(w.st.pending.tc, 0)
      /\ z.ta = Deref(w.st.active.traffic, 100) /\ z.tp = Deref(w.st.pending.traffic, 0)
      /\ z.rb = w.st.rollback /\ w.st.rollback = b
  BY <1>1, UpgradeTyped, Zenon DEF Worked, Same
<1>6. PICK due \in BOOLEAN : r = calculateTrafficRoutedPercent(strategy, z, pr, due)
  <2>1. (IF w.st.rollback THEN ~w.st.active.recent ELSE ~w.st.pending.recent) \in BOOLEAN
    BY <1>1, Zenon
  <2> QED
    BY <2>1 DEF Routing
<1>7. Good(r) /\ r.rb = z.rb /\ r.a = z.a /\ r.p = z.p
  BY <1>4, <1>6, MoveGood
<1>8. /\ s1.rollback = b /\ s1.active.tc = w.st.active.tc /\ s1.pending.tc = w.st.pending.tc
      /\ w.ready # {} => s1.active.traffic = r.ta /\ s1.pending.traffic = r.tp
      /\ w.ready = {} => /\ s1.active.traffic = w.st.active.traffic
                         /\ s1.pending.traffic = w.st.pending.traffic
  BY <1>0, Zenon DEF Both, ReweighedTo
<1> DEFINE q == U(s1)
<1>9. q \in Upgrades /\ q.a = z.a /\ q.p = z.p /\ q.rb = b
      /\ q.ta = Deref(s1.active.traffic, 100) /\ q.tp = Deref(s1.pending.traffic, 0)
  BY <1>1, <1>5, <1>8, UpgradeTyped, SMTT(20)
<1>10. PICK ready, d \in BOOLEAN :
          q = calculateTrafficRoutedPercent(strategy, z, ready, d) /\ (w.ready # {} => q = r)
  <2>1. CASE w.ready # {}
    <3> HIDE DEF q, r, z
    <3>0. r \in Upgrades
      BY <1>7, Zenon DEF Good, Splits
    <3>1. r \in Upgrades /\ r.ta # -1 /\ r.tp # -1
      BY <3>0, SMTT(20) DEF Upgrades, Percent
    <3>2. q.ta = r.ta /\ q.tp = r.tp
      BY <1>8, <1>9, <2>1, <3>1, Zenon DEF Deref
    <3>3. q = r
      BY <1>5, <1>7, <1>9, <3>1, <3>2, UpgradeEqual
    <3> QED
      BY <1>1, <1>6, <3>3, Zenon
  <2>2. CASE w.ready = {}
    <3>1. q.ta = z.ta /\ q.tp = z.tp
      BY <1>5, <1>8, <1>9, <2>2, Zenon
    <3> HIDE DEF q, r, z
    <3>2. q = z
      BY <1>5, <1>9, <3>1, UpgradeEqual
    <3>3. calculateTrafficRoutedPercent(strategy, z, FALSE, FALSE) = z
      BY DEF calculateTrafficRoutedPercent
    <3> QED
      BY <2>2, <3>2, <3>3, Zenon
  <2> QED
    BY <2>1, <2>2, Zenon
<1>11. Good(q)
  BY <1>4, <1>10, MoveGood
<1>12. \E c, x, y, e, f \in BOOLEAN : q = Shift(U(Start), c, x, y, e, f)
  <2>1. PICK x \in BOOLEAN : v = Resize(Turned(U(Start), b), "pending", x)
    BY <1>3, BothTurned, Zenon
  <2>2. PICK y \in BOOLEAN : z = Resize(v, "active", y)
    BY <1>4, Zenon
  <2>3. q = Shift(U(Start), b, x, y, ready, d)
    BY <1>10, <2>1, <2>2 DEF Shift
  <2> QED
    BY <1>1, <2>3
<1>13. w.ready # {} => weights[Start.active.name] = r.ta /\ weights[Start.pending.name] = r.tp
  BY WeightsShape, Zenon DEF Both
<1> QED
  BY <1>9, <1>10, <1>11, <1>12, <1>13, Zenon DEF MovedTo

\* Then the upgrade goes on, or is over, or has been given up.
EndsIn(w, s1, st) ==
    IF st.active.name = 0 THEN st.ready = "Timeout"
    ELSE \/ /\ st.active.name = Start.active.name /\ U(st) = U(s1)
            /\ st.pending.name # 0
         \/ /\ st.active.name = Start.pending.name /\ U(st) = Fresh
            /\ ~U(s1).rb /\ IsIncrementalUpgradeComplete(U(s1)) /\ w.ready # {}
         \/ /\ st.active.name = Start.active.name /\ U(st) = Fresh /\ U(s1).rb
            /\ \E healthy \in BOOLEAN : shouldCompleteIncrementalRollback(U(s1), healthy)

\* One of these it is.
LEMMA BothPass ==
    ASSUME TypeOK, Sound(strategy), IsIncrementalUpgradeEnabled, Both,
           NEW w, NEW weights, NEW s1, NEW s2, NEW s3, NEW pen, NEW s4, NEW st,
           PassedWith(w, weights, s1, s2, s3, pen, s4, st)
    PROVE  EndsIn(w, s1, st)
<1> DEFINE b == Untouched.st.rollback
<1> Scalable
  BY DEF Scalable
<1>0. PassFacts(w, s1, s2, s3, s4, st)
  BY PassStages
<1>1. /\ Worked(w) /\ weights = createHTTPRoute(w.st, "pending" \in w.ready)
      /\ s1 = Reweighed(w, weights) /\ s3 = RolledBack(s2) /\ pen = StillPending(s2)
      /\ s4 = AfterPreparation(w, s3, pen, s1.pending.name)
  BY Zenon DEF PassedWith, Stages
<1>2. /\ s1.active.name = Start.active.name /\ s1.pending.name = Start.pending.name
      /\ s1.active.name # 0 /\ s1.pending.name # 0
      /\ s1.upgrade = "True" /\ s1.rollback = b /\ s1 \in Status
  BY <1>0, Zenon DEF Both, PassFacts, ReweighedTo
<1>3. Good(U(s1)) /\ U(s1).rb = b /\ b \in BOOLEAN
  <2>1. MovedTo(w, weights, s1)
    BY <1>1, BothMoved, Zenon
  <2> QED
    BY <2>1, BothTurned, Zenon DEF MovedTo
<1>4. /\ U(s1).a = Deref(s1.active.tc, 100) /\ U(s1).p = Deref(s1.pending.tc, 0)
      /\ U(s1).ta = Deref(s1.active.traffic, 100) /\ U(s1).tp = Deref(s1.pending.traffic, 0)
  BY <1>2, UpgradeTyped, Zenon
<1>5. CASE w.ready # {} /\ Promotes(s1, Target(w)) /\ s2.active = s1.pending /\ s2.pending = NoService
  <2>1. ~s1.rollback /\ IsIncrementalUpgradeComplete(U(s1))
    BY <1>2, <1>5, Zenon DEF Promotes
  <2>2. U(s1).p = 100 /\ U(s1).tp = 100
    BY <1>3, <2>1, Zenon DEF IsIncrementalUpgradeComplete, Good, Drained
  <2>3. s1.pending.tc = 100 /\ s1.pending.traffic = 100
    BY <1>4, <2>2 DEF Deref
  <2>4. s3 = s2 /\ ~s2.rollback
    BY <2>1, <1>0, Zenon DEF PassFacts, RollbackCompletes
  <2>5. /\ s4.active = s1.pending /\ ~s4.rollback
        /\ s4.pending.tc \in {-1, 0} /\ s4.pending.traffic \in {-1, 0}
    BY <1>2, <1>5, <2>4, <1>0, NoServiceFact, Zenon DEF PassFacts
  <2>6. U(st) = Fresh
    BY <2>3, <2>5, <1>0, IsFresh, SMTT(20) DEF PassFacts, SameUpgrade
  <2> QED
    BY <1>2, <1>3, <1>5, <2>1, <2>5, <2>6, <1>0, Zenon DEF PassFacts, EndsIn
<1>6. CASE s2 = s1 /\ RollbackCompletes(s2)
  <2>1. /\ s1.rollback
        /\ shouldCompleteIncrementalRollback(U(s1), Pending.exists /\ Pending.head = "ready")
    BY <1>6, Zenon DEF RollbackCompletes
  <2>2. U(s1).a = 100 /\ U(s1).ta = 100
    BY <2>1 DEF shouldCompleteIncrementalRollback
  <2>3. s1.active.tc \in {-1, 100} /\ s1.active.traffic \in {-1, 100}
    BY <1>4, <2>2, Zenon DEF Deref
  <2>4. s3.active = s1.active /\ s3.pending = NoService /\ ~s3.rollback
    BY <1>6, <1>0, Zenon DEF PassFacts
  <2>5. /\ s4.active = s1.active /\ ~s4.rollback
        /\ s4.pending.tc \in {-1, 0} /\ s4.pending.traffic \in {-1, 0}
    BY <1>2, <2>4, <1>0, NoServiceFact, Zenon DEF PassFacts
  <2>6. U(st) = Fresh
    BY <2>3, <2>5, <1>0, IsFresh, SMTT(20) DEF PassFacts, SameUpgrade
  <2>7. \E healthy \in BOOLEAN : shouldCompleteIncrementalRollback(U(s1), healthy)
    BY <2>1, Zenon
  <2> QED
    BY <1>2, <1>3, <2>1, <2>5, <2>6, <2>7, <1>0, Zenon DEF PassFacts, EndsIn
<1>7. CASE s2 = s1 /\ ~RollbackCompletes(s2)
  <2>1. s3 = s1 /\ pen = Pending
    BY <1>1, <1>7, Zenon DEF RolledBack, StillPending
  <2>2. ~b => Pending.goal = cache.goal
    BY BothTurned, Zenon
  <2>3. s4 = s1
    BY <1>1, <1>2, <2>1, <2>2, Zenon
       DEF AfterPreparation, shouldPrepareNewCluster, isClusterSpecHashEqual, Both
  <2>4. U(st) = U(s1)
    BY <1>2, <2>3, <1>0, SameUpgradeU, Zenon DEF PassFacts
  <2> QED
    BY <1>2, <2>3, <2>4, <1>0, Zenon DEF PassFacts, EndsIn
<1> QED
  BY <1>5, <1>6, <1>7, <1>0, Zenon DEF PassFacts

\* The inductive invariant: the names and what the caches know of them, the RayClusters
\* that an incremental upgrade relies on, and how far it has come.
IInv == NameInv /\ Present /\ (Incremental => Progress(rs.st))

\* What a pass that stores its status in an incremental upgrade can rely on.
Context ==
    /\ TypeOK /\ Sound(strategy) /\ IsIncrementalUpgradeEnabled /\ Scalable /\ rs = cache
    /\ Start.active = rs.st.active /\ Start.pending = rs.st.pending
    /\ U(Start) = U(rs.st)
    /\ Start.upgrade = "True" <=> Start.active.name # 0 /\ Start.pending.name # 0
    /\ Start.active.name # 0 => Start.active.name # Start.pending.name
    /\ Start.active.name # 0 => Active.exists /\ Good(U(Start))
    /\ Start.pending.name # 0 => Pending.exists
    /\ Start.active.name # 0 /\ Start.pending.name = 0 => U(Start) = Fresh
    /\ Start.active.name = 0 => Idle(Start)

\* Such a pass does.
LEMMA PassContext ==
    ASSUME IInv, Passed, Incremental
    PROVE  Context
<1>1. /\ rs = cache /\ Proceeds /\ Scalable /\ ~rs.deleting
  BY DEF Passed, Writable
<1>2. TypeOK /\ Keeps(rs.st) /\ Progress(rs.st) /\ IsIncrementalUpgradeEnabled /\ Sound(strategy)
  BY <1>1, Zenon DEF IInv, NameInv, Incremental, Scalable
<1>3. /\ Start \in Status /\ rs.st \in Status /\ Start.active = rs.st.active
      /\ Start.pending = rs.st.pending /\ Start.rollback = rs.st.rollback
  BY <1>1, <1>2, StartTyped, Zenon DEF TypeOK, Object
<1>4. U(Start) = U(rs.st)
  BY <1>3, SameUpgradeU DEF SameUpgrade
<1>5. Start.upgrade = "True" <=> Start.active.name # 0 /\ Start.pending.name # 0
  <2>1. CASE rs.st.susp = "suspended"
    BY <1>1, <1>2, <1>3, <2>1 DEF Start, Resumed, Keeps, Status
  <2>2. CASE rs.st.susp # "suspended"
    BY <1>1, <1>2, <2>2, Zenon DEF Start, Keeps
  <2> QED
    BY <2>1, <2>2, Zenon
<1>6. Start.active.name # 0 => Active.exists
  BY <1>1, <1>2, <1>3, SeenTyped, Zenon DEF Seen, IInv, Present
<1>7. Start.pending.name # 0 => Pending.exists
  BY <1>1, <1>2, SeenTyped, Zenon DEF Seen, Proceeds
<1>8. ~(rs.st.susp = "no" /\ rs.st.ready = "Timeout")
  BY <1>1 DEF Proceeds, isInitializingTimeout
<1>9. Start.active.name = 0 => Idle(Start)
  BY <1>2, <1>3, <1>8, Zenon DEF Progress, Idle
<1>10. Start.active.name # 0 =>
          /\ Start.active.name # Start.pending.name /\ Good(U(Start))
          /\ Start.pending.name = 0 => U(Start) = Fresh
  BY <1>2, <1>3, <1>4, Zenon DEF Keeps, Progress
<1> QED
  BY <1>1, <1>2, <1>3, <1>4, <1>5, <1>6, <1>7, <1>9, <1>10, Zenon DEF Context

\* What a whole pass makes of an incremental upgrade.
Outcome ==
    \/ rs'.st.active.name = 0 /\ (Idle(rs'.st) \/ rs'.st.ready = "Timeout")
    \/ rs.st.active.name = 0 /\ rs'.st.active.name # 0 /\ U(rs'.st) = Fresh
    \/ /\ rs.st.active.name # 0 /\ rs'.st.active.name = rs.st.active.name
       /\ U(rs.st) = Fresh /\ U(rs'.st) = Fresh
    \/ /\ rs.st.active.name # 0 /\ rs'.st.active.name # 0
       /\ \E v : /\ Good(v)
                 /\ \E b, x, y, ready, due \in BOOLEAN : v = Shift(U(rs.st), b, x, y, ready, due)
                 /\ \/ /\ rs'.st.active.name = rs.st.active.name /\ U(rs'.st) = v
                       /\ rs'.st.pending.name # 0
                    \/ /\ rs'.st.active.name # rs.st.active.name /\ U(rs'.st) = Fresh
                       /\ ~v.rb /\ IsIncrementalUpgradeComplete(v)
                       /\ route'[rs'.st.active.name] = v.tp /\ route'[rs.st.active.name] = v.ta
                    \/ /\ rs'.st.active.name = rs.st.active.name /\ U(rs'.st) = Fresh /\ v.rb
                       /\ \E healthy \in BOOLEAN : shouldCompleteIncrementalRollback(v, healthy)

\* A pass in an incremental upgrade has one of the outcomes.
LEMMA PassOutcome ==
    ASSUME IInv, Passed, Incremental
    PROVE  Outcome
<1>1. PICK w, weights, s1, s2, s3, pen, s4, st : PassedWith(w, weights, s1, s2, s3, pen, s4, st)
  BY DEF Passed
<1>0. Context
  BY PassContext, Zenon
<1>2. rs'.st = st /\ st \in Status
  <2>1. PassFacts(w, s1, s2, s3, s4, st)
    BY <1>0, <1>1, PassStages, Zenon DEF Context
  <2>2. st \in Loose
    BY <2>1, LooseStatus, Zenon DEF PassFacts
  <2> QED
    BY <1>0, <1>1, <2>2, StoresTyped, Zenon DEF PassedWith, Context
<1>3. CASE Start.active.name = 0
  <2>1. IF st.active.name = 0 THEN Idle(st) \/ st.ready = "Timeout" ELSE U(st) = Fresh
    BY <1>0, <1>1, <1>3, EmptyPass, Zenon DEF Context
  <2>2. rs.st.active.name = 0
    BY <1>0, <1>3, Zenon DEF Context
  <2> QED
    BY <1>2, <2>1, <2>2, Zenon DEF Outcome
<1>4. CASE Start.active.name # 0 /\ Start.pending.name = 0
  <2>1. IF st.active.name = 0 THEN st.ready = "Timeout"
        ELSE U(st) = Fresh /\ st.active.name = Start.active.name
    BY <1>0, <1>1, <1>4, LonePass, Zenon DEF Context
  <2>2. /\ rs.st.active.name = Start.active.name /\ rs.st.active.name # 0
        /\ U(rs.st) = Fresh
    BY <1>0, <1>4 DEF Context
  <2> QED
    BY <1>2, <2>1, <2>2, Zenon DEF Outcome
<1>5. CASE Start.active.name # 0 /\ Start.pending.name # 0
  <2>1. Both
    BY <1>0, <1>5, Zenon DEF Both, Context
  <2>2. /\ Worked(w) /\ weights = createHTTPRoute(w.st, "pending" \in w.ready)
        /\ s1 = Reweighed(w, weights) /\ route' = weights
    BY <1>0, <1>1, <2>1, Zenon DEF PassedWith, Stages, Both, Context
  <2> DEFINE v == U(s1)
  <2>3. /\ Good(v) /\ \E b, x, y, ready, due \in BOOLEAN : v = Shift(U(rs.st), b, x, y, ready, due)
        /\ w.ready # {} => route'[Start.active.name] = v.ta /\ route'[Start.pending.name] = v.tp
    <3>1. /\ Good(v) /\ \E b, x, y, ready, due \in BOOLEAN : v = Shift(U(Start), b, x, y, ready, due)
          /\ w.ready # {} => weights[Start.active.name] = v.ta /\ weights[Start.pending.name] = v.tp
      <4>1. MovedTo(w, weights, s1)
        BY <1>0, <2>1, <2>2, BothMoved, Zenon DEF Context
      <4> QED
        BY <4>1, Zenon DEF MovedTo
    <3> HIDE DEF v
    <3>2. U(Start) = U(rs.st)
      BY <1>0, Zenon DEF Context
    <3> QED
      BY <2>2, <3>1, <3>2, Zenon
  <2>4. IF st.active.name = 0 THEN st.ready = "Timeout"
        ELSE \/ st.active.name = Start.active.name /\ U(st) = v /\ st.pending.name # 0
             \/ /\ st.active.name = Start.pending.name /\ U(st) = Fresh
                /\ ~v.rb /\ IsIncrementalUpgradeComplete(v) /\ w.ready # {}
             \/ /\ st.active.name = Start.active.name /\ U(st) = Fresh /\ v.rb
                /\ \E healthy \in BOOLEAN : shouldCompleteIncrementalRollback(v, healthy)
    <3>1. EndsIn(w, s1, st)
      BY <1>0, <1>1, <2>1, BothPass, Zenon DEF Context
    <3> QED
      BY <3>1, Zenon DEF EndsIn
  <2> HIDE DEF v
  <2>5. CASE st.active.name = 0
    BY <1>2, <2>4, <2>5, Zenon DEF Outcome
  <2>6. CASE st.active.name # 0
    <3>1. /\ rs.st.active.name = Start.active.name /\ rs.st.active.name # 0
          /\ Start.pending.name # Start.active.name
      BY <1>0, <1>5, Zenon DEF Context
    <3>2. \/ /\ rs'.st.active.name = rs.st.active.name /\ U(rs'.st) = v
             /\ rs'.st.pending.name # 0
          \/ /\ rs'.st.active.name # rs.st.active.name /\ U(rs'.st) = Fresh
             /\ ~v.rb /\ IsIncrementalUpgradeComplete(v)
             /\ route'[rs'.st.active.name] = v.tp /\ route'[rs.st.active.name] = v.ta
          \/ /\ rs'.st.active.name = rs.st.active.name /\ U(rs'.st) = Fresh /\ v.rb
             /\ \E healthy \in BOOLEAN : shouldCompleteIncrementalRollback(v, healthy)
      BY <1>2, <2>3, <2>4, <2>6, <3>1, Zenon
    <3> QED
      BY <1>2, <2>3, <2>6, <3>1, <3>2, Zenon DEF Outcome
  <2> QED
    BY <2>5, <2>6, Zenon
<1> QED
  BY <1>3, <1>4, <1>5

\* Every step leaves a status that describes an upgrade that can be reached.
LEMMA ProgressStep ==
    ASSUME IInv, [Next]_vars, Incremental
    PROVE  Progress(rs.st)'
<1>1. /\ TypeOK /\ TypeOK' /\ strategy' = strategy /\ Keeps(rs.st) /\ Progress(rs.st)
      /\ validateRayService
  BY StatusStep, TypeStep, Zenon DEF IInv, NameInv, Incremental
<1>2. rs.st \in Status /\ rs'.st \in Status
  BY <1>1, Zenon DEF TypeOK, Object
<1>3. SUFFICES Progress(rs'.st)
  BY <1>1, Zenon DEF Progress, Good
<1>4. CASE Quiet
  BY <1>1, <1>4, Zenon DEF Quiet
<1>5. CASE Timed
  <2>1. SameButTime(rs, rs')
    BY <1>5 DEF Timed
  <2>2. U(rs'.st) = U(rs.st)
    BY <1>2, <2>1, SameUpgradeU, Zenon DEF SameButTime
  <2> QED
    BY <1>1, <2>1, <2>2, Zenon DEF Progress, Idle, SameButTime, SameUpgrade
<1>6. CASE Written
  BY <1>1, <1>6, WrittenShape, NoServiceFact DEF Progress, Idle, Keeps
<1>7. CASE Passed
  <2>1. Outcome
    BY <1>7, PassOutcome, Zenon
  <2>2. rs'.st.susp = "no" /\ Sound(strategy)
    BY <1>1, <1>7, PassedShape, PassContext, Zenon DEF Context, IInv, NameInv
  <2>3. Good(Fresh)
    BY <2>2, FreshGood, Zenon
  <2>4. rs'.st.active.name # 0 =>
           U(rs'.st) = Fresh \/ (Good(U(rs'.st)) /\ rs'.st.pending.name # 0)
    BY <2>1, Zenon DEF Outcome
  <2>5. rs'.st.active.name = 0 => Idle(rs'.st) \/ rs'.st.ready = "Timeout"
    BY <2>1, Zenon DEF Outcome
  <2> QED
    BY <2>2, <2>3, <2>4, <2>5, Zenon DEF Progress
<1> QED
  BY <1>1, <1>4, <1>5, <1>6, <1>7, StatusStep

\* The inductive invariant holds initially.
LEMMA IInvInit == Init => IInv
<1> SUFFICES ASSUME Init PROVE IInv
  OBVIOUS
<1>1. rs.st.active = NoService /\ rs.st.pending = NoService /\ rs.st.rollback = FALSE
  BY DEF Init, NoStatus
<1>2. \A n \in Names : n # 0 /\ clusters[n] = NoCluster /\ clusterCache[n] = NoCluster
  BY NamesFact DEF Init
<1> QED
  BY <1>1, <1>2, NameInit, NoServiceFact, Zenon DEF IInv, Present, Progress, Idle, Named, NoCluster

\* Every step keeps it.
LEMMA IInvStep == IInv /\ [Next]_vars => IInv'
<1> SUFFICES ASSUME IInv, [Next]_vars PROVE IInv'
  OBVIOUS
<1>1. NameInv' /\ Present' /\ strategy' = strategy
  BY NameStep, PresentStep, StatusStep, Zenon DEF IInv, NameInv
<1>2. Incremental' <=> Incremental
  BY <1>1 DEF Incremental, IsIncrementalUpgradeEnabled, validateRayService
<1> QED
  BY <1>1, <1>2, ProgressStep, Zenon DEF IInv

\* The inductive invariant holds: a status never names a RayCluster twice, is never
\* ahead of the names given, and in an incremental upgrade describes one that could
\* have been reached by surges and steps.
THEOREM Invariant == Spec => []IInv
BY IInvInit, IInvStep, PTL DEF Spec

------------------------------------------------------------------------------
\* The pending RayCluster takes over.

\* At once: it is ready, and both Services have been pointed at it.
LEMMA TakesOver ==
    ASSUME TypeOK, Scalable, NEW w, NEW weights, NEW s1, NEW s2, NEW s3, NEW pen, NEW s4, NEW st,
           PassedWith(w, weights, s1, s2, s3, pen, s4, st),
           w.ready # {}, Promotes(s1, Target(w)),
           IsIncrementalUpgradeEnabled => Start.upgrade # "True" /\ ~Active.exists
    PROVE  LET n == Start.pending.name IN Endpoint(n) /\ headSvc' = n /\ serveSvc' = n
<1>1. Worked(w) /\ weights = createHTTPRoute(w.st, "pending" \in w.ready) /\ s1 = Reweighed(w, weights)
  BY Zenon DEF PassedWith, Stages
<1>2. s1.active.name = Start.active.name
  <2>1. ReweighedTo(w, s1)
    BY <1>1, ReweighedShape, Zenon
  <2> QED
    BY <2>1, Zenon DEF ReweighedTo
<1>3. /\ w.st.active.name = Start.active.name /\ w.st.pending.name = Start.pending.name
      /\ w.st.upgrade = Start.upgrade /\ w.ready \subseteq {"active", "pending"}
  BY <1>1, UntouchedWork, Zenon DEF Worked, Same, Work
<1>4. "pending" \in w.ready /\ Target(w) = Start.pending.name
  <2>1. CASE IsIncrementalUpgradeEnabled
    <3>1. "active" \notin w.ready
      BY <1>1, <2>1, Zenon DEF Worked
    <3> QED
      BY <1>3, <2>1, <3>1, Zenon DEF Target
  <2>2. CASE ~IsIncrementalUpgradeEnabled
    BY <1>2, <1>3, <2>2, Zenon DEF Target, Promotes
  <2> QED
    BY <2>1, <2>2, Zenon
<1> QED
  BY <1>1, <1>4, Zenon DEF Worked, PassedWith

\* A pass that replaces the active RayCluster has moved everything to the new one.
LEMMA SafePass ==
    ASSUME IInv, Passed, rs'.st.active.name \notin {0, rs.st.active.name}
    PROVE  LET n == rs'.st.active.name  old == rs.st.active.name IN
           IF IsIncrementalUpgradeEnabled /\ old # 0
           THEN route'[n] = 100 /\ route'[old] = 0
           ELSE Endpoint(n) /\ headSvc' = n /\ serveSvc' = n
<1>1. PICK w, weights, s1, s2, s3, pen, s4, st : PassedWith(w, weights, s1, s2, s3, pen, s4, st)
  BY Zenon DEF Passed
<1>2. /\ TypeOK /\ Scalable /\ rs = cache /\ Keeps(rs.st) /\ Counted /\ Proceeds
  BY Zenon DEF Passed, Writable, IInv, NameInv
<1>3. IsIncrementalUpgradeEnabled => Incremental
  BY <1>2, Zenon DEF Proceeds, Operative, Serves, Incremental
<1>4. rs'.st = st
  <2>1. PassFacts(w, s1, s2, s3, s4, st)
    BY <1>1, <1>2, PassStages, Zenon
  <2>2. st \in Loose
    BY <2>1, LooseStatus, Zenon DEF PassFacts
  <2> QED
    BY <1>1, <1>2, <2>2, StoresTyped, Zenon DEF PassedWith
<1>5. Start.active.name = rs.st.active.name /\ Start.pending.name = rs.st.pending.name
  BY <1>2, StartTyped
<1>6. /\ Named(Start) \subseteq 0..names
      /\ Start.active.name # 0 => Start.active.name # Start.pending.name
  BY <1>2, <1>5, Zenon DEF Counted, Keeps, Named
<1>7. /\ w.ready # {} /\ Promotes(s1, Target(w)) /\ st.active.name = Start.pending.name
  <2>1. st.active.name \notin {0, Start.active.name}
    BY <1>4, <1>5, Zenon
  <2>2. /\ Worked(w) /\ weights = createHTTPRoute(w.st, "pending" \in w.ready)
        /\ Stages(w, weights, s1, s2, s3, pen, s4, st)
    BY <1>1, Zenon DEF PassedWith
  <2>3. NamesTo(w, s1, st)
    BY <1>2, <1>6, <2>2, PassNames, Zenon
  <2> QED
    BY <2>1, <2>3, Zenon DEF NamesTo
<1>8. CASE IsIncrementalUpgradeEnabled /\ rs.st.active.name # 0
  <2>1. Outcome
    BY <1>3, <1>8, PassOutcome, Zenon
  <2>2. PICK v : /\ Good(v) /\ IsIncrementalUpgradeComplete(v)
                 /\ route'[rs'.st.active.name] = v.tp /\ route'[rs.st.active.name] = v.ta
    BY <1>8, <2>1, Zenon DEF Outcome
  <2>3. v.tp = 100 /\ v.ta = 0
    BY <2>2 DEF IsIncrementalUpgradeComplete, Good, Splits, Upgrades, Percent
  <2> QED
    BY <1>8, <2>2, <2>3, Zenon
<1>9. CASE ~(IsIncrementalUpgradeEnabled /\ rs.st.active.name # 0)
  <2>1. IsIncrementalUpgradeEnabled => Start.upgrade # "True" /\ ~Active.exists
    BY <1>2, <1>3, <1>5, <1>9, PassContext, SeenTyped, Zenon DEF Seen, NoCluster, Context
  <2> QED
    BY <1>1, <1>2, <1>4, <1>7, <1>9, <2>1, TakesOver, Zenon
<1> QED
  BY <1>8, <1>9, Zenon

\* No RayCluster becomes the active one before it can take over: for every strategy, cache
\* lag, fault and edit, it serves and both Services select it, or the HTTPRoute already
\* sends it everything (reconcilePromotionAndServingStatus).
THEOREM PromotionAlwaysSafe == Spec => PromotionIsSafe
<1> DEFINE Safe ==
      LET n == rs'.st.active.name  old == rs.st.active.name IN n \notin {0, old} =>
         IF IsIncrementalUpgradeEnabled /\ old # 0
         THEN route'[n] = 100 /\ route'[old] = 0
         ELSE Endpoint(n) /\ headSvc' = n /\ serveSvc' = n
<1>1. ASSUME IInv, [Next]_vars, rs'.st.active.name \notin {0, rs.st.active.name}
      PROVE  Passed
  <2>1. ~Quiet
    BY <1>1 DEF Quiet
  <2>2. ~Timed
    BY <1>1, Zenon DEF Timed, SameButTime
  <2>3. ~Written
    BY <1>1, WrittenShape, NoServiceFact, Zenon DEF IInv, NameInv
  <2> QED
    BY <1>1, <2>1, <2>2, <2>3, StatusStep DEF IInv, NameInv
<1>2. IInv /\ [Next]_vars => [Safe]_vars
  BY <1>1, SafePass
<1> QED
  BY <1>2, Invariant, PTL DEF Spec, PromotionIsSafe

==============================================================================
