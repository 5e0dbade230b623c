---- MODULE AutoscalingProofs ----
(***************************************************************************)
(* Theorems about Autoscaling, for every policy that recommend_replicas    *)
(* accepts, every set of loads and every history of lost scrapes, failing  *)
(* replicas and changing bounds.                                           *)
(*                                                                         *)
(* TypeOK is inductive, and with it the rest is a matter of single steps:  *)
(* what one recommendation does follows from what Clamp, Demand and the    *)
(* maximum over a set of observations return.                              *)
(***************************************************************************)
EXTENDS Autoscaling, CommonLemmas, TLAPS

-----------------------------------------------------------------------------
(* The operators. *)

(* Both clamps of the code: the answer is within the bounds, and moves only  *)
(* as far as the bounds require.                                             *)
LEMMA ClampShape ==
  ASSUME bounds \in Bounds, NEW n \in Int
  PROVE  /\ Clamp(n) \in bounds.min..bounds.max
         /\ Clamp(n) \in Nat \ {0}
         /\ n < bounds.min => Clamp(n) = bounds.min
         /\ n > bounds.max => Clamp(n) = bounds.max
         /\ n \in bounds.min..bounds.max => Clamp(n) = n
<1>1. bounds.min \in Nat \ {0} /\ bounds.max \in Nat /\ bounds.min <= bounds.max
  BY PolicyAssumption
<1>2. Max({bounds.min, n}) = IF bounds.min >= n THEN bounds.min ELSE n
  BY <1>1, MaxOfTwo
<1>3. Max({bounds.min, n}) \in Int
  BY <1>1, <1>2
<1> DEFINE m == Max({bounds.min, n})
<1> HIDE DEF m
<1>4. Min({bounds.max, m}) = IF bounds.max <= m THEN bounds.max ELSE m
  <2>1. m \in Int /\ bounds.max \in Int
    BY <1>1, <1>3 DEF m
  <2> QED
    BY <2>1, MinOfTwo
<1>5. Clamp(n) = IF bounds.max <= m THEN bounds.max ELSE m
  BY <1>4 DEF Clamp, m
<1>6. m = IF bounds.min >= n THEN bounds.min ELSE n
  BY <1>2 DEF m
<1> QED
  BY <1>1, <1>5, <1>6

LEMMA DemandShape ==
  ASSUME bounds \in Bounds, NEW l \in Loads
  PROVE  Demand(l) \in bounds.min..bounds.max /\ Demand(l) \in Nat \ {0}
<1>1. /\ l.arrival \in Nat /\ l.queued \in Nat
      /\ UsableRate \in Nat \ {0} /\ DrainTokens \in Nat \ {0}
  BY PolicyAssumption
<1>2. CeilDiv(l.arrival, UsableRate) \in Int /\ CeilDiv(l.queued, DrainTokens) \in Int
  BY <1>1 DEF CeilDiv
<1> DEFINE n == CeilDiv(l.arrival, UsableRate) + CeilDiv(l.queued, DrainTokens)
<1>3. n \in Int
  BY <1>2
<1> HIDE DEF n
<1>4. Clamp(n) \in bounds.min..bounds.max /\ Clamp(n) \in Nat \ {0}
  BY <1>3, ClampShape
<1> QED
  BY <1>4 DEF Demand, n

(* Whatever is observed is a load, and the newest of it is a demand.         *)
LEMMA ObservedShape ==
  ASSUME TypeOK
  PROVE  /\ Observed \subseteq Nat /\ Observed \subseteq Ages
         /\ \A age \in Observed : observations[age] \in Loads
         /\ \A age \in Observed : Demand(observations[age]) \in bounds.min..bounds.max
         /\ Observed # {} => NewestDemand \in bounds.min..bounds.max
         /\ Observed # {} => Max(Observed) \in Observed
<1>1. Observed \subseteq Ages /\ Ages \subseteq Nat
  BY RetentionAssumption DEF Observed, Ages
<1>2. \A age \in Observed : observations[age] \in Loads
  BY SampleAssumption DEF Observed, TypeOK
<1>3. \A age \in Observed : Demand(observations[age]) \in bounds.min..bounds.max
  BY <1>2, DemandShape DEF TypeOK
<1>4. Observed # {} => Min(Observed) \in Observed
  BY <1>1, MinExists
<1>5. Observed # {} => Max(Observed) \in Observed
  <2>1. \A age \in Observed : age <= MaxAge
    BY <1>1, RetentionAssumption DEF Ages
  <2>2. Observed \in SUBSET Int /\ MaxAge \in Int
    BY <1>1, RetentionAssumption
  <2> QED
    BY <2>1, <2>2, MaxExists
<1> QED
  BY <1>1, <1>2, <1>3, <1>4, <1>5 DEF NewestDemand

(* The maximum over the window is a demand, and covers each of them.         *)
LEMMA StableShape ==
  ASSUME TypeOK, StableDemands # {}
  PROVE  /\ Max(StableDemands) \in bounds.min..bounds.max
         /\ \A age \in Observed \cap 0..Window :
              Demand(observations[age]) <= Max(StableDemands)
<1>1. /\ bounds.min \in Nat /\ bounds.max \in Nat
  BY PolicyAssumption DEF TypeOK
<1>2. StableDemands \subseteq bounds.min..bounds.max
  BY ObservedShape DEF StableDemands
<1>3. /\ Max(StableDemands) \in StableDemands
      /\ \A d \in StableDemands : d <= Max(StableDemands)
  <2> DEFINE S == StableDemands
             high == bounds.max
  <2>1. S \in SUBSET Int /\ S # {} /\ high \in Int /\ \A d \in S : d <= high
    BY <1>1, <1>2
  <2> HIDE DEF S, high
  <2>2. Max(S) \in S /\ \A d \in S : d <= Max(S)
    BY <2>1, MaxExists
  <2> QED
    BY <2>2 DEF S
<1>4. \A age \in Observed \cap 0..Window : Demand(observations[age]) \in StableDemands
  BY DEF StableDemands
<1> QED
  BY <1>2, <1>3, <1>4

-----------------------------------------------------------------------------
(* What an accepted call adopts. *)

(* The target of an accepted call: a raise, a cut, or the count as it is.    *)
LEMMA Targets ==
  ASSUME TypeOK, RecommendReplicas, Valid
  PROVE  \E target \in Int :
           /\ Adopt(target)
           /\ \/ /\ target = NewestDemand /\ target > desired /\ since_scale >= Cooldown
              \/ /\ target = Max(StableDemands) /\ target < desired /\ Quiet
                 /\ target \in bounds.min..bounds.max
              \/ target = desired
<1>1. Observed # {}
  BY DEF Valid
<1>2. bounds.min \in Int /\ bounds.max \in Int /\ desired \in Int
  BY PolicyAssumption DEF TypeOK
<1>3. NewestDemand \in Int
  BY <1>1, <1>2, ObservedShape
<1>4. CASE ScaleUp
  BY <1>3, <1>4 DEF ScaleUp
<1>5. CASE ScaleDown
  <2>1. StableDemands # {} /\ Max(StableDemands) < desired /\ Quiet /\ Adopt(Max(StableDemands))
    BY <1>5 DEF ScaleDown, Quiet
  <2>2. Max(StableDemands) \in bounds.min..bounds.max
    BY <2>1, StableShape
  <2> QED
    BY <1>2, <2>1, <2>2
<1>6. CASE HoldInCooldown \/ HoldUnstable \/ Match
  BY <1>2, <1>6 DEF HoldInCooldown, HoldUnstable, Match
<1>7. ~Raise
  BY DEF Raise
<1> QED
  BY <1>4, <1>5, <1>6, <1>7 DEF RecommendReplicas

(* A refused call, like every step that is no call, leaves the count alone.  *)
LEMMA OnlyCallsDecide ==
  ASSUME [Next]_vars, ~(RecommendReplicas /\ Valid)
  PROVE  UNCHANGED desired
<1>1. RecommendReplicas => Raise
  BY DEF RecommendReplicas, ScaleUp, HoldInCooldown, ScaleDown, HoldUnstable, Match, Decide
<1> QED
  BY <1>1 DEF Next, Loop, ClusterMoves, Raise, Sample, MissSample, Tick, Provision, BecomeReady,
       Terminate, ReplicaFails, LoadChanges, BoundsChange, CalmDown, vars, cluster, environment

-----------------------------------------------------------------------------
LEMMA TypeInvariant == Spec => []TypeOK
<1>1. Init => TypeOK
  <2> SUFFICES ASSUME Init PROVE TypeOK
    OBVIOUS
  <2>1. desired \in Nat \ {0} /\ since_scale \in 0..Cooldown
    BY PolicyAssumption DEF Init
  <2>2. observations \in [Ages -> Loads \cup {NoSample}]
    BY DEF Init
  <2> QED
    BY <2>1, <2>2 DEF Init, TypeOK
<1>2. TypeOK /\ [Next]_vars => TypeOK'
  <2> SUFFICES ASSUME TypeOK, [Next]_vars PROVE TypeOK'
    OBVIOUS
  <2> USE DEF TypeOK
  <2>1. CASE RecommendReplicas /\ Valid
    <3>1. PICK target \in Int : Adopt(target)
      BY <2>1, Targets
    <3>2. Clamp(target) \in Nat \ {0}
      BY ClampShape
    <3>3. desired' \in Nat \ {0} /\ since_scale' \in 0..Cooldown
      BY <3>1, <3>2, PolicyAssumption DEF Adopt
    <3>4. phase' = "sleep"
      BY <2>1 DEF RecommendReplicas, ScaleUp, HoldInCooldown, ScaleDown, HoldUnstable, Match,
           Raise, Decide
    <3> QED
      BY <3>1, <3>3, <3>4 DEF Adopt, cluster, environment
  <2>2. CASE Raise
    BY <2>2 DEF Raise, cluster, environment
  <2>3. CASE Sample
    BY <2>3 DEF Sample, cluster, environment
  <2>4. CASE MissSample
    BY <2>4 DEF MissSample, cluster, environment
  <2>5. CASE Tick
    <3>1. since_scale' \in 0..Cooldown
      <4>1. since_scale \in Int /\ Cooldown \in Nat
        BY PolicyAssumption
      <4>2. since_scale' = IF Cooldown <= since_scale + 1 THEN Cooldown ELSE since_scale + 1
        BY <2>5, <4>1, MinOfTwo DEF Tick
      <4> QED
        BY <4>1, <4>2
    <3>2. observations' \in [Ages -> Loads \cup {NoSample}]
      BY <2>5, RetentionAssumption DEF Tick, Ages
    <3> QED
      BY <2>5, <3>1, <3>2 DEF Tick, cluster, environment
  <2>6. CASE ClusterMoves
    BY <2>6 DEF ClusterMoves, Provision, BecomeReady, Terminate, ReplicaFails, cluster, environment
  <2>7. CASE LoadChanges \/ BoundsChange \/ CalmDown
    BY <2>7 DEF LoadChanges, BoundsChange, CalmDown, cluster
  <2>8. CASE UNCHANGED vars
    BY <2>8 DEF vars, cluster, environment
  <2>9. (RecommendReplicas /\ ~Valid) => Raise
    BY DEF RecommendReplicas, ScaleUp, HoldInCooldown, ScaleDown, HoldUnstable, Match, Decide
  <2> QED
    BY <2>1, <2>2, <2>3, <2>4, <2>5, <2>6, <2>7, <2>8, <2>9 DEF Next, Loop
<1> QED
  BY <1>1, <1>2, PTL DEF Spec

(* The answer of recommend_replicas is within the bounds then in force,      *)
(* however the count it was given relates to them.                           *)
THEOREM AnswersWithinBounds == Spec => TargetWithinBounds
<1>1. TypeOK /\ [Next]_vars =>
        [(RecommendReplicas /\ Valid) => desired' \in bounds.min..bounds.max]_vars
  <2> SUFFICES ASSUME TypeOK, RecommendReplicas, Valid
               PROVE  desired' \in bounds.min..bounds.max
    OBVIOUS
  <2>1. PICK target \in Int : Adopt(target)
    BY Targets
  <2> QED
    BY <2>1, ClampShape DEF Adopt, TypeOK
<1> QED
  BY <1>1, TypeInvariant, PTL DEF Spec, TargetWithinBounds

(* A cut never goes below a demand seen inside the window, for every window  *)
(* length and every pattern of lost scrapes.                                 *)
THEOREM PeaksAreKept == Spec => RecentPeakKept
<1> DEFINE A == \A age \in 0..Window :
                  (observations[age] # NoSample /\ desired >= Demand(observations[age])
                    /\ UNCHANGED bounds)
                  => desired' >= Demand(observations[age])
<1>1. TypeOK /\ [Next]_vars => [A]_vars
  <2> SUFFICES ASSUME TypeOK, [Next]_vars, NEW age \in 0..Window,
                      observations[age] # NoSample, desired >= Demand(observations[age])
               PROVE  desired' >= Demand(observations[age])
    OBVIOUS
  <2>1. age \in Observed \cap 0..Window
    BY RetentionAssumption, PolicyAssumption DEF Observed, Ages
  <2>2. /\ bounds \in Bounds /\ desired \in Int
        /\ bounds.min \in Int /\ bounds.max \in Int
        /\ Demand(observations[age]) \in bounds.min..bounds.max
    BY <2>1, ObservedShape, PolicyAssumption DEF TypeOK
  <2>3. CASE RecommendReplicas /\ Valid
    <3>1. PICK target \in Int :
            /\ Adopt(target)
            /\ \/ target > desired
               \/ target = Max(StableDemands) /\ Quiet
               \/ target = desired
      BY <2>3, Targets
    <3>2. target >= Demand(observations[age])
      BY <2>1, <2>2, <3>1, StableShape DEF Quiet
    <3>3. Clamp(target) >= Demand(observations[age])
      BY <2>2, <3>2, ClampShape
    <3> QED
      BY <3>1, <3>3 DEF Adopt
  <2>4. CASE ~(RecommendReplicas /\ Valid)
    BY <2>4, OnlyCallsDecide
  <2> QED
    BY <2>3, <2>4
<1> QED
  BY <1>1, TypeInvariant, PTL DEF Spec, RecentPeakKept

(* Inside the cooldown the count only rises to a floor that was raised.      *)
THEOREM CooldownHolds == Spec => NoRaiseInsideCooldown
<1> DEFINE A == (desired' > desired /\ since_scale < Cooldown) => desired' = bounds.min
<1>1. TypeOK /\ [Next]_vars => [A]_vars
  <2> SUFFICES ASSUME TypeOK, [Next]_vars, desired' > desired, since_scale < Cooldown
               PROVE  desired' = bounds.min
    OBVIOUS
  <2>1. /\ bounds \in Bounds /\ desired \in Int /\ since_scale \in Int /\ Cooldown \in Int
        /\ bounds.min \in Int /\ bounds.max \in Int
    BY PolicyAssumption DEF TypeOK
  <2>2. RecommendReplicas /\ Valid
    BY <2>1, OnlyCallsDecide
  <2>3. PICK target \in Int :
          /\ Adopt(target)
          /\ \/ since_scale >= Cooldown
             \/ target < desired
             \/ target = desired
    BY <2>2, Targets
  <2>4. target <= desired /\ desired' = Clamp(target)
    BY <2>1, <2>3 DEF Adopt
  <2> QED
    BY <2>1, <2>4, ClampShape
<1> QED
  BY <1>1, TypeInvariant, PTL DEF Spec, NoRaiseInsideCooldown

(* Below the ceiling, no replica is given up on a history shorter than the   *)
(* window.                                                                   *)
THEOREM CutsNeedAWindow == Spec => NoCutBeforeAWindow
<1> DEFINE A == (desired' < desired /\ desired <= bounds.max) =>
                  \E age \in Window..MaxAge : observations[age] # NoSample
<1>1. TypeOK /\ [Next]_vars => [A]_vars
  <2> SUFFICES ASSUME TypeOK, [Next]_vars, desired' < desired, desired <= bounds.max
               PROVE  \E age \in Window..MaxAge : observations[age] # NoSample
    OBVIOUS
  <2>1. /\ bounds \in Bounds /\ desired \in Int
        /\ bounds.min \in Int /\ bounds.max \in Int
    BY PolicyAssumption DEF TypeOK
  <2>2. RecommendReplicas /\ Valid
    BY <2>1, OnlyCallsDecide
  <2>3. PICK target \in Int :
          /\ Adopt(target)
          /\ \/ target > desired
             \/ Quiet
             \/ target = desired
    BY <2>2, Targets
  <2>4. desired' = Clamp(target)
    BY <2>3 DEF Adopt
  <2>5. Quiet
    BY <2>1, <2>3, <2>4, ClampShape
  <2>6. Max(Observed) \in Observed /\ Max(Observed) >= Window
    BY <2>2, <2>5, ObservedShape DEF Valid, Quiet, CoversWindow
  <2>7. Max(Observed) \in Window..MaxAge /\ observations[Max(Observed)] # NoSample
    BY <2>6, RetentionAssumption, PolicyAssumption DEF Observed, Ages
  <2> QED
    BY <2>7
<1> QED
  BY <1>1, TypeInvariant, PTL DEF Spec, NoCutBeforeAWindow

====
