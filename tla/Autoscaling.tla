---- MODULE Autoscaling ----
(***************************************************************************)
(* recommend_replicas of src/inference_platform/autoscaling.py inside the  *)
(* control loop it is written for.  The function is pure; the cluster, the *)
(* clock, the load and the caller that applies the recommendation are      *)
(* external, and only do what the arguments ScaleState, ScaleObservation   *)
(* and AutoscalingPolicy say of them.                                      *)
(*                                                                         *)
(* Time is discrete.  Instants are kept as ages, "how long before now",    *)
(* because the code only compares differences from now; ages beyond what   *)
(* any comparison can tell apart are not told apart.  Rates are integers:  *)
(* the rounding of floats before math.ceil is not modelled.                *)
(***************************************************************************)
EXTENDS Integers, FiniteSets, FiniteSetsExt

CONSTANTS
  Loads,          \* observed demand: records of arrival rate and queued tokens
  Bounds,         \* replica bounds the operator may set: records of min and max
  UsableRate,     \* service rate per replica times target utilization
  DrainTokens,    \* service rate per replica times queue drain seconds
  Cooldown,       \* scale_up_cooldown_seconds
  Window,         \* scale_down_stabilization_seconds
  MaxAge,         \* bound: older observations are dropped by the caller
  NoSample        \* no observation was taken at that instant

(* The policy checks of lines 150-161. *)
ASSUME PolicyAssumption ==
  /\ \A b \in Bounds : b.min \in Nat \ {0} /\ b.max \in Nat /\ b.min <= b.max
  /\ UsableRate \in Nat \ {0}
  /\ DrainTokens \in Nat \ {0}
  /\ Cooldown \in Nat
  /\ Window \in Nat
  /\ \A l \in Loads : l.arrival \in Nat /\ l.queued \in Nat

(* The caller keeps observations for at least the stabilization window. *)
ASSUME RetentionAssumption == MaxAge \in Nat /\ MaxAge >= Window

ASSUME SampleAssumption == NoSample \notin Loads

VARIABLES
  load,            \* the demand the cluster is under now
  bounds,          \* min_replicas and max_replicas in force
  observations,    \* age -> the observation taken then, or NoSample
  desired,         \* ScaleState.desired_replicas
  ready,           \* ScaleState.ready_replicas
  warming,         \* ScaleState.warming_replicas
  since_scale,     \* now - ScaleState.last_scale_at, up to Cooldown
  phase,           \* what the loop does next: "observe", "decide" or "sleep"
  calm             \* from now on load and bounds stay, and nothing fails

cluster == <<ready, warming>>
environment == <<load, bounds, calm>>
vars == <<environment, observations, desired, cluster, since_scale, phase>>

Ages == 0..MaxAge

-----------------------------------------------------------------------------
(* The recommendation. *)

CeilDiv(a, b) == (a + b - 1) \div b

(* Lines 115 and 139. *)
Clamp(n) == Min({bounds.max, Max({bounds.min, n})})

(* _demand(): replicas for the arrivals, and replicas to drain the backlog. *)
Demand(observation) ==
  Clamp(CeilDiv(observation.arrival, UsableRate) + CeilDiv(observation.queued, DrainTokens))

Observed == {age \in Ages : observations[age] # NoSample}

(* Mutated form: a fleet that is all there is refused. *)
ValidBelow == Observed # {} /\ ready + warming < desired

(* _validate(), as far as the loop can get it wrong. *)
Valid == Observed # {} /\ ready + warming <= desired

NewestDemand == Demand(observations[Min(Observed)])

(* Mutated form: any observation at all counts as a full window. *)
CoversAnything == Observed # {}

(* Line 103: the oldest observation is at least as old as the window. *)
CoversWindow == Max(Observed) >= Window

(* Mutated form: only the newest observation is looked at. *)
NewestOnly == {NewestDemand}

(* Lines 104-108. *)
StableDemands == {Demand(observations[age]) : age \in Observed \cap 0..Window}

Quiet ==
  /\ CoversWindow
  /\ StableDemands # {}
  /\ Max(StableDemands) < desired

(* Mutated form: only calculated demand is clamped, not the answer. *)
AdoptUnclamped(target) ==
  /\ desired' = target
  /\ since_scale' = IF desired' = desired THEN since_scale ELSE 0
  /\ UNCHANGED <<environment, observations, cluster>>

(* The caller adopts the target; the clamp applies to every answer.  It      *)
(* notes the time when the number of replicas changed.                       *)
Adopt(target) ==
  /\ desired' = Clamp(target)
  /\ since_scale' = IF desired' = desired THEN since_scale ELSE 0
  /\ UNCHANGED <<environment, observations, cluster>>

(* A call with arguments it accepts. *)
Decide ==
  /\ phase = "decide"
  /\ phase' = "sleep"
  /\ Valid

(* Mutated form: the cooldown is not looked at. *)
ScaleUpAnytime ==
  /\ Decide
  /\ NewestDemand > desired
  /\ Adopt(NewestDemand)

ScaleUp ==
  /\ Decide
  /\ NewestDemand > desired
  /\ since_scale >= Cooldown
  /\ Adopt(NewestDemand)

HoldInCooldown ==
  /\ Decide
  /\ NewestDemand > desired
  /\ since_scale < Cooldown
  /\ Adopt(desired)

ScaleDown ==
  /\ Decide
  /\ NewestDemand < desired
  /\ Quiet
  /\ Adopt(Max(StableDemands))

HoldUnstable ==
  /\ Decide
  /\ NewestDemand < desired
  /\ ~Quiet
  /\ Adopt(desired)

Match ==
  /\ Decide
  /\ NewestDemand = desired
  /\ Adopt(desired)

(* The arguments are refused with ValueError and nothing is adopted. *)
Raise ==
  /\ phase = "decide"
  /\ phase' = "sleep"
  /\ ~Valid
  /\ UNCHANGED <<environment, observations, desired, cluster, since_scale>>

RecommendReplicas ==
  \/ ScaleUp
  \/ HoldInCooldown
  \/ ScaleDown
  \/ HoldUnstable
  \/ Match
  \/ Raise

-----------------------------------------------------------------------------
(* External: the loop around the call. *)

Sample ==
  /\ phase = "observe"
  /\ phase' = "decide"
  /\ observations' = [observations EXCEPT ![0] = load]
  /\ UNCHANGED <<environment, desired, cluster, since_scale>>

(* A scrape is lost; the recommendation is made from what there is. *)
MissSample ==
  /\ phase = "observe"
  /\ ~calm
  /\ phase' = "decide"
  /\ UNCHANGED <<environment, observations, desired, cluster, since_scale>>

Tick ==
  /\ phase = "sleep"
  /\ phase' = "observe"
  /\ observations' = [age \in Ages |-> IF age = 0 THEN NoSample ELSE observations[age - 1]]
  /\ since_scale' = Min({Cooldown, since_scale + 1})
  /\ UNCHANGED <<environment, desired, cluster>>

(* External: the replicas follow the desired count, with delay. *)

Provision ==
  /\ ready + warming < desired
  /\ warming' = warming + 1
  /\ UNCHANGED <<environment, observations, desired, ready, since_scale, phase>>

BecomeReady ==
  /\ warming > 0
  /\ warming' = warming - 1
  /\ ready' = ready + 1
  /\ UNCHANGED <<environment, observations, desired, since_scale, phase>>

Terminate ==
  /\ ready + warming > desired
  /\ \/ ready > 0 /\ ready' = ready - 1 /\ warming' = warming
     \/ warming > 0 /\ warming' = warming - 1 /\ ready' = ready
  /\ UNCHANGED <<environment, observations, desired, since_scale, phase>>

ReplicaFails ==
  /\ ~calm
  /\ ready > 0
  /\ ready' = ready - 1
  /\ UNCHANGED <<environment, observations, desired, warming, since_scale, phase>>

(* External: users and operators. *)

LoadChanges ==
  /\ ~calm
  /\ load' \in Loads \ {load}
  /\ UNCHANGED <<bounds, calm, observations, desired, cluster, since_scale, phase>>

BoundsChange ==
  /\ ~calm
  /\ bounds' \in Bounds \ {bounds}
  /\ UNCHANGED <<load, calm, observations, desired, cluster, since_scale, phase>>

CalmDown ==
  /\ ~calm
  /\ calm' = TRUE
  /\ UNCHANGED <<load, bounds, observations, desired, cluster, since_scale, phase>>

-----------------------------------------------------------------------------
Init ==
  /\ load \in Loads
  /\ bounds \in Bounds
  /\ observations = [age \in Ages |-> NoSample]
  /\ desired = bounds.min
  /\ ready = 0
  /\ warming = 0
  /\ since_scale = Cooldown
  /\ phase = "observe"
  /\ calm = FALSE

Loop == Sample \/ MissSample \/ RecommendReplicas \/ Tick

ClusterMoves == Provision \/ BecomeReady \/ Terminate \/ ReplicaFails

Next == Loop \/ ClusterMoves \/ LoadChanges \/ BoundsChange \/ CalmDown

(* The loop keeps going round, and the cluster does what it was asked to. *)
Fairness ==
  /\ WF_vars(Loop)
  /\ WF_vars(Provision)
  /\ WF_vars(BecomeReady)
  /\ WF_vars(Terminate)

Spec == Init /\ [][Next]_vars /\ Fairness

-----------------------------------------------------------------------------
(* Safety *)

(* Every variable has its type: in particular no answer is ever less than    *)
(* one replica, and no count of replicas is negative.                        *)
TypeOK ==
  /\ load \in Loads /\ bounds \in Bounds /\ calm \in BOOLEAN
  /\ observations \in [Ages -> Loads \cup {NoSample}]
  /\ desired \in Nat \ {0}
  /\ ready \in Nat /\ warming \in Nat
  /\ since_scale \in 0..Cooldown
  /\ phase \in {"observe", "decide", "sleep"}

(* An accepted call returns a target within the bounds now in force, also    *)
(* when it only carries forward a count the bounds no longer allow (the      *)
(* regression LESSONS.md:60 records).                                        *)
TargetWithinBounds ==
  [][(RecommendReplicas /\ Valid) => desired' \in bounds.min..bounds.max]_vars

(* Scaling down never undercuts a demand seen inside the stabilization       *)
(* window: capacity that covers a recent peak still covers it afterwards,    *)
(* even when the ceiling was lowered in between.                             *)
RecentPeakKept ==
  [][\A age \in 0..Window :
       (observations[age] # NoSample /\ desired >= Demand(observations[age])
         /\ UNCHANGED bounds)
       => desired' >= Demand(observations[age])]_vars

(* Two changes closer than the cooldown never both raise the count, except   *)
(* to bring it up to the floor (autoscaling.py:69, tests:test_a_declined     *)
(* move_cannot_carry_a_target_below_the_replica_floor).                      *)
NoRaiseInsideCooldown ==
  [][(desired' > desired /\ since_scale < Cooldown) => desired' = bounds.min]_vars

(* No replica is given up before the loop watched demand for a whole window. *)
NoCutBeforeAWindow ==
  [][(desired' < desired /\ desired <= bounds.max) =>
        \E age \in Window..MaxAge : observations[age] # NoSample]_vars

-----------------------------------------------------------------------------
(* Liveness *)

(* Once load and bounds stay put the loop settles: desired becomes and stays *)
(* what the load demands, and every replica of it is ready.  Refused calls   *)
(* while replicas terminate, cooldown and window only delay this.            *)
Settles ==
  [](calm => <>[](desired = Demand(load) /\ ready = desired /\ warming = 0))

-----------------------------------------------------------------------------
(* autoscaling.py:70-71: a scale-down needs a complete window, "preventing a *)
(* brief lull from terminating warm models".  The demand in force when the   *)
(* window began is the last observation taken at or before that instant.     *)
WindowStart == Min({age \in Observed : age >= Window})

LullLastsTheWindow ==
  [][ScaleDown => Demand(observations[WindowStart]) < desired]_vars

====
