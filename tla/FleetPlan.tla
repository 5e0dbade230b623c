---- MODULE FleetPlan ----
(***************************************************************************)
(* run_plan of src/hands_on/plan_fleet.py, and what follows from it.  One  *)
(* call sizes the fleet, checks memory, chooses a layout, places the first *)
(* replica, asks admission, autoscaling and the rollout gate, and grades   *)
(* the evidence.  The tests call it again with one input made worse; here  *)
(* the counterfactual actions do.  External: a plan that is ready is       *)
(* carried out, every replica by a planner of its own, racing as in        *)
(* Placement.                                                              *)
(***************************************************************************)
EXTENDS Placement, Memory, Parallelism, Capacity, Rollouts, MeasuredFields

CONSTANTS
  Plans,                 \* inputs of a plan, see PlanAssumption
  WorseCanary,           \* for a field of the canary, what a worse run measured
  OtherBounds,           \* per-request token bounds that treat a probe wrongly
  Warm,                  \* devices that hold the weights to begin with
  RequiredWorkloads,     \* the workload classes REQUIRED_EVIDENCE names
  Benchmark,             \* BENCHMARK
  CapacityRequirements,  \* CAPACITY_REQUIREMENTS
  BaselineRelease,       \* BASELINE_RELEASE
  ReleaseRequirements,   \* RELEASE_REQUIREMENTS
  ScalingBounds,         \* replica bounds of the autoscaling policy (line 193)
  ScalingUsableRate,     \* its service rate times its target utilization
  Benign, Oversize,      \* tokens of the two probes of the admission controller
  LiveTokens             \* max_live_tokens of its policy (line 171)

(* The other evidence REQUIRED_EVIDENCE names: one control for each decision. *)
Controls ==
  {"memory_fit", "capacity_plan", "parallel_layout", "gpu_placement", "benign_admission",
   "oversize_shedding", "queue_scaling", "canary_gate"}

ASSUME PlanAssumption ==
  /\ Gpus = 1..Cardinality(Gpus)
  /\ \A plan \in Plans :
       /\ DOMAIN plan = {"workloads", "model", "deployment", "topology", "free", "candidate",
                         "token_bound"}
       /\ TotalGpus(plan.topology) = Cardinality(Gpus)
       /\ plan.free \in [Gpus -> Nat]
       /\ \A w \in plan.workloads : w.name \in RequiredWorkloads
  /\ RequiredWorkloads \cap Controls = {}   \* the code writes "workload:" before a name
  /\ CapacityRequirements.max_replicas \in Nat
  /\ 1..CapacityRequirements.max_replicas \subseteq Replicas

(* The controllers and their policies are built from positive constants.  A  *)
(* bound that is worse stops the first probe or lets the second one pass.    *)
ASSUME PolicyAssumption ==
  /\ {Benign, Oversize, LiveTokens} \cup OtherBounds \subseteq Nat \ {0}
  /\ \A bound \in OtherBounds : bound < Benign \/ Oversize <= bound
  /\ ScalingBounds.max \in Int /\ ScalingBounds.min \in 1..ScalingBounds.max
  /\ ScalingUsableRate \in Nat \ {0}

(* What is measured is measured in integers; the cache of a request divides  *)
(* among its shards.  A device is not larger for the layout than it is for   *)
(* the memory assessment and in the inventory: the three records of          *)
(* plan_fleet.py describe one cluster (lines 70-82).                         *)
ASSUME NumbersAssumption ==
  /\ {Benchmark.prefill_tokens_per_second, Benchmark.output_tokens_per_second,
       Benchmark.max_concurrent_requests, Benchmark.hourly_cost,
       CapacityRequirements.min_replicas, CapacityRequirements.max_hourly_cost} \subseteq Int
  /\ \A given \in Plans :
       /\ IsFiniteSet(given.workloads)
       /\ \A w \in given.workloads :
            {w.requests_per_second, w.prompt_tokens, w.output_tokens, w.mean_service_seconds,
             w.burst_multiplier} \subseteq Int
       /\ given.model.weight_gib \in Int
       /\ given.deployment \in
            [tensor_parallel_size : Int, kv_shards : Int, kv_gib_per_request : Int,
             target_concurrency : Int, runtime_overhead_gib : Int, usable_gib : Int]
       /\ given.deployment.kv_shards > 0 =>
            given.deployment.kv_gib_per_request % given.deployment.kv_shards = 0
       /\ {given.topology.nodes, given.topology.gpus_per_node, given.topology.usable_gib}
            \subseteq Int
       /\ given.topology.usable_gib <= given.deployment.usable_gib
       /\ \A gpu \in Gpus : given.topology.usable_gib <= given.free[gpu]

(* The release gate is asked about measurements, and the worse ones are.     *)
ASSUME CanaryAssumption ==
  /\ IsRelease(BaselineRelease)
  /\ \A field \in ReleaseRequiredFields : ReleaseRequirements[field] \in Int
  /\ DOMAIN WorseCanary \subseteq ReleaseFields
  /\ \A given \in Plans :
       /\ DOMAIN given.candidate = ReleaseFields /\ IsRelease(given.candidate)
       /\ \A field \in DOMAIN WorseCanary : \A worse \in WorseCanary[field] :
            worse \in FieldValues(field) /\ NoBetterValue(field, worse, given.candidate[field])

VARIABLES
  plan,      \* the inputs of the last call
  report,    \* what it returned
  changed    \* which counterfactual was tried since the first call

fleetVars == <<vars, plan, report, changed>>

NotPlanned == [planned |-> FALSE]

Raises == [raised |-> TRUE]

-----------------------------------------------------------------------------
(* The decisions run_plan asks for. *)

(* The scaling decision uses the definitions of Autoscaling; nothing of its  *)
(* control loop runs here.                                                   *)
Scaling == INSTANCE Autoscaling WITH
  Loads <- {}, Bounds <- {ScalingBounds}, UsableRate <- ScalingUsableRate, DrainTokens <- 1,
  Cooldown <- 0, Window <- 1, MaxAge <- 1, NoSample <- NotPlanned, load <- 0,
  bounds <- ScalingBounds, observations <- <<>>, desired <- 0, ready <- 0, warming <- 0,
  since_scale <- 0, phase <- "decide", calm <- FALSE

(* Lines 183-195: one observation, taken now, of a fleet at the planned size *)
(* whose cooldown has passed.  It covers no stabilization window.            *)
ScalingTarget(capacity) ==
  LET demand == Scaling!Demand([arrival |-> capacity.output_tokens_per_second, queued |-> 0])
  IN  Scaling!Clamp(Max({demand, capacity.required_replicas}))

(* Lines 171-181: a fresh controller; neither probe is late.                 *)
FirstDecision(bound, live_tokens, tokens) ==
  CASE tokens > bound                                       -> "token bound"
    [] tokens <= bound /\ live_tokens + tokens <= LiveTokens -> "admit"
    [] tokens <= bound /\ live_tokens + tokens > LiveTokens  -> "queue"

(* Mutated form: the KV reservation is left out (LESSONS.md:42). *)
RuntimeMemoryOnly(deployment, memory) == deployment.runtime_overhead_gib

(* Line 139: what a device needs beside its share of the weights. *)
RuntimeMemory(deployment, memory) == deployment.runtime_overhead_gib + memory.kv_gib_per_gpu

ShardedModel(given, memory) ==
  [weight_memory_gib |-> given.model.weight_gib, experts |-> 1,
   runtime_memory_gib_per_gpu |-> RuntimeMemory(given.deployment, memory)]

GpusPerReplica(parallel) == parallel.tensor_parallel * parallel.pipeline_parallel

(* Line 147: the layout splits the weights as the assessment assumed. *)
LayoutMatchesMemoryPlan(given, parallel) ==
  parallel.feasible /\ GpusPerReplica(parallel) = given.deployment.tensor_parallel_size

(* Lines 155-161. *)
RequestFor(parallel, memory) ==
  [model_revision |-> "model@abc", gpus_required |-> GpusPerReplica(parallel),
   memory_gib_per_gpu |-> memory.required_gib_per_gpu,
   required_capabilities |-> {"bf16"}, require_same_node |-> TRUE]

Inventory(given) ==
  [gpu \in Gpus |->
     [node |-> (gpu - 1) \div given.topology.gpus_per_node, free_memory_gib |-> given.free[gpu],
      capabilities |-> {"bf16"},
      resident_models |-> IF gpu \in Warm THEN {"model@abc"} ELSE {}]]

-----------------------------------------------------------------------------
(* The grading. *)

(* Mutated form: what is not there is not required. *)
EvidenceOfWhatIsThere(given) ==
  {w.name : w \in given.workloads} \cup Controls

(* Lines 95-108: fixed, whatever the inputs are. *)
RequiredEvidence(given) == RequiredWorkloads \cup Controls

(* Lines 200-229. *)
Evidence(given, capacity, memory, parallel) ==
  LET matches == LayoutMatchesMemoryPlan(given, parallel)
      earned  ==
        [memory_fit        |-> memory.fits,
         capacity_plan     |-> capacity.release_ready,
         parallel_layout   |-> matches /\ parallel.data_parallel >= capacity.required_replicas,
         gpu_placement     |-> matches /\ Groups(RequestFor(parallel, memory), Inventory(given)) # {},
         benign_admission  |-> FirstDecision(given.token_bound, 0, Benign) = "admit",
         oversize_shedding |-> FirstDecision(given.token_bound, Benign, Oversize) = "token bound",
         queue_scaling     |-> ScalingTarget(capacity) >= capacity.required_replicas,
         canary_gate       |-> EvaluateRollout(BaselineRelease, given.candidate,
                                               ReleaseRequirements).action = "promote"]
  IN  {w.name : w \in given.workloads} \cup {control \in DOMAIN earned : earned[control]}

(* Every decision validates its own inputs, and one that raises ends the call. *)
Accepts(given) ==
  /\ CapacityValid(given.workloads, Benchmark, CapacityRequirements)
  /\ MemoryValid(given.model, given.deployment)
  /\ LayoutValid(ShardedModel(given, AssessMemory(given.model, given.deployment)),
                 given.topology, CapacityRequirements.min_replicas)
  /\ ReleaseValid(BaselineRelease, given.candidate, ReleaseRequirements)

RunPlan(given) ==
  LET capacity == PlanCapacity(given.workloads, Benchmark, CapacityRequirements)
      memory   == AssessMemory(given.model, given.deployment)
      parallel == PlanParallelism(ShardedModel(given, memory), given.topology,
                                  capacity.required_replicas)
      missing  == RequiredEvidence(given) \ Evidence(given, capacity, memory, parallel)
  IN  IF ~Accepts(given) THEN Raises
      ELSE [release_ready |-> capacity.violations = {} /\ missing = {}, missing |-> missing,
            capacity |-> capacity, memory |-> memory, parallel |-> parallel,
            scaling |-> ScalingTarget(capacity)]

-----------------------------------------------------------------------------
FirstCall ==
  /\ report = NotPlanned
  /\ report' = RunPlan(plan)
  /\ request' = [r \in Replicas |->
                   IF report' = Raises THEN <<>> ELSE RequestFor(report'.parallel, report'.memory)]
  /\ UNCHANGED <<plan, changed, installed, inventory, seen, gpu_ids, outcome>>

(* The counterfactuals: the same call with one input made worse, before      *)
(* anything is placed.                                                       *)
CallWith(given, what) ==
  /\ report # NotPlanned
  /\ changed = "nothing"
  /\ \A r \in Replicas : outcome[r] = "wanted"
  /\ plan' = given
  /\ changed' = what
  /\ report' = RunPlan(given)
  /\ installed' = Inventory(given)
  /\ inventory' = installed'
  /\ UNCHANGED <<request, seen, gpu_ids, outcome>>

DropWorkload(w) == CallWith([plan EXCEPT !.workloads = @ \ {w}], "workload")

ShrinkInventory(gpu) ==
  \E free \in {0, plan.free[gpu] - 1} \cap Nat : CallWith([plan EXCEPT !.free[gpu] = free], "inventory")

RegressCanary(field) ==
  \E worse \in WorseCanary[field] : CallWith([plan EXCEPT !.candidate[field] = worse], "canary")

MoveTokenBound(bound) == CallWith([plan EXCEPT !.token_bound = bound], "admission")

(* External: the planned fleet is placed on the inventory. *)
PlaceNext ==
  /\ report \notin {NotPlanned, Raises}
  /\ report.release_ready
  /\ changed = "nothing"
  /\ \E r \in 1..report.capacity.required_replicas : Planner(r)
  /\ UNCHANGED <<plan, report, changed>>

FleetInit ==
  /\ plan \in Plans
  /\ report = NotPlanned
  /\ changed = "nothing"
  /\ installed = Inventory(plan)
  /\ inventory = installed
  /\ request = <<>>
  /\ seen = [r \in Replicas |-> <<>>]
  /\ gpu_ids = [r \in Replicas |-> {}]
  /\ outcome = [r \in Replicas |-> "wanted"]

FleetNext ==
  \/ FirstCall
  \/ \E w \in plan.workloads : DropWorkload(w)
  \/ \E gpu \in Gpus : ShrinkInventory(gpu)
  \/ \E field \in DOMAIN WorseCanary : RegressCanary(field)
  \/ \E bound \in OtherBounds : MoveTokenBound(bound)
  \/ PlaceNext

FleetSpec == FleetInit /\ [][FleetNext]_fleetVars

-----------------------------------------------------------------------------
(* Safety *)

Reported == report \notin {NotPlanned, Raises}

Ready == Reported /\ report.release_ready

(* A ready plan that splits its replicas by tensor width only is a fleet     *)
(* that exists: every one of its replicas can be placed, in whatever order   *)
(* and whatever races.  Greedy placement strands no fragment                 *)
(* (TEXTBOOK.md:241-242), because a width divides the devices of a node.     *)
TensorReplicasPlaceable ==
  (Ready /\ report.parallel.pipeline_parallel = 1) =>
    \A r \in Replicas : outcome[r] \notin {"refused", "error"}

(* "The cluster can provide the capacity plan's complete parallel replicas"  *)
(* (README.md:236-240): no replica of a ready plan is refused.               *)
ReadyFleetExists == Ready => \A r \in Replicas : outcome[r] \notin {"refused", "error"}

(* The two sizings agree when placement is asked (plan_fleet.py:144-146): a  *)
(* replica is only requested if the assessment says it fits, and what is     *)
(* reserved for it is what the layout was checked against.                   *)
PlacedWhatFits ==
  (Reported /\ LayoutMatchesMemoryPlan(plan, report.parallel)) =>
    /\ report.memory.fits
    /\ report.memory.required_gib_per_gpu = report.parallel.memory_gib_per_gpu

(* The two answers of one assessment agree: the target concurrency fits      *)
(* exactly when it is at most the maximum concurrency reported (lesson 1).   *)
FitMeansConcurrency ==
  Reported =>
    (report.memory.fits <=> plan.deployment.target_concurrency <= report.memory.max_concurrency)

(* That many replicas serve every burst and keep the declared headroom.      *)
Serves(replicas) ==
  LET kept(load, supply) ==
        100 * load <= replicas * supply * (100 - CapacityRequirements.reserved_headroom)
  IN  /\ replicas >= CapacityRequirements.min_replicas
      /\ kept(PromptRate(plan.workloads), Benchmark.prefill_tokens_per_second)
      /\ kept(OutputRate(plan.workloads), Benchmark.output_tokens_per_second)
      /\ kept(Concurrency(plan.workloads), Benchmark.max_concurrent_requests)

(* The planned fleet serves, and one replica fewer would not: neither the    *)
(* budget nor the fleet ceiling trims it (capacity.py:75-76).                *)
SmallestSufficientFleet ==
  Reported =>
    /\ Serves(report.capacity.required_replicas)
    /\ ~Serves(report.capacity.required_replicas - 1)

(* When traffic grows to so many percent, a dimension asks for more replicas *)
(* than are planned.  The floor does not grow.                               *)
Exceeds(name, percent) ==
  LET d == Dimensions(plan.workloads, Benchmark, CapacityRequirements)[name]
  IN  name # "floor" /\ percent * d.load > 100 * report.capacity.required_replicas * d.supply

(* The bottleneck is "the dimension that would bind first as traffic grows"  *)
(* (capacity.py:72-73), where a workload dimension binds at all.             *)
BottleneckBindsFirst ==
  (Reported /\ report.capacity.binding_dimensions # {"floor"}) =>
    \A percent \in 101..300, name \in {"prefill", "decode", "concurrency"} :
      Exceeds(name, percent) => Exceeds(report.capacity.bottleneck, percent)

(* What a counterfactual may cost beside what it is about. *)
AtStake(what) ==
  CASE what = "inventory" -> {"gpu_placement"}
    [] what = "canary"    -> {"canary_gate"}
    [] what = "admission" -> {"benign_admission", "oversize_shedding"}
    [] what = "workload"  -> RequiredWorkloads

(* An input made worse never makes a plan ready, and takes away no evidence  *)
(* but its own control's.  A dropped workload, though it asks for a smaller  *)
(* fleet, always fails the plan (plan_fleet.py:93-94, 125-127).              *)
CounterfactualsFail ==
  [][(changed' # changed /\ Reported /\ Reported') =>
       /\ Ready' => Ready /\ changed' # "workload"
       /\ report'.missing \ report.missing \subseteq AtStake(changed')]_fleetVars

(* In a ready plan the two independent sizings give one answer: the          *)
(* autoscaler, asked about the planned demand at the planned size, stays.    *)
ScalingAgreesWithPlan == Ready => report.scaling = report.capacity.required_replicas

====
