---- MODULE Memory ----
(***************************************************************************)
(* assess_memory of src/inference_platform/memory.py.  Sizes are integers  *)
(* in one unit; callers choose them so that the divisions by shard counts  *)
(* are exact.  The rounding of floats is not modelled.                     *)
(***************************************************************************)
EXTENDS Integers, FiniteSetsExt

(* _validate: anything else raises. *)
MemoryValid(model, deployment) ==
  /\ model.weight_gib > 0
  /\ deployment.tensor_parallel_size > 0 /\ deployment.kv_shards > 0
  /\ deployment.kv_gib_per_request > 0 /\ deployment.target_concurrency > 0
  /\ deployment.runtime_overhead_gib >= 0
  /\ deployment.usable_gib > 0

WeightPerGpu(model, deployment) == model.weight_gib \div deployment.tensor_parallel_size

KvPerRequest(deployment) == deployment.kv_gib_per_request \div deployment.kv_shards

Fixed(model, deployment) ==
  WeightPerGpu(model, deployment) + deployment.runtime_overhead_gib

(* Mutated form: the runtime overhead is not taken off. *)
AvailableBesideWeights(model, deployment) ==
  Max({0, deployment.usable_gib - WeightPerGpu(model, deployment)})

AvailableForKv(model, deployment) ==
  Max({0, deployment.usable_gib - Fixed(model, deployment)})

AssessMemory(model, deployment) ==
  LET kv_gib   == KvPerRequest(deployment) * deployment.target_concurrency
      required == Fixed(model, deployment) + kv_gib
  IN  [fits                 |-> required <= deployment.usable_gib,
       kv_gib_per_gpu       |-> kv_gib,
       required_gib_per_gpu |-> required,
       max_concurrency      |-> AvailableForKv(model, deployment) \div KvPerRequest(deployment)]

====
