---- MODULE Parallelism ----
(***************************************************************************)
(* plan_parallelism of src/inference_platform/parallelism.py.  Sizes are   *)
(* integers; comparisons are kept free of division.                        *)
(***************************************************************************)
EXTENDS Integers, FiniteSets, FiniteSetsExt

(* _validate: anything else raises. *)
LayoutValid(model, topology, target_replicas) ==
  /\ model.weight_memory_gib > 0 /\ model.runtime_memory_gib_per_gpu >= 0
  /\ model.experts > 0
  /\ topology.nodes > 0 /\ topology.gpus_per_node > 0 /\ topology.usable_gib > 0
  /\ target_replicas > 0

TotalGpus(topology) == topology.nodes * topology.gpus_per_node

(* Mutated form: a width need not divide the devices of a node. *)
AnyWidths(topology) ==
  {width \in 1..topology.gpus_per_node : width = 1 \/ topology.fast_intra_node_collectives}

TensorWidths(topology) ==
  {width \in 1..topology.gpus_per_node :
     /\ topology.gpus_per_node % width = 0
     /\ width = 1 \/ topology.fast_intra_node_collectives}

LayoutFits(model, topology, tp, pp) ==
  model.weight_memory_gib + model.runtime_memory_gib_per_gpu * tp * pp
    <= topology.usable_gib * tp * pp

(* The candidates: tensor width and pipeline depth. *)
Layouts(model, topology) ==
  {layout \in TensorWidths(topology) \X (1..TotalGpus(topology)) :
     /\ layout[2] <= TotalGpus(topology) \div layout[1]
     /\ LayoutFits(model, topology, layout[1], layout[2])}

(* The score of lines 88-91: fewer devices, then the preferred axis. *)
Preferred(topology, a, b) ==
  \/ a[1] * a[2] < b[1] * b[2]
  \/ /\ a[1] * a[2] = b[1] * b[2]
     /\ IF topology.fast_intra_node_collectives THEN a[2] < b[2] ELSE a[1] < b[1]

LargestDivisorAtMost(value, maximum) == Max({d \in 1..maximum : value % d = 0})

NoLayout ==
  [feasible |-> FALSE, tensor_parallel |-> 0, pipeline_parallel |-> 0, data_parallel |-> 0,
   expert_parallel |-> 0, memory_gib_per_gpu |-> -1]   \* the code says infinity

PlanParallelism(model, topology, target_replicas) ==
  LET layouts == Layouts(model, topology)
      best    == CHOOSE a \in layouts : \A b \in layouts \ {a} : Preferred(topology, a, b)
      group   == best[1] * best[2]
  IN  IF layouts = {} THEN NoLayout
      ELSE [feasible           |-> TRUE,
            tensor_parallel    |-> best[1],
            pipeline_parallel  |-> best[2],
            data_parallel      |-> Min({target_replicas, TotalGpus(topology) \div group}),
            expert_parallel    |-> LargestDivisorAtMost(model.experts, group),
            memory_gib_per_gpu |-> model.weight_memory_gib \div group
                                     + model.runtime_memory_gib_per_gpu]

====
