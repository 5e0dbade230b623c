---- MODULE MCFleetPlan ----
(***************************************************************************)
(* Six devices of 80 units, 70 of them usable, on one to six nodes.        *)
(* Weights are multiples of 60, so that every split is exact.  The mixes   *)
(* need two, three and four replicas of at most three; one is not valid.   *)
(***************************************************************************)
EXTENDS FleetPlan

SixGpus == 1..6

Planners == 1..3

Class(name, rate, prompt, output, seconds) ==
  [name |-> name, requests_per_second |-> rate, prompt_tokens |-> prompt,
   output_tokens |-> output, mean_service_seconds |-> seconds, burst_multiplier |-> 2]

Interactive == Class("interactive", 1, 40, 30, 1)

Mixes ==
  { {Interactive, Class("generation", 1, 10, output, seconds)} :
      <<output, seconds>> \in {<<15, 1>>, <<45, 1>>, <<60, 1>>, <<15, 3>>, <<100, 1>>} }
    \cup {{Interactive, Class("generation", -1, 10, 15, 1)}}

MCBenchmark ==
  [prefill_tokens_per_second |-> 100, output_tokens_per_second |-> 100,
   max_concurrent_requests |-> 4, hourly_cost |-> 4]

MCCapacityRequirements ==
  [min_replicas |-> 2, max_replicas |-> 3, reserved_headroom |-> 25, max_hourly_cost |-> 15]

MCTopologies ==
  {t \in [nodes : 1..6, gpus_per_node : 1..6, fast_intra_node_collectives : BOOLEAN,
          usable_gib : {70}] : t.nodes * t.gpus_per_node = 6}

MCDeployments ==
  [tensor_parallel_size : {1, 2, 3}, kv_shards : {1, 2}, kv_gib_per_request : {6},
   target_concurrency : {1, 2, 5}, runtime_overhead_gib : {4}, usable_gib : {70}]

Canary(quality) ==
  [mode |-> "canary", warmed |-> TRUE, sample_count |-> 9, quality_score |-> quality,
   p95_ttft_seconds |-> 8, p95_tpot_seconds |-> 1, output_tokens_per_second |-> 100,
   error_rate |-> 1]

MCReleaseRequirements ==
  [min_sample_count |-> 5, min_quality_score |-> 86, max_quality_drop |-> 3,
   max_p95_ttft_seconds |-> 10, max_p95_tpot_seconds |-> 2,
   min_relative_throughput |-> 95, max_error_rate |-> 1]

MCWorseCanary ==
  [mode |-> {"shadow"}, warmed |-> {FALSE}, quality_score |-> {86, -1},
   p95_tpot_seconds |-> {2, 3}, output_tokens_per_second |-> {94}]

PlanOf(mix, weight, deployment, topology) ==
  [workloads |-> mix, model |-> [weight_gib |-> weight], deployment |-> deployment,
   topology |-> topology, free |-> [gpu \in SixGpus |-> 80], candidate |-> Canary(89),
   token_bound |-> 41]

MCPlans ==
  {PlanOf(mix, weight, deployment, topology) :
     mix \in Mixes, weight \in {60, 120, 180}, deployment \in MCDeployments,
     topology \in MCTopologies}

MCBaseline == Canary(90)

MCScalingBounds == [min |-> 2, max |-> 3]

OtherTokenBounds == {3, 100}

BothClasses == {"interactive", "generation"}

Unused == {}

====
