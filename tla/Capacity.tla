---- MODULE Capacity ----
(***************************************************************************)
(* plan_capacity of src/inference_platform/capacity.py.  Rates, times,     *)
(* bursts and prices are integers, the reserved headroom is in percent,    *)
(* and a demand in replicas is kept as a fraction: a load over what one    *)
(* replica supplies.  The rounding of floats is not modelled, nor is the   *)
(* reported cost per token.  The ceiling is exact.                         *)
(***************************************************************************)
EXTENDS Integers, FiniteSetsExt

(* _validate: anything else raises.  Names are there; two may be the same. *)
CapacityValid(workloads, benchmark, requirements) ==
  /\ workloads # {}
  /\ \A v, w \in workloads : v.name = w.name => v = w
  /\ \A w \in workloads :
       /\ w.requests_per_second >= 0 /\ w.prompt_tokens >= 0 /\ w.output_tokens >= 0
       /\ w.mean_service_seconds > 0 /\ w.burst_multiplier >= 1
  /\ \E w \in workloads : w.output_tokens * w.requests_per_second > 0
  /\ benchmark.prefill_tokens_per_second > 0 /\ benchmark.output_tokens_per_second > 0
  /\ benchmark.max_concurrent_requests > 0 /\ benchmark.hourly_cost >= 0
  /\ requirements.min_replicas > 0
  /\ requirements.max_replicas >= requirements.min_replicas
  /\ requirements.reserved_headroom \in 0..99
  /\ requirements.max_hourly_cost >= 0

(* Lines 85-96: what all classes ask for at their bursts. *)
BurstLoad(PerRequest(_), workloads) ==
  SumFunction([w \in workloads |-> w.requests_per_second * PerRequest(w) * w.burst_multiplier])

PromptRate(workloads) == BurstLoad(LAMBDA w : w.prompt_tokens, workloads)

OutputRate(workloads) == BurstLoad(LAMBDA w : w.output_tokens, workloads)

Concurrency(workloads) == BurstLoad(LAMBDA w : w.mean_service_seconds, workloads)

(* Mutated form: the headroom is forgotten. *)
Everything(requirements) == 100

Usable(requirements) == 100 - requirements.reserved_headroom

(* Lines 98-103. *)
Dimensions(workloads, benchmark, requirements) ==
  LET of(load, supply) == [load |-> 100 * load, supply |-> supply * Usable(requirements)]
  IN  [floor       |-> [load |-> requirements.min_replicas, supply |-> 1],
       prefill     |-> of(PromptRate(workloads), benchmark.prefill_tokens_per_second),
       decode      |-> of(OutputRate(workloads), benchmark.output_tokens_per_second),
       concurrency |-> of(Concurrency(workloads), benchmark.max_concurrent_requests)]

(* Mutated form: one replica too many where the quotient is exact. *)
CeilAlwaysUp(d) == d.load \div d.supply + 1

Ceil(d) == (d.load + d.supply - 1) \div d.supply

(* The sorted order of the names in lines 98-103: "decode tokens",           *)
(* "minimum replica floor", "prefill tokens", "request concurrency".         *)
Alphabetical == [decode |-> 1, floor |-> 2, prefill |-> 3, concurrency |-> 4]

(* The key of line 108. *)
Outranks(dimensions, a, b) ==
  LET left  == dimensions[a].load * dimensions[b].supply
      right == dimensions[b].load * dimensions[a].supply
  IN  left > right \/ (left = right /\ Alphabetical[a] > Alphabetical[b])

PlanCapacity(workloads, benchmark, requirements) ==
  LET dimensions == Dimensions(workloads, benchmark, requirements)
      replicas   == Max({Ceil(dimensions[name]) : name \in DOMAIN dimensions})
      binding    == {name \in DOMAIN dimensions : Ceil(dimensions[name]) = replicas}
      within     == [ceiling |-> replicas <= requirements.max_replicas,
                     budget  |-> replicas * benchmark.hourly_cost <= requirements.max_hourly_cost]
      violations == {rule \in DOMAIN within : ~within[rule]}
  IN  [release_ready            |-> violations = {},
       required_replicas        |-> replicas,
       bottleneck               |-> CHOOSE a \in binding :
                                      \A b \in binding \ {a} : Outranks(dimensions, a, b),
       binding_dimensions       |-> binding,
       output_tokens_per_second |-> OutputRate(workloads),
       violations               |-> violations]

====
