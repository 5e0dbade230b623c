---- MODULE FleetPlanProofs ----
(***************************************************************************)
(* Theorems about FleetPlan, for every plan, benchmark, policy and         *)
(* topology, counterfactual calls included.                                *)
(*                                                                         *)
(* The first inductive invariant, IInv, is that the report is the one of   *)
(* the inputs it is kept with, and that these have the sizes of a plan     *)
(* callers bring with some workloads missing.  What a single report says   *)
(* follows from it by arithmetic: the ceiling, the division among devices  *)
(* and the order in which layouts are preferred.  That a counterfactual    *)
(* never helps compares the evidence of two reports piece by piece.        *)
(*                                                                         *)
(* The second, Placing, is about carrying a ready plan out: a device that  *)
(* runs nothing is as it was listed, and every group is on one node.  If   *)
(* no node had room for a group, the planners would hold more groups than  *)
(* the plan has replicas.                                                  *)
(***************************************************************************)
EXTENDS FleetPlan, CommonLemmas

(* The plan is one of Plans in what sizing reads. *)
PlanOK ==
  /\ DOMAIN plan = {"workloads", "model", "deployment", "topology", "free", "candidate",
                    "token_bound"}
  /\ \E given \in Plans :
       /\ plan.workloads \in SUBSET given.workloads
       /\ plan.model = given.model
       /\ plan.deployment = given.deployment
       /\ plan.topology = given.topology
  /\ changed = "nothing" => plan \in Plans

IInv ==
  /\ PlanOK
  /\ report \in {NotPlanned, RunPlan(plan)}

-----------------------------------------------------------------------------
(* Arithmetic. *)

(* The quotient is the largest number whose product stays below. *)
LEMMA QuotientIsLargest ==
  ASSUME NEW a \in Int, NEW b \in Int, b > 0
  PROVE  /\ a \div b \in Int
         /\ \A n \in Int : b * n <= a <=> n <= a \div b
<1> DEFINE q == a \div b
<1>1. q \in Int /\ b * q <= a /\ a < b * q + b
  OBVIOUS
<1> HIDE DEF q
<1>2. ASSUME NEW n \in Int
      PROVE  b * n <= a <=> n <= q
  <2>1. CASE n <= q
    <3>1. b * n <= b * q
      BY <1>1, <2>1
    <3> QED
      BY <1>1, <2>1, <3>1
  <2>2. CASE q < n
    <3>1. b * (q + 1) <= b * n
      BY <1>1, <2>2
    <3>2. b * (q + 1) = b * q + b
      BY <1>1
    <3> QED
      BY <1>1, <2>2, <3>1, <3>2
  <2> QED
    BY <1>1, <2>1, <2>2
<1> QED
  BY <1>1, <1>2 DEF q

(* The ceiling of a demand is the least number of replicas that meets it. *)
LEMMA CeilIsLeast ==
  ASSUME NEW d, d.load \in Int, d.supply \in Int, d.supply > 0
  PROVE  /\ Ceil(d) \in Int
         /\ \A r \in Int : d.load <= r * d.supply <=> Ceil(d) <= r
<1> DEFINE load == d.load
           s    == d.supply
<1>1. load \in Int /\ s \in Int /\ s > 0 /\ Ceil(d) = (load + s - 1) \div s
  BY DEF Ceil
<1> HIDE DEF load, s
<1>2. /\ Ceil(d) \in Int
      /\ \A n \in Int : s * n <= load + s - 1 <=> n <= Ceil(d)
  BY <1>1, QuotientIsLargest
<1>3. ASSUME NEW r \in Int
      PROVE  load <= r * s <=> Ceil(d) <= r
  <2>1. s * (r + 1) <= load + s - 1 <=> r + 1 <= Ceil(d)
    BY <1>2
  <2>2. s * (r + 1) = r * s + s /\ r * s \in Int
    BY <1>1
  <2> QED
    BY <1>1, <1>2, <2>1, <2>2
<1> QED
  BY <1>2, <1>3 DEF load, s

-----------------------------------------------------------------------------
(* A report answers the inputs it is kept with. *)

LEMMA CallKeeps ==
  ASSUME PlanOK, NEW given, NEW what, CallWith(given, what), what # "nothing",
         DOMAIN given = DOMAIN plan,
         given.workloads \subseteq plan.workloads, given.model = plan.model,
         given.deployment = plan.deployment, given.topology = plan.topology
  PROVE  IInv'
<1>1. plan' = given /\ report' = RunPlan(given) /\ changed' = what
  BY DEF CallWith
<1>2. PlanOK'
  BY <1>1 DEF PlanOK
<1> QED
  BY <1>1, <1>2 DEF IInv

LEMMA Invariance == FleetSpec => []IInv
<1>1. FleetInit => IInv
  <2> SUFFICES ASSUME FleetInit PROVE IInv
    OBVIOUS
  <2>1. plan \in Plans /\ report = NotPlanned
    BY DEF FleetInit
  <2> QED
    BY <2>1, PlanAssumption DEF IInv, PlanOK
<1>2. IInv /\ [FleetNext]_fleetVars => IInv'
  <2> SUFFICES ASSUME IInv, [FleetNext]_fleetVars PROVE IInv'
    OBVIOUS
  <2>1. PlanOK
    BY DEF IInv
  <2>2. CASE FirstCall
    <3>1. plan' = plan /\ report' = RunPlan(plan) /\ changed' = changed
      BY <2>2 DEF FirstCall
    <3> QED
      BY <2>1, <3>1 DEF IInv, PlanOK
  <2>3. ASSUME NEW w \in plan.workloads, DropWorkload(w)
        PROVE  IInv'
    <3> DEFINE given == [plan EXCEPT !.workloads = @ \ {w}]
    <3>1. CallWith(given, "workload")
      BY <2>3 DEF DropWorkload
    <3>2. /\ DOMAIN given = DOMAIN plan
          /\ given.workloads \subseteq plan.workloads /\ given.model = plan.model
          /\ given.deployment = plan.deployment /\ given.topology = plan.topology
      BY <2>1 DEF PlanOK
    <3> QED
      BY <2>1, <3>1, <3>2, CallKeeps
  <2>4. ASSUME NEW gpu \in Gpus, ShrinkInventory(gpu)
        PROVE  IInv'
    <3>1. PICK free : CallWith([plan EXCEPT !.free = [@ EXCEPT ![gpu] = free]], "inventory")
      BY <2>4 DEF ShrinkInventory
    <3> DEFINE given == [plan EXCEPT !.free = [@ EXCEPT ![gpu] = free]]
    <3>2. /\ DOMAIN given = DOMAIN plan
          /\ given.workloads \subseteq plan.workloads /\ given.model = plan.model
          /\ given.deployment = plan.deployment /\ given.topology = plan.topology
      BY <2>1 DEF PlanOK
    <3> QED
      BY <2>1, <3>1, <3>2, CallKeeps
  <2>5. ASSUME NEW field \in DOMAIN WorseCanary, RegressCanary(field)
        PROVE  IInv'
    <3>1. PICK worse : CallWith([plan EXCEPT !.candidate = [@ EXCEPT ![field] = worse]], "canary")
      BY <2>5 DEF RegressCanary
    <3> DEFINE given == [plan EXCEPT !.candidate = [@ EXCEPT ![field] = worse]]
    <3>2. /\ DOMAIN given = DOMAIN plan
          /\ given.workloads \subseteq plan.workloads /\ given.model = plan.model
          /\ given.deployment = plan.deployment /\ given.topology = plan.topology
      BY <2>1 DEF PlanOK
    <3> QED
      BY <2>1, <3>1, <3>2, CallKeeps
  <2>6. ASSUME NEW bound \in OtherBounds, MoveTokenBound(bound)
        PROVE  IInv'
    <3> DEFINE given == [plan EXCEPT !.token_bound = bound]
    <3>1. CallWith(given, "admission")
      BY <2>6 DEF MoveTokenBound
    <3>2. /\ DOMAIN given = DOMAIN plan
          /\ given.workloads \subseteq plan.workloads /\ given.model = plan.model
          /\ given.deployment = plan.deployment /\ given.topology = plan.topology
      BY <2>1 DEF PlanOK
    <3> QED
      BY <2>1, <3>1, <3>2, CallKeeps
  <2>7. CASE PlaceNext \/ UNCHANGED fleetVars
    <3>1. plan' = plan /\ report' = report /\ changed' = changed
      BY <2>7 DEF PlaceNext, fleetVars
    <3> QED
      BY <3>1 DEF IInv, PlanOK
  <2> QED
    BY <2>2, <2>3, <2>4, <2>5, <2>6, <2>7 DEF FleetNext
<1> QED
  BY <1>1, <1>2, PTL DEF FleetSpec

(* The answers of one call. *)
Sizing(given) == PlanCapacity(given.workloads, Benchmark, CapacityRequirements)

Assessment(given) == AssessMemory(given.model, given.deployment)

Layout(given) ==
  PlanParallelism(ShardedModel(given, Assessment(given)), given.topology,
                  Sizing(given).required_replicas)

Shown(given) == Evidence(given, Sizing(given), Assessment(given), Layout(given))

LEMMA PlanReports ==
  ASSUME NEW given, RunPlan(given) # Raises
  PROVE  /\ Accepts(given)
         /\ RunPlan(given).capacity = Sizing(given)
         /\ RunPlan(given).memory = Assessment(given)
         /\ RunPlan(given).parallel = Layout(given)
         /\ RunPlan(given).scaling = ScalingTarget(Sizing(given))
         /\ RunPlan(given).missing = (RequiredWorkloads \cup Controls) \ Shown(given)
         /\ RunPlan(given).release_ready <=>
              Sizing(given).violations = {} /\ RunPlan(given).missing = {}
<1> DEFINE all == RequiredWorkloads \cup Controls
<1>1. Accepts(given)
  BY DEF RunPlan
<1>2. RunPlan(given) =
        [release_ready |-> Sizing(given).violations = {} /\ all \ Shown(given) = {},
         missing |-> all \ Shown(given), capacity |-> Sizing(given),
         memory |-> Assessment(given), parallel |-> Layout(given),
         scaling |-> ScalingTarget(Sizing(given))]
  <2> HIDE DEF all
  <2>1. RequiredEvidence(given) = all
    BY DEF RequiredEvidence, all
  <2> QED
    BY <1>1, <2>1 DEF RunPlan, Sizing, Assessment, Layout, Shown
<1> HIDE DEF all
<1>3. RunPlan(given).missing = all \ Shown(given)
  BY <1>2
<1>4. RunPlan(given).release_ready <=> Sizing(given).violations = {} /\ all \ Shown(given) = {}
  <2> DEFINE none == Sizing(given).violations = {} /\ all \ Shown(given) = {}
             full == [release_ready |-> none, missing |-> all \ Shown(given),
                      capacity |-> Sizing(given), memory |-> Assessment(given),
                      parallel |-> Layout(given), scaling |-> ScalingTarget(Sizing(given))]
  <2>1. full.release_ready <=> none
    BY Zenon
  <2>2. RunPlan(given) = full
    BY <1>2
  <2> HIDE DEF full
  <2> QED
    BY <2>1, <2>2
<1> QED
  BY <1>1, <1>2, <1>3, <1>4 DEF all

(* What a report that did not raise consists of. *)
LEMMA Reports ==
  ASSUME IInv, Reported
  PROVE  /\ Accepts(plan)
         /\ report = RunPlan(plan) /\ RunPlan(plan) # Raises
         /\ report.capacity = Sizing(plan)
         /\ report.memory = Assessment(plan)
         /\ report.parallel = Layout(plan)
<1>1. report = RunPlan(plan) /\ RunPlan(plan) # Raises
  BY DEF IInv, Reported
<1> QED
  BY <1>1, PlanReports

-----------------------------------------------------------------------------
(* What the maximum of the four ceilings is, and how it moves with the mix.  *)

LEMMA SumOfPart ==
  ASSUME NEW all, IsFiniteSet(all), NEW part \in SUBSET all, NEW f, NEW g,
         DOMAIN f = part, DOMAIN g = all,
         \A w \in all : g[w] \in Int, \A w \in part : f[w] = g[w]
  PROVE  /\ SumFunction(f) \in Int
         /\ (\A w \in all : g[w] >= 0) => SumFunction(f) <= SumFunction(g)
<1>1. IsFiniteSet(part)
  BY FS_Subset
<1>2. \A w \in part : f[w] \in Int /\ f[w] <= g[w]
  OBVIOUS
<1>3. SumFunctionOnSet(f, part) \in Int
  BY <1>1, <1>2, SumType
<1>4. ASSUME \A w \in all : g[w] >= 0
      PROVE  SumFunctionOnSet(f, part) <= SumFunctionOnSet(g, all)
  <2>1. \A w \in all : g[w] \in Nat
    BY <1>4
  <2> QED
    BY <1>2, <2>1, SumGrows
<1> QED
  BY <1>3, <1>4 DEF SumFunction

(* Fewer classes of work ask for less. *)
LEMMA RatesGrow ==
  ASSUME NEW given \in Plans, NEW all \in SUBSET given.workloads, NEW part \in SUBSET all
  PROVE  /\ PromptRate(part) \in Int /\ OutputRate(part) \in Int /\ Concurrency(part) \in Int
         /\ CapacityValid(all, Benchmark, CapacityRequirements) =>
              /\ PromptRate(part) <= PromptRate(all)
              /\ OutputRate(part) <= OutputRate(all)
              /\ Concurrency(part) <= Concurrency(all)
<1> DEFINE prompt(S)  == [w \in S |-> w.requests_per_second * w.prompt_tokens * w.burst_multiplier]
           output(S)  == [w \in S |-> w.requests_per_second * w.output_tokens * w.burst_multiplier]
           service(S) == [w \in S |-> w.requests_per_second * w.mean_service_seconds
                                        * w.burst_multiplier]
<1>1. /\ \A S : PromptRate(S) = SumFunction(prompt(S))
      /\ \A S : OutputRate(S) = SumFunction(output(S))
      /\ \A S : Concurrency(S) = SumFunction(service(S))
  BY DEF PromptRate, OutputRate, Concurrency, BurstLoad
<1>2. IsFiniteSet(all)
  BY NumbersAssumption, FS_Subset
<1>3. \A w \in all : /\ w.requests_per_second \in Int /\ w.prompt_tokens \in Int
                     /\ w.output_tokens \in Int /\ w.mean_service_seconds \in Int
                     /\ w.burst_multiplier \in Int
  BY NumbersAssumption
<1>4. \A w \in all : /\ prompt(all)[w] \in Int /\ output(all)[w] \in Int
                     /\ service(all)[w] \in Int
  BY <1>3
<1>5. /\ DOMAIN prompt(all) = all /\ DOMAIN output(all) = all /\ DOMAIN service(all) = all
      /\ DOMAIN prompt(part) = part /\ DOMAIN output(part) = part /\ DOMAIN service(part) = part
      /\ \A w \in part : /\ prompt(part)[w] = prompt(all)[w] /\ output(part)[w] = output(all)[w]
                         /\ service(part)[w] = service(all)[w]
  OBVIOUS
<1>6. ASSUME CapacityValid(all, Benchmark, CapacityRequirements), NEW w \in all
      PROVE  prompt(all)[w] >= 0 /\ output(all)[w] >= 0 /\ service(all)[w] >= 0
  <2> DEFINE r == w.requests_per_second
             b == w.burst_multiplier
             p == w.prompt_tokens
             o == w.output_tokens
             s == w.mean_service_seconds
  <2>1. r \in Nat /\ b \in Nat /\ p \in Nat /\ o \in Nat /\ s \in Nat
    BY <1>3, <1>6 DEF CapacityValid
  <2>2. /\ prompt(all)[w] = r * p * b /\ output(all)[w] = r * o * b
        /\ service(all)[w] = r * s * b
    OBVIOUS
  <2> HIDE DEF r, b, p, o, s, prompt, output, service
  <2>3. r * p * b \in Nat /\ r * o * b \in Nat /\ r * s * b \in Nat
    BY <2>1
  <2> QED
    BY <2>2, <2>3
<1> HIDE DEF prompt, output, service
<1>7. /\ SumFunction(prompt(part)) \in Int
      /\ CapacityValid(all, Benchmark, CapacityRequirements) =>
           SumFunction(prompt(part)) <= SumFunction(prompt(all))
  BY <1>2, <1>4, <1>5, <1>6, SumOfPart
<1>8. /\ SumFunction(output(part)) \in Int
      /\ CapacityValid(all, Benchmark, CapacityRequirements) =>
           SumFunction(output(part)) <= SumFunction(output(all))
  BY <1>2, <1>4, <1>5, <1>6, SumOfPart
<1>9. /\ SumFunction(service(part)) \in Int
      /\ CapacityValid(all, Benchmark, CapacityRequirements) =>
           SumFunction(service(part)) <= SumFunction(service(all))
  BY <1>2, <1>4, <1>5, <1>6, SumOfPart
<1> QED
  BY <1>1, <1>7, <1>8, <1>9

(* That many replicas serve a mix; Serves says it of the mix of the plan.    *)
Enough(workloads, replicas) ==
  LET kept(load, supply) ==
        100 * load <= replicas * supply * (100 - CapacityRequirements.reserved_headroom)
  IN  /\ replicas >= CapacityRequirements.min_replicas
      /\ kept(PromptRate(workloads), Benchmark.prefill_tokens_per_second)
      /\ kept(OutputRate(workloads), Benchmark.output_tokens_per_second)
      /\ kept(Concurrency(workloads), Benchmark.max_concurrent_requests)

Required(workloads) ==
  PlanCapacity(workloads, Benchmark, CapacityRequirements).required_replicas

LEMMA RequiredIsLeast ==
  ASSUME NEW given \in Plans, NEW part \in SUBSET given.workloads,
         CapacityValid(part, Benchmark, CapacityRequirements)
  PROVE  /\ Required(part) \in Int
         /\ \A r \in Int : Enough(part, r) <=> Required(part) <= r
<1> DEFINE dim == Dimensions(part, Benchmark, CapacityRequirements)
           n   == Required(part)
           u   == 100 - CapacityRequirements.reserved_headroom
           p   == PromptRate(part)
           o   == OutputRate(part)
           c   == Concurrency(part)
           min == CapacityRequirements.min_replicas
           ps  == Benchmark.prefill_tokens_per_second
           os  == Benchmark.output_tokens_per_second
           cs  == Benchmark.max_concurrent_requests
<1>1. /\ p \in Int /\ o \in Int /\ c \in Int /\ min \in Int
      /\ ps \in Int /\ os \in Int /\ cs \in Int
  BY NumbersAssumption, RatesGrow
<1>2. ps > 0 /\ os > 0 /\ cs > 0 /\ u \in 1..100
  BY DEF CapacityValid
<1>3. /\ dim.floor = [load |-> min, supply |-> 1]
      /\ dim.prefill = [load |-> 100 * p, supply |-> ps * u]
      /\ dim.decode = [load |-> 100 * o, supply |-> os * u]
      /\ dim.concurrency = [load |-> 100 * c, supply |-> cs * u]
      /\ DOMAIN dim = {"floor", "prefill", "decode", "concurrency"}
  BY DEF Dimensions, Usable
<1>4. n = Max({Ceil(dim[name]) : name \in DOMAIN dim})
  <2> HIDE DEF dim
  <2> QED
    BY DEF Required, PlanCapacity, dim
<1> HIDE DEF dim, n, u, p, o, c, min, ps, os, cs
<1>5. \A name \in DOMAIN dim :
        /\ Ceil(dim[name]) \in Int
        /\ \A r \in Int : dim[name].load <= r * dim[name].supply <=> Ceil(dim[name]) <= r
  <2>1. ps * u > 0 /\ os * u > 0 /\ cs * u > 0 /\ ps * u \in Int /\ os * u \in Int /\ cs * u \in Int
    BY <1>1, <1>2
  <2>2. \A name \in DOMAIN dim :
          dim[name].load \in Int /\ dim[name].supply \in Int /\ dim[name].supply > 0
    BY <1>1, <1>3, <2>1
  <2> QED
    BY <2>2, CeilIsLeast
<1> DEFINE asked == {Ceil(dim[name]) : name \in DOMAIN dim}
<1>6. asked = {Ceil(dim.floor), Ceil(dim.prefill), Ceil(dim.decode), Ceil(dim.concurrency)}
  BY <1>3
<1>7. n \in asked /\ \A m \in asked : m <= n
  <2>1. asked \in SUBSET Int /\ asked # {}
    BY <1>3, <1>5
  <2>2. PICK high \in Int : \A m \in asked : m <= high
    <3> DEFINE larger(a, b) == IF a >= b THEN a ELSE b
               high == larger(larger(Ceil(dim.floor), Ceil(dim.prefill)),
                              larger(Ceil(dim.decode), Ceil(dim.concurrency)))
    <3>1. high \in Int /\ \A m \in asked : m <= high
      BY <1>3, <1>5, <1>6
    <3> QED
      BY <3>1
  <2> HIDE DEF asked
  <2>3. Max(asked) \in asked /\ \A m \in asked : m <= Max(asked)
    BY <2>1, <2>2, MaxExists
  <2> QED
    BY <1>4, <2>3 DEF asked
<1>8. n \in Int
  BY <1>3, <1>5, <1>7
<1>9. ASSUME NEW r \in Int
      PROVE  Enough(part, r) <=> \A name \in DOMAIN dim : Ceil(dim[name]) <= r
  <2>1. Enough(part, r) <=> /\ r >= min /\ 100 * p <= r * ps * u
                      /\ 100 * o <= r * os * u /\ 100 * c <= r * cs * u
    BY DEF Enough, min, p, o, c, ps, os, cs, u
  <2>2. /\ r * ps * u = r * (ps * u) /\ r * os * u = r * (os * u)
        /\ r * cs * u = r * (cs * u) /\ (r >= min <=> min <= r * 1)
    BY <1>1, <1>2
  <2>3. Enough(part, r) <=> \A name \in DOMAIN dim : dim[name].load <= r * dim[name].supply
    BY <1>3, <2>1, <2>2
  <2> QED
    BY <1>5, <2>3
<1>10. ASSUME NEW r \in Int
       PROVE  Enough(part, r) <=> n <= r
  <2>1. (\A name \in DOMAIN dim : Ceil(dim[name]) <= r) <=> n <= r
    <3>1. \A name \in DOMAIN dim : Ceil(dim[name]) <= n
      BY <1>7
    <3>2. PICK name \in DOMAIN dim : Ceil(dim[name]) = n
      BY <1>7
    <3> QED
      BY <1>5, <1>8, <3>1, <3>2
  <2> QED
    BY <1>9, <2>1
<1> QED
  BY <1>8, <1>10 DEF n

(* A part of a mix needs no larger fleet than the whole mix. *)
LEMMA RequiredGrows ==
  ASSUME NEW given \in Plans, NEW all \in SUBSET given.workloads, NEW part \in SUBSET all,
         CapacityValid(all, Benchmark, CapacityRequirements),
         CapacityValid(part, Benchmark, CapacityRequirements)
  PROVE  /\ Required(part) \in Int /\ Required(all) \in Int
         /\ Required(part) <= Required(all)
<1> DEFINE n == Required(all)
<1>1. n \in Int /\ Enough(all, n)
  BY RequiredIsLeast
<1>2. /\ PromptRate(part) \in Int /\ OutputRate(part) \in Int /\ Concurrency(part) \in Int
      /\ PromptRate(part) <= PromptRate(all) /\ OutputRate(part) <= OutputRate(all)
      /\ Concurrency(part) <= Concurrency(all)
  BY RatesGrow
<1>3. PromptRate(all) \in Int /\ OutputRate(all) \in Int /\ Concurrency(all) \in Int
  BY RatesGrow
<1>4. Enough(part, n)
  <2> DEFINE u  == 100 - CapacityRequirements.reserved_headroom
             ps == n * Benchmark.prefill_tokens_per_second * u
             os == n * Benchmark.output_tokens_per_second * u
             cs == n * Benchmark.max_concurrent_requests * u
  <2>1. ps \in Int /\ os \in Int /\ cs \in Int
    <3>1. /\ Benchmark.prefill_tokens_per_second \in Int
          /\ Benchmark.output_tokens_per_second \in Int
          /\ Benchmark.max_concurrent_requests \in Int
      BY NumbersAssumption
    <3>2. u \in Int
      BY DEF CapacityValid
    <3> QED
      BY <1>1, <3>1, <3>2
  <2>2. /\ n >= CapacityRequirements.min_replicas
        /\ 100 * PromptRate(all) <= ps /\ 100 * OutputRate(all) <= os
        /\ 100 * Concurrency(all) <= cs
    BY <1>1 DEF Enough
  <2> HIDE DEF ps, os, cs
  <2>3. 100 * PromptRate(part) <= ps /\ 100 * OutputRate(part) <= os
        /\ 100 * Concurrency(part) <= cs
    BY <1>2, <1>3, <2>1, <2>2
  <2> QED
    BY <2>2, <2>3 DEF Enough, ps, os, cs
<1> HIDE DEF n
<1>5. Required(part) \in Int /\ Required(part) <= n
  BY <1>1, <1>4, RequiredIsLeast
<1> QED
  BY <1>1, <1>5 DEF n

LEMMA SizingIsLeast ==
  ASSUME IInv, Reported
  PROVE  /\ report.capacity.required_replicas \in Int
         /\ Serves(report.capacity.required_replicas)
         /\ ~Serves(report.capacity.required_replicas - 1)
<1> DEFINE n == Required(plan.workloads)
<1>1. report.capacity.required_replicas = n
  BY Reports DEF Required, Sizing
<1>2. PICK given \in Plans : plan.workloads \in SUBSET given.workloads
  BY DEF IInv, PlanOK
<1>3. CapacityValid(plan.workloads, Benchmark, CapacityRequirements)
  BY Reports DEF Accepts
<1>4. \A r : Serves(r) <=> Enough(plan.workloads, r)
  BY DEF Serves, Enough
<1>5. n \in Int /\ \A r \in Int : Enough(plan.workloads, r) <=> n <= r
  BY <1>2, <1>3, RequiredIsLeast
<1> HIDE DEF n
<1>6. n - 1 \in Int /\ n <= n /\ ~(n <= n - 1)
  BY <1>5
<1> QED
  BY <1>1, <1>4, <1>5, <1>6

(* The planned fleet is the smallest one that serves every burst with the    *)
(* headroom kept, whatever the ceiling and the budget are.                   *)
THEOREM FleetIsSmallest == FleetSpec => []SmallestSufficientFleet
<1>1. IInv => SmallestSufficientFleet
  BY SizingIsLeast DEF SmallestSufficientFleet
<1> QED
  BY <1>1, Invariance, PTL

Clamped(x) ==
  IF x > ScalingBounds.max THEN ScalingBounds.max
  ELSE IF x < ScalingBounds.min THEN ScalingBounds.min ELSE x

(* The target of the one observation, without minimum and maximum. *)
LEMMA ScalingTargetIs ==
  ASSUME NEW capacity, capacity.required_replicas \in Int,
         capacity.output_tokens_per_second \in Int
  PROVE  LET n      == capacity.required_replicas
             demand == Clamped((capacity.output_tokens_per_second + ScalingUsableRate - 1)
                                 \div ScalingUsableRate)
         IN  ScalingTarget(capacity) = Clamped(IF demand >= n THEN demand ELSE n)
<1> DEFINE low    == ScalingBounds.min
           top    == ScalingBounds.max
           n      == capacity.required_replicas
           c      == (capacity.output_tokens_per_second + ScalingUsableRate - 1)
                       \div ScalingUsableRate
           sample == [arrival |-> capacity.output_tokens_per_second, queued |-> 0]
<1>1. low \in Int /\ top \in Int /\ low <= top /\ n \in Int
  BY PolicyAssumption
<1>2. c \in Int
  BY PolicyAssumption, QuotientIsLargest
<1>3. ASSUME NEW x \in Int
      PROVE  Scaling!Clamp(x) = Clamped(x) /\ Clamped(x) \in Int
  <2> HIDE DEF top, low
  <2>1. Max({low, x}) = IF low >= x THEN low ELSE x
    BY <1>1, MaxOfTwo
  <2>2. Max({low, x}) \in Int
    BY <1>1, <2>1
  <2>3. Min({top, Max({low, x})}) = IF top <= Max({low, x}) THEN top ELSE Max({low, x})
    BY <1>1, <2>2, MinOfTwo
  <2>4. Scaling!Clamp(x) = Min({top, Max({low, x})})
    BY Zenon DEF Scaling!Clamp, Scaling!Min, Scaling!Max, Min, Max, top, low
  <2>5. Clamped(x) = IF x > top THEN top ELSE IF x < low THEN low ELSE x
    BY DEF Clamped, top, low
  <2> QED
    BY <1>1, <2>1, <2>3, <2>4, <2>5
<1>4. Scaling!Demand(sample) = Clamped(c)
  <2>1. Scaling!CeilDiv(sample.queued, 1) = 0
    <3>1. (0 + 1 - 1) \div 1 = 0
      OBVIOUS
    <3> QED
      BY <3>1 DEF Scaling!CeilDiv
  <2>2. Scaling!CeilDiv(sample.arrival, ScalingUsableRate) = c
    BY DEF Scaling!CeilDiv
  <2>3. Scaling!Demand(sample) =
          Scaling!Clamp(Scaling!CeilDiv(sample.arrival, ScalingUsableRate)
                          + Scaling!CeilDiv(sample.queued, 1))
    BY DEF Scaling!Demand
  <2> HIDE DEF sample, c
  <2>4. c + 0 = c
    BY <1>2
  <2> QED
    BY <1>2, <1>3, <2>1, <2>2, <2>3, <2>4
<1>5. ScalingTarget(capacity) = Scaling!Clamp(Max({Scaling!Demand(sample), n}))
  BY DEF ScalingTarget
<1> HIDE DEF sample, c, n, low, top
<1>6. Max({Clamped(c), n}) = IF Clamped(c) >= n THEN Clamped(c) ELSE n
  BY <1>1, <1>2, <1>3, MaxOfTwo
<1>7. Max({Clamped(c), n}) \in Int
  BY <1>1, <1>2, <1>3, <1>6
<1>8. ScalingTarget(capacity) = Clamped(IF Clamped(c) >= n THEN Clamped(c) ELSE n)
  BY <1>3, <1>4, <1>5, <1>6, <1>7
<1> QED
  BY <1>8 DEF c, n

(* The scaling policy counts on no more of a replica than capacity planning  *)
(* does, and its bounds leave room for every fleet that is released.         *)
PoliciesMatch ==
  /\ ScalingBounds.min <= CapacityRequirements.min_replicas
  /\ CapacityRequirements.max_replicas <= ScalingBounds.max
  /\ Benchmark.output_tokens_per_second * (100 - CapacityRequirements.reserved_headroom)
       <= 100 * ScalingUsableRate

(* A fleet is released when it keeps the ceiling and the budget. *)
LEMMA ViolationsAre ==
  ASSUME NEW workloads
  PROVE  LET capacity == PlanCapacity(workloads, Benchmark, CapacityRequirements)
         IN  /\ capacity.release_ready <=> capacity.violations = {}
             /\ capacity.violations = {} <=>
                  /\ Required(workloads) <= CapacityRequirements.max_replicas
                  /\ Required(workloads) * Benchmark.hourly_cost
                       <= CapacityRequirements.max_hourly_cost
             /\ capacity.required_replicas = Required(workloads)
             /\ capacity.output_tokens_per_second = OutputRate(workloads)
<1> DEFINE capacity == PlanCapacity(workloads, Benchmark, CapacityRequirements)
           n        == Required(workloads)
           within   == [ceiling |-> n <= CapacityRequirements.max_replicas,
                        budget  |-> n * Benchmark.hourly_cost
                                      <= CapacityRequirements.max_hourly_cost]
<1>1. /\ capacity.required_replicas = n
      /\ capacity.output_tokens_per_second = OutputRate(workloads)
  BY DEF Required, PlanCapacity
<1>2. capacity.violations = {rule \in DOMAIN within : ~within[rule]}
  BY DEF Required, PlanCapacity
<1>3. DOMAIN within = {"ceiling", "budget"}
  OBVIOUS
<1>4. /\ within["ceiling"] <=> n <= CapacityRequirements.max_replicas
      /\ within["budget"] <=> n * Benchmark.hourly_cost <= CapacityRequirements.max_hourly_cost
  BY Zenon
<1>5. capacity.release_ready <=> capacity.violations = {}
  BY Zenon DEF PlanCapacity
<1> HIDE DEF within, capacity, n
<1>6. capacity.violations = {} <=> within["ceiling"] /\ within["budget"]
  BY <1>2, <1>3
<1> QED
  BY <1>1, <1>4, <1>5, <1>6, Zenon DEF capacity, n

(* Two sizings that share no code agree on every plan that is ready: the     *)
(* autoscaler, asked about the planned demand, keeps the planned fleet.      *)
THEOREM SizingsAgree ==
  ASSUME PoliciesMatch
  PROVE  FleetSpec => []ScalingAgreesWithPlan
<1>1. IInv => ScalingAgreesWithPlan
  <2> SUFFICES ASSUME IInv, Ready
               PROVE  report.scaling = report.capacity.required_replicas
    BY DEF ScalingAgreesWithPlan
  <2> DEFINE n   == Required(plan.workloads)
             low == ScalingBounds.min
             top == ScalingBounds.max
             U   == ScalingUsableRate
             o   == OutputRate(plan.workloads)
             k   == Benchmark.output_tokens_per_second * (100 - CapacityRequirements.reserved_headroom)
             c   == (o + U - 1) \div U
  <2>1. /\ report.release_ready /\ report = RunPlan(plan) /\ RunPlan(plan) # Raises
        /\ Accepts(plan) /\ report.capacity = Sizing(plan)
        /\ report.scaling = ScalingTarget(Sizing(plan))
    BY Reports, PlanReports DEF Ready
  <2>2. /\ Sizing(plan).required_replicas = n
        /\ Sizing(plan).output_tokens_per_second = o
        /\ n <= CapacityRequirements.max_replicas
    <3>1. Sizing(plan).violations = {}
      BY <2>1, PlanReports
    <3> QED
      BY <3>1, ViolationsAre DEF Sizing
  <2>3. /\ CapacityRequirements.min_replicas \in Int /\ CapacityRequirements.min_replicas > 0
        /\ Benchmark.output_tokens_per_second \in Int
        /\ CapacityRequirements.reserved_headroom \in 0..99
        /\ top \in Int /\ low \in Int /\ low <= top
        /\ U \in Int /\ U > 0 /\ CapacityRequirements.max_replicas \in Int
    BY <2>1, NumbersAssumption, PolicyAssumption, PlanAssumption
       DEF Accepts, CapacityValid
  <2>4. o \in Int
    <3>1. PICK given \in Plans : plan.workloads \in SUBSET given.workloads
      BY DEF IInv, PlanOK
    <3> QED
      BY <3>1, RatesGrow
  <2>5. /\ n \in Int /\ n >= CapacityRequirements.min_replicas
        /\ 100 * o <= n * Benchmark.output_tokens_per_second
                        * (100 - CapacityRequirements.reserved_headroom)
    BY <2>1, <2>2, SizingIsLeast DEF Ready, Serves
  <2>6. low <= n /\ n <= top /\ k <= 100 * U /\ k \in Int
    BY <2>2, <2>3, <2>5 DEF PoliciesMatch
  <2>7. 100 * o <= n * k
    BY <2>3, <2>5
  <2> HIDE DEF n, U, o, k
  <2>8. c \in Int /\ c <= n
    <3>1. n * k <= n * (100 * U)
      <4>1. n > 0 /\ n \in Int /\ k \in Int /\ U \in Int
        BY <2>3, <2>5, <2>6
      <4> QED
        BY <2>6, <4>1
    <3>2. o <= n * U
      <4>1. n * (100 * U) = 100 * (n * U) /\ n * U \in Int /\ n * k \in Int
        BY <2>3, <2>5, <2>6
      <4> QED
        BY <2>4, <2>7, <3>1, <4>1
    <3>3. c \in Int /\ \A m \in Int : U * m <= o + U - 1 <=> m <= c
      BY <2>3, <2>4, QuotientIsLargest
    <3>4. ~(U * (n + 1) <= o + U - 1)
      <4>1. U * (n + 1) = n * U + U /\ n * U \in Int
        BY <2>3, <2>5
      <4> QED
        BY <2>3, <2>4, <3>2, <4>1
    <3>5. ~(n + 1 <= c)
      BY <2>5, <3>3, <3>4
    <3> QED
      BY <2>5, <3>3, <3>5
  <2>9. ScalingTarget(Sizing(plan)) = Clamped(IF Clamped(c) >= n THEN Clamped(c) ELSE n)
    <3> HIDE DEF c
    <3>1. Sizing(plan).required_replicas \in Int /\ Sizing(plan).output_tokens_per_second \in Int
      BY <2>2, <2>4, <2>5
    <3>2. (Sizing(plan).output_tokens_per_second + ScalingUsableRate - 1) \div ScalingUsableRate = c
      BY <2>2 DEF c, U
    <3> QED
      BY <2>2, <3>1, <3>2, ScalingTargetIs
  <2> HIDE DEF c
  <2>10. Clamped(c) <= n /\ Clamped(c) \in Int /\ Clamped(n) = n
    BY <2>3, <2>5, <2>6, <2>8 DEF Clamped
  <2>11. (IF Clamped(c) >= n THEN Clamped(c) ELSE n) = n
    BY <2>5, <2>10
  <2> QED
    BY <2>1, <2>2, <2>9, <2>10, <2>11
<1> QED
  BY <1>1, Invariance, PTL

-----------------------------------------------------------------------------
(* The two answers of one memory assessment agree, at the boundary too: the  *)
(* quotient of max_concurrency and the sum of fits draw the same line.       *)
THEOREM FitAndConcurrencyAgree == FleetSpec => []FitMeansConcurrency
<1>1. IInv => FitMeansConcurrency
  <2> SUFFICES ASSUME IInv, Reported
               PROVE  report.memory.fits <=>
                        plan.deployment.target_concurrency <= report.memory.max_concurrency
    BY DEF FitMeansConcurrency
  <2> DEFINE usable == plan.deployment.usable_gib
             fixed  == Fixed(plan.model, plan.deployment)
             kv     == KvPerRequest(plan.deployment)
             target == plan.deployment.target_concurrency
             room   == AvailableForKv(plan.model, plan.deployment)
  <2>1. /\ report.memory.fits <=> fixed + kv * target <= usable
        /\ report.memory.max_concurrency = room \div kv
    <3> HIDE DEF fixed, kv, target, usable, room
    <3>1. AssessMemory(plan.model, plan.deployment).max_concurrency = room \div kv
      BY DEF AssessMemory, room, kv
    <3>2. AssessMemory(plan.model, plan.deployment).fits <=> fixed + kv * target <= usable
      BY Zenon DEF AssessMemory, fixed, kv, target, usable
    <3> QED
      BY <3>1, <3>2, Reports DEF Assessment
  <2>2. /\ usable \in Int /\ target \in Int /\ target > 0
        /\ plan.model.weight_gib \in Int
        /\ plan.deployment.tensor_parallel_size \in Int /\ plan.deployment.tensor_parallel_size > 0
        /\ plan.deployment.runtime_overhead_gib \in Int
        /\ plan.deployment.kv_gib_per_request \in Int /\ plan.deployment.kv_gib_per_request > 0
        /\ plan.deployment.kv_shards \in Int /\ plan.deployment.kv_shards > 0
        /\ plan.deployment.kv_gib_per_request % plan.deployment.kv_shards = 0
    BY Reports, NumbersAssumption DEF Accepts, MemoryValid, IInv, PlanOK
  <2>3. fixed \in Int
    BY <2>2, QuotientIsLargest DEF Fixed, WeightPerGpu
  <2>4. kv \in Int /\ kv > 0
    <3> DEFINE a == plan.deployment.kv_gib_per_request
               b == plan.deployment.kv_shards
    <3>1. kv = a \div b /\ a \in Int /\ b \in Int /\ a > 0 /\ b > 0 /\ a % b = 0
      BY <2>2 DEF KvPerRequest
    <3> HIDE DEF a, b, kv
    <3>2. kv \in Int /\ a = b * kv
      BY <3>1
    <3>3. kv <= 0 => b * kv <= 0
      BY <3>1, <3>2
    <3> QED
      BY <3>1, <3>2, <3>3
  <2>5. room = IF 0 >= usable - fixed THEN 0 ELSE usable - fixed
    <3> HIDE DEF usable, fixed
    <3>1. room = Max({0, usable - fixed})
      BY DEF AvailableForKv, usable, fixed
    <3> QED
      BY <2>2, <2>3, <3>1, MaxOfTwo
  <2> HIDE DEF usable, fixed, kv, target, room
  <2>6. kv * target <= room <=> target <= room \div kv
    BY <2>2, <2>3, <2>4, <2>5, QuotientIsLargest
  <2>7. kv * target \in Int /\ kv * target > 0
    BY <2>2, <2>4
  <2>8. fixed + kv * target <= usable <=> kv * target <= room
    BY <2>2, <2>3, <2>5, <2>7
  <2> QED
    BY <2>1, <2>6, <2>8 DEF target
<1> QED
  BY <1>1, Invariance, PTL

(* Of the layouts that fit, one is preferred to every other one: min() has   *)
(* a single answer (line 93).                                                *)
LEMMA BestLayoutExists ==
  ASSUME NEW topology, NEW layouts \in SUBSET ((Nat \ {0}) \X (Nat \ {0})), layouts # {}
  PROVE  \E a \in layouts : \A b \in layouts \ {a} : Preferred(topology, a, b)
<1> DEFINE size(l)  == l[1] * l[2]
           axis(l)  == IF topology.fast_intra_node_collectives THEN l[2] ELSE l[1]
           sizes    == {size(l) : l \in layouts}
           m        == Min(sizes)
           smallest == {l \in layouts : size(l) = m}
           axes     == {axis(l) : l \in smallest}
           k        == Min(axes)
<1>1. \A l \in layouts : /\ l[1] \in Nat /\ l[2] \in Nat /\ l[1] > 0 /\ l[2] > 0
                         /\ size(l) \in Nat /\ axis(l) \in Nat /\ l = <<l[1], l[2]>>
  OBVIOUS
<1>2. m \in sizes /\ \A x \in sizes : m <= x
  <2>1. sizes \in SUBSET Nat /\ sizes # {}
    BY <1>1
  <2> HIDE DEF sizes
  <2> QED
    BY <2>1, MinExists
<1>3. k \in axes /\ \A x \in axes : k <= x
  <2>1. axes \in SUBSET Nat
    BY <1>1
  <2>2. axes # {}
    <3>1. PICK l \in layouts : m = size(l)
      BY <1>2
    <3> QED
      BY <3>1
  <2> HIDE DEF axes
  <2> QED
    BY <2>1, <2>2, MinExists
<1>4. PICK a \in smallest : axis(a) = k
  BY <1>3
<1>5. a \in layouts /\ size(a) = m
  BY <1>4
<1>6. ASSUME NEW b \in layouts \ {a}
      PROVE  Preferred(topology, a, b)
  <2>1. m <= size(b)
    BY <1>2
  <2>2. size(b) = m => k <= axis(b)
    BY <1>3
  <2> HIDE DEF m, k
  <2>3. /\ a[1] \in Nat /\ a[2] \in Nat /\ a[1] > 0 /\ a[2] > 0 /\ a = <<a[1], a[2]>>
        /\ b[1] \in Nat /\ b[2] \in Nat /\ b[1] > 0 /\ b[2] > 0 /\ b = <<b[1], b[2]>>
    BY <1>1, <1>5
  <2>4. CASE size(a) < size(b)
    BY <2>4 DEF Preferred
  <2>5. CASE size(a) = size(b)
    <3>1. axis(a) <= axis(b)
      BY <1>4, <1>5, <2>2, <2>5
    <3>2. axis(a) # axis(b)
      <4>1. a[2] = b[2] => a[1] = b[1]
        BY <2>3, <2>5
      <4>2. a[1] = b[1] => a[2] = b[2]
        BY <2>3, <2>5
      <4> QED
        BY <2>3, <4>1, <4>2
    <3>3. axis(a) < axis(b)
      BY <2>3, <3>1, <3>2
    <3> QED
      BY <2>5, <3>3 DEF Preferred
  <2> QED
    BY <1>1, <1>5, <2>1, <2>4, <2>5
<1> QED
  BY <1>5, <1>6

(* A chosen layout fits the devices it was planned for. *)
LEMMA ChosenLayoutFits ==
  ASSUME NEW model, NEW topology, NEW target,
         topology.gpus_per_node \in Int, topology.nodes \in Int,
         PlanParallelism(model, topology, target).feasible
  PROVE  LET chosen == PlanParallelism(model, topology, target)
             tp     == chosen.tensor_parallel
             pp     == chosen.pipeline_parallel
         IN  /\ tp \in Nat \ {0} /\ pp \in Nat \ {0}
             /\ LayoutFits(model, topology, tp, pp)
             /\ tp \in TensorWidths(topology)
             /\ chosen.data_parallel = Min({target, TotalGpus(topology) \div (tp * pp)})
             /\ chosen.memory_gib_per_gpu = model.weight_memory_gib \div (tp * pp)
                                              + model.runtime_memory_gib_per_gpu
<1> DEFINE layouts == Layouts(model, topology)
           best    == CHOOSE a \in layouts : \A b \in layouts \ {a} : Preferred(topology, a, b)
           chosen  == PlanParallelism(model, topology, target)
<1>1. TotalGpus(topology) \in Int
  BY DEF TotalGpus
<1>2. layouts \in SUBSET ((Nat \ {0}) \X (Nat \ {0}))
  BY <1>1 DEF Layouts, TensorWidths
<1>3. layouts # {}
  BY DEF PlanParallelism, NoLayout
<1>4. best \in layouts
  <2> HIDE DEF layouts
  <2>1. \E a \in layouts : \A b \in layouts \ {a} : Preferred(topology, a, b)
    BY <1>2, <1>3, BestLayoutExists
  <2> QED
    BY <2>1
<1>5. LayoutFits(model, topology, best[1], best[2]) /\ best[1] \in TensorWidths(topology)
  BY <1>4 DEF Layouts
<1>6. /\ chosen.tensor_parallel = best[1] /\ chosen.pipeline_parallel = best[2]
      /\ chosen.memory_gib_per_gpu = model.weight_memory_gib \div (best[1] * best[2])
                                       + model.runtime_memory_gib_per_gpu
      /\ chosen.data_parallel = Min({target, TotalGpus(topology) \div (best[1] * best[2])})
  <2> HIDE DEF best
  <2> QED
    BY <1>3 DEF PlanParallelism, best
<1>7. best[1] \in Nat \ {0} /\ best[2] \in Nat \ {0}
  BY <1>2, <1>4
<1> HIDE DEF best, layouts
<1> QED
  BY <1>5, <1>6, <1>7

(* What is placed is one device of the assessment and of the layout: the two *)
(* agree on what it needs, and both say it fits.                             *)
LEMMA RequestFits ==
  ASSUME IInv, Reported, LayoutMatchesMemoryPlan(plan, report.parallel)
  PROVE  /\ report.memory.fits
         /\ report.memory.required_gib_per_gpu = report.parallel.memory_gib_per_gpu
         /\ report.memory.required_gib_per_gpu <= plan.topology.usable_gib
         /\ report.memory.required_gib_per_gpu \in Int
<1> DEFINE model    == ShardedModel(plan, report.memory)
           tp       == report.parallel.tensor_parallel
           pp       == report.parallel.pipeline_parallel
           weight   == plan.model.weight_gib
           overhead == plan.deployment.runtime_overhead_gib
           kv       == report.memory.kv_gib_per_gpu
           g        == plan.deployment.tensor_parallel_size
           declared == plan.deployment.usable_gib
           usable   == plan.topology.usable_gib
<1>1. /\ report.parallel = PlanParallelism(model, plan.topology, report.capacity.required_replicas)
      /\ report.parallel.feasible /\ tp * pp = g
  BY Reports DEF LayoutMatchesMemoryPlan, GpusPerReplica, Layout
<1>2. /\ plan.topology.gpus_per_node \in Int /\ plan.topology.nodes \in Int
      /\ usable \in Int /\ declared \in Int /\ usable <= declared
      /\ weight \in Int /\ overhead \in Int /\ g \in Int /\ g > 0
      /\ plan.deployment.kv_gib_per_request \in Int
      /\ plan.deployment.kv_shards \in Int /\ plan.deployment.kv_shards > 0
      /\ plan.deployment.target_concurrency \in Int
  BY Reports, NumbersAssumption DEF Accepts, MemoryValid, IInv, PlanOK
<1>3. /\ model.weight_memory_gib = weight
      /\ model.runtime_memory_gib_per_gpu = overhead + kv
  BY DEF ShardedModel, RuntimeMemory
<1>4. /\ tp \in Nat \ {0} /\ pp \in Nat \ {0}
      /\ LayoutFits(model, plan.topology, tp, pp)
      /\ report.parallel.memory_gib_per_gpu = model.weight_memory_gib \div (tp * pp)
                                                + model.runtime_memory_gib_per_gpu
  <2> DEFINE chosen == PlanParallelism(model, plan.topology, report.capacity.required_replicas)
  <2> HIDE DEF model
  <2>1. chosen.feasible
    BY <1>1
  <2>2. /\ chosen.tensor_parallel \in Nat \ {0} /\ chosen.pipeline_parallel \in Nat \ {0}
        /\ LayoutFits(model, plan.topology, chosen.tensor_parallel, chosen.pipeline_parallel)
        /\ chosen.memory_gib_per_gpu =
             model.weight_memory_gib \div (chosen.tensor_parallel * chosen.pipeline_parallel)
               + model.runtime_memory_gib_per_gpu
    BY <1>2, <2>1, ChosenLayoutFits
  <2> QED
    BY <1>1, <2>2
<1>5. kv \in Int
  <2>1. kv = KvPerRequest(plan.deployment) * plan.deployment.target_concurrency
    BY Reports DEF AssessMemory, Assessment
  <2>2. KvPerRequest(plan.deployment) \in Int
    BY <1>2, QuotientIsLargest DEF KvPerRequest
  <2> QED
    BY <1>2, <2>1, <2>2
<1>6. /\ report.memory.required_gib_per_gpu = weight \div g + overhead + kv
      /\ report.memory.fits <=> weight \div g + overhead + kv <= declared
  <2>1. /\ AssessMemory(plan.model, plan.deployment).required_gib_per_gpu
             = weight \div g + overhead + AssessMemory(plan.model, plan.deployment).kv_gib_per_gpu
    BY DEF AssessMemory, Fixed, WeightPerGpu
  <2>2. AssessMemory(plan.model, plan.deployment).fits <=>
          AssessMemory(plan.model, plan.deployment).required_gib_per_gpu <= declared
    BY DEF AssessMemory
  <2> QED
    BY <2>1, <2>2, Reports DEF Assessment
<1>7. weight + (overhead + kv) * tp * pp <= usable * tp * pp
  BY <1>3, <1>4 DEF LayoutFits
<1>8. report.parallel.memory_gib_per_gpu = weight \div g + (overhead + kv)
  BY <1>1, <1>3, <1>4
<1> HIDE DEF model, tp, pp, weight, overhead, kv, g, declared, usable
<1>9. weight <= (usable - (overhead + kv)) * g
  <2>1. (overhead + kv) * tp * pp = (overhead + kv) * g /\ usable * tp * pp = usable * g
    <3>1. (overhead + kv) * tp * pp = (overhead + kv) * (tp * pp)
      BY <1>2, <1>4, <1>5
    <3>2. usable * tp * pp = usable * (tp * pp)
      BY <1>2, <1>4
    <3> QED
      BY <1>1, <3>1, <3>2
  <2>2. (usable - (overhead + kv)) * g = usable * g - (overhead + kv) * g
    BY <1>2, <1>5
  <2>3. usable * g \in Int /\ (overhead + kv) * g \in Int
    BY <1>2, <1>5
  <2> QED
    BY <1>2, <1>7, <2>1, <2>2, <2>3
<1>10. weight \div g <= usable - (overhead + kv) /\ weight \div g \in Int
  <2> DEFINE q == weight \div g
             c == usable - (overhead + kv)
  <2>1. q \in Int /\ c \in Int /\ \A n \in Int : g * n <= weight <=> n <= q
    BY <1>2, <1>5, QuotientIsLargest
  <2>2. g * q <= weight /\ weight <= c * g
    BY <1>9, <2>1
  <2> HIDE DEF q, c
  <2>3. c < q => c * g < g * q
    BY <1>2, <2>1
  <2>4. c * g \in Int /\ g * q \in Int
    BY <1>2, <2>1
  <2>5. q <= c
    BY <1>2, <2>1, <2>2, <2>3, <2>4
  <2> QED
    BY <2>1, <2>5 DEF q, c
<1> DEFINE part == weight \div g
<1>11. part + overhead + kv = part + (overhead + kv) /\ part + overhead + kv \in Int
  BY <1>2, <1>5, <1>10
<1>12. part + overhead + kv <= usable
  BY <1>2, <1>5, <1>10
<1> HIDE DEF part
<1>13. /\ report.memory.required_gib_per_gpu = part + overhead + kv
       /\ report.memory.fits <=> part + overhead + kv <= declared
       /\ report.parallel.memory_gib_per_gpu = part + (overhead + kv)
  BY <1>6, <1>8 DEF part
<1>14. report.memory.fits
  BY <1>2, <1>11, <1>12, <1>13
<1> QED
  BY <1>11, <1>12, <1>13, <1>14 DEF usable

(* A replica the placement is asked for is one the memory assessment and the *)
(* layout agree about: it fits, and its reservation is the layout's.         *)
THEOREM PlacementAsksForWhatFits == FleetSpec => []PlacedWhatFits
<1>1. IInv => PlacedWhatFits
  BY RequestFits DEF PlacedWhatFits
<1> QED
  BY <1>1, Invariance, PTL

(* What a device needs is a positive amount. *)
LEMMA RequiredMemoryType ==
  ASSUME NEW given, NEW p \in Plans, given.model = p.model, given.deployment = p.deployment,
         MemoryValid(given.model, given.deployment)
  PROVE  /\ Assessment(given).required_gib_per_gpu \in Int
         /\ Assessment(given).required_gib_per_gpu > 0
<1> DEFINE fixed  == Fixed(p.model, p.deployment)
           kv     == KvPerRequest(p.deployment)
           target == p.deployment.target_concurrency
           a      == p.deployment.kv_gib_per_request
           b      == p.deployment.kv_shards
           weight == p.model.weight_gib
           g      == p.deployment.tensor_parallel_size
           over   == p.deployment.runtime_overhead_gib
<1>1. Assessment(given).required_gib_per_gpu = fixed + kv * target
  BY DEF Assessment, AssessMemory
<1>2. /\ target \in Int /\ target > 0 /\ a \in Int /\ a > 0 /\ b \in Int /\ b > 0 /\ a % b = 0
      /\ weight \in Int /\ weight > 0 /\ g \in Int /\ g > 0 /\ over \in Int /\ over >= 0
  BY NumbersAssumption DEF MemoryValid
<1>3. fixed = weight \div g + over /\ kv = a \div b
  BY DEF Fixed, WeightPerGpu, KvPerRequest
<1> HIDE DEF fixed, kv, target, a, b, weight, g, over
<1>4. weight \div g \in Int /\ weight \div g >= 0
  <2>1. weight \div g \in Int /\ \A n \in Int : g * n <= weight <=> n <= weight \div g
    BY <1>2, QuotientIsLargest
  <2>2. g * 0 <= weight
    BY <1>2
  <2> QED
    BY <2>1, <2>2
<1>5. kv \in Int /\ kv > 0
  <2>1. kv \in Int /\ a = b * kv
    BY <1>2, <1>3
  <2>2. kv <= 0 => b * kv <= 0
    BY <1>2, <2>1
  <2> QED
    BY <1>2, <2>1, <2>2
<1>6. kv * target \in Int /\ kv * target > 0
  BY <1>2, <1>5
<1>7. fixed \in Int /\ fixed >= 0
  BY <1>2, <1>3, <1>4
<1> HIDE DEF fixed
<1> QED
  BY <1>1, <1>6, <1>7

-----------------------------------------------------------------------------
(* The counterfactuals: what one changed input does to the evidence. *)

(* What earns each piece of evidence. *)
LEMMA ShownIs ==
  ASSUME NEW given, \A w \in given.workloads : w.name \notin Controls
  PROVE  /\ \A x : x \notin Controls =>
              (x \in Shown(given) <=> \E w \in given.workloads : x = w.name)
         /\ "memory_fit" \in Shown(given) <=> Assessment(given).fits
         /\ "capacity_plan" \in Shown(given) <=> Sizing(given).release_ready
         /\ "parallel_layout" \in Shown(given) <=>
              /\ LayoutMatchesMemoryPlan(given, Layout(given))
              /\ Layout(given).data_parallel >= Sizing(given).required_replicas
         /\ "gpu_placement" \in Shown(given) <=>
              /\ LayoutMatchesMemoryPlan(given, Layout(given))
              /\ Groups(RequestFor(Layout(given), Assessment(given)), Inventory(given)) # {}
         /\ "benign_admission" \in Shown(given) <=>
              FirstDecision(given.token_bound, 0, Benign) = "admit"
         /\ "oversize_shedding" \in Shown(given) <=>
              FirstDecision(given.token_bound, Benign, Oversize) = "token bound"
         /\ "queue_scaling" \in Shown(given) <=>
              ScalingTarget(Sizing(given)) >= Sizing(given).required_replicas
         /\ "canary_gate" \in Shown(given) <=>
              EvaluateRollout(BaselineRelease, given.candidate, ReleaseRequirements).action
                = "promote"
<1> DEFINE memory == Assessment(given)
           capacity == Sizing(given)
           parallel == Layout(given)
           matches == LayoutMatchesMemoryPlan(given, parallel)
           earned ==
             [memory_fit        |-> memory.fits,
              capacity_plan     |-> capacity.release_ready,
              parallel_layout   |-> matches /\ parallel.data_parallel >= capacity.required_replicas,
              gpu_placement     |-> matches /\ Groups(RequestFor(parallel, memory), Inventory(given)) # {},
              benign_admission  |-> FirstDecision(given.token_bound, 0, Benign) = "admit",
              oversize_shedding |-> FirstDecision(given.token_bound, Benign, Oversize) = "token bound",
              queue_scaling     |-> ScalingTarget(capacity) >= capacity.required_replicas,
              canary_gate       |-> EvaluateRollout(BaselineRelease, given.candidate,
                                                    ReleaseRequirements).action = "promote"]
<1>1. Shown(given) = {w.name : w \in given.workloads}
                       \cup {control \in DOMAIN earned : earned[control]}
  <2> HIDE DEF memory, capacity, parallel
  <2> QED
    BY DEF Shown, Evidence, memory, capacity, parallel
<1>2. DOMAIN earned = Controls
  BY DEF Controls
<1>3. /\ earned["memory_fit"] <=> memory.fits
      /\ earned["capacity_plan"] <=> capacity.release_ready
      /\ earned["parallel_layout"] <=>
           matches /\ parallel.data_parallel >= capacity.required_replicas
      /\ earned["gpu_placement"] <=>
           matches /\ Groups(RequestFor(parallel, memory), Inventory(given)) # {}
  BY Zenon
<1>4. /\ earned["benign_admission"] <=> FirstDecision(given.token_bound, 0, Benign) = "admit"
      /\ earned["oversize_shedding"] <=>
           FirstDecision(given.token_bound, Benign, Oversize) = "token bound"
      /\ earned["queue_scaling"] <=> ScalingTarget(capacity) >= capacity.required_replicas
      /\ earned["canary_gate"] <=>
           EvaluateRollout(BaselineRelease, given.candidate, ReleaseRequirements).action = "promote"
  BY Zenon
<1> HIDE DEF earned, matches
<1>5. \A x \in Controls : x \in Shown(given) <=> earned[x]
  BY <1>1, <1>2
<1>6. \A x : x \notin Controls => (x \in Shown(given) <=> \E w \in given.workloads : x = w.name)
  BY <1>1, <1>2
<1>7. /\ "memory_fit" \in Controls /\ "capacity_plan" \in Controls
      /\ "parallel_layout" \in Controls /\ "gpu_placement" \in Controls
      /\ "benign_admission" \in Controls /\ "oversize_shedding" \in Controls
      /\ "queue_scaling" \in Controls /\ "canary_gate" \in Controls
  BY DEF Controls
<1> QED
  BY <1>3, <1>4, <1>5, <1>6, <1>7, Zenon DEF matches, memory, capacity, parallel

(* What a plan of Plans is, in the fields the counterfactuals touch. *)
LEMMA PlanType ==
  ASSUME NEW given \in Plans
  PROVE  /\ DOMAIN given = {"workloads", "model", "deployment", "topology", "free", "candidate",
                            "token_bound"}
         /\ \A w \in given.workloads : w.name \in RequiredWorkloads /\ w.name \notin Controls
         /\ given.free \in [Gpus -> Nat]
  BY PlanAssumption

(* Inputs that agree but for what the controls set aside look at.            *)
LEMMA ShownAgree ==
  ASSUME NEW p, NEW q, NEW aside,
         q.workloads = p.workloads, q.model = p.model, q.deployment = p.deployment,
         q.topology = p.topology, \A w \in p.workloads : w.name \notin Controls,
         "gpu_placement" \in aside \/ q.free = p.free,
         "canary_gate" \in aside \/ q.candidate = p.candidate,
         {"benign_admission", "oversize_shedding"} \subseteq aside \/ q.token_bound = p.token_bound
  PROVE  /\ Sizing(q) = Sizing(p) /\ Assessment(q) = Assessment(p) /\ Layout(q) = Layout(p)
         /\ \A x : x \notin aside => (x \in Shown(q) <=> x \in Shown(p))
<1>1. Sizing(q) = Sizing(p) /\ Assessment(q) = Assessment(p) /\ Layout(q) = Layout(p)
  BY DEF Sizing, Assessment, Layout, ShardedModel, RuntimeMemory
<1>2. /\ LayoutMatchesMemoryPlan(q, Layout(q)) <=> LayoutMatchesMemoryPlan(p, Layout(p))
      /\ q.free = p.free => Inventory(q) = Inventory(p)
  BY <1>1 DEF LayoutMatchesMemoryPlan, Inventory
<1>3. \A w \in q.workloads : w.name \notin Controls
  OBVIOUS
<1>4. "memory_fit" \in Shown(q) <=> "memory_fit" \in Shown(p)
  BY <1>1, <1>3, ShownIs, Zenon
<1>5. "capacity_plan" \in Shown(q) <=> "capacity_plan" \in Shown(p)
  BY <1>1, <1>3, ShownIs, Zenon
<1>6. "parallel_layout" \in Shown(q) <=> "parallel_layout" \in Shown(p)
  BY <1>1, <1>2, <1>3, ShownIs, Zenon
<1>7. "gpu_placement" \notin aside =>
        ("gpu_placement" \in Shown(q) <=> "gpu_placement" \in Shown(p))
  <2> SUFFICES ASSUME q.free = p.free
               PROVE  "gpu_placement" \in Shown(q) <=> "gpu_placement" \in Shown(p)
    OBVIOUS
  <2> QED
    BY <1>1, <1>2, <1>3, ShownIs, Zenon
<1>8. ASSUME q.token_bound = p.token_bound
      PROVE  /\ "benign_admission" \in Shown(q) <=> "benign_admission" \in Shown(p)
             /\ "oversize_shedding" \in Shown(q) <=> "oversize_shedding" \in Shown(p)
  <2>1. /\ FirstDecision(q.token_bound, 0, Benign) = FirstDecision(p.token_bound, 0, Benign)
        /\ FirstDecision(q.token_bound, Benign, Oversize)
             = FirstDecision(p.token_bound, Benign, Oversize)
    BY <1>8
  <2> QED
    BY <1>3, <2>1, ShownIs, Zenon
<1>9. "queue_scaling" \in Shown(q) <=> "queue_scaling" \in Shown(p)
  BY <1>1, <1>3, ShownIs, Zenon
<1>10. ASSUME q.candidate = p.candidate
       PROVE  "canary_gate" \in Shown(q) <=> "canary_gate" \in Shown(p)
  <2>1. EvaluateRollout(BaselineRelease, q.candidate, ReleaseRequirements)
          = EvaluateRollout(BaselineRelease, p.candidate, ReleaseRequirements)
    BY <1>10
  <2>2. "canary_gate" \in Shown(q) <=>
          EvaluateRollout(BaselineRelease, q.candidate, ReleaseRequirements).action = "promote"
    BY <1>3, ShownIs, Zenon
  <2>3. "canary_gate" \in Shown(p) <=>
          EvaluateRollout(BaselineRelease, p.candidate, ReleaseRequirements).action = "promote"
    BY ShownIs, Zenon
  <2> QED
    BY <2>1, <2>2, <2>3
<1>11. \A x : x \notin Controls => (x \in Shown(q) <=> x \in Shown(p))
  <2>1. \A x : x \notin Controls => (x \in Shown(q) <=> \E w \in q.workloads : x = w.name)
    BY <1>3, ShownIs, Zenon
  <2>2. \A x : x \notin Controls => (x \in Shown(p) <=> \E w \in p.workloads : x = w.name)
    BY ShownIs, Zenon
  <2> QED
    BY <2>1, <2>2
<1>12. \A x \in Controls :
         x \in {"memory_fit", "capacity_plan", "parallel_layout", "gpu_placement",
               "benign_admission", "oversize_shedding", "queue_scaling", "canary_gate"}
  BY DEF Controls
<1> QED
  BY <1>1, <1>4, <1>5, <1>6, <1>7, <1>8, <1>9, <1>10, <1>11, <1>12

(* Evidence that is lost is at stake, and none is won. *)
LEMMA NothingWon ==
  ASSUME NEW p, NEW q, NEW stake, RunPlan(p) # Raises, RunPlan(q) # Raises,
         Sizing(q) = Sizing(p), Shown(q) \subseteq Shown(p), Shown(p) \ stake \subseteq Shown(q)
  PROVE  /\ RunPlan(q).release_ready => RunPlan(p).release_ready
         /\ RunPlan(q).missing \ RunPlan(p).missing \subseteq stake
<1>1. /\ RunPlan(p).missing = (RequiredWorkloads \cup Controls) \ Shown(p)
      /\ RunPlan(q).missing = (RequiredWorkloads \cup Controls) \ Shown(q)
      /\ RunPlan(p).release_ready <=>
           Sizing(p).violations = {} /\ RunPlan(p).missing = {}
      /\ RunPlan(q).release_ready <=>
           Sizing(q).violations = {} /\ RunPlan(q).missing = {}
  BY PlanReports
<1> QED
  BY <1>1

LEMMA NoWorseThanItself ==
  ASSUME NEW field \in ReleaseFields, NEW x \in FieldValues(field)
  PROVE  NoBetterValue(field, x, x)
<1>1. CASE field = "mode"
  BY <1>1 DEF NoBetterValue
<1>2. CASE field = "warmed"
  BY <1>2 DEF NoBetterValue
<1>3. CASE field \in {"sample_count", "quality_score", "output_tokens_per_second"}
  <2>1. x \in Int
    BY <1>3 DEF FieldValues
  <2>2. x <= x
    BY <2>1
  <2>3. NoBetterValue(field, x, x) = (x <= x)
    BY <1>3 DEF NoBetterValue
  <2> QED
    BY <2>2, <2>3
<1>4. CASE field \in {"p95_ttft_seconds", "p95_tpot_seconds", "error_rate"}
  <2>1. x \in Int
    BY <1>4 DEF FieldValues
  <2>2. x >= x
    BY <2>1
  <2>3. NoBetterValue(field, x, x) = (x >= x)
    BY <1>4 DEF NoBetterValue
  <2> QED
    BY <2>2, <2>3
<1> QED
  BY <1>1, <1>2, <1>3, <1>4 DEF ReleaseFields

(* One measurement of the canary is worse. *)
LEMMA RegressedCanary ==
  ASSUME NEW p \in Plans, NEW field \in DOMAIN WorseCanary, NEW worse \in WorseCanary[field],
         NEW q, q.workloads = p.workloads, q.model = p.model, q.deployment = p.deployment,
         q.topology = p.topology, q.free = p.free, q.token_bound = p.token_bound,
         q.candidate = [p.candidate EXCEPT ![field] = worse],
         RunPlan(p) # Raises, RunPlan(q) # Raises
  PROVE  /\ RunPlan(q).release_ready => RunPlan(p).release_ready
         /\ RunPlan(q).missing \ RunPlan(p).missing \subseteq {"canary_gate"}
<1>2. /\ Sizing(q) = Sizing(p)
      /\ \A x : x \notin {"canary_gate"} => (x \in Shown(q) <=> x \in Shown(p))
  <2>1. \A w \in p.workloads : w.name \notin Controls
    BY PlanType
  <2>2. "canary_gate" \in {"canary_gate"}
    OBVIOUS
  <2> QED
    BY <2>1, <2>2, ShownAgree, Zenon
<1>3. EvaluateRollout(BaselineRelease, q.candidate, ReleaseRequirements).action = "promote"
        => EvaluateRollout(BaselineRelease, p.candidate, ReleaseRequirements).action = "promote"
  <2>1. /\ DOMAIN p.candidate = ReleaseFields /\ field \in ReleaseFields
        /\ IsRelease(BaselineRelease) /\ IsRelease(p.candidate)
        /\ worse \in FieldValues(field) /\ NoBetterValue(field, worse, p.candidate[field])
        /\ \A f \in ReleaseRequiredFields : ReleaseRequirements[f] \in Int
    BY CanaryAssumption
  <2>2. \A f \in ReleaseFields : q.candidate[f] = IF f = field THEN worse ELSE p.candidate[f]
    BY <2>1
  <2>3. IsRelease(q.candidate)
    BY <2>1, <2>2 DEF IsRelease
  <2>4. \A f \in ReleaseFields : NoBetterValue(f, p.candidate[f], p.candidate[f])
    <3> SUFFICES ASSUME NEW f \in ReleaseFields
                 PROVE  NoBetterValue(f, p.candidate[f], p.candidate[f])
      OBVIOUS
    <3>1. p.candidate[f] \in FieldValues(f)
      BY <2>1 DEF IsRelease
    <3> QED
      BY <3>1, NoWorseThanItself
  <2>5. \A f \in ReleaseFields : NoBetterValue(f, q.candidate[f], p.candidate[f])
    BY <2>1, <2>2, <2>4
  <2> QED
    BY <2>1, <2>3, <2>5, ReleaseGateIsMonotone
<1>4. Shown(q) \subseteq Shown(p) /\ Shown(p) \ {"canary_gate"} \subseteq Shown(q)
  <2>1. /\ \A w \in p.workloads : w.name \notin Controls
        /\ \A w \in q.workloads : w.name \notin Controls
    BY PlanType
  <2>2. "canary_gate" \in Shown(q) => "canary_gate" \in Shown(p)
    <3>1. "canary_gate" \in Shown(q) <=>
            EvaluateRollout(BaselineRelease, q.candidate, ReleaseRequirements).action = "promote"
      BY <2>1, ShownIs, Zenon
    <3>2. "canary_gate" \in Shown(p) <=>
            EvaluateRollout(BaselineRelease, p.candidate, ReleaseRequirements).action = "promote"
      BY <2>1, ShownIs, Zenon
    <3> QED
      BY <1>3, <3>1, <3>2
  <2> QED
    BY <1>2, <2>2
<1> QED
  BY <1>2, <1>4, NothingWon, Zenon

(* Less free memory on one device. *)
LEMMA ShrunkInventory ==
  ASSUME NEW p \in Plans, NEW gpu \in Gpus, NEW free \in {0, p.free[gpu] - 1} \cap Nat,
         NEW q, q.workloads = p.workloads, q.model = p.model, q.deployment = p.deployment,
         q.topology = p.topology, q.candidate = p.candidate, q.token_bound = p.token_bound,
         q.free = [p.free EXCEPT ![gpu] = free],
         RunPlan(p) # Raises, RunPlan(q) # Raises
  PROVE  /\ RunPlan(q).release_ready => RunPlan(p).release_ready
         /\ RunPlan(q).missing \ RunPlan(p).missing \subseteq {"gpu_placement"}
<1>2. /\ Sizing(q) = Sizing(p) /\ Assessment(q) = Assessment(p) /\ Layout(q) = Layout(p)
      /\ \A x : x \notin {"gpu_placement"} => (x \in Shown(q) <=> x \in Shown(p))
  <2>1. \A w \in p.workloads : w.name \notin Controls
    BY PlanType
  <2>2. "gpu_placement" \in {"gpu_placement"}
    OBVIOUS
  <2> QED
    BY <2>1, <2>2, ShownAgree, Zenon
<1>3. ASSUME NEW req, req.memory_gib_per_gpu \in Int, Groups(req, Inventory(q)) # {}
      PROVE  Groups(req, Inventory(p)) # {}
  <2>1. PICK group \in Groups(req, Inventory(q)) : TRUE
    BY <1>3
  <2>2. \A g \in Gpus : /\ Inventory(q)[g].node = Inventory(p)[g].node
                        /\ Inventory(q)[g].capabilities = Inventory(p)[g].capabilities
                        /\ Inventory(q)[g].free_memory_gib = q.free[g]
                        /\ Inventory(p)[g].free_memory_gib = p.free[g]
    <3> SUFFICES ASSUME NEW g \in Gpus
                 PROVE  /\ Inventory(q)[g].node = Inventory(p)[g].node
                        /\ Inventory(q)[g].capabilities = Inventory(p)[g].capabilities
                        /\ Inventory(q)[g].free_memory_gib = q.free[g]
                        /\ Inventory(p)[g].free_memory_gib = p.free[g]
      OBVIOUS
    <3>1. /\ Inventory(q)[g].node = (g - 1) \div q.topology.gpus_per_node
          /\ Inventory(q)[g].capabilities = {"bf16"}
          /\ Inventory(q)[g].free_memory_gib = q.free[g]
      BY DEF Inventory
    <3>2. /\ Inventory(p)[g].node = (g - 1) \div p.topology.gpus_per_node
          /\ Inventory(p)[g].capabilities = {"bf16"}
          /\ Inventory(p)[g].free_memory_gib = p.free[g]
      BY DEF Inventory
    <3>3. (g - 1) \div q.topology.gpus_per_node = (g - 1) \div p.topology.gpus_per_node
      OBVIOUS
    <3> HIDE DEF Inventory
    <3> QED
      BY <3>1, <3>2, <3>3, Zenon
  <2>3. \A g \in Gpus : q.free[g] \in Nat /\ p.free[g] \in Nat /\ q.free[g] <= p.free[g]
    BY PlanType
  <2>4. Eligible(req, Inventory(q)) \subseteq Eligible(req, Inventory(p))
    BY <1>3, <2>2, <2>3 DEF Eligible
  <2>5. group \subseteq Gpus
    BY DEF Groups, kSubset, Eligible
  <2>6. {Inventory(q)[g].node : g \in group} = {Inventory(p)[g].node : g \in group}
    BY <2>2, <2>5
  <2>7. group \in Groups(req, Inventory(p))
    BY <2>4, <2>6 DEF Groups, kSubset
  <2> QED
    BY <2>7
<1>4. Shown(q) \subseteq Shown(p) /\ Shown(p) \ {"gpu_placement"} \subseteq Shown(q)
  <2>1. /\ \A w \in p.workloads : w.name \notin Controls
        /\ \A w \in q.workloads : w.name \notin Controls
    BY PlanType
  <2>2. LayoutMatchesMemoryPlan(q, Layout(q)) <=> LayoutMatchesMemoryPlan(p, Layout(p))
    BY <1>2 DEF LayoutMatchesMemoryPlan
  <2>3. Assessment(p).required_gib_per_gpu \in Int
    BY PlanReports, RequiredMemoryType DEF Accepts
  <2>4. "gpu_placement" \in Shown(q) => "gpu_placement" \in Shown(p)
    <3> DEFINE req == RequestFor(Layout(p), Assessment(p))
    <3>1. req.memory_gib_per_gpu \in Int
      BY <2>3 DEF RequestFor
    <3> HIDE DEF req
    <3>2. Groups(req, Inventory(q)) # {} => Groups(req, Inventory(p)) # {}
      BY <1>3, <3>1
    <3>3. "gpu_placement" \in Shown(q) <=>
            /\ LayoutMatchesMemoryPlan(q, Layout(q))
            /\ Groups(req, Inventory(q)) # {}
      BY <1>2, <2>1, ShownIs, Zenon DEF req
    <3>4. "gpu_placement" \in Shown(p) <=>
            /\ LayoutMatchesMemoryPlan(p, Layout(p))
            /\ Groups(req, Inventory(p)) # {}
      BY <2>1, ShownIs, Zenon DEF req
    <3> QED
      BY <2>2, <3>2, <3>3, <3>4
  <2> QED
    BY <1>2, <2>4
<1> QED
  BY <1>2, <1>4, NothingWon

(* One of the two probes sees that a token bound is not the right one.       *)
LEMMA WorseBoundShows ==
  ASSUME NEW bound \in OtherBounds
  PROVE  \/ FirstDecision(bound, 0, Benign) # "admit"
         \/ FirstDecision(bound, Benign, Oversize) # "token bound"
<1>1. bound \in Int /\ Benign \in Int /\ Oversize \in Int /\ LiveTokens \in Int
  BY PolicyAssumption
<1>2. CASE bound < Benign
  <2>1. Benign > bound /\ ~(Benign <= bound)
    BY <1>1, <1>2
  <2>2. FirstDecision(bound, 0, Benign) = "token bound"
    BY <2>1 DEF FirstDecision
  <2> QED
    BY <2>2
<1>3. CASE Oversize <= bound
  <2>1. ~(Oversize > bound)
    BY <1>1, <1>3
  <2>2. CASE Benign + Oversize <= LiveTokens
    BY <1>1, <1>3, <2>1, <2>2 DEF FirstDecision
  <2>3. CASE Benign + Oversize > LiveTokens
    BY <1>1, <1>3, <2>1, <2>3 DEF FirstDecision
  <2>4. Benign + Oversize <= LiveTokens \/ Benign + Oversize > LiveTokens
    BY <1>1
  <2> QED
    BY <2>2, <2>3, <2>4
<1> QED
  BY <1>2, <1>3, PolicyAssumption

(* A token bound that stops the benign probe or admits the other one.        *)
LEMMA MovedTokenBound ==
  ASSUME NEW p \in Plans, NEW bound \in OtherBounds,
         NEW q, q.workloads = p.workloads, q.model = p.model, q.deployment = p.deployment,
         q.topology = p.topology, q.candidate = p.candidate, q.free = p.free,
         q.token_bound = bound,
         RunPlan(p) # Raises, RunPlan(q) # Raises
  PROVE  /\ ~RunPlan(q).release_ready
         /\ RunPlan(q).missing \ RunPlan(p).missing \subseteq {"benign_admission", "oversize_shedding"}
<1>2. \A x : x \notin {"benign_admission", "oversize_shedding"} =>
               (x \in Shown(q) <=> x \in Shown(p))
  BY PlanType, ShownAgree
<1>3. \A w \in q.workloads : w.name \notin Controls
  BY PlanType
<1>4. "benign_admission" \notin Shown(q) \/ "oversize_shedding" \notin Shown(q)
  <2>1. CASE FirstDecision(bound, 0, Benign) # "admit"
    BY <1>3, <2>1, ShownIs
  <2>2. CASE FirstDecision(bound, Benign, Oversize) # "token bound"
    BY <1>3, <2>2, ShownIs
  <2> QED
    BY <2>1, <2>2, WorseBoundShows
<1>5. /\ RunPlan(p).missing = (RequiredWorkloads \cup Controls) \ Shown(p)
      /\ RunPlan(q).missing = (RequiredWorkloads \cup Controls) \ Shown(q)
      /\ RunPlan(q).release_ready => RunPlan(q).missing = {}
  BY PlanReports
<1>6. "benign_admission" \in Controls /\ "oversize_shedding" \in Controls
  BY DEF Controls
<1> QED
  BY <1>2, <1>4, <1>5, <1>6

(* A smaller target changes nothing of a layout but its replicas. *)
LEMMA TargetOnlyCounts ==
  ASSUME NEW model, NEW topology, NEW few, NEW many
  PROVE  LET a == PlanParallelism(model, topology, few)
             b == PlanParallelism(model, topology, many)
         IN  /\ a.feasible = b.feasible
             /\ a.tensor_parallel = b.tensor_parallel /\ a.pipeline_parallel = b.pipeline_parallel
<1> DEFINE best == CHOOSE a \in Layouts(model, topology) :
                     \A b \in Layouts(model, topology) \ {a} : Preferred(topology, a, b)
<1> HIDE DEF best
<1>1. CASE Layouts(model, topology) = {}
  BY <1>1 DEF PlanParallelism, NoLayout
<1>2. CASE Layouts(model, topology) # {}
  BY <1>2 DEF PlanParallelism, best
<1> QED
  BY <1>1, <1>2

(* The target keeps the fleet when the policy leaves room for it. *)
LEMMA TargetKeeps ==
  ASSUME NEW capacity, capacity.required_replicas \in Int,
         capacity.output_tokens_per_second \in Int
  PROVE  ScalingTarget(capacity) >= capacity.required_replicas
           <=> capacity.required_replicas <= ScalingBounds.max
<1> DEFINE n == capacity.required_replicas
           c == (capacity.output_tokens_per_second + ScalingUsableRate - 1) \div ScalingUsableRate
<1>1. ScalingTarget(capacity) = Clamped(IF Clamped(c) >= n THEN Clamped(c) ELSE n)
  BY ScalingTargetIs
<1>2. /\ ScalingBounds.min \in Int /\ ScalingBounds.max \in Int
      /\ ScalingBounds.min <= ScalingBounds.max
  BY PolicyAssumption
<1>3. c \in Int /\ n \in Int
  BY PolicyAssumption, QuotientIsLargest
<1> HIDE DEF c, n
<1>4. Clamped(c) \in Int /\ Clamped(c) <= ScalingBounds.max
  BY <1>2, <1>3 DEF Clamped
<1>5. ScalingTarget(capacity) >= n <=> n <= ScalingBounds.max
  BY <1>1, <1>2, <1>3, <1>4 DEF Clamped
<1> QED
  BY <1>5 DEF n

(* A workload class is left out: its own evidence is gone, and the smaller   *)
(* fleet keeps every control the larger one kept.                            *)
LEMMA DroppedWorkload ==
  ASSUME NEW p \in Plans, NEW w \in p.workloads,
         NEW q, q.workloads = p.workloads \ {w}, q.model = p.model, q.deployment = p.deployment,
         q.topology = p.topology, q.candidate = p.candidate, q.free = p.free,
         q.token_bound = p.token_bound,
         RunPlan(p) # Raises, RunPlan(q) # Raises
  PROVE  /\ ~RunPlan(q).release_ready
         /\ RunPlan(q).missing \ RunPlan(p).missing \subseteq RequiredWorkloads
<1> DEFINE n == Required(p.workloads)
           m == Required(q.workloads)
<1>1. /\ CapacityValid(p.workloads, Benchmark, CapacityRequirements)
      /\ CapacityValid(q.workloads, Benchmark, CapacityRequirements)
  BY PlanReports DEF Accepts
<1>2. /\ \A v \in p.workloads : v.name \in RequiredWorkloads /\ v.name \notin Controls
      /\ \A v \in q.workloads : v.name \notin Controls
  BY PlanType
<1>3. w.name \notin Shown(q)
  <2>1. \A x : x \notin Controls => (x \in Shown(q) <=> \E v \in q.workloads : x = v.name)
    BY <1>2, ShownIs, Zenon
  <2>2. \A v \in q.workloads : v.name # w.name
    BY <1>1 DEF CapacityValid
  <2> QED
    BY <1>2, <2>1, <2>2
<1>4. /\ RunPlan(p).missing = (RequiredWorkloads \cup Controls) \ Shown(p)
      /\ RunPlan(q).missing = (RequiredWorkloads \cup Controls) \ Shown(q)
      /\ RunPlan(q).release_ready => RunPlan(q).missing = {}
  BY PlanReports
<1>5. m \in Int /\ n \in Int /\ m <= n
  BY <1>1, RequiredGrows
<1>6. /\ Sizing(p).required_replicas = n /\ Sizing(q).required_replicas = m
      /\ Sizing(p).output_tokens_per_second \in Int
      /\ Sizing(q).output_tokens_per_second \in Int
  <2>1. OutputRate(p.workloads) \in Int /\ OutputRate(q.workloads) \in Int
    BY RatesGrow
  <2> QED
    BY <2>1, ViolationsAre DEF Sizing
<1> HIDE DEF n, m
<1>7. Assessment(q) = Assessment(p) /\ Inventory(q) = Inventory(p)
  BY DEF Assessment, Inventory
<1>8. /\ Layout(q).feasible = Layout(p).feasible
      /\ Layout(q).tensor_parallel = Layout(p).tensor_parallel
      /\ Layout(q).pipeline_parallel = Layout(p).pipeline_parallel
  <2> DEFINE model == ShardedModel(p, Assessment(p))
  <2>1. /\ ShardedModel(q, Assessment(q)) = model
        /\ Layout(p) = PlanParallelism(model, p.topology, n)
        /\ Layout(q) = PlanParallelism(model, p.topology, m)
    BY <1>6, <1>7 DEF ShardedModel, RuntimeMemory, Layout
  <2> HIDE DEF model
  <2> QED
    BY <2>1, TargetOnlyCounts
<1>9. LayoutMatchesMemoryPlan(q, Layout(q)) <=> LayoutMatchesMemoryPlan(p, Layout(p))
  BY <1>8 DEF LayoutMatchesMemoryPlan, GpusPerReplica
<1>10. "memory_fit" \in Shown(p) => "memory_fit" \in Shown(q)
  <2>1. "memory_fit" \in Shown(p) <=> Assessment(p).fits
    BY <1>2, ShownIs, Zenon
  <2>2. "memory_fit" \in Shown(q) <=> Assessment(q).fits
    BY <1>2, ShownIs, Zenon
  <2> QED
    BY <1>7, <2>1, <2>2
<1>11. "capacity_plan" \in Shown(p) => "capacity_plan" \in Shown(q)
  <2>1. "capacity_plan" \in Shown(p) <=> Sizing(p).release_ready
    BY <1>2, ShownIs, Zenon
  <2>2. "capacity_plan" \in Shown(q) <=> Sizing(q).release_ready
    BY <1>2, ShownIs, Zenon
  <2>3. /\ Sizing(p).release_ready <=>
              n <= CapacityRequirements.max_replicas
              /\ n * Benchmark.hourly_cost <= CapacityRequirements.max_hourly_cost
        /\ Sizing(q).release_ready <=>
              m <= CapacityRequirements.max_replicas
              /\ m * Benchmark.hourly_cost <= CapacityRequirements.max_hourly_cost
    BY ViolationsAre DEF Sizing, n, m
  <2>4. /\ Benchmark.hourly_cost \in Int /\ Benchmark.hourly_cost >= 0
        /\ CapacityRequirements.max_hourly_cost \in Int
        /\ CapacityRequirements.max_replicas \in Int
    BY <1>1, NumbersAssumption, PlanAssumption DEF CapacityValid
  <2>5. m * Benchmark.hourly_cost <= n * Benchmark.hourly_cost
    BY <1>5, <2>4
  <2>6. m * Benchmark.hourly_cost \in Int /\ n * Benchmark.hourly_cost \in Int
    BY <1>5, <2>4
  <2> QED
    BY <1>5, <2>1, <2>2, <2>3, <2>4, <2>5, <2>6
<1>12. "parallel_layout" \in Shown(p) => "parallel_layout" \in Shown(q)
  <2>1. "parallel_layout" \in Shown(p) <=>
          /\ LayoutMatchesMemoryPlan(p, Layout(p))
          /\ Layout(p).data_parallel >= n
    BY <1>2, <1>6, ShownIs, Zenon
  <2>2. "parallel_layout" \in Shown(q) <=>
          /\ LayoutMatchesMemoryPlan(q, Layout(q))
          /\ Layout(q).data_parallel >= m
    BY <1>2, <1>6, ShownIs, Zenon
  <2>3. ASSUME LayoutMatchesMemoryPlan(p, Layout(p)), Layout(p).data_parallel >= n
        PROVE  Layout(q).data_parallel >= m
    <3> DEFINE model == ShardedModel(p, Assessment(p))
               group == Layout(p).tensor_parallel * Layout(p).pipeline_parallel
               most  == TotalGpus(p.topology) \div group
    <3>1. /\ ShardedModel(q, Assessment(q)) = model
          /\ Layout(p) = PlanParallelism(model, p.topology, n)
          /\ Layout(q) = PlanParallelism(model, p.topology, m)
      BY <1>6, <1>7 DEF ShardedModel, RuntimeMemory, Layout
    <3> HIDE DEF model
    <3>2. p.topology.gpus_per_node \in Int /\ p.topology.nodes \in Int
      BY NumbersAssumption
    <3>3. Layout(p).feasible /\ Layout(q).feasible
      BY <1>9, <2>3 DEF LayoutMatchesMemoryPlan
    <3>4. /\ Layout(p).tensor_parallel \in Nat \ {0} /\ Layout(p).pipeline_parallel \in Nat \ {0}
          /\ Layout(p).data_parallel = Min({n, most})
      BY <3>1, <3>2, <3>3, ChosenLayoutFits
    <3>5. Layout(q).data_parallel = Min({m, most})
      BY <1>8, <3>1, <3>2, <3>3, ChosenLayoutFits
    <3>6. most \in Int
      <4>1. group \in Int /\ group > 0
        BY <3>4
      <4>2. TotalGpus(p.topology) \in Int
        BY <3>2 DEF TotalGpus
      <4> QED
        BY <4>1, <4>2, QuotientIsLargest
    <3> HIDE DEF most
    <3>7. /\ Min({n, most}) = IF n <= most THEN n ELSE most
          /\ Min({m, most}) = IF m <= most THEN m ELSE most
      BY <1>5, <3>6, MinOfTwo
    <3> QED
      BY <1>5, <2>3, <3>4, <3>5, <3>6, <3>7
  <2> QED
    BY <1>9, <2>1, <2>2, <2>3
<1>13. "gpu_placement" \in Shown(p) => "gpu_placement" \in Shown(q)
  <2>1. "gpu_placement" \in Shown(p) <=>
          /\ LayoutMatchesMemoryPlan(p, Layout(p))
          /\ Groups(RequestFor(Layout(p), Assessment(p)), Inventory(p)) # {}
    BY <1>2, ShownIs, Zenon
  <2>2. "gpu_placement" \in Shown(q) <=>
          /\ LayoutMatchesMemoryPlan(q, Layout(q))
          /\ Groups(RequestFor(Layout(q), Assessment(q)), Inventory(q)) # {}
    BY <1>2, ShownIs, Zenon
  <2>3. RequestFor(Layout(q), Assessment(q)) = RequestFor(Layout(p), Assessment(p))
    BY <1>7, <1>8 DEF RequestFor, GpusPerReplica
  <2> QED
    BY <1>7, <1>9, <2>1, <2>2, <2>3
<1>14. /\ "benign_admission" \in Shown(p) => "benign_admission" \in Shown(q)
       /\ "oversize_shedding" \in Shown(p) => "oversize_shedding" \in Shown(q)
  <2>1. /\ FirstDecision(q.token_bound, 0, Benign) = FirstDecision(p.token_bound, 0, Benign)
        /\ FirstDecision(q.token_bound, Benign, Oversize)
             = FirstDecision(p.token_bound, Benign, Oversize)
    OBVIOUS
  <2>2. /\ "benign_admission" \in Shown(q) <=> FirstDecision(q.token_bound, 0, Benign) = "admit"
        /\ "oversize_shedding" \in Shown(q) <=>
              FirstDecision(q.token_bound, Benign, Oversize) = "token bound"
    BY <1>2, ShownIs, Zenon
  <2>3. /\ "benign_admission" \in Shown(p) <=> FirstDecision(p.token_bound, 0, Benign) = "admit"
        /\ "oversize_shedding" \in Shown(p) <=>
              FirstDecision(p.token_bound, Benign, Oversize) = "token bound"
    BY <1>2, ShownIs, Zenon
  <2> QED
    BY <2>1, <2>2, <2>3
<1>15. "queue_scaling" \in Shown(p) => "queue_scaling" \in Shown(q)
  <2>1. "queue_scaling" \in Shown(p) <=> ScalingTarget(Sizing(p)) >= n
    BY <1>2, <1>6, ShownIs, Zenon
  <2>2. "queue_scaling" \in Shown(q) <=> ScalingTarget(Sizing(q)) >= m
    BY <1>2, <1>6, ShownIs, Zenon
  <2>3. ScalingTarget(Sizing(p)) >= n <=> n <= ScalingBounds.max
    BY <1>5, <1>6, TargetKeeps
  <2>4. ScalingTarget(Sizing(q)) >= m <=> m <= ScalingBounds.max
    BY <1>5, <1>6, TargetKeeps
  <2>5. ScalingBounds.max \in Int
    BY PolicyAssumption
  <2> QED
    BY <1>5, <2>1, <2>2, <2>3, <2>4, <2>5
<1>16. "canary_gate" \in Shown(p) => "canary_gate" \in Shown(q)
  <2>1. EvaluateRollout(BaselineRelease, q.candidate, ReleaseRequirements)
          = EvaluateRollout(BaselineRelease, p.candidate, ReleaseRequirements)
    OBVIOUS
  <2>2. "canary_gate" \in Shown(q) <=>
          EvaluateRollout(BaselineRelease, q.candidate, ReleaseRequirements).action = "promote"
    BY <1>2, ShownIs, Zenon
  <2>3. "canary_gate" \in Shown(p) <=>
          EvaluateRollout(BaselineRelease, p.candidate, ReleaseRequirements).action = "promote"
    BY <1>2, ShownIs, Zenon
  <2> QED
    BY <2>1, <2>2, <2>3
<1>17. \A x \in Controls : x \in Shown(p) => x \in Shown(q)
  BY <1>10, <1>11, <1>12, <1>13, <1>14, <1>15, <1>16 DEF Controls
<1> QED
  BY <1>2, <1>3, <1>4, <1>17

(* No counterfactual helps a plan, and each costs only the evidence it is    *)
(* about; a workload that is left out fails the plan, however small the      *)
(* fleet that is left to serve.                                              *)
THEOREM WorseInputsNeverHelp == FleetSpec => CounterfactualsFail
<1> DEFINE Kept ==
      (changed' # changed /\ Reported /\ Reported') =>
        /\ Ready' => Ready /\ changed' # "workload"
        /\ report'.missing \ report.missing \subseteq AtStake(changed')
<1>1. IInv /\ IInv' /\ [FleetNext]_fleetVars => Kept
  <2> SUFFICES ASSUME IInv, IInv', [FleetNext]_fleetVars,
                      changed' # changed, Reported, Reported'
               PROVE  /\ Ready' => Ready /\ changed' # "workload"
                      /\ report'.missing \ report.missing \subseteq AtStake(changed')
    OBVIOUS
  <2>1. /\ report = RunPlan(plan) /\ RunPlan(plan) # Raises
        /\ DOMAIN plan = {"workloads", "model", "deployment", "topology", "free", "candidate",
                          "token_bound"}
    BY Reports DEF IInv, PlanOK
  <2>2. /\ Ready <=> RunPlan(plan).release_ready
        /\ Ready' <=> report'.release_ready
    BY <2>1 DEF Ready
  <2>3. ASSUME NEW given, NEW what, CallWith(given, what)
        PROVE  /\ plan \in Plans /\ changed' = what /\ plan' = given
               /\ report' = RunPlan(given) /\ RunPlan(given) # Raises
    BY <2>3 DEF CallWith, IInv, PlanOK, Reported
  <2>4. ASSUME NEW w \in plan.workloads, DropWorkload(w)
        PROVE  Kept
    <3> DEFINE q == [plan EXCEPT !.workloads = @ \ {w}]
    <3>1. CallWith(q, "workload")
      BY <2>4 DEF DropWorkload
    <3>2. /\ q.workloads = plan.workloads \ {w} /\ q.model = plan.model
          /\ q.deployment = plan.deployment /\ q.topology = plan.topology
          /\ q.candidate = plan.candidate /\ q.free = plan.free
          /\ q.token_bound = plan.token_bound
      BY <2>1
    <3> HIDE DEF q
    <3>3. /\ ~RunPlan(q).release_ready
          /\ RunPlan(q).missing \ RunPlan(plan).missing \subseteq RequiredWorkloads
      BY <2>1, <2>3, <3>1, <3>2, DroppedWorkload
    <3>4. AtStake("workload") = RequiredWorkloads
      BY DEF AtStake
    <3> QED
      BY <2>1, <2>2, <2>3, <3>1, <3>3, <3>4
  <2>5. ASSUME NEW gpu \in Gpus, ShrinkInventory(gpu)
        PROVE  Kept
    <3>1. PICK free \in {0, plan.free[gpu] - 1} \cap Nat :
            CallWith([plan EXCEPT !.free = [@ EXCEPT ![gpu] = free]], "inventory")
      BY <2>5 DEF ShrinkInventory
    <3> DEFINE q == [plan EXCEPT !.free = [@ EXCEPT ![gpu] = free]]
    <3>2. /\ q.workloads = plan.workloads /\ q.model = plan.model
          /\ q.deployment = plan.deployment /\ q.topology = plan.topology
          /\ q.candidate = plan.candidate /\ q.token_bound = plan.token_bound
          /\ q.free = [plan.free EXCEPT ![gpu] = free]
      BY <2>1
    <3>3. CallWith(q, "inventory")
      BY <3>1
    <3> HIDE DEF q
    <3>4. /\ RunPlan(q).release_ready => RunPlan(plan).release_ready
          /\ RunPlan(q).missing \ RunPlan(plan).missing \subseteq {"gpu_placement"}
      BY <2>1, <2>3, <3>2, <3>3, ShrunkInventory
    <3>5. AtStake("inventory") = {"gpu_placement"}
      BY DEF AtStake
    <3> QED
      BY <2>1, <2>2, <2>3, <3>3, <3>4, <3>5
  <2>6. ASSUME NEW field \in DOMAIN WorseCanary, RegressCanary(field)
        PROVE  Kept
    <3>1. PICK worse \in WorseCanary[field] :
            CallWith([plan EXCEPT !.candidate = [@ EXCEPT ![field] = worse]], "canary")
      BY <2>6 DEF RegressCanary
    <3> DEFINE q == [plan EXCEPT !.candidate = [@ EXCEPT ![field] = worse]]
    <3>2. /\ q.workloads = plan.workloads /\ q.model = plan.model
          /\ q.deployment = plan.deployment /\ q.topology = plan.topology
          /\ q.free = plan.free /\ q.token_bound = plan.token_bound
          /\ q.candidate = [plan.candidate EXCEPT ![field] = worse]
      BY <2>1
    <3>3. CallWith(q, "canary")
      BY <3>1
    <3> HIDE DEF q
    <3>4. /\ RunPlan(q).release_ready => RunPlan(plan).release_ready
          /\ RunPlan(q).missing \ RunPlan(plan).missing \subseteq {"canary_gate"}
      BY <2>1, <2>3, <3>2, <3>3, RegressedCanary
    <3>5. AtStake("canary") = {"canary_gate"}
      BY DEF AtStake
    <3> QED
      BY <2>1, <2>2, <2>3, <3>3, <3>4, <3>5
  <2>7. ASSUME NEW bound \in OtherBounds, MoveTokenBound(bound)
        PROVE  Kept
    <3> DEFINE q == [plan EXCEPT !.token_bound = bound]
    <3>1. CallWith(q, "admission")
      BY <2>7 DEF MoveTokenBound
    <3>2. /\ q.workloads = plan.workloads /\ q.model = plan.model
          /\ q.deployment = plan.deployment /\ q.topology = plan.topology
          /\ q.candidate = plan.candidate /\ q.free = plan.free /\ q.token_bound = bound
      BY <2>1
    <3> HIDE DEF q
    <3>3. /\ ~RunPlan(q).release_ready
          /\ RunPlan(q).missing \ RunPlan(plan).missing
               \subseteq {"benign_admission", "oversize_shedding"}
      BY <2>1, <2>3, <3>1, <3>2, MovedTokenBound
    <3>4. AtStake("admission") = {"benign_admission", "oversize_shedding"}
      BY DEF AtStake
    <3> QED
      BY <2>1, <2>2, <2>3, <3>1, <3>3, <3>4
  <2>8. CASE FirstCall \/ PlaceNext \/ UNCHANGED fleetVars
    BY <2>8 DEF FirstCall, PlaceNext, fleetVars
  <2> QED
    BY <2>4, <2>5, <2>6, <2>7, <2>8 DEF FleetNext
<1>2. FleetSpec => [][Kept]_fleetVars
  BY <1>1, Invariance, PTL DEF FleetSpec
<1> QED
  BY <1>2 DEF CounterfactualsFail

-----------------------------------------------------------------------------
(* A ready plan is placed. *)

GpuFields == {"node", "free_memory_gib", "capabilities", "resident_models"}

(* While it is placed, a device that nothing runs on is as it was listed.    *)
Listed ==
  \A gpu \in Gpus :
    /\ DOMAIN inventory[gpu] = GpuFields
    /\ inventory[gpu].node = (gpu - 1) \div plan.topology.gpus_per_node
    /\ inventory[gpu].capabilities = {"bf16"}
    /\ inventory[gpu].free_memory_gib \in Nat
    /\ Holders(gpu) = {} => inventory[gpu].free_memory_gib = plan.free[gpu]

(* Only the replicas of a ready plan are placed, and none of them in vain.   *)
Placed(r) ==
  /\ Ready /\ changed = "nothing"
  /\ r \in 1..report.capacity.required_replicas
  /\ \/ outcome[r] = "refused" /\ report.parallel.pipeline_parallel # 1
     \/ /\ outcome[r] \in {"planned", "running"}
        /\ gpu_ids[r] \in SUBSET Gpus
        /\ Cardinality(gpu_ids[r]) = GpusPerReplica(report.parallel)
        /\ \A a, b \in gpu_ids[r] : inventory[a].node = inventory[b].node

Placing ==
  /\ DOMAIN seen = Replicas /\ DOMAIN gpu_ids = Replicas /\ DOMAIN outcome = Replicas
  /\ changed = "nothing" =>
       /\ Listed
       /\ Reported =>
            \A r \in Replicas : request[r] = RequestFor(report.parallel, report.memory)
  /\ \A r \in Replicas : outcome[r] # "wanted" => Placed(r)

(* What a ready plan says of the fleet it asks for. *)
LEMMA ReadyMeans ==
  ASSUME IInv, Ready
  PROVE  /\ Reported /\ Accepts(plan)
         /\ LayoutMatchesMemoryPlan(plan, report.parallel)
         /\ report.parallel.data_parallel >= report.capacity.required_replicas
         /\ report.capacity.required_replicas \in 1..CapacityRequirements.max_replicas
<1>1. /\ Reported /\ Accepts(plan) /\ report = RunPlan(plan) /\ RunPlan(plan) # Raises
      /\ report.capacity = Sizing(plan) /\ report.parallel = Layout(plan)
      /\ report.release_ready
  BY Reports DEF Ready
<1>2. /\ Sizing(plan).violations = {}
      /\ (RequiredWorkloads \cup Controls) \ Shown(plan) = {}
  BY <1>1, PlanReports
<1>3. \A w \in plan.workloads : w.name \notin Controls
  <2>1. PICK given \in Plans : plan.workloads \in SUBSET given.workloads
    BY DEF IInv, PlanOK
  <2> QED
    BY <2>1, PlanType
<1>4. "parallel_layout" \in Shown(plan)
  BY <1>2 DEF Controls
<1>5. /\ LayoutMatchesMemoryPlan(plan, Layout(plan))
      /\ Layout(plan).data_parallel >= Sizing(plan).required_replicas
  BY <1>3, <1>4, ShownIs, Zenon
<1>6. report.capacity.required_replicas <= CapacityRequirements.max_replicas
  BY <1>1, <1>2, ViolationsAre DEF Sizing
<1>7. report.capacity.required_replicas \in Int /\ report.capacity.required_replicas >= 1
  <2>1. CapacityRequirements.min_replicas \in Int /\ CapacityRequirements.min_replicas > 0
    BY <1>1, NumbersAssumption DEF Accepts, CapacityValid, IInv, PlanOK
  <2>2. /\ report.capacity.required_replicas \in Int
        /\ report.capacity.required_replicas >= CapacityRequirements.min_replicas
    BY <1>1, SizingIsLeast DEF Serves
  <2> QED
    BY <2>1, <2>2
<1>8. CapacityRequirements.max_replicas \in Int
  BY PlanAssumption
<1> QED
  BY <1>1, <1>5, <1>6, <1>7, <1>8

(* What it asks the placement for. *)
LEMMA RequestIs ==
  ASSUME IInv, Ready, changed = "nothing"
  PROVE  LET asked == RequestFor(report.parallel, report.memory)
         IN  /\ asked.gpus_required = GpusPerReplica(report.parallel)
             /\ asked.gpus_required \in Nat \ {0}
             /\ asked.memory_gib_per_gpu \in Int /\ asked.memory_gib_per_gpu > 0
             /\ \A gpu \in Gpus : asked.memory_gib_per_gpu <= plan.free[gpu]
             /\ asked.required_capabilities = {"bf16"} /\ asked.require_same_node
<1> DEFINE asked == RequestFor(report.parallel, report.memory)
           m     == report.memory.required_gib_per_gpu
<1>1. /\ asked.gpus_required = GpusPerReplica(report.parallel)
      /\ asked.memory_gib_per_gpu = m /\ asked.required_capabilities = {"bf16"}
  BY DEF RequestFor
<1>2. asked.require_same_node
  BY Zenon DEF RequestFor
<1>3. plan \in Plans
  BY DEF IInv, PlanOK
<1>4. /\ GpusPerReplica(report.parallel) = plan.deployment.tensor_parallel_size
      /\ plan.deployment.tensor_parallel_size > 0
  BY ReadyMeans DEF LayoutMatchesMemoryPlan, Accepts, MemoryValid
<1>5. plan.deployment.tensor_parallel_size \in Int
  BY <1>3, NumbersAssumption
<1>6. m \in Int /\ m <= plan.topology.usable_gib
  BY ReadyMeans, RequestFits
<1>7. m > 0
  <2>1. m = Assessment(plan).required_gib_per_gpu
    BY ReadyMeans, Reports
  <2>2. MemoryValid(plan.model, plan.deployment)
    BY ReadyMeans DEF Accepts
  <2> QED
    BY <1>3, <2>1, <2>2, RequiredMemoryType
<1>8. \A gpu \in Gpus : m <= plan.free[gpu]
  <2>1. plan.topology.usable_gib \in Int
    BY <1>3, NumbersAssumption
  <2>2. \A gpu \in Gpus : plan.topology.usable_gib <= plan.free[gpu] /\ plan.free[gpu] \in Int
    BY <1>3, NumbersAssumption, PlanType
  <2> HIDE DEF m
  <2> QED
    BY <1>6, <2>1, <2>2
<1> HIDE DEF asked, m
<1>9. asked.gpus_required \in Nat \ {0}
  BY <1>1, <1>4, <1>5
<1> QED
  BY <1>1, <1>2, <1>6, <1>7, <1>8, <1>9 DEF asked

(* Devices are numbered node by node. *)
LEMMA NodesAreIntervals ==
  ASSUME NEW nodes \in Nat \ {0}, NEW size \in Nat \ {0}
  PROVE  /\ \A gpu \in 1..(nodes * size) : (gpu - 1) \div size \in 0..(nodes - 1)
         /\ \A k \in 0..(nodes - 1) :
              /\ IsFiniteSet({gpu \in 1..(nodes * size) : (gpu - 1) \div size = k})
              /\ Cardinality({gpu \in 1..(nodes * size) : (gpu - 1) \div size = k}) = size
<1> DEFINE all == nodes * size
<1>1. all \in Int /\ size \in Int /\ size > 0 /\ nodes \in Int
  OBVIOUS
<1>2. ASSUME NEW gpu \in Int, NEW k \in Int
      PROVE  (gpu - 1) \div size = k <=> k * size + 1 <= gpu /\ gpu <= k * size + size
  <2> DEFINE d == (gpu - 1) \div size
  <2>1. d \in Int /\ \A n \in Int : size * n <= gpu - 1 <=> n <= d
    BY <1>1, QuotientIsLargest
  <2> HIDE DEF d
  <2>2. size * k <= gpu - 1 <=> k <= d
    BY <2>1
  <2>3. size * (k + 1) <= gpu - 1 <=> k + 1 <= d
    BY <2>1
  <2>4. size * k = k * size /\ size * (k + 1) = k * size + size /\ k * size \in Int
    BY <1>1
  <2>5. d = k <=> k <= d /\ ~(k + 1 <= d)
    BY <2>1
  <2>6. d = k <=> k * size + 1 <= gpu /\ gpu <= k * size + size
    BY <1>1, <2>2, <2>3, <2>4, <2>5
  <2> QED
    BY <2>6 DEF d
<1>3. ASSUME NEW gpu \in 1..all
      PROVE  (gpu - 1) \div size \in 0..(nodes - 1)
  <2> DEFINE d == (gpu - 1) \div size
  <2>1. d \in Int /\ \A n \in Int : size * n <= gpu - 1 <=> n <= d
    BY <1>1, <1>3, QuotientIsLargest
  <2> HIDE DEF d
  <2>2. size * 0 = 0 /\ size * nodes = all
    BY <1>1
  <2>3. size * 0 <= gpu - 1 /\ ~(size * nodes <= gpu - 1)
    BY <1>1, <1>3, <2>2
  <2>4. 0 <= d /\ ~(nodes <= d)
    BY <1>1, <2>1, <2>3
  <2> QED
    BY <1>1, <2>1, <2>4 DEF d
<1>4. ASSUME NEW k \in 0..(nodes - 1)
      PROVE  {gpu \in 1..all : (gpu - 1) \div size = k} = (k * size + 1)..(k * size + size)
  <2> DEFINE c == k * size
  <2>1. c \in Int /\ 0 <= c
    BY <1>1
  <2>2. c + size <= all
    <3>1. (k + 1) * size <= nodes * size
      BY <1>1
    <3> QED
      BY <1>1, <3>1
  <2>3. \A gpu \in Int : (gpu - 1) \div size = k <=> c + 1 <= gpu /\ gpu <= c + size
    BY <1>2
  <2> HIDE DEF c, all
  <2>4. \A gpu : gpu \in 1..all /\ (gpu - 1) \div size = k <=> gpu \in (c + 1)..(c + size)
    BY <1>1, <2>1, <2>2, <2>3
  <2> QED
    BY <2>4 DEF c
<1>5. ASSUME NEW k \in 0..(nodes - 1)
      PROVE  /\ IsFiniteSet((k * size + 1)..(k * size + size))
             /\ Cardinality((k * size + 1)..(k * size + size)) = size
  <2> DEFINE c == k * size
  <2>1. c \in Int
    BY <1>1
  <2> HIDE DEF c
  <2>2. IsFiniteSet((c + 1)..(c + size))
    BY <1>1, <2>1, FS_Interval
  <2>3. Cardinality((c + 1)..(c + size)) = IF c + 1 > c + size THEN 0 ELSE (c + size) - (c + 1) + 1
    BY <1>1, <2>1, FS_Interval
  <2>4. Cardinality((c + 1)..(c + size)) = size
    BY <1>1, <2>1, <2>3
  <2> QED
    BY <2>2, <2>4 DEF c
<1> QED
  BY <1>3, <1>4, <1>5

(* The replicas that run leave a node with devices for one more: each takes  *)
(* as many devices of one node, and that many divide the devices of a node.  *)
LEMMA GroupLeft ==
  ASSUME IInv, Placing, Ready, changed = "nothing", report.parallel.pipeline_parallel = 1,
         NEW r \in 1..report.capacity.required_replicas, outcome[r] = "wanted"
  PROVE  Groups(RequestFor(report.parallel, report.memory), inventory) # {}
<1> DEFINE asked == RequestFor(report.parallel, report.memory)
           R     == report.capacity.required_replicas
           t     == report.parallel.tensor_parallel
           size  == plan.topology.gpus_per_node
           nodes == plan.topology.nodes
           q     == size \div t
           S     == {s \in 1..R : outcome[s] = "running"}
           node  == [gpu \in Gpus |-> (gpu - 1) \div size]
           home  == [s \in S |-> node[CHOOSE gpu : gpu \in gpu_ids[s]]]
<1>1. /\ plan \in Plans /\ Reported /\ Accepts(plan) /\ report.parallel = Layout(plan)
      /\ R \in 1..CapacityRequirements.max_replicas
      /\ report.parallel.feasible /\ report.parallel.data_parallel >= R
  BY ReadyMeans, Reports DEF LayoutMatchesMemoryPlan, IInv, PlanOK
<1>2. nodes \in Nat \ {0} /\ size \in Nat \ {0}
  <2>1. nodes \in Int /\ size \in Int
    BY <1>1, NumbersAssumption
  <2>2. nodes > 0 /\ size > 0
    BY <1>1 DEF Accepts, LayoutValid
  <2> QED
    BY <2>1, <2>2
<1>3. /\ t \in Nat \ {0} /\ t \in TensorWidths(plan.topology)
      /\ report.parallel.data_parallel = Min({R, TotalGpus(plan.topology) \div (t * 1)})
  <2> DEFINE model  == ShardedModel(plan, Assessment(plan))
             chosen == PlanParallelism(model, plan.topology, R)
  <2>1. report.parallel = chosen
    BY <1>1, Reports DEF Layout
  <2> HIDE DEF model
  <2>2. chosen.feasible /\ chosen.pipeline_parallel = 1
    BY <1>1, <2>1
  <2>3. /\ chosen.tensor_parallel \in Nat \ {0}
        /\ chosen.tensor_parallel \in TensorWidths(plan.topology)
        /\ chosen.data_parallel =
             Min({R, TotalGpus(plan.topology)
                       \div (chosen.tensor_parallel * chosen.pipeline_parallel)})
    BY <1>2, <2>2, ChosenLayoutFits
  <2> QED
    BY <2>1, <2>2, <2>3
<1>4. size = t * q /\ q \in Nat
  <2>1. size % t = 0
    BY <1>3 DEF TensorWidths
  <2> QED
    BY <1>2, <1>3, <2>1
<1>5. Gpus = 1..(nodes * size)
  BY <1>1, PlanAssumption DEF TotalGpus
<1>6. R \in Int /\ R >= 1 /\ 1..R \subseteq Replicas
  BY <1>1, PlanAssumption
<1> HIDE DEF R, t, size, nodes, q
<1>7. R <= nodes * q
  <2> DEFINE most == (nodes * size) \div (t * 1)
  <2>1. nodes * size \in Int /\ t * 1 = t
    BY <1>2, <1>3
  <2>2. most \in Int /\ \A n \in Int : t * n <= nodes * size <=> n <= most
    BY <1>3, <2>1, QuotientIsLargest
  <2>3. report.parallel.data_parallel = Min({R, most})
    BY <1>3 DEF TotalGpus, size, nodes
  <2> HIDE DEF most
  <2>4. Min({R, most}) = IF R <= most THEN R ELSE most
    BY <1>6, <2>2, MinOfTwo
  <2>5. R <= most
    BY <1>1, <1>6, <2>2, <2>3, <2>4 DEF R
  <2>6. t * R <= nodes * size
    BY <1>6, <2>2, <2>5
  <2>7. nodes * size = t * (nodes * q)
    BY <1>2, <1>3, <1>4
  <2> DEFINE all == nodes * q
  <2>8. all \in Int
    BY <1>2, <1>4
  <2> HIDE DEF all
  <2>9. t * R <= t * all
    BY <2>6, <2>7 DEF all
  <2>10. R <= all
    <3>1. all < R => t * all < t * R
      BY <1>3, <1>6, <2>8
    <3>2. t * all \in Int /\ t * R \in Int
      BY <1>3, <1>6, <2>8
    <3> QED
      BY <1>6, <2>8, <2>9, <3>1, <3>2
  <2> QED
    BY <2>10 DEF all
<1>8. IsFiniteSet(S) /\ Cardinality(S) \in Nat /\ Cardinality(S) < R
  <2>1. IsFiniteSet(1..R) /\ Cardinality(1..R) = R
    BY <1>6, FS_Interval
  <2>2. r \in 1..R
    BY DEF R
  <2>3. IsFiniteSet((1..R) \ {r}) /\ Cardinality((1..R) \ {r}) = R - 1
    BY <2>1, <2>2, FS_RemoveElement
  <2>4. S \in SUBSET ((1..R) \ {r})
    OBVIOUS
  <2>5. IsFiniteSet(S) /\ Cardinality(S) <= R - 1
    BY <2>3, <2>4, FS_Subset
  <2> HIDE DEF S
  <2>6. Cardinality(S) \in Nat
    BY <2>5, FS_CardinalityType
  <2> QED
    BY <1>6, <2>5, <2>6
<1>9. \A gpu \in Gpus : /\ node[gpu] \in 0..(nodes - 1)
                        /\ inventory[gpu].node = node[gpu]
  <2>1. \A gpu \in Gpus : inventory[gpu].node = node[gpu]
    BY DEF Placing, Listed, size
  <2>2. \A gpu \in 1..(nodes * size) : (gpu - 1) \div size \in 0..(nodes - 1)
    BY <1>2, NodesAreIntervals
  <2> QED
    BY <1>5, <2>1, <2>2
<1> HIDE DEF node
<1>10. ASSUME NEW s \in S
       PROVE  /\ gpu_ids[s] \in SUBSET Gpus /\ Cardinality(gpu_ids[s]) = t
              /\ IsFiniteSet(gpu_ids[s])
              /\ home[s] \in 0..(nodes - 1)
              /\ \A gpu \in gpu_ids[s] : node[gpu] = home[s]
  <2>1. s \in Replicas /\ outcome[s] = "running"
    BY <1>6, <1>10
  <2>2. /\ gpu_ids[s] \in SUBSET Gpus /\ Cardinality(gpu_ids[s]) = GpusPerReplica(report.parallel)
        /\ \A a, b \in gpu_ids[s] : inventory[a].node = inventory[b].node
    BY <2>1 DEF Placing, Placed
  <2>3. GpusPerReplica(report.parallel) = t
    BY <1>3 DEF GpusPerReplica, t
  <2>4. IsFiniteSet(gpu_ids[s])
    BY <2>2, InventoryAssumption, FS_Subset
  <2>5. gpu_ids[s] # {}
    BY <1>3, <2>2, <2>3, FS_EmptySet
  <2>6. (CHOOSE gpu : gpu \in gpu_ids[s]) \in gpu_ids[s]
    BY <2>5
  <2>7. \A a, b \in gpu_ids[s] : node[a] = node[b]
    BY <1>9, <2>2
  <2>8. home[s] = node[CHOOSE gpu : gpu \in gpu_ids[s]]
    BY <1>10
  <2> QED
    BY <1>9, <2>2, <2>3, <2>4, <2>6, <2>7, <2>8
<1> HIDE DEF home
<1> DEFINE at(k) == {s \in S : home[s] = k}
<1>11. PICK k \in 0..(nodes - 1) : ~(q <= Cardinality(at(k)))
  <2> SUFFICES ASSUME \A k \in 0..(nodes - 1) : q <= Cardinality(at(k))
               PROVE  FALSE
    OBVIOUS
  <2>1. IsFiniteSet(0..(nodes - 1)) /\ Cardinality(0..(nodes - 1)) = nodes
    BY <1>2, FS_Interval
  <2> HIDE DEF S
  <2>2. q * Cardinality(0..(nodes - 1)) <= Cardinality(S)
    BY <1>4, <1>8, <2>1, Pigeonholes
  <2>3. q * nodes = nodes * q /\ nodes * q \in Int
    BY <1>2, <1>4
  <2> QED
    BY <1>6, <1>7, <1>8, <2>1, <2>2, <2>3
<1> DEFINE on   == {gpu \in Gpus : node[gpu] = k}
           held == UNION {gpu_ids[s] : s \in at(k)}
           left == on \ held
<1>12. IsFiniteSet(held) /\ Cardinality(held) \in Nat /\ Cardinality(held) + t <= size
  <2>1. /\ IsFiniteSet(at(k)) /\ Cardinality(at(k)) \in Nat
        /\ \A s \in at(k) : s \in S
    BY <1>8, FS_Subset, FS_CardinalityType
  <2>2. \A s \in at(k) : IsFiniteSet(gpu_ids[s]) /\ Cardinality(gpu_ids[s]) <= t
    BY <1>3, <1>10, <2>1
  <2> HIDE DEF at
  <2>3. IsFiniteSet(held) /\ Cardinality(held) <= t * Cardinality(at(k))
    BY <1>3, <2>1, <2>2, UnionAtMost
  <2> DEFINE c == Cardinality(at(k))
  <2>4. c \in Nat /\ c + 1 <= q
    BY <1>4, <1>11, <2>1
  <2> HIDE DEF c
  <2>5. t * (c + 1) <= t * q
    BY <1>3, <1>4, <2>4
  <2>6. t * (c + 1) = t * c + t /\ t * c \in Int
    BY <1>3, <2>4
  <2>7. Cardinality(held) \in Nat
    BY <2>3, FS_CardinalityType
  <2>8. Cardinality(held) <= t * c
    BY <2>3 DEF c
  <2> HIDE DEF held
  <2> QED
    BY <1>2, <1>3, <1>4, <2>3, <2>5, <2>6, <2>7, <2>8
<1>13. IsFiniteSet(on) /\ Cardinality(on) = size
  <2>1. on = {gpu \in 1..(nodes * size) : (gpu - 1) \div size = k}
    BY <1>5 DEF node
  <2>2. /\ IsFiniteSet({gpu \in 1..(nodes * size) : (gpu - 1) \div size = k})
        /\ Cardinality({gpu \in 1..(nodes * size) : (gpu - 1) \div size = k}) = size
    <3> HIDE DEF on, held, left, at
    <3> QED
      BY <1>2, <1>11, NodesAreIntervals
  <2> QED
    BY <2>1, <2>2
<1>14. IsFiniteSet(left) /\ t <= Cardinality(left)
  <2> HIDE DEF on, held
  <2>1. IsFiniteSet(left) /\ Cardinality(left) = Cardinality(on) - Cardinality(on \cap held)
    BY <1>13, FS_Difference
  <2>2. IsFiniteSet(on \cap held) /\ Cardinality(on \cap held) <= Cardinality(held)
    BY <1>12, FS_Intersection
  <2>3. Cardinality(on \cap held) \in Nat
    BY <2>2, FS_CardinalityType
  <2> QED
    BY <1>2, <1>3, <1>12, <1>13, <2>1, <2>2, <2>3
<1>15. ASSUME NEW gpu \in left
       PROVE  gpu \in Eligible(asked, inventory)
  <2>1. gpu \in Gpus /\ node[gpu] = k
    OBVIOUS
  <2>2. Holders(gpu) = {}
    <3> SUFFICES ASSUME NEW s \in Holders(gpu) PROVE FALSE
      OBVIOUS
    <3>1. s \in Replicas /\ outcome[s] = "running" /\ gpu \in gpu_ids[s]
      BY DEF Holders
    <3>2. s \in 1..R
      BY <3>1 DEF Placing, Placed, R
    <3>3. s \in S
      BY <3>1, <3>2
    <3>4. home[s] = k
      BY <1>10, <2>1, <3>1, <3>3
    <3>5. gpu \in held
      BY <3>1, <3>3, <3>4
    <3> QED
      BY <3>5
  <2>3. inventory[gpu].free_memory_gib = plan.free[gpu] /\ inventory[gpu].capabilities = {"bf16"}
    BY <2>1, <2>2 DEF Placing, Listed
  <2>4. /\ asked.memory_gib_per_gpu <= plan.free[gpu] /\ asked.memory_gib_per_gpu \in Int
        /\ asked.required_capabilities = {"bf16"}
    BY <2>1, RequestIs
  <2>5. plan.free[gpu] \in Int
    BY <1>1, <2>1, PlanType
  <2> HIDE DEF asked
  <2> QED
    BY <2>1, <2>3, <2>4, <2>5 DEF Eligible
<1>16. PICK T \in SUBSET left : Cardinality(T) = t
  <2> HIDE DEF left
  <2> QED
    BY <1>3, <1>14, PartOfSize
<1>17. Cardinality({inventory[gpu].node : gpu \in T}) = 1
  <2>1. T # {}
    BY <1>3, <1>16, FS_EmptySet
  <2>2. \A gpu \in T : inventory[gpu].node = k
    BY <1>9, <1>16
  <2>3. {inventory[gpu].node : gpu \in T} = {k}
    BY <2>1, <2>2
  <2> QED
    BY <2>3, FS_Singleton
<1>18. asked.gpus_required = t
  BY <1>3, RequestIs DEF GpusPerReplica, t
<1>19. T \in SUBSET Eligible(asked, inventory)
  BY <1>15, <1>16
<1> HIDE DEF asked
<1>20. T \in Groups(asked, inventory)
  BY <1>16, <1>17, <1>18, <1>19 DEF Groups, kSubset
<1> QED
  BY <1>20 DEF asked

(* What a group is that placement proposes for such a request. *)
LEMMA GroupIs ==
  ASSUME IInv, Ready, changed = "nothing",
         NEW group \in Groups(RequestFor(report.parallel, report.memory), inventory)
  PROVE  /\ group \in SUBSET Gpus
         /\ Cardinality(group) = GpusPerReplica(report.parallel)
         /\ \A a, b \in group : inventory[a].node = inventory[b].node
<1> DEFINE asked == RequestFor(report.parallel, report.memory)
           node  == [gpu \in Gpus |-> inventory[gpu].node]
<1>1. /\ asked.gpus_required = GpusPerReplica(report.parallel)
      /\ asked.gpus_required \in Nat \ {0} /\ asked.require_same_node
  BY RequestIs
<1> HIDE DEF asked
<1>2. /\ group \in SUBSET Eligible(asked, inventory)
      /\ Cardinality(group) = asked.gpus_required
      /\ Cardinality({inventory[gpu].node : gpu \in group}) = 1
  BY <1>1 DEF Groups, kSubset, asked
<1>3. group \in SUBSET Gpus
  BY <1>2 DEF Eligible
<1>4. IsFiniteSet(group) /\ group # {}
  BY <1>1, <1>2, <1>3, InventoryAssumption, FS_Subset, FS_EmptySet
<1>5. {inventory[gpu].node : gpu \in group} = {node[gpu] : gpu \in group}
  BY <1>3
<1>6. \A a, b \in group : node[a] = node[b]
  <2> HIDE DEF node
  <2>1. Cardinality({node[gpu] : gpu \in group}) = 1
    BY <1>2, <1>5
  <2>2. Cardinality({node[gpu] : gpu \in group}) = 1 <=> \A a, b \in group : node[a] = node[b]
    BY <1>4, OneValue, Zenon
  <2> QED
    BY <2>1, <2>2
<1> QED
  BY <1>1, <1>2, <1>3, <1>6

(* A planner's step: none is refused in vain, and a reservation writes down  *)
(* what it takes.                                                            *)
LEMMA PlannerKeeps ==
  ASSUME IInv, Placing, Ready, changed = "nothing",
         NEW r \in 1..report.capacity.required_replicas, Planner(r),
         UNCHANGED <<plan, report, changed>>
  PROVE  Placing'
<1> DEFINE asked == RequestFor(report.parallel, report.memory)
<1>1. r \in Replicas /\ Reported
  BY ReadyMeans, PlanAssumption
<1>2. /\ DOMAIN seen = Replicas /\ DOMAIN gpu_ids = Replicas /\ DOMAIN outcome = Replicas
      /\ Listed /\ request[r] = asked
      /\ \A s \in Replicas : request[s] = asked
      /\ \A s \in Replicas : outcome[s] # "wanted" => Placed(s)
  BY <1>1 DEF Placing
<1>3. plan' = plan /\ report' = report /\ changed' = changed /\ Reported' /\ Ready'
  BY <1>1 DEF Reported, Ready
<1>4. ASSUME UNCHANGED <<inventory, request>>,
             DOMAIN seen' = Replicas, DOMAIN gpu_ids' = Replicas, DOMAIN outcome' = Replicas,
             outcome[r] # "running", outcome'[r] # "running",
             \A s \in Replicas \ {r} : outcome'[s] = outcome[s] /\ gpu_ids'[s] = gpu_ids[s],
             outcome'[r] # "wanted" => Placed(r)'
      PROVE  Placing'
  <2>1. \A gpu \in Gpus : Holders(gpu)' = Holders(gpu)
    BY <1>4 DEF Holders
  <2>2. Listed'
    BY <1>2, <1>3, <1>4, <2>1 DEF Listed
  <2>3. ASSUME NEW s \in Replicas \ {r}, outcome'[s] # "wanted"
        PROVE  Placed(s)'
    <3>1. Placed(s)
      BY <1>2, <1>4, <2>3
    <3>2. outcome'[s] = outcome[s] /\ gpu_ids'[s] = gpu_ids[s] /\ inventory' = inventory
      BY <1>4, <2>3
    <3> QED
      BY <1>3, <3>1, <3>2 DEF Placed
  <2>4. \A s \in Replicas : request'[s] = RequestFor(report'.parallel, report'.memory)
    BY <1>2, <1>3, <1>4
  <2> QED
    BY <1>4, <2>2, <2>3, <2>4 DEF Placing
<1>5. ASSUME Plan(r)
      PROVE  /\ outcome[r] = "wanted" /\ seen'[r] = inventory /\ DOMAIN seen' = Replicas
             /\ UNCHANGED <<inventory, request>>
             /\ Valid(request[r], seen'[r])
             /\ report.parallel.pipeline_parallel = 1 => Groups(request[r], seen'[r]) # {}
  <2>1. /\ outcome[r] = "wanted" /\ seen'[r] = inventory /\ DOMAIN seen' = Replicas
        /\ UNCHANGED <<inventory, request>>
    BY <1>1, <1>2, <1>5 DEF Plan
  <2>2. asked.gpus_required > 0 /\ asked.memory_gib_per_gpu > 0
    BY RequestIs
  <2>3. \A gpu \in Gpus : inventory[gpu].free_memory_gib >= 0
    BY <1>2 DEF Listed
  <2>4. report.parallel.pipeline_parallel = 1 => Groups(asked, inventory) # {}
    BY <2>1, GroupLeft
  <2> HIDE DEF asked
  <2> QED
    BY <1>2, <2>1, <2>2, <2>3, <2>4 DEF Valid
<1>6. CASE Propose(r)
  <2>1. Plan(r)
    BY <1>6 DEF Propose
  <2>2. PICK group \in Best(request[r], seen'[r]) : gpu_ids' = [gpu_ids EXCEPT ![r] = group]
    BY <1>6 DEF Propose
  <2>3. outcome' = [outcome EXCEPT ![r] = "planned"]
    BY <1>6 DEF Propose
  <2>4. group \in Groups(asked, inventory)
    BY <1>2, <1>5, <2>1, <2>2 DEF Best
  <2>5. /\ group \in SUBSET Gpus
        /\ Cardinality(group) = GpusPerReplica(report.parallel)
        /\ \A a, b \in group : inventory[a].node = inventory[b].node
    BY <2>4, GroupIs
  <2>6. outcome'[r] = "planned" /\ gpu_ids'[r] = group /\ inventory' = inventory
    BY <1>1, <1>2, <1>5, <2>1, <2>2, <2>3
  <2>7. Placed(r)'
    BY <1>3, <2>5, <2>6 DEF Placed
  <2> QED
    BY <1>1, <1>2, <1>4, <1>5, <2>1, <2>2, <2>3, <2>6, <2>7
<1>7. CASE Refuse(r)
  <2>1. /\ Plan(r) /\ Groups(request[r], seen'[r]) = {}
        /\ outcome' = [outcome EXCEPT ![r] = "refused"] /\ gpu_ids' = gpu_ids
    BY <1>7 DEF Refuse
  <2>2. report.parallel.pipeline_parallel # 1 /\ outcome'[r] = "refused"
    BY <1>1, <1>2, <1>5, <2>1
  <2>3. Placed(r)'
    BY <1>3, <2>2 DEF Placed
  <2> QED
    BY <1>1, <1>2, <1>4, <1>5, <2>1, <2>2, <2>3
<1>8. CASE Raise(r)
  BY <1>5, <1>8 DEF Raise
<1>9. CASE Conflict(r)
  <2>1. /\ outcome[r] = "planned" /\ outcome' = [outcome EXCEPT ![r] = "wanted"]
        /\ gpu_ids' = [gpu_ids EXCEPT ![r] = {}]
        /\ UNCHANGED <<inventory, request, seen>>
    BY <1>9 DEF Conflict
  <2>2. outcome'[r] = "wanted"
    BY <1>1, <1>2, <2>1
  <2> QED
    BY <1>2, <1>4, <2>1, <2>2
<1>10. CASE Reserve(r)
  <2>1. /\ outcome[r] = "planned" /\ StillEligible(r)
        /\ inventory' =
             [gpu \in Gpus |->
                IF gpu \in gpu_ids[r]
                  THEN [inventory[gpu] EXCEPT
                          !.free_memory_gib = @ - request[r].memory_gib_per_gpu,
                          !.resident_models = @ \cup {request[r].model_revision}]
                  ELSE inventory[gpu]]
        /\ outcome' = [outcome EXCEPT ![r] = "running"]
        /\ UNCHANGED <<request, seen, gpu_ids>>
    BY <1>10 DEF Reserve
  <2>2. /\ outcome'[r] = "running"
        /\ \A s \in Replicas \ {r} : outcome'[s] = outcome[s]
        /\ DOMAIN outcome' = Replicas
    BY <1>1, <1>2, <2>1
  <2>3. asked.memory_gib_per_gpu \in Int
    BY RequestIs
  <2>4. ASSUME NEW gpu \in gpu_ids[r], gpu \in Gpus
        PROVE  /\ DOMAIN inventory'[gpu] = GpuFields
               /\ inventory'[gpu].node = inventory[gpu].node
               /\ inventory'[gpu].capabilities = inventory[gpu].capabilities
               /\ inventory'[gpu].free_memory_gib \in Nat
               /\ Holders(gpu)' # {}
    <3>1. inventory'[gpu] =
            [inventory[gpu] EXCEPT
               !.free_memory_gib = inventory[gpu].free_memory_gib - asked.memory_gib_per_gpu,
               !.resident_models = inventory[gpu].resident_models \cup {asked.model_revision}]
      BY <1>2, <2>1, <2>4
    <3>2. DOMAIN inventory[gpu] = GpuFields /\ inventory[gpu].free_memory_gib \in Nat
      BY <1>2, <2>4 DEF Listed
    <3>3. inventory[gpu].free_memory_gib >= asked.memory_gib_per_gpu
      BY <1>2, <2>1, <2>4 DEF StillEligible, Eligible
    <3> HIDE DEF asked
    <3>4. /\ DOMAIN inventory'[gpu] = GpuFields
          /\ inventory'[gpu].node = inventory[gpu].node
          /\ inventory'[gpu].capabilities = inventory[gpu].capabilities
          /\ inventory'[gpu].free_memory_gib
               = inventory[gpu].free_memory_gib - asked.memory_gib_per_gpu
      BY <3>1, <3>2 DEF GpuFields
    <3>5. r \in Holders(gpu)'
      BY <1>1, <2>1, <2>2, <2>4 DEF Holders
    <3> QED
      BY <2>3, <3>2, <3>3, <3>4, <3>5
  <2>5. ASSUME NEW gpu \in Gpus, gpu \notin gpu_ids[r]
        PROVE  inventory'[gpu] = inventory[gpu] /\ Holders(gpu)' = Holders(gpu)
    <3>1. inventory'[gpu] = inventory[gpu]
      BY <2>1, <2>5
    <3>2. Holders(gpu)' = Holders(gpu)
      BY <2>1, <2>2, <2>5 DEF Holders
    <3> QED
      BY <3>1, <3>2
  <2>6. \A gpu \in Gpus : inventory'[gpu].node = inventory[gpu].node
    BY <2>4, <2>5
  <2>7. Listed'
    <3> SUFFICES ASSUME NEW gpu \in Gpus
                 PROVE  /\ DOMAIN inventory'[gpu] = GpuFields
                        /\ inventory'[gpu].node = (gpu - 1) \div plan.topology.gpus_per_node
                        /\ inventory'[gpu].capabilities = {"bf16"}
                        /\ inventory'[gpu].free_memory_gib \in Nat
                        /\ Holders(gpu)' = {} =>
                             inventory'[gpu].free_memory_gib = plan.free[gpu]
      BY <1>3 DEF Listed
    <3>1. /\ DOMAIN inventory[gpu] = GpuFields
          /\ inventory[gpu].node = (gpu - 1) \div plan.topology.gpus_per_node
          /\ inventory[gpu].capabilities = {"bf16"}
          /\ inventory[gpu].free_memory_gib \in Nat
          /\ Holders(gpu) = {} => inventory[gpu].free_memory_gib = plan.free[gpu]
      BY <1>2 DEF Listed
    <3>2. CASE gpu \in gpu_ids[r]
      BY <2>4, <3>1, <3>2
    <3>3. CASE gpu \notin gpu_ids[r]
      BY <2>5, <3>1, <3>3
    <3> QED
      BY <3>2, <3>3
  <2>8. ASSUME NEW s \in Replicas, outcome'[s] # "wanted"
        PROVE  Placed(s)'
    <3>1. Placed(s)
      BY <1>2, <2>1, <2>2, <2>8
    <3>2. /\ \/ outcome[s] = "planned" /\ outcome'[s] = "running"
             \/ outcome'[s] = outcome[s]
          /\ gpu_ids' = gpu_ids
      BY <2>1, <2>2, <2>8
    <3>3. (outcome'[s] = "refused" /\ outcome[s] = "refused")
             \/ (outcome'[s] \in {"planned", "running"} /\ outcome[s] \in {"planned", "running"})
      BY <3>1, <3>2 DEF Placed
    <3>4. \A a, b \in gpu_ids[s] :
            (gpu_ids[s] \in SUBSET Gpus /\ inventory[a].node = inventory[b].node) =>
              inventory'[a].node = inventory'[b].node
      BY <2>6
    <3> QED
      BY <1>3, <3>1, <3>2, <3>3, <3>4 DEF Placed
  <2> QED
    BY <1>2, <1>3, <2>1, <2>2, <2>7, <2>8 DEF Placing
<1> QED
  BY <1>6, <1>7, <1>8, <1>9, <1>10 DEF Planner, PlaceReplica

LEMMA PlacingInvariance == FleetSpec => []Placing
<1>1. FleetInit => Placing
  <2> SUFFICES ASSUME FleetInit PROVE Placing
    OBVIOUS
  <2>1. /\ plan \in Plans /\ report = NotPlanned /\ inventory = Inventory(plan)
        /\ seen = [r \in Replicas |-> <<>>] /\ gpu_ids = [r \in Replicas |-> {}]
        /\ outcome = [r \in Replicas |-> "wanted"]
    BY DEF FleetInit
  <2>2. Listed
    <3>1. \A gpu \in Gpus : plan.free[gpu] \in Nat
      BY <2>1, PlanType
    <3>2. ASSUME NEW gpu \in Gpus
          PROVE  /\ inventory[gpu].node = (gpu - 1) \div plan.topology.gpus_per_node
                 /\ inventory[gpu].free_memory_gib = plan.free[gpu]
                 /\ inventory[gpu].capabilities = {"bf16"}
                 /\ DOMAIN inventory[gpu] = GpuFields
      BY <2>1 DEF Inventory, GpuFields
    <3> QED
      BY <3>1, <3>2 DEF Listed
  <2>3. ~Reported
    BY <2>1 DEF Reported
  <2> QED
    BY <2>1, <2>2, <2>3 DEF Placing
<1>2. IInv /\ Placing /\ [FleetNext]_fleetVars => Placing'
  <2> SUFFICES ASSUME IInv, Placing, [FleetNext]_fleetVars PROVE Placing'
    OBVIOUS
  <2>1. CASE FirstCall
    <3>1. /\ report = NotPlanned /\ plan' = plan /\ inventory' = inventory
          /\ gpu_ids' = gpu_ids /\ outcome' = outcome /\ seen' = seen /\ changed' = changed
          /\ request' = [r \in Replicas |->
                           IF report' = Raises THEN <<>>
                           ELSE RequestFor(report'.parallel, report'.memory)]
      BY <2>1 DEF FirstCall
    <3>2. \A r \in Replicas : outcome[r] = "wanted"
      BY <3>1 DEF Placing, Placed, Ready, Reported
    <3>3. Reported' =>
            \A r \in Replicas : request'[r] = RequestFor(report'.parallel, report'.memory)
      BY <3>1 DEF Reported
    <3>4. \A gpu \in Gpus : Holders(gpu)' = Holders(gpu)
      BY <3>1 DEF Holders
    <3>5. Listed => Listed'
      BY <3>1, <3>4 DEF Listed
    <3> QED
      BY <3>1, <3>2, <3>3, <3>5 DEF Placing
  <2>2. ASSUME NEW given, NEW what, CallWith(given, what), what # "nothing"
        PROVE  Placing'
    <3>1. /\ changed' # "nothing" /\ outcome' = outcome /\ seen' = seen /\ gpu_ids' = gpu_ids
          /\ \A r \in Replicas : outcome[r] = "wanted"
      BY <2>2 DEF CallWith
    <3> QED
      BY <3>1 DEF Placing
  <2>3. CASE \E w \in plan.workloads : DropWorkload(w)
    BY <2>2, <2>3 DEF DropWorkload
  <2>4. CASE \E gpu \in Gpus : ShrinkInventory(gpu)
    BY <2>2, <2>4 DEF ShrinkInventory
  <2>5. CASE \E field \in DOMAIN WorseCanary : RegressCanary(field)
    BY <2>2, <2>5 DEF RegressCanary
  <2>6. CASE \E bound \in OtherBounds : MoveTokenBound(bound)
    BY <2>2, <2>6 DEF MoveTokenBound
  <2>7. CASE PlaceNext
    <3>1. Ready /\ changed = "nothing" /\ UNCHANGED <<plan, report, changed>>
      BY <2>7 DEF PlaceNext, Ready, Reported
    <3>2. PICK r \in 1..report.capacity.required_replicas : Planner(r)
      BY <2>7 DEF PlaceNext
    <3> QED
      BY <3>1, <3>2, PlannerKeeps
  <2>8. CASE UNCHANGED fleetVars
    BY <2>8 DEF fleetVars, vars, Placing, Listed, Holders, Placed, Ready, Reported
  <2> QED
    BY <2>1, <2>3, <2>4, <2>5, <2>6, <2>7, <2>8 DEF FleetNext
<1> QED
  BY <1>1, <1>2, Invariance, PTL DEF FleetSpec

(* A ready plan whose replicas are split by tensor width only finds devices  *)
(* for every replica, whatever the order and the races of its planners.      *)
THEOREM TensorReplicasFit == FleetSpec => []TensorReplicasPlaceable
<1>1. Placing => TensorReplicasPlaceable
  BY DEF Placing, Placed, TensorReplicasPlaceable
<1> QED
  BY <1>1, PlacingInvariance, PTL

====
