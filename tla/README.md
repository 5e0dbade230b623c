# A TLA+ development of the inference-platform decisions

The repository is a set of decision components for an LLM inference fleet, written in
plain Python (`inference_platform/*.py`), a capstone that chains them
(`hands_on/plan_fleet.py`) and lessons that call them one by one. Nothing in it runs in
threads or over a network. What is hard about it is state kept over many calls
(admission, prefix cache), a scheduling loop (batching), a control loop whose inputs are
delayed and partly missing (autoscaling), pure plans that race once several planners use
them (placement), gates whose thresholds point in different directions and are passed
again and again (rollouts and its siblings), and numbers that one component computes and
another relies on (the capstone). The modules below follow these six lines.

Paths are relative to the repository's root.

## 1. Inventory

| Component | State | Operations | Hard behaviour | What makes it correct |
|---|---|---|---|---|
| admission control, `admission.py` | two counters and a table of decisions | `decide`, `release` | retries, errors, releases in any order; limits reached exactly | counters equal a recount of the table; policy never exceeded; decisions stick; sheds are permanent; no room wasted |
| prefix cache, `prefix_cache.py` | dictionary from scope and digest to token prefix | `store`, `lookup` | order of overlapping stores, digests that coincide across scopes, block boundaries | longest computed prefix of the same scope, in complete blocks, never lost |
| batching simulator, `batching.py` | pending, waiting, active requests, the step | one call, a loop of turns | arrivals, freed lanes and idle jumps in one turn | capacity, FIFO service, no idle lane (continuous), drained batches (static), it returns |
| autoscaler, `autoscaling.py` | none of its own; reads observations, replica counts, policy | `recommend_replicas` | stale carried-forward counts, lost observations, cooldown and window boundaries, refused calls | target in bounds, recent peaks kept, no raise in the cooldown, no cut before a window, convergence |
| placement, `placement.py` | none of its own; reads an inventory | `place_replica` | planners that race between plan and reservation, stale refusals, ranking ties | devices not oversubscribed, groups together, refusals right, cold loads only when forced, everybody answered |
| rollout gate, `rollouts.py` | none; its baseline is the release promoted before | `evaluate_rollout` | readiness before regressions, two baselines of quality, promotion after promotion | monotone in every measurement; named controls are the whole reason; erosion is bounded |
| quantization gate, `quantization.py` | none | `evaluate_quantization` | every failed control is reported | the same, for staging |
| service metrics, `metrics.py` | none | `evaluate_service` | ceiling of the p95 rank, one-token responses, idle time in the window | the tail is the nearest rank; slower traces never pass |
| speculative decoding gate, `speculative.py` | none | `evaluate_speculation` | the token after a fully accepted draft | emitted tokens were supplied; costlier rounds never pass |
| capacity, `capacity.py` | none | `plan_capacity` | ceilings, ties, the replica floor | smallest sufficient fleet |
| memory, `memory.py` | none | `assess_memory` | floor against comparison at the boundary | fit and maximum concurrency agree |
| parallel layout, `parallelism.py` | none | `plan_parallelism` | counting replicas that a cluster cannot hold | replicas counted can be placed |
| capstone, `hands_on/plan_fleet.py` | the report of a call | `run_plan` | numbers passed from one component to the next; inputs that are removed or made worse | evidence only for what was decided on consistent numbers; a worse input never helps |

Interactions. Only the capstone calls the components: capacity gives the replica count to
the layout and the demand to the autoscaler, memory gives the per-device need to layout
and placement, the layout gives the group size to placement; admission and the rollout
gate are exercised beside them, and the report compares the evidence with a fixed set.
Placement, autoscaling and the rollout gate name, in their docstrings, the party that
calls them: an orchestration that re-checks and reserves (`placement.py:53-55`), a loop
that applies targets and keeps observations (`autoscaling.py:57-86`), a release tooling
that moves traffic (`rollouts.py:69-71`). These parties are modelled as external actions.

## 2. Modules

| Module | Models |
|---|---|
| `AdmissionLedger` | abstract: a book of entries with no counters |
| `Admission` | `AdmissionController`, one action per way a call can end |
| `PrefixIndex` | abstract: the set of computed prefixes of each scope |
| `PrefixCache` | `PrefixCache` with its dictionary and digests |
| `Batching`, `BatchingCompare` | `simulate_batching`, one step per turn of its loop; two calls on one workload, as lesson 3 and the tests make them |
| `Autoscaling` | `recommend_replicas` in its control loop |
| `Placement` | `place_replica` under racing planners |
| `Rollouts`, `Quantization`, `Metrics`, `Speculative` | the four evidence gates as operators, validation included |
| `Gates` | composes the four: a gate asked again and again, releases promoted one after the other |
| `Capacity`, `Memory`, `Parallelism` | the three sizings as operators, validation included |
| `FleetPlan` | `run_plan`: composes the sizings, `Placement`, `Rollouts` and the decision of `Autoscaling` |
| `MeasuredFields` | the fields of the measurements, what they may hold, and which of two values speaks for a candidate |
| `CommonLemmas` | lemmas that several proofs need: maximum and minimum, sums of functions, counting, positions in a finite order, monotonicity of the rollout gate |
| `AdmissionProofs`, `PrefixCacheProofs`, `BatchingProofs`, `AutoscalingProofs`, `PlacementProofs`, `GatesProofs`, `FleetPlanProofs` | the theorems |
| `MC...` | constants of the small instances |

**Admission.** `live_tokens`, `queued_requests` and `decisions` are the three attributes
of the controller (a missing key is `Absent`); `reply` is what the caller gets, an
exception included. `decide` is seven actions in the order of its branches: `Replay`,
`RejectCall` (the four validation errors), `ShedOversize`, `ShedLate`, `Admit`, `Enqueue`,
`ShedFull`. `release` is four: unknown, shed, admitted, queued. A call is one step because
nothing can run inside it. Reason texts are reduced to the boundary they name.

**PrefixCache.** `entries` is `_entries`, `Digest` is `_digest` and arbitrary: in the
instance two scopes share digests. The refinement reads the dictionary as the set of pairs
of scope and prefix.

**Batching.** The variables have the names of the code's locals. Workload, capacity and
mode are chosen in `Init`. `Fill` is the part all turns share (arrivals and refilling);
`Jump` ends a turn with nothing to decode, `Decode` decodes one token for each member,
`Return` is lines 109-113. The inner loops are closed forms: the longest arrived prefix of
`pending`, and as many of the queue as lanes are free.

**Autoscaling.** The recommendation is six actions, one per branch and one for the refused
call. External are the sampling (which can miss), the clock, the cluster (replicas start,
warm, end, fail), the load and the operator's bounds. Times are kept as ages. That the
caller drops observations older than `MaxAge` is a bound of the model; `MaxAge >= Window`
is the retention the docstring needs.

**Placement.** `seen[r]` is the snapshot a planner planned on, `gpu_ids[r]` its proposal.
`Propose`, `Refuse` and `Raise` are the three ends of `place_replica`. `Reserve` and
`Conflict` are the external re-check and reservation; `Finish` ends a replica.

**Gates.** `asked` is a gate with its evidence and requirements, `answer` what the gate
returned (`Raised` for an exception). `Evaluate` is the first call, `Remeasure` a call
with one measurement taken anew, as the tests vary one field with `replace(...)`.
`Promote` is external: the promoted candidate is the baseline of the next. A control is
named by a short word instead of its sentence, and the sentence of a pass is the empty
set.

**FleetPlan.** `RunPlan` is the body of `run_plan` up to the report; the four groups of
constants it reads are the module constants of `plan_fleet.py`. `FirstCall` calls it,
`DropWorkload`, `ShrinkInventory`, `RegressCanary` and `MoveTokenBound` call it again with
one input made worse, as the tests do; a token bound is worse that stops the benign probe
or lets the oversize one pass. `Warm` are the devices that hold the weights to begin with
(as `a0` and `a1` in `plan_fleet.py:75-76`). `PlaceNext` is external: it carries a ready plan
out with one planner per replica. `run_plan` itself asks only for the first replica;
placing all of them checks that the count means something. A demand in replicas is kept
as a fraction of load and supply and compared by cross-multiplication, so nothing is
rounded before the ceiling. The scaling policy and the two admission probes are decided
by the definitions of `Autoscaling` and by the branch structure of `decide` on a fresh
controller.

## 3. Runs

| Run | Expect | Shows | Bounds |
|---|---|---|---|
| `admission` | pass | counters backed, policy kept, decisions stick, ledger implemented | 3 callers and a blank one, budget 3, one queue slot, token counts below zero to above the bound |
| `admission_queued` | violation | a request that can never run is queued | budget 1, bound 2 |
| `prefix_cache` | pass | longest complete reuse, isolation, nothing lost | 2 tenants and a blank scope, blocks of 2, prompts of 1 to 5 tokens and a negative one |
| `prefix_shared` | violation | shared blocks are not always reused | the same |
| `batching` | pass | the scheduling claims; both calls return; continuous never later than static; shifting changes nothing | every workload of 4 requests, arrivals {0,1,4}, lengths {1,3}, 1 to 3 lanes, two calls |
| `autoscaling` | pass | bounds, peak, cooldown, window, convergence | 3 loads, 2 pairs of bounds, cooldown 2, window 2, age 3 |
| `autoscaling_lull` | violation | a single low sample scales down | the same with 2 loads |
| `placement` | pass | races, stale refusals, ranking, answers | 3 planners, 4 devices on 2 nodes, 3 inventories, 5 requests |
| `fleet_plan` | pass | the sizings agree, worse inputs never help, counted tensor replicas can be placed | 6 devices on 1, 2, 3 or 6 nodes, 6 mixes, 3 planners |
| `capacity_bottleneck` | violation | the named bottleneck need not bind first | the same |
| `fleet_ready` | violation | a ready pipeline fleet need not be placeable | the same |
| `gates` | pass | worse evidence never passes, controls are the reason, erosion bounded, p95 exact, tokens supplied | values on both sides of every threshold, 3 promotions, 1 to 40 traces, drafts of 1 and 3 |

Why the bounds are enough. Admission: three callers are one admitted, one queued and one
shed at once, with an identifier that comes back; budget and bound are both hit exactly and
exceeded by one. Prefix cache: prompts below, at and above one and two blocks, nested and
diverging ones, and coinciding digests. Batching: four requests on three lanes leave one
waiting; arrivals 0, 1 and 4 give ties, an arrival inside a batch and an idle gap. Autoscaling:
window and cooldown are longer than one tick, observations live one tick longer than the
window, and changing the bounds lowers the ceiling and raises the floor of a running
fleet. Placement: three planners are a winner, a loser and one that sees both outcomes;
inventories mix warm, cold, roomier and incapable devices. Fleet plan: six has divisors
that make widths dividing and not dividing a node; the mixes need two, three and four
replicas of at most three, are bound by decode, by concurrency and by the floor, hit a
whole number exactly, and one is invalid; concurrency targets lie below, at and above what
fits. Gates: every measurement is at, on either side of, or outside the accepted range
(so that a call raises); samples of 19, 20, 21 and 40 traces lie around the steps of the
ceiling; two promotions that each lose the allowed quality reach the floor, and a third is open.

`CHECK_DEADLOCK FALSE` is set where the system ends: simulations that returned, planners
that all have their answer, a plan that was carried out. Symmetry is used for callers and
tenants in runs of safety properties only.

Fairness. `Batching`: weak fairness of the next turn, since a call is one running loop and
its caller waits for it. `Autoscaling`: of the control loop and of the cluster's promises
(a wanted replica is provisioned, warms, a surplus one ends); nothing is assumed of
failures, load or operator, and convergence is claimed from the moment these stay put.
`Placement`: of every planner; none that a replica ever finishes. The other specifications
have none.

## 4. Where the code and its documents differ

Each of the first five has a run that shows it.

1. `admission.py:4-7` says what cannot run is shed and not "silently abandoned". With
   `max_tokens_per_request > max_live_tokens` a request larger than the whole budget is
   queued on an idle controller and can never be admitted.
2. `README.md:133` says the same token prefix reuses complete cached blocks. The lookup
   only matches whole stored sequences (`prefix_cache.py:77-78`).
3. `autoscaling.py:70-71` says a complete window keeps a brief lull from ending warm
   models. `covers_window` (`autoscaling.py:103`) asks only that the oldest observation is
   old enough; with lost scrapes one low sample scales down.
4. `capacity.py:71-73` says the bottleneck is the dimension that would bind first as
   traffic grows. The replica floor takes part in the comparison (`capacity.py:108`) and
   is named when its integer demand is the largest of a tie, but it does not grow.
5. `README.md:236-240` says the plan passes only when the cluster can provide all its
   complete replicas. The layout divides all devices by the group size
   (`parallelism.py:95`), placement wants a group on one node, and only the first replica
   is placed: with three nodes of three devices and pipeline groups of two, four replicas
   are counted and three can be placed. Groups split by tensor width only are safe
   (`TensorReplicasPlaceable`).

Read, without a run of its own: `README.md:180` says a rejection mutates no state, while
`admission.py:122` records it. The counters stay; the record is what makes the rejection
permanent (`ShedPermanent`).

## 5. Proofs

All theorems hold for every value of the constants that satisfies the named assumptions of
the modules. Beyond those, a theorem states its own assumption where it needs one.

**AdmissionProofs**, for every policy, every set of identifiers (finite or not), every
range of tokens and times: type correctness, both counters backed by the table, the policy
respected, sheds permanent, decisions sticky, no room wasted, and `Admission` implements
`AdmissionLedger`. The stated invariants are not inductive alone: that `live_tokens`
equals the number of reserved tokens survives a step only if the set of reserved tokens is
finite (its cardinality means nothing otherwise), if the counters are within the policy
and if every recorded reservation is a natural number. `IInv` conjoins them. Reserved
tokens are counted as a set of pairs of holder and token number, so a sum over the table
becomes a cardinality; `ReservedGrows`, `ReservedShrinks` and `ReservedKept`, and the same
for the queue, say how each kind of step changes it.

**PrefixCacheProofs**: type correctness, complete blocks, content addressing, isolation of
scopes for every digest whatsoever. That reuse never shrinks and that the dictionary
implements `PrefixIndex` assume `DigestTellsApart`: within one scope, two sequences of
complete blocks have different digests. Across scopes they may coincide. The invariant is
that an entry under a key is a sequence of complete blocks of valid tokens whose digest in
that scope is the key; from it, a store overwrites only an equal sequence.

**BatchingProofs**, for every finite workload, every number of lanes, both modes and every
shift: capacity, service in the order of arrival, drained static batches, no idle lane in
continuous mode, the returned span and waits, continuous never later than static, and a
shift changing nothing. None is inductive alone. `IInv` says that the line of requests that
were never served, waiting and pending together, is sorted and is all of them (`LineOK`);
that a request decodes without a pause from its first service on, so its first service and
its length say everything about it (`ServedOK`); that no step of the past took more than
the lanes, or less than the mode allowed (`History`, `Drained`); and what a finished call
returned (`Ending`, `ResultOK`). Two calls are compared through their schedules. A schedule
that starts in order, never exceeds the lanes and leaves none idle starts every request no
later than any schedule that keeps the first two rules, and only one schedule keeps all
three: look at the first request that starts too late.

**AutoscalingProofs**: bounds, recent peaks, cooldown and window, for every policy and
history. The type invariant suffices as inductive invariant; the work is in the maximum of
the demands in the window (`CommonLemmas`) and in the clamp, which is monotone.

**PlacementProofs**: no oversubscription, locality, right refusals, warm weights. The
invariant ties the three places where memory is counted: what is free on a device plus the
units its running replicas hold is what was installed. Units are pairs of holder and
number, as above. A proposal that is still eligible is a group of the requested size in the
snapshot it was made from, and nodes and capabilities never change, which is why locality
survives a stale plan. `ColdLoadsForced` needs that the ranking puts resident copies first
(`ProposalIsWarmest`) and that residency only grows between a plan and its reservation
(`Warmest`), whoever else reserves in between.

**GatesProofs**, for any evidence and requirements and any number of promotions: quality
and throughput are bounded, speculative rounds emit only what the target supplied, a
reported tail is the nearest rank for every list of traces, the named controls are the
whole reason of a refusal, and in none of the four gates does a worse measurement turn a
refusal into a pass. The invariant says that an answer belongs to the question asked and
the baseline in force; only then does a promotion compare with the release that runs. The
assumptions: what is measured has the type of its field (`MeasuredAssumption`: integers,
booleans, token sequences), and some ideal measurement satisfies every control
(`IdealAssumption`), without which "putting right what was named" would mean nothing.

**FleetPlanProofs**, for every plan, benchmark, policy and topology: the smallest
sufficient fleet, agreement of fit and concurrency, placement asking only for what fits,
agreement of the two sizings, worse inputs never helping, and the placement of every
replica of a plan that splits by tensor width only. The invariant of the first five
(`IInv`) is that the report is the one `RunPlan` computes from the plan it is kept with.
The rest are facts about the operators: a ceiling is the least integer above a fraction, a
quotient the largest below, some layout is preferred to all others. Of the inputs that can
be spoiled, inventory, canary and token bound are each read by the decision of their own
control only, and a dropped workload asks less of every other decision.

- `WorseInputsNeverHelp` holds of the workloads because their names are distinct from the
  other controls (the code writes `workload:` before them), and of the canary because the
  rollout gate is monotone (`ReleaseGateIsMonotone`).
- `TensorReplicasFit` has an invariant of its own, `Placing`: while a ready plan is placed,
  a device that runs nothing is as it was listed, and every group is on one node. Suppose a
  planner is refused. The width divides the devices of a node, so no node has a free group
  only if all of them are full; then as many groups run as the layout counts, and with the
  refused one more replicas were asked for than the plan has.
- `SizingsAgree` assumes `PoliciesMatch`: the scaling bounds contain the capacity plan's,
  and the usable rate of a replica is not below its benchmark less the headroom. The
  capstone's constants satisfy it (350 x 0.75 in both places); it is a coincidence of two
  constants that nothing in the code enforces, and the theorem says what must be kept.

The module's assumptions are about the constants of `plan_fleet.py:65-92` and their
validation. `PlanAssumption` and `NumbersAssumption`: workloads are a finite tuple, numbers
are numbers, and the layout is not told of larger devices than the inventory and the memory
assessment (three records describe one cluster, each with its own constructor call; nothing
checks that they agree). `PolicyAssumption`: probes, limits and rates are positive, as the
constructors demand. `CanaryAssumption`: releases have the fields of `ReleaseMeasurement`,
and a worse canary is worse than the one the plan has.

No theorem is about a recursive operator, and none uses an induction theorem of the
library, whose operator parameter the provers cannot instantiate. Where a proof needs an
induction (the order of a queue, a sum, a power), it argues that a set of counterexamples
would have a smallest one.

Only model-checked: liveness (`BothCallsReturn`, `Settles`, `EveryReplicaAnswered`), which
is out of the prover's reach. Every invariant and every other action property that a
passing run checks is stated by a theorem.

## 6. Not modelled

- Floating point: times, rates, ratios and memory sizes are integers or exact fractions.
  The one hazard of rounding left without a property is the ceiling of
  `autoscaling.py:134`. Where a property depends on a ceiling (capacity, p95) the models
  have the exact one.
- Reason texts, apart from the boundary or control they name; values that are reported
  and decide nothing (`ready_capacity`, `cpu_utilization`, cost per token, acceptance
  rate, revision and format names).
- Argument validation of `simulate_batching` and of the autoscaling policy, which are
  assumptions on the inputs there.
- The lesson scripts (`examples/`) and `check_setup.py`: they call the components once and
  print, or write the report to a file; no behaviour of their own.

## 7. Plan

Done, in this order: `Admission` with its ledger and proofs, `PrefixCache`, `Batching` and
its comparison, `Autoscaling`, `Placement`, the gates, the fleet plan, and the proofs of
all of them.

Next:

1. `FleetPlanProofs`: a condition on pipeline groups under which every replica of a ready
   plan can be placed, which would delimit the fifth point of section 4.
2. `BatchingProofs`: that a call returns within as many turns as its tokens and arrivals
   allow, a safety statement that is the core of `BothCallsReturn`.
3. `AutoscalingProofs`: that the target stays put when load, bounds and replicas do, the
   safety half of `Settles`.
