---- MODULE Metrics ----
(***************************************************************************)
(* evaluate_service of src/inference_platform/metrics.py on a sequence of  *)
(* traces.  Times are integers; callers choose the decode times so that    *)
(* dividing by the decoded intervals is exact.  Identifiers are not        *)
(* modelled.                                                               *)
(***************************************************************************)
EXTENDS Integers, SequencesExt

Ttft(trace) == trace.first_token_at - trace.arrived_at

E2e(trace) == trace.completed_at - trace.arrived_at

(* A one-token response has no decoded interval (lines 85-90). *)
Tpot(trace) ==
  IF trace.output_tokens = 1 THEN 0
  ELSE (trace.completed_at - trace.first_token_at) \div (trace.output_tokens - 1)

(* Lines 95-97: from the first arrival to the last completion. *)
Window(traces) ==
  Max({t.completed_at : t \in Range(traces)}) - Min({t.arrived_at : t \in Range(traces)})

(* Lines 63-82 and 98; anything else raises. *)
TracesValid(traces, objectives) ==
  /\ traces # <<>>
  /\ \A field \in DOMAIN objectives : objectives[field] >= 0
  /\ \A t \in Range(traces) :
       /\ t.output_tokens > 0
       /\ t.arrived_at <= t.first_token_at /\ t.first_token_at <= t.completed_at
  /\ Window(traces) > 0

(* sorted(values), counted from one: equal values stay in their order. *)
Ascending(values) ==
  LET before(i, j) == values[i] < values[j] \/ (values[i] = values[j] /\ i < j)
      place(j) == Cardinality({i \in DOMAIN values : before(i, j)}) + 1
  IN  [n \in DOMAIN values |-> values[CHOOSE j \in DOMAIN values : place(j) = n]]

(* Mutated form: the quotient is rounded down. *)
NearestRankDown(values) ==
  LET rank == Max({1, (95 * Len(values)) \div 100})
  IN  Ascending(values)[rank]

(* _nearest_rank at 0.95: the ceiling of 0.95 * n, counted from one. *)
NearestRank(values) ==
  LET rank == Max({1, (95 * Len(values) + 99) \div 100})
  IN  Ascending(values)[rank]

P95(Metric(_), traces) == NearestRank([i \in DOMAIN traces |-> Metric(traces[i])])

(* Lines 102-110. *)
ServiceViolations(traces, objectives) ==
  LET tokens == SumFunction([i \in DOMAIN traces |-> traces[i].output_tokens])
      holds  == [ttft       |-> P95(Ttft, traces) <= objectives.max_p95_ttft_seconds,
                 tpot       |-> P95(Tpot, traces) <= objectives.max_p95_tpot_seconds,
                 e2e        |-> P95(E2e, traces) <= objectives.max_p95_e2e_seconds,
                 throughput |-> tokens >= objectives.min_output_tokens_per_second * Window(traces)]
  IN  {violation \in DOMAIN holds : ~holds[violation]}

EvaluateService(traces, objectives) ==
  LET violations == ServiceViolations(traces, objectives)
  IN  [meets_objectives |-> violations = {}, violations |-> violations,
       p95 |-> [ttft |-> P95(Ttft, traces), tpot |-> P95(Tpot, traces), e2e |-> P95(E2e, traces)]]

====
