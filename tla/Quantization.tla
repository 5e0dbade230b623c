---- MODULE Quantization ----
(***************************************************************************)
(* evaluate_quantization of src/inference_platform/quantization.py.        *)
(* Measurements are integers in a unit of their field, relative throughput *)
(* is in percent.  Names are not modelled; weight_bits decides nothing     *)
(* beyond being positive.                                                  *)
(***************************************************************************)
EXTENDS Integers

(* _validate_measurement: anything else raises.  Quality is not checked. *)
FormatMeasured(m) ==
  /\ m.weight_bits > 0 /\ m.weight_memory_gib > 0
  /\ m.p95_ttft_seconds >= 0 /\ m.output_tokens_per_second > 0

FormatValid(baseline, candidate, q) ==
  /\ FormatMeasured(baseline) /\ FormatMeasured(candidate)
  /\ \A field \in DOMAIN q : q[field] >= 0

(* Mutated form: throughput is only looked at when the latency is in order. *)
FormatKeepsUp(baseline, candidate, q) ==
  \/ candidate.p95_ttft_seconds > q.max_p95_ttft_seconds
  \/ 100 * candidate.output_tokens_per_second
       >= q.min_relative_throughput * baseline.output_tokens_per_second

FormatKeepsThroughput(baseline, candidate, q) ==
  100 * candidate.output_tokens_per_second
    >= q.min_relative_throughput * baseline.output_tokens_per_second

(* Every failed control, whether or not another one failed (lines 81-93). *)
Rejections(baseline, candidate, q) ==
  LET holds ==
        [hardware      |-> candidate.hardware_supported,
         quality_floor |-> candidate.quality_score >= q.min_quality_score,
         quality_drop  |-> baseline.quality_score - candidate.quality_score <= q.max_quality_drop,
         memory        |-> candidate.weight_memory_gib <= q.max_weight_memory_gib,
         ttft          |-> candidate.p95_ttft_seconds <= q.max_p95_ttft_seconds,
         throughput    |-> FormatKeepsThroughput(baseline, candidate, q)]
  IN  {control \in DOMAIN holds : ~holds[control]}

EvaluateQuantization(baseline, candidate, q) ==
  LET rejections == Rejections(baseline, candidate, q)
  IN  [action |-> IF rejections = {} THEN "stage" ELSE "reject", deciding_controls |-> rejections]

====
