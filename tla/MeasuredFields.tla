---- MODULE MeasuredFields ----
(***************************************************************************)
(* The fields of ReleaseMeasurement and ReleaseRequirements (rollouts.py)  *)
(* and of the measurements of quantization.py that decide something, what  *)
(* they may hold, and which of two values speaks for a candidate.          *)
(***************************************************************************)
EXTENDS Integers, Sequences

ReleaseFields ==
  {"mode", "warmed", "sample_count", "quality_score", "p95_ttft_seconds", "p95_tpot_seconds",
   "output_tokens_per_second", "error_rate"}

ReleaseRequiredFields ==
  {"min_sample_count", "min_quality_score", "max_quality_drop", "max_p95_ttft_seconds",
   "max_p95_tpot_seconds", "min_relative_throughput", "max_error_rate"}

FormatFields ==
  {"hardware_supported", "weight_bits", "quality_score", "weight_memory_gib",
   "p95_ttft_seconds", "output_tokens_per_second"}

FieldValues(field) ==
  CASE field = "mode" -> {"shadow", "canary"}
    [] field \in {"warmed", "hardware_supported"} -> BOOLEAN
    [] field \in {"draft", "target"} -> Seq(Int)
    [] OTHER -> Int

IsRelease(m) == \A field \in ReleaseFields : m[field] \in FieldValues(field)

(* Measured as x, a field does not speak for a candidate more than as y.     *)
NoBetterValue(field, x, y) ==
  CASE field \in {"warmed", "hardware_supported"} -> x => y
    [] field = "mode" -> x \in {"shadow", y}
    [] field \in {"sample_count", "quality_score", "output_tokens_per_second"} -> x <= y
    [] field \in {"p95_ttft_seconds", "p95_tpot_seconds", "error_rate", "weight_memory_gib",
                  "weight_bits"} -> x >= y

====
