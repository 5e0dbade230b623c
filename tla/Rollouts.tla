---- MODULE Rollouts ----
(***************************************************************************)
(* evaluate_rollout of src/inference_platform/rollouts.py: a candidate     *)
(* measurement against a baseline and against requirements fixed before    *)
(* the run.  Measurements are integers in a unit of their field, relative  *)
(* throughput is in percent.  Revisions are not modelled.                  *)
(***************************************************************************)
EXTENDS Integers

(* _validate_measurement: anything else raises. *)
ReleaseMeasured(m) ==
  /\ m.sample_count >= 0
  /\ m.output_tokens_per_second > 0
  /\ \A field \in {"quality_score", "p95_ttft_seconds", "p95_tpot_seconds", "error_rate"} :
       m[field] >= 0

(* _validate_requirements. *)
ReleaseRequired(q) ==
  /\ q.min_sample_count > 0
  /\ \A field \in DOMAIN q : q[field] >= 0

ReleaseValid(baseline, candidate, q) ==
  ReleaseMeasured(baseline) /\ ReleaseMeasured(candidate) /\ ReleaseRequired(q)

(* The readiness controls that hold a candidate back (lines 77-83). *)
Unready(candidate, q) ==
  LET holds == [warmup |-> candidate.warmed,
                sample |-> candidate.sample_count >= q.min_sample_count]
  IN  {control \in DOMAIN holds : ~holds[control]}

(* Mutated form: throughput is divided the other way round. *)
ThroughputInverted(baseline, candidate, q) ==
  100 * baseline.output_tokens_per_second
    >= q.min_relative_throughput * candidate.output_tokens_per_second

ThroughputKept(baseline, candidate, q) ==
  100 * candidate.output_tokens_per_second
    >= q.min_relative_throughput * baseline.output_tokens_per_second

(* Mutated form: the absolute floor is forgotten. *)
AnyQuality(candidate, q) == TRUE

AboveFloor(candidate, q) == candidate.quality_score >= q.min_quality_score

(* The controls that roll a candidate back; each is looked at (lines 85-100). *)
Regressions(baseline, candidate, q) ==
  LET holds ==
        [quality_floor |-> AboveFloor(candidate, q),
         quality_drop  |-> baseline.quality_score - candidate.quality_score <= q.max_quality_drop,
         ttft          |-> candidate.p95_ttft_seconds <= q.max_p95_ttft_seconds,
         tpot          |-> candidate.p95_tpot_seconds <= q.max_p95_tpot_seconds,
         throughput    |-> ThroughputKept(baseline, candidate, q),
         errors        |-> candidate.error_rate <= q.max_error_rate]
  IN  {control \in DOMAIN holds : ~holds[control]}

(* No controls stand for the sentence of a pass, and of a shadow that passed. *)
Decision(action, controls) == [action |-> action, deciding_controls |-> controls]

EvaluateRollout(baseline, candidate, q) ==
  LET unready     == Unready(candidate, q)
      regressions == Regressions(baseline, candidate, q)
  IN  IF unready # {} THEN Decision("hold", unready)
      ELSE IF regressions # {} THEN Decision("rollback", regressions)
      ELSE Decision(IF candidate.mode = "shadow" THEN "hold" ELSE "promote", {})

====
