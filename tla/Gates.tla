---- MODULE Gates ----
(***************************************************************************)
(* The four evidence gates of the course: rollouts.py, quantization.py,    *)
(* metrics.py and speculative.py.  A gate is asked about some evidence and *)
(* asked again after one measurement of it was taken anew, the way the     *)
(* tests vary one field of a measurement.  External: a release the rollout *)
(* gate promotes becomes the baseline of the next candidate.               *)
(***************************************************************************)
EXTENDS Rollouts, Quantization, Speculative, Metrics, MeasuredFields

CONSTANTS
  GateNames,        \* the gates that are asked
  Evidence,         \* the evidence a gate is first asked about: gate to record
  Measurements,     \* what a field may be measured as: gate to field to set
  Ideal,            \* a measurement nothing can be said against: gate to record
  Required,         \* what may be required of a gate: gate to set of requirements
  FirstRelease,     \* the release that runs to begin with
  FormatBaseline,   \* the quantization baseline
  Traces(_),        \* the traces a service load leaves
  MaxPromotions     \* bound on the promotions of a behaviour

ASSUME GatesAssumption ==
  /\ GateNames \subseteq {"rollout", "quantization", "service", "speculation"}
  /\ \A gate \in GateNames :
       /\ Evidence[gate] = [field \in DOMAIN Evidence[gate] |-> Evidence[gate][field]]
       /\ DOMAIN Measurements[gate] \subseteq DOMAIN Evidence[gate]
  /\ ReleaseMeasured(FirstRelease)
  /\ MaxPromotions \in Nat

(* What a field of the evidence may be in some call. *)
Possible(gate, field) ==
  {Evidence[gate][field]}
    \cup IF field \in DOMAIN Measurements[gate] THEN Measurements[gate][field] ELSE {}

RoundFields ==
  {"draft", "target", "baseline_seconds", "draft_seconds", "verification_seconds",
   "minimum_speedup"}

(* The fields of the dataclasses, by the gate that reads them. *)
Fields ==
  [rollout |-> ReleaseFields, quantization |-> FormatFields, speculation |-> RoundFields]

RequiredFields ==
  [rollout |-> ReleaseRequiredFields,
   quantization |-> {"min_quality_score", "max_quality_drop", "max_weight_memory_gib",
                     "max_p95_ttft_seconds", "min_relative_throughput"},
   service |-> {"max_p95_ttft_seconds", "max_p95_tpot_seconds", "max_p95_e2e_seconds",
                "min_output_tokens_per_second"},
   speculation |-> {}]

Trace == [arrived_at : Int, first_token_at : Int, completed_at : Int, output_tokens : Int]

(* The loads the service gate may be asked about. *)
Loads ==
  LET fields == DOMAIN Evidence["service"]
  IN  {load \in [fields -> UNION {Possible("service", field) : field \in fields}] :
         \A field \in fields : load[field] \in Possible("service", field)}

(* Measurements and requirements are numbers, tokens are numbers. *)
ASSUME MeasuredAssumption ==
  /\ \A field \in ReleaseFields : FirstRelease[field] \in FieldValues(field)
  /\ FormatBaseline.quality_score \in Int /\ FormatBaseline.output_tokens_per_second \in Int
  /\ \A gate \in GateNames \ {"service"} :
       /\ Fields[gate] \subseteq DOMAIN Evidence[gate]
       /\ \A field \in Fields[gate] : Possible(gate, field) \subseteq FieldValues(field)
  /\ \A gate \in GateNames : \A q \in Required[gate] :
       /\ RequiredFields[gate] \subseteq DOMAIN q
       /\ \A field \in RequiredFields[gate] : q[field] \in Int
  /\ "service" \in GateNames => \A load \in Loads : Traces(load) \in Seq(Trace)

(* Releases that may come to run, as far as a later candidate is held to them. *)
Comparable ==
  LET values(field) == {FirstRelease[field]} \cup Possible("rollout", field)
  IN  {[quality_score |-> quality, output_tokens_per_second |-> rate] :
         quality \in values("quality_score"), rate \in values("output_tokens_per_second")}

(* Nothing can be said against the ideal measurements, whatever runs. *)
ASSUME IdealAssumption ==
  /\ "rollout" \in GateNames =>
       LET ideal == Ideal["rollout"]
       IN  /\ \A field \in ReleaseFields : ideal[field] \in FieldValues(field)
           /\ ReleaseMeasured(ideal) /\ ideal.warmed
           /\ \A q \in Required["rollout"] :
                /\ ideal.sample_count >= q.min_sample_count
                /\ ideal.quality_score >= q.min_quality_score
                /\ ideal.p95_ttft_seconds <= q.max_p95_ttft_seconds
                /\ ideal.p95_tpot_seconds <= q.max_p95_tpot_seconds
                /\ ideal.error_rate <= q.max_error_rate
                /\ \A old \in Comparable :
                     /\ old.quality_score - ideal.quality_score <= q.max_quality_drop
                     /\ 100 * ideal.output_tokens_per_second
                          >= q.min_relative_throughput * old.output_tokens_per_second
  /\ "quantization" \in GateNames =>
       LET ideal == Ideal["quantization"]
       IN  /\ \A field \in FormatFields : ideal[field] \in FieldValues(field)
           /\ FormatMeasured(ideal) /\ ideal.hardware_supported
           /\ \A q \in Required["quantization"] :
                /\ ideal.quality_score >= q.min_quality_score
                /\ FormatBaseline.quality_score - ideal.quality_score <= q.max_quality_drop
                /\ ideal.weight_memory_gib <= q.max_weight_memory_gib
                /\ ideal.p95_ttft_seconds <= q.max_p95_ttft_seconds
                /\ 100 * ideal.output_tokens_per_second
                     >= q.min_relative_throughput * FormatBaseline.output_tokens_per_second

VARIABLES
  asked,       \* the gate, its evidence, and what is required of it
  answer,      \* what the gate said
  baseline,    \* the release that runs now
  promotions   \* releases promoted so far

vars == <<asked, answer, baseline, promotions>>

Unanswered == [answered |-> FALSE]

Raised == [raised |-> TRUE]

-----------------------------------------------------------------------------
ReleaseGate(question) ==
  IF ReleaseValid(baseline, question.evidence, question.required)
    THEN EvaluateRollout(baseline, question.evidence, question.required)
    ELSE Raised

FormatGate(question) ==
  IF FormatValid(FormatBaseline, question.evidence, question.required)
    THEN EvaluateQuantization(FormatBaseline, question.evidence, question.required)
    ELSE Raised

ServiceGate(question) ==
  IF TracesValid(Traces(question.evidence), question.required)
    THEN EvaluateService(Traces(question.evidence), question.required)
    ELSE Raised

SpeculationGate(question) ==
  IF RoundValid(question.evidence) THEN EvaluateSpeculation(question.evidence) ELSE Raised

Answer(question) ==
  CASE question.gate = "rollout"      -> ReleaseGate(question)
    [] question.gate = "quantization" -> FormatGate(question)
    [] question.gate = "service"      -> ServiceGate(question)
    [] question.gate = "speculation"  -> SpeculationGate(question)

Evaluate ==
  /\ answer = Unanswered
  /\ answer' = Answer(asked)
  /\ UNCHANGED <<asked, baseline, promotions>>

(* External: one field is measured anew, and the gate evaluated again. *)
Remeasure(field) ==
  /\ answer # Unanswered
  /\ \E value \in Measurements[asked.gate][field] \ {asked.evidence[field]} :
       asked' = [asked EXCEPT !.evidence[field] = value]
  /\ answer' = Answer(asked')
  /\ UNCHANGED <<baseline, promotions>>

(* External: the promoted candidate is the baseline from now on. *)
Promote ==
  /\ asked.gate = "rollout"
  /\ answer \notin {Unanswered, Raised}
  /\ answer.action = "promote"
  /\ promotions < MaxPromotions
  /\ baseline' = asked.evidence
  /\ promotions' = promotions + 1
  /\ answer' = Unanswered
  /\ UNCHANGED asked

Init ==
  /\ \E gate \in GateNames, required \in UNION {Required[g] : g \in GateNames} :
       /\ required \in Required[gate]
       /\ asked = [gate |-> gate, evidence |-> Evidence[gate], required |-> required]
  /\ answer = Unanswered
  /\ baseline = FirstRelease
  /\ promotions = 0

Next == Evaluate \/ Promote \/ \E field \in DOMAIN Measurements[asked.gate] : Remeasure(field)

Spec == Init /\ [][Next]_vars

-----------------------------------------------------------------------------
(* Safety *)

Answered == answer \notin {Unanswered, Raised}

Passes(question, given) ==
  CASE question.gate = "rollout"      -> given.action = "promote"
    [] question.gate = "quantization" -> given.action = "stage"
    [] question.gate = "service"      -> given.meets_objectives
    [] question.gate = "speculation"  -> given.enable

(* Evidence e is no better than evidence f: nothing measured speaks for e.   *)
WorseMeasured(e, f) == \A field \in DOMAIN e : NoBetterValue(field, e[field], f[field])

SlowerTraces(s, t) ==
  /\ Len(s) = Len(t)
  /\ \A i \in DOMAIN s :
       /\ s[i].arrived_at = t[i].arrived_at /\ s[i].output_tokens = t[i].output_tokens
       /\ s[i].first_token_at >= t[i].first_token_at
       /\ s[i].completed_at - s[i].first_token_at >= t[i].completed_at - t[i].first_token_at

Agrees(round, k) == SubSeq(round.draft, 1, k) = SubSeq(round.target, 1, k)

CostlierRound(e, f) ==
  /\ e.target = f.target /\ Len(e.draft) = Len(f.draft)
  /\ \A k \in DOMAIN e.draft : Agrees(e, k) => Agrees(f, k)
  /\ e.baseline_seconds <= f.baseline_seconds
  /\ e.draft_seconds >= f.draft_seconds
  /\ e.verification_seconds >= f.verification_seconds
  /\ e.minimum_speedup >= f.minimum_speedup

NoBetter(gate, e, f) ==
  CASE gate \in {"rollout", "quantization"} -> WorseMeasured(e, f)
    [] gate = "service"     -> SlowerTraces(Traces(e), Traces(f))
    [] gate = "speculation" -> CostlierRound(e, f)

(* A gate is monotone: no measurement that got worse, of evidence the gate   *)
(* had accepted as evidence, turns a refusal into a pass.                    *)
WorseNeverPasses ==
  [][(Answered /\ Answered' /\ NoBetter(asked.gate, asked'.evidence, asked.evidence)
       /\ Passes(asked', answer')) => Passes(asked, answer)]_vars

FieldOf(control) ==
  CASE control = "warmup"     -> "warmed"
    [] control = "sample"     -> "sample_count"
    [] control = "hardware"   -> "hardware_supported"
    [] control \in {"quality_floor", "quality_drop"} -> "quality_score"
    [] control = "ttft"       -> "p95_ttft_seconds"
    [] control = "tpot"       -> "p95_tpot_seconds"
    [] control = "errors"     -> "error_rate"
    [] control = "memory"     -> "weight_memory_gib"
    [] control = "throughput" -> "output_tokens_per_second"

Repaired(fields) ==
  Answer([asked EXCEPT !.evidence =
            [field \in DOMAIN @ |-> IF field \in fields THEN Ideal[asked.gate][field]
                                    ELSE @[field]]])

(* The deciding controls are the whole reason and nothing else               *)
(* (rollouts.py:66, quantization.py:58): putting right what they name ends   *)
(* the refusal, and leaving any one of them as it was does not, whatever     *)
(* else is put right.                                                        *)
NamedControlsDecide ==
  (Answered /\ asked.gate \in {"rollout", "quantization"} /\ answer.deciding_controls # {}) =>
    LET fields == {FieldOf(control) : control \in answer.deciding_controls}
        after  == Repaired(fields)
    IN  /\ after.action = answer.action => after.deciding_controls = {}
        /\ \A field \in fields :
             Repaired(DOMAIN asked.evidence \ {field}).deciding_controls # {}

QualityErosionBounded ==
  asked.gate = "rollout" =>
    /\ baseline.quality_score
         >= FirstRelease.quality_score - promotions * asked.required.max_quality_drop
    /\ promotions > 0 => baseline.quality_score >= asked.required.min_quality_score

Power(base, exponent) ==
  LET power[n \in 0..exponent] == IF n = 0 THEN 1 ELSE base * power[n - 1]
  IN  power[exponent]

(* However many candidates are promoted one after the other, each against    *)
(* the one before it, the release that runs is never further below the first *)
(* than the allowances add up to, and never below the absolute floor.        *)
ErosionBounded ==
  /\ QualityErosionBounded
  /\ asked.gate = "rollout" =>
       Power(100, promotions) * baseline.output_tokens_per_second
         >= Power(asked.required.min_relative_throughput, promotions)
              * FirstRelease.output_tokens_per_second

IsP95(value, values) ==
  /\ 100 * Cardinality({i \in DOMAIN values : values[i] <= value}) >= 95 * Len(values)
  /\ 100 * Cardinality({i \in DOMAIN values : values[i] < value}) < 95 * Len(values)

(* The reported tail is the least value that at least 95 of a hundred traces *)
(* stay within, at sample sizes on both sides of the steps of the ceiling.   *)
P95IsNearestRank ==
  (Answered /\ asked.gate = "service") =>
    LET traces == Traces(asked.evidence)
    IN  /\ IsP95(answer.p95.ttft, [i \in DOMAIN traces |-> Ttft(traces[i])])
        /\ IsP95(answer.p95.tpot, [i \in DOMAIN traces |-> Tpot(traces[i])])
        /\ IsP95(answer.p95.e2e, [i \in DOMAIN traces |-> E2e(traces[i])])

(* A round emits only tokens the target supplied (speculative.py:50-54): all *)
(* but the last agree with the draft, and the first that does not agree, or  *)
(* the one past the draft, is the last.                                      *)
EmittedSupplied ==
  (Answered /\ asked.gate = "speculation") =>
    LET round == asked.evidence
    IN  /\ answer.emitted \in 1..Len(round.target)
        /\ Agrees(round, answer.emitted - 1)
        /\ answer.emitted <= Len(round.draft) => ~Agrees(round, answer.emitted)

====
